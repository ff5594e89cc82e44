-------------------------- MODULE TimerQueueProofs --------------------------
(* Proofs about TimerQueue, for any number of timers and CPUs and any       *)
(* deadlines and slacks.                                                    *)
EXTENDS TimerQueue, SequenceTheorems, WellFoundedInduction, TLAPS

(* A nonempty set of naturals has a least element,                          *)
LEMMA MinNat ==
  ASSUME NEW S, S \subseteq Nat, S # {}
  PROVE  Min(S) \in S /\ \A y \in S : Min(S) <= y
<1>1. PICK x \in S : \A y \in S : ~(<<y, x>> \in OpToRel(<, Nat))
  BY NatLessThanWellFounded, WFMin
<1>2. \A y \in S : ~(y < x)
  BY <1>1 DEF OpToRel
<1>3. \A y \in S : x <= y
  BY <1>2
<1> QED BY <1>3 DEF Min

(* so that a set with 0 and with the successor of every member has all.     *)
LEMMA SetInduction ==
  ASSUME NEW T, 0 \in T, \A n \in Nat : n \in T => n + 1 \in T
  PROVE  \A n \in Nat : n \in T
<1> SUFFICES ASSUME NEW m \in Nat, m \notin T PROVE FALSE
  OBVIOUS
<1> DEFINE S == {n \in Nat : n \notin T}
<1>1. Min(S) \in S /\ \A y \in S : Min(S) <= y
  BY MinNat
<1>2. PICK k \in Nat : k = Min(S)
  BY <1>1
<1>3. k \notin T /\ k # 0 /\ \A y \in Nat : y \notin T => k <= y
  BY <1>1, <1>2
<1>4. k - 1 \in Nat /\ (k - 1) + 1 = k /\ ~(k <= k - 1)
  BY <1>3
<1> QED BY <1>3, <1>4

(* What InsertAt and RemoveFirst leave.                                     *)
LEMMA InsertAtFacts ==
  ASSUME NEW S, NEW q \in Seq(S), NEW i \in 1 .. (Len(q) + 1), NEW t \in S
  PROVE  /\ InsertAt(q, i, t) \in Seq(S)
         /\ Len(InsertAt(q, i, t)) = Len(q) + 1
         /\ \A j \in 1 .. (Len(q) + 1) :
              InsertAt(q, i, t)[j] =
                IF j < i THEN q[j] ELSE IF j = i THEN t ELSE q[j - 1]
<1> DEFINE a == SubSeq(q, 1, i - 1)
           b == SubSeq(q, i, Len(q))
<1>1. Len(q) \in Nat /\ i \in Nat
  OBVIOUS
<1>2. /\ a \in Seq(S) /\ Len(a) = i - 1
      /\ \A j \in 1 .. (i - 1) : a[j] = q[j]
  BY <1>1, SubSeqProperties
<1>3. /\ b \in Seq(S) /\ Len(b) = Len(q) - i + 1
      /\ \A j \in 1 .. (Len(q) - i + 1) : b[j] = q[i + j - 1]
  BY <1>1, SubSeqProperties
<1> HIDE DEF a, b
<1>4. InsertAt(q, i, t) = (a \o <<t>>) \o b
  BY DEF InsertAt, a, b
<1>5. /\ a \o <<t>> \in Seq(S) /\ Len(a \o <<t>>) = i
      /\ \A j \in 1 .. i : (a \o <<t>>)[j] = IF j < i THEN q[j] ELSE t
  BY <1>1, <1>2
<1> DEFINE c == a \o <<t>>
<1>6. c \in Seq(S) /\ Len(c) = i
  BY <1>5
<1> HIDE DEF c
<1>7. /\ c \o b \in Seq(S) /\ Len(c \o b) = Len(c) + Len(b)
      /\ \A j \in 1 .. (Len(c) + Len(b)) :
           (c \o b)[j] = IF j <= Len(c) THEN c[j] ELSE b[j - Len(c)]
  BY <1>3, <1>6, ConcatProperties
<1>8. Len(c) + Len(b) = Len(q) + 1
  BY <1>1, <1>3, <1>6
<1>9. ASSUME NEW j \in 1 .. (Len(q) + 1)
      PROVE  (c \o b)[j] = IF j < i THEN q[j] ELSE IF j = i THEN t ELSE q[j - 1]
  <2>1. CASE j <= i
    BY <1>1, <1>5, <1>6, <1>7, <1>8, <2>1 DEF c
  <2>2. CASE ~(j <= i)
    <3>1. j - i \in 1 .. (Len(q) - i + 1) /\ i + (j - i) - 1 = j - 1
      BY <1>1, <2>2
    <3>2. (c \o b)[j] = b[j - i]
      BY <1>1, <1>6, <1>7, <1>8, <2>2
    <3>3. b[j - i] = q[j - 1]
      BY <1>3, <3>1
    <3> QED BY <1>1, <2>2, <3>2, <3>3
  <2> QED BY <2>1, <2>2
<1> QED BY <1>4, <1>7, <1>8, <1>9 DEF c

LEMMA RemoveFirstFacts ==
  ASSUME NEW S, NEW q \in Seq(S), NEW t \in S
  PROVE  /\ RemoveFirst(q, t) \in Seq(S)
         /\ \/ RemoveFirst(q, t) = q /\ \A j \in 1 .. Len(q) : q[j] # t
            \/ \E i \in 1 .. Len(q) :
                 /\ q[i] = t
                 /\ Len(RemoveFirst(q, t)) = Len(q) - 1
                 /\ \A j \in 1 .. (Len(q) - 1) :
                      RemoveFirst(q, t)[j] = IF j < i THEN q[j] ELSE q[j + 1]
<1>1. Len(q) \in Nat
  OBVIOUS
<1>2. CASE \A j \in 1 .. Len(q) : q[j] # t
  BY <1>2 DEF RemoveFirst
<1>3. CASE \E j \in 1 .. Len(q) : q[j] = t
  <2> DEFINE I == {j \in 1 .. Len(q) : q[j] = t}
             i == Min(I)
  <2>1. i \in 1 .. Len(q) /\ q[i] = t
    <3>1. I \subseteq Nat /\ I # {}
      BY <1>3
    <3>2. i \in I
      BY <3>1, MinNat
    <3> QED BY <3>2
  <2>2. SelectInSeq(q, LAMBDA v : v = t) = i
    BY <1>3 DEF SelectInSeq
  <2>3. RemoveFirst(q, t) = SubSeq(q, 1, i - 1) \o SubSeq(q, i + 1, Len(q))
    BY <1>3, <2>2 DEF RemoveFirst, RemoveAt
  <2> HIDE DEF i, I
  <2> DEFINE a == SubSeq(q, 1, i - 1)
             b == SubSeq(q, i + 1, Len(q))
  <2>4. /\ a \in Seq(S) /\ Len(a) = i - 1
        /\ \A j \in 1 .. (i - 1) : a[j] = q[j]
    BY <1>1, <2>1, SubSeqProperties
  <2>5. /\ b \in Seq(S) /\ Len(b) = Len(q) - i
        /\ \A j \in 1 .. (Len(q) - i) : b[j] = q[i + j]
    BY <1>1, <2>1, SubSeqProperties
  <2>6. RemoveFirst(q, t) = a \o b
    BY <2>3
  <2> HIDE DEF a, b
  <2>7. /\ a \o b \in Seq(S) /\ Len(a \o b) = Len(q) - 1
        /\ \A j \in 1 .. (Len(q) - 1) : (a \o b)[j] = IF j < i THEN q[j] ELSE q[j + 1]
    <3>1. /\ a \o b \in Seq(S) /\ Len(a \o b) = Len(a) + Len(b)
          /\ \A j \in 1 .. (Len(a) + Len(b)) :
               (a \o b)[j] = IF j <= Len(a) THEN a[j] ELSE b[j - Len(a)]
      BY <2>4, <2>5, ConcatProperties
    <3>2. Len(a) + Len(b) = Len(q) - 1
      BY <1>1, <2>1, <2>4, <2>5
    <3>3. ASSUME NEW j \in 1 .. (Len(q) - 1)
          PROVE  (a \o b)[j] = IF j < i THEN q[j] ELSE q[j + 1]
      <4>1. CASE j < i
        <5>1. j <= Len(a) /\ j \in 1 .. (i - 1)
          BY <1>1, <2>1, <2>4, <4>1
        <5> QED BY <2>4, <3>1, <3>2, <4>1, <5>1
      <4>2. CASE ~(j < i)
        <5>1. j - (i - 1) \in 1 .. (Len(q) - i) /\ i + (j - (i - 1)) = j + 1 /\ ~(j <= Len(a))
          BY <1>1, <2>1, <2>4, <4>2
        <5>2. (a \o b)[j] = b[j - (i - 1)]
          BY <2>4, <3>1, <3>2, <5>1
        <5> QED BY <2>5, <4>2, <5>1, <5>2
      <4> QED BY <4>1, <4>2
    <3> QED BY <3>1, <3>2, <3>3
  <2> QED BY <2>1, <2>6, <2>7
<1> QED BY <1>2, <1>3

-----------------------------------------------------------------------------
(* A queue in order of the times s, without repetition.                     *)
Ordered(q, s) ==
  \A i, j \in DOMAIN q : i < j => s[q[i]] <= s[q[j]] /\ q[i] # q[j]

(* Where the loop of Insert stops: all entries before are passed over.      *)
LEMMA StopAtFacts ==
  ASSUME NEW at \in Seq(Nat), NEW when \in Nat, NEW earliest \in Int, NEW latest \in Int
  PROVE  LET s == StopAt(at, when, earliest, latest) IN
         /\ s \in 1 .. (Len(at) + 1)
         /\ \A j \in 1 .. (s - 1) : PassOver(at, j, when, earliest, latest)
         /\ s <= Len(at) => ~PassOver(at, s, when, earliest, latest)
<1> DEFINE P(j) == PassOver(at, j, when, earliest, latest)
           S == {Len(at) + 1} \cup {i \in DOMAIN at : ~P(i)}
           s == StopAt(at, when, earliest, latest)
<1>1. Len(at) \in Nat /\ DOMAIN at = 1 .. Len(at)
  OBVIOUS
<1> HIDE DEF P
<1>2. S \subseteq Nat /\ S # {}
  BY <1>1
<1>3. s = Min(S)
  BY DEF StopAt, P
<1>4. s \in S /\ \A y \in S : s <= y
  BY <1>2, <1>3, MinNat
<1> HIDE DEF s
<1>5. s \in 1 .. (Len(at) + 1)
  BY <1>1, <1>4
<1>6. \A j \in 1 .. (s - 1) : P(j)
  BY <1>1, <1>4, <1>5
<1>7. s <= Len(at) => ~P(s)
  BY <1>1, <1>4
<1> QED BY <1>5, <1>6, <1>7 DEF s, P

(* The place and the time Insert chooses: after every earlier timer, before *)
(* every later one, at the time of its neighbour or at its own, inside the  *)
(* window.                                                                  *)
Fits(q, s, p, time, when) ==
  /\ p \in 1 .. (Len(q) + 1)
  /\ \A j \in 1 .. Len(q) : IF j < p THEN s[q[j]] <= time ELSE time <= s[q[j]]
  /\ \/ time = when
     \/ p > 1 /\ time = s[q[p - 1]]

Insertable(q, s, t, when, earliest, latest) ==
  /\ s \in [Timers -> Nat]
  /\ q \in Seq(Timers)
  /\ Ordered(q, s)
  /\ t \in Timers \ ToSet(q)
  /\ when \in Nat /\ earliest \in Int /\ latest \in Int
  /\ earliest <= when /\ when <= latest

LEMMA InsertFits ==
  ASSUME NEW q, NEW s, NEW t, NEW when, NEW earliest, NEW latest,
         Insertable(q, s, t, when, earliest, latest)
  PROVE  \E p, time : /\ Fits(q, s, p, time, when)
                      /\ time \in earliest .. latest
                      /\ Insert(q, s, t, when, earliest, latest) =
                           [list |-> InsertAt(q, p, t), time |-> time]
<1>0. /\ s \in [Timers -> Nat] /\ q \in Seq(Timers) /\ Ordered(q, s)
      /\ t \in Timers /\ t \notin ToSet(q)
      /\ when \in Nat /\ earliest \in Int /\ latest \in Int
      /\ earliest <= when /\ when <= latest
  BY DEF Insertable
<1> USE <1>0
<1> DEFINE at == [i \in DOMAIN q |-> s[q[i]]]
           i == StopAt(at, when, earliest, latest)
<1>1. Len(q) \in Nat /\ DOMAIN q = 1 .. Len(q) /\ \A j \in 1 .. Len(q) : q[j] \in Timers
  OBVIOUS
<1>2. at \in Seq(Nat) /\ Len(at) = Len(q) /\ \A j \in 1 .. Len(q) : at[j] = s[q[j]]
  <2>1. at = [j \in 1 .. Len(q) |-> s[q[j]]]
    BY <1>1
  <2>2. \A j \in 1 .. Len(q) : s[q[j]] \in Nat
    BY <1>1
  <2>3. at \in Seq(Nat)
    BY <1>1, <2>1, <2>2, IsASeq
  <2> QED BY <1>1, <2>1, <2>3
<1>3. \A j, k \in 1 .. Len(q) : j < k => at[j] <= at[k]
  BY <1>1, <1>2 DEF Ordered
<1>4. \A j \in 1 .. Len(q) : at[j] \in Nat
  BY <1>1, <1>2
<1> HIDE DEF at
<1>5. /\ i \in 1 .. (Len(q) + 1)
      /\ \A j \in 1 .. (i - 1) : at[j] < when
      /\ i <= Len(q) => ~PassOver(at, i, when, earliest, latest)
  BY <1>2, StopAtFacts DEF PassOver
<1>6. Insert(q, s, t, when, earliest, latest) =
        IF Joins(at, i, latest)
          THEN [list |-> InsertAt(q, i + 1, t), time |-> at[i]]
          ELSE [list |-> InsertAt(q, i, t), time |-> when]
  BY DEF Insert, at
<1> HIDE DEF i
<1>7. CASE Joins(at, i, latest)
  <2>1. i \in 1 .. Len(q) /\ at[i] <= latest /\ i + 1 \in 1 .. (Len(q) + 1) /\ (i + 1) - 1 = i
    BY <1>1, <1>2, <1>5, <1>7 DEF Joins
  <2>2. at[i] >= earliest
    BY <1>4, <1>5, <2>1 DEF PassOver
  <2>3. \A j \in 1 .. Len(q) : IF j < i + 1 THEN at[j] <= at[i] ELSE at[i] <= at[j]
    BY <1>1, <1>3, <1>4, <2>1
  <2>4. Fits(q, s, i + 1, at[i], when)
    BY <1>2, <2>1, <2>3 DEF Fits
  <2>5. at[i] \in earliest .. latest
    BY <1>4, <2>1, <2>2
  <2> QED BY <1>6, <1>7, <2>4, <2>5
<1>8. CASE ~Joins(at, i, latest)
  <2>1. i <= Len(q) => at[i] > latest
    BY <1>1, <1>2, <1>4, <1>5, <1>8 DEF Joins
  <2>2. \A j \in 1 .. Len(q) : IF j < i THEN at[j] <= when ELSE when <= at[j]
    <3> SUFFICES ASSUME NEW j \in 1 .. Len(q)
                 PROVE  IF j < i THEN at[j] <= when ELSE when <= at[j]
      OBVIOUS
    <3>1. CASE j < i
      <4>1. j \in 1 .. (i - 1)
        BY <1>1, <1>5, <3>1
      <4> QED BY <1>4, <1>5, <3>1, <4>1
    <3>2. CASE ~(j < i)
      <4>1. i \in 1 .. Len(q) /\ (i = j \/ i < j)
        BY <1>1, <1>5, <3>2
      <4>2. at[i] <= at[j]
        BY <1>3, <1>4, <4>1
      <4> QED BY <1>1, <1>4, <2>1, <3>2, <4>1, <4>2
    <3> QED BY <3>1, <3>2
  <2>3. Fits(q, s, i, when, when)
    BY <1>2, <1>5, <2>2 DEF Fits
  <2> QED BY <1>6, <1>8, <2>3
<1> QED BY <1>7, <1>8

(* A queue into which a new timer was put where it fits: in order still,    *)
(* and the timer is at its own time when it is the first.                   *)
PutIn(r, q, s, t, time, when) ==
  /\ r \in Seq(Timers)
  /\ ToSet(r) = ToSet(q) \cup {t}
  /\ Ordered(r, [s EXCEPT ![t] = time])
  /\ r # <<>>
  /\ Head(r) = t => time = when
  /\ Head(r) # t => q # <<>> /\ Head(r) = Head(q)

LEMMA InsertOrdered ==
  ASSUME NEW q, NEW s, NEW t, NEW when, NEW earliest, NEW latest,
         Insertable(q, s, t, when, earliest, latest),
         NEW p, NEW time, time \in Nat, Fits(q, s, p, time, when)
  PROVE  PutIn(InsertAt(q, p, t), q, s, t, time, when)
<1>0. /\ s \in [Timers -> Nat] /\ q \in Seq(Timers) /\ Ordered(q, s)
      /\ t \in Timers /\ t \notin ToSet(q)
      /\ when \in Nat /\ earliest \in Int /\ latest \in Int
      /\ earliest <= when /\ when <= latest
  BY DEF Insertable
<1> USE <1>0
<1> DEFINE r == InsertAt(q, p, t)
           z == [s EXCEPT ![t] = time]
<1>1. Len(q) \in Nat /\ DOMAIN q = 1 .. Len(q) /\ \A j \in 1 .. Len(q) : q[j] \in Timers
  OBVIOUS
<1>2. p \in 1 .. (Len(q) + 1)
  BY DEF Fits
<1>3. /\ r \in Seq(Timers) /\ Len(r) = Len(q) + 1
      /\ \A j \in 1 .. (Len(q) + 1) :
           r[j] = IF j < p THEN q[j] ELSE IF j = p THEN t ELSE q[j - 1]
  BY <1>2, InsertAtFacts
<1> HIDE DEF r
<1>4. DOMAIN r = 1 .. (Len(q) + 1)
  BY <1>3
<1>5. \A j \in 1 .. Len(q) : q[j] # t
  BY <1>1 DEF ToSet
<1>6. z[t] = time /\ \A u \in Timers : u # t => z[u] = s[u]
  OBVIOUS
<1>7. ToSet(r) = ToSet(q) \cup {t}
  <2>1. ASSUME NEW u \in ToSet(r) PROVE u \in ToSet(q) \cup {t}
    <3>1. PICK j \in 1 .. (Len(q) + 1) : u = r[j]
      BY <1>4 DEF ToSet
    <3>2. CASE j < p
      <4>1. j \in 1 .. Len(q)
        BY <1>1, <1>2, <3>2
      <4>2. u = q[j]
        BY <1>3, <3>1, <3>2
      <4> QED BY <1>1, <4>1, <4>2 DEF ToSet
    <3>3. CASE j > p
      <4>1. j - 1 \in 1 .. Len(q) /\ ~(j < p) /\ j # p
        BY <1>1, <1>2, <3>3
      <4>2. u = q[j - 1]
        BY <1>3, <3>1, <4>1
      <4> QED BY <1>1, <4>1, <4>2 DEF ToSet
    <3>4. CASE j = p
      BY <1>3, <3>1, <3>4
    <3> QED BY <1>1, <1>2, <3>2, <3>3, <3>4
  <2>2. ASSUME NEW u \in ToSet(q) PROVE u \in ToSet(r)
    <3>1. PICK j \in 1 .. Len(q) : u = q[j]
      BY <1>1 DEF ToSet
    <3>2. CASE j < p
      <4>1. j \in 1 .. (Len(q) + 1) /\ r[j] = u
        BY <1>1, <1>2, <1>3, <3>1, <3>2
      <4> QED BY <1>4, <4>1 DEF ToSet
    <3>3. CASE ~(j < p)
      <4>0. j + 1 \in 1 .. (Len(q) + 1) /\ (j + 1) - 1 = j /\ ~(j + 1 < p) /\ j + 1 # p
        BY <1>1, <1>2, <3>3
      <4>1. PICK k \in 1 .. (Len(q) + 1) : k = j + 1 /\ k - 1 = j /\ ~(k < p) /\ k # p
        BY <4>0
      <4>2. r[k] = u
        BY <1>3, <3>1, <4>1
      <4> QED BY <1>4, <4>2 DEF ToSet
    <3> QED BY <3>2, <3>3
  <2>3. t \in ToSet(r)
    <3>0. ~(p < p)
      BY <1>1, <1>2
    <3>1. p \in DOMAIN r /\ r[p] = t
      BY <1>2, <1>3, <1>4, <3>0
    <3> QED BY <3>1 DEF ToSet
  <2> QED BY <2>1, <2>2, <2>3
<1>8. Ordered(r, z)
  <2> SUFFICES ASSUME NEW i \in 1 .. (Len(q) + 1), NEW j \in 1 .. (Len(q) + 1), i < j
               PROVE  z[r[i]] <= z[r[j]] /\ r[i] # r[j]
    BY <1>4 DEF Ordered
  <2>0. /\ \A k \in 1 .. Len(q) : z[q[k]] = s[q[k]]
        /\ \A k, l \in 1 .. Len(q) : k < l => s[q[k]] <= s[q[l]] /\ q[k] # q[l]
    BY <1>1, <1>5, <1>6 DEF Ordered
  <2>1. CASE j < p
    <3>1. i \in 1 .. Len(q) /\ j \in 1 .. Len(q) /\ i < p
      BY <1>1, <1>2, <2>1
    <3>2. r[i] = q[i] /\ r[j] = q[j]
      BY <1>3, <2>1, <3>1
    <3> QED BY <2>0, <3>1, <3>2
  <2>2. CASE j = p
    <3>1. i \in 1 .. Len(q) /\ i < p
      BY <1>1, <1>2, <2>2
    <3>2. r[i] = q[i] /\ r[j] = t
      BY <1>3, <2>2, <3>1
    <3>3. s[q[i]] <= time
      BY <3>1 DEF Fits
    <3> QED BY <1>5, <1>6, <2>0, <3>1, <3>2, <3>3
  <2>3. CASE j > p
    <3>0. j - 1 \in 1 .. Len(q) /\ ~(j - 1 < p) /\ ~(j < p) /\ j # p
      BY <1>1, <1>2, <2>3
    <3>1. j - 1 \in 1 .. Len(q) /\ r[j] = q[j - 1] /\ ~(j - 1 < p)
      BY <1>3, <3>0
    <3>2. CASE i < p
      <4>1. i \in 1 .. Len(q) /\ r[i] = q[i] /\ i < j - 1
        BY <1>1, <1>2, <1>3, <2>3, <3>2
      <4> QED BY <2>0, <3>1, <4>1
    <3>3. CASE i = p
      <4>1. r[i] = t
        BY <1>2, <1>3, <3>3
      <4>2. time <= s[q[j - 1]]
        BY <3>1 DEF Fits
      <4> QED BY <1>5, <1>6, <2>0, <3>1, <4>1, <4>2
    <3>4. CASE i > p
      <4>0. i - 1 \in 1 .. Len(q) /\ i - 1 < j - 1 /\ ~(i < p) /\ i # p
        BY <1>1, <1>2, <2>3, <3>4
      <4>1. i - 1 \in 1 .. Len(q) /\ r[i] = q[i - 1] /\ i - 1 < j - 1
        BY <1>3, <4>0
      <4> QED BY <2>0, <3>1, <4>1
    <3> QED BY <1>1, <1>2, <3>2, <3>3, <3>4
  <2> QED BY <1>1, <1>2, <2>1, <2>2, <2>3
<1>9. r # <<>> /\ Head(r) = r[1]
  BY <1>1, <1>3
<1>10. 1 \in 1 .. (Len(q) + 1) /\ r[1] = (IF 1 < p THEN q[1] ELSE t)
  BY <1>1, <1>2, <1>3
<1>11. Head(r) = t => time = when
  <2>1. CASE p = 1
    BY <2>1 DEF Fits
  <2>2. CASE p # 1
    BY <1>1, <1>2, <1>5, <1>9, <1>10, <2>2
  <2> QED BY <2>1, <2>2
<1>12. Head(r) # t => q # <<>> /\ Head(r) = Head(q)
  BY <1>1, <1>2, <1>9, <1>10
<1> QED BY <1>3, <1>7, <1>8, <1>9, <1>11, <1>12 DEF r, PutIn

(* What Insert leaves: a timer more, at a time in its window.               *)
InsertResult(result, q, s, t, when, earliest, latest) ==
  /\ PutIn(result.list, q, s, t, result.time, when)
  /\ result.time \in earliest .. latest
  /\ result.time = when \/ \E u \in Timers : result.time = s[u]

LEMMA InsertFacts ==
  ASSUME NEW q, NEW s, NEW t, NEW when, NEW earliest, NEW latest,
         Insertable(q, s, t, when, earliest, latest)
  PROVE  InsertResult(Insert(q, s, t, when, earliest, latest),
                      q, s, t, when, earliest, latest)
<1>1. PICK p, time : /\ Fits(q, s, p, time, when)
                     /\ time \in earliest .. latest
                     /\ Insert(q, s, t, when, earliest, latest) =
                          [list |-> InsertAt(q, p, t), time |-> time]
  BY InsertFits
<1>2. time = when \/ \E u \in Timers : time = s[u]
  <2>1. CASE p > 1 /\ time = s[q[p - 1]]
    <3>1. p \in 1 .. (Len(q) + 1) /\ Len(q) \in Nat
      BY <1>1 DEF Fits, Insertable
    <3>2. p - 1 \in 1 .. Len(q)
      BY <2>1, <3>1
    <3>3. q[p - 1] \in Timers
      BY <3>2 DEF Insertable
    <3> QED BY <2>1, <3>3
  <2> QED BY <1>1, <2>1 DEF Fits
<1>3. time \in Nat
  BY <1>2 DEF Insertable
<1> DEFINE r == InsertAt(q, p, t)
<1>4. PutIn(r, q, s, t, time, when)
  BY <1>1, <1>3, InsertOrdered
<1> HIDE DEF r
<1>5. Insert(q, s, t, when, earliest, latest) = [list |-> r, time |-> time]
  BY <1>1 DEF r
<1> DEFINE x == [list |-> r, time |-> time]
<1>6. x.list = r /\ x.time = time
  OBVIOUS
<1> HIDE DEF x
<1>7. InsertResult(x, q, s, t, when, earliest, latest)
  BY <1>1, <1>2, <1>4, <1>6 DEF InsertResult
<1> QED BY <1>5, <1>7 DEF x

(* A queue without its first timer and without a timer that is cancelled.   *)
LEMMA HeadLeast ==
  ASSUME NEW s \in [Timers -> Nat], NEW q \in Seq(Timers), Ordered(q, s), q # <<>>
  PROVE  /\ Head(q) \in ToSet(q)
         /\ \A u \in ToSet(q) : s[Head(q)] <= s[u]
<1>1. Len(q) \in Nat /\ Len(q) >= 1 /\ Head(q) = q[1] /\ 1 \in 1 .. Len(q) /\ DOMAIN q = 1 .. Len(q)
  OBVIOUS
<1>2. \A j \in 1 .. Len(q) : q[j] \in Timers
  BY <1>1
<1>3. ASSUME NEW j \in 1 .. Len(q) PROVE s[q[1]] <= s[q[j]]
  <2>1. CASE j = 1
    BY <1>1, <1>2, <2>1
  <2>2. CASE j # 1
    <3>1. 1 < j
      BY <1>1, <2>2
    <3> QED BY <1>1, <3>1 DEF Ordered
  <2> QED BY <2>1, <2>2
<1> QED BY <1>1, <1>3 DEF ToSet

LEMMA TailOrdered ==
  ASSUME NEW s \in [Timers -> Nat], NEW q \in Seq(Timers), Ordered(q, s), q # <<>>
  PROVE  /\ Tail(q) \in Seq(Timers)
         /\ Ordered(Tail(q), s)
         /\ ToSet(Tail(q)) = ToSet(q) \ {Head(q)}
<1> DEFINE r == Tail(q)
<1>1. Len(q) \in Nat /\ Len(q) >= 1 /\ Head(q) = q[1] /\ DOMAIN q = 1 .. Len(q)
  OBVIOUS
<1>2. /\ r \in Seq(Timers) /\ DOMAIN r = 1 .. (Len(q) - 1)
      /\ \A j \in 1 .. (Len(q) - 1) : r[j] = q[j + 1]
  OBVIOUS
<1> HIDE DEF r
<1>3. \A j \in 1 .. (Len(q) - 1) : j + 1 \in 1 .. Len(q) /\ 1 < j + 1
  BY <1>1
<1>4. Ordered(r, s)
  <2> SUFFICES ASSUME NEW i \in 1 .. (Len(q) - 1), NEW j \in 1 .. (Len(q) - 1), i < j
               PROVE  s[r[i]] <= s[r[j]] /\ r[i] # r[j]
    BY <1>2 DEF Ordered
  <2>1. i + 1 < j + 1
    BY <1>1
  <2>2. s[q[i + 1]] <= s[q[j + 1]] /\ q[i + 1] # q[j + 1]
    BY <1>1, <1>3, <2>1 DEF Ordered
  <2> QED BY <1>2, <2>2
<1>5. ToSet(r) = ToSet(q) \ {q[1]}
  <2>1. ASSUME NEW u \in ToSet(r) PROVE u \in ToSet(q) \ {q[1]}
    <3>1. PICK j \in 1 .. (Len(q) - 1) : u = r[j]
      BY <1>2 DEF ToSet
    <3>2. u = q[j + 1] /\ j + 1 \in 1 .. Len(q) /\ 1 \in 1 .. Len(q) /\ 1 < j + 1
      BY <1>1, <1>2, <1>3, <3>1
    <3>3. q[1] # q[j + 1]
      BY <1>1, <3>2 DEF Ordered
    <3> QED BY <1>1, <3>2, <3>3 DEF ToSet
  <2>2. ASSUME NEW u \in ToSet(q), u # q[1] PROVE u \in ToSet(r)
    <3>1. PICK j \in 1 .. Len(q) : u = q[j]
      BY <1>1 DEF ToSet
    <3>2. j - 1 \in 1 .. (Len(q) - 1) /\ (j - 1) + 1 = j
      BY <1>1, <2>2, <3>1
    <3>3. r[j - 1] = u
      BY <1>2, <3>1, <3>2
    <3> QED BY <1>2, <3>2, <3>3 DEF ToSet
  <2> QED BY <2>1, <2>2
<1> QED BY <1>1, <1>2, <1>4, <1>5 DEF r

LEMMA RemoveOrdered ==
  ASSUME NEW s \in [Timers -> Nat], NEW q \in Seq(Timers), Ordered(q, s), NEW t \in Timers
  PROVE  LET r == RemoveFirst(q, t)
         IN  /\ r \in Seq(Timers)
             /\ Ordered(r, s)
             /\ ToSet(r) = ToSet(q) \ {t}
<1> DEFINE r == RemoveFirst(q, t)
<1>1. Len(q) \in Nat /\ DOMAIN q = 1 .. Len(q)
  OBVIOUS
<1>2. r \in Seq(Timers)
  BY RemoveFirstFacts
<1>3. CASE r = q /\ \A j \in 1 .. Len(q) : q[j] # t
  BY <1>1, <1>2, <1>3 DEF ToSet
<1>4. ASSUME NEW i \in 1 .. Len(q), q[i] = t, Len(r) = Len(q) - 1,
             \A j \in 1 .. (Len(q) - 1) : r[j] = IF j < i THEN q[j] ELSE q[j + 1]
      PROVE  Ordered(r, s) /\ ToSet(r) = ToSet(q) \ {t}
  <2> HIDE DEF r
  <2>1. DOMAIN r = 1 .. (Len(q) - 1)
    BY <1>2, <1>4
  <2> DEFINE at(j) == IF j < i THEN j ELSE j + 1
  <2>2. ASSUME NEW j \in 1 .. (Len(q) - 1)
        PROVE  at(j) \in 1 .. Len(q) /\ at(j) # i
    BY <1>1
  <2>3. ASSUME NEW j \in 1 .. (Len(q) - 1) PROVE r[j] = q[at(j)]
    BY <1>4
  <2>4. ASSUME NEW j \in 1 .. (Len(q) - 1), NEW k \in 1 .. (Len(q) - 1), j < k
        PROVE  at(j) < at(k)
    BY <1>1, <2>4
  <2> HIDE DEF at
  <2>5. \A j, k \in 1 .. Len(q) : j < k => s[q[j]] <= s[q[k]] /\ q[j] # q[k]
    BY <1>1 DEF Ordered
  <2>6. Ordered(r, s)
    <3> SUFFICES ASSUME NEW j \in 1 .. (Len(q) - 1), NEW k \in 1 .. (Len(q) - 1), j < k
                 PROVE  s[r[j]] <= s[r[k]] /\ r[j] # r[k]
      BY <2>1 DEF Ordered
    <3>1. at(j) \in 1 .. Len(q) /\ at(k) \in 1 .. Len(q) /\ at(j) < at(k)
      BY <2>2, <2>4
    <3>2. r[j] = q[at(j)] /\ r[k] = q[at(k)]
      BY <2>3
    <3> QED BY <2>5, <3>1, <3>2
  <2>7. ASSUME NEW u \in ToSet(r) PROVE u \in ToSet(q) \ {t}
    <3>1. PICK j \in 1 .. (Len(q) - 1) : u = r[j]
      BY <2>1 DEF ToSet
    <3>2. PICK k \in 1 .. Len(q) : u = q[k] /\ k # i
      BY <2>2, <2>3, <3>1
    <3>3. k < i \/ i < k
      BY <1>1, <3>2
    <3>4. u # t
      BY <1>4, <2>5, <3>2, <3>3
    <3> QED BY <1>1, <3>2, <3>4 DEF ToSet
  <2>8. ASSUME NEW u \in ToSet(q), u # t PROVE u \in ToSet(r)
    <3>1. PICK k \in 1 .. Len(q) : u = q[k]
      BY <1>1 DEF ToSet
    <3>2. k # i
      BY <1>4, <2>8, <3>1
    <3>3. CASE k < i
      <4>1. k \in 1 .. (Len(q) - 1) /\ at(k) = k
        BY <1>1, <3>3 DEF at
      <4> QED BY <2>1, <2>3, <3>1, <4>1 DEF ToSet
    <3>4. CASE ~(k < i)
      <4>1. k - 1 \in 1 .. (Len(q) - 1) /\ at(k - 1) = k
        BY <1>1, <3>2, <3>4 DEF at
      <4> QED BY <2>1, <2>3, <3>1, <4>1 DEF ToSet
    <3> QED BY <3>3, <3>4
  <2> QED BY <2>6, <2>7, <2>8
<1> QED BY <1>2, <1>3, <1>4, RemoveFirstFacts

-----------------------------------------------------------------------------
(* One timer that moves to another CPU keeps its time: without slack it     *)
(* joins only timers that are due together with it.                         *)
LEMMA AdoptOneFacts ==
  ASSUME scheduled \in [Timers -> Nat], NEW q \in Seq(Timers), Ordered(q, scheduled),
         NEW t \in Timers, t \notin ToSet(q)
  PROVE  /\ AdoptOne(q, t) \in Seq(Timers)
         /\ Ordered(AdoptOne(q, t), scheduled)
         /\ ToSet(AdoptOne(q, t)) = ToSet(q) \cup {t}
<1>1. PICK s \in [Timers -> Nat] : s = scheduled
  OBVIOUS
<1>2. PICK when \in Nat : when = s[t]
  OBVIOUS
<1>3. Insertable(q, s, t, when, when, when)
  BY <1>1, <1>2 DEF Insertable
<1> DEFINE result == Insert(q, s, t, when, when, when)
<1>4. InsertResult(result, q, s, t, when, when, when)
  BY <1>3, InsertFacts
<1>5. result.time = when
  BY <1>2, <1>4 DEF InsertResult
<1>6. [s EXCEPT ![t] = result.time] = s
  BY <1>2, <1>5
<1>7. AdoptOne(q, t) = result.list
  BY <1>1, <1>2 DEF AdoptOne
<1> HIDE DEF result
<1> QED BY <1>1, <1>4, <1>6, <1>7 DEF InsertResult, PutIn

(* The queue after the first k timers of src have been adopted.             *)
Adopting(f, q, src, n) ==
  f = [k \in 0 .. n |-> IF k = 0 THEN q ELSE AdoptOne(f[k - 1], src[k])]

(* There is such a function, built from its shorter ones,                   *)
LEMMA AdoptingExists ==
  ASSUME NEW q, NEW src
  PROVE  \A n \in Nat : \E f : Adopting(f, q, src, n)
<1> DEFINE T == {n \in Nat : \E f : Adopting(f, q, src, n)}
<1>1. 0 \in T
  <2> DEFINE f == [k \in 0 .. 0 |-> q]
  <2>1. \A k \in 0 .. 0 : k = 0
    OBVIOUS
  <2>2. Adopting(f, q, src, 0)
    BY <2>1 DEF Adopting
  <2> QED BY <2>2
<1>2. ASSUME NEW n \in Nat, n \in T PROVE n + 1 \in T
  <2>1. PICK f : Adopting(f, q, src, n)
    BY <1>2
  <2>2. \A k \in 0 .. n : f[k] = IF k = 0 THEN q ELSE AdoptOne(f[k - 1], src[k])
    BY <2>1 DEF Adopting
  <2> DEFINE g == [k \in 0 .. (n + 1) |-> IF k <= n THEN f[k] ELSE AdoptOne(f[n], src[n + 1])]
  <2>3. ASSUME NEW k \in 0 .. (n + 1)
        PROVE  g[k] = IF k = 0 THEN q ELSE AdoptOne(g[k - 1], src[k])
    <3>1. CASE k = 0
      BY <2>2, <3>1
    <3>2. CASE k # 0 /\ k <= n
      <4>1. k \in 0 .. n /\ k - 1 \in 0 .. (n + 1) /\ k - 1 <= n
        BY <3>2
      <4>2. g[k] = f[k] /\ g[k - 1] = f[k - 1]
        BY <3>2, <4>1
      <4> QED BY <2>2, <3>2, <4>1, <4>2
    <3>3. CASE k = n + 1
      <4>1. n \in 0 .. (n + 1) /\ k - 1 = n /\ ~(k <= n) /\ k # 0
        BY <3>3
      <4>2. g[k] = AdoptOne(f[n], src[n + 1]) /\ g[n] = f[n]
        BY <4>1
      <4> QED BY <3>3, <4>1, <4>2
    <3> QED BY <3>1, <3>2, <3>3
  <2>4. g = [k \in 0 .. (n + 1) |-> g[k]]
    OBVIOUS
  <2> HIDE DEF g
  <2>5. Adopting(g, q, src, n + 1)
    BY <2>3, <2>4 DEF Adopting
  <2> QED BY <2>5
<1> HIDE DEF T
<1>3. \A n \in Nat : n \in T
  BY <1>1, <1>2, SetInduction
<1> QED BY <1>3 DEF T

(* and Adopt is its last value.                                             *)
LEMMA AdoptIs ==
  ASSUME NEW c, NEW d, Len(list[d]) \in Nat
  PROVE  \E f : Adopting(f, list[c], list[d], Len(list[d])) /\ Adopt(c, d) = f[Len(list[d])]
<1> DEFINE taken[k \in 0 .. Len(list[d])] ==
             IF k = 0 THEN list[c] ELSE AdoptOne(taken[k - 1], list[d][k])
<1>1. \E f : Adopting(f, list[c], list[d], Len(list[d]))
  BY AdoptingExists
<1>2. Adopting(taken, list[c], list[d], Len(list[d]))
  BY <1>1 DEF Adopting
<1>3. Adopt(c, d) = taken[Len(list[d])]
  BY DEF Adopt
<1> QED BY <1>2, <1>3

(* Adopting the queue of another CPU merges the two.                        *)
LEMMA AdoptFacts ==
  ASSUME scheduled \in [Timers -> Nat], NEW c \in Cpus, NEW d \in Cpus,
         list[c] \in Seq(Timers), list[d] \in Seq(Timers),
         Ordered(list[c], scheduled), Ordered(list[d], scheduled),
         ToSet(list[c]) \cap ToSet(list[d]) = {}
  PROVE  /\ Adopt(c, d) \in Seq(Timers)
         /\ Ordered(Adopt(c, d), scheduled)
         /\ ToSet(Adopt(c, d)) = ToSet(list[c]) \cup ToSet(list[d])
<1> DEFINE q == list[c]
           src == list[d]
           L == Len(src)
<1>1. L \in Nat /\ DOMAIN src = 1 .. L /\ \A k \in 1 .. L : src[k] \in Timers
  OBVIOUS
<1>2. PICK f : Adopting(f, q, src, L) /\ Adopt(c, d) = f[L]
  BY <1>1, AdoptIs
<1> HIDE DEF q, src, L
<1>3. \A k \in 0 .. L : f[k] = IF k = 0 THEN q ELSE AdoptOne(f[k - 1], src[k])
  BY <1>2 DEF Adopting
<1> DEFINE First(k) == {src[j] : j \in 1 .. k}
           Good(k) == /\ f[k] \in Seq(Timers)
                      /\ Ordered(f[k], scheduled)
                      /\ ToSet(f[k]) = ToSet(q) \cup First(k)
           T == {n \in Nat : n <= L => Good(n)}
<1> HIDE DEF First, Good
<1>4. 0 \in T
  <2>1. f[0] = q
    BY <1>1, <1>3
  <2>2. First(0) = {}
    BY DEF First
  <2>3. Good(0)
    BY <2>1, <2>2 DEF q, Good
  <2> QED BY <2>3
<1>5. ASSUME NEW n \in Nat, n \in T PROVE n + 1 \in T
  <2> SUFFICES ASSUME n + 1 <= L PROVE Good(n + 1)
    OBVIOUS
  <2>1. n <= L /\ n + 1 \in 0 .. L /\ n + 1 # 0 /\ (n + 1) - 1 = n /\ n + 1 \in 1 .. L
    BY <1>1
  <2>2. Good(n)
    BY <1>5, <2>1
  <2>3. f[n + 1] = AdoptOne(f[n], src[n + 1])
    BY <1>3, <2>1
  <2>4. src[n + 1] \in Timers
    BY <1>1, <2>1
  <2>5. src[n + 1] \notin ToSet(q)
    BY <1>1, <2>1 DEF ToSet, q, src
  <2>6. src[n + 1] \notin First(n)
    <3> SUFFICES ASSUME NEW j \in 1 .. n PROVE src[j] # src[n + 1]
      BY DEF First
    <3>1. j \in 1 .. L /\ j < n + 1
      BY <1>1, <2>1
    <3> QED BY <1>1, <2>1, <3>1 DEF Ordered, src
  <2>7. First(n + 1) = First(n) \cup {src[n + 1]}
    <3>1. \A j \in 1 .. (n + 1) : j \in 1 .. n \/ j = n + 1
      OBVIOUS
    <3>2. n + 1 \in 1 .. (n + 1) /\ \A j \in 1 .. n : j \in 1 .. (n + 1)
      OBVIOUS
    <3> QED BY <3>1, <3>2 DEF First
  <2>8. src[n + 1] \notin ToSet(f[n])
    BY <2>2, <2>5, <2>6 DEF Good
  <2>9. /\ AdoptOne(f[n], src[n + 1]) \in Seq(Timers)
        /\ Ordered(AdoptOne(f[n], src[n + 1]), scheduled)
        /\ ToSet(AdoptOne(f[n], src[n + 1])) = ToSet(f[n]) \cup {src[n + 1]}
    BY <2>2, <2>4, <2>8, AdoptOneFacts DEF Good
  <2>10. ToSet(f[n + 1]) = ToSet(q) \cup First(n + 1)
    BY <2>2, <2>3, <2>7, <2>9 DEF Good
  <2> QED BY <2>3, <2>9, <2>10 DEF Good
<1> HIDE DEF T
<1>6. \A n \in Nat : n \in T
  BY <1>4, <1>5, SetInduction
<1>7. Good(L)
  BY <1>1, <1>6 DEF T
<1>8. First(L) = ToSet(src)
  BY <1>1 DEF ToSet, First
<1> QED BY <1>2, <1>7, <1>8 DEF q, src, Good

-----------------------------------------------------------------------------
(* The inductive invariant.                                                 *)
Sorted == \A c \in Cpus : Ordered(list[c], scheduled)

Apart == \A c, d \in Cpus : c # d => ToSet(list[c]) \cap ToSet(list[d]) = {}

(* The record of the hardware's deadline is what it is programmed for.      *)
NextTrue == next = hardware

(* A timer whose cancellation waits is marked, so that its callback cannot  *)
(* put it back.                                                             *)
SpinInv == /\ spinning \subseteq cancel
           /\ \A t \in spinning : ~Queued(t)

TimerQueueInv ==
  /\ TypeOK
  /\ Sorted
  /\ Apart
  /\ NextTrue
  /\ CoalescedInWindow
  /\ HardwareArmed
  /\ CancelIsFinal
  /\ SpinInv

LEMMA WindowFacts ==
  ASSUME NEW w \in Windows
  PROVE  /\ w.when \in 0 .. MaxTime
         /\ w.earliest \in Int /\ w.latest \in Int
         /\ w.earliest <= w.when /\ w.when <= w.latest
<1>1. PICK d \in Deadlines, s \in Slacks, mode \in Modes :
        w = [when |-> d, earliest |-> EarliestOf(d, s, mode),
             latest |-> LatestOf(d, s, mode), slack |-> s, mode |-> mode]
  BY DEF Windows
<1>2. d \in Nat /\ s \in Nat /\ d + s <= MaxTime /\ MaxTime \in Nat
  BY TimerQueueAssumption
<1>3. /\ EarliestOf(d, s, mode) \in Int /\ EarliestOf(d, s, mode) <= d
      /\ LatestOf(d, s, mode) \in Int /\ d <= LatestOf(d, s, mode)
  BY <1>2 DEF EarliestOf, LatestOf
<1>4. w.when = d /\ w.earliest = EarliestOf(d, s, mode) /\ w.latest = LatestOf(d, s, mode)
  BY <1>1
<1> QED BY <1>2, <1>3, <1>4

LEMMA Times ==
  /\ MaxTime \in Nat /\ Infinite \in Nat /\ MaxTime < Infinite
  /\ \A x \in 0 .. MaxTime : x \in 0 .. Infinite /\ x \in Nat
  /\ \A d \in Preemptions : d \in 0 .. Infinite
BY TimerQueueAssumption DEF Infinite

LEMMA TypeFacts ==
  ASSUME TypeOK
  PROVE  /\ scheduled \in [Timers -> Nat]
         /\ \A c \in Cpus : list[c] \in Seq(Timers)
         /\ \A c \in Cpus : ToSet(list[c]) \subseteq Timers
         /\ \A c \in Cpus : next[c] \in Nat /\ hardware[c] \in Nat
         /\ \A c \in Cpus : preempt[c] \in 0 .. Infinite
         /\ \A t \in Timers : scheduled[t] \in 0 .. Infinite
<1>1. \A c \in Cpus : list[c] \in Seq(Timers)
  BY DEF TypeOK
<1>2. \A c \in Cpus : ToSet(list[c]) \subseteq Timers
  BY <1>1 DEF ToSet
<1>3. \A c \in Cpus : preempt[c] \in 0 .. Infinite
  BY Times DEF TypeOK
<1> QED BY <1>1, <1>2, <1>3, Times DEF TypeOK

(* The hardware timer of c only moves to an earlier time.                   *)
LEMMA UpdateFacts ==
  ASSUME TypeOK, NextTrue, NEW c \in Cpus, NEW deadline \in 0 .. Infinite,
         UpdatePlatformTimer(c, deadline)
  PROVE  /\ next' = hardware'
         /\ hardware' \in [Cpus -> 0 .. Infinite]
         /\ hardware'[c] <= hardware[c] /\ hardware'[c] <= deadline
         /\ \A d \in Cpus : d # c => hardware'[d] = hardware[d]
<1>1. hardware \in [Cpus -> 0 .. Infinite] /\ next = hardware
  BY DEF TypeOK, NextTrue
<1>2. Infinite \in Nat
  BY Times
<1>3. CASE Reprogram(c, deadline)
  <2>1. hardware' = [hardware EXCEPT ![c] = deadline] /\ next' = [hardware EXCEPT ![c] = deadline]
    BY <1>1, <1>3 DEF UpdatePlatformTimer
  <2>2. deadline < hardware[c] /\ hardware'[c] = deadline
    BY <1>1, <1>3, <2>1 DEF Reprogram
  <2>3. hardware'[c] <= hardware[c] /\ hardware'[c] <= deadline
    BY <1>1, <1>2, <2>2
  <2> QED BY <1>1, <2>1, <2>3
<1>4. CASE ~Reprogram(c, deadline)
  <2>1. hardware' = hardware /\ next' = next
    BY <1>4 DEF UpdatePlatformTimer
  <2>2. ~(deadline < hardware[c]) /\ hardware[c] \in Nat
    BY <1>1, <1>2, <1>4 DEF Reprogram
  <2> QED BY <1>1, <1>2, <2>1, <2>2
<1> QED BY <1>3, <1>4

(* Steps that leave the queues and the timers alone.                        *)
LEMMA QueuesKept ==
  ASSUME TimerQueueInv, UNCHANGED <<list, scheduled, window>>
  PROVE  Sorted' /\ Apart' /\ CoalescedInWindow' /\ \A t : Queued(t)' <=> Queued(t)
<1>1. \A t : Queued(t)' <=> Queued(t)
  BY DEF Queued
<1>2. Sorted' /\ Apart'
  BY DEF TimerQueueInv, Sorted, Apart, Ordered
<1>3. CoalescedInWindow'
  BY <1>1 DEF TimerQueueInv, CoalescedInWindow
<1> QED BY <1>1, <1>2, <1>3

(* A timer that has left all queues, everything else kept.                  *)
LEMMA QueuesShrunk ==
  ASSUME TimerQueueInv, NEW t \in Timers, UNCHANGED scheduled,
         window' = [window EXCEPT ![t] = NoWindow],
         \A c \in Cpus : /\ list'[c] \in Seq(Timers)
                         /\ Ordered(list'[c], scheduled)
                         /\ ToSet(list'[c]) = ToSet(list[c]) \ {t}
  PROVE  /\ Sorted' /\ Apart' /\ CoalescedInWindow'
         /\ ~Queued(t)'
         /\ \A u : Queued(u)' => Queued(u)
<1>1. Sorted'
  BY DEF Sorted, Ordered
<1>2. Apart'
  BY DEF TimerQueueInv, Apart
<1>3. ~Queued(t)' /\ \A u : Queued(u)' => Queued(u)
  BY DEF Queued
<1>4. CoalescedInWindow'
  <2> SUFFICES ASSUME NEW u \in Timers, Queued(u)'
               PROVE  scheduled'[u] \in window'[u].earliest .. window'[u].latest
    BY DEF CoalescedInWindow
  <2>1. u # t /\ Queued(u)
    BY <1>3
  <2>2. window'[u] = window[u]
    BY <2>1 DEF TimerQueueInv, TypeOK
  <2> QED BY <2>1, <2>2 DEF TimerQueueInv, CoalescedInWindow
<1> QED BY <1>1, <1>2, <1>3, <1>4

-----------------------------------------------------------------------------
(* One lemma per action.                                                    *)
LEMMA InitInv == Init => TimerQueueInv
<1> SUFFICES ASSUME Init PROVE TimerQueueInv
  OBVIOUS
<1>1. \A c \in Cpus : list[c] = <<>> /\ ToSet(list[c]) = {}
  BY DEF Init, ToSet
<1>2. TypeOK
  <2>1. list \in [Cpus -> Seq(Timers)]
    BY DEF Init
  <2>2. 0 \in 0 .. MaxTime /\ Infinite \in 0 .. Infinite
    BY Times
  <2> QED BY <2>1, <2>2 DEF Init, TypeOK
<1>3. Sorted /\ Apart
  <2>1. \A c \in Cpus : DOMAIN list[c] = {}
    BY <1>1
  <2>2. Sorted
    BY <2>1 DEF Sorted, Ordered
  <2> QED BY <1>1, <2>2 DEF Apart
<1>4. \A t : ~Queued(t)
  BY <1>1 DEF Queued
<1>5. HardwareArmed
  BY <1>1, Times DEF HardwareArmed, Init
<1> QED BY <1>2, <1>3, <1>4, <1>5
        DEF Init, TimerQueueInv, NextTrue, CoalescedInWindow, CancelIsFinal, SpinInv

(* Timer::Set that inserts the timer,                                       *)
LEMMA SetInserts ==
  ASSUME TimerQueueInv, NEW c \in Cpus, NEW t \in Timers, NEW w \in Windows,
         Set(c, t, w), ~SetLoses(t)
  PROVE  TimerQueueInv'
<1>1. PICK s \in [Timers -> Nat] : s = scheduled
  BY TypeFacts DEF TimerQueueInv
<1>2. PICK q \in Seq(Timers) : q = list[c]
  BY TypeFacts DEF TimerQueueInv
<1>3. PICK result : result = Insert(q, s, t, w.when, w.earliest, w.latest)
  OBVIOUS
<1>4. Insertable(q, s, t, w.when, w.earliest, w.latest)
  <2>1. t \notin ToSet(q)
    BY <1>2 DEF Set, Queued
  <2>2. Ordered(q, s)
    BY <1>1, <1>2 DEF TimerQueueInv, Sorted
  <2> QED BY <2>1, <2>2, WindowFacts, Times DEF Insertable
<1>5. InsertResult(result, q, s, t, w.when, w.earliest, w.latest)
  BY <1>3, <1>4, InsertFacts
<1>6. /\ list' = [list EXCEPT ![c] = result.list]
      /\ scheduled' = [scheduled EXCEPT ![t] = result.time]
      /\ cancel' = cancel \ {t}
      /\ window' = [window EXCEPT ![t] = w]
      /\ IF Head(result.list) = t
           THEN UpdatePlatformTimer(c, w.when)
           ELSE UNCHANGED <<hardware, next>>
      /\ finished' = finished \ {t}
      /\ UNCHANGED <<preempt, now, active, tick, tickTime, waits, spinning>>
  BY <1>1, <1>2, <1>3 DEF Set, tickVars
<1>7. /\ result.list \in Seq(Timers)
      /\ ToSet(result.list) = ToSet(q) \cup {t}
      /\ Ordered(result.list, [s EXCEPT ![t] = result.time])
      /\ result.list # <<>>
      /\ Head(result.list) = t => result.time = w.when
      /\ Head(result.list) # t => q # <<>> /\ Head(result.list) = Head(q)
      /\ result.time \in w.earliest .. w.latest
      /\ result.time = w.when \/ \E u \in Timers : result.time = s[u]
  BY <1>5 DEF InsertResult, PutIn
<1>8. w.when \in 0 .. MaxTime /\ w.when \in 0 .. Infinite
  BY WindowFacts, Times
<1>9. result.time \in 0 .. MaxTime
  BY <1>1, <1>7, <1>8 DEF TimerQueueInv, TypeOK
<1>10. /\ next' = hardware'
       /\ hardware' \in [Cpus -> 0 .. Infinite]
       /\ hardware'[c] <= hardware[c]
       /\ Head(result.list) = t => hardware'[c] <= w.when
       /\ \A d \in Cpus : d # c => hardware'[d] = hardware[d]
  <2>1. CASE Head(result.list) = t
    BY <1>6, <1>8, <2>1, UpdateFacts DEF TimerQueueInv
  <2>2. CASE Head(result.list) # t
    <3>1. hardware' = hardware /\ next' = next
      BY <1>6, <2>2
    <3>2. hardware[c] <= hardware[c]
      BY TypeFacts DEF TimerQueueInv
    <3> QED BY <2>2, <3>1, <3>2 DEF TimerQueueInv, NextTrue, TypeOK
  <2> QED BY <2>1, <2>2
<1>11. TypeOK'
  <2>1. list' \in [Cpus -> Seq(Timers)] /\ scheduled' \in [Timers -> 0 .. MaxTime]
    BY <1>6, <1>7, <1>9 DEF TimerQueueInv, TypeOK
  <2>2. window' \in [Timers -> Windows \cup {NoWindow}]
    BY <1>6 DEF TimerQueueInv, TypeOK
  <2> QED BY <1>6, <1>10, <2>1, <2>2 DEF TimerQueueInv, TypeOK
<1>12. /\ list'[c] = result.list
       /\ \A d \in Cpus : d # c => list'[d] = list[d]
       /\ scheduled'[t] = result.time
       /\ \A u \in Timers : u # t => scheduled'[u] = scheduled[u]
  BY <1>6 DEF TimerQueueInv, TypeOK
<1>13. /\ \A d \in Cpus : t \notin ToSet(list[d])
       /\ ToSet(list'[c]) = ToSet(list[c]) \cup {t}
       /\ \A u : Queued(u)' <=> Queued(u) \/ u = t
  BY <1>2, <1>7, <1>12 DEF Set, Queued
<1>14. Sorted'
  <2> SUFFICES ASSUME NEW d \in Cpus PROVE Ordered(list'[d], scheduled')
    BY DEF Sorted
  <2>1. CASE d = c
    BY <1>1, <1>6, <1>7, <1>12, <2>1
  <2>2. CASE d # c
    <3>1. Ordered(list[d], scheduled) /\ list'[d] = list[d] /\ list[d] \in Seq(Timers)
      BY <1>12, <2>2, TypeFacts DEF TimerQueueInv, Sorted
    <3>2. \A i \in DOMAIN list[d] : list[d][i] \in Timers /\ list[d][i] # t
      BY <1>13, <3>1 DEF ToSet
    <3>3. \A i \in DOMAIN list[d] : scheduled'[list[d][i]] = scheduled[list[d][i]]
      BY <1>12, <3>2
    <3>4. Ordered(list[d], scheduled')
      BY <3>1, <3>3 DEF Ordered
    <3> QED BY <3>1, <3>4
  <2> QED BY <2>1, <2>2
<1>15. Apart'
  <2> SUFFICES ASSUME NEW d \in Cpus, NEW e \in Cpus, d # e
               PROVE  ToSet(list'[d]) \cap ToSet(list'[e]) = {}
    BY DEF Apart
  <2>1. ToSet(list[d]) \cap ToSet(list[e]) = {}
    BY DEF TimerQueueInv, Apart
  <2>2. CASE d = c
    BY <1>12, <1>13, <2>1, <2>2
  <2>3. CASE e = c
    BY <1>12, <1>13, <2>1, <2>3
  <2>4. CASE d # c /\ e # c
    BY <1>12, <2>1, <2>4
  <2> QED BY <2>2, <2>3, <2>4
<1>16. CoalescedInWindow'
  <2> SUFFICES ASSUME NEW u \in Timers, Queued(u)'
               PROVE  scheduled'[u] \in window'[u].earliest .. window'[u].latest
    BY DEF CoalescedInWindow
  <2>1. CASE u = t
    <3>1. window'[t] = w
      BY <1>6 DEF TimerQueueInv, TypeOK
    <3> QED BY <1>7, <1>12, <2>1, <3>1
  <2>2. CASE u # t
    <3>1. window'[u] = window[u] /\ scheduled'[u] = scheduled[u] /\ Queued(u)
      BY <1>6, <1>12, <1>13, <2>2 DEF TimerQueueInv, TypeOK
    <3> QED BY <3>1 DEF TimerQueueInv, CoalescedInWindow
  <2> QED BY <2>1, <2>2
<1>17. HardwareArmed'
  <2> SUFFICES ASSUME NEW d \in Cpus, tick[d] = "none"
               PROVE  /\ hardware'[d] <= preempt[d]
                      /\ \A u \in ToSet(list'[d]) : hardware'[d] <= scheduled'[u]
    BY <1>6 DEF HardwareArmed
  <2>1. /\ hardware[d] <= preempt[d]
        /\ \A u \in ToSet(list[d]) : hardware[d] <= scheduled[u]
    BY DEF TimerQueueInv, HardwareArmed
  <2>2. ToSet(list[d]) \subseteq Timers /\ hardware[d] \in Nat /\ preempt[d] \in Nat
    BY TypeFacts, Times DEF TimerQueueInv
  <2>3. CASE d # c
    BY <1>10, <1>12, <1>13, <2>1, <2>2, <2>3
  <2>4. CASE d = c
    <3>1. hardware'[c] \in Nat /\ hardware'[c] <= preempt[c]
      BY <1>10, <2>1, <2>2, <2>4, Times
    <3>2. ASSUME NEW u \in ToSet(list[c]) PROVE hardware'[c] <= scheduled'[u]
      <4>1. hardware[c] <= scheduled[u] /\ scheduled'[u] = scheduled[u] /\ scheduled[u] \in Nat
        BY <1>12, <1>13, <2>1, <2>2, <2>4, TypeFacts DEF TimerQueueInv
      <4> QED BY <1>10, <2>2, <2>4, <3>1, <4>1
    <3>3. hardware'[c] <= scheduled'[t]
      <4>1. CASE Head(result.list) = t
        BY <1>7, <1>10, <1>12, <4>1
      <4>2. CASE Head(result.list) # t
        <5>1. scheduled' \in [Timers -> Nat] /\ Ordered(result.list, scheduled')
          BY <1>1, <1>6, <1>7, <1>11, Times DEF TypeOK
        <5>2. Head(q) \in ToSet(q) /\ q # <<>>
          BY <1>1, <1>2, <1>7, <4>2, HeadLeast DEF TimerQueueInv, Sorted
        <5>3. t \in ToSet(result.list)
          BY <1>7
        <5>4. PICK z \in [Timers -> Nat] : z = scheduled'
          BY <5>1
        <5>5. z[Head(result.list)] <= z[t]
          BY <1>7, <5>1, <5>3, <5>4, HeadLeast
        <5>6. hardware'[c] <= scheduled'[Head(q)] /\ scheduled'[Head(q)] \in Nat
          BY <1>2, <3>2, <5>1, <5>2, <2>2, <2>4
        <5> QED BY <1>7, <3>1, <4>2, <5>4, <5>5, <5>6
      <4> QED BY <4>1, <4>2
    <3> QED BY <1>13, <2>4, <3>1, <3>2, <3>3
  <2> QED BY <2>3, <2>4
<1>18. CancelIsFinal'
  BY <1>6, <1>13 DEF TimerQueueInv, CancelIsFinal
<1>19. t \notin spinning
  BY DEF TimerQueueInv, SpinInv, Set, SetLoses
<1>20. SpinInv'
  BY <1>6, <1>13, <1>19 DEF TimerQueueInv, SpinInv
<1> QED BY <1>10, <1>11, <1>14, <1>15, <1>16, <1>17, <1>18, <1>20 DEF TimerQueueInv, NextTrue

(* or gives way to a cancellation that has begun.                           *)
LEMMA SetGivesWay ==
  ASSUME TimerQueueInv, NEW c \in Cpus, NEW t \in Timers, NEW w \in Windows,
         Set(c, t, w), SetLoses(t)
  PROVE  TimerQueueInv'
<1>1. /\ finished' = finished \ {t}
      /\ UNCHANGED <<list, scheduled, cancel, next, preempt, hardware, window>>
      /\ UNCHANGED <<now, active, tick, tickTime, waits, spinning>>
  BY DEF Set, tickVars, clockVars
<1>2. TypeOK'
  BY <1>1 DEF TimerQueueInv, TypeOK
<1>3. Sorted' /\ Apart' /\ CoalescedInWindow' /\ \A u : Queued(u)' <=> Queued(u)
  BY <1>1, QueuesKept
<1> QED BY <1>1, <1>2, <1>3
        DEF TimerQueueInv, NextTrue, HardwareArmed, CancelIsFinal, SpinInv

LEMMA SetKeeps ==
  ASSUME TimerQueueInv, NEW c \in Cpus, NEW t \in Timers, NEW w \in Windows, Set(c, t, w)
  PROVE  TimerQueueInv'
BY SetInserts, SetGivesWay

LEMMA CancelInCallbackKeeps ==
  ASSUME TimerQueueInv, NEW c \in Cpus, NEW t \in Timers, CancelInCallback(c, t)
  PROVE  TimerQueueInv'
<1>1. /\ cancel' = cancel \cup {t}
      /\ UNCHANGED <<list, scheduled, next, preempt, hardware, window>>
      /\ UNCHANGED <<now, active, tick, tickTime, waits, spinning, finished>>
  BY DEF CancelInCallback, tickVars, clockVars
<1>2. TypeOK'
  BY <1>1 DEF TimerQueueInv, TypeOK
<1>3. Sorted' /\ Apart' /\ CoalescedInWindow' /\ \A u : Queued(u)' <=> Queued(u)
  BY <1>1, QueuesKept
<1> QED BY <1>1, <1>2, <1>3
        DEF TimerQueueInv, NextTrue, HardwareArmed, CancelIsFinal, SpinInv

(* The hardware after a cancellation is never programmed for later.         *)
LEMMA CancelHardwareFacts ==
  ASSUME TimerQueueInv, NEW c \in Cpus, NEW t \in Timers, CancelHardware(c, t)
  PROVE  /\ next' = hardware'
         /\ hardware' \in [Cpus -> 0 .. Infinite]
         /\ \A d \in Cpus : hardware'[d] <= hardware[d]
<1>1. /\ hardware \in [Cpus -> 0 .. Infinite] /\ next = hardware
      /\ \A d \in Cpus : hardware[d] <= hardware[d]
  BY TypeFacts DEF TimerQueueInv, TypeOK, NextTrue
<1>2. PICK rest : rest = RemoveFirst(list[c], t)
  OBVIOUS
<1>3. CASE UNCHANGED <<hardware, next>>
  BY <1>1, <1>3
<1>4. CASE rest # <<>> /\ UpdatePlatformTimer(c, scheduled[Head(rest)])
  <2>1. PICK s \in [Timers -> Nat], q \in Seq(Timers) : s = scheduled /\ q = list[c]
    BY TypeFacts DEF TimerQueueInv
  <2>2. Ordered(q, s)
    BY <2>1 DEF TimerQueueInv, Sorted
  <2>3. rest \in Seq(Timers)
    BY <1>2, <2>1, <2>2, RemoveOrdered
  <2>4. Head(rest) \in Timers
    BY <1>4, <2>3
  <2>5. PICK deadline \in 0 .. Infinite : deadline = scheduled[Head(rest)]
    BY <2>4, TypeFacts DEF TimerQueueInv
  <2>6. UpdatePlatformTimer(c, deadline)
    BY <1>4, <2>5
  <2>7. /\ next' = hardware' /\ hardware' \in [Cpus -> 0 .. Infinite]
        /\ hardware'[c] <= hardware[c]
        /\ \A d \in Cpus : d # c => hardware'[d] = hardware[d]
    BY <2>6, UpdateFacts DEF TimerQueueInv
  <2> QED BY <1>1, <2>7
<1>5. CASE /\ hardware' = IF next[c] = Infinite
                            THEN [hardware EXCEPT ![c] = Infinite]
                            ELSE hardware
           /\ UNCHANGED next
  <2>1. hardware' = hardware
    BY <1>1, <1>5
  <2> QED BY <1>1, <1>5, <2>1
<1> QED BY <1>2, <1>3, <1>4, <1>5 DEF CancelHardware

LEMMA CancelKeeps ==
  ASSUME TimerQueueInv, NEW c \in Cpus, NEW t \in Timers, Cancel(c, t)
  PROVE  TimerQueueInv'
<1>1. /\ cancel' = cancel \cup {t} /\ spinning' = spinning \cup {t}
      /\ list' = [d \in Cpus |-> RemoveFirst(list[d], t)]
      /\ window' = [window EXCEPT ![t] = NoWindow]
      /\ waits' = IF tick[c] = "callback" THEN [waits EXCEPT ![c] = t] ELSE waits
      /\ UNCHANGED <<now, scheduled, active, preempt, tick, tickTime, finished>>
  BY DEF Cancel
<1>2. ASSUME NEW d \in Cpus
      PROVE  /\ list'[d] \in Seq(Timers)
             /\ Ordered(list'[d], scheduled)
             /\ ToSet(list'[d]) = ToSet(list[d]) \ {t}
  <2>1. PICK s \in [Timers -> Nat], q \in Seq(Timers) : s = scheduled /\ q = list[d]
    BY TypeFacts DEF TimerQueueInv
  <2>2. Ordered(q, s)
    BY <2>1 DEF TimerQueueInv, Sorted
  <2>3. list'[d] = RemoveFirst(q, t)
    BY <1>1, <2>1
  <2>4. /\ RemoveFirst(q, t) \in Seq(Timers)
        /\ Ordered(RemoveFirst(q, t), s)
        /\ ToSet(RemoveFirst(q, t)) = ToSet(q) \ {t}
    BY <2>2, RemoveOrdered
  <2> QED BY <2>1, <2>3, <2>4
<1>3. /\ Sorted' /\ Apart' /\ CoalescedInWindow'
      /\ ~Queued(t)' /\ \A u : Queued(u)' => Queued(u)
  BY <1>1, <1>2, QueuesShrunk
<1>4. /\ next' = hardware'
      /\ hardware' \in [Cpus -> 0 .. Infinite]
      /\ \A d \in Cpus : hardware'[d] <= hardware[d]
  BY CancelHardwareFacts DEF Cancel
<1>5. TypeOK'
  <2>1. list' \in [Cpus -> Seq(Timers)]
    BY <1>1, <1>2
  <2>2. window' \in [Timers -> Windows \cup {NoWindow}]
    BY <1>1 DEF TimerQueueInv, TypeOK
  <2>3. waits' \in [Cpus -> Timers \cup {None}]
    BY <1>1 DEF TimerQueueInv, TypeOK
  <2> QED BY <1>1, <1>4, <2>1, <2>2, <2>3 DEF TimerQueueInv, TypeOK
<1>6. HardwareArmed'
  <2> SUFFICES ASSUME NEW d \in Cpus, tick[d] = "none"
               PROVE  /\ hardware'[d] <= preempt[d]
                      /\ \A u \in ToSet(list'[d]) : hardware'[d] <= scheduled[u]
    BY <1>1 DEF HardwareArmed
  <2>1. /\ hardware[d] <= preempt[d]
        /\ \A u \in ToSet(list[d]) : hardware[d] <= scheduled[u]
    BY DEF TimerQueueInv, HardwareArmed
  <2>2. /\ ToSet(list[d]) \subseteq Timers /\ hardware[d] \in Nat /\ preempt[d] \in Nat
        /\ hardware'[d] \in Nat /\ hardware'[d] <= hardware[d]
        /\ \A u \in Timers : scheduled[u] \in Nat
    BY <1>4, TypeFacts, Times DEF TimerQueueInv
  <2>3. hardware'[d] <= preempt[d]
    BY <2>1, <2>2
  <2>4. ASSUME NEW u \in ToSet(list'[d]) PROVE hardware'[d] <= scheduled[u]
    <3>1. u \in ToSet(list[d])
      BY <1>2
    <3>2. hardware[d] <= scheduled[u] /\ scheduled[u] \in Nat
      BY <2>1, <2>2, <3>1
    <3> QED BY <2>2, <3>2
  <2> QED BY <2>3, <2>4
<1>7. CancelIsFinal'
  BY <1>1, <1>3 DEF TimerQueueInv, CancelIsFinal
<1>8. SpinInv'
  BY <1>1, <1>3 DEF TimerQueueInv, SpinInv
<1> QED BY <1>3, <1>4, <1>5, <1>6, <1>7, <1>8 DEF TimerQueueInv, NextTrue

LEMMA CancelReturnKeeps ==
  ASSUME TimerQueueInv, NEW t \in Timers, CancelReturn(t)
  PROVE  TimerQueueInv'
<1>1. /\ t \in spinning /\ active[t] = None
      /\ spinning' = spinning \ {t} /\ finished' = finished \cup {t}
      /\ UNCHANGED <<list, scheduled, next, preempt, hardware, window>>
      /\ waits' = [c \in Cpus |-> IF waits[c] = t THEN None ELSE waits[c]]
      /\ UNCHANGED <<now, active, tick, tickTime, cancel>>
  BY DEF CancelReturn, SpinOver, clockVars
<1>2. TypeOK'
  <2>1. waits' \in [Cpus -> Timers \cup {None}]
    BY <1>1 DEF TimerQueueInv, TypeOK
  <2> QED BY <1>1, <2>1 DEF TimerQueueInv, TypeOK
<1>3. Sorted' /\ Apart' /\ CoalescedInWindow' /\ \A u : Queued(u)' <=> Queued(u)
  BY <1>1, QueuesKept
<1>4. CancelIsFinal'
  BY <1>1, <1>3 DEF TimerQueueInv, CancelIsFinal, SpinInv
<1> QED BY <1>1, <1>2, <1>3, <1>4
        DEF TimerQueueInv, NextTrue, HardwareArmed, SpinInv

-----------------------------------------------------------------------------
(* The soonest deadline of a CPU is no later than any it has.               *)
LEMMA SoonestFacts ==
  ASSUME TimerQueueInv, NEW c \in Cpus
  PROVE  /\ SoonestDeadline(c) \in 0 .. Infinite
         /\ SoonestDeadline(c) <= preempt[c]
         /\ \A u \in ToSet(list[c]) : SoonestDeadline(c) <= scheduled[u]
<1>1. PICK s \in [Timers -> Nat], q \in Seq(Timers) : s = scheduled /\ q = list[c]
  BY TypeFacts DEF TimerQueueInv
<1>2. Ordered(q, s)
  BY <1>1 DEF TimerQueueInv, Sorted
<1>3. HeadTime(c) \in 0 .. Infinite /\ \A u \in ToSet(list[c]) : HeadTime(c) <= scheduled[u]
  <2>1. CASE q = <<>>
    <3>1. HeadTime(c) = Infinite
      BY <1>1, <2>1 DEF HeadTime
    <3>2. ToSet(list[c]) = {}
      BY <1>1, <2>1 DEF ToSet
    <3> QED BY <3>1, <3>2, Times
  <2>2. CASE q # <<>>
    <3>1. HeadTime(c) = s[Head(q)]
      BY <1>1, <2>2 DEF HeadTime
    <3>2. Head(q) \in ToSet(q) /\ \A u \in ToSet(q) : s[Head(q)] <= s[u]
      BY <1>2, <2>2, HeadLeast
    <3>3. Head(q) \in Timers
      BY <2>2
    <3>4. scheduled[Head(q)] \in 0 .. Infinite
      BY <3>3, TypeFacts DEF TimerQueueInv
    <3> QED BY <1>1, <3>1, <3>2, <3>4
  <2> QED BY <2>1, <2>2
<1>4. preempt[c] \in 0 .. Infinite
  BY TypeFacts DEF TimerQueueInv
<1> DEFINE S == {HeadTime(c), preempt[c]}
<1>5. S \subseteq 0 .. Infinite /\ S \subseteq Nat /\ S # {}
  BY <1>3, <1>4, Times
<1>6. Min(S) \in S /\ \A y \in S : Min(S) <= y
  BY <1>5, MinNat
<1>7. PICK m \in 0 .. Infinite : m = SoonestDeadline(c)
  BY <1>5, <1>6 DEF SoonestDeadline
<1>8. m <= HeadTime(c) /\ m <= preempt[c]
  BY <1>6, <1>7 DEF SoonestDeadline
<1>9. ASSUME NEW u \in ToSet(list[c]) PROVE m <= scheduled[u]
  <2>1. HeadTime(c) <= scheduled[u] /\ scheduled[u] \in Nat
    BY <1>3, TypeFacts DEF TimerQueueInv
  <2> QED BY <1>3, <1>8, <2>1, Times
<1> QED BY <1>7, <1>8, <1>9

LEMMA TickStartKeeps ==
  ASSUME TimerQueueInv, NEW c \in Cpus, TickStart(c)
  PROVE  TimerQueueInv'
<1>1. /\ tick' = [tick EXCEPT ![c] = "loop"]
      /\ tickTime' = [tickTime EXCEPT ![c] = now]
      /\ hardware' = [hardware EXCEPT ![c] = Infinite]
      /\ next' = [next EXCEPT ![c] = Infinite]
      /\ preempt' = [preempt EXCEPT ![c] = IF now >= @ THEN Infinite ELSE @]
      /\ UNCHANGED <<now, list, scheduled, active, waits, cancel, spinning, finished, window>>
  BY DEF TickStart, cancelVars
<1>2. TypeOK'
  <2>1. Infinite \in 0 .. Infinite
    BY Times
  <2>2. hardware' \in [Cpus -> 0 .. Infinite] /\ next' \in [Cpus -> 0 .. Infinite]
    BY <1>1, <2>1 DEF TimerQueueInv, TypeOK
  <2>3. preempt' \in [Cpus -> Preemptions \cup {Infinite}]
    BY <1>1 DEF TimerQueueInv, TypeOK
  <2>4. /\ tick' \in [Cpus -> {"none", "loop", "callback"}]
        /\ tickTime' \in [Cpus -> 0 .. MaxTime]
    BY <1>1 DEF TimerQueueInv, TypeOK
  <2> QED BY <1>1, <2>2, <2>3, <2>4 DEF TimerQueueInv, TypeOK
<1>3. Sorted' /\ Apart' /\ CoalescedInWindow' /\ \A u : Queued(u)' <=> Queued(u)
  BY <1>1, QueuesKept
<1>4. HardwareArmed'
  <2>1. ASSUME NEW d \in Cpus, tick'[d] = "none"
        PROVE  /\ tick[d] = "none" /\ list'[d] = list[d] /\ scheduled' = scheduled
               /\ preempt'[d] = preempt[d] /\ hardware'[d] = hardware[d]
    BY <1>1, <2>1 DEF TimerQueueInv, TypeOK
  <2> QED BY <2>1 DEF TimerQueueInv, HardwareArmed
<1>5. NextTrue'
  BY <1>1 DEF TimerQueueInv, NextTrue
<1> QED BY <1>1, <1>2, <1>3, <1>4, <1>5 DEF TimerQueueInv, CancelIsFinal, SpinInv

LEMMA TickFireKeeps ==
  ASSUME TimerQueueInv, NEW c \in Cpus, TickFire(c)
  PROVE  TimerQueueInv'
<1>1. PICK s \in [Timers -> Nat], q \in Seq(Timers) : s = scheduled /\ q = list[c]
  BY TypeFacts DEF TimerQueueInv
<1>2. Ordered(q, s) /\ q # <<>>
  BY <1>1 DEF TimerQueueInv, Sorted, TickFire, HeadDue
<1>3. PICK t \in Timers : t = Head(q)
  BY <1>2
<1>4. /\ tick[c] = "loop"
      /\ active' = [active EXCEPT ![t] = c]
      /\ list' = [list EXCEPT ![c] = Tail(q)]
      /\ tick' = [tick EXCEPT ![c] = "callback"]
      /\ window' = [window EXCEPT ![t] = NoWindow]
      /\ UNCHANGED <<now, scheduled, next, preempt, hardware, tickTime, waits>>
      /\ UNCHANGED <<cancel, spinning, finished>>
  BY <1>1, <1>3 DEF TickFire, clockVars, cancelVars
<1>5. /\ Tail(q) \in Seq(Timers) /\ Ordered(Tail(q), s)
      /\ ToSet(Tail(q)) = ToSet(q) \ {t} /\ t \in ToSet(q)
  BY <1>2, <1>3, TailOrdered, HeadLeast
<1>6. ASSUME NEW d \in Cpus
      PROVE  /\ list'[d] \in Seq(Timers)
             /\ Ordered(list'[d], scheduled)
             /\ ToSet(list'[d]) = ToSet(list[d]) \ {t}
  <2>1. CASE d = c
    BY <1>1, <1>4, <1>5, <2>1 DEF TimerQueueInv, TypeOK
  <2>2. CASE d # c
    <3>1. list'[d] = list[d]
      BY <1>4, <2>2 DEF TimerQueueInv, TypeOK
    <3>2. t \notin ToSet(list[d])
      BY <1>1, <1>5, <2>2 DEF TimerQueueInv, Apart
    <3> QED BY <3>1, <3>2, TypeFacts DEF TimerQueueInv, Sorted
  <2> QED BY <2>1, <2>2
<1>7. /\ Sorted' /\ Apart' /\ CoalescedInWindow'
      /\ ~Queued(t)' /\ \A u : Queued(u)' => Queued(u)
  BY <1>4, <1>6, QueuesShrunk
<1>8. TypeOK'
  <2>1. list' \in [Cpus -> Seq(Timers)]
    BY <1>4, <1>5 DEF TimerQueueInv, TypeOK
  <2>2. window' \in [Timers -> Windows \cup {NoWindow}]
    BY <1>4 DEF TimerQueueInv, TypeOK
  <2>3. active' \in [Timers -> Cpus \cup {None}]
    BY <1>4 DEF TimerQueueInv, TypeOK
  <2>4. tick' \in [Cpus -> {"none", "loop", "callback"}]
    BY <1>4 DEF TimerQueueInv, TypeOK
  <2> QED BY <1>4, <2>1, <2>2, <2>3, <2>4 DEF TimerQueueInv, TypeOK
<1>9. HardwareArmed'
  <2>1. ASSUME NEW d \in Cpus, tick'[d] = "none"
        PROVE  /\ tick[d] = "none" /\ ToSet(list'[d]) \subseteq ToSet(list[d])
               /\ scheduled' = scheduled
               /\ preempt'[d] = preempt[d] /\ hardware'[d] = hardware[d]
    BY <1>4, <1>6, <2>1 DEF TimerQueueInv, TypeOK
  <2> QED BY <2>1 DEF TimerQueueInv, HardwareArmed
<1>10. CancelIsFinal'
  <2>1. Queued(t)
    BY <1>1, <1>5 DEF Queued
  <2>2. t \notin finished
    BY <2>1 DEF TimerQueueInv, CancelIsFinal
  <2>3. finished \subseteq Timers
    BY DEF TimerQueueInv, TypeOK
  <2>4. \A u \in finished : active'[u] = active[u]
    BY <1>4, <2>2, <2>3 DEF TimerQueueInv, TypeOK
  <2> QED BY <1>4, <1>7, <2>4 DEF TimerQueueInv, CancelIsFinal
<1> QED BY <1>4, <1>7, <1>8, <1>9, <1>10 DEF TimerQueueInv, NextTrue, SpinInv

LEMMA CallbackDoneKeeps ==
  ASSUME TimerQueueInv, NEW c \in Cpus, CallbackDone(c)
  PROVE  TimerQueueInv'
<1>1. /\ tick' = [tick EXCEPT ![c] = "loop"]
      /\ active' = [t \in Timers |-> IF active[t] = c THEN None ELSE active[t]]
      /\ UNCHANGED <<now, list, scheduled, next, preempt, hardware, tickTime, waits>>
      /\ UNCHANGED <<cancel, spinning, finished, window>>
  BY DEF CallbackDone, clockVars, cancelVars
<1>2. TypeOK'
  <2>1. active' \in [Timers -> Cpus \cup {None}]
    BY <1>1 DEF TimerQueueInv, TypeOK
  <2>2. tick' \in [Cpus -> {"none", "loop", "callback"}]
    BY <1>1 DEF TimerQueueInv, TypeOK
  <2> QED BY <1>1, <2>1, <2>2 DEF TimerQueueInv, TypeOK
<1>3. Sorted' /\ Apart' /\ CoalescedInWindow' /\ \A u : Queued(u)' <=> Queued(u)
  BY <1>1, QueuesKept
<1>4. HardwareArmed'
  <2>1. \A d \in Cpus : tick'[d] = "none" => tick[d] = "none"
    BY <1>1 DEF TimerQueueInv, TypeOK
  <2> QED BY <1>1, <2>1 DEF TimerQueueInv, HardwareArmed
<1>5. CancelIsFinal'
  <2>1. finished \subseteq Timers
    BY DEF TimerQueueInv, TypeOK
  <2>2. \A u \in finished : active'[u] = None
    BY <1>1, <2>1 DEF TimerQueueInv, CancelIsFinal
  <2> QED BY <1>1, <1>3, <2>2 DEF TimerQueueInv, CancelIsFinal
<1> QED BY <1>1, <1>2, <1>3, <1>4, <1>5 DEF TimerQueueInv, NextTrue, SpinInv

LEMMA TickEndKeeps ==
  ASSUME TimerQueueInv, NEW c \in Cpus, TickEnd(c)
  PROVE  TimerQueueInv'
<1>1. /\ tick' = [tick EXCEPT ![c] = "none"]
      /\ UpdatePlatformTimer(c, SoonestDeadline(c))
      /\ UNCHANGED <<now, list, scheduled, active, preempt, tickTime, waits>>
      /\ UNCHANGED <<cancel, spinning, finished, window>>
  BY DEF TickEnd, cancelVars
<1>2. PICK m \in 0 .. Infinite :
        /\ m = SoonestDeadline(c) /\ m <= preempt[c]
        /\ \A u \in ToSet(list[c]) : m <= scheduled[u]
  BY SoonestFacts
<1>3. /\ next' = hardware' /\ hardware' \in [Cpus -> 0 .. Infinite]
      /\ hardware'[c] <= m
      /\ \A d \in Cpus : d # c => hardware'[d] = hardware[d]
  BY <1>1, <1>2, UpdateFacts DEF TimerQueueInv
<1>4. TypeOK'
  <2>1. tick' \in [Cpus -> {"none", "loop", "callback"}]
    BY <1>1 DEF TimerQueueInv, TypeOK
  <2> QED BY <1>1, <1>3, <2>1 DEF TimerQueueInv, TypeOK
<1>5. Sorted' /\ Apart' /\ CoalescedInWindow' /\ \A u : Queued(u)' <=> Queued(u)
  BY <1>1, QueuesKept
<1>6. HardwareArmed'
  <2> SUFFICES ASSUME NEW d \in Cpus, tick'[d] = "none"
               PROVE  /\ hardware'[d] <= preempt[d]
                      /\ \A u \in ToSet(list[d]) : hardware'[d] <= scheduled[u]
    BY <1>1 DEF HardwareArmed
  <2>1. CASE d = c
    <3>1. hardware'[c] \in Nat /\ m \in Nat /\ preempt[c] \in Nat
      BY <1>2, <1>3, TypeFacts, Times DEF TimerQueueInv
    <3>2. hardware'[c] <= preempt[c]
      BY <1>2, <1>3, <3>1
    <3>3. ASSUME NEW u \in ToSet(list[c]) PROVE hardware'[c] <= scheduled[u]
      <4>1. m <= scheduled[u] /\ scheduled[u] \in Nat
        BY <1>2, TypeFacts DEF TimerQueueInv
      <4> QED BY <1>3, <3>1, <4>1
    <3> QED BY <2>1, <3>2, <3>3
  <2>2. CASE d # c
    <3>1. tick[d] = "none"
      BY <1>1, <2>2 DEF TimerQueueInv, TypeOK
    <3> QED BY <1>3, <2>2, <3>1 DEF TimerQueueInv, HardwareArmed
  <2> QED BY <2>1, <2>2
<1> QED BY <1>1, <1>3, <1>4, <1>5, <1>6 DEF TimerQueueInv, NextTrue, CancelIsFinal, SpinInv

-----------------------------------------------------------------------------
LEMMA PreemptResetKeeps ==
  ASSUME TimerQueueInv, NEW c \in Cpus, NEW p \in Preemptions, PreemptReset(c, p)
  PROVE  TimerQueueInv'
<1>1. /\ preempt' = [preempt EXCEPT ![c] = p]
      /\ UpdatePlatformTimer(c, p)
      /\ UNCHANGED <<now, list, scheduled, active, tick, tickTime, waits>>
      /\ UNCHANGED <<cancel, spinning, finished, window>>
  BY DEF PreemptReset, cancelVars, tickVars
<1>2. p \in 0 .. Infinite
  BY Times
<1>3. /\ next' = hardware' /\ hardware' \in [Cpus -> 0 .. Infinite]
      /\ hardware'[c] <= hardware[c] /\ hardware'[c] <= p
      /\ \A d \in Cpus : d # c => hardware'[d] = hardware[d]
  BY <1>1, <1>2, UpdateFacts DEF TimerQueueInv
<1>4. TypeOK'
  <2>1. preempt' \in [Cpus -> Preemptions \cup {Infinite}]
    BY <1>1 DEF TimerQueueInv, TypeOK
  <2> QED BY <1>1, <1>3, <2>1 DEF TimerQueueInv, TypeOK
<1>5. Sorted' /\ Apart' /\ CoalescedInWindow' /\ \A u : Queued(u)' <=> Queued(u)
  BY <1>1, QueuesKept
<1>6. HardwareArmed'
  <2> SUFFICES ASSUME NEW d \in Cpus, tick[d] = "none"
               PROVE  /\ hardware'[d] <= preempt'[d]
                      /\ \A u \in ToSet(list[d]) : hardware'[d] <= scheduled[u]
    BY <1>1 DEF HardwareArmed
  <2>1. /\ hardware[d] <= preempt[d]
        /\ \A u \in ToSet(list[d]) : hardware[d] <= scheduled[u]
    BY DEF TimerQueueInv, HardwareArmed
  <2>2. CASE d = c
    <3>1. hardware'[c] \in Nat /\ hardware[c] \in Nat
      BY <1>3, TypeFacts, Times DEF TimerQueueInv
    <3>2. hardware'[c] <= preempt'[c]
      BY <1>1, <1>3 DEF TimerQueueInv, TypeOK
    <3>3. ASSUME NEW u \in ToSet(list[c]) PROVE hardware'[c] <= scheduled[u]
      <4>1. hardware[c] <= scheduled[u] /\ scheduled[u] \in Nat
        BY <2>1, <2>2, TypeFacts DEF TimerQueueInv
      <4> QED BY <1>3, <3>1, <4>1
    <3> QED BY <2>2, <3>2, <3>3
  <2>3. CASE d # c
    <3>1. preempt'[d] = preempt[d]
      BY <1>1, <2>3 DEF TimerQueueInv, TypeOK
    <3> QED BY <1>3, <2>1, <2>3, <3>1
  <2> QED BY <2>2, <2>3
<1> QED BY <1>1, <1>3, <1>4, <1>5, <1>6 DEF TimerQueueInv, NextTrue, CancelIsFinal, SpinInv

LEMMA PreemptCancelKeeps ==
  ASSUME TimerQueueInv, NEW c \in Cpus, PreemptCancel(c)
  PROVE  TimerQueueInv'
<1>1. /\ preempt' = [preempt EXCEPT ![c] = Infinite]
      /\ UNCHANGED <<now, list, scheduled, active, hardware, next, tick, tickTime, waits>>
      /\ UNCHANGED <<cancel, spinning, finished, window>>
  BY DEF PreemptCancel, cancelVars, tickVars
<1>2. TypeOK'
  <2>1. preempt' \in [Cpus -> Preemptions \cup {Infinite}]
    BY <1>1 DEF TimerQueueInv, TypeOK
  <2> QED BY <1>1, <2>1 DEF TimerQueueInv, TypeOK
<1>3. Sorted' /\ Apart' /\ CoalescedInWindow' /\ \A u : Queued(u)' <=> Queued(u)
  BY <1>1, QueuesKept
<1>4. HardwareArmed'
  <2> SUFFICES ASSUME NEW d \in Cpus, tick[d] = "none"
               PROVE  /\ hardware[d] <= preempt'[d]
                      /\ \A u \in ToSet(list[d]) : hardware[d] <= scheduled[u]
    BY <1>1 DEF HardwareArmed
  <2>1. hardware[d] <= Infinite
    BY Times DEF TimerQueueInv, TypeOK
  <2>2. preempt'[d] = IF d = c THEN Infinite ELSE preempt[d]
    BY <1>1 DEF TimerQueueInv, TypeOK
  <2> QED BY <2>1, <2>2 DEF TimerQueueInv, HardwareArmed
<1> QED BY <1>1, <1>2, <1>3, <1>4 DEF TimerQueueInv, NextTrue, CancelIsFinal, SpinInv

LEMMA TransitionOffCpuKeeps ==
  ASSUME TimerQueueInv, NEW c \in Cpus, NEW d \in Cpus, TransitionOffCpu(c, d)
  PROVE  TimerQueueInv'
<1>1. PICK adopted : adopted = Adopt(c, d)
  OBVIOUS
<1> DEFINE head == Head(adopted)
           update == /\ adopted # <<>>
                     /\ list[c] = <<>> \/ head # Head(list[c])
                     /\ Reprogram(c, scheduled[head])
<1>2. /\ c # d /\ tick[c] = "none" /\ tick[d] = "none"
      /\ list' = [list EXCEPT ![c] = adopted, ![d] = <<>>]
      /\ hardware' = [hardware EXCEPT ![d] = Infinite,
                                      ![c] = IF update THEN scheduled[head] ELSE @]
      /\ next' = [next EXCEPT ![d] = Infinite,
                              ![c] = IF update THEN scheduled[head] ELSE @]
      /\ preempt' = [preempt EXCEPT ![d] = Infinite]
      /\ UNCHANGED <<now, scheduled, active, tick, tickTime, waits>>
      /\ UNCHANGED <<cancel, spinning, finished, window>>
  BY <1>1 DEF TransitionOffCpu, cancelVars, tickVars
<1>3. /\ adopted \in Seq(Timers)
      /\ Ordered(adopted, scheduled)
      /\ ToSet(adopted) = ToSet(list[c]) \cup ToSet(list[d])
  BY <1>1, <1>2, AdoptFacts, TypeFacts DEF TimerQueueInv, Sorted, Apart
<1>4. PICK s \in [Timers -> Nat] : s = scheduled
  BY TypeFacts DEF TimerQueueInv
<1>5. adopted # <<>> =>
        /\ head \in ToSet(adopted) /\ head \in Timers
        /\ \A u \in ToSet(adopted) : scheduled[head] <= scheduled[u]
  BY <1>3, <1>4, HeadLeast
<1>6. /\ list'[c] = adopted /\ list'[d] = <<>> /\ ToSet(list'[d]) = {}
      /\ \A e \in Cpus : e \notin {c, d} => list'[e] = list[e]
  BY <1>2 DEF TimerQueueInv, TypeOK, ToSet
<1>7. hardware' = next' /\ hardware' \in [Cpus -> 0 .. Infinite]
  <2>1. Infinite \in 0 .. Infinite
    BY Times
  <2>2. update => scheduled[head] \in 0 .. Infinite
    BY <1>5, TypeFacts DEF TimerQueueInv
  <2> HIDE DEF update, head
  <2> QED BY <1>2, <2>1, <2>2 DEF TimerQueueInv, TypeOK, NextTrue
<1>8. /\ hardware'[d] = Infinite
      /\ hardware'[c] = IF update THEN scheduled[head] ELSE hardware[c]
      /\ \A e \in Cpus : e \notin {c, d} => hardware'[e] = hardware[e]
  <2> HIDE DEF update, head
  <2> QED BY <1>2 DEF TimerQueueInv, TypeOK
<1>9. TypeOK'
  <2>1. list' \in [Cpus -> Seq(Timers)]
    <3>1. <<>> \in Seq(Timers)
      OBVIOUS
    <3>2. PICK empty \in Seq(Timers) : empty = <<>>
      BY <3>1
    <3>3. list' = [list EXCEPT ![c] = adopted, ![d] = empty]
      BY <1>2, <3>2
    <3> QED BY <1>3, <3>3 DEF TimerQueueInv, TypeOK
  <2>2. preempt' \in [Cpus -> Preemptions \cup {Infinite}]
    BY <1>2 DEF TimerQueueInv, TypeOK
  <2> QED BY <1>2, <1>7, <2>1, <2>2 DEF TimerQueueInv, TypeOK
<1>10. Sorted'
  <2> SUFFICES ASSUME NEW e \in Cpus PROVE Ordered(list'[e], scheduled)
    BY <1>2 DEF Sorted
  <2>1. CASE e = c
    BY <1>3, <1>6, <2>1
  <2>2. CASE e = d
    <3>1. DOMAIN list'[e] = {}
      BY <1>6, <2>2
    <3> QED BY <3>1 DEF Ordered
  <2>3. CASE e \notin {c, d}
    BY <1>6, <2>3 DEF TimerQueueInv, Sorted
  <2> QED BY <2>1, <2>2, <2>3
<1>11. Apart'
  <2> SUFFICES ASSUME NEW e \in Cpus, NEW f \in Cpus, e # f
               PROVE  ToSet(list'[e]) \cap ToSet(list'[f]) = {}
    BY DEF Apart
  <2>1. \A x, y \in Cpus : x # y => ToSet(list[x]) \cap ToSet(list[y]) = {}
    BY DEF TimerQueueInv, Apart
  <2>2. ASSUME NEW x \in Cpus
        PROVE  \/ x = c /\ ToSet(list'[x]) = ToSet(list[c]) \cup ToSet(list[d])
               \/ x = d /\ ToSet(list'[x]) = {}
               \/ x # c /\ x # d /\ ToSet(list'[x]) = ToSet(list[x])
    BY <1>3, <1>6
  <2>3. CASE e = d \/ f = d
    BY <1>2, <2>2, <2>3
  <2>4. CASE e = c /\ f # d
    BY <1>2, <2>1, <2>2, <2>4
  <2>5. CASE f = c /\ e # d
    BY <1>2, <2>1, <2>2, <2>5
  <2>6. CASE e \notin {c, d} /\ f \notin {c, d}
    BY <2>1, <2>2, <2>6
  <2> QED BY <2>3, <2>4, <2>5, <2>6
<1>12. \A u : Queued(u)' <=> Queued(u)
  <2>1. ASSUME NEW u, Queued(u)' PROVE Queued(u)
    <3>1. PICK e \in Cpus : u \in ToSet(list'[e])
      BY <2>1 DEF Queued
    <3> QED BY <1>3, <1>6, <3>1 DEF Queued
  <2>2. ASSUME NEW u, Queued(u) PROVE Queued(u)'
    <3>1. PICK e \in Cpus : u \in ToSet(list[e])
      BY <2>2 DEF Queued
    <3>2. CASE e \in {c, d}
      <4>1. u \in ToSet(list'[c])
        BY <1>3, <1>6, <3>1, <3>2
      <4> QED BY <4>1 DEF Queued
    <3>3. CASE e \notin {c, d}
      BY <1>6, <3>1, <3>3 DEF Queued
    <3> QED BY <3>2, <3>3
  <2> QED BY <2>1, <2>2
<1>13. HardwareArmed'
  <2> SUFFICES ASSUME NEW e \in Cpus, tick[e] = "none"
               PROVE  /\ hardware'[e] <= preempt'[e]
                      /\ \A u \in ToSet(list'[e]) : hardware'[e] <= scheduled[u]
    BY <1>2 DEF HardwareArmed
  <2>0. /\ hardware[e] <= preempt[e]
        /\ \A u \in ToSet(list[e]) : hardware[e] <= scheduled[u]
    BY DEF TimerQueueInv, HardwareArmed
  <2>1. preempt'[e] = IF e = d THEN Infinite ELSE preempt[e]
    BY <1>2 DEF TimerQueueInv, TypeOK
  <2>2. CASE e = d
    BY <1>6, <1>8, <2>1, <2>2, Times
  <2>3. CASE e \notin {c, d}
    BY <1>6, <1>8, <2>0, <2>1, <2>3
  <2>4. CASE e = c
    <3>1. /\ hardware[c] \in Nat /\ preempt[c] \in Nat
          /\ \A u \in Timers : scheduled[u] \in Nat
          /\ ToSet(adopted) \subseteq Timers
      BY <1>3, TypeFacts, Times DEF TimerQueueInv
    <3>2. CASE update
      <4>1. adopted # <<>> /\ scheduled[head] < hardware[c] /\ hardware'[c] = scheduled[head]
        BY <1>8, <3>2 DEF Reprogram, TimerQueueInv, NextTrue
      <4>2. scheduled[head] \in Nat
        BY <1>5, <3>1, <4>1
      <4>3. scheduled[head] <= preempt[c]
        BY <2>0, <2>4, <3>1, <4>1, <4>2
      <4> QED BY <1>2, <1>5, <1>6, <2>1, <2>4, <4>1, <4>3
    <3>3. CASE ~update
      <4>1. hardware'[c] = hardware[c]
        BY <1>8, <3>3
      <4>2. CASE adopted = <<>>
        <5>1. ToSet(adopted) = {}
          BY <4>2 DEF ToSet
        <5> QED BY <1>2, <1>6, <2>0, <2>1, <2>4, <4>1, <5>1
      <4>3. CASE adopted # <<>>
        <5>1. hardware[c] <= scheduled[head]
          <6>1. CASE list[c] # <<>> /\ head = Head(list[c])
            <7>1. list[c] \in Seq(Timers) /\ Ordered(list[c], s)
              BY <1>4, TypeFacts DEF TimerQueueInv, Sorted
            <7>2. Head(list[c]) \in ToSet(list[c])
              BY <6>1, <7>1, HeadLeast
            <7> QED BY <2>0, <2>4, <6>1, <7>2
          <6>2. CASE ~Reprogram(c, scheduled[head])
            <7>1. ~(scheduled[head] < hardware[c])
              BY <6>2 DEF Reprogram, TimerQueueInv, NextTrue
            <7>2. scheduled[head] \in Nat
              BY <1>5, <3>1, <4>3
            <7> QED BY <3>1, <7>1, <7>2
          <6> QED BY <3>3, <4>3, <6>1, <6>2
        <5>2. ASSUME NEW u \in ToSet(adopted) PROVE hardware[c] <= scheduled[u]
          <6>1. scheduled[head] <= scheduled[u] /\ scheduled[head] \in Nat /\ scheduled[u] \in Nat
            BY <1>5, <3>1, <4>3
          <6> QED BY <3>1, <5>1, <6>1
        <5> QED BY <1>2, <1>6, <2>0, <2>1, <2>4, <4>1, <5>2
      <4> QED BY <4>2, <4>3
    <3> QED BY <3>2, <3>3
  <2> QED BY <2>2, <2>3, <2>4
<1>14. CoalescedInWindow' /\ CancelIsFinal' /\ SpinInv'
  BY <1>2, <1>12 DEF TimerQueueInv, CoalescedInWindow, CancelIsFinal, SpinInv
<1> QED BY <1>7, <1>9, <1>10, <1>11, <1>13, <1>14 DEF TimerQueueInv, NextTrue

LEMMA ThawPercpuKeeps ==
  ASSUME TimerQueueInv, NEW c \in Cpus, ThawPercpu(c)
  PROVE  TimerQueueInv'
<1>1. PICK m \in 0 .. Infinite :
        /\ m = SoonestDeadline(c) /\ m <= preempt[c]
        /\ \A u \in ToSet(list[c]) : m <= scheduled[u]
  BY SoonestFacts
<1>2. /\ hardware' = [hardware EXCEPT ![c] = m]
      /\ next' = [next EXCEPT ![c] = m]
      /\ UNCHANGED <<now, list, scheduled, active, preempt, tick, tickTime, waits>>
      /\ UNCHANGED <<cancel, spinning, finished, window>>
  BY <1>1 DEF ThawPercpu, cancelVars, tickVars
<1>3. TypeOK' /\ NextTrue'
  <2>1. hardware' \in [Cpus -> 0 .. Infinite] /\ next' = hardware'
    BY <1>2 DEF TimerQueueInv, TypeOK, NextTrue
  <2> QED BY <1>2, <2>1 DEF TimerQueueInv, TypeOK, NextTrue
<1>4. Sorted' /\ Apart' /\ CoalescedInWindow' /\ \A u : Queued(u)' <=> Queued(u)
  BY <1>2, QueuesKept
<1>5. HardwareArmed'
  <2>1. \A d \in Cpus : hardware'[d] = IF d = c THEN m ELSE hardware[d]
    BY <1>2 DEF TimerQueueInv, TypeOK
  <2> QED BY <1>1, <1>2, <2>1 DEF TimerQueueInv, HardwareArmed
<1> QED BY <1>2, <1>3, <1>4, <1>5 DEF TimerQueueInv, CancelIsFinal, SpinInv

LEMMA ClockKeeps ==
  ASSUME TimerQueueInv, Clock \/ UNCHANGED vars
  PROVE  TimerQueueInv'
<1>1. /\ UNCHANGED <<list, scheduled, active, next, preempt, hardware, tick, tickTime, waits>>
      /\ UNCHANGED <<cancel, spinning, finished, window>>
      /\ now' \in 0 .. MaxTime
  BY Times DEF Clock, vars, cancelVars, tickVars, clockVars, TimerQueueInv, TypeOK
<1>2. TypeOK'
  BY <1>1 DEF TimerQueueInv, TypeOK
<1>3. Sorted' /\ Apart' /\ CoalescedInWindow' /\ \A u : Queued(u)' <=> Queued(u)
  BY <1>1, QueuesKept
<1> QED BY <1>1, <1>2, <1>3
        DEF TimerQueueInv, NextTrue, HardwareArmed, CancelIsFinal, SpinInv
-----------------------------------------------------------------------------
(* Every step keeps the invariant: the queues of timer.cc stay sorted and   *)
(* apart, and the hardware programmed.                                      *)
THEOREM TimerQueueInvariant == Spec => []TimerQueueInv
<1>1. TimerQueueInv /\ [Next]_vars => TimerQueueInv'
  <2> SUFFICES ASSUME TimerQueueInv, [Next]_vars PROVE TimerQueueInv'
    OBVIOUS
  <2>1. ASSUME NEW c \in Cpus, Client(c, Windows) PROVE TimerQueueInv'
    BY <2>1, SetKeeps, CancelInCallbackKeeps, CancelKeeps, PreemptResetKeeps,
       PreemptCancelKeeps DEF Client
  <2>2. ASSUME NEW c \in Cpus, TickStep(c) PROVE TimerQueueInv'
    BY <2>2, TickStartKeeps, TickFireKeeps, CallbackDoneKeeps, TickEndKeeps DEF TickStep
  <2>3. ASSUME NEW c \in Cpus, ThawPercpu(c) PROVE TimerQueueInv'
    BY <2>3, ThawPercpuKeeps
  <2>4. ASSUME NEW c \in Cpus, NEW d \in Cpus, TransitionOffCpu(c, d) PROVE TimerQueueInv'
    BY <2>4, TransitionOffCpuKeeps
  <2>5. ASSUME NEW t \in Timers, CancelReturn(t) PROVE TimerQueueInv'
    BY <2>5, CancelReturnKeeps
  <2>6. CASE Clock \/ UNCHANGED vars
    BY <2>6, ClockKeeps
  <2> QED BY <2>1, <2>2, <2>3, <2>4, <2>5, <2>6 DEF Next, Steps
<1> QED BY InitInv, <1>1, PTL DEF Spec

(* TimerQueue::Insert keeps every queue in order of time, and a timer is in *)
(* one queue at most.                                                       *)
THEOREM QueuesSortedHolds == Spec => []QueuesSorted
<1>1. TimerQueueInv => QueuesSorted
  BY DEF TimerQueueInv, QueuesSorted, Sorted, Apart, Ordered
<1> QED BY <1>1, TimerQueueInvariant, PTL

(* Coalescing keeps every timer in the window it was set with.              *)
THEOREM CoalescedInWindowHolds == Spec => []CoalescedInWindow
<1>1. TimerQueueInv => CoalescedInWindow
  BY DEF TimerQueueInv
<1> QED BY <1>1, TimerQueueInvariant, PTL

(* Outside of its interrupt no CPU sleeps through a timer of its queue or   *)
(* its preemption deadline, whatever UpdatePlatformTimer skipped.           *)
THEOREM HardwareArmedHolds == Spec => []HardwareArmed
<1>1. TimerQueueInv => HardwareArmed
  BY DEF TimerQueueInv
<1> QED BY <1>1, TimerQueueInvariant, PTL

(* After Timer::Cancel has returned the timer neither waits nor runs.       *)
THEOREM CancelIsFinalHolds == Spec => []CancelIsFinal
<1>1. TimerQueueInv => CancelIsFinal
  BY DEF TimerQueueInv
<1> QED BY <1>1, TimerQueueInvariant, PTL
=============================================================================
