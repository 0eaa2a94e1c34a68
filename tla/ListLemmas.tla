----------------------------- MODULE ListLemmas -----------------------------
(***************************************************************************)
(* Facts about the lists threads wait in (suspend_thread of ipc.c), used   *)
(* in the proofs about Mailbox and Mutex: what inserting, removing and     *)
(* taking the head do to the members of a list and to their order.  The    *)
(* least element of a set, below, serves Heap, AtSocket and Calendar as    *)
(* well, and the arithmetic at the end ClockSync and Calendar.             *)
(***************************************************************************)
EXTENDS Integers, Sequences, SequencesExt, SequenceTheorems, WellFoundedInduction, TLAPS

\* u stands in the list q.
Listed(q, u) == \E i \in DOMAIN q : q[i] = u

\* Nobody stands in q twice.
NoDouble(q) == \A i, j \in DOMAIN q : i # j => q[i] # q[j]

\* q is sorted by the numbers that f gives its members.
SortedBy(q, f) == \A i, j \in DOMAIN q : i < j => f[q[i]] <= f[q[j]]

\* Place i of q is where RT_IPC_FLAG_PRIO puts t: behind all who are as urgent.
Place(q, i, t, f) ==
    /\ \A j \in 1 .. i - 1 : f[q[j]] <= f[t]
    /\ i <= Len(q) => f[t] < f[q[i]]

-----------------------------------------------------------------------------
\* rt_ipc_list_suspend: t goes to place i, those behind move back by one.
LEMMA InsertPlaces ==
    ASSUME NEW S, NEW q \in Seq(S), NEW t \in S, NEW i \in 1 .. Len(q) + 1
    PROVE  /\ InsertAt(q, i, t) \in Seq(S)
           /\ Len(InsertAt(q, i, t)) = Len(q) + 1
           /\ \A j \in 1 .. Len(q) + 1 :
                 InsertAt(q, i, t)[j] = IF j < i THEN q[j]
                                        ELSE IF j = i THEN t ELSE q[j - 1]
<1> DEFINE a == SubSeq(q, 1, i - 1)
           b == SubSeq(q, i, Len(q))
<1>1. Len(q) \in Nat /\ i \in Int /\ i - 1 \in Int /\ \A j \in 1 .. Len(q) : q[j] \in S
  BY LenProperties, ElementOfSeq
<1>2. a \in Seq(S) /\ Len(a) = i - 1 /\ \A j \in 1 .. i - 1 : a[j] = q[j]
  <2>1. \A j \in 1 .. i - 1 : q[j] \in S
    BY <1>1
  <2>2. /\ a \in Seq(S) /\ Len(a) = IF 1 <= i - 1 THEN i - 1 - 1 + 1 ELSE 0
        /\ \A j \in 1 .. i - 1 - 1 + 1 : a[j] = q[1 + j - 1]
    BY <2>1, <1>1, SubSeqProperties
  <2> HIDE DEF a
  <2> QED
    BY <2>2, <1>1
<1>3. /\ b \in Seq(S) /\ Len(b) = Len(q) - i + 1
      /\ \A j \in 1 .. Len(q) - i + 1 : b[j] = q[i + j - 1]
  <2>1. \A j \in i .. Len(q) : q[j] \in S
    BY <1>1
  <2>2. /\ b \in Seq(S) /\ Len(b) = IF i <= Len(q) THEN Len(q) - i + 1 ELSE 0
        /\ \A j \in 1 .. Len(q) - i + 1 : b[j] = q[i + j - 1]
    BY <2>1, <1>1, SubSeqProperties
  <2> HIDE DEF b
  <2> QED
    BY <2>2, <1>1
<1> DEFINE d == <<t>>
           c == a \o d
           r == c \o b
<1>4. d \in Seq(S) /\ Len(d) = 1 /\ d[1] = t
  OBVIOUS
<1>5. InsertAt(q, i, t) = r
  BY DEF InsertAt
<1> HIDE DEF a, b, d
<1>6. /\ c \in Seq(S) /\ Len(c) = Len(a) + Len(d)
      /\ \A j \in 1 .. Len(a) + Len(d) : c[j] = IF j <= Len(a) THEN a[j] ELSE d[j - Len(a)]
  BY <1>2, <1>4, ConcatProperties
<1> HIDE DEF c
<1>7. Len(c) = i /\ \A j \in 1 .. i : c[j] = IF j < i THEN q[j] ELSE t
  <2>1. Len(c) = i
    BY <1>1, <1>2, <1>4, <1>6
  <2>2. ASSUME NEW j \in 1 .. i, j < i
        PROVE  c[j] = q[j]
    BY <2>2, <1>1, <1>2, <1>4, <1>6
  <2>3. c[i] = t
    <3>1. i - (i - 1) = 1 /\ ~(i <= i - 1) /\ i \in 1 .. Len(a) + Len(d)
      BY <1>1, <1>2, <1>4
    <3> QED
      BY <3>1, <1>2, <1>4, <1>6
  <2> QED
    BY <2>1, <2>2, <2>3, <1>1
<1>8. /\ r \in Seq(S) /\ Len(r) = Len(c) + Len(b)
      /\ \A j \in 1 .. Len(c) + Len(b) : r[j] = IF j <= Len(c) THEN c[j] ELSE b[j - Len(c)]
  <2>1. c \in Seq(S) /\ b \in Seq(S)
    BY <1>3, <1>6
  <2> QED
    BY <2>1, ConcatProperties
<1> HIDE DEF r
<1>9. r \in Seq(S) /\ Len(r) = Len(q) + 1
  BY <1>1, <1>3, <1>7, <1>8
<1>10. ASSUME NEW j \in 1 .. Len(q) + 1
       PROVE  r[j] = IF j < i THEN q[j] ELSE IF j = i THEN t ELSE q[j - 1]
  <2>1. CASE j <= i
    BY <2>1, <1>1, <1>3, <1>7, <1>8
  <2>2. CASE j > i
    <3>1. j - i \in 1 .. Len(q) - i + 1 /\ i + (j - i) - 1 = j - 1
      BY <2>2, <1>1
    <3> QED
      BY <3>1, <2>2, <1>1, <1>3, <1>7, <1>8
  <2> QED
    BY <2>1, <2>2, <1>1
<1> QED
  BY <1>5, <1>9, <1>10

\* rt_list_remove: those behind place i move up by one.
LEMMA RemovePlaces ==
    ASSUME NEW S, NEW q \in Seq(S), NEW i \in 1 .. Len(q)
    PROVE  /\ RemoveAt(q, i) \in Seq(S)
           /\ Len(RemoveAt(q, i)) = Len(q) - 1
           /\ \A j \in 1 .. Len(q) - 1 :
                 RemoveAt(q, i)[j] = IF j < i THEN q[j] ELSE q[j + 1]
<1> DEFINE a == SubSeq(q, 1, i - 1)
           b == SubSeq(q, i + 1, Len(q))
           r == a \o b
<1>1. /\ Len(q) \in Nat /\ i \in Int /\ i - 1 \in Int /\ i + 1 \in Int
      /\ \A j \in 1 .. Len(q) : q[j] \in S
  BY LenProperties, ElementOfSeq
<1>2. a \in Seq(S) /\ Len(a) = i - 1 /\ \A j \in 1 .. i - 1 : a[j] = q[j]
  <2>1. \A j \in 1 .. i - 1 : q[j] \in S
    BY <1>1
  <2>2. /\ a \in Seq(S) /\ Len(a) = IF 1 <= i - 1 THEN i - 1 - 1 + 1 ELSE 0
        /\ \A j \in 1 .. i - 1 - 1 + 1 : a[j] = q[1 + j - 1]
    BY <2>1, <1>1, SubSeqProperties
  <2> HIDE DEF a
  <2> QED
    BY <2>2, <1>1
<1>3. /\ b \in Seq(S) /\ Len(b) = Len(q) - i
      /\ \A j \in 1 .. Len(q) - i : b[j] = q[i + j]
  <2>1. \A j \in i + 1 .. Len(q) : q[j] \in S
    BY <1>1
  <2>2. /\ b \in Seq(S) /\ Len(b) = IF i + 1 <= Len(q) THEN Len(q) - (i + 1) + 1 ELSE 0
        /\ \A j \in 1 .. Len(q) - (i + 1) + 1 : b[j] = q[(i + 1) + j - 1]
    BY <2>1, <1>1, SubSeqProperties
  <2> HIDE DEF b
  <2> QED
    BY <2>2, <1>1
<1>4. RemoveAt(q, i) = r
  BY DEF RemoveAt
<1>5. /\ r \in Seq(S) /\ Len(r) = Len(a) + Len(b)
      /\ \A j \in 1 .. Len(a) + Len(b) : r[j] = IF j <= Len(a) THEN a[j] ELSE b[j - Len(a)]
  BY <1>2, <1>3, ConcatProperties
<1> HIDE DEF a, b, r
<1>6. r \in Seq(S) /\ Len(r) = Len(q) - 1
  BY <1>1, <1>2, <1>3, <1>5
<1>7. ASSUME NEW j \in 1 .. Len(q) - 1
      PROVE  r[j] = IF j < i THEN q[j] ELSE q[j + 1]
  <2>0. r[j] = IF j <= i - 1 THEN a[j] ELSE b[j - (i - 1)]
    <3>1. Len(a) + Len(b) = Len(q) - 1
      BY <1>1, <1>2, <1>3
    <3> QED
      BY <3>1, <1>2, <1>5
  <2>1. CASE j < i
    <3>1. j <= i - 1 /\ j \in 1 .. i - 1
      BY <2>1, <1>1
    <3> QED
      BY <3>1, <2>0, <2>1, <1>2
  <2>2. CASE j >= i
    <3>1. j - (i - 1) \in 1 .. Len(q) - i /\ i + (j - (i - 1)) = j + 1
          /\ ~(j <= i - 1) /\ ~(j < i)
      BY <2>2, <1>1
    <3>2. b[j - (i - 1)] = q[i + (j - (i - 1))]
      BY <3>1, <1>3
    <3> QED
      BY <3>1, <3>2, <2>0
  <2> QED
    BY <2>1, <2>2, <1>1
<1> QED
  BY <1>4, <1>6, <1>7

-----------------------------------------------------------------------------
\* rt_ipc_list_suspend adds t to those who wait, and nobody twice.
LEMMA InsertListed ==
    ASSUME NEW S, NEW q \in Seq(S), NEW t \in S, NEW i \in 1 .. Len(q) + 1
    PROVE  /\ InsertAt(q, i, t) \in Seq(S)
           /\ InsertAt(q, i, t) # <<>>
           /\ \A u : Listed(InsertAt(q, i, t), u) <=> u = t \/ Listed(q, u)
           /\ NoDouble(q) /\ ~Listed(q, t) => NoDouble(InsertAt(q, i, t))
<1> DEFINE r == InsertAt(q, i, t)
<1>1. /\ r \in Seq(S) /\ Len(r) = Len(q) + 1
      /\ \A j \in 1 .. Len(q) + 1 : r[j] = IF j < i THEN q[j] ELSE IF j = i THEN t ELSE q[j - 1]
  BY InsertPlaces
<1> HIDE DEF r
<1>2. Len(q) \in Nat /\ DOMAIN q = 1 .. Len(q) /\ DOMAIN r = 1 .. Len(q) + 1
  BY <1>1, LenProperties
<1>3. r # <<>>
  BY <1>1, <1>2
<1>4. ASSUME NEW u
      PROVE  Listed(r, u) <=> u = t \/ Listed(q, u)
  <2>1. ASSUME Listed(r, u) PROVE u = t \/ Listed(q, u)
    <3>1. PICK j \in 1 .. Len(q) + 1 : r[j] = u
      BY <2>1, <1>2 DEF Listed
    <3>2. CASE j < i
      BY <3>1, <3>2, <1>1, <1>2 DEF Listed
    <3>3. CASE j = i
      BY <3>1, <3>3, <1>1, <1>2
    <3>4. CASE j > i
      <4>1. j - 1 \in 1 .. Len(q) /\ r[j] = q[j - 1]
        BY <3>4, <1>1, <1>2
      <4> QED
        BY <4>1, <3>1, <1>2 DEF Listed
    <3> QED
      BY <3>2, <3>3, <3>4, <1>2
  <2>2. ASSUME u = t PROVE Listed(r, u)
    BY <2>2, <1>1, <1>2 DEF Listed
  <2>3. ASSUME Listed(q, u) PROVE Listed(r, u)
    <3>1. PICK j \in 1 .. Len(q) : q[j] = u
      BY <2>3, <1>2 DEF Listed
    <3>2. CASE j < i
      BY <3>1, <3>2, <1>1, <1>2 DEF Listed
    <3>3. CASE j >= i
      <4>1. j + 1 \in 1 .. Len(q) + 1 /\ r[j + 1] = q[j]
        BY <3>3, <1>1, <1>2
      <4> QED
        BY <4>1, <3>1, <1>2 DEF Listed
    <3> QED
      BY <3>2, <3>3, <1>2
  <2> QED
    BY <2>1, <2>2, <2>3
<1>5. ASSUME NoDouble(q), ~Listed(q, t)
      PROVE  NoDouble(r)
  <2> DEFINE old(j) == IF j < i THEN j ELSE j - 1
  <2>1. ASSUME NEW j \in 1 .. Len(q) + 1, j # i
        PROVE  old(j) \in 1 .. Len(q) /\ r[j] = q[old(j)]
    BY <2>1, <1>1, <1>2
  <2>2. ASSUME NEW j \in 1 .. Len(q) + 1, NEW k \in 1 .. Len(q) + 1, j # i, k # i, j # k
        PROVE  old(j) # old(k)
    BY <2>2, <1>2
  <2> HIDE DEF old
  <2>3. r[i] = t
    BY <1>1, <1>2
  <2> QED
    BY <1>2, <1>5, <2>1, <2>2, <2>3 DEF NoDouble, Listed
<1> QED
  BY <1>1, <1>3, <1>4, <1>5 DEF r

\* RT_IPC_FLAG_PRIO: t goes behind the last member that is as urgent, and a
\* sorted list stays sorted.
LEMMA InsertSorted ==
    ASSUME NEW S, NEW q \in Seq(S), NEW t \in S, NEW i \in 1 .. Len(q) + 1,
           NEW f \in [S -> Int], SortedBy(q, f), Place(q, i, t, f)
    PROVE  SortedBy(InsertAt(q, i, t), f)
<1> DEFINE r == InsertAt(q, i, t)
<1>0. \A T : \A s \in Seq(T) : \A u \in T : \A k \in 1 .. Len(s) + 1 :
        /\ InsertAt(s, k, u) \in Seq(T) /\ Len(InsertAt(s, k, u)) = Len(s) + 1
        /\ \A j \in 1 .. Len(s) + 1 :
              InsertAt(s, k, u)[j] = IF j < k THEN s[j] ELSE IF j = k THEN u ELSE s[j - 1]
  BY InsertPlaces
<1>1. /\ r \in Seq(S) /\ Len(r) = Len(q) + 1
      /\ \A j \in 1 .. Len(q) + 1 : r[j] = IF j < i THEN q[j] ELSE IF j = i THEN t ELSE q[j - 1]
  BY <1>0
<1> HIDE DEF r
<1>2. Len(q) \in Nat /\ DOMAIN q = 1 .. Len(q) /\ DOMAIN r = 1 .. Len(q) + 1
  BY <1>1, LenProperties
<1>3. f[t] \in Int /\ \A j \in 1 .. Len(q) : f[q[j]] \in Int
  BY <1>2, ElementOfSeq
<1>4. \A j \in 1 .. Len(q) : i <= j => f[t] <= f[q[j]]
  <2> SUFFICES ASSUME NEW j \in 1 .. Len(q), i <= j PROVE f[t] <= f[q[j]]
    OBVIOUS
  <2>1. i \in 1 .. Len(q) /\ f[t] < f[q[i]]
    BY <1>2 DEF Place
  <2>2. i = j \/ f[q[i]] <= f[q[j]]
    BY <1>2, <2>1 DEF SortedBy
  <2> QED
    BY <1>3, <2>1, <2>2
<1>5. ASSUME NEW j \in 1 .. Len(q) + 1, NEW k \in 1 .. Len(q) + 1, j < k
      PROVE  f[r[j]] <= f[r[k]]
  <2>1. CASE k < i
    <3>1. r[j] = q[j] /\ r[k] = q[k] /\ j \in DOMAIN q /\ k \in DOMAIN q
      BY <1>1, <1>2, <1>5, <2>1
    <3> QED
      BY <1>5, <3>1 DEF SortedBy
  <2>2. CASE k = i
    <3>1. r[j] = q[j] /\ r[k] = t /\ j \in 1 .. i - 1
      BY <1>1, <1>2, <1>5, <2>2
    <3> QED
      BY <3>1 DEF Place
  <2>3. CASE k > i /\ j < i
    <3>1. r[j] = q[j] /\ r[k] = q[k - 1] /\ j \in 1 .. i - 1 /\ j \in 1 .. Len(q)
          /\ k - 1 \in 1 .. Len(q) /\ i <= k - 1
      BY <1>1, <1>2, <1>5, <2>3
    <3>2. f[q[j]] <= f[t] /\ f[t] <= f[q[k - 1]]
      BY <1>4, <3>1 DEF Place
    <3> QED
      BY <1>3, <3>1, <3>2
  <2>4. CASE k > i /\ j = i
    <3>1. r[j] = t /\ r[k] = q[k - 1] /\ k - 1 \in 1 .. Len(q) /\ i <= k - 1
      BY <1>1, <1>2, <1>5, <2>4
    <3> QED
      BY <1>4, <3>1
  <2>5. CASE k > i /\ j > i
    <3>1. r[j] = q[j - 1] /\ r[k] = q[k - 1] /\ j - 1 \in DOMAIN q /\ k - 1 \in DOMAIN q
          /\ j - 1 < k - 1
      BY <1>1, <1>2, <1>5, <2>5
    <3> QED
      BY <3>1 DEF SortedBy
  <2> QED
    BY <2>1, <2>2, <2>3, <2>4, <2>5, <1>2
<1> QED
  BY <1>2, <1>5 DEF SortedBy, r

\* rt_list_remove takes t, who stood at place i, from those who wait.
LEMMA RemoveListed ==
    ASSUME NEW S, NEW q \in Seq(S), NEW i \in 1 .. Len(q), NoDouble(q)
    PROVE  /\ RemoveAt(q, i) \in Seq(S)
           /\ \A u : Listed(RemoveAt(q, i), u) <=> u # q[i] /\ Listed(q, u)
           /\ NoDouble(RemoveAt(q, i))
           /\ \A f : SortedBy(q, f) => SortedBy(RemoveAt(q, i), f)
<1> DEFINE r == RemoveAt(q, i)
           old(j) == IF j < i THEN j ELSE j + 1
<1>1. /\ r \in Seq(S) /\ Len(r) = Len(q) - 1
      /\ \A j \in 1 .. Len(q) - 1 : r[j] = IF j < i THEN q[j] ELSE q[j + 1]
  BY RemovePlaces
<1> HIDE DEF r
<1>2. Len(q) \in Nat /\ DOMAIN q = 1 .. Len(q) /\ DOMAIN r = 1 .. Len(q) - 1
  BY <1>1, LenProperties
<1>3. ASSUME NEW j \in DOMAIN r
      PROVE  old(j) \in DOMAIN q /\ old(j) # i /\ r[j] = q[old(j)]
  BY <1>1, <1>2
<1>4. ASSUME NEW j \in DOMAIN r, NEW k \in DOMAIN r, j < k
      PROVE  old(j) < old(k)
  BY <1>2, <1>4
<1>5. ASSUME NEW k \in DOMAIN q, k # i
      PROVE  \E j \in DOMAIN r : old(j) = k
  <2>1. CASE k < i
    BY <2>1, <1>2
  <2>2. CASE k > i
    <3>1. k - 1 \in 1 .. Len(q) - 1 /\ old(k - 1) = k
      BY <2>2, <1>2
    <3> QED
      BY <3>1, <1>2
  <2> QED
    BY <2>1, <2>2, <1>2, <1>5
<1>6. \A j \in DOMAIN r : j \in Int /\ old(j) \in Int
  BY <1>2
<1> HIDE DEF old
<1>7. ASSUME NEW u
      PROVE  Listed(r, u) <=> u # q[i] /\ Listed(q, u)
  <2>1. i \in DOMAIN q
    BY <1>2
  <2>2. ASSUME Listed(r, u) PROVE u # q[i] /\ Listed(q, u)
    BY <1>3, <2>1, <2>2 DEF NoDouble, Listed
  <2>3. ASSUME u # q[i], Listed(q, u) PROVE Listed(r, u)
    <3>1. PICK k \in DOMAIN q : q[k] = u
      BY <2>3 DEF Listed
    <3>2. PICK j \in DOMAIN r : old(j) = k
      BY <1>5, <2>3, <3>1
    <3> QED
      BY <1>3, <3>1, <3>2 DEF Listed
  <2> QED
    BY <2>2, <2>3
<1>8. NoDouble(r)
  <2>1. ASSUME NEW j \in DOMAIN r, NEW k \in DOMAIN r, j # k
        PROVE  old(j) # old(k)
    BY <1>4, <1>6, <2>1
  <2> QED
    BY <1>3, <2>1 DEF NoDouble
<1>9. ASSUME NEW f, SortedBy(q, f)
      PROVE  SortedBy(r, f)
  BY <1>3, <1>4, <1>9 DEF SortedBy
<1> QED
  BY <1>1, <1>7, <1>8, <1>9 DEF r

\* rt_ipc_list_resume takes the head from those who wait.
LEMMA TailListed ==
    ASSUME NEW S, NEW q \in Seq(S), q # <<>>
    PROVE  /\ Head(q) \in S /\ Head(q) = q[1] /\ 1 \in DOMAIN q
           /\ Tail(q) \in Seq(S)
           /\ \A u : Listed(q, u) <=> u = Head(q) \/ Listed(Tail(q), u)
           /\ NoDouble(q) => NoDouble(Tail(q)) /\ ~Listed(Tail(q), Head(q))
           /\ \A f : SortedBy(q, f) => /\ SortedBy(Tail(q), f)
                                       /\ \A u : Listed(Tail(q), u) => f[Head(q)] <= f[u]
<1> DEFINE r == Tail(q)
<1>1. /\ Head(q) \in S /\ r \in Seq(S) /\ Len(r) = Len(q) - 1
      /\ \A i \in 1 .. Len(r) : r[i] = q[i + 1]
  BY HeadTailProperties
<1>2. Head(q) = q[1]
  OBVIOUS
<1> HIDE DEF r
<1>3. /\ Len(q) \in Nat \ {0} /\ DOMAIN q = 1 .. Len(q) /\ DOMAIN r = 1 .. Len(q) - 1
  BY <1>1, LenProperties, EmptySeq
<1>4. ASSUME NEW u
      PROVE  Listed(q, u) <=> u = q[1] \/ Listed(r, u)
  <2>1. ASSUME Listed(q, u) PROVE u = q[1] \/ Listed(r, u)
    <3>1. PICK j \in 1 .. Len(q) : q[j] = u
      BY <2>1, <1>3 DEF Listed
    <3>2. CASE j # 1
      <4>1. j - 1 \in 1 .. Len(q) - 1 /\ r[j - 1] = q[j]
        BY <3>2, <1>1, <1>3
      <4> QED
        BY <4>1, <3>1, <1>3 DEF Listed
    <3> QED
      BY <3>1, <3>2
  <2>2. ASSUME u = q[1] PROVE Listed(q, u)
    BY <2>2, <1>3 DEF Listed
  <2>3. ASSUME Listed(r, u) PROVE Listed(q, u)
    BY <2>3, <1>1, <1>3 DEF Listed
  <2> QED
    BY <2>1, <2>2, <2>3
<1>5. /\ 1 \in DOMAIN q
      /\ \A i \in DOMAIN r : i + 1 \in DOMAIN q /\ 1 < i + 1 /\ r[i] = q[i + 1]
      /\ \A i, j \in DOMAIN r : /\ i < j => i + 1 < j + 1
                               /\ i # j => i + 1 # j + 1
  BY <1>1, <1>3
<1>6. ASSUME NoDouble(q)
      PROVE  NoDouble(r) /\ ~Listed(r, q[1])
  BY <1>5, <1>6 DEF NoDouble, Listed
<1>7. ASSUME NEW f, SortedBy(q, f)
      PROVE  SortedBy(r, f) /\ \A u : Listed(r, u) => f[q[1]] <= f[u]
  <2>1. ASSUME NEW i \in DOMAIN r, NEW j \in DOMAIN r, i < j
        PROVE  f[r[i]] <= f[r[j]]
    <3>1. /\ i + 1 \in DOMAIN q /\ j + 1 \in DOMAIN q /\ i + 1 < j + 1
          /\ r[i] = q[i + 1] /\ r[j] = q[j + 1]
      BY <1>1, <1>3, <2>1
    <3> QED
      BY <1>7, <3>1 DEF SortedBy
  <2>2. ASSUME NEW u, Listed(r, u)
        PROVE  f[q[1]] <= f[u]
    <3>1. PICK i \in DOMAIN r : r[i] = u
      BY <2>2 DEF Listed
    <3>2. i + 1 \in DOMAIN q /\ 1 < i + 1 /\ u = q[i + 1] /\ 1 \in DOMAIN q
      BY <1>5, <3>1
    <3> QED
      BY <1>7, <3>2 DEF SortedBy
  <2> QED
    BY <2>1, <2>2 DEF SortedBy
<1> QED
  BY <1>1, <1>2, <1>3, <1>4, <1>6, <1>7 DEF r

-----------------------------------------------------------------------------
(* Min and Max of FiniteSetsExt.                                            *)

\* A set of numbers that is not empty has a least member, and Min is it.
LEMMA LeastOf ==
    ASSUME NEW S \in SUBSET Nat, S # {}
    PROVE  /\ Min(S) \in S
           /\ \A x \in S : Min(S) <= x
<1> DEFINE R == {ss \in Nat \X Nat : ss[1] < ss[2]}
<1>1. IsWellFoundedOn(R, Nat)
  BY NatLessThanWellFounded, Zenon DEF OpToRel
<1>2. \A y, x \in Nat : <<y, x>> \in R <=> y < x
  OBVIOUS
<1> HIDE DEF R
<1>3. PICK x \in S : \A y \in S : ~(<<y, x>> \in R)
  BY <1>1, WFMin, Zenon
<1>4. S \subseteq Nat
  OBVIOUS
<1>5. \A y \in S : ~(y < x)
  BY <1>2, <1>3, <1>4, Zenon
<1>6. \A y \in S : x <= y
  BY <1>5
<1> QED
  BY <1>6 DEF Min

\* The larger of two numbers.
LEMMA LargerOf ==
    ASSUME NEW a \in Int, NEW b \in Int
    PROVE  Max({a, b}) = IF a >= b THEN a ELSE b
BY DEF Max

-----------------------------------------------------------------------------
(* Products and quotients.                                                  *)

\* A product keeps the order of its factors.
LEMMA TimesMonotone ==
    ASSUME NEW i \in Int, NEW j \in Int, NEW d \in Nat \ {0}, i <= j
    PROVE  i * d <= j * d
OBVIOUS

\* ... and so the order of products is that of their factors.
LEMMA TimesLess ==
    ASSUME NEW i \in Int, NEW j \in Int, NEW d \in Nat \ {0}, i * d < j * d
    PROVE  i < j
<1> SUFFICES ASSUME j <= i PROVE FALSE
  OBVIOUS
<1>1. j * d <= i * d
  BY TimesMonotone
<1> QED
  BY <1>1

\* Division rounds down.
LEMMA Division ==
    ASSUME NEW a \in Int, NEW d \in Nat \ {0}
    PROVE  /\ a \div d \in Int
           /\ a % d \in Nat
           /\ a % d < d
           /\ a = (a \div d) * d + (a % d)
           /\ (a \div d) * d \in Int
OBVIOUS
=============================================================================
