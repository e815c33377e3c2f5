--------------------------- MODULE SinkLoopProofs ---------------------------
(***************************************************************************)
(* The sink loop's promises, proved for every set of messages, every limit *)
(* of the retry buffer, every backoff and any number of restarts.  The     *)
(* loop around shed_one is a recursive function of the number of calls;    *)
(* what it keeps is shown by induction over the set of numbers for which   *)
(* it is kept (NatSetInduction).                                           *)
(***************************************************************************)
EXTENDS SinkLoop, BaseTheorems

-----------------------------------------------------------------------------
(* Least elements *)

\* The same of Min.
LEMMA LeastMember ==
  ASSUME NEW S \in SUBSET Nat, S # {}
  PROVE  Min(S) \in S /\ \A y \in S : Min(S) <= y
BY LeastNumber DEF Min

-----------------------------------------------------------------------------
(* Buffers *)

\* The batches are not empty and of one class each.
Pure(buf) ==
  /\ buf \in Seq(Buffered)
  /\ \A i \in DOMAIN buf :
       buf[i].recs # {} /\ \A r \in buf[i].recs : ClassOf[r] = buf[i].class

\* No record is in two places of a sequence of record sets.
Apart(s) == \A i, j \in DOMAIN s : i # j => s[i].recs \cap s[j].recs = {}

\* The front is the oldest.
Sorted(buf) == \A i, j \in DOMAIN buf : i <= j => buf[i].age >= buf[j].age

\* s is t without some of its batches, each of s at place f of t.
Embeds(f, s, t) ==
  /\ f \in [1..Len(s) -> 1..Len(t)]
  /\ \A i, j \in 1..Len(s) : i < j => f[i] < f[j]
  /\ \A i \in 1..Len(s) : s[i] = t[f[i]]

Part(s, t) ==
  /\ s \in Seq(Buffered) /\ t \in Seq(Buffered) /\ Len(s) <= Len(t)
  /\ \E f : Embeds(f, s, t)

NoReliability(buf) == \A i \in DOMAIN buf : buf[i].class # "reliability"

\* If an attribution record is gone, no reliability batch is left.
ShedInOrder(buf, s) ==
  (\E r \in RecsIn(buf) \ RecsIn(s) : ClassOf[r] = "attribution") => NoReliability(s)

LEMMA PartOfItself ==
  ASSUME NEW s \in Seq(Buffered)
  PROVE  Part(s, s)
<1>1. Len(s) \in Nat
  BY SequenceFacts
<1>2. Embeds([i \in 1..Len(s) |-> i], s, s)
  BY <1>1 DEF Embeds
<1>3. QED
  BY <1>1, <1>2 DEF Part

LEMMA PartOfPart ==
  ASSUME NEW s, NEW t, NEW u, Part(s, t), Part(t, u)
  PROVE  Part(s, u)
<1>1. Len(s) \in Nat /\ Len(t) \in Nat /\ Len(u) \in Nat
  BY SequenceFacts DEF Part
<1>2. PICK f : Embeds(f, s, t)
  BY DEF Part
<1>3. PICK g : Embeds(g, t, u)
  BY DEF Part
<1>4. Embeds([i \in 1..Len(s) |-> g[f[i]]], s, u)
  BY <1>1, <1>2, <1>3 DEF Embeds
<1>5. QED
  BY <1>1, <1>4 DEF Part

\* What a part inherits.
LEMMA PartKeeps ==
  ASSUME NEW s, NEW t, Part(s, t)
  PROVE  /\ RecsIn(s) \subseteq RecsIn(t)
         /\ Pure(t) => Pure(s)
         /\ Apart(t) => Apart(s)
         /\ Sorted(t) => Sorted(s)
         /\ NoReliability(t) => NoReliability(s)
<1>1. /\ Len(s) \in Nat /\ DOMAIN s = 1..Len(s)
      /\ Len(t) \in Nat /\ DOMAIN t = 1..Len(t)
      /\ \A i \in 1..Len(s) : s[i] \in Buffered
      /\ \A i \in 1..Len(t) : t[i] \in Buffered
  BY SequenceFacts DEF Part
<1>2. PICK f : Embeds(f, s, t)
  BY DEF Part
<1>3. \A i \in 1..Len(s) : f[i] \in 1..Len(t) /\ s[i] = t[f[i]]
  BY <1>2 DEF Embeds
<1>4. \A i, j \in 1..Len(s) : i < j => f[i] < f[j]
  BY <1>2 DEF Embeds
<1>5. RecsIn(s) \subseteq RecsIn(t)
  BY <1>1, <1>3 DEF RecsIn
<1>6. Pure(t) => Pure(s)
  BY <1>1, <1>3 DEF Pure, Part
<1>7. Apart(t) => Apart(s)
  <2> SUFFICES ASSUME Apart(t), NEW i \in 1..Len(s), NEW j \in 1..Len(s), i # j
               PROVE  s[i].recs \cap s[j].recs = {}
    BY <1>1 DEF Apart
  <2>1. f[i] # f[j] /\ f[i] \in 1..Len(t) /\ f[j] \in 1..Len(t)
    <3>1. i < j \/ j < i
      OBVIOUS
    <3>2. QED
      BY <3>1, <1>3, <1>4
  <2>2. QED
    BY <2>1, <1>1, <1>3 DEF Apart
<1>8. Sorted(t) => Sorted(s)
  <2> SUFFICES ASSUME Sorted(t), NEW i \in 1..Len(s), NEW j \in 1..Len(s), i <= j
               PROVE  s[i].age >= s[j].age
    BY <1>1 DEF Sorted
  <2>1. f[i] <= f[j]
    <3>1. i < j \/ i = j
      OBVIOUS
    <3>2. QED
      BY <3>1, <1>3, <1>4
  <2>2. QED
    BY <2>1, <1>1, <1>3 DEF Sorted
<1>9. NoReliability(t) => NoReliability(s)
  BY <1>1, <1>3 DEF NoReliability
<1>10. QED
  BY <1>5, <1>6, <1>7, <1>8, <1>9

-----------------------------------------------------------------------------
(* shed_one *)

LEMMA Removal ==
  ASSUME NEW s \in Seq(Buffered), NEW v \in 1..Len(s)
  PROVE  /\ RemoveAt(s, v) \in Seq(Buffered)
         /\ Len(RemoveAt(s, v)) = Len(s) - 1
         /\ \A j \in 1..Len(s) - 1 :
              RemoveAt(s, v)[j] = IF j < v THEN s[j] ELSE s[j + 1]
<1> DEFINE front == SubSeq(s, 1, v - 1)
           back == SubSeq(s, v + 1, Len(s))
<1>1. Len(s) \in Nat /\ \A i \in 1..Len(s) : s[i] \in Buffered
  BY SequenceFacts
<1>2. /\ front \in Seq(Buffered) /\ Len(front) = v - 1
      /\ \A j \in 1..v - 1 : front[j] = s[j]
  BY <1>1, SubSeqProperties
<1>3. /\ back \in Seq(Buffered) /\ Len(back) = Len(s) - v
      /\ \A j \in 1..Len(s) - v : back[j] = s[v + j]
  BY <1>1, SubSeqProperties
<1>4. RemoveAt(s, v) = front \o back
  BY DEF RemoveAt
<1> HIDE DEF front, back
<1>5. /\ front \o back \in Seq(Buffered)
      /\ Len(front \o back) = Len(front) + Len(back)
      /\ \A i \in 1..Len(front) + Len(back) : (front \o back)[i] =
            IF i <= Len(front) THEN front[i] ELSE back[i - Len(front)]
  BY <1>2, <1>3, ConcatProperties
<1>6. Len(front) + Len(back) = Len(s) - 1
  BY <1>1, <1>2, <1>3
<1>7. ASSUME NEW j \in 1..Len(s) - 1
      PROVE  (front \o back)[j] = IF j < v THEN s[j] ELSE s[j + 1]
  <2>1. CASE j < v
    BY <2>1, <1>1, <1>2, <1>5, <1>6
  <2>2. CASE ~ (j < v)
    <3>1. j - (v - 1) \in 1..Len(s) - v /\ v + (j - (v - 1)) = j + 1
      BY <2>2, <1>1
    <3>2. (front \o back)[j] = back[j - (v - 1)]
      BY <2>2, <1>1, <1>2, <1>5, <1>6
    <3>3. QED
      BY <2>2, <3>1, <3>2, <1>3
  <2>3. QED
    BY <2>1, <2>2
<1>8. QED
  BY <1>4, <1>5, <1>6, <1>7

LEMMA RemovalIsPart ==
  ASSUME NEW s \in Seq(Buffered), NEW v \in 1..Len(s)
  PROVE  /\ Part(RemoveAt(s, v), s)
         /\ RecsIn(s) \subseteq RecsIn(RemoveAt(s, v)) \cup s[v].recs
<1> DEFINE t == RemoveAt(s, v)
           f == [j \in 1..Len(t) |-> IF j < v THEN j ELSE j + 1]
<1>1. /\ t \in Seq(Buffered) /\ Len(t) = Len(s) - 1
      /\ \A j \in 1..Len(t) : t[j] = IF j < v THEN s[j] ELSE s[j + 1]
  BY Removal
<1>2. Len(s) \in Nat /\ DOMAIN s = 1..Len(s) /\ DOMAIN t = 1..Len(t)
  BY <1>1, SequenceFacts
<1> HIDE DEF t
<1>3. Embeds(f, t, s)
  BY <1>1, <1>2 DEF Embeds
<1>4. Part(t, s)
  BY <1>1, <1>2, <1>3 DEF Part
<1>5. ASSUME NEW i \in 1..Len(s), i # v
      PROVE  s[i].recs \subseteq RecsIn(t)
  <2>1. CASE i < v
    <3>1. i \in 1..Len(t) /\ t[i] = s[i]
      BY <2>1, <1>1, <1>2
    <3>2. QED
      BY <3>1, <1>2 DEF RecsIn
  <2>2. CASE i > v
    <3>1. i - 1 \in 1..Len(t) /\ t[i - 1] = s[i]
      BY <2>2, <1>1, <1>2
    <3>2. QED
      BY <3>1, <1>2 DEF RecsIn
  <2>3. QED
    BY <1>5, <2>1, <2>2, <1>2
<1>6. RecsIn(s) \subseteq RecsIn(t) \cup s[v].recs
  BY <1>2, <1>5 DEF RecsIn
<1>7. QED
  BY <1>4, <1>6 DEF t

\* The victim is a reliability batch as long as there is one.
LEMMA VictimIsThere ==
  ASSUME NEW s \in Seq(Buffered), Len(s) > 0
  PROVE  /\ Victim(s) \in 1..Len(s)
         /\ s[Victim(s)].class = "reliability" \/ NoReliability(s)
<1> DEFINE I == {i \in 1..Len(s) : s[i].class = "reliability"}
<1>1. Len(s) \in Nat /\ DOMAIN s = 1..Len(s)
  BY SequenceFacts
<1>2. SelectInSeq(s, LAMBDA b : b.class = "reliability") = IF I # {} THEN Min(I) ELSE 0
  BY DEF SelectInSeq
<1>3. I \in SUBSET Nat
  BY <1>1
<1>4. I # {} => Min(I) \in I
  <2> HIDE DEF I
  <2>1. QED
    BY <1>3, LeastMember
<1>5. CASE I = {}
  <2>1. Victim(s) = 1
    BY <1>2, <1>5 DEF Victim
  <2>2. QED
    BY <2>1, <1>1, <1>5 DEF NoReliability
<1>6. CASE I # {}
  <2>1. Min(I) \in 1..Len(s) /\ s[Min(I)].class = "reliability"
    BY <1>4, <1>6
  <2>2. Victim(s) = Min(I)
    <3> HIDE DEF I
    <3>1. QED
      BY <1>1, <1>2, <1>6, <2>1 DEF Victim
  <2>3. QED
    BY <2>1, <2>2
<1>7. QED
  BY <1>5, <1>6

-----------------------------------------------------------------------------
(* The shedding loop *)

\* Sheddings is the function its definition writes down.
LEMMA SheddingsUnfold ==
  ASSUME NEW buf \in Seq(Buffered)
  PROVE  Sheddings(buf) =
           [k \in 0..Len(buf) |-> IF k = 0 THEN buf
              ELSE RemoveAt(Sheddings(buf)[k - 1], Victim(Sheddings(buf)[k - 1]))]
<1> DEFINE After(g, n) ==
             [k \in 0..n |-> IF k = 0 THEN buf ELSE RemoveAt(g[k - 1], Victim(g[k - 1]))]
           S == {n \in Nat : \E g : g = After(g, n)}
<1>1. Len(buf) \in Nat
  BY SequenceFacts
<1>2. 0 \in S
  <2>1. [k \in 0..0 |-> buf] = After([k \in 0..0 |-> buf], 0)
    OBVIOUS
  <2>2. QED
    BY <2>1
<1>3. ASSUME NEW n \in Nat, n \in S PROVE n + 1 \in S
  <2>1. PICK g : g = After(g, n)
    BY <1>3
  <2> DEFINE h == [k \in 0..n + 1 |-> IF k <= n THEN g[k] ELSE RemoveAt(g[n], Victim(g[n]))]
  <2>2. ASSUME NEW k \in 0..n + 1
        PROVE  h[k] = IF k = 0 THEN buf ELSE RemoveAt(h[k - 1], Victim(h[k - 1]))
    <3>1. CASE k = 0
      BY <3>1, <2>1
    <3>2. CASE k \in 1..n
      <4>1. h[k] = g[k] /\ h[k - 1] = g[k - 1] /\ k # 0
        BY <3>2
      <4>2. g[k] = RemoveAt(g[k - 1], Victim(g[k - 1]))
        BY <2>1, <3>2
      <4>3. QED
        BY <4>1, <4>2
    <3>3. CASE k = n + 1
      <4>1. h[k] = RemoveAt(g[n], Victim(g[n])) /\ k - 1 = n /\ h[n] = g[n] /\ k # 0
        BY <3>3
      <4>2. QED
        BY <4>1
    <3>4. QED
      BY <3>1, <3>2, <3>3
  <2>3. h = After(h, n + 1)
    <3>1. h = [k \in 0..n + 1 |-> h[k]]
      OBVIOUS
    <3> HIDE DEF h
    <3>2. QED
      BY <2>2, <3>1
  <2>4. \E x : x = After(x, n + 1)
    <3> HIDE DEF h, After
    <3>1. QED
      BY <2>3
  <2>5. QED
    <3> HIDE DEF After
    <3>1. QED
      BY <2>4
<1>4. \E g : g = After(g, Len(buf))
  <2> HIDE DEF After
  <2>1. Nat \subseteq S
    <3> HIDE DEF S
    <3>1. QED
      BY <1>2, <1>3, NatSetInduction
  <2>2. QED
    BY <1>1, <2>1
<1>5. Sheddings(buf) = CHOOSE g : g = After(g, Len(buf))
  BY DEF Sheddings
<1>6. QED
  BY <1>4, <1>5

\* Every value of the loop is part of the buffer it started from, one batch
\* shorter at every call, and reliability batches go first.
ShedTo(buf, s, k) == Part(s, buf) /\ Len(s) = Len(buf) - k /\ ShedInOrder(buf, s)

LEMMA SheddingsKeep ==
  ASSUME NEW buf, Pure(buf), NEW k \in 0..Len(buf)
  PROVE  ShedTo(buf, Sheddings(buf)[k], k)
<1> DEFINE after == Sheddings(buf)
           S == {n \in Nat : n <= Len(buf) => ShedTo(buf, after[n], n)}
<1>1. buf \in Seq(Buffered) /\ Len(buf) \in Nat
  BY SequenceFacts DEF Pure
<1>2. after = [n \in 0..Len(buf) |-> IF n = 0 THEN buf
                 ELSE RemoveAt(after[n - 1], Victim(after[n - 1]))]
  BY <1>1, SheddingsUnfold
<1> HIDE DEF after
<1>3. 0 \in S
  <2>1. after[0] = buf
    BY <1>1, <1>2
  <2>2. QED
    BY <1>1, <2>1, PartOfItself DEF ShedTo, ShedInOrder
<1>4. ASSUME NEW n \in Nat, n \in S PROVE n + 1 \in S
  <2> SUFFICES ASSUME n + 1 <= Len(buf) PROVE ShedTo(buf, after[n + 1], n + 1)
    OBVIOUS
  <2> DEFINE s == after[n]
             t == RemoveAt(s, Victim(s))
  <2>1. ShedTo(buf, s, n)
    BY <1>1, <1>4
  <2>2. after[n + 1] = t
    BY <1>1, <1>2
  <2> HIDE DEF s, t
  <2>3. s \in Seq(Buffered) /\ Len(s) = Len(buf) - n /\ Len(s) > 0 /\ Len(s) \in Nat
    BY <1>1, <2>1 DEF ShedTo, Part
  <2>4. /\ Victim(s) \in 1..Len(s)
        /\ s[Victim(s)].class = "reliability" \/ NoReliability(s)
    BY <2>3, VictimIsThere
  <2>5. /\ Part(t, s) /\ Len(t) = Len(s) - 1
        /\ RecsIn(s) \subseteq RecsIn(t) \cup s[Victim(s)].recs
    BY <2>3, <2>4, RemovalIsPart, Removal DEF t
  <2>6. Pure(s)
    BY <2>1, PartKeeps DEF ShedTo
  <2>7. ShedInOrder(buf, t)
    <3> SUFFICES ASSUME NEW r \in RecsIn(buf) \ RecsIn(t), ClassOf[r] = "attribution"
                 PROVE  NoReliability(t)
      BY DEF ShedInOrder
    <3>1. NoReliability(s)
      <4>1. CASE r \in RecsIn(s)
        <5>1. r \in s[Victim(s)].recs
          BY <4>1, <2>5
        <5>2. s[Victim(s)].class = "attribution"
          BY <5>1, <2>3, <2>4, <2>6, SequenceFacts DEF Pure
        <5>3. QED
          BY <5>2, <2>4
      <4>2. CASE r \notin RecsIn(s)
        BY <4>2, <2>1 DEF ShedTo, ShedInOrder
      <4>3. QED
        BY <4>1, <4>2
    <3>2. QED
      BY <3>1, <2>5, PartKeeps
  <2>8. Part(t, buf)
    BY <2>1, <2>5, PartOfPart DEF ShedTo
  <2>9. QED
    BY <1>1, <2>2, <2>3, <2>5, <2>7, <2>8 DEF ShedTo
<1>5. Nat \subseteq S
  <2> HIDE DEF S
  <2>1. QED
    BY <1>3, <1>4, NatSetInduction
<1>6. k \in S
  BY <1>1, <1>5
<1>7. QED
  BY <1>1, <1>6 DEF after

LEMMA ShedUntilFits ==
  ASSUME NEW buf, Pure(buf), NEW fits \in SUBSET (0..Len(buf))
  PROVE  \E k \in 0..Len(buf) :
           /\ ShedUntil(Sheddings(buf), fits) = Sheddings(buf)[k]
           /\ k \in fits \/ k = Len(buf)
           /\ 0 \in fits => k = 0
<1> DEFINE S == fits \cup {Len(buf)}
<1>1. buf \in Seq(Buffered) /\ Len(buf) \in Nat
  BY SequenceFacts DEF Pure
<1>2. Sheddings(buf)[0] = buf
  BY <1>1, SheddingsUnfold
<1>3. \A x \in S : x \in 0..Len(buf)
  BY <1>1
<1>4. Len(buf) \in S /\ (0 \in fits => 0 \in S)
  OBVIOUS
<1>5. \A x \in S : x \in fits \/ x = Len(buf)
  OBVIOUS
<1>6. ShedUntil(Sheddings(buf), fits) = Sheddings(buf)[Min(S)]
  BY <1>2 DEF ShedUntil
<1> HIDE DEF S
<1>7. Min(S) \in S /\ \A y \in S : Min(S) <= y
  <2>1. S \in SUBSET Nat /\ S # {}
    BY <1>1, <1>3, <1>4
  <2>2. QED
    BY <2>1, LeastMember
<1>8. PICK k \in 0..Len(buf) : k = Min(S)
  BY <1>3, <1>7
<1>9. k \in S /\ (0 \in S => k <= 0)
  BY <1>7, <1>8
<1>10. 0 \in fits => k = 0
  BY <1>1, <1>4, <1>9
<1>11. QED
  BY <1>5, <1>6, <1>8, <1>9, <1>10

\* shed_to only sheds, reliability first.
LEMMA ShedToKeeps ==
  ASSUME NEW buf, Pure(buf), NEW target
  PROVE  Part(shed_to(buf, target), buf) /\ ShedInOrder(buf, shed_to(buf, target))
<1> DEFINE fits == {k \in DOMAIN Sheddings(buf) : len_bytes(Sheddings(buf)[k]) <= target}
<1>1. fits \in SUBSET (0..Len(buf))
  BY SheddingsUnfold DEF Pure
<1>2. shed_to(buf, target) = ShedUntil(Sheddings(buf), fits)
  BY DEF shed_to
<1> HIDE DEF fits
<1>3. PICK k \in 0..Len(buf) : ShedUntil(Sheddings(buf), fits) = Sheddings(buf)[k]
  BY <1>1, ShedUntilFits
<1>4. QED
  BY <1>2, <1>3, SheddingsKeep DEF ShedTo

-----------------------------------------------------------------------------
(* enqueue *)

LEMMA JoinKeeps ==
  ASSUME NEW s, NEW t, Pure(s), Pure(t)
  PROVE  /\ Pure(s \o t)
         /\ RecsIn(s \o t) = RecsIn(s) \cup RecsIn(t)
         /\ Apart(s) /\ Apart(t) /\ RecsIn(s) \cap RecsIn(t) = {} => Apart(s \o t)
         /\ Sorted(s) /\ Sorted(t)
            /\ (\A i \in DOMAIN s, j \in DOMAIN t : s[i].age >= t[j].age)
            => Sorted(s \o t)
<1> DEFINE u == s \o t
<1>1. /\ s \in Seq(Buffered) /\ Len(s) \in Nat /\ DOMAIN s = 1..Len(s)
      /\ t \in Seq(Buffered) /\ Len(t) \in Nat /\ DOMAIN t = 1..Len(t)
  BY SequenceFacts DEF Pure
<1>2. /\ u \in Seq(Buffered) /\ Len(u) = Len(s) + Len(t)
      /\ \A i \in 1..Len(s) + Len(t) : u[i] =
           IF i <= Len(s) THEN s[i] ELSE t[i - Len(s)]
  BY <1>1, ConcatProperties
<1> HIDE DEF u
<1>3. DOMAIN u = 1..Len(s) + Len(t)
  BY <1>2, SequenceFacts
<1>4. \A i \in DOMAIN u :
        \/ i \in DOMAIN s /\ u[i] = s[i]
        \/ i > Len(s) /\ i - Len(s) \in DOMAIN t /\ u[i] = t[i - Len(s)]
  BY <1>1, <1>2, <1>3
<1>5. /\ \A i \in DOMAIN s : i \in DOMAIN u /\ u[i] = s[i]
      /\ \A i \in DOMAIN t : Len(s) + i \in DOMAIN u /\ u[Len(s) + i] = t[i]
  BY <1>1, <1>2, <1>3
<1>6. Pure(u)
  BY <1>2, <1>4 DEF Pure
<1>7. RecsIn(u) = RecsIn(s) \cup RecsIn(t)
  <2>1. RecsIn(u) \subseteq RecsIn(s) \cup RecsIn(t)
    BY <1>4 DEF RecsIn
  <2>2. RecsIn(s) \subseteq RecsIn(u) /\ RecsIn(t) \subseteq RecsIn(u)
    BY <1>5 DEF RecsIn
  <2>3. QED
    BY <2>1, <2>2
<1>8. ASSUME Apart(s), Apart(t), RecsIn(s) \cap RecsIn(t) = {} PROVE Apart(u)
  <2> SUFFICES ASSUME NEW i \in DOMAIN u, NEW j \in DOMAIN u, i # j,
                      NEW r \in u[i].recs, r \in u[j].recs
               PROVE  FALSE
    BY DEF Apart
  <2>1. CASE i \in DOMAIN s /\ u[i] = s[i] /\ j \in DOMAIN s /\ u[j] = s[j]
    BY <2>1, <1>8 DEF Apart
  <2>2. CASE /\ i > Len(s) /\ i - Len(s) \in DOMAIN t /\ u[i] = t[i - Len(s)]
             /\ j > Len(s) /\ j - Len(s) \in DOMAIN t /\ u[j] = t[j - Len(s)]
    <3>1. i - Len(s) # j - Len(s)
      BY <1>1, <1>3
    <3>2. QED
      BY <2>2, <3>1, <1>8 DEF Apart
  <2>3. CASE i \in DOMAIN s /\ u[i] = s[i] /\ j - Len(s) \in DOMAIN t /\ u[j] = t[j - Len(s)]
    BY <2>3, <1>8 DEF RecsIn
  <2>4. CASE i - Len(s) \in DOMAIN t /\ u[i] = t[i - Len(s)] /\ j \in DOMAIN s /\ u[j] = s[j]
    BY <2>4, <1>8 DEF RecsIn
  <2>5. QED
    BY <1>4, <2>1, <2>2, <2>3, <2>4
<1>9. ASSUME Sorted(s), Sorted(t), \A i \in DOMAIN s, j \in DOMAIN t : s[i].age >= t[j].age
      PROVE  Sorted(u)
  <2> SUFFICES ASSUME NEW i \in DOMAIN u, NEW j \in DOMAIN u, i <= j
               PROVE  u[i].age >= u[j].age
    BY DEF Sorted
  <2>1. CASE i \in DOMAIN s /\ u[i] = s[i] /\ j \in DOMAIN s /\ u[j] = s[j]
    BY <2>1, <1>9 DEF Sorted
  <2>2. CASE /\ i > Len(s) /\ i - Len(s) \in DOMAIN t /\ u[i] = t[i - Len(s)]
             /\ j > Len(s) /\ j - Len(s) \in DOMAIN t /\ u[j] = t[j - Len(s)]
    <3>1. i - Len(s) <= j - Len(s)
      BY <1>1, <1>3
    <3>2. QED
      BY <2>2, <3>1, <1>9 DEF Sorted
  <2>3. CASE i \in DOMAIN s /\ u[i] = s[i] /\ j - Len(s) \in DOMAIN t /\ u[j] = t[j - Len(s)]
    BY <2>3, <1>9
  <2>4. CASE i > Len(s) /\ j \in DOMAIN s
    BY <2>4, <1>1, <1>3
  <2>5. QED
    BY <1>4, <2>1, <2>2, <2>3, <2>4
<1>10. QED
  BY <1>6, <1>7, <1>8, <1>9 DEF u

LEMMA ClassesOfRecords ==
  \A r \in Recs : ClassOf[r] \in {"reliability", "attribution"}
BY RetryBufferAssumption DEF Classes

LEMMA SplitKeeps ==
  ASSUME NEW recs \in SUBSET Recs, NEW age \in 0..MaxAge + 1
  PROVE  LET p == split_by_class(recs, age)
         IN  /\ Pure(p) /\ RecsIn(p) = recs /\ Apart(p) /\ Sorted(p)
             /\ \A i \in DOMAIN p : p[i].age = age
<1> DEFINE part(class) ==
             IF OfClass(recs, class) = {} THEN <<>>
             ELSE <<[recs |-> OfClass(recs, class), class |-> class, age |-> age]>>
<1>1. ASSUME NEW class \in Classes
      PROVE  /\ Pure(part(class)) /\ RecsIn(part(class)) = OfClass(recs, class)
             /\ Apart(part(class)) /\ Sorted(part(class))
             /\ \A i \in DOMAIN part(class) : part(class)[i].age = age
  <2> DEFINE b == [recs |-> OfClass(recs, class), class |-> class, age |-> age]
  <2>1. CASE OfClass(recs, class) = {}
    <3>1. part(class) = <<>>
      BY <2>1
    <3> HIDE DEF part
    <3>2. QED
      BY <2>1, <3>1 DEF Pure, RecsIn, Apart, Sorted
  <2>2. CASE OfClass(recs, class) # {}
    <3>1. b \in Buffered /\ b.recs = OfClass(recs, class) /\ b.class = class /\ b.age = age
      BY DEF Buffered, OfClass
    <3>2. part(class) = <<b>>
      BY <2>2
    <3> HIDE DEF b, part
    <3>3. /\ <<b>> \in Seq(Buffered) /\ DOMAIN <<b>> = {1} /\ <<b>>[1] = b
      BY <3>1
    <3>4. Pure(<<b>>)
      BY <2>2, <3>1, <3>3 DEF Pure, OfClass
    <3>5. RecsIn(<<b>>) = b.recs
      BY <3>3 DEF RecsIn
    <3>6. Apart(<<b>>) /\ Sorted(<<b>>)
      BY <3>1, <3>3 DEF Apart, Sorted
    <3>7. QED
      BY <3>1, <3>2, <3>3, <3>4, <3>5, <3>6
  <2>3. QED
    BY <2>1, <2>2
<1>2. split_by_class(recs, age) = part("reliability") \o part("attribution")
  BY DEF split_by_class
<1> HIDE DEF part
<1>3. "reliability" \in Classes /\ "attribution" \in Classes
  BY DEF Classes
<1>4. PICK s : s = part("reliability")
  OBVIOUS
<1>5. PICK t : t = part("attribution")
  OBVIOUS
<1>6. /\ Pure(s) /\ RecsIn(s) = OfClass(recs, "reliability") /\ Apart(s) /\ Sorted(s)
      /\ \A i \in DOMAIN s : s[i].age = age
  BY <1>1, <1>3, <1>4
<1>7. /\ Pure(t) /\ RecsIn(t) = OfClass(recs, "attribution") /\ Apart(t) /\ Sorted(t)
      /\ \A i \in DOMAIN t : t[i].age = age
  BY <1>1, <1>3, <1>5
<1>8. OfClass(recs, "reliability") \cap OfClass(recs, "attribution") = {}
  BY DEF OfClass
<1>9. OfClass(recs, "reliability") \cup OfClass(recs, "attribution") = recs
  BY ClassesOfRecords DEF OfClass
<1>10. \A i \in DOMAIN s, j \in DOMAIN t : s[i].age >= t[j].age
  BY <1>6, <1>7
<1>11. /\ Pure(s \o t) /\ RecsIn(s \o t) = RecsIn(s) \cup RecsIn(t)
       /\ Apart(s \o t) /\ Sorted(s \o t)
  BY <1>6, <1>7, <1>8, <1>10, JoinKeeps
<1>12. \A i \in DOMAIN (s \o t) : (s \o t)[i].age = age
  <2>1. /\ s \in Seq(Buffered) /\ Len(s) \in Nat /\ DOMAIN s = 1..Len(s)
        /\ t \in Seq(Buffered) /\ Len(t) \in Nat /\ DOMAIN t = 1..Len(t)
    BY <1>6, <1>7, SequenceFacts DEF Pure
  <2>2. /\ s \o t \in Seq(Buffered) /\ Len(s \o t) = Len(s) + Len(t)
        /\ \A i \in 1..Len(s) + Len(t) : (s \o t)[i] =
             IF i <= Len(s) THEN s[i] ELSE t[i - Len(s)]
    BY <2>1, ConcatProperties
  <2>3. DOMAIN (s \o t) = 1..Len(s) + Len(t)
    BY <2>2, SequenceFacts
  <2>4. QED
    BY <2>1, <2>2, <2>3, <1>6, <1>7
<1>13. QED
  BY <1>2, <1>4, <1>5, <1>6, <1>7, <1>9, <1>11, <1>12

\* Fewer records are no more in number and bytes.
LEMMA LimitsMonotone ==
  ASSUME NEW S, NEW T, S \subseteq T, T \subseteq Recs
  PROVE  /\ Cardinality(S) \in Nat /\ Cardinality(T) \in Nat
         /\ Cardinality(S) <= Cardinality(T)
         /\ Weight(S, SizeOf) \in Nat /\ Weight(T, SizeOf) \in Nat
         /\ Weight(S, SizeOf) <= Weight(T, SizeOf)
<1>1. IsFiniteSet(T) /\ IsFiniteSet(S) /\ Cardinality(S) <= Cardinality(T)
  BY RetryBufferAssumption, FS_Subset
<1>2. \A x \in T : SizeOf[x] \in Nat
  BY RetryBufferAssumption
<1>3. IsFiniteSet(Units(T, SizeOf))
  BY <1>1, <1>2, WeightFinite
<1>4. IsFiniteSet(Units(S, SizeOf)) /\ Weight(S, SizeOf) <= Weight(T, SizeOf)
  BY <1>3, WeightOfSubset
<1>5. QED
  BY <1>1, <1>3, <1>4, FS_CardinalityType, WeightType

LEMMA EmptyFits == WithinLimits(<<>>)
<1>1. RecsIn(<<>>) = {}
  BY DEF RecsIn
<1>2. Cardinality({}) = 0 /\ Weight({}, SizeOf) = 0 /\ Len(<<>>) = 0
  BY FS_EmptySet, WeightOfEmpty, EmptySeq
<1>3. MaxRecords \in Nat /\ MaxBatches \in Nat /\ MaxBytes \in Nat
  BY RetryBufferAssumption
<1>4. len_records(<<>>) = 0 /\ len_bytes(<<>>) = 0
  BY <1>1, <1>2 DEF len_records, len_bytes
<1>5. QED
  BY <1>2, <1>3, <1>4 DEF WithinLimits

\* e is what enqueue may make of the buffer and the records of age.
Enqueued(buf, recs, age, e) ==
  /\ Pure(e) /\ WithinLimits(e)
  /\ RecsIn(e) \subseteq RecsIn(buf) \cup recs
  /\ Apart(buf) /\ recs \cap RecsIn(buf) = {} => Apart(e)
  /\ Sorted(buf) /\ (\A i \in DOMAIN buf : buf[i].age >= age) => Sorted(e)
  /\ (\E r \in (RecsIn(buf) \cup recs) \ RecsIn(e) : ClassOf[r] = "attribution")
       => NoReliability(e)
  /\ WithinLimits(buf \o split_by_class(recs, age)) => e = buf \o split_by_class(recs, age)

LEMMA EnqueueKeeps ==
  ASSUME NEW buf, Pure(buf), NEW recs \in SUBSET Recs, NEW age \in 0..MaxAge + 1
  PROVE  Enqueued(buf, recs, age, enqueue(buf, recs, age))
<1>1. PICK p : p = split_by_class(recs, age)
  OBVIOUS
<1>2. PICK u : u = buf \o p
  OBVIOUS
<1>3. /\ Pure(p) /\ RecsIn(p) = recs /\ Apart(p) /\ Sorted(p)
      /\ \A i \in DOMAIN p : p[i].age = age
  BY <1>1, SplitKeeps
<1>4. /\ Pure(u) /\ RecsIn(u) = RecsIn(buf) \cup recs
      /\ Apart(buf) /\ recs \cap RecsIn(buf) = {} => Apart(u)
      /\ Sorted(buf) /\ (\A i \in DOMAIN buf : buf[i].age >= age) => Sorted(u)
  BY <1>2, <1>3, JoinKeeps
<1>5. u \in Seq(Buffered) /\ Len(u) \in Nat
  BY <1>4, SequenceFacts DEF Pure
<1> DEFINE fits == {k \in DOMAIN Sheddings(u) : WithinLimits(Sheddings(u)[k])}
<1>6. enqueue(buf, recs, age) = ShedUntil(Sheddings(u), fits)
  BY <1>1, <1>2 DEF enqueue
<1>7. DOMAIN Sheddings(u) = 0..Len(u) /\ Sheddings(u)[0] = u
  BY <1>5, SheddingsUnfold
<1>8. fits \in SUBSET (0..Len(u)) /\ (WithinLimits(u) => 0 \in fits)
  BY <1>5, <1>7
<1>9. \A k \in fits : WithinLimits(Sheddings(u)[k])
  OBVIOUS
<1> HIDE DEF fits
<1>10. PICK k \in 0..Len(u) : /\ ShedUntil(Sheddings(u), fits) = Sheddings(u)[k]
                              /\ k \in fits \/ k = Len(u)
                              /\ 0 \in fits => k = 0
  BY <1>4, <1>8, ShedUntilFits
<1>11. PICK e : e = Sheddings(u)[k]
  OBVIOUS
<1>12. ShedTo(u, e, k)
  BY <1>4, <1>11, SheddingsKeep
<1>13. WithinLimits(e)
  <2>1. CASE k \in fits
    BY <2>1, <1>9, <1>11
  <2>2. CASE k = Len(u)
    <3>1. e \in Seq(Buffered) /\ Len(e) = 0
      BY <2>2, <1>5, <1>12 DEF ShedTo, Part
    <3>2. e = <<>>
      BY <3>1, EmptySeq
    <3>3. QED
      BY <3>2, EmptyFits
  <2>3. QED
    BY <1>10, <2>1, <2>2
<1>14. /\ RecsIn(e) \subseteq RecsIn(u) /\ Pure(e)
       /\ Apart(u) => Apart(e)
       /\ Sorted(u) => Sorted(e)
  BY <1>4, <1>12, PartKeeps DEF ShedTo
<1>15. (\E r \in RecsIn(u) \ RecsIn(e) : ClassOf[r] = "attribution") => NoReliability(e)
  BY <1>12 DEF ShedTo, ShedInOrder
<1>16. WithinLimits(u) => e = u
  BY <1>7, <1>8, <1>10, <1>11
<1>17. enqueue(buf, recs, age) = e
  BY <1>6, <1>10, <1>11
<1>18. Enqueued(buf, recs, age, e)
  BY <1>1, <1>2, <1>4, <1>13, <1>14, <1>15, <1>16 DEF Enqueued
<1>19. QED
  BY <1>17, <1>18

-----------------------------------------------------------------------------
(* drop_expired, the tick and pop_front *)

LEMMA SuffixIsPart ==
  ASSUME NEW s \in Seq(Buffered), NEW m \in 1..Len(s)
  PROVE  Part(SubSeq(s, m, Len(s)), s)
<1>1. Len(s) \in Nat /\ \A i \in 1..Len(s) : s[i] \in Buffered
  BY SequenceFacts
<1>2. PICK t : t = SubSeq(s, m, Len(s))
  OBVIOUS
<1>3. /\ t \in Seq(Buffered) /\ Len(t) = Len(s) - m + 1
      /\ \A i \in 1..Len(s) - m + 1 : t[i] = s[m + i - 1]
  BY <1>1, <1>2, SubSeqProperties
<1>4. Embeds([i \in 1..Len(t) |-> m + i - 1], t, s)
  BY <1>1, <1>3 DEF Embeds
<1>5. QED
  BY <1>1, <1>2, <1>3, <1>4 DEF Part

LEMMA EmptyIsPart ==
  ASSUME NEW s \in Seq(Buffered)
  PROVE  Part(<<>>, s)
<1>1. <<>> \in Seq(Buffered) /\ Len(<<>>) = 0 /\ Len(s) \in Nat
  BY EmptySeq, SequenceFacts
<1>2. Embeds([i \in 1..0 |-> i], <<>>, s)
  BY <1>1 DEF Embeds
<1>3. QED
  BY <1>1, <1>2 DEF Part

LEMMA DropExpiredKeeps ==
  ASSUME NEW s \in Seq(Buffered)
  PROVE  Part(drop_expired(s), s)
<1> DEFINE I == {i \in 1..Len(s) : s[i].age <= MaxAge}
<1>1. Len(s) \in Nat
  BY SequenceFacts
<1>2. SelectInSeq(s, LAMBDA b : b.age <= MaxAge) = IF I # {} THEN Min(I) ELSE 0
  BY DEF SelectInSeq
<1>3. I \in SUBSET Nat /\ \A i \in I : i \in 1..Len(s)
  BY <1>1
<1> HIDE DEF I
<1>4. I # {} => Min(I) \in 1..Len(s)
  BY <1>3, LeastMember
<1>5. drop_expired(s) = IF I # {} THEN SubSeq(s, Min(I), Len(s)) ELSE <<>>
  BY <1>1, <1>2, <1>4 DEF drop_expired
<1>6. QED
  BY <1>4, <1>5, SuffixIsPart, EmptyIsPart

\* A tick changes ages only, and keeps their order.
LEMMA AgedKeeps ==
  ASSUME NEW s, Pure(s)
  PROVE  /\ Pure(Aged(s)) /\ RecsIn(Aged(s)) = RecsIn(s) /\ Len(Aged(s)) = Len(s)
         /\ DOMAIN Aged(s) = DOMAIN s
         /\ \A i \in DOMAIN s : Aged(s)[i].recs = s[i].recs
         /\ Apart(s) => Apart(Aged(s))
         /\ Sorted(s) => Sorted(Aged(s))
<1>1. s \in Seq(Buffered) /\ Len(s) \in Nat /\ DOMAIN s = 1..Len(s)
      /\ \A i \in 1..Len(s) : s[i] \in Buffered
  BY SequenceFacts DEF Pure
<1>2. PICK t : t = Aged(s)
  OBVIOUS
<1>3. t = [i \in 1..Len(s) |-> [s[i] EXCEPT !.age = Older(@)]]
  BY <1>1, <1>2 DEF Aged
<1>4. MaxAge \in Nat
  BY RetryBufferAssumption
<1>5. \A i \in 1..Len(s) : /\ t[i] \in Buffered /\ t[i].recs = s[i].recs
                            /\ t[i].class = s[i].class /\ t[i].age = Older(s[i].age)
  BY <1>1, <1>3, <1>4 DEF Buffered, Older
<1>6. t \in Seq(Buffered) /\ DOMAIN t = 1..Len(s) /\ Len(t) = Len(s)
  <2>1. t \in [1..Len(s) -> Buffered]
    BY <1>3, <1>5
  <2>2. QED
    BY <1>1, <2>1
<1>7. Pure(t)
  BY <1>1, <1>5, <1>6 DEF Pure
<1>8. RecsIn(t) = RecsIn(s)
  BY <1>1, <1>5, <1>6 DEF RecsIn
<1>9. Apart(s) => Apart(t)
  BY <1>1, <1>5, <1>6 DEF Apart
<1>10. ASSUME Sorted(s), NEW i \in 1..Len(s), NEW j \in 1..Len(s), i <= j
       PROVE  t[i].age >= t[j].age
  <2>1. s[i].age \in 0..MaxAge + 1 /\ s[j].age \in 0..MaxAge + 1 /\ s[i].age >= s[j].age
    BY <1>1, <1>10 DEF Sorted, Buffered
  <2>2. Older(s[i].age) >= Older(s[j].age)
    BY <2>1, <1>4 DEF Older
  <2>3. QED
    BY <2>2, <1>5
<1>11. Sorted(s) => Sorted(t)
  BY <1>6, <1>10 DEF Sorted
<1>12. QED
  BY <1>1, <1>2, <1>5, <1>6, <1>7, <1>8, <1>9, <1>11

LEMMA TailIsPart ==
  ASSUME NEW s \in Seq(Buffered), s # <<>>
  PROVE  /\ Part(Tail(s), s) /\ Head(s) = s[1] /\ 1 \in DOMAIN s
         /\ RecsIn(s) = s[1].recs \cup RecsIn(Tail(s))
         /\ Apart(s) => s[1].recs \cap RecsIn(Tail(s)) = {}
<1>1. Len(s) \in Nat \ {0} /\ DOMAIN s = 1..Len(s)
  BY SequenceFacts, EmptySeq
<1>2. PICK t : t = Tail(s)
  OBVIOUS
<1>3. /\ t \in Seq(Buffered) /\ Len(t) = Len(s) - 1
      /\ \A i \in 1..Len(t) : t[i] = s[i + 1]
  BY <1>2, HeadTailProperties
<1>4. DOMAIN t = 1..Len(t)
  BY <1>3, SequenceFacts
<1>5. Part(t, s)
  <2>1. Embeds([i \in 1..Len(t) |-> i + 1], t, s)
    BY <1>1, <1>3 DEF Embeds
  <2>2. QED
    BY <1>1, <1>3, <2>1 DEF Part
<1>6. \A i \in 1..Len(s) : i = 1 \/ (i - 1 \in 1..Len(t) /\ t[i - 1] = s[i])
  BY <1>1, <1>3
<1>7. RecsIn(s) = s[1].recs \cup RecsIn(t)
  <2>1. RecsIn(s) \subseteq s[1].recs \cup RecsIn(t)
    BY <1>1, <1>4, <1>6 DEF RecsIn
  <2>2. s[1].recs \subseteq RecsIn(s) /\ RecsIn(t) \subseteq RecsIn(s)
    BY <1>1, <1>5, PartKeeps DEF RecsIn
  <2>3. QED
    BY <2>1, <2>2
<1>8. Apart(s) => s[1].recs \cap RecsIn(t) = {}
  <2>1. \A i \in 1..Len(t) : i + 1 \in 1..Len(s) /\ i + 1 # 1 /\ t[i] = s[i + 1]
    BY <1>1, <1>3
  <2>2. QED
    BY <2>1, <1>1, <1>4 DEF Apart, RecsIn
<1>9. QED
  BY <1>1, <1>2, <1>5, <1>7, <1>8

\* A part is within the limits the whole is within.
LEMMA PartFits ==
  ASSUME NEW s, NEW t, Part(s, t), WithinLimits(t)
  PROVE  WithinLimits(s)
<1>1. Len(s) \in Nat /\ Len(t) \in Nat /\ Len(s) <= Len(t)
  BY SequenceFacts DEF Part
<1>2. RecsIn(s) \subseteq RecsIn(t)
  BY PartKeeps
<1>3. RecsIn(t) \subseteq Recs
  <2>1. DOMAIN t = 1..Len(t) /\ \A i \in 1..Len(t) : t[i] \in Buffered
    BY SequenceFacts DEF Part
  <2>2. QED
    BY <2>1 DEF RecsIn, Buffered
<1>4. MaxRecords \in Nat /\ MaxBatches \in Nat /\ MaxBytes \in Nat
  BY RetryBufferAssumption
<1>5. /\ len_records(s) \in Nat /\ len_records(t) \in Nat /\ len_records(s) <= len_records(t)
      /\ len_bytes(s) \in Nat /\ len_bytes(t) \in Nat /\ len_bytes(s) <= len_bytes(t)
  BY <1>2, <1>3, LimitsMonotone DEF len_records, len_bytes
<1>6. QED
  BY <1>1, <1>4, <1>5 DEF WithinLimits

-----------------------------------------------------------------------------
(* Reports *)

Reports == [cause : Causes, recs : (SUBSET Recs) \ {{}}]

\* m is what merge_by_cause may make of the reports.
Merged(reports, cause, recs, m) ==
  /\ m \in Seq(Reports)
  /\ Covered(m) = Covered(reports) \cup recs
  /\ Apart(reports) /\ recs \cap Covered(reports) = {} => Apart(m)
  /\ ShedReports(m) \subseteq ShedReports(reports) \cup recs
  /\ cause \notin {"retry_buffer_overflow", "memory_pressure"}
       => ShedReports(m) \subseteq ShedReports(reports)

LEMMA MergeKeeps ==
  ASSUME NEW reports \in Seq(Reports), NEW cause \in Causes, NEW recs \in SUBSET Recs
  PROVE  Merged(reports, cause, recs, merge_by_cause(reports, cause, recs))
<1> DEFINE I == {i \in 1..Len(reports) : reports[i].cause = cause}
<1>1. /\ Len(reports) \in Nat /\ DOMAIN reports = 1..Len(reports)
      /\ \A i \in 1..Len(reports) : reports[i] \in Reports
  BY SequenceFacts
<1>2. SelectInSeq(reports, LAMBDA g : g.cause = cause) = IF I # {} THEN Min(I) ELSE 0
  BY DEF SelectInSeq
<1>3. I \in SUBSET Nat /\ \A i \in I : i \in 1..Len(reports) /\ reports[i].cause = cause
  BY <1>1
<1> HIDE DEF I
<1>4. PICK m : m = merge_by_cause(reports, cause, recs)
  OBVIOUS
<1>5. CASE recs = {}
  <2>1. m = reports
    BY <1>4, <1>5 DEF merge_by_cause
  <2>2. Merged(reports, cause, recs, reports)
    BY <1>5 DEF Merged
  <2>3. QED
    BY <1>4, <2>1, <2>2
<1>6. CASE recs # {} /\ I = {}
  <2>1. PICK g : g = Report(cause, recs)
    OBVIOUS
  <2>2. g \in Reports /\ g.cause = cause /\ g.recs = recs
    BY <1>6, <2>1 DEF Report, Reports
  <2>3. m = Append(reports, g)
    BY <1>2, <1>4, <1>6, <2>1 DEF merge_by_cause
  <2>4. /\ m \in Seq(Reports) /\ Len(m) = Len(reports) + 1
        /\ \A i \in 1..Len(reports) : m[i] = reports[i]
        /\ m[Len(reports) + 1] = g
    BY <2>2, <2>3, AppendProperties
  <2>5. DOMAIN m = 1..Len(reports) + 1
    BY <2>4, SequenceFacts
  <2>6. \A i \in DOMAIN m : \/ i \in 1..Len(reports) /\ m[i] = reports[i]
                            \/ i = Len(reports) + 1 /\ m[i] = g
    BY <1>1, <2>4, <2>5
  <2>7. /\ \A i \in 1..Len(reports) : i \in DOMAIN m /\ m[i] = reports[i]
        /\ Len(reports) + 1 \in DOMAIN m /\ m[Len(reports) + 1] = g
    BY <1>1, <2>4, <2>5
  <2>8. Covered(m) = Covered(reports) \cup recs
    <3>1. Covered(m) \subseteq Covered(reports) \cup recs
      BY <1>1, <2>2, <2>6 DEF Covered
    <3>2. Covered(reports) \subseteq Covered(m) /\ recs \subseteq Covered(m)
      BY <1>1, <2>2, <2>7 DEF Covered
    <3>3. QED
      BY <3>1, <3>2
  <2>9. ASSUME Apart(reports), recs \cap Covered(reports) = {} PROVE Apart(m)
    <3>1. \A i \in 1..Len(reports) : m[i].recs \cap recs = {}
      BY <1>1, <2>9, <2>7 DEF Covered
    <3>2. \A i, j \in 1..Len(reports) : i # j => m[i].recs \cap m[j].recs = {}
      BY <1>1, <2>9, <2>7 DEF Apart
    <3>3. QED
      BY <2>2, <2>6, <3>1, <3>2 DEF Apart
  <2>10. ShedReports(m) \subseteq ShedReports(reports) \cup recs
    BY <1>1, <2>2, <2>6 DEF ShedReports
  <2>11. cause \notin {"retry_buffer_overflow", "memory_pressure"}
           => ShedReports(m) \subseteq ShedReports(reports)
    BY <1>1, <2>2, <2>6 DEF ShedReports
  <2>12. QED
    BY <1>4, <2>4, <2>8, <2>9, <2>10, <2>11 DEF Merged
<1>7. CASE recs # {} /\ I # {}
  <2>1. PICK v : v = Min(I)
    OBVIOUS
  <2>2. v \in 1..Len(reports) /\ reports[v].cause = cause
    BY <1>3, <1>7, <2>1, LeastMember
  <2>3. m = [reports EXCEPT ![v].recs = @ \cup recs]
    <3>1. SelectInSeq(reports, LAMBDA g : g.cause = cause) = v /\ v # 0
      BY <1>1, <1>2, <1>7, <2>1, <2>2
    <3>2. QED
      BY <1>4, <1>7, <3>1, Zenon DEF merge_by_cause
  <2>4. PICK g : g = [reports[v] EXCEPT !.recs = @ \cup recs]
    OBVIOUS
  <2>5. g \in Reports /\ g.cause = cause /\ g.recs = reports[v].recs \cup recs
    BY <1>1, <1>7, <2>2, <2>4 DEF Reports
  <2>6. m = [reports EXCEPT ![v] = g]
    BY <2>3, <2>4
  <2>7. /\ m \in Seq(Reports) /\ Len(m) = Len(reports)
        /\ \A j \in 1..Len(reports) : m[j] = IF j = v THEN g ELSE reports[j]
    BY <2>2, <2>5, <2>6, ExceptSeq
  <2>8. DOMAIN m = 1..Len(reports)
    BY <2>7, SequenceFacts
  <2>9. Covered(m) = Covered(reports) \cup recs
    <3>1. Covered(m) \subseteq Covered(reports) \cup recs
      BY <1>1, <2>2, <2>5, <2>7, <2>8 DEF Covered
    <3>2. Covered(reports) \subseteq Covered(m)
      BY <1>1, <2>2, <2>5, <2>7, <2>8 DEF Covered
    <3>3. recs \subseteq Covered(m)
      BY <2>2, <2>5, <2>7, <2>8 DEF Covered
    <3>4. QED
      BY <3>1, <3>2, <3>3
  <2>10. ASSUME Apart(reports), recs \cap Covered(reports) = {} PROVE Apart(m)
    <3>1. \A i \in 1..Len(reports) : reports[i].recs \cap recs = {}
      BY <1>1, <2>10 DEF Covered
    <3>2. \A i, j \in 1..Len(reports) : i # j => reports[i].recs \cap reports[j].recs = {}
      BY <1>1, <2>10 DEF Apart
    <3>3. \A i, j \in 1..Len(reports) : i # j => m[i].recs \cap m[j].recs = {}
      BY <2>2, <2>5, <2>7, <3>1, <3>2
    <3>4. QED
      BY <2>8, <3>3 DEF Apart
  <2>11. ShedReports(m) \subseteq ShedReports(reports) \cup recs
    BY <1>1, <2>2, <2>5, <2>7, <2>8 DEF ShedReports
  <2>12. cause \notin {"retry_buffer_overflow", "memory_pressure"}
           => ShedReports(m) \subseteq ShedReports(reports)
    BY <1>1, <2>2, <2>5, <2>7, <2>8 DEF ShedReports
  <2>13. QED
    BY <1>4, <2>7, <2>9, <2>10, <2>11, <2>12 DEF Merged
<1>8. QED
  BY <1>5, <1>6, <1>7

-----------------------------------------------------------------------------
(* The backlog: what it holds, and what every operation on it keeps *)

Sound(b) == Pure(b.buffer) /\ b.queued \in Seq(Reports)
Holding(b) == RecsIn(b.buffer) \cup Covered(b.queued)

\* No record is held twice.
Once(b) ==
  /\ Apart(b.buffer) /\ Apart(b.queued)
  /\ RecsIn(b.buffer) \cap Covered(b.queued) = {}

\* Attribution evidence that c newly reports as shed left no reliability behind.
ShedFirst(b, c) ==
  \A r \in ShedReports(c.queued) \ ShedReports(b.queued) :
    ClassOf[r] = "attribution" => NoReliability(c.buffer)

\* c holds what b held, and the records that came.
Carries(b, c, recs) ==
  /\ Sound(c)
  /\ Holding(c) = Holding(b) \cup recs
  /\ Once(b) /\ recs \cap Holding(b) = {} => Once(c)
  /\ ShedFirst(b, c)

LEMMA RecsOfBuffer ==
  ASSUME NEW buf, Pure(buf)
  PROVE  RecsIn(buf) \subseteq Recs /\ (RecsIn(buf) = {} <=> buf = <<>>)
<1>1. /\ buf \in Seq(Buffered) /\ Len(buf) \in Nat /\ DOMAIN buf = 1..Len(buf)
      /\ \A i \in 1..Len(buf) : buf[i] \in Buffered
  BY SequenceFacts DEF Pure
<1>2. RecsIn(buf) \subseteq Recs
  BY <1>1 DEF RecsIn, Buffered
<1>3. ASSUME buf # <<>> PROVE RecsIn(buf) # {}
  <2>1. 1 \in DOMAIN buf
    BY <1>1, <1>3, EmptySeq
  <2>2. QED
    BY <2>1 DEF Pure, RecsIn
<1>4. RecsIn(<<>>) = {}
  BY DEF RecsIn
<1>5. QED
  BY <1>2, <1>3, <1>4

LEMMA RecsOfReports ==
  ASSUME NEW reports \in Seq(Reports)
  PROVE  Covered(reports) \subseteq Recs /\ (Covered(reports) = {} <=> reports = <<>>)
<1>1. /\ Len(reports) \in Nat /\ DOMAIN reports = 1..Len(reports)
      /\ \A i \in 1..Len(reports) : reports[i] \in Reports
  BY SequenceFacts
<1>2. Covered(reports) \subseteq Recs
  BY <1>1 DEF Covered, Reports
<1>3. ASSUME reports # <<>> PROVE Covered(reports) # {}
  <2>1. 1 \in DOMAIN reports
    BY <1>1, <1>3, EmptySeq
  <2>2. reports[1].recs # {}
    BY <1>1, <2>1 DEF Reports
  <2>3. QED
    BY <2>1, <2>2 DEF Covered
<1>4. Covered(<<>>) = {}
  BY DEF Covered
<1>5. QED
  BY <1>2, <1>3, <1>4

\* There is a backlog when it holds a record.
LEMMA BacklogHolds ==
  ASSUME NEW b, Sound(b), NEW inflight \in Seq(Reports)
  PROVE  /\ has_backlog(b, inflight) <=> Holding(b) \cup Covered(inflight) # {}
         /\ Holding(b) \subseteq Recs
BY RecsOfBuffer, RecsOfReports DEF has_backlog, Holding, Sound

\* buf may take the place of the buffer of b when the records come.
Reducible(b, buf, recs, cause) ==
  /\ Sound(b) /\ Pure(buf) /\ recs \in SUBSET Recs /\ cause \in Causes
  /\ RecsIn(buf) \subseteq RecsIn(b.buffer) \cup recs
  /\ Apart(b.buffer) /\ recs \cap RecsIn(b.buffer) = {} => Apart(buf)
  /\ \/ cause \notin {"retry_buffer_overflow", "memory_pressure"}
     \/ (\E r \in (RecsIn(b.buffer) \cup recs) \ RecsIn(buf) : ClassOf[r] = "attribution")
          => NoReliability(buf)

LEMMA ReducedCarries ==
  ASSUME NEW b, NEW buf, NEW recs, NEW cause, Reducible(b, buf, recs, cause),
         NEW all, all = RecsIn(b.buffer) \cup recs
  PROVE  /\ Carries(b, Reduced(b, buf, all, cause), recs)
         /\ Reduced(b, buf, all, cause).buffer = buf
         /\ cause \notin {"retry_buffer_overflow", "memory_pressure"}
              => ShedReports(Reduced(b, buf, all, cause).queued) \subseteq ShedReports(b.queued)
<1> USE DEF Reducible
<1>0. PICK c : c = Reduced(b, buf, all, cause)
  OBVIOUS
<1>1. PICK lost : lost = (RecsIn(b.buffer) \cup recs) \ RecsIn(buf)
  OBVIOUS
<1>2. PICK q : q = merge_by_cause(b.queued, cause, lost)
  OBVIOUS
<1>3. c = [buffer |-> buf, queued |-> q]
  BY <1>0, <1>1, <1>2 DEF Reduced
<1>4. c.buffer = buf /\ c.queued = q
  BY <1>3
<1>5. lost \in SUBSET Recs
  BY <1>1, RecsOfBuffer DEF Sound
<1>6. Merged(b.queued, cause, lost, q)
  BY <1>2, <1>5, MergeKeeps DEF Sound
<1>7. Sound(c)
  BY <1>4, <1>6 DEF Sound, Merged
<1>8. Covered(q) = Covered(b.queued) \cup lost
  BY <1>6 DEF Merged
<1>9. Holding(c) = Holding(b) \cup recs
  BY <1>1, <1>4, <1>8 DEF Holding
<1>10. ASSUME Once(b), recs \cap Holding(b) = {} PROVE Once(c)
  <2>1. lost \cap Covered(b.queued) = {}
    BY <1>1, <1>10 DEF Once, Holding
  <2>2. Apart(q)
    BY <2>1, <1>6, <1>10 DEF Once, Merged
  <2>3. Apart(buf)
    BY <1>10 DEF Once, Holding
  <2>4. RecsIn(buf) \cap Covered(q) = {}
    BY <1>1, <1>8, <1>10 DEF Once, Holding
  <2>5. QED
    BY <1>4, <2>2, <2>3, <2>4 DEF Once
<1>11. cause \notin {"retry_buffer_overflow", "memory_pressure"}
         => ShedReports(c.queued) \subseteq ShedReports(b.queued)
  BY <1>4, <1>6 DEF Merged
<1>12. ShedFirst(b, c)
  <2>1. ShedReports(q) \subseteq ShedReports(b.queued) \cup lost
    BY <1>6 DEF Merged
  <2>2. QED
    BY <1>1, <1>4, <1>11, <2>1 DEF ShedFirst
<1>13. QED
  BY <1>0, <1>4, <1>7, <1>9, <1>10, <1>11, <1>12 DEF Carries

LEMMA ExpireCarries ==
  ASSUME NEW b, Sound(b)
  PROVE  /\ Carries(b, Expire(b), {}) /\ Part(Expire(b).buffer, b.buffer)
         /\ ShedReports(Expire(b).queued) \subseteq ShedReports(b.queued)
<1>1. PICK buf : buf = drop_expired(b.buffer)
  OBVIOUS
<1>2. Part(buf, b.buffer)
  BY <1>1, DropExpiredKeeps DEF Sound, Pure
<1>3. /\ RecsIn(buf) \subseteq RecsIn(b.buffer) \cup {} /\ Pure(buf)
      /\ Apart(b.buffer) /\ {} \cap RecsIn(b.buffer) = {} => Apart(buf)
      /\ {} \in SUBSET Recs
  BY <1>2, PartKeeps DEF Sound
<1>4. PICK all : all = RecsIn(b.buffer)
  OBVIOUS
<1>5. Expire(b) = Reduced(b, buf, all, "retry_buffer_expired")
  BY <1>1, <1>4 DEF Expire
<1>6. /\ "retry_buffer_expired" \in Causes
      /\ "retry_buffer_expired" \notin {"retry_buffer_overflow", "memory_pressure"}
  BY DEF Causes
<1>7. Reducible(b, buf, {}, "retry_buffer_expired") /\ all = RecsIn(b.buffer) \cup {}
  BY <1>3, <1>4, <1>6 DEF Reducible
<1>8. /\ Carries(b, Expire(b), {}) /\ Expire(b).buffer = buf
      /\ ShedReports(Expire(b).queued) \subseteq ShedReports(b.queued)
  BY <1>5, <1>6, <1>7, ReducedCarries
<1>9. QED
  BY <1>2, <1>8

LEMMA ShedCarries ==
  ASSUME NEW b, Sound(b), NEW high
  PROVE  Carries(b, Shed(b, high), {}) /\ Part(Shed(b, high).buffer, b.buffer)
<1>1. CASE ~high
  <2>1. Shed(b, high) = b
    BY <1>1 DEF Shed
  <2>2. QED
    BY <2>1, PartOfItself DEF Carries, Sound, Pure, ShedFirst
<1>2. CASE high
  <2>1. PICK buf : buf = shed_to(b.buffer, len_bytes(b.buffer) \div 2)
    OBVIOUS
  <2>2. Part(buf, b.buffer) /\ ShedInOrder(b.buffer, buf)
    BY <2>1, ShedToKeeps DEF Sound
  <2>3. /\ RecsIn(buf) \subseteq RecsIn(b.buffer) \cup {} /\ Pure(buf)
        /\ Apart(b.buffer) /\ {} \cap RecsIn(b.buffer) = {} => Apart(buf)
        /\ {} \in SUBSET Recs
    BY <2>2, PartKeeps DEF Sound
  <2>4. Shed(b, high) = Reduced(b, buf, RecsIn(b.buffer), "memory_pressure")
    BY <1>2, <2>1 DEF Shed
  <2>5. (\E r \in (RecsIn(b.buffer) \cup {}) \ RecsIn(buf) : ClassOf[r] = "attribution")
          => NoReliability(buf)
    BY <2>2 DEF ShedInOrder
  <2>6. "memory_pressure" \in Causes
    BY DEF Causes
  <2>7. Reducible(b, buf, {}, "memory_pressure")
    BY <2>3, <2>5, <2>6 DEF Reducible
  <2>8. PICK all : all = RecsIn(b.buffer)
    OBVIOUS
  <2>9. all = RecsIn(b.buffer) \cup {} /\ Shed(b, high) = Reduced(b, buf, all, "memory_pressure")
    BY <2>4, <2>8
  <2>10. Carries(b, Shed(b, high), {}) /\ Shed(b, high).buffer = buf
    BY <2>7, <2>9, ReducedCarries
  <2>11. QED
    BY <2>2, <2>10
<1>3. QED
  BY <1>1, <1>2

LEMMA EnqueueCarries ==
  ASSUME NEW b, Sound(b), NEW recs \in SUBSET Recs, NEW age \in 0..MaxAge + 1
  PROVE  /\ Carries(b, Enqueue(b, recs, age), recs)
         /\ Enqueued(b.buffer, recs, age, Enqueue(b, recs, age).buffer)
         /\ Enqueue(b, recs, age).buffer = enqueue(b.buffer, recs, age)
<1>1. PICK buf : buf = enqueue(b.buffer, recs, age)
  OBVIOUS
<1>2. Enqueued(b.buffer, recs, age, buf)
  BY <1>1, EnqueueKeeps DEF Sound
<1>3. PICK all : all = RecsIn(b.buffer) \cup recs
  OBVIOUS
<1>4. "retry_buffer_overflow" \in Causes
  BY DEF Causes
<1>5. /\ Pure(buf) /\ RecsIn(buf) \subseteq RecsIn(b.buffer) \cup recs
      /\ Apart(b.buffer) /\ recs \cap RecsIn(b.buffer) = {} => Apart(buf)
      /\ (\E r \in (RecsIn(b.buffer) \cup recs) \ RecsIn(buf) : ClassOf[r] = "attribution")
           => NoReliability(buf)
  BY <1>2 DEF Enqueued
<1>6. Carries(b, Enqueue(b, recs, age), recs) /\ Enqueue(b, recs, age).buffer = buf
  <2>1. Reducible(b, buf, recs, "retry_buffer_overflow")
    BY <1>4, <1>5 DEF Reducible
  <2>2. Enqueue(b, recs, age) = Reduced(b, buf, all, "retry_buffer_overflow")
    BY <1>1, <1>3 DEF Enqueue
  <2>3. QED
    BY <1>3, <2>1, <2>2, ReducedCarries
<1>7. QED
  BY <1>1, <1>2, <1>6

LEMMA ReportCarries ==
  ASSUME NEW b, Sound(b), NEW recs \in SUBSET Recs, NEW cause \in Causes,
         cause \notin {"retry_buffer_overflow", "memory_pressure"}, NEW c,
         c.buffer = b.buffer, c.queued = merge_by_cause(b.queued, cause, recs)
  PROVE  Carries(b, c, recs) /\ ShedReports(c.queued) \subseteq ShedReports(b.queued)
<1>1. Merged(b.queued, cause, recs, c.queued)
  BY MergeKeeps DEF Sound
<1>2. Sound(c)
  BY <1>1 DEF Sound, Merged
<1>3. Holding(c) = Holding(b) \cup recs
  BY <1>1 DEF Holding, Merged
<1>4. Once(b) /\ recs \cap Holding(b) = {} => Once(c)
  BY <1>1 DEF Once, Holding, Merged
<1>5. ShedReports(c.queued) \subseteq ShedReports(b.queued)
  BY <1>1 DEF Merged
<1>6. QED
  BY <1>2, <1>3, <1>4, <1>5 DEF Carries, ShedFirst

-----------------------------------------------------------------------------
(* Where an arm or a pass leaves the backlog *)

Both(buf, q) == [buffer |-> buf, queued |-> q]

LEMMA BothFields ==
  ASSUME NEW buf, NEW q
  PROVE  Both(buf, q).buffer = buf /\ Both(buf, q).queued = q
BY DEF Both

\* The memory of the next state is that of b, less what memory pressure shed.
Lands(b, inflight) ==
  /\ Carries(b, Both(buffer', queued'), {})
  /\ Part(buffer', b.buffer)
  /\ inFlight' = inflight

\* Back at select!, with the spool written.
Resting ==
  /\ step' = "select" /\ hand' = {} /\ handAge' = 0 /\ before' = <<0, 0>>
  /\ sync_spool(buffer')

LEMMA CarriesFields ==
  ASSUME NEW b, NEW c, NEW d, NEW recs, Carries(b, c, recs),
         d.buffer = c.buffer, d.queued = c.queued
  PROVE  Carries(b, d, recs)
BY DEF Carries, Sound, Holding, Once, ShedFirst

LEMMA CarriesNothing ==
  ASSUME NEW b, Sound(b), NEW d, d.buffer = b.buffer, d.queued = b.queued
  PROVE  Carries(b, d, {}) /\ Part(d.buffer, b.buffer)
<1>1. Part(b.buffer, b.buffer)
  BY PartOfItself DEF Sound, Pure
<1>2. Carries(b, b, {})
  BY DEF Carries, ShedFirst
<1>3. Carries(b, d, {})
  BY <1>2, CarriesFields
<1>4. QED
  BY <1>1, <1>3

LEMMA StaysLands ==
  ASSUME NEW b, Sound(b), NEW inflight,
         buffer' = b.buffer, queued' = b.queued, inFlight' = inflight
  PROVE  Lands(b, inflight)
<1>1. PICK d : d = Both(buffer', queued')
  OBVIOUS
<1>2. d.buffer = b.buffer /\ d.queued = b.queued
  BY <1>1, BothFields
<1>3. Carries(b, d, {}) /\ Part(d.buffer, b.buffer)
  BY <1>2, CarriesNothing
<1>4. QED
  BY <1>1, <1>2, <1>3 DEF Lands

LEMMA ShedLands ==
  ASSUME NEW b, Sound(b), NEW inflight, NEW high,
         buffer' = Shed(b, high).buffer, queued' = Shed(b, high).queued,
         inFlight' = inflight
  PROVE  /\ Lands(b, inflight)
         /\ has_backlog(Shed(b, high), inflight) = has_backlog(Both(buffer', queued'), inflight)
<1>1. PICK c : c = Shed(b, high)
  OBVIOUS
<1>2. PICK d : d = Both(buffer', queued')
  OBVIOUS
<1>3. d.buffer = c.buffer /\ d.queued = c.queued
  BY <1>1, <1>2, BothFields
<1>4. Carries(b, c, {}) /\ Part(c.buffer, b.buffer)
  BY <1>1, ShedCarries
<1>5. Carries(b, d, {})
  BY <1>3, <1>4, CarriesFields
<1>6. has_backlog(c, inflight) = has_backlog(d, inflight)
  BY <1>3 DEF has_backlog
<1>7. QED
  BY <1>1, <1>2, <1>4, <1>5, <1>6 DEF Lands

LEMMA SettleLands ==
  ASSUME NEW b, Sound(b), NEW inflight, NEW current, NEW n,
         Settle(b, inflight, current, n)
  PROVE  /\ Lands(b, inflight) /\ Resting
         /\ schedule_retry(current, n, has_backlog(Both(buffer', queued'), inflight))
<1>1. PICK high : LET c == Shed(b, high) IN
        /\ buffer' = c.buffer /\ queued' = c.queued /\ inFlight' = inflight
        /\ sync_spool(c.buffer)
        /\ schedule_retry(current, n, has_backlog(c, inflight))
        /\ step' = "select" /\ hand' = {} /\ handAge' = 0 /\ before' = <<0, 0>>
  BY DEF Settle
<1>2. /\ Lands(b, inflight)
      /\ has_backlog(Shed(b, high), inflight) = has_backlog(Both(buffer', queued'), inflight)
  BY <1>1, ShedLands
<1>3. QED
  BY <1>1, <1>2 DEF Resting

\* A pass on the timer.
LEMMA EndPassLands ==
  ASSUME NEW b, Sound(b), NEW inflight, NEW paced, EndPass(b, inflight, paced)
  PROVE  /\ Lands(b, inflight) /\ Resting
         /\ \/ /\ paced
               /\ nextRetry' \in 1..MaxWait /\ attempt' \in {0, attempt}
            \/ \E n \in {0, attempt} :
                 schedule_retry(None, n, has_backlog(Both(buffer', queued'), inflight))
<1>1. PICK n \in {0, attempt} :
        IF paced
        THEN \E high \in IF MemoryLimited THEN BOOLEAN ELSE {FALSE}, wait \in 1..MaxWait :
               LET c == Shed(b, high) IN
                 /\ buffer' = c.buffer /\ queued' = c.queued /\ inFlight' = inflight
                 /\ sync_spool(c.buffer)
                 /\ nextRetry' = wait /\ attempt' = n
                 /\ step' = "select" /\ hand' = {} /\ handAge' = 0 /\ before' = <<0, 0>>
        ELSE Settle(b, inflight, None, n)
  BY DEF EndPass
<1>2. CASE paced
  <2>1. PICK high \in IF MemoryLimited THEN BOOLEAN ELSE {FALSE}, wait \in 1..MaxWait :
               LET c == Shed(b, high) IN
                 /\ buffer' = c.buffer /\ queued' = c.queued /\ inFlight' = inflight
                 /\ sync_spool(c.buffer)
                 /\ nextRetry' = wait /\ attempt' = n
                 /\ step' = "select" /\ hand' = {} /\ handAge' = 0 /\ before' = <<0, 0>>
    BY <1>1, <1>2
  <2>2. Lands(b, inflight)
    BY <2>1, ShedLands
  <2>3. QED
    BY <1>1, <1>2, <2>1, <2>2 DEF Resting
<1>3. CASE ~paced
  BY <1>1, <1>3, SettleLands
<1>4. QED
  BY <1>2, <1>3

\* What a pass that ends, or goes on, leaves.
PassDone(b, inflight, paced) ==
  /\ Lands(b, inflight)
  /\ \/ /\ mode = "running" /\ Resting
        /\ \/ paced /\ nextRetry' \in 1..MaxWait /\ attempt' \in {0, attempt}
           \/ \E n \in {0, attempt} :
                schedule_retry(None, n, has_backlog(Both(buffer', queued'), inflight))
     \/ /\ mode # "running" /\ step' \in {"flush", "exit"}
        /\ before' = backlog_len(b, inflight)
        /\ UNCHANGED <<hand, handAge, timerVars, diskVars>>

LEMMA PassEndsLands ==
  ASSUME NEW b, Sound(b), NEW inflight, NEW paced, PassEnds(b, inflight, paced)
  PROVE  PassDone(b, inflight, paced)
<1>1. CASE mode = "running"
  <2>1. EndPass(b, inflight, paced)
    BY <1>1 DEF PassEnds
  <2>2. QED
    BY <1>1, <2>1, EndPassLands DEF PassDone
<1>2. CASE mode # "running"
  <2>1. /\ buffer' = b.buffer /\ queued' = b.queued /\ inFlight' = inflight
        /\ step' \in {"flush", "exit"}
        /\ before' = backlog_len(b, inflight)
        /\ UNCHANGED <<hand, handAge, timerVars, diskVars>>
    BY <1>2 DEF PassEnds, EndDrain
  <2>2. Lands(b, inflight)
    BY <2>1, StaysLands
  <2>3. QED
    BY <1>2, <2>1, <2>2 DEF PassDone
<1>3. QED
  BY <1>1, <1>2

-----------------------------------------------------------------------------
(* The inductive invariant *)

Types ==
  /\ mode \in {"running", "draining", "exited", "killed"}
  /\ step \in {"select", "inline", "inlineGaps", "flush", "exit"}
  /\ pending \subseteq Messages
  /\ hand \subseteq Recs /\ handAge \in 0..MaxAge + 1
  /\ Pure(buffer)
  /\ inFlight \in Seq(Reports) /\ queued \in Seq(Reports)
  /\ nextRetry \in Nat \cup {None} /\ attempt \in 0..MaxDelay
  /\ before \in Nat \X Nat
  /\ file \in Seq(SUBSET Recs) /\ spool \in {"off", "on", "disabled"}
  /\ sink \in SinkStates /\ restarts \in 0..MaxRestarts
  /\ acked \subseteq Recs /\ reported \subseteq Recs
  /\ unreported \subseteq Recs /\ perished \subseteq Recs

\* Where the loop can be, and what it holds there.
Control ==
  /\ ~Alive => /\ step = "select" /\ nextRetry = None
               /\ buffer = <<>> /\ queued = <<>> /\ inFlight = <<>>
  /\ mode = "running" => step # "exit"
  /\ mode = "draining" => step \in {"flush", "exit"}
  /\ step \in {"inline", "inlineGaps"} =>
       /\ buffer = <<>> /\ queued = <<>> /\ inFlight = <<>> /\ nextRetry = None
       /\ hand # {}
  /\ step \notin {"inline", "inlineGaps"} => hand = {}

\* The deadline is there exactly when it is needed, replayed backlogs excepted.
Timer ==
  Selecting =>
    /\ ~has_backlog(Both(buffer, queued), inFlight) => nextRetry = None
    /\ restarts = 0 /\ has_backlog(Both(buffer, queued), inFlight) => nextRetry # None

Limits == WithinLimits(buffer) /\ Sorted(buffer)

\* The file holds the frames of a buffer, the present one outside a drain pass.
Filed ==
  /\ SpoolMirrorsBuffer
  /\ spool = "on" => SpoolConfigured
  /\ \E buf : Pure(buf) /\ WithinLimits(buf) /\ file = Frames(buf)

\* What has been answered for.
Answered == acked \cup reported \cup unreported \cup perished

Kept == Taken \subseteq InMemory \cup Answered \cup (IF Alive THEN {} ELSE InFile)

OnceInMemory ==
  /\ Once(Both(buffer, queued)) /\ Apart(inFlight)
  /\ Covered(inFlight) \cap Holding(Both(buffer, queued)) = {}
  /\ hand \cap (Holding(Both(buffer, queued)) \cup Covered(inFlight)) = {}

OnceAnswered ==
  /\ InMemory \cap Answered = {}
  /\ acked \cap (reported \cup unreported \cup perished) = {}
  /\ reported \cap (unreported \cup perished) = {}
  /\ unreported \cap perished = {}

Exact ==
  restarts = 0 /\ Alive => /\ InMemory \cup Answered = Taken
                           /\ OnceInMemory /\ OnceAnswered

IInv == Types /\ Control /\ Timer /\ Limits /\ Filed /\ Kept /\ Exact

-----------------------------------------------------------------------------
(* Initially *)

LEMMA InitIInv == Init => IInv
<1> SUFFICES ASSUME Init PROVE IInv
  OBVIOUS
<1> USE DEF Init
<1>1. Pure(<<>>) /\ WithinLimits(<<>>) /\ Sorted(<<>>) /\ Apart(<<>>)
  BY EmptyFits DEF Pure, Sorted, Apart
<1>2. RecsIn(<<>>) = {} /\ Covered(<<>>) = {}
  BY DEF RecsIn, Covered
<1>3. Types
  BY <1>1, SinkLoopAssumption, RetryBufferAssumption DEF Types
<1>4. Control
  BY DEF Control, Alive
<1>5. Timer
  BY BothFields DEF Timer, has_backlog
<1>6. Limits
  BY <1>1 DEF Limits
<1>7. Filed
  <2>1. Frames(<<>>) = <<>>
    BY DEF Frames
  <2>2. QED
    BY <1>1, <2>1 DEF Filed, SpoolMirrorsBuffer
<1>8. Taken = {} /\ Answered = {} /\ InMemory = {}
  BY <1>2 DEF Taken, Answered, InMemory
<1>9. Kept
  BY <1>8 DEF Kept
<1>10. Holding(Both(<<>>, <<>>)) = {} /\ Once(Both(<<>>, <<>>))
  BY <1>1, <1>2, BothFields DEF Holding, Once
<1>11. Exact
  BY <1>1, <1>8, <1>10 DEF Exact, OnceInMemory, OnceAnswered
<1>12. QED
  BY <1>3, <1>4, <1>5, <1>6, <1>7, <1>9, <1>11 DEF IInv

-----------------------------------------------------------------------------
(* The parts an arm is made of *)

\* The deadline after the arm: one exactly when there is a backlog.
Armed(inflight) ==
  /\ nextRetry' \in Nat \cup {None} /\ attempt' \in 0..MaxDelay
  /\ has_backlog(Both(buffer', queued'), inflight) <=> nextRetry' # None

LEMMA Delays == BaseDelay \in Nat /\ MaxDelay \in Nat /\ None \notin Nat /\ MaxWait \in Nat
BY SinkLoopAssumption

\* The backoff ceiling is a number: base doubled any number of times is.
LEMMA CeilingIsNat ==
  ASSUME NEW n \in Nat
  PROVE  ceiling_ms(n) \in Nat
<1> DEFINE Step(g, m) == [k \in 0..m |-> IF k = 0 THEN BaseDelay ELSE 2 * g[k - 1]]
           S == {m \in Nat : \E g \in [0..m -> Nat] : g = Step(g, m)}
<1>1. 0 \in S
  <2>1. [k \in 0..0 |-> BaseDelay] \in [0..0 -> Nat]
    BY Delays
  <2>2. [k \in 0..0 |-> BaseDelay] = Step([k \in 0..0 |-> BaseDelay], 0)
    OBVIOUS
  <2>3. QED
    BY <2>1, <2>2
<1>2. ASSUME NEW m \in Nat, m \in S PROVE m + 1 \in S
  <2>1. PICK g \in [0..m -> Nat] : g = Step(g, m)
    BY <1>2
  <2> DEFINE h == [k \in 0..m + 1 |-> IF k <= m THEN g[k] ELSE 2 * g[m]]
  <2>2. \A k \in 0..m + 1 : h[k] = IF k = 0 THEN BaseDelay ELSE 2 * h[k - 1]
    <3> SUFFICES ASSUME NEW k \in 0..m + 1
                 PROVE  h[k] = IF k = 0 THEN BaseDelay ELSE 2 * h[k - 1]
      OBVIOUS
    <3>1. CASE k = 0
      BY <3>1, <2>1
    <3>2. CASE k \in 1..m
      <4>1. h[k] = g[k] /\ h[k - 1] = g[k - 1] /\ k # 0 /\ k \in 0..m
        BY <3>2
      <4>2. g[k] = 2 * g[k - 1]
        BY <2>1, <4>1
      <4>3. QED
        BY <4>1, <4>2
    <3>3. CASE k = m + 1
      <4>1. h[k] = 2 * g[m] /\ k - 1 = m /\ h[m] = g[m] /\ k # 0
        BY <3>3
      <4>2. QED
        BY <4>1
    <3>4. QED
      BY <3>1, <3>2, <3>3
  <2>3. h \in [0..m + 1 -> Nat] /\ h = [k \in 0..m + 1 |-> h[k]]
    OBVIOUS
  <2>4. h = Step(h, m + 1)
    <3> HIDE DEF h
    <3>1. QED
      BY <2>2, <2>3
  <2>5. \E x \in [0..m + 1 -> Nat] : x = Step(x, m + 1)
    <3> HIDE DEF h, Step
    <3>1. QED
      BY <2>3, <2>4
  <2>6. QED
    <3> HIDE DEF Step
    <3>1. QED
      BY <2>5
<1>3. Nat \subseteq S
  <2> HIDE DEF S
  <2>1. QED
    BY <1>1, <1>2, NatSetInduction
<1>4. PICK f : f = CHOOSE g : g = Step(g, n)
  OBVIOUS
<1>5. ceiling_ms(n) = IF f[n] > MaxDelay THEN MaxDelay ELSE f[n]
  BY <1>4 DEF ceiling_ms
<1>6. f = Step(f, n)
  <2> HIDE DEF Step
  <2>1. \E g : g = Step(g, n)
    BY <1>3
  <2>2. QED
    BY <1>4, <2>1
<1>7. PICK g \in [0..n -> Nat] : g = Step(g, n)
  <2> HIDE DEF Step
  <2>1. QED
    BY <1>3
<1>8. f[n] \in Nat
  <2> DEFINE E == {k \in Nat : k <= n => f[k] = g[k]}
  <2>1. 0 \in E
    BY <1>6, <1>7
  <2>2. ASSUME NEW k \in Nat, k \in E PROVE k + 1 \in E
    <3> SUFFICES ASSUME k + 1 <= n PROVE f[k + 1] = g[k + 1]
      OBVIOUS
    <3>1. k + 1 \in 0..n /\ k + 1 # 0 /\ (k + 1) - 1 = k /\ f[k] = g[k]
      BY <2>2
    <3>2. f[k + 1] = 2 * f[k] /\ g[k + 1] = 2 * g[k]
      BY <1>6, <1>7, <3>1
    <3>3. QED
      BY <3>1, <3>2
  <2>3. Nat \subseteq E
    <3> HIDE DEF E
    <3>1. QED
      BY <2>1, <2>2, NatSetInduction
  <2>4. f[n] = g[n]
    BY <2>3
  <2>5. QED
    BY <2>4
<1>9. QED
  BY <1>5, <1>8, Delays

LEMMA ScheduleArms ==
  ASSUME NEW current \in Nat \cup {None}, NEW n \in 0..MaxDelay, NEW inflight,
         schedule_retry(current, n, has_backlog(Both(buffer', queued'), inflight))
  PROVE  /\ Armed(inflight)
         /\ has_backlog(Both(buffer', queued'), inflight) /\ current # None
              => nextRetry' = current
<1>1. ceiling_ms(n) \in Nat
  BY CeilingIsNat, Delays
<1>2. \A x \in ceiling_ms(n) \div 2 .. ceiling_ms(n) : x \in Nat
  BY <1>1
<1>3. NextAttempt(n) \in 0..MaxDelay
  BY Delays DEF NextAttempt
<1>4. PICK hb : hb = has_backlog(Both(buffer', queued'), inflight)
  OBVIOUS
<1>5. \/ ~hb /\ nextRetry' = None /\ attempt' = 0
      \/ hb /\ current # None /\ nextRetry' = current /\ attempt' = n
      \/ hb /\ current = None /\ nextRetry' \in Nat /\ attempt' \in 0..MaxDelay
  BY <1>2, <1>3, <1>4 DEF schedule_retry
<1>6. QED
  BY <1>4, <1>5, Delays DEF Armed

LEMMA FramesType ==
  ASSUME NEW buf, Pure(buf)
  PROVE  Frames(buf) \in Seq(SUBSET Recs)
<1>1. /\ Len(buf) \in Nat /\ DOMAIN buf = 1..Len(buf)
      /\ \A i \in 1..Len(buf) : buf[i] \in Buffered
  BY SequenceFacts DEF Pure
<1>2. Frames(buf) \in [1..Len(buf) -> SUBSET Recs]
  BY <1>1 DEF Frames, Buffered
<1>3. QED
  BY <1>1, <1>2

\* What sync_spool leaves on disk.
Synced(buf) ==
  /\ file' \in Seq(SUBSET Recs) /\ spool' \in {"off", "on", "disabled"}
  /\ spool' = "on" => SpoolConfigured /\ file' = Frames(buf)
  /\ \E b : Pure(b) /\ WithinLimits(b) /\ file' = Frames(b)

LEMMA SyncKeeps ==
  ASSUME Types, Filed, NEW buf, Pure(buf), WithinLimits(buf), sync_spool(buf)
  PROVE  Synced(buf)
<1>1. CASE spool = "on" /\ file' = Frames(buf) /\ UNCHANGED spool
  BY <1>1, FramesType DEF Synced, Filed
<1>2. CASE spool = "on" /\ spool' = "disabled" /\ UNCHANGED file
  BY <1>2 DEF Synced, Filed, Types
<1>3. CASE spool # "on" /\ UNCHANGED diskVars
  BY <1>3 DEF Synced, Filed, Types, diskVars
<1>4. QED
  BY <1>1, <1>2, <1>3 DEF sync_spool

\* What an arm leaves alone, and the types of what it hands out.
Steady ==
  /\ UNCHANGED <<mode, sink, restarts>>
  /\ pending' \subseteq Messages
  /\ acked' \subseteq Recs /\ reported' \subseteq Recs
  /\ unreported' \subseteq Recs /\ perished' \subseteq Recs

\* A backlog the buffer of which is in order.
InOrder(b) == Sound(b) /\ WithinLimits(b.buffer) /\ Sorted(b.buffer)

LEMMA LandsKeeps ==
  ASSUME NEW b, InOrder(b), NEW inflight, Lands(b, inflight)
  PROVE  /\ Pure(buffer') /\ queued' \in Seq(Reports)
         /\ WithinLimits(buffer') /\ Sorted(buffer')
BY BothFields, PartKeeps, PartFits DEF Lands, InOrder, Carries, Sound

\* The parts of the invariant that are not about who holds a record.
Shape == Types /\ Control /\ Timer /\ Limits /\ Filed

LEMMA RestingKeeps ==
  ASSUME Shape, mode = "running", Steady, NEW b, InOrder(b),
         NEW inflight \in Seq(Reports), Lands(b, inflight), Resting, Armed(inflight)
  PROVE  Shape'
<1> USE DEF Shape
<1>1. /\ Pure(buffer') /\ queued' \in Seq(Reports)
      /\ WithinLimits(buffer') /\ Sorted(buffer') /\ inFlight' = inflight
  BY LandsKeeps DEF Lands
<1>2. Synced(buffer')
  BY <1>1, SyncKeeps DEF Resting
<1>3. Types'
  <2>1. <<0, 0>> \in Nat \X Nat /\ 0 \in 0..MaxAge + 1
    BY RetryBufferAssumption
  <2>2. QED
    BY <1>1, <1>2, <2>1 DEF Types, Resting, Armed, Steady, Synced
<1>4. mode' = "running" /\ step' = "select"
  BY DEF Steady, Resting
<1>5. Control'
  BY <1>4 DEF Control, Alive, Resting
<1>6. Timer'
  BY <1>1, <1>4 DEF Timer, Armed
<1>7. Limits'
  BY <1>1 DEF Limits
<1>8. Filed'
  BY <1>2 DEF Filed, Synced, SpoolMirrorsBuffer
<1>9. QED
  BY <1>3, <1>5, <1>6, <1>7, <1>8

LEMMA PassingKeeps ==
  ASSUME Shape, Alive, step = "flush", Steady, NEW b, InOrder(b),
         NEW inflight \in Seq(Reports), Lands(b, inflight),
         step' \in {"flush", "exit"}, mode = "running" => step' = "flush",
         before' \in Nat \X Nat, UNCHANGED <<hand, handAge, timerVars, diskVars>>
  PROVE  Shape'
<1> USE DEF Shape, timerVars, diskVars
<1>1. /\ Pure(buffer') /\ queued' \in Seq(Reports)
      /\ WithinLimits(buffer') /\ Sorted(buffer') /\ inFlight' = inflight
  BY LandsKeeps DEF Lands
<1>2. Types'
  BY <1>1 DEF Types, Steady
<1>3. Control'
  BY DEF Control, Alive, Steady
<1>4. Timer'
  BY DEF Timer, Selecting
<1>5. Limits'
  BY <1>1 DEF Limits
<1>6. Filed'
  BY DEF Filed, SpoolMirrorsBuffer
<1>7. QED
  BY <1>2, <1>3, <1>4, <1>5, <1>6

LEMMA LandsHolds ==
  ASSUME NEW b, Sound(b), NEW inflight \in Seq(Reports), Lands(b, inflight)
  PROVE  /\ Holding(Both(buffer', queued')) = Holding(b)
         /\ has_backlog(Both(buffer', queued'), inflight)
              <=> Holding(b) \cup Covered(inflight) # {}
<1>1. Sound(Both(buffer', queued')) /\ Holding(Both(buffer', queued')) = Holding(b)
  BY DEF Lands, Carries
<1>2. QED
  BY <1>1, BacklogHolds

LEMMA BacklogCounts ==
  ASSUME NEW b, Len(b.buffer) \in Nat, Len(b.queued) \in Nat, NEW inflight
  PROVE  backlog_len(b, inflight) \in Nat \X Nat
<1>1. PICK n \in Nat : n = IF inflight = <<>> THEN 0 ELSE 1
  OBVIOUS
<1>2. PICK x \in Nat : x = Len(b.buffer)
  OBVIOUS
<1>3. PICK y \in Nat : y = Len(b.queued)
  OBVIOUS
<1>4. backlog_len(b, inflight) = <<x, y + n>>
  BY <1>1, <1>2, <1>3 DEF backlog_len
<1>5. QED
  BY <1>4

LEMMA PassDoneKeeps ==
  ASSUME Shape, Flushing, Steady, NEW b, InOrder(b), NEW inflight \in Seq(Reports),
         NEW paced, paced => Holding(b) \cup Covered(inflight) # {},
         PassDone(b, inflight, paced)
  PROVE  Shape'
<1> USE DEF Flushing, PassDone
<1>1. CASE /\ mode = "running" /\ Resting /\ paced
           /\ nextRetry' \in 1..MaxWait /\ attempt' \in {0, attempt}
  <2>1. has_backlog(Both(buffer', queued'), inflight)
    BY <1>1, LandsHolds DEF InOrder
  <2>2. nextRetry' \in Nat /\ nextRetry' # None /\ attempt' \in 0..MaxDelay
    BY <1>1, Delays DEF Shape, Types
  <2>3. Armed(inflight)
    BY <2>1, <2>2 DEF Armed
  <2>4. QED
    BY <1>1, <2>3, RestingKeeps
<1>2. CASE /\ mode = "running" /\ Resting
           /\ \E n \in {0, attempt} :
                schedule_retry(None, n, has_backlog(Both(buffer', queued'), inflight))
  <2>1. PICK n \in {0, attempt} :
                schedule_retry(None, n, has_backlog(Both(buffer', queued'), inflight))
    BY <1>2
  <2>2. n \in 0..MaxDelay /\ None \in Nat \cup {None}
    BY Delays DEF Shape, Types
  <2>3. Armed(inflight)
    BY <2>1, <2>2, ScheduleArms
  <2>4. QED
    BY <1>2, <2>3, RestingKeeps
<1>3. CASE /\ mode # "running" /\ step' \in {"flush", "exit"}
           /\ before' = backlog_len(b, inflight)
           /\ UNCHANGED <<hand, handAge, timerVars, diskVars>>
  <2>1. Len(b.buffer) \in Nat /\ Len(b.queued) \in Nat
    BY SequenceFacts DEF InOrder, Sound, Pure
  <2>2. before' \in Nat \X Nat
    BY <1>3, <2>1, BacklogCounts
  <2>3. QED
    BY <1>3, <2>2, PassingKeeps
<1>4. QED
  BY <1>1, <1>2, <1>3

-----------------------------------------------------------------------------
(* Who holds a record *)

\* The records m are taken; A, R and U are answered for; the rest is held.
Flows(m, A, R, U) ==
  /\ Taken' = Taken \cup m
  /\ acked' = acked \cup A /\ reported' = reported \cup R
  /\ unreported' = unreported \cup U /\ perished' = perished
  /\ InMemory' \cup (A \cup R \cup U) = InMemory \cup m
  /\ OnceInMemory /\ m \cap InMemory = {} =>
       /\ OnceInMemory' /\ InMemory' \cap (A \cup R \cup U) = {}
       /\ A \cap R = {} /\ A \cap U = {} /\ R \cap U = {}

LEMMA FlowKeeps ==
  ASSUME Kept, Exact, Alive, Alive', UNCHANGED restarts,
         NEW m, NEW A, NEW R, NEW U, Flows(m, A, R, U), m \cap Taken = {}
  PROVE  Kept' /\ Exact'
<1> USE DEF Flows
<1>1. Answered' = Answered \cup (A \cup R \cup U)
  BY DEF Answered
<1>2. Kept'
  BY <1>1 DEF Kept
<1>3. ASSUME restarts = 0
      PROVE  InMemory' \cup Answered' = Taken' /\ OnceInMemory' /\ OnceAnswered'
  <2>1. InMemory \cup Answered = Taken /\ OnceInMemory /\ OnceAnswered
    BY <1>3 DEF Exact
  <2>2. /\ OnceInMemory' /\ InMemory' \cap (A \cup R \cup U) = {}
        /\ A \cap R = {} /\ A \cap U = {} /\ R \cap U = {}
    BY <2>1
  <2>3. InMemory' \cup Answered' = Taken'
    BY <1>1, <2>1
  <2>4. (InMemory \cup m) \cap Answered = {}
    BY <2>1 DEF OnceAnswered
  <2>5. /\ InMemory' \cap Answered = {} /\ A \cap Answered = {}
        /\ R \cap Answered = {} /\ U \cap Answered = {}
    BY <2>4
  <2>6. InMemory' \cap Answered' = {}
    BY <1>1, <2>2, <2>5
  <2>7. OnceAnswered'
    BY <2>1, <2>2, <2>5, <2>6 DEF OnceAnswered, Answered
  <2>8. QED
    BY <2>2, <2>3, <2>7
<1>4. QED
  BY <1>2, <1>3 DEF Exact

LEMMA MemoryIs == InMemory = hand \cup Holding(Both(buffer, queued)) \cup Covered(inFlight)
BY BothFields DEF InMemory, Holding

\* The memory after an arm that starts from b and holds nothing in hand.
LEMMA LandsFlow ==
  ASSUME NEW b, Sound(b), NEW inflight, Lands(b, inflight), hand' = {}
  PROVE  /\ InMemory' = Holding(b) \cup Covered(inflight)
         /\ Once(b) /\ Apart(inflight) /\ Covered(inflight) \cap Holding(b) = {}
              => OnceInMemory'
<1>1. /\ Holding(Both(buffer', queued')) = Holding(b)
      /\ Once(b) => Once(Both(buffer', queued'))
      /\ inFlight' = inflight
  BY DEF Lands, Carries
<1>2. InMemory' = hand' \cup Holding(Both(buffer', queued')) \cup Covered(inFlight')
  BY BothFields DEF InMemory, Holding
<1>3. QED
  BY <1>1, <1>2 DEF OnceInMemory

\* A message of the queue is new to the loop.
LEMMA TakenIsNew ==
  ASSUME Types, NEW m \in Messages, m \in pending, pending' = pending \ {m}
  PROVE  Taken' = Taken \cup m /\ m \cap Taken = {} /\ m \in SUBSET Recs /\ m # {}
<1>1. m \in SUBSET Recs /\ m # {} /\ \A n \in Messages : n # m => n \cap m = {}
  BY SinkLoopAssumption
<1>2. Messages \ pending' = (Messages \ pending) \cup {m}
  BY DEF Types
<1>3. Taken' = Taken \cup m
  BY <1>2 DEF Taken
<1>4. m \cap Taken = {}
  BY <1>1 DEF Taken
<1>5. QED
  BY <1>1, <1>3, <1>4

-----------------------------------------------------------------------------
(* The receive arm *)

LEMMA BacklogInOrder ==
  ASSUME Shape
  PROVE  InOrder(Backlog) /\ Backlog = Both(buffer, queued)
         /\ Backlog.buffer = buffer /\ Backlog.queued = queued
BY DEF Shape, Types, Limits, InOrder, Sound, Backlog, Both

LEMMA ExpireInOrder ==
  ASSUME NEW b, InOrder(b)
  PROVE  /\ InOrder(Expire(b)) /\ Holding(Expire(b)) = Holding(b)
         /\ Once(b) => Once(Expire(b))
<1>1. Carries(b, Expire(b), {}) /\ Part(Expire(b).buffer, b.buffer)
  BY ExpireCarries DEF InOrder
<1>2. Sound(Expire(b)) /\ Holding(Expire(b)) = Holding(b) /\ (Once(b) => Once(Expire(b)))
  BY <1>1 DEF Carries
<1>3. WithinLimits(Expire(b).buffer) /\ Sorted(Expire(b).buffer)
  BY <1>1, PartKeeps, PartFits DEF InOrder
<1>4. QED
  BY <1>2, <1>3 DEF InOrder

LEMMA EnqueueInOrder ==
  ASSUME NEW b, InOrder(b), NEW recs \in SUBSET Recs, NEW age \in 0..MaxAge + 1,
         \A i \in DOMAIN b.buffer : b.buffer[i].age >= age
  PROVE  /\ InOrder(Enqueue(b, recs, age))
         /\ Holding(Enqueue(b, recs, age)) = Holding(b) \cup recs
         /\ Once(b) /\ recs \cap Holding(b) = {} => Once(Enqueue(b, recs, age))
<1>1. /\ Carries(b, Enqueue(b, recs, age), recs)
      /\ Enqueued(b.buffer, recs, age, Enqueue(b, recs, age).buffer)
  BY EnqueueCarries DEF InOrder
<1>2. QED
  BY <1>1 DEF Carries, Enqueued, InOrder

LEMMA ReportInOrder ==
  ASSUME NEW b, InOrder(b), NEW recs \in SUBSET Recs, NEW cause,
         cause \in {"sink_rejected", "sink_queue_overflow"}, NEW c,
         c.buffer = b.buffer, c.queued = merge_by_cause(b.queued, cause, recs)
  PROVE  /\ InOrder(c) /\ Holding(c) = Holding(b) \cup recs
         /\ Once(b) /\ recs \cap Holding(b) = {} => Once(c)
<1>1. cause \in Causes /\ cause \notin {"retry_buffer_overflow", "memory_pressure"}
  BY DEF Causes
<1>2. Carries(b, c, recs)
  BY <1>1, ReportCarries DEF InOrder
<1>3. QED
  BY <1>2 DEF Carries, InOrder

\* An arm that takes m, ends in select! and adds m to the backlog.
LEMMA ArmTakes ==
  ASSUME IInv, Selecting, NEW m \in Messages, m \in pending, pending' = pending \ {m},
         UNCHANGED <<mode, sink, restarts, outVars>>,
         NEW c, InOrder(c), Holding(c) = Holding(Backlog) \cup m,
         Once(Backlog) /\ m \cap Holding(Backlog) = {} => Once(c),
         Settle(c, inFlight, nextRetry, attempt)
  PROVE  IInv'
<1> USE DEF Selecting
<1>1. Shape /\ Types /\ Control /\ Kept /\ Exact
  BY DEF IInv, Shape
<1>2. /\ Lands(c, inFlight) /\ Resting
      /\ schedule_retry(nextRetry, attempt, has_backlog(Both(buffer', queued'), inFlight))
  BY SettleLands DEF InOrder
<1>3. inFlight \in Seq(Reports) /\ nextRetry \in Nat \cup {None} /\ attempt \in 0..MaxDelay
  BY <1>1 DEF Types
<1>4. Armed(inFlight)
  BY <1>2, <1>3, ScheduleArms
<1>5. Steady
  BY <1>1 DEF Steady, Types, outVars
<1>6. Shape'
  BY <1>1, <1>2, <1>3, <1>4, <1>5, RestingKeeps
<1>7. Taken' = Taken \cup m /\ m \cap Taken = {}
  BY <1>1, TakenIsNew
<1>8. hand = {} /\ InMemory = Holding(Backlog) \cup Covered(inFlight)
  BY <1>1, BacklogInOrder, MemoryIs DEF Control
<1>9. /\ InMemory' = Holding(c) \cup Covered(inFlight)
      /\ Once(c) /\ Apart(inFlight) /\ Covered(inFlight) \cap Holding(c) = {}
           => OnceInMemory'
  BY <1>2, LandsFlow DEF InOrder, Resting
<1>10. OnceInMemory /\ m \cap InMemory = {} => OnceInMemory'
  BY <1>1, <1>8, <1>9, BacklogInOrder DEF OnceInMemory
<1>11. Flows(m, {}, {}, {})
  BY <1>7, <1>8, <1>9, <1>10 DEF Flows, outVars
<1>12. Kept' /\ Exact'
  BY <1>1, <1>7, <1>11, FlowKeeps DEF Alive
<1>13. QED
  BY <1>6, <1>12 DEF IInv, Shape

LEMMA ReceiveBehindKeeps ==
  ASSUME IInv, NEW m \in Messages, ReceiveBehindBacklog(m)
  PROVE  IInv'
<1>1. InOrder(Backlog)
  BY BacklogInOrder DEF IInv, Shape
<1>2. PICK b : b = Expire(Backlog)
  OBVIOUS
<1>3. InOrder(b) /\ Holding(b) = Holding(Backlog) /\ (Once(Backlog) => Once(b))
  BY <1>1, <1>2, ExpireInOrder
<1>4. PICK c : c = Enqueue(b, m, 0)
  OBVIOUS
<1>5. /\ Selecting /\ m \in pending /\ pending' = pending \ {m}
      /\ Settle(c, inFlight, nextRetry, attempt)
      /\ UNCHANGED <<mode, sink, restarts, outVars>>
  BY <1>2, <1>4 DEF ReceiveBehindBacklog
<1>6. m \in SUBSET Recs /\ 0 \in 0..MaxAge + 1
  BY SinkLoopAssumption, RetryBufferAssumption
<1>7. \A i \in DOMAIN b.buffer : b.buffer[i].age >= 0
  <2>1. DOMAIN b.buffer = 1..Len(b.buffer)
        /\ \A i \in 1..Len(b.buffer) : b.buffer[i] \in Buffered
    BY <1>3, SequenceFacts DEF InOrder, Sound, Pure
  <2>2. QED
    BY <2>1 DEF Buffered
<1>8. /\ InOrder(c) /\ Holding(c) = Holding(b) \cup m
      /\ Once(b) /\ m \cap Holding(b) = {} => Once(c)
  BY <1>3, <1>4, <1>6, <1>7, EnqueueInOrder
<1>9. QED
  BY <1>3, <1>5, <1>8, ArmTakes

LEMMA ReceiveGapsBehindKeeps ==
  ASSUME IInv, NEW m \in Messages, ReceiveGapsBehindBacklog(m)
  PROVE  IInv'
<1>1. InOrder(Backlog)
  BY BacklogInOrder DEF IInv, Shape
<1>2. PICK b : b = Expire(Backlog)
  OBVIOUS
<1>3. InOrder(b) /\ Holding(b) = Holding(Backlog) /\ (Once(Backlog) => Once(b))
  BY <1>1, <1>2, ExpireInOrder
<1>4. PICK c : c = [b EXCEPT !.queued = merge_by_cause(@, "sink_queue_overflow", m)]
  OBVIOUS
<1>5. /\ Selecting /\ m \in pending /\ pending' = pending \ {m}
      /\ Settle(c, inFlight, nextRetry, attempt)
      /\ UNCHANGED <<mode, sink, restarts, outVars>>
  BY <1>2, <1>4 DEF ReceiveGapsBehindBacklog
<1>6. m \in SUBSET Recs
  BY SinkLoopAssumption
<1>7. c.buffer = b.buffer /\ c.queued = merge_by_cause(b.queued, "sink_queue_overflow", m)
  BY <1>2, <1>4 DEF Expire, Reduced
<1>8. /\ InOrder(c) /\ Holding(c) = Holding(b) \cup m
      /\ Once(b) /\ m \cap Holding(b) = {} => Once(c)
  BY <1>3, <1>6, <1>7, ReportInOrder
<1>9. QED
  BY <1>3, <1>5, <1>8, ArmTakes

\* Evidence, or reports, that go out inline.
LEMMA InlineKeeps ==
  ASSUME IInv, NEW m \in Messages, ReceiveInline(m) \/ ReceiveGapsInline(m)
  PROVE  IInv'
<1>1. Shape /\ Types /\ Control /\ Timer /\ Limits /\ Filed /\ Kept /\ Exact
  BY DEF IInv, Shape
<1>2. /\ Selecting /\ m \in pending /\ ~has_backlog(Expire(Backlog), inFlight)
      /\ pending' = pending \ {m} /\ hand' = m /\ handAge' = 0
      /\ step' \in {"inline", "inlineGaps"}
      /\ UNCHANGED <<mode, buffer, gapVars, timerVars, before, diskVars, sink,
                     restarts, outVars>>
  BY DEF ReceiveInline, ReceiveGapsInline
<1> USE DEF Selecting, gapVars, timerVars, diskVars, outVars
<1>3. inFlight \in Seq(Reports) /\ InOrder(Backlog)
  BY <1>1, BacklogInOrder DEF Types
<1>4. InOrder(Expire(Backlog)) /\ Holding(Expire(Backlog)) = Holding(Backlog)
  BY <1>3, ExpireInOrder
<1>5. Holding(Backlog) \cup Covered(inFlight) = {}
  BY <1>2, <1>3, <1>4, BacklogHolds DEF InOrder
<1>6. ~has_backlog(Both(buffer, queued), inFlight)
  BY <1>1, <1>3, <1>5, BacklogHolds, BacklogInOrder DEF InOrder
<1>7. buffer = <<>> /\ queued = <<>> /\ inFlight = <<>>
  BY <1>6, BothFields DEF has_backlog
<1>8. nextRetry = None
  BY <1>1, <1>2, <1>6 DEF Timer
<1>9. Taken' = Taken \cup m /\ m \cap Taken = {} /\ m \in SUBSET Recs /\ m # {}
  BY <1>1, <1>2, TakenIsNew
<1>10. Types'
  <2>1. 0 \in 0..MaxAge + 1
    BY RetryBufferAssumption
  <2>2. QED
    BY <1>1, <1>2, <1>9, <2>1 DEF Types
<1>11. Control'
  BY <1>1, <1>2, <1>7, <1>8, <1>9 DEF Control, Alive
<1>12. Timer'
  BY <1>2 DEF Timer
<1>13. Limits'
  BY <1>1, <1>2 DEF Limits
<1>14. Filed'
  BY <1>1, <1>2 DEF Filed, SpoolMirrorsBuffer, Alive
<1>15. hand = {} /\ InMemory = {} /\ InMemory' = m
  BY <1>1, <1>2, <1>5, <1>7, BacklogInOrder, MemoryIs DEF Control, InMemory, RecsIn, Covered
<1>16. OnceInMemory'
  BY <1>2, <1>7 DEF OnceInMemory, Once, Holding, Both, RecsIn, Covered, Apart
<1>17. Flows(m, {}, {}, {})
  BY <1>2, <1>9, <1>15, <1>16 DEF Flows
<1>18. Kept' /\ Exact'
  BY <1>1, <1>2, <1>9, <1>17, FlowKeeps DEF Alive
<1>19. QED
  BY <1>10, <1>11, <1>12, <1>13, <1>14, <1>18 DEF IInv

-----------------------------------------------------------------------------
(* Answers of the sink *)

\* What becomes of the memory: c and inflight stay, A, R and U are answered for.
Splits(c, inflight, A, R, U) ==
  /\ Holding(c) \cup Covered(inflight) \cup (A \cup R \cup U) = InMemory
  /\ OnceInMemory =>
       /\ Once(c) /\ Apart(inflight) /\ Covered(inflight) \cap Holding(c) = {}
       /\ (Holding(c) \cup Covered(inflight)) \cap (A \cup R \cup U) = {}
  /\ A \cap R = {} /\ A \cap U = {} /\ R \cap U = {}
  /\ acked' = acked \cup A /\ reported' = reported \cup R
  /\ unreported' = unreported \cup U /\ UNCHANGED <<perished, pending>>

LEMMA SplitsKeeps ==
  ASSUME IInv, Alive, UNCHANGED <<mode, restarts>>, NEW c, Sound(c), NEW inflight,
         Lands(c, inflight), hand' = {},
         NEW A, NEW R, NEW U, Splits(c, inflight, A, R, U)
  PROVE  Kept' /\ Exact'
<1> USE DEF Splits
<1>1. /\ InMemory' = Holding(c) \cup Covered(inflight)
      /\ Once(c) /\ Apart(inflight) /\ Covered(inflight) \cap Holding(c) = {}
           => OnceInMemory'
  BY LandsFlow
<1>2. Taken' = Taken \cup {}
  BY DEF Taken
<1>3. Flows({}, A, R, U)
  BY <1>1, <1>2 DEF Flows
<1>4. Alive' /\ {} \cap Taken = {}
  BY DEF Alive
<1>5. QED
  BY <1>3, <1>4, FlowKeeps DEF IInv

\* All that is in memory is a record.
LEMMA MemoryType ==
  ASSUME Types
  PROVE  InMemory \subseteq Recs
BY RecsOfBuffer, RecsOfReports DEF Types, InMemory

LEMMA SplitsSteady ==
  ASSUME IInv, UNCHANGED <<mode, sink, restarts>>, NEW c, NEW inflight,
         NEW A, NEW R, NEW U, Splits(c, inflight, A, R, U)
  PROVE  Steady
BY MemoryType DEF IInv, Types, Steady, Splits

\* An append that returned to an arm.
LEMMA ArmAnswers ==
  ASSUME IInv, mode = "running", UNCHANGED <<mode, sink, restarts>>,
         NEW c, InOrder(c), NEW inflight \in Seq(Reports), NEW n \in 0..MaxDelay,
         Settle(c, inflight, nextRetry, n),
         NEW A, NEW R, NEW U, Splits(c, inflight, A, R, U)
  PROVE  IInv'
<1>1. Shape /\ nextRetry \in Nat \cup {None}
  BY DEF IInv, Shape, Types
<1>2. /\ Lands(c, inflight) /\ Resting
      /\ schedule_retry(nextRetry, n, has_backlog(Both(buffer', queued'), inflight))
  BY SettleLands DEF InOrder
<1>3. Armed(inflight)
  BY <1>1, <1>2, ScheduleArms
<1>4. Steady
  BY SplitsSteady
<1>5. Shape'
  BY <1>1, <1>2, <1>3, <1>4, RestingKeeps
<1>6. Kept' /\ Exact'
  BY <1>2, SplitsKeeps DEF InOrder, Resting, Alive
<1>7. QED
  BY <1>5, <1>6 DEF IInv, Shape

LEMMA EmptyBacklog ==
  ASSUME IInv, Alive, step \in {"inline", "inlineGaps"}
  PROVE  /\ mode = "running" /\ InOrder(Backlog) /\ Backlog.buffer = <<>>
         /\ Holding(Backlog) = {} /\ Once(Backlog) /\ inFlight = <<>>
         /\ Apart(inFlight) /\ Covered(inFlight) = {} /\ InMemory = hand
         /\ hand \in SUBSET Recs /\ inFlight \in Seq(Reports) /\ attempt \in 0..MaxDelay
         /\ 0 \in 0..MaxDelay
<1>1. /\ mode = "running" /\ hand \in SUBSET Recs
      /\ buffer = <<>> /\ queued = <<>> /\ inFlight = <<>>
      /\ inFlight \in Seq(Reports) /\ attempt \in 0..MaxDelay
  BY DEF IInv, Control, Alive, Types
<1>2. InOrder(Backlog) /\ Backlog = Both(buffer, queued)
      /\ Backlog.buffer = buffer /\ Backlog.queued = queued
  BY BacklogInOrder DEF IInv, Shape
<1>3. RecsIn(<<>>) = {} /\ Covered(<<>>) = {} /\ Apart(<<>>)
  BY DEF RecsIn, Covered, Apart
<1>4. Holding(Backlog) = {} /\ Once(Backlog)
  BY <1>1, <1>2, <1>3 DEF Holding, Once
<1>5. InMemory = hand
  BY <1>1, <1>2, <1>3, <1>4, MemoryIs
<1>6. QED
  BY <1>1, <1>2, <1>3, <1>4, <1>5, Delays

LEMMA InlineAppendKeeps ==
  ASSUME IInv, InlineAppend
  PROVE  IInv'
<1>1. Alive /\ step \in {"inline", "inlineGaps"} /\ UNCHANGED <<mode, sink, restarts>>
  BY DEF InlineAppend
<1>2. /\ mode = "running" /\ InOrder(Backlog) /\ Backlog.buffer = <<>>
      /\ Holding(Backlog) = {} /\ Once(Backlog) /\ inFlight = <<>>
      /\ Apart(inFlight) /\ Covered(inFlight) = {} /\ InMemory = hand
      /\ hand \in SUBSET Recs /\ inFlight \in Seq(Reports) /\ attempt \in 0..MaxDelay
      /\ 0 \in 0..MaxDelay
  BY <1>1, EmptyBacklog
<1>3. CASE acked' = acked \cup hand /\ Settle(Backlog, inFlight, nextRetry, 0)
  <2>1. Splits(Backlog, inFlight, hand, {}, {})
    BY <1>2, <1>3 DEF Splits, InlineAppend
  <2>2. QED
    BY <1>1, <1>2, <1>3, <2>1, ArmAnswers
<1>4. CASE /\ Settle(Enqueue(Backlog, hand, handAge), inFlight, nextRetry, attempt)
           /\ UNCHANGED acked
  <2>1. PICK c : c = Enqueue(Backlog, hand, handAge)
    OBVIOUS
  <2>2. handAge \in 0..MaxAge + 1 /\ \A i \in DOMAIN Backlog.buffer : Backlog.buffer[i].age >= handAge
    BY <1>2 DEF IInv, Types
  <2>3. InOrder(c) /\ Holding(c) = hand /\ Once(c)
    <3>1. /\ InOrder(c) /\ Holding(c) = Holding(Backlog) \cup hand
          /\ Once(Backlog) /\ hand \cap Holding(Backlog) = {} => Once(c)
      BY <1>2, <2>1, <2>2, EnqueueInOrder
    <3>2. QED
      BY <1>2, <3>1
  <2>4. Splits(c, inFlight, {}, {}, {})
    BY <1>2, <1>4, <2>3 DEF Splits, InlineAppend
  <2>5. QED
    BY <1>1, <1>2, <1>4, <2>1, <2>3, <2>4, ArmAnswers
<1>5. CASE /\ Settle([Backlog EXCEPT !.queued = merge_by_cause(@, "sink_rejected", hand)],
                     inFlight, nextRetry, attempt)
           /\ UNCHANGED acked
  <2>1. PICK c : c = [Backlog EXCEPT !.queued = merge_by_cause(@, "sink_rejected", hand)]
    OBVIOUS
  <2>2. c.buffer = Backlog.buffer /\ c.queued = merge_by_cause(Backlog.queued, "sink_rejected", hand)
    BY <2>1 DEF Backlog
  <2>3. InOrder(c) /\ Holding(c) = hand /\ Once(c)
    <3>1. /\ InOrder(c) /\ Holding(c) = Holding(Backlog) \cup hand
          /\ Once(Backlog) /\ hand \cap Holding(Backlog) = {} => Once(c)
      BY <1>2, <2>2, ReportInOrder
    <3>2. QED
      BY <1>2, <3>1
  <2>4. Splits(c, inFlight, {}, {}, {})
    BY <1>2, <1>5, <2>3 DEF Splits, InlineAppend
  <2>5. QED
    BY <1>1, <1>2, <1>5, <2>1, <2>3, <2>4, ArmAnswers
<1>6. QED
  BY <1>3, <1>4, <1>5 DEF InlineAppend

LEMMA OneReport ==
  ASSUME NEW g \in Reports
  PROVE  <<g>> \in Seq(Reports) /\ Covered(<<g>>) = g.recs /\ Apart(<<g>>) /\ <<g>> # <<>>
<1>1. <<g>> \in Seq(Reports) /\ DOMAIN <<g>> = {1} /\ <<g>>[1] = g
  OBVIOUS
<1>2. QED
  BY <1>1 DEF Covered, Apart

LEMMA InlineGapsAppendKeeps ==
  ASSUME IInv, InlineGapsAppend
  PROVE  IInv'
<1>1. Alive /\ step \in {"inline", "inlineGaps"} /\ UNCHANGED <<mode, sink, restarts>>
  BY DEF InlineGapsAppend
<1>2. /\ mode = "running" /\ InOrder(Backlog) /\ Backlog.buffer = <<>>
      /\ Holding(Backlog) = {} /\ Once(Backlog) /\ inFlight = <<>>
      /\ Apart(inFlight) /\ Covered(inFlight) = {} /\ InMemory = hand
      /\ hand \in SUBSET Recs /\ inFlight \in Seq(Reports) /\ attempt \in 0..MaxDelay
      /\ 0 \in 0..MaxDelay
  BY <1>1, EmptyBacklog
<1>3. CASE reported' = reported \cup hand /\ Settle(Backlog, inFlight, nextRetry, 0)
  <2>1. Splits(Backlog, inFlight, {}, hand, {})
    BY <1>2, <1>3 DEF Splits, InlineGapsAppend
  <2>2. QED
    BY <1>1, <1>2, <1>3, <2>1, ArmAnswers
<1>4. CASE /\ Settle(Backlog, <<Report("sink_queue_overflow", hand)>>, nextRetry, attempt)
           /\ UNCHANGED reported
  <2>1. PICK g : g = Report("sink_queue_overflow", hand)
    OBVIOUS
  <2>2. hand # {}
    BY <1>1 DEF IInv, Control
  <2>3. g \in Reports /\ g.recs = hand
    BY <1>2, <2>1, <2>2 DEF Report, Reports, Causes
  <2>4. PICK f : f = <<g>>
    OBVIOUS
  <2>5. f \in Seq(Reports) /\ Covered(f) = hand /\ Apart(f)
    BY <2>3, <2>4, OneReport
  <2>6. Splits(Backlog, f, {}, {}, {})
    BY <1>2, <1>4, <2>5 DEF Splits, InlineGapsAppend
  <2>7. QED
    BY <1>1, <1>2, <1>4, <2>1, <2>4, <2>5, <2>6, ArmAnswers
<1>5. QED
  BY <1>3, <1>4 DEF InlineGapsAppend

-----------------------------------------------------------------------------
(* The drain *)

\* PendingGaps::front: nothing is lost between the queue of reports and the one
\* in flight.
LEMMA FrontFacts ==
  ASSUME Shape
  PROVE  /\ InOrder(FrontBacklog) /\ FrontBacklog.buffer = buffer
         /\ FrontGap \in Seq(Reports)
         /\ Holding(FrontBacklog) \cup Covered(FrontGap)
              = Holding(Backlog) \cup Covered(inFlight)
         /\ Once(Backlog) /\ Apart(inFlight) /\ Covered(inFlight) \cap Holding(Backlog) = {}
              => /\ Once(FrontBacklog) /\ Apart(FrontGap)
                 /\ Covered(FrontGap) \cap Holding(FrontBacklog) = {}
         /\ FrontGap = <<>> => queued = <<>> /\ inFlight = <<>>
         /\ ShedReports(FrontBacklog.queued) \subseteq ShedReports(queued)
<1>1. /\ InOrder(Backlog) /\ Backlog.buffer = buffer /\ Backlog.queued = queued
      /\ queued \in Seq(Reports) /\ inFlight \in Seq(Reports)
  BY BacklogInOrder DEF Shape, Types
<1>2. FrontBacklog.buffer = buffer /\ FrontBacklog.queued = RestOfGaps
  BY DEF FrontBacklog
<1>3. CASE inFlight = <<>> /\ queued # <<>>
  <2>1. PICK t : t = Tail(queued)
    OBVIOUS
  <2>2. PICK g : g = queued[1]
    OBVIOUS
  <2>3. FrontGap = <<g>> /\ RestOfGaps = t
    BY <1>3, <2>1, <2>2 DEF FrontGap, RestOfGaps
  <2>4. Len(queued) \in Nat \ {0} /\ DOMAIN queued = 1..Len(queued)
        /\ \A i \in 1..Len(queued) : queued[i] \in Reports
    BY <1>1, <1>3, SequenceFacts, EmptySeq
  <2>5. g \in Reports
    BY <2>2, <2>4
  <2>6. /\ t \in Seq(Reports) /\ Len(t) = Len(queued) - 1
        /\ \A i \in 1..Len(t) : t[i] = queued[i + 1]
    BY <1>1, <1>3, <2>1, HeadTailProperties
  <2>7. DOMAIN t = 1..Len(t)
    BY <2>6, SequenceFacts
  <2>8. \A i \in DOMAIN t : i + 1 \in DOMAIN queued /\ i + 1 # 1 /\ t[i] = queued[i + 1]
    BY <2>4, <2>6, <2>7
  <2>9. \A i \in DOMAIN queued : i = 1 \/ (i - 1 \in DOMAIN t /\ t[i - 1] = queued[i])
    BY <2>4, <2>6, <2>7
  <2>10. Covered(queued) = g.recs \cup Covered(t)
    <3>1. Covered(queued) \subseteq g.recs \cup Covered(t)
      BY <2>2, <2>9 DEF Covered
    <3>2. g.recs \subseteq Covered(queued)
      BY <2>2, <2>4 DEF Covered
    <3>3. Covered(t) \subseteq Covered(queued)
      BY <2>8 DEF Covered
    <3>4. QED
      BY <3>1, <3>2, <3>3
  <2>11. Apart(queued) => Apart(t) /\ g.recs \cap Covered(t) = {}
    <3>1. ASSUME Apart(queued), NEW i \in DOMAIN t, NEW j \in DOMAIN t, i # j
          PROVE  t[i].recs \cap t[j].recs = {}
      <4>1. i + 1 # j + 1
        BY <3>1, <2>6, <2>7
      <4>2. QED
        BY <3>1, <4>1, <2>8 DEF Apart
    <3>2. ASSUME Apart(queued) PROVE g.recs \cap Covered(t) = {}
      BY <3>2, <2>2, <2>4, <2>8 DEF Apart, Covered
    <3>3. QED
      BY <3>1, <3>2 DEF Apart
  <2>12. /\ <<g>> \in Seq(Reports) /\ Covered(<<g>>) = g.recs /\ Apart(<<g>>)
         /\ <<g>> # <<>> /\ Covered(<<>>) = {}
    BY <2>5, OneReport DEF Covered
  <2>13. ShedReports(t) \subseteq ShedReports(queued)
    BY <2>8 DEF ShedReports
  <2>14. InOrder(FrontBacklog)
    BY <1>1, <1>2, <2>3, <2>6 DEF InOrder, Sound
  <2>15. Holding(FrontBacklog) \cup Covered(FrontGap) = Holding(Backlog) \cup Covered(inFlight)
    BY <1>1, <1>2, <1>3, <2>3, <2>10, <2>12 DEF Holding
  <2>16. ASSUME Once(Backlog)
         PROVE  /\ Once(FrontBacklog) /\ Apart(FrontGap)
                /\ Covered(FrontGap) \cap Holding(FrontBacklog) = {}
    BY <1>1, <1>2, <2>3, <2>10, <2>11, <2>12, <2>16 DEF Once, Holding
  <2>17. QED
    BY <1>2, <2>3, <2>12, <2>13, <2>14, <2>15, <2>16
<1>4. CASE ~(inFlight = <<>> /\ queued # <<>>)
  <2>1. FrontGap = inFlight /\ RestOfGaps = queued
    BY <1>4 DEF FrontGap, RestOfGaps
  <2>2. FrontBacklog = Backlog
    BY <2>1 DEF FrontBacklog, Backlog
  <2>3. QED
    BY <1>1, <1>4, <2>1, <2>2
<1>5. QED
  BY <1>3, <1>4

LEMMA GoingOnKeeps ==
  ASSUME IInv, Flushing, UNCHANGED <<mode, sink, restarts>>,
         NEW c, InOrder(c), NEW inflight \in Seq(Reports), PassGoesOn(c, inflight),
         NEW A, NEW R, NEW U, Splits(c, inflight, A, R, U)
  PROVE  IInv'
<1>1. Shape /\ Alive /\ step = "flush" /\ before \in Nat \X Nat /\ hand = {}
  BY DEF IInv, Shape, Types, Flushing, Control
<1>2. /\ buffer' = c.buffer /\ queued' = c.queued /\ inFlight' = inflight
      /\ UNCHANGED <<step, hand, handAge, timerVars, before, diskVars>>
  BY DEF PassGoesOn
<1>3. Lands(c, inflight)
  BY <1>2, StaysLands DEF InOrder
<1>4. Steady
  BY SplitsSteady
<1>5. Shape'
  <2>1. step' \in {"flush", "exit"} /\ (mode = "running" => step' = "flush")
        /\ before' \in Nat \X Nat /\ UNCHANGED <<hand, handAge, timerVars, diskVars>>
    BY <1>1, <1>2
  <2>2. QED
    BY <1>1, <1>3, <1>4, <2>1, PassingKeeps
<1>6. Kept' /\ Exact'
  <2>1. hand' = {}
    BY <1>1, <1>2
  <2>2. QED
    BY <1>1, <1>3, <2>1, SplitsKeeps DEF InOrder
<1>7. QED
  BY <1>5, <1>6 DEF IInv, Shape

LEMMA EndingKeeps ==
  ASSUME IInv, Flushing, UNCHANGED <<mode, sink, restarts>>,
         NEW c, InOrder(c), NEW inflight \in Seq(Reports), NEW paced,
         PassEnds(c, inflight, paced), paced => Holding(c) \cup Covered(inflight) # {},
         NEW A, NEW R, NEW U, Splits(c, inflight, A, R, U)
  PROVE  IInv'
<1>1. Shape /\ Alive /\ hand = {}
  BY DEF IInv, Shape, Flushing, Control
<1>2. PassDone(c, inflight, paced)
  BY PassEndsLands DEF InOrder
<1>3. Lands(c, inflight) /\ hand' = {}
  BY <1>1, <1>2 DEF PassDone, Resting
<1>4. Steady
  BY SplitsSteady
<1>5. Shape'
  BY <1>1, <1>2, <1>4, PassDoneKeeps
<1>6. Kept' /\ Exact'
  BY <1>1, <1>3, SplitsKeeps DEF InOrder
<1>7. QED
  BY <1>5, <1>6 DEF IInv, Shape

\* The facts about the memory that every step of a pass starts from.
LEMMA FlushFacts ==
  ASSUME IInv, Flushing
  PROVE  /\ Shape /\ hand = {} /\ InMemory = Holding(Backlog) \cup Covered(inFlight)
         /\ OnceInMemory => /\ Once(Backlog) /\ Apart(inFlight)
                            /\ Covered(inFlight) \cap Holding(Backlog) = {}
         /\ InOrder(Backlog) /\ inFlight \in Seq(Reports)
         /\ <<>> \in Seq(Reports) /\ Covered(<<>>) = {} /\ Apart(<<>>)
<1>1. Shape /\ hand = {} /\ inFlight \in Seq(Reports)
  BY DEF IInv, Shape, Flushing, Control, Types
<1>2. InOrder(Backlog) /\ Backlog = Both(buffer, queued)
  BY <1>1, BacklogInOrder
<1>3. <<>> \in Seq(Reports) /\ Covered(<<>>) = {} /\ Apart(<<>>)
  BY DEF Covered, Apart
<1>4. QED
  BY <1>1, <1>2, <1>3, MemoryIs DEF OnceInMemory

LEMMA FlushGapKeeps ==
  ASSUME IInv, FlushGap
  PROVE  IInv'
<1>1. Flushing /\ FrontGap # <<>> /\ UNCHANGED <<mode, pending, sink, restarts, acked, perished>>
  BY DEF FlushGap
<1>2. /\ Shape /\ InMemory = Holding(Backlog) \cup Covered(inFlight)
      /\ OnceInMemory => /\ Once(Backlog) /\ Apart(inFlight)
                         /\ Covered(inFlight) \cap Holding(Backlog) = {}
      /\ <<>> \in Seq(Reports) /\ Covered(<<>>) = {} /\ Apart(<<>>)
  BY <1>1, FlushFacts
<1>3. PICK c : c = FrontBacklog
  OBVIOUS
<1>4. PICK f : f = FrontGap
  OBVIOUS
<1>5. /\ InOrder(c) /\ f \in Seq(Reports)
      /\ Holding(c) \cup Covered(f) = InMemory
      /\ OnceInMemory => Once(c) /\ Apart(f) /\ Covered(f) \cap Holding(c) = {}
  BY <1>2, <1>3, <1>4, FrontFacts
<1>6. CASE /\ reported' = reported \cup Covered(f) /\ PassGoesOn(c, <<>>)
           /\ UNCHANGED unreported
  <2>1. Splits(c, <<>>, {}, Covered(f), {})
    BY <1>1, <1>2, <1>5, <1>6 DEF Splits
  <2>2. QED
    BY <1>1, <1>2, <1>5, <1>6, <2>1, GoingOnKeeps
<1>7. CASE PassEnds(c, f, FALSE) /\ UNCHANGED <<reported, unreported>>
  <2>1. Splits(c, f, {}, {}, {})
    BY <1>1, <1>2, <1>5, <1>7 DEF Splits
  <2>2. QED
    BY <1>1, <1>5, <1>7, <2>1, EndingKeeps
<1>8. CASE /\ unreported' = unreported \cup Covered(f) /\ PassGoesOn(c, <<>>)
           /\ UNCHANGED reported
  <2>1. Splits(c, <<>>, {}, {}, Covered(f))
    BY <1>1, <1>2, <1>5, <1>8 DEF Splits
  <2>2. QED
    BY <1>1, <1>2, <1>5, <1>8, <2>1, GoingOnKeeps
<1>9. QED
  BY <1>3, <1>4, <1>6, <1>7, <1>8 DEF FlushGap

LEMMA FlushBatchKeeps ==
  ASSUME IInv, FlushBatch
  PROVE  IInv'
<1>1. /\ Flushing /\ FrontGap = <<>> /\ buffer # <<>>
      /\ UNCHANGED <<mode, pending, sink, restarts, reported, unreported, perished>>
  BY DEF FlushBatch
<1>2. /\ Shape /\ InMemory = Holding(Backlog) \cup Covered(inFlight)
      /\ OnceInMemory => /\ Once(Backlog) /\ Apart(inFlight)
                         /\ Covered(inFlight) \cap Holding(Backlog) = {}
      /\ InOrder(Backlog) /\ inFlight \in Seq(Reports)
      /\ Covered(<<>>) = {} /\ Apart(<<>>)
  BY <1>1, FlushFacts
<1>3. Backlog.buffer = buffer /\ Backlog.queued = queued
  BY <1>2, BacklogInOrder
<1>4. queued = <<>> /\ inFlight = <<>>
  BY <1>1, <1>2, FrontFacts
<1>5. buffer \in Seq(Buffered)
  BY <1>2 DEF Shape, Types, Pure
<1>6. PICK first : first = Head(buffer).recs
  OBVIOUS
<1>7. PICK rest : rest = Tail(buffer)
  OBVIOUS
<1>8. /\ Part(rest, buffer) /\ RecsIn(buffer) = first \cup RecsIn(rest)
      /\ Apart(buffer) => first \cap RecsIn(rest) = {}
  BY <1>1, <1>5, <1>6, <1>7, TailIsPart
<1>9. first \in SUBSET Recs
  BY <1>2, <1>8, RecsOfBuffer DEF Shape, Types
<1>10. PICK b : b = Both(rest, queued)
  OBVIOUS
<1>11. b.buffer = rest /\ b.queued = queued
  BY <1>10, BothFields
<1>12. InOrder(b)
  BY <1>2, <1>3, <1>8, <1>11, PartKeeps, PartFits DEF InOrder, Sound
<1>13. Holding(b) = RecsIn(rest) /\ Holding(Backlog) = first \cup RecsIn(rest)
  BY <1>2, <1>3, <1>4, <1>8, <1>11 DEF Holding
<1>14. Once(Backlog) => Once(b) /\ first \cap Holding(b) = {}
  BY <1>2, <1>3, <1>4, <1>8, <1>11, <1>13, PartKeeps DEF Once
<1>15. CASE /\ acked' = acked \cup Head(buffer).recs
            /\ PassGoesOn([buffer |-> Tail(buffer), queued |-> queued], inFlight)
  <2>1. [buffer |-> Tail(buffer), queued |-> queued] = b
    BY <1>7, <1>10 DEF Both
  <2>2. Splits(b, inFlight, first, {}, {})
    BY <1>1, <1>2, <1>4, <1>6, <1>13, <1>14, <1>15 DEF Splits
  <2>3. QED
    BY <1>1, <1>2, <1>12, <1>15, <2>1, <2>2, GoingOnKeeps
<1>16. CASE PassEnds(Backlog, inFlight, FALSE) /\ UNCHANGED acked
  <2>1. Splits(Backlog, inFlight, {}, {}, {})
    BY <1>1, <1>2, <1>16 DEF Splits
  <2>2. QED
    BY <1>1, <1>2, <1>16, <2>1, EndingKeeps
<1>17. CASE /\ PassEnds([buffer |-> Tail(buffer),
                         queued |-> merge_by_cause(queued, "sink_rejected", Head(buffer).recs)],
                        inFlight, FALSE)
            /\ UNCHANGED acked
  <2>1. PICK c : c = [buffer |-> Tail(buffer),
                      queued |-> merge_by_cause(queued, "sink_rejected", Head(buffer).recs)]
    OBVIOUS
  <2>2. c.buffer = b.buffer /\ c.queued = merge_by_cause(b.queued, "sink_rejected", first)
    BY <2>1, <1>6, <1>7, <1>11
  <2>3. /\ InOrder(c) /\ Holding(c) = Holding(b) \cup first
        /\ Once(b) /\ first \cap Holding(b) = {} => Once(c)
    BY <1>9, <1>12, <2>2, ReportInOrder
  <2>4. Splits(c, inFlight, {}, {}, {})
    BY <1>1, <1>2, <1>4, <1>13, <1>14, <1>17, <2>3 DEF Splits
  <2>5. QED
    BY <1>1, <1>2, <1>17, <2>1, <2>3, <2>4, EndingKeeps
<1>18. QED
  BY <1>15, <1>16, <1>17 DEF FlushBatch

LEMMA FlushPacedKeeps ==
  ASSUME IInv, FlushPaced
  PROVE  IInv'
<1>1. /\ Flushing /\ (FrontGap # <<>> \/ buffer # <<>>)
      /\ PassEnds(FrontBacklog, FrontGap, TRUE)
      /\ UNCHANGED <<mode, pending, sink, restarts, acked, reported, unreported, perished>>
  BY DEF FlushPaced, outVars
<1>2. /\ Shape /\ InMemory = Holding(Backlog) \cup Covered(inFlight)
      /\ OnceInMemory => /\ Once(Backlog) /\ Apart(inFlight)
                         /\ Covered(inFlight) \cap Holding(Backlog) = {}
  BY <1>1, FlushFacts
<1>3. PICK c : c = FrontBacklog
  OBVIOUS
<1>4. PICK f : f = FrontGap
  OBVIOUS
<1>5. /\ InOrder(c) /\ c.buffer = buffer /\ f \in Seq(Reports)
      /\ Holding(c) \cup Covered(f) = InMemory
      /\ OnceInMemory => Once(c) /\ Apart(f) /\ Covered(f) \cap Holding(c) = {}
  BY <1>2, <1>3, <1>4, FrontFacts
<1>6. Holding(c) \cup Covered(f) # {}
  BY <1>1, <1>4, <1>5, RecsOfBuffer, RecsOfReports DEF Holding, InOrder, Sound
<1>7. Splits(c, f, {}, {}, {})
  BY <1>1, <1>5 DEF Splits
<1>8. QED
  BY <1>1, <1>3, <1>4, <1>5, <1>6, <1>7, EndingKeeps

LEMMA FlushEmptyKeeps ==
  ASSUME IInv, FlushEmpty
  PROVE  IInv'
<1>1. /\ Flushing /\ PassEnds(Backlog, inFlight, FALSE)
      /\ UNCHANGED <<mode, pending, sink, restarts, acked, reported, unreported, perished>>
  BY DEF FlushEmpty, outVars
<1>2. /\ Shape /\ InMemory = Holding(Backlog) \cup Covered(inFlight)
      /\ OnceInMemory => /\ Once(Backlog) /\ Apart(inFlight)
                         /\ Covered(inFlight) \cap Holding(Backlog) = {}
      /\ InOrder(Backlog) /\ inFlight \in Seq(Reports)
  BY <1>1, FlushFacts
<1>3. Splits(Backlog, inFlight, {}, {}, {})
  BY <1>1, <1>2 DEF Splits
<1>4. QED
  BY <1>1, <1>2, <1>3, EndingKeeps

LEMMA TimerFiresKeeps ==
  ASSUME IInv, TimerFires
  PROVE  IInv'
<1>1. PICK b : b = Expire(Backlog)
  OBVIOUS
<1>2. /\ Selecting /\ buffer' = b.buffer /\ queued' = b.queued
      /\ before' = backlog_len(b, inFlight) /\ step' = "flush"
      /\ UNCHANGED <<mode, pending, hand, handAge, inFlight, timerVars, diskVars,
                     sink, restarts, outVars>>
  BY <1>1 DEF TimerFires
<1> USE DEF Selecting, timerVars, diskVars, outVars
<1>3. /\ Shape /\ Types /\ Control /\ Filed /\ mode = "running" /\ hand = {} /\ Alive
      /\ inFlight \in Seq(Reports)
  BY <1>2 DEF IInv, Shape, Types, Control, Alive
<1>4. InOrder(Backlog) /\ Backlog = Both(buffer, queued)
  BY <1>3, BacklogInOrder
<1>5. InOrder(b) /\ Holding(b) = Holding(Backlog) /\ (Once(Backlog) => Once(b))
  BY <1>1, <1>4, ExpireInOrder
<1>6. Lands(b, inFlight)
  BY <1>2, <1>5, StaysLands DEF InOrder
<1>7. /\ Pure(buffer') /\ queued' \in Seq(Reports)
      /\ WithinLimits(buffer') /\ Sorted(buffer')
  BY <1>5, <1>6, LandsKeeps
<1>8. before' \in Nat \X Nat
  <2>1. Len(b.buffer) \in Nat /\ Len(b.queued) \in Nat
    BY <1>5, SequenceFacts DEF InOrder, Sound, Pure
  <2>2. QED
    BY <1>2, <2>1, BacklogCounts
<1>9. Types'
  BY <1>2, <1>3, <1>7, <1>8 DEF Types
<1>10. Control'
  BY <1>2, <1>3 DEF Control, Alive
<1>11. Timer'
  BY <1>2 DEF Timer
<1>12. Limits'
  BY <1>7 DEF Limits
<1>13. Filed'
  BY <1>2, <1>3 DEF Filed, SpoolMirrorsBuffer
<1>14. Splits(b, inFlight, {}, {}, {})
  BY <1>2, <1>3, <1>4, <1>5, MemoryIs DEF Splits, OnceInMemory
<1>15. Kept' /\ Exact'
  <2>1. hand' = {} /\ UNCHANGED <<mode, restarts>> /\ Sound(b)
    BY <1>2, <1>3, <1>5 DEF InOrder
  <2>2. QED
    BY <1>3, <1>6, <1>14, <2>1, SplitsKeeps
<1>16. QED
  BY <1>9, <1>10, <1>11, <1>12, <1>13, <1>15 DEF IInv

-----------------------------------------------------------------------------
(* Shutdown, kill and the environment *)

LEMMA QueueClosedKeeps ==
  ASSUME IInv, QueueClosed
  PROVE  IInv'
<1>1. /\ Selecting /\ mode' = "draining" /\ step' \in {"flush", "exit"}
      /\ before' = backlog_len(Backlog, inFlight)
      /\ UNCHANGED <<pending, hand, handAge, buffer, gapVars, timerVars, diskVars,
                     sink, restarts, outVars>>
  BY DEF QueueClosed
<1> USE DEF Selecting, gapVars, timerVars, diskVars, outVars
<1>2. Shape /\ Types /\ Control /\ Limits /\ Filed /\ Kept /\ Exact
  BY DEF IInv, Shape
<1>3. before' \in Nat \X Nat
  <2>1. Len(Backlog.buffer) \in Nat /\ Len(Backlog.queued) \in Nat
    BY <1>2, BacklogInOrder, SequenceFacts DEF InOrder, Sound, Pure
  <2>2. QED
    BY <1>1, <2>1, BacklogCounts
<1>4. Types'
  BY <1>1, <1>2, <1>3 DEF Types
<1>5. Control'
  BY <1>1, <1>2 DEF Control, Alive
<1>6. Timer'
  BY <1>1 DEF Timer
<1>7. Limits'
  BY <1>1, <1>2 DEF Limits
<1>8. Filed'
  BY <1>1, <1>2 DEF Filed, SpoolMirrorsBuffer
<1>9. /\ InMemory' = InMemory /\ Answered' = Answered /\ Taken' = Taken
      /\ OnceInMemory' = OnceInMemory /\ OnceAnswered' = OnceAnswered /\ Alive /\ Alive'
  BY <1>1 DEF InMemory, Answered, Taken, OnceInMemory, OnceAnswered, Alive
<1>10. Kept' /\ Exact'
  BY <1>1, <1>2, <1>9 DEF Kept, Exact
<1>11. QED
  BY <1>4, <1>5, <1>6, <1>7, <1>8, <1>10 DEF IInv

\* A process that ends leaves the file, and nothing else.
LEMMA EndOfProcess ==
  ASSUME IInv, Alive, Forget, mode' \in {"exited", "killed"},
         perished' = perished \cup (InMemory \ InFile'),
         UNCHANGED <<pending, sink, restarts, acked, reported, unreported>>,
         file' \in Seq(SUBSET Recs), spool' \in {"off", "on", "disabled"},
         spool' = "on" => SpoolConfigured,
         \E buf : Pure(buf) /\ WithinLimits(buf) /\ file' = Frames(buf)
  PROVE  IInv'
<1> USE DEF Forget
<1>1. Types /\ Kept
  BY DEF IInv
<1>2. /\ Pure(<<>>) /\ WithinLimits(<<>>) /\ Sorted(<<>>) /\ <<>> \in Seq(Reports)
      /\ <<0, 0>> \in Nat \X Nat /\ 0 \in 0..MaxAge + 1 /\ 0 \in 0..MaxDelay
  BY EmptyFits, Delays, RetryBufferAssumption DEF Pure, Sorted
<1>3. perished' \subseteq Recs
  BY <1>1, MemoryType DEF Types
<1>4. Types'
  BY <1>1, <1>2, <1>3 DEF Types
<1>5. ~Alive' /\ mode' # "running"
  BY DEF Alive
<1>6. Control'
  BY <1>5 DEF Control
<1>7. Timer'
  BY <1>5 DEF Timer, Selecting
<1>8. Limits'
  BY <1>2 DEF Limits
<1>9. Filed'
  BY <1>5 DEF Filed, SpoolMirrorsBuffer
<1>10. Kept'
  <2>1. Taken' = Taken /\ Answered' = Answered \cup (InMemory \ InFile')
    BY DEF Taken, Answered
  <2>2. Taken \subseteq InMemory \cup Answered
    BY <1>1 DEF Kept
  <2>3. QED
    BY <1>5, <2>1, <2>2 DEF Kept
<1>11. Exact'
  BY <1>5 DEF Exact
<1>12. QED
  BY <1>4, <1>6, <1>7, <1>8, <1>9, <1>10, <1>11 DEF IInv

LEMMA ExitKeeps ==
  ASSUME IInv, Exit
  PROVE  IInv'
<1>1. Types /\ Filed /\ Pure(buffer) /\ WithinLimits(buffer) /\ Alive
  BY DEF IInv, Types, Limits, Exit, Alive
<1>2. Synced(buffer)
  BY <1>1, SyncKeeps DEF Exit
<1>3. perished' = perished \cup (InMemory \ InFile')
  BY DEF Exit, InFile
<1>4. QED
  BY <1>1, <1>2, <1>3, EndOfProcess DEF Exit, Synced

LEMMA CrashKeeps ==
  ASSUME IInv, Crash
  PROVE  IInv'
<1>1. Types /\ Filed
  BY DEF IInv
<1>2. /\ file' \in Seq(SUBSET Recs) /\ spool' \in {"off", "on", "disabled"}
      /\ spool' = "on" => SpoolConfigured
      /\ \E buf : Pure(buf) /\ WithinLimits(buf) /\ file' = Frames(buf)
  BY <1>1 DEF Crash, diskVars, Types, Filed
<1>3. perished' = perished \cup (InMemory \ InFile')
  BY DEF Crash, InFile, diskVars
<1>4. QED
  BY <1>2, <1>3, EndOfProcess DEF Crash

LEMMA TickKeeps ==
  ASSUME IInv, Tick
  PROVE  IInv'
<1> USE DEF gapVars, diskVars, outVars
<1>1. Types /\ Control /\ Timer /\ Limits /\ Filed /\ Kept /\ Exact
  BY DEF IInv
<1>2. /\ Alive /\ buffer' = Aged(buffer)
      /\ handAge' = IF step = "inline" THEN Older(handAge) ELSE handAge
      /\ nextRetry' = IF nextRetry \in {None, 0} THEN nextRetry ELSE nextRetry - 1
      /\ UNCHANGED <<mode, step, pending, hand, gapVars, attempt, before, diskVars,
                     sink, restarts, outVars>>
  BY DEF Tick
<1>3. /\ Pure(Aged(buffer)) /\ RecsIn(Aged(buffer)) = RecsIn(buffer)
      /\ Len(Aged(buffer)) = Len(buffer) /\ DOMAIN Aged(buffer) = DOMAIN buffer
      /\ \A i \in DOMAIN buffer : Aged(buffer)[i].recs = buffer[i].recs
      /\ Apart(buffer) => Apart(Aged(buffer))
      /\ Sorted(buffer) => Sorted(Aged(buffer))
  BY <1>1, AgedKeeps DEF Types
<1>4. buffer' = <<>> <=> buffer = <<>>
  BY <1>1, <1>2, <1>3, RecsOfBuffer DEF Types
<1>5. handAge' \in 0..MaxAge + 1
  BY <1>1, <1>2, RetryBufferAssumption DEF Types, Older
<1>6. nextRetry' \in Nat \cup {None} /\ (nextRetry' = None <=> nextRetry = None)
  BY <1>1, <1>2, Delays DEF Types
<1>7. Types'
  BY <1>1, <1>2, <1>3, <1>5, <1>6 DEF Types
<1>8. Control'
  BY <1>1, <1>2, <1>4, <1>6 DEF Control, Alive
<1>9. has_backlog(Both(buffer', queued'), inFlight') = has_backlog(Both(buffer, queued), inFlight)
  BY <1>2, <1>4, BothFields DEF has_backlog
<1>10. Timer'
  BY <1>1, <1>2, <1>6, <1>9 DEF Timer, Selecting
<1>11. Limits'
  <2>1. len_records(buffer') = len_records(buffer) /\ len_bytes(buffer') = len_bytes(buffer)
    BY <1>2, <1>3 DEF len_records, len_bytes
  <2>2. QED
    BY <1>1, <1>2, <1>3, <2>1 DEF Limits, WithinLimits
<1>12. Filed'
  <2>1. Frames(Aged(buffer)) = Frames(buffer)
    BY <1>3 DEF Frames
  <2>2. QED
    BY <1>1, <1>2, <2>1 DEF Filed, SpoolMirrorsBuffer, Alive
<1>13. InMemory' = InMemory /\ Answered' = Answered /\ Taken' = Taken /\ Alive'
  BY <1>2, <1>3 DEF InMemory, Answered, Taken, Alive
<1>14. OnceInMemory => OnceInMemory'
  BY <1>2, <1>3, BothFields DEF OnceInMemory, Once, Holding
<1>15. OnceAnswered => OnceAnswered'
  BY <1>2, <1>13 DEF OnceAnswered
<1>16. Kept' /\ Exact'
  BY <1>1, <1>2, <1>13, <1>14, <1>15 DEF Kept, Exact
<1>17. QED
  BY <1>7, <1>8, <1>10, <1>11, <1>12, <1>16 DEF IInv

\* The sink changes, or nothing does.
LEMMA StutterKeeps ==
  ASSUME IInv, SinkChanges \/ UNCHANGED vars
  PROVE  IInv'
<1>1. /\ sink' \in SinkStates
      /\ UNCHANGED <<mode, step, pending, hand, handAge, buffer, inFlight, queued,
                     nextRetry, attempt, before, file, spool, restarts,
                     acked, reported, unreported, perished>>
  BY DEF SinkChanges, vars, gapVars, timerVars, diskVars, outVars, IInv, Types
<1>2. Types'
  BY <1>1 DEF IInv, Types
<1>3. Control' /\ Timer' /\ Limits' /\ Filed'
  BY <1>1 DEF IInv, Control, Timer, Limits, Filed, Alive, Selecting, SpoolMirrorsBuffer
<1>4. InMemory' = InMemory /\ Answered' = Answered /\ Taken' = Taken /\ InFile' = InFile
      /\ Alive' = Alive /\ OnceInMemory' = OnceInMemory /\ OnceAnswered' = OnceAnswered
  BY <1>1 DEF InMemory, Answered, Taken, InFile, Alive, OnceInMemory, OnceAnswered
<1>5. Kept' /\ Exact'
  BY <1>1, <1>4 DEF IInv, Kept, Exact
<1>6. QED
  BY <1>2, <1>3, <1>5 DEF IInv

-----------------------------------------------------------------------------
(* The replay *)

\* Records of one class are one batch.
LEMMA SplitOfOneClass ==
  ASSUME NEW recs \in SUBSET Recs, recs # {}, NEW class \in Classes, NEW age,
         \A r \in recs : ClassOf[r] = class
  PROVE  Len(split_by_class(recs, age)) = 1
<1> DEFINE part(k) == IF OfClass(recs, k) = {} THEN <<>>
                      ELSE <<[recs |-> OfClass(recs, k), class |-> k, age |-> age]>>
<1>1. split_by_class(recs, age) = part("reliability") \o part("attribution")
  BY DEF split_by_class
<1>2. CASE class = "reliability"
  <2>1. OfClass(recs, "attribution") = {} /\ OfClass(recs, "reliability") # {}
    BY <1>2 DEF OfClass
  <2>2. PICK b : part("reliability") = <<b>> /\ part("attribution") = <<>>
    BY <2>1
  <2> HIDE DEF part
  <2>3. QED
    BY <1>1, <2>2
<1>3. CASE class = "attribution"
  <2>1. OfClass(recs, "reliability") = {} /\ OfClass(recs, "attribution") # {}
    BY <1>3 DEF OfClass
  <2>2. PICK b : part("attribution") = <<b>> /\ part("reliability") = <<>>
    BY <2>1
  <2> HIDE DEF part
  <2>3. QED
    BY <1>1, <2>2
<1>4. QED
  BY <1>2, <1>3 DEF Classes

\* Replays is the function its definition writes down.
LEMMA ReplaysUnfold ==
  ASSUME NEW frames, Len(frames) \in Nat
  PROVE  Replays(frames) =
           [k \in 0..Len(frames) |-> IF k = 0 THEN [buffer |-> <<>>, queued |-> <<>>]
              ELSE Enqueue(Replays(frames)[k - 1], frames[k], 0)]
<1> DEFINE start == [buffer |-> <<>>, queued |-> <<>>]
           After(g, n) ==
             [k \in 0..n |-> IF k = 0 THEN start ELSE Enqueue(g[k - 1], frames[k], 0)]
           S == {n \in Nat : \E g : g = After(g, n)}
<1>5. Replays(frames) = CHOOSE g : g = After(g, Len(frames))
  BY DEF Replays
<1> HIDE DEF start
<1>2. 0 \in S
  <2>1. [k \in 0..0 |-> start] = After([k \in 0..0 |-> start], 0)
    OBVIOUS
  <2>2. QED
    BY <2>1
<1>3. ASSUME NEW n \in Nat, n \in S PROVE n + 1 \in S
  <2>1. PICK g : g = After(g, n)
    BY <1>3
  <2> DEFINE h == [k \in 0..n + 1 |-> IF k <= n THEN g[k] ELSE Enqueue(g[n], frames[n + 1], 0)]
  <2>2. ASSUME NEW k \in 0..n + 1
        PROVE  h[k] = IF k = 0 THEN start ELSE Enqueue(h[k - 1], frames[k], 0)
    <3>1. CASE k = 0
      BY <3>1, <2>1
    <3>2. CASE k \in 1..n
      <4>1. h[k] = g[k] /\ h[k - 1] = g[k - 1] /\ k # 0
        BY <3>2
      <4>2. g[k] = Enqueue(g[k - 1], frames[k], 0)
        BY <2>1, <3>2
      <4>3. QED
        BY <4>1, <4>2
    <3>3. CASE k = n + 1
      <4>1. h[k] = Enqueue(g[n], frames[k], 0) /\ k - 1 = n /\ h[n] = g[n] /\ k # 0
        BY <3>3
      <4>2. QED
        BY <4>1
    <3>4. QED
      BY <3>1, <3>2, <3>3
  <2>3. h = After(h, n + 1)
    <3>1. h = [k \in 0..n + 1 |-> h[k]]
      OBVIOUS
    <3> HIDE DEF h
    <3>2. QED
      BY <2>2, <3>1
  <2>4. \E x : x = After(x, n + 1)
    <3> HIDE DEF h, After
    <3>1. QED
      BY <2>3
  <2>5. QED
    <3> HIDE DEF After
    <3>1. QED
      BY <2>4
<1>4. \E g : g = After(g, Len(frames))
  <2> HIDE DEF After
  <2>1. Nat \subseteq S
    <3> HIDE DEF S
    <3>1. QED
      BY <1>2, <1>3, NatSetInduction
  <2>2. QED
    BY <2>1
<1>6. QED
  BY <1>4, <1>5 DEF start

\* The records of the first k frames.
FirstFrames(frames, k) == UNION {frames[i] : i \in 1..k}

\* b is what the first k frames replay to: one batch each, nothing shed.
Replayed(frames, k, b) ==
  /\ InOrder(b) /\ b.queued = <<>>
  /\ Len(b.buffer) = k /\ RecsIn(b.buffer) = FirstFrames(frames, k)

\* One more frame of a file that was written from a buffer.
LEMMA ReplayOne ==
  ASSUME NEW buf, Pure(buf), WithinLimits(buf), NEW k \in Nat, k + 1 <= Len(buf),
         NEW b, Replayed(Frames(buf), k, b)
  PROVE  Replayed(Frames(buf), k + 1, Enqueue(b, Frames(buf)[k + 1], 0))
<1>1. PICK frames : frames = Frames(buf)
  OBVIOUS
<1>2. /\ Len(buf) \in Nat /\ DOMAIN buf = 1..Len(buf)
      /\ \A i \in 1..Len(buf) : buf[i] \in Buffered /\ buf[i].recs # {}
           /\ \A r \in buf[i].recs : ClassOf[r] = buf[i].class
  BY SequenceFacts DEF Pure
<1>3. k + 1 \in 1..Len(buf) /\ 0 \in 0..MaxAge + 1
  BY <1>2, RetryBufferAssumption
<1>4. PICK recs : recs = buf[k + 1].recs
  OBVIOUS
<1>5. /\ recs \in SUBSET Recs /\ recs # {} /\ buf[k + 1].class \in Classes
      /\ \A r \in recs : ClassOf[r] = buf[k + 1].class
  BY <1>2, <1>3, <1>4 DEF Buffered
<1>6. \A i \in 1..Len(buf) : frames[i] = buf[i].recs
  BY <1>1, <1>2 DEF Frames
<1>7. PICK p : p = split_by_class(recs, 0)
  OBVIOUS
<1>8. Len(p) = 1
  BY <1>5, <1>7, SplitOfOneClass
<1>9. Pure(p) /\ RecsIn(p) = recs
  BY <1>3, <1>5, <1>7, SplitKeeps
<1>10. /\ InOrder(b) /\ b.queued = <<>> /\ Len(b.buffer) = k
       /\ RecsIn(b.buffer) = FirstFrames(frames, k) /\ Pure(b.buffer)
  BY <1>1 DEF Replayed, InOrder, Sound
<1>11. PICK u : u = b.buffer \o p
  OBVIOUS
<1>12. /\ Pure(u) /\ RecsIn(u) = RecsIn(b.buffer) \cup recs /\ Len(u) = k + 1
  <2>1. b.buffer \in Seq(Buffered) /\ p \in Seq(Buffered)
    BY <1>9, <1>10 DEF Pure
  <2>2. Len(b.buffer \o p) = Len(b.buffer) + Len(p)
    BY <2>1, ConcatProperties
  <2>3. QED
    BY <1>8, <1>9, <1>10, <1>11, <2>2, JoinKeeps
<1>13. RecsIn(u) = FirstFrames(frames, k + 1)
  <2>1. frames[k + 1] = recs
    BY <1>3, <1>4, <1>6
  <2>2. 1..k + 1 = (1..k) \cup {k + 1}
    OBVIOUS
  <2>3. FirstFrames(frames, k + 1) = FirstFrames(frames, k) \cup frames[k + 1]
    BY <2>2 DEF FirstFrames
  <2>4. QED
    BY <1>10, <1>12, <2>1, <2>3
<1>14. WithinLimits(u)
  <2>1. RecsIn(u) \subseteq RecsIn(buf)
    <3>1. \A i \in 1..k + 1 : i \in DOMAIN buf /\ frames[i] = buf[i].recs
      BY <1>2, <1>3, <1>6
    <3>2. FirstFrames(frames, k + 1) \subseteq RecsIn(buf)
      BY <3>1 DEF FirstFrames, RecsIn
    <3>3. QED
      BY <1>13, <3>2
  <2>2. /\ len_records(u) \in Nat /\ len_records(buf) \in Nat
        /\ len_records(u) <= len_records(buf)
        /\ len_bytes(u) \in Nat /\ len_bytes(buf) \in Nat /\ len_bytes(u) <= len_bytes(buf)
    BY <2>1, RecsOfBuffer, LimitsMonotone DEF len_records, len_bytes
  <2>3. MaxRecords \in Nat /\ MaxBatches \in Nat /\ MaxBytes \in Nat
    BY RetryBufferAssumption
  <2>4. QED
    BY <1>2, <1>12, <2>2, <2>3 DEF WithinLimits
<1>15. PICK c : c = Enqueue(b, recs, 0)
  OBVIOUS
<1>16. enqueue(b.buffer, recs, 0) = u
  BY <1>3, <1>5, <1>7, <1>10, <1>11, <1>14, EnqueueKeeps DEF Enqueued
<1>17. c.buffer = u /\ c.queued = <<>>
  <2>1. (RecsIn(b.buffer) \cup recs) \ RecsIn(u) = {}
    BY <1>12
  <2>2. merge_by_cause(<<>>, "retry_buffer_overflow", {}) = <<>>
    BY DEF merge_by_cause
  <2>3. c = [buffer |-> u, queued |-> merge_by_cause(b.queued, "retry_buffer_overflow",
                                        (RecsIn(b.buffer) \cup recs) \ RecsIn(u))]
    BY <1>15, <1>16 DEF Enqueue, Reduced
  <2>4. QED
    BY <1>10, <2>1, <2>2, <2>3
<1>18. InOrder(c)
  <2>1. \A i \in DOMAIN b.buffer : b.buffer[i].age >= 0
    <3>1. PICK s \in Seq(Buffered) : s = b.buffer
      BY <1>10 DEF Pure
    <3>2. \A i \in DOMAIN s : s[i] \in Buffered
      BY <3>1, SequenceFacts
    <3>3. \A i \in DOMAIN s : s[i].age \in 0..MaxAge + 1
      BY <3>2 DEF Buffered
    <3>4. MaxAge \in Nat
      BY RetryBufferAssumption
    <3>5. \A i \in DOMAIN s : s[i].age >= 0
      BY <3>3, <3>4
    <3>6. QED
      BY <3>1, <3>5
  <2>2. QED
    BY <1>3, <1>5, <1>10, <1>15, <2>1, EnqueueInOrder
<1>19. Replayed(frames, k + 1, c)
  BY <1>12, <1>13, <1>17, <1>18 DEF Replayed
<1>20. frames[k + 1] = recs
  BY <1>3, <1>4, <1>6
<1>21. QED
  BY <1>1, <1>15, <1>19, <1>20

LEMMA ReplayKeeps ==
  ASSUME NEW buf, Pure(buf), WithinLimits(buf)
  PROVE  LET frames == Frames(buf)
         IN  /\ Len(frames) = Len(buf) /\ DOMAIN frames = 1..Len(buf)
             /\ Replayed(frames, Len(buf), Replays(frames)[Len(frames)])
<1> DEFINE frames == Frames(buf)
           after == Replays(frames)
           S == {n \in Nat : n <= Len(buf) => Replayed(frames, n, after[n])}
<1>1. Len(buf) \in Nat /\ DOMAIN buf = 1..Len(buf)
  BY SequenceFacts DEF Pure
<1>2. DOMAIN frames = 1..Len(buf) /\ frames \in Seq(SUBSET Recs)
  BY <1>1, FramesType DEF Frames
<1>3. Len(frames) = Len(buf)
  <2>1. DOMAIN frames = 1..Len(frames) /\ Len(frames) \in Nat
    BY <1>2, SequenceFacts
  <2>2. QED
    BY <1>1, <1>2, <2>1
<1> HIDE DEF frames
<1>4. after = [k \in 0..Len(buf) |-> IF k = 0 THEN [buffer |-> <<>>, queued |-> <<>>]
                 ELSE Enqueue(after[k - 1], frames[k], 0)]
  BY <1>1, <1>3, ReplaysUnfold
<1> HIDE DEF after
<1>5. 0 \in S
  <2>1. after[0] = [buffer |-> <<>>, queued |-> <<>>]
    BY <1>1, <1>4
  <2>2. after[0].buffer = <<>> /\ after[0].queued = <<>>
    BY <2>1
  <2>3. /\ Pure(<<>>) /\ WithinLimits(<<>>) /\ Sorted(<<>>) /\ <<>> \in Seq(Reports)
        /\ RecsIn(<<>>) = {} /\ Len(<<>>) = 0 /\ FirstFrames(frames, 0) = {}
    BY EmptyFits DEF Pure, Sorted, RecsIn, FirstFrames
  <2>4. Replayed(frames, 0, after[0])
    BY <2>2, <2>3 DEF Replayed, InOrder, Sound
  <2>5. QED
    BY <2>4
<1>6. ASSUME NEW n \in Nat, n \in S PROVE n + 1 \in S
  <2> SUFFICES ASSUME n + 1 <= Len(buf) PROVE Replayed(frames, n + 1, after[n + 1])
    OBVIOUS
  <2>1. Replayed(frames, n, after[n])
    BY <1>1, <1>6
  <2>2. after[n + 1] = Enqueue(after[n], frames[n + 1], 0)
    BY <1>1, <1>4
  <2>3. QED
    BY <2>1, <2>2, ReplayOne DEF frames
<1>7. Nat \subseteq S
  <2> HIDE DEF S
  <2>1. QED
    BY <1>5, <1>6, NatSetInduction
<1>8. Replayed(frames, Len(buf), after[Len(buf)])
  BY <1>1, <1>7
<1>9. QED
  BY <1>2, <1>3, <1>8 DEF frames, after

LEMMA RestartKeeps ==
  ASSUME IInv, Restart
  PROVE  IInv' /\ RecsIn(buffer') = InFile /\ queued' = <<>>
<1> USE DEF timerVars, diskVars, outVars
<1>1. Types /\ Control /\ Filed /\ Kept /\ ~Alive
  BY DEF IInv, Restart, Alive
<1>2. PICK buf : Pure(buf) /\ WithinLimits(buf) /\ file = Frames(buf)
  BY <1>1 DEF Filed
<1>3. PICK b : b = Replays(file)[Len(file)]
  OBVIOUS
<1>4. /\ mode' = "running" /\ restarts' = restarts + 1 /\ restarts < MaxRestarts
      /\ buffer' = b.buffer /\ queued' = b.queued
      /\ IF SpoolConfigured
           THEN \/ file' = Frames(b.buffer) /\ spool' = "on"
                \/ DiskMayFail /\ spool' = "disabled" /\ UNCHANGED file
           ELSE UNCHANGED diskVars
      /\ UNCHANGED <<step, pending, hand, handAge, inFlight, nextRetry, attempt, before,
                     sink, acked, reported, unreported, perished>>
  BY <1>3 DEF Restart
<1>5. InOrder(b) /\ b.queued = <<>> /\ RecsIn(b.buffer) = InFile
  <2>1. Replayed(file, Len(buf), b) /\ DOMAIN file = 1..Len(buf)
    BY <1>2, <1>3, ReplayKeeps
  <2>2. QED
    BY <2>1 DEF Replayed, FirstFrames, InFile
<1>6. Pure(buffer') /\ WithinLimits(buffer') /\ Sorted(buffer') /\ queued' = <<>>
  BY <1>4, <1>5 DEF InOrder, Sound
<1>7. /\ step = "select" /\ nextRetry = None /\ inFlight = <<>> /\ hand = {}
  BY <1>1 DEF Control
<1>8. restarts' \in 0..MaxRestarts /\ restarts' # 0
  BY <1>1, <1>4, SinkLoopAssumption DEF Types
<1>9. file' \in Seq(SUBSET Recs) /\ spool' \in {"off", "on", "disabled"}
  BY <1>1, <1>4, <1>6, FramesType DEF Types
<1>10. Types'
  BY <1>1, <1>4, <1>6, <1>8, <1>9 DEF Types
<1>11. Control'
  BY <1>4, <1>7 DEF Control, Alive
<1>12. Timer'
  BY <1>4, <1>7, <1>8 DEF Timer
<1>13. Limits'
  BY <1>6 DEF Limits
<1>14. Filed'
  <2>1. spool' = "on" => SpoolConfigured /\ file' = Frames(buffer')
    BY <1>1, <1>4 DEF Filed
  <2>2. \E x : Pure(x) /\ WithinLimits(x) /\ file' = Frames(x)
    BY <1>1, <1>4, <1>6 DEF Filed
  <2>3. QED
    BY <2>1, <2>2 DEF Filed, SpoolMirrorsBuffer
<1>15. Kept'
  <2>1. Taken' = Taken /\ Answered' = Answered
    BY <1>4 DEF Taken, Answered
  <2>2. RecsIn(<<>>) = {} /\ Covered(<<>>) = {}
    BY DEF RecsIn, Covered
  <2>3. InMemory = {}
    BY <1>1, <1>7, <2>2 DEF Control, InMemory
  <2>4. InFile \subseteq InMemory'
    BY <1>4, <1>5 DEF InMemory
  <2>5. QED
    BY <1>1, <2>1, <2>3, <2>4 DEF Kept
<1>16. Exact'
  BY <1>8 DEF Exact
<1>17. QED
  BY <1>4, <1>5, <1>6, <1>10, <1>11, <1>12, <1>13, <1>14, <1>15, <1>16 DEF IInv

-----------------------------------------------------------------------------
(* Every step *)

\* A step is one of the actions, or changes nothing.
LEMMA StepCases ==
  ASSUME [Next]_vars
  PROVE  \/ \E m \in Messages : \/ ReceiveBehindBacklog(m) \/ ReceiveInline(m)
                                \/ ReceiveGapsBehindBacklog(m) \/ ReceiveGapsInline(m)
         \/ InlineAppend \/ InlineGapsAppend \/ FlushGap \/ FlushBatch
         \/ FlushPaced \/ FlushEmpty \/ Exit
         \/ TimerFires \/ QueueClosed \/ Crash \/ Restart \/ Tick
         \/ SinkChanges \/ UNCHANGED vars
BY DEF Next, Receive, Proceed, Attempt, Finished

LEMMA StepKeeps == IInv /\ [Next]_vars => IInv'
<1> SUFFICES ASSUME IInv, [Next]_vars PROVE IInv'
  OBVIOUS
<1>1. CASE \E m \in Messages : \/ ReceiveBehindBacklog(m) \/ ReceiveInline(m)
                               \/ ReceiveGapsBehindBacklog(m) \/ ReceiveGapsInline(m)
  BY <1>1, ReceiveBehindKeeps, ReceiveGapsBehindKeeps, InlineKeeps
<1>2. CASE InlineAppend \/ InlineGapsAppend
  BY <1>2, InlineAppendKeeps, InlineGapsAppendKeeps
<1>3. CASE FlushGap \/ FlushBatch \/ FlushPaced \/ FlushEmpty
  BY <1>3, FlushGapKeeps, FlushBatchKeeps, FlushPacedKeeps, FlushEmptyKeeps
<1>4. CASE Exit \/ Crash \/ Restart
  BY <1>4, ExitKeeps, CrashKeeps, RestartKeeps
<1>5. CASE TimerFires \/ QueueClosed \/ Tick
  BY <1>5, TimerFiresKeeps, QueueClosedKeeps, TickKeeps
<1>6. CASE SinkChanges \/ UNCHANGED vars
  BY <1>6, StutterKeeps
<1>7. QED
  BY StepCases, <1>1, <1>2, <1>3, <1>4, <1>5, <1>6

\* The inductive invariant holds in every state.
LEMMA Invariance == Spec => []IInv
BY InitIInv, StepKeeps, PTL DEF Spec

-----------------------------------------------------------------------------
(* The theorems *)

\* Every variable of the loop keeps its type: ages stay within the cap, the
\* backoff attempt within its saturation, every batch and report well formed.
THEOREM TypeCorrect == Spec => []TypeOK
<1>1. IInv => TypeOK
  <2> SUFFICES ASSUME IInv PROVE TypeOK
    OBVIOUS
  <2>1. Reports \subseteq [cause : Causes, recs : SUBSET Recs]
    BY DEF Reports
  <2>2. /\ inFlight \in Seq([cause : Causes, recs : SUBSET Recs])
        /\ queued \in Seq([cause : Causes, recs : SUBSET Recs])
    BY <2>1, SeqMonotonic DEF IInv, Types
  <2>3. QED
    BY <2>2 DEF IInv, Types, Pure, TypeOK
<1>2. QED
  BY <1>1, Invariance, PTL

\* Outside a drain pass the spool file holds exactly the batches of the retry
\* buffer, in order, as long as no compaction has failed (sync_spool).
THEOREM FileMirrorsBuffer == Spec => []SpoolMirrorsBuffer
<1>1. IInv => SpoolMirrorsBuffer
  BY DEF IInv, Filed
<1>2. QED
  BY <1>1, Invariance, PTL

\* RetryBuffer::enqueue keeps the buffer within its record, batch and byte
\* limits at every await, right after a replay included.
THEOREM BufferStaysBounded == Spec => []BufferBounded
<1>1. IInv => BufferBounded
  BY DEF IInv, Limits, WithinLimits, len_records, len_bytes, BufferBounded
<1>2. QED
  BY <1>1, Invariance, PTL

\* The front of the buffer is its oldest batch, whatever arrived during a slow
\* append, so drop_expired may stop at the first fresh one.
THEOREM FrontStaysOldest == Spec => []FrontIsOldest
<1>1. IInv => FrontIsOldest
  BY DEF IInv, Limits, Sorted, FrontIsOldest
<1>2. QED
  BY <1>1, Invariance, PTL

\* Until a process has replayed a spool, a loop at select! with anything to
\* deliver has a retry scheduled: no quiet node keeps its evidence forever.
THEOREM BacklogIsScheduled == Spec => [](restarts = 0 => BacklogScheduled)
<1>1. IInv => (restarts = 0 => BacklogScheduled)
  BY BothFields DEF IInv, Timer, has_backlog, BacklogScheduled
<1>2. QED
  BY <1>1, Invariance, PTL

\* The places of Holders, by what holds the record.
LEMMA HoldersAre ==
  ASSUME NEW r
  PROVE  /\ \A i \in DOMAIN buffer : r \in buffer[i].recs => <<"batch", i>> \in Holders(r)
         /\ \A i \in DOMAIN queued : r \in queued[i].recs => <<"gap", i>> \in Holders(r)
         /\ \A i \in DOMAIN inFlight : r \in inFlight[i].recs => <<"inflight", i>> \in Holders(r)
         /\ r \in hand => <<"hand", 0>> \in Holders(r)
         /\ r \in acked => <<"acked", 0>> \in Holders(r)
         /\ r \in reported => <<"reported", 0>> \in Holders(r)
         /\ r \in unreported => <<"unreported", 0>> \in Holders(r)
         /\ r \in perished => <<"perished", 0>> \in Holders(r)
         /\ \A h \in Holders(r) :
              \/ \E i \in DOMAIN buffer : r \in buffer[i].recs /\ h = <<"batch", i>>
              \/ \E i \in DOMAIN queued : r \in queued[i].recs /\ h = <<"gap", i>>
              \/ \E i \in DOMAIN inFlight : r \in inFlight[i].recs /\ h = <<"inflight", i>>
              \/ r \in hand /\ h = <<"hand", 0>>
              \/ r \in acked /\ h = <<"acked", 0>>
              \/ r \in reported /\ h = <<"reported", 0>>
              \/ r \in unreported /\ h = <<"unreported", 0>>
              \/ r \in perished /\ h = <<"perished", 0>>
<1> DEFINE Q == {<<"hand", hand>>, <<"acked", acked>>, <<"reported", reported>>,
                 <<"unreported", unreported>>, <<"perished", perished>>}
           O == {<<p[1], 0>> : p \in {q \in Q : r \in q[2]}}
           M == {<<"batch", i>> : i \in {j \in DOMAIN buffer : r \in buffer[j].recs}}
                  \cup {<<"gap", i>> : i \in {j \in DOMAIN queued : r \in queued[j].recs}}
                  \cup {<<"inflight", i>> : i \in {j \in DOMAIN inFlight : r \in inFlight[j].recs}}
<1>1. Holders(r) = M \cup O
  BY DEF Holders
<1>2. /\ r \in hand => <<"hand", 0>> \in O
      /\ r \in acked => <<"acked", 0>> \in O
      /\ r \in reported => <<"reported", 0>> \in O
      /\ r \in unreported => <<"unreported", 0>> \in O
      /\ r \in perished => <<"perished", 0>> \in O
  <2>1. ASSUME NEW name, NEW s, <<name, s>> \in Q, r \in s PROVE <<name, 0>> \in O
    <3>1. <<name, s>> \in {q \in Q : r \in q[2]} /\ <<name, s>>[1] = name
      BY <2>1
    <3> HIDE DEF Q
    <3>2. QED
      BY <3>1
  <2>2. /\ <<"hand", hand>> \in Q /\ <<"acked", acked>> \in Q
        /\ <<"reported", reported>> \in Q /\ <<"unreported", unreported>> \in Q
        /\ <<"perished", perished>> \in Q
    OBVIOUS
  <2> HIDE DEF Q, O
  <2>3. QED
    BY <2>1, <2>2
<1>3. ASSUME NEW h \in O
      PROVE  \/ r \in hand /\ h = <<"hand", 0>>
             \/ r \in acked /\ h = <<"acked", 0>>
             \/ r \in reported /\ h = <<"reported", 0>>
             \/ r \in unreported /\ h = <<"unreported", 0>>
             \/ r \in perished /\ h = <<"perished", 0>>
  <2>1. PICK p \in Q : r \in p[2] /\ h = <<p[1], 0>>
    OBVIOUS
  <2>2. QED
    BY <2>1
<1>4. /\ \A i \in DOMAIN buffer : r \in buffer[i].recs => <<"batch", i>> \in M
      /\ \A i \in DOMAIN queued : r \in queued[i].recs => <<"gap", i>> \in M
      /\ \A i \in DOMAIN inFlight : r \in inFlight[i].recs => <<"inflight", i>> \in M
  OBVIOUS
<1>5. \A h \in M :
        \/ \E i \in DOMAIN buffer : r \in buffer[i].recs /\ h = <<"batch", i>>
        \/ \E i \in DOMAIN queued : r \in queued[i].recs /\ h = <<"gap", i>>
        \/ \E i \in DOMAIN inFlight : r \in inFlight[i].recs /\ h = <<"inflight", i>>
  OBVIOUS
<1> HIDE DEF O, M
<1>6. QED
  BY <1>1, <1>2, <1>3, <1>4, <1>5

\* What is in memory or answered for has a holder.
LEMMA HeldHasHolder ==
  ASSUME NEW r \in InMemory \cup Answered
  PROVE  Holders(r) # {}
<1>1. \/ \E i \in DOMAIN buffer : r \in buffer[i].recs
      \/ \E i \in DOMAIN queued : r \in queued[i].recs
      \/ \E i \in DOMAIN inFlight : r \in inFlight[i].recs
      \/ r \in hand \/ r \in acked \/ r \in reported \/ r \in unreported \/ r \in perished
  BY DEF InMemory, Answered, RecsIn, Covered
<1>2. QED
  BY <1>1, HoldersAre

\* "No silent data loss": every record taken off the queue is delivered,
\* awaiting delivery, covered by a gap report, or went with a killed process
\* without having been spooled, across any number of kills and restarts.
THEOREM NothingIsLost == Spec => []NothingVanishes
<1>1. IInv => NothingVanishes
  BY HeldHasHolder DEF IInv, Kept, NothingVanishes
<1>2. QED
  BY <1>1, Invariance, PTL

\* In the process that took it a record is in exactly one of those places:
\* nothing is delivered and reported lost, or reported lost twice, whichever of
\* expiry, overflow, memory pressure, rejection and failed appends it meets.
THEOREM EveryRecordOnce == Spec => []AnsweredForOnce
<1>1. IInv => AnsweredForOnce
  <2> SUFFICES ASSUME IInv, restarts = 0, Alive, NEW r \in Taken
               PROVE  Cardinality(Holders(r)) = 1
    BY DEF AnsweredForOnce
  <2>1. InMemory \cup Answered = Taken /\ OnceInMemory /\ OnceAnswered
    BY DEF IInv, Exact
  <2>2. Holders(r) # {}
    BY <2>1, HeldHasHolder
  <2>3. /\ Apart(buffer) /\ Apart(queued) /\ Apart(inFlight)
        /\ RecsIn(buffer) \cap Covered(queued) = {}
        /\ Covered(inFlight) \cap (RecsIn(buffer) \cup Covered(queued)) = {}
        /\ hand \cap (RecsIn(buffer) \cup Covered(queued) \cup Covered(inFlight)) = {}
    BY <2>1, BothFields DEF OnceInMemory, Once, Holding
  <2>4. /\ InMemory \cap Answered = {}
        /\ acked \cap (reported \cup unreported \cup perished) = {}
        /\ reported \cap (unreported \cup perished) = {}
        /\ unreported \cap perished = {}
    BY <2>1 DEF OnceAnswered
  <2>5. /\ \A i \in DOMAIN buffer : r \in buffer[i].recs => r \in RecsIn(buffer)
        /\ \A i \in DOMAIN queued : r \in queued[i].recs => r \in Covered(queued)
        /\ \A i \in DOMAIN inFlight : r \in inFlight[i].recs => r \in Covered(inFlight)
    BY DEF RecsIn, Covered
  <2>6. ASSUME NEW g \in Holders(r), NEW h \in Holders(r) PROVE g = h
    <3> DEFINE At(x) ==
          \/ \E i \in DOMAIN buffer : r \in buffer[i].recs /\ x = <<"batch", i>>
          \/ \E i \in DOMAIN queued : r \in queued[i].recs /\ x = <<"gap", i>>
          \/ \E i \in DOMAIN inFlight : r \in inFlight[i].recs /\ x = <<"inflight", i>>
          \/ r \in hand /\ x = <<"hand", 0>>
          \/ r \in acked /\ x = <<"acked", 0>>
          \/ r \in reported /\ x = <<"reported", 0>>
          \/ r \in unreported /\ x = <<"unreported", 0>>
          \/ r \in perished /\ x = <<"perished", 0>>
    <3>1. At(g) /\ At(h)
      BY HoldersAre
    <3>2. CASE r \in RecsIn(buffer)
      <4>1. r \notin Covered(queued) /\ r \notin Covered(inFlight) /\ r \notin hand
        BY <2>3, <3>2
      <4>2. r \notin Answered
        BY <2>4, <3>2 DEF InMemory
      <4>3. \A i, j \in DOMAIN buffer : r \in buffer[i].recs /\ r \in buffer[j].recs => i = j
        BY <2>3 DEF Apart
      <4>4. QED
        BY <2>5, <3>1, <4>1, <4>2, <4>3 DEF Answered
    <3>3. CASE r \in Covered(queued)
      <4>1. r \notin RecsIn(buffer) /\ r \notin Covered(inFlight) /\ r \notin hand
        BY <2>3, <3>3
      <4>2. r \notin Answered
        BY <2>4, <3>3 DEF InMemory
      <4>3. \A i, j \in DOMAIN queued : r \in queued[i].recs /\ r \in queued[j].recs => i = j
        BY <2>3 DEF Apart
      <4>4. QED
        BY <2>5, <3>1, <4>1, <4>2, <4>3 DEF Answered
    <3>4. CASE r \in Covered(inFlight)
      <4>1. r \notin RecsIn(buffer) /\ r \notin Covered(queued) /\ r \notin hand
        BY <2>3, <3>4
      <4>2. r \notin Answered
        BY <2>4, <3>4 DEF InMemory
      <4>3. \A i, j \in DOMAIN inFlight : r \in inFlight[i].recs /\ r \in inFlight[j].recs => i = j
        BY <2>3 DEF Apart
      <4>4. QED
        BY <2>5, <3>1, <4>1, <4>2, <4>3 DEF Answered
    <3>5. CASE r \in hand
      <4>1. r \notin RecsIn(buffer) /\ r \notin Covered(queued) /\ r \notin Covered(inFlight)
        BY <2>3, <3>5
      <4>2. r \notin Answered
        BY <2>4, <3>5 DEF InMemory
      <4>3. QED
        BY <2>5, <3>1, <4>1, <4>2 DEF Answered
    <3>6. CASE r \in Answered
      <4>1. /\ r \notin RecsIn(buffer) /\ r \notin Covered(queued)
            /\ r \notin Covered(inFlight) /\ r \notin hand
        BY <2>4, <3>6 DEF InMemory
      <4>2. QED
        BY <2>4, <2>5, <3>1, <4>1
    <3>7. QED
      BY <2>1, <3>2, <3>3, <3>4, <3>5, <3>6 DEF InMemory
  <2>7. PICK g : Holders(r) = {g}
    BY <2>2, <2>6
  <2>8. QED
    BY <2>7, FS_Singleton
<1>2. QED
  BY <1>1, Invariance, PTL

\* An arm that leaves something to deliver keeps the deadline it found.
LEMMA ArmKeepsDeadline ==
  ASSUME IInv, NEW c, InOrder(c), Holding(c) # {}, nextRetry # None,
         Settle(c, inFlight, nextRetry, attempt)
  PROVE  nextRetry' = nextRetry
<1>1. inFlight \in Seq(Reports) /\ nextRetry \in Nat \cup {None} /\ attempt \in 0..MaxDelay
  BY DEF IInv, Types
<1>2. /\ Lands(c, inFlight)
      /\ schedule_retry(nextRetry, attempt, has_backlog(Both(buffer', queued'), inFlight))
  BY SettleLands DEF InOrder
<1>3. has_backlog(Both(buffer', queued'), inFlight)
  BY <1>1, <1>2, LandsHolds DEF InOrder
<1>4. QED
  BY <1>1, <1>2, <1>3, ScheduleArms

LEMMA ReceiveKeepsDeadline ==
  ASSUME IInv, nextRetry # None, NEW m \in Messages,
         ReceiveBehindBacklog(m) \/ ReceiveGapsBehindBacklog(m)
  PROVE  nextRetry' = nextRetry
<1>1. InOrder(Backlog) /\ m \in SUBSET Recs /\ m # {} /\ 0 \in 0..MaxAge + 1
  BY BacklogInOrder, SinkLoopAssumption, RetryBufferAssumption DEF IInv, Shape
<1>2. PICK b : b = Expire(Backlog)
  OBVIOUS
<1>3. InOrder(b)
  BY <1>1, <1>2, ExpireInOrder
<1>4. CASE ReceiveBehindBacklog(m)
  <2>1. PICK c : c = Enqueue(b, m, 0)
    OBVIOUS
  <2>2. \A i \in DOMAIN b.buffer : b.buffer[i].age >= 0
    <3>1. DOMAIN b.buffer = 1..Len(b.buffer)
          /\ \A i \in 1..Len(b.buffer) : b.buffer[i] \in Buffered
      BY <1>3, SequenceFacts DEF InOrder, Sound, Pure
    <3>2. QED
      BY <3>1 DEF Buffered
  <2>3. InOrder(c) /\ Holding(c) = Holding(b) \cup m
    BY <1>1, <1>3, <2>1, <2>2, EnqueueInOrder
  <2>4. Settle(c, inFlight, nextRetry, attempt)
    BY <1>2, <1>4, <2>1 DEF ReceiveBehindBacklog
  <2>5. QED
    BY <1>1, <2>3, <2>4, ArmKeepsDeadline
<1>5. CASE ReceiveGapsBehindBacklog(m)
  <2>1. PICK c : c = [b EXCEPT !.queued = merge_by_cause(@, "sink_queue_overflow", m)]
    OBVIOUS
  <2>2. c.buffer = b.buffer /\ c.queued = merge_by_cause(b.queued, "sink_queue_overflow", m)
    BY <1>2, <2>1 DEF Expire, Reduced
  <2>3. InOrder(c) /\ Holding(c) = Holding(b) \cup m
    BY <1>1, <1>3, <2>2, ReportInOrder
  <2>4. Settle(c, inFlight, nextRetry, attempt)
    BY <1>2, <1>5, <2>1 DEF ReceiveGapsBehindBacklog
  <2>5. QED
    BY <1>1, <2>3, <2>4, ArmKeepsDeadline
<1>6. QED
  BY <1>4, <1>5

\* schedule_retry: evidence that arrives behind a backlog neither postpones nor
\* cancels the attempt it waits for; only a drain pass sets a new deadline.
THEOREM DeadlineIsKept == Spec => DeadlineNotPostponed
<1>1. IInv /\ [Next]_vars =>
        [step # "flush" /\ nextRetry # None /\ mode' = "running"
           => nextRetry' # None /\ nextRetry' <= nextRetry]_vars
  <2> SUFFICES ASSUME IInv, [Next]_vars, step # "flush", nextRetry # None, mode' = "running"
               PROVE  nextRetry' # None /\ nextRetry' <= nextRetry
    OBVIOUS
  <2> USE DEF timerVars
  <2>1. nextRetry \in Nat
    BY DEF IInv, Types
  <2>2. CASE nextRetry' = nextRetry
    BY <2>1, <2>2
  <2>3. CASE \E m \in Messages : ReceiveBehindBacklog(m) \/ ReceiveGapsBehindBacklog(m)
    BY <2>2, <2>3, ReceiveKeepsDeadline
  <2>4. CASE \E m \in Messages : ReceiveInline(m) \/ ReceiveGapsInline(m)
    BY <2>2, <2>4 DEF ReceiveInline, ReceiveGapsInline
  <2>5. CASE InlineAppend \/ InlineGapsAppend
    BY <2>5 DEF InlineAppend, InlineGapsAppend, IInv, Control
  <2>6. CASE FlushGap \/ FlushBatch \/ FlushPaced \/ FlushEmpty
    BY <2>6 DEF FlushGap, FlushBatch, FlushPaced, FlushEmpty, Flushing
  <2>7. CASE Exit \/ Crash \/ QueueClosed
    BY <2>7 DEF Exit, Crash, QueueClosed
  <2>8. CASE Restart
    BY <2>8 DEF Restart, IInv, Control, Alive
  <2>9. CASE TimerFires \/ SinkChanges \/ UNCHANGED vars
    BY <2>2, <2>9 DEF TimerFires, SinkChanges, vars
  <2>10. CASE Tick
    BY <2>1, <2>10, Delays DEF Tick
  <2>11. QED
    BY StepCases, <2>3, <2>4, <2>5, <2>6, <2>7, <2>8, <2>9, <2>10
<1>2. QED
  BY <1>1, Invariance, PTL DEF Spec, DeadlineNotPostponed

\* What a step may report as shed: attribution evidence only when no reliability
\* evidence is left.
ShedsInOrder ==
  \A r \in ShedReports(queued') \ ShedReports(queued) :
    ClassOf[r] = "attribution" => OfClass(RecsIn(buffer'), "reliability") = {}

LEMMA NothingShed ==
  ASSUME ShedReports(queued') \subseteq ShedReports(queued)
  PROVE  ShedsInOrder
BY DEF ShedsInOrder

\* An arm that starts from b sheds in order if b was made in order.
LEMMA LandsInOrder ==
  ASSUME NEW b, Sound(b), NEW inflight, Lands(b, inflight),
         \A r \in ShedReports(b.queued) \ ShedReports(queued) :
           ClassOf[r] = "attribution" => NoReliability(b.buffer)
  PROVE  ShedsInOrder
<1> SUFFICES ASSUME NEW r \in ShedReports(queued') \ ShedReports(queued),
                    ClassOf[r] = "attribution"
             PROVE  OfClass(RecsIn(buffer'), "reliability") = {}
  BY DEF ShedsInOrder
<1>1. /\ ShedFirst(b, Both(buffer', queued')) /\ Part(buffer', b.buffer)
      /\ Sound(Both(buffer', queued'))
  BY DEF Lands, Carries
<1>2. Pure(buffer')
  BY <1>1, BothFields DEF Sound
<1>3. NoReliability(buffer')
  <2>1. CASE r \in ShedReports(b.queued)
    BY <2>1, <1>1, PartKeeps
  <2>2. CASE r \notin ShedReports(b.queued)
    BY <2>2, <1>1, BothFields DEF ShedFirst
  <2>3. QED
    BY <2>1, <2>2
<1>4. QED
  BY <1>2, <1>3 DEF Pure, NoReliability, OfClass, RecsIn

LEMMA SettleInOrder ==
  ASSUME NEW b, Sound(b), NEW inflight, NEW current, NEW n, Settle(b, inflight, current, n),
         \A r \in ShedReports(b.queued) \ ShedReports(queued) :
           ClassOf[r] = "attribution" => NoReliability(b.buffer)
  PROVE  ShedsInOrder
BY SettleLands, LandsInOrder

LEMMA PassEndsInOrder ==
  ASSUME NEW b, Sound(b), NEW inflight, NEW paced, PassEnds(b, inflight, paced),
         ShedReports(b.queued) \subseteq ShedReports(queued)
  PROVE  ShedsInOrder
<1>1. Lands(b, inflight)
  BY PassEndsLands DEF PassDone
<1>2. QED
  BY <1>1, LandsInOrder

LEMMA ReceiveInOrder ==
  ASSUME IInv, NEW m \in Messages, ReceiveBehindBacklog(m) \/ ReceiveGapsBehindBacklog(m)
  PROVE  ShedsInOrder
<1>1. /\ Sound(Backlog) /\ Backlog.queued = queued
      /\ m \in SUBSET Recs /\ 0 \in 0..MaxAge + 1
  BY BacklogInOrder, SinkLoopAssumption, RetryBufferAssumption DEF IInv, Shape, InOrder
<1>2. PICK b : b = Expire(Backlog)
  OBVIOUS
<1>3. Sound(b) /\ ShedReports(b.queued) \subseteq ShedReports(queued)
  BY <1>1, <1>2, ExpireCarries DEF Carries
<1>4. CASE ReceiveBehindBacklog(m)
  <2>1. PICK c : c = Enqueue(b, m, 0)
    OBVIOUS
  <2>2. Carries(b, c, m)
    BY <1>1, <1>3, <2>1, EnqueueCarries
  <2>3. Sound(c) /\ \A r \in ShedReports(c.queued) \ ShedReports(queued) :
                      ClassOf[r] = "attribution" => NoReliability(c.buffer)
    BY <1>3, <2>2 DEF Carries, ShedFirst
  <2>4. Settle(c, inFlight, nextRetry, attempt)
    BY <1>2, <1>4, <2>1 DEF ReceiveBehindBacklog
  <2>5. QED
    BY <2>3, <2>4, SettleInOrder
<1>5. CASE ReceiveGapsBehindBacklog(m)
  <2>1. PICK c : c = [b EXCEPT !.queued = merge_by_cause(@, "sink_queue_overflow", m)]
    OBVIOUS
  <2>2. c.buffer = b.buffer /\ c.queued = merge_by_cause(b.queued, "sink_queue_overflow", m)
    BY <1>2, <2>1 DEF Expire, Reduced
  <2>3. /\ "sink_queue_overflow" \in Causes
        /\ "sink_queue_overflow" \notin {"retry_buffer_overflow", "memory_pressure"}
    BY DEF Causes
  <2>4. Carries(b, c, m) /\ ShedReports(c.queued) \subseteq ShedReports(b.queued)
    BY <1>1, <1>3, <2>2, <2>3, ReportCarries
  <2>5. Settle(c, inFlight, nextRetry, attempt)
    BY <1>2, <1>5, <2>1 DEF ReceiveGapsBehindBacklog
  <2>6. QED
    BY <1>3, <2>4, <2>5, SettleInOrder DEF Carries
<1>6. QED
  BY <1>4, <1>5

LEMMA InlineInOrder ==
  ASSUME IInv, InlineAppend \/ InlineGapsAppend
  PROVE  ShedsInOrder
<1>1. /\ Sound(Backlog) /\ Backlog.queued = queued /\ Backlog.buffer = buffer
      /\ hand \in SUBSET Recs /\ handAge \in 0..MaxAge + 1
  BY BacklogInOrder DEF IInv, Shape, InOrder, Types
<1>2. CASE \E inflight, n : Settle(Backlog, inflight, nextRetry, n)
  BY <1>1, <1>2, SettleInOrder
<1>3. CASE Settle(Enqueue(Backlog, hand, handAge), inFlight, nextRetry, attempt)
  <2>1. PICK c : c = Enqueue(Backlog, hand, handAge)
    OBVIOUS
  <2>2. Carries(Backlog, c, hand)
    BY <1>1, <2>1, EnqueueCarries
  <2>3. Sound(c) /\ \A r \in ShedReports(c.queued) \ ShedReports(queued) :
                      ClassOf[r] = "attribution" => NoReliability(c.buffer)
    BY <1>1, <2>2 DEF Carries, ShedFirst
  <2>4. QED
    BY <1>3, <2>1, <2>3, SettleInOrder
<1>4. CASE Settle([Backlog EXCEPT !.queued = merge_by_cause(@, "sink_rejected", hand)],
                  inFlight, nextRetry, attempt)
  <2>1. PICK c : c = [Backlog EXCEPT !.queued = merge_by_cause(@, "sink_rejected", hand)]
    OBVIOUS
  <2>2. c.buffer = Backlog.buffer /\ c.queued = merge_by_cause(Backlog.queued, "sink_rejected", hand)
    BY <2>1 DEF Backlog
  <2>3. /\ "sink_rejected" \in Causes
        /\ "sink_rejected" \notin {"retry_buffer_overflow", "memory_pressure"}
    BY DEF Causes
  <2>4. Carries(Backlog, c, hand) /\ ShedReports(c.queued) \subseteq ShedReports(Backlog.queued)
    BY <1>1, <2>2, <2>3, ReportCarries
  <2>5. QED
    BY <1>1, <1>4, <2>1, <2>4, SettleInOrder DEF Carries
<1>5. QED
  BY <1>2, <1>3, <1>4 DEF InlineAppend, InlineGapsAppend

LEMMA FlushInOrder ==
  ASSUME IInv, FlushGap \/ FlushBatch \/ FlushPaced \/ FlushEmpty
  PROVE  ShedsInOrder
<1>1. /\ Shape /\ Sound(Backlog) /\ Backlog.queued = queued /\ Backlog.buffer = buffer
      /\ Pure(buffer) /\ queued \in Seq(Reports)
  BY BacklogInOrder DEF IInv, Shape, InOrder, Types
<1>2. Sound(FrontBacklog) /\ ShedReports(FrontBacklog.queued) \subseteq ShedReports(queued)
  BY <1>1, FrontFacts DEF InOrder
<1>3. CASE FlushGap \/ FlushPaced
  <2>1. \/ PassGoesOn(FrontBacklog, <<>>)
        \/ \E paced : PassEnds(FrontBacklog, FrontGap, paced)
    BY <1>3 DEF FlushGap, FlushPaced
  <2>2. QED
    BY <1>2, <2>1, PassEndsInOrder, NothingShed DEF PassGoesOn
<1>4. CASE FlushEmpty
  BY <1>1, <1>4, PassEndsInOrder DEF FlushEmpty
<1>5. CASE FlushBatch
  <2>1. CASE PassGoesOn([buffer |-> Tail(buffer), queued |-> queued], inFlight)
    BY <2>1, NothingShed DEF PassGoesOn
  <2>2. CASE PassEnds(Backlog, inFlight, FALSE)
    BY <1>1, <2>2, PassEndsInOrder
  <2>3. CASE PassEnds([buffer |-> Tail(buffer),
                       queued |-> merge_by_cause(queued, "sink_rejected", Head(buffer).recs)],
                      inFlight, FALSE)
    <3>1. PICK c : c = [buffer |-> Tail(buffer),
                        queued |-> merge_by_cause(queued, "sink_rejected", Head(buffer).recs)]
      OBVIOUS
    <3>2. c.buffer = Tail(buffer)
          /\ c.queued = merge_by_cause(queued, "sink_rejected", Head(buffer).recs)
      BY <3>1
    <3>3. buffer # <<>> /\ buffer \in Seq(Buffered)
      BY <1>1, <1>5 DEF FlushBatch, Pure
    <3>4. Part(Tail(buffer), buffer) /\ Head(buffer).recs \subseteq RecsIn(buffer)
      BY <3>3, TailIsPart
    <3>5. Pure(Tail(buffer)) /\ Head(buffer).recs \in SUBSET Recs
      BY <1>1, <3>4, PartKeeps, RecsOfBuffer
    <3>6. /\ "sink_rejected" \in Causes
          /\ "sink_rejected" \notin {"retry_buffer_overflow", "memory_pressure"}
      BY DEF Causes
    <3>7. Merged(queued, "sink_rejected", Head(buffer).recs, c.queued)
      BY <1>1, <3>2, <3>5, <3>6, MergeKeeps
    <3>8. Sound(c) /\ ShedReports(c.queued) \subseteq ShedReports(queued)
      BY <3>2, <3>5, <3>6, <3>7 DEF Sound, Merged
    <3>9. QED
      BY <2>3, <3>1, <3>8, PassEndsInOrder
  <2>4. QED
    BY <1>5, <2>1, <2>2, <2>3 DEF FlushBatch
<1>6. QED
  BY <1>3, <1>4, <1>5

\* ADR-0006 contract 5, over every limit and every memory reading: no step
\* reports attribution evidence as shed while reliability evidence is buffered.
THEOREM ReliabilityGoesFirst == Spec => ReliabilityShedFirst
<1>1. IInv /\ [Next]_vars => [ShedsInOrder]_vars
  <2> SUFFICES ASSUME IInv, [Next]_vars PROVE ShedsInOrder
    OBVIOUS
  <2> USE DEF gapVars
  <2>1. CASE queued' = queued
    BY <2>1, NothingShed
  <2>2. CASE queued' = <<>>
    <3>1. ShedReports(<<>>) = {}
      BY DEF ShedReports
    <3>2. QED
      BY <2>2, <3>1, NothingShed
  <2>3. CASE \E m \in Messages : ReceiveBehindBacklog(m) \/ ReceiveGapsBehindBacklog(m)
    BY <2>3, ReceiveInOrder
  <2>4. CASE \E m \in Messages : ReceiveInline(m) \/ ReceiveGapsInline(m)
    BY <2>1, <2>4 DEF ReceiveInline, ReceiveGapsInline
  <2>5. CASE InlineAppend \/ InlineGapsAppend
    BY <2>5, InlineInOrder
  <2>6. CASE FlushGap \/ FlushBatch \/ FlushPaced \/ FlushEmpty
    BY <2>6, FlushInOrder
  <2>7. CASE Exit \/ Crash \/ Restart
    BY <2>2, <2>7, RestartKeeps DEF Exit, Crash, Forget
  <2>8. CASE TimerFires
    <3>1. Sound(Backlog) /\ Backlog.queued = queued
      BY BacklogInOrder DEF IInv, Shape, InOrder
    <3>2. ShedReports(Expire(Backlog).queued) \subseteq ShedReports(queued)
      BY <3>1, ExpireCarries
    <3>3. QED
      BY <2>8, <3>2, NothingShed DEF TimerFires
  <2>9. CASE QueueClosed \/ Tick \/ SinkChanges \/ UNCHANGED vars
    BY <2>1, <2>9 DEF QueueClosed, Tick, SinkChanges, vars
  <2>10. QED
    BY StepCases, <2>3, <2>4, <2>5, <2>6, <2>7, <2>8, <2>9
<1>2. QED
  BY <1>1, Invariance, PTL DEF Spec, ReliabilityShedFirst, ShedsInOrder

\* RetryBuffer replay: a new process starts with exactly the records of the
\* spool file in its buffer, none of them shed on the way in and none reported.
THEOREM ReplayIsExact ==
  Spec => [][Restart => RecsIn(buffer') = InFile /\ queued' = <<>>]_vars
<1>1. IInv /\ [Next]_vars => [Restart => RecsIn(buffer') = InFile /\ queued' = <<>>]_vars
  BY RestartKeeps
<1>2. QED
  BY <1>1, Invariance, PTL DEF Spec
=============================================================================
