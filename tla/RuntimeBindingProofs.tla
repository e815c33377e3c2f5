------------------------ MODULE RuntimeBindingProofs ------------------------
(***************************************************************************)
(* That the structures of the binding cache agree, that the cache follows  *)
(* the cluster across breaks of the stream, and that an event is bound to  *)
(* its own pod: for any pods, containers, capacity and number of breaks.   *)
(***************************************************************************)
EXTENDS RuntimeBinding, BaseTheorems

-----------------------------------------------------------------------------
(* Sequences without duplicates, and what is retained of them *)

\* f has what is retained of the first k, for each k up to n.
Retained(f, seq, S, n) ==
  f = [k \in 0..n |-> IF k = 0 THEN <<>>
                      ELSE IF seq[k] \in S THEN f[k - 1]
                      ELSE Append(f[k - 1], seq[k])]

\* The recursion of Except has a solution.
LEMMA RetainExists ==
  ASSUME NEW T, NEW seq \in Seq(T), NEW S, NEW n \in 0..Len(seq)
  PROVE  \E g \in [0..n -> Seq(T)] : Retained(g, seq, S, n)
<1> DEFINE Next_(g, k) == IF k = 0 THEN <<>>
                          ELSE IF seq[k] \in S THEN g[k - 1]
                          ELSE Append(g[k - 1], seq[k])
           Step(g, m) == [k \in 0..m |-> Next_(g, k)]
           Q == {m \in Nat : m <= Len(seq) =>
                               \E g \in [0..m -> Seq(T)] : g = Step(g, m)}
<1>0. Len(seq) \in Nat /\ \A i \in 1..Len(seq) : seq[i] \in T
  BY SequenceFacts
<1>1. 0 \in Q
  <2>1. PICK g : g = [k \in 0..0 |-> <<>>]
    OBVIOUS
  <2>2. g \in [0..0 -> Seq(T)]
    BY <2>1
  <2>3. g = Step(g, 0)
    BY <2>1
  <2>4. QED
    BY <2>2, <2>3
<1>2. ASSUME NEW m \in Nat, m \in Q PROVE m + 1 \in Q
  <2> SUFFICES ASSUME m + 1 <= Len(seq)
               PROVE  \E g \in [0..m + 1 -> Seq(T)] : g = Step(g, m + 1)
    OBVIOUS
  <2>0. m <= Len(seq) /\ m + 1 \in 1..Len(seq)
    BY <1>0
  <2>1. PICK g \in [0..m -> Seq(T)] : g = Step(g, m)
    BY <1>2, <2>0
  <2>2. PICK last : last = Next_(g, m + 1)
    OBVIOUS
  <2>3. last \in Seq(T)
    <3>1. g[m] \in Seq(T) /\ seq[m + 1] \in T /\ (m + 1) - 1 = m /\ m + 1 # 0
      BY <1>0, <2>0
    <3>2. last = IF seq[m + 1] \in S THEN g[m] ELSE Append(g[m], seq[m + 1])
      BY <2>2, <3>1
    <3>3. QED
      BY <3>1, <3>2
  <2>4. PICK h : h = [k \in 0..m + 1 |-> IF k <= m THEN g[k] ELSE last]
    OBVIOUS
  <2>5. h \in [0..m + 1 -> Seq(T)]
    BY <2>3, <2>4
  <2>6. ASSUME NEW k \in 0..m + 1 PROVE h[k] = Next_(h, k)
    <3>1. CASE k = 0
      <4>1. h[k] = g[0] /\ g[0] = Next_(g, 0)
        BY <2>1, <2>4, <3>1
      <4>2. QED
        BY <3>1, <4>1
    <3>2. CASE k \in 1..m
      <4>1. h[k] = g[k] /\ h[k - 1] = g[k - 1] /\ k # 0 /\ k \in 0..m
        BY <2>4, <3>2
      <4>2. g[k] = Next_(g, k)
        BY <2>1, <4>1
      <4>3. QED
        BY <4>1, <4>2
    <3>3. CASE k = m + 1
      <4>1. h[k] = last /\ k - 1 = m /\ h[m] = g[m] /\ k # 0
        BY <2>4, <3>3
      <4>2. QED
        BY <2>2, <3>3, <4>1
    <3>4. QED
      BY <3>1, <3>2, <3>3
  <2>7. h = Step(h, m + 1)
    <3>1. h = [k \in 0..m + 1 |-> h[k]]
      BY <2>5
    <3> HIDE DEF Next_
    <3>2. QED
      BY <2>6, <3>1
  <2>8. QED
    <3> HIDE DEF Step
    <3>1. QED
      BY <2>5, <2>7
<1>3. Nat \subseteq Q
  <2> HIDE DEF Q
  <2>1. QED
    BY <1>1, <1>2, NatSetInduction
<1>4. n \in Nat /\ n <= Len(seq) /\ n \in Q
  <2> HIDE DEF Q
  <2>1. QED
    BY <1>0, <1>3
<1>5. QED
  BY <1>4 DEF Retained

\* Except is its last step.
LEMMA RetainedByStep ==
  ASSUME NEW T, NEW seq \in Seq(T), NEW S
  PROVE  \E f : Retained(f, seq, S, Len(seq)) /\ Except(seq, S) = f[Len(seq)]
<1>1. PICK n \in 0..Len(seq) : n = Len(seq)
  BY SequenceFacts
<1>2. \E f : Retained(f, seq, S, Len(seq))
  BY <1>1, RetainExists
<1>3. PICK f : f = CHOOSE g : Retained(g, seq, S, Len(seq))
  OBVIOUS
<1>4. Retained(f, seq, S, Len(seq))
  BY <1>2, <1>3
<1>5. Except(seq, S) = f[Len(seq)]
  BY <1>3 DEF Except, Retained
<1>6. QED
  BY <1>4, <1>5

\* Of the first k elements, those outside S are retained, none of them twice.
HoldsRest(r, seq, S, k) ==
  /\ \A x : x \in ToSet(r) <=> x \notin S /\ \E i \in 1..k : seq[i] = x
  /\ IsInjective(seq) => IsInjective(r)

LEMMA AppendKeeps ==
  ASSUME NEW T, NEW r \in Seq(T), NEW x \in T
  PROVE  /\ \A y : y \in ToSet(Append(r, x)) <=> y \in ToSet(r) \/ y = x
         /\ IsInjective(r) /\ x \notin ToSet(r) => IsInjective(Append(r, x))
<1>1. PICK a : a = Append(r, x)
  OBVIOUS
<1>2. Len(r) \in Nat /\ DOMAIN r = 1..Len(r)
  BY SequenceFacts
<1>3. /\ DOMAIN a = 1..Len(r) + 1
      /\ \A i \in 1..Len(r) : a[i] = r[i]
      /\ a[Len(r) + 1] = x
  BY <1>1, <1>2, AppendProperties
<1>4. \A y : y \in ToSet(a) <=> y \in ToSet(r) \/ y = x
  <2>1. ASSUME NEW y, y \in ToSet(a) PROVE y \in ToSet(r) \/ y = x
    <3>1. PICK i \in 1..Len(r) + 1 : a[i] = y
      BY <1>3, <2>1 DEF ToSet
    <3>2. CASE i \in 1..Len(r)
      BY <1>2, <1>3, <3>1, <3>2 DEF ToSet
    <3>3. CASE i = Len(r) + 1
      BY <1>3, <3>1, <3>3
    <3>4. QED
      BY <1>2, <3>2, <3>3
  <2>2. ASSUME NEW y, y \in ToSet(r) PROVE y \in ToSet(a)
    <3>1. PICK i \in 1..Len(r) : r[i] = y
      BY <1>2, <2>2 DEF ToSet
    <3>2. i \in 1..Len(r) + 1 /\ a[i] = y
      BY <1>2, <1>3, <3>1
    <3>3. QED
      BY <1>3, <3>2 DEF ToSet
  <2>3. x \in ToSet(a)
    <3>1. Len(r) + 1 \in 1..Len(r) + 1
      BY <1>2
    <3>2. QED
      BY <1>3, <3>1 DEF ToSet
  <2>4. QED
    BY <2>1, <2>2, <2>3
<1>5. IsInjective(r) /\ x \notin ToSet(r) => IsInjective(a)
  <2> SUFFICES ASSUME IsInjective(r), x \notin ToSet(r),
                      NEW i \in 1..Len(r) + 1, NEW j \in 1..Len(r) + 1, a[i] = a[j]
               PROVE  i = j
    BY <1>3 DEF IsInjective
  <2>1. \A k \in 1..Len(r) : a[k] # x
    BY <1>2, <1>3 DEF ToSet
  <2>2. CASE i \in 1..Len(r) /\ j \in 1..Len(r)
    BY <1>2, <1>3, <2>2 DEF IsInjective
  <2>3. CASE i = Len(r) + 1 /\ j \in 1..Len(r)
    BY <1>3, <2>1, <2>3
  <2>4. CASE j = Len(r) + 1 /\ i \in 1..Len(r)
    BY <1>3, <2>1, <2>4
  <2>5. CASE i = Len(r) + 1 /\ j = Len(r) + 1
    BY <2>5
  <2>6. QED
    BY <1>2, <2>2, <2>3, <2>4, <2>5
<1>6. QED
  BY <1>1, <1>4, <1>5

\* retain keeps what is not in S and adds no duplicate.
LEMMA ExceptFacts ==
  ASSUME NEW T, NEW seq \in Seq(T), NEW S
  PROVE  /\ Except(seq, S) \in Seq(T)
         /\ ToSet(Except(seq, S)) = ToSet(seq) \ S
         /\ IsInjective(seq) => IsInjective(Except(seq, S))
<1>1. PICK f : Retained(f, seq, S, Len(seq)) /\ Except(seq, S) = f[Len(seq)]
  BY RetainedByStep
<1>2. Len(seq) \in Nat /\ DOMAIN seq = 1..Len(seq) /\ \A i \in 1..Len(seq) : seq[i] \in T
  BY SequenceFacts
<1>3. f[0] = <<>>
  BY <1>1, <1>2 DEF Retained
<1>4. ASSUME NEW k \in Nat, k + 1 <= Len(seq)
      PROVE  f[k + 1] = IF seq[k + 1] \in S THEN f[k] ELSE Append(f[k], seq[k + 1])
  <2>1. k + 1 \in 0..Len(seq) /\ k + 1 # 0 /\ (k + 1) - 1 = k
    BY <1>2, <1>4
  <2>2. QED
    BY <1>1, <2>1 DEF Retained
<1> DEFINE Good(k) == f[k] \in Seq(T) /\ HoldsRest(f[k], seq, S, k)
           Q == {k \in Nat : k <= Len(seq) => Good(k)}
<1>5. 0 \in Q
  <2>1. ToSet(<<>>) = {} /\ IsInjective(<<>>) /\ <<>> \in Seq(T)
    BY DEF ToSet, IsInjective
  <2>2. HoldsRest(<<>>, seq, S, 0)
    BY <2>1 DEF HoldsRest
  <2>3. QED
    BY <1>3, <2>1, <2>2
<1>6. ASSUME NEW k \in Nat, k \in Q PROVE k + 1 \in Q
  <2> SUFFICES ASSUME k + 1 <= Len(seq) PROVE Good(k + 1)
    OBVIOUS
  <2>1. Good(k) /\ k + 1 \in 1..Len(seq)
    BY <1>2, <1>6
  <2>2. PICK r : r = f[k]
    OBVIOUS
  <2>3. PICK x : x = seq[k + 1]
    OBVIOUS
  <2>4. r \in Seq(T) /\ HoldsRest(r, seq, S, k) /\ x \in T
    BY <1>2, <2>1, <2>2, <2>3
  <2>5. \A y : (\E i \in 1..k + 1 : seq[i] = y) <=> (\E i \in 1..k : seq[i] = y) \/ y = x
    BY <2>3
  <2>6. CASE x \in S
    <3>1. f[k + 1] = r
      BY <1>4, <2>2, <2>3, <2>6
    <3>2. HoldsRest(r, seq, S, k + 1)
      BY <2>4, <2>5, <2>6 DEF HoldsRest
    <3>3. QED
      BY <2>4, <3>1, <3>2
  <2>7. CASE x \notin S
    <3>1. f[k + 1] = Append(r, x)
      BY <1>4, <2>2, <2>3, <2>7
    <3>2. Append(r, x) \in Seq(T)
      BY <2>4
    <3>3. IsInjective(seq) => x \notin ToSet(r)
      <4> SUFFICES ASSUME IsInjective(seq), x \in ToSet(r) PROVE FALSE
        OBVIOUS
      <4>1. PICK i \in 1..k : seq[i] = x
        BY <2>4 DEF HoldsRest
      <4>2. i \in DOMAIN seq /\ k + 1 \in DOMAIN seq /\ i # k + 1
        BY <1>2, <2>1
      <4>3. QED
        BY <2>3, <4>1, <4>2 DEF IsInjective
    <3>4. \A y : y \in ToSet(Append(r, x)) <=> y \in ToSet(r) \/ y = x
      BY <2>4, AppendKeeps
    <3>5. IsInjective(r) /\ x \notin ToSet(r) => IsInjective(Append(r, x))
      BY <2>4, AppendKeeps
    <3>6. HoldsRest(Append(r, x), seq, S, k + 1)
      BY <2>4, <2>5, <2>7, <3>3, <3>4, <3>5 DEF HoldsRest
    <3>7. QED
      BY <3>1, <3>2, <3>6
  <2>8. QED
    BY <2>6, <2>7
<1>7. Nat \subseteq Q
  <2> HIDE DEF Q
  <2>1. QED
    BY <1>5, <1>6, NatSetInduction
<1>8. Good(Len(seq))
  <2> HIDE DEF Good
  <2>1. QED
    BY <1>2, <1>7
<1>9. \A x : x \in ToSet(Except(seq, S)) <=> x \in ToSet(seq) \ S
  BY <1>1, <1>2, <1>8 DEF HoldsRest, ToSet
<1>10. QED
  BY <1>1, <1>8, <1>9 DEF HoldsRest

\* A finite set in some order.
LEMMA SetToSeqFacts ==
  ASSUME NEW S, IsFiniteSet(S)
  PROVE  /\ SetToSeq(S) \in Seq(S)
         /\ SetToSeq(S) \in [1..Cardinality(S) -> S]
         /\ IsInjective(SetToSeq(S))
         /\ ToSet(SetToSeq(S)) = S
<1> DEFINE D == 1..Cardinality(S)
<1>1. Cardinality(S) \in Nat /\ IsFiniteSet(D) /\ Cardinality(D) = Cardinality(S)
  BY FS_CardinalityType, FS_Interval
<1>2. \E f \in [D -> S] : IsInjective(f)
  <2>1. ExistsBijection(D, S)
    BY FS_CardinalityType
  <2>2. QED
    BY <2>1 DEF ExistsBijection, Bijection, Injection
<1>3. PICK f : f = SetToSeq(S)
  OBVIOUS
<1>4. f \in [D -> S] /\ IsInjective(f)
  BY <1>2, <1>3 DEF SetToSeq
<1>5. f \in Injection(D, S)
  BY <1>4 DEF Injection
<1>6. f \in Surjection(D, S)
  <2> HIDE DEF D
  <2>1. QED
    BY <1>1, <1>5, FS_Injection
<1>7. ToSet(f) = S
  BY <1>4, <1>6 DEF ToSet, Surjection
<1>8. f \in Seq(S)
  BY <1>1, <1>4
<1>9. QED
  BY <1>3, <1>4, <1>7, <1>8

\* A sequence without duplicates is as long as it has elements.
LEMMA LengthIsCardinality ==
  ASSUME NEW T, NEW s \in Seq(T), IsInjective(s)
  PROVE  IsFiniteSet(ToSet(s)) /\ Len(s) = Cardinality(ToSet(s))
<1>1. Len(s) \in Nat /\ DOMAIN s = 1..Len(s) /\ s \in [1..Len(s) -> T]
  BY SequenceFacts, LenProperties
<1>2. s \in [1..Len(s) -> ToSet(s)] /\ \A t \in ToSet(s) : \E i \in 1..Len(s) : s[i] = t
  BY <1>1 DEF ToSet
<1>3. s \in Bijection(1..Len(s), ToSet(s))
  BY <1>2 DEF Bijection, Injection, Surjection
<1>4. IsFiniteSet(1..Len(s)) /\ Cardinality(1..Len(s)) = Len(s)
  BY <1>1, FS_Interval
<1>5. ExistsBijection(1..Len(s), ToSet(s))
  BY <1>3 DEF ExistsBijection
<1>6. QED
  BY <1>4, <1>5, FS_Bijection

\* One sequence after another, by place.
Joined(u, s, t) ==
  /\ Len(u) = Len(s) + Len(t) /\ DOMAIN u = 1..Len(s) + Len(t)
  /\ \A i \in 1..Len(s) : i \in DOMAIN u /\ u[i] = s[i]
  /\ \A i \in 1..Len(t) : Len(s) + i \in DOMAIN u /\ u[Len(s) + i] = t[i]
  /\ \A i \in DOMAIN u : \/ i \in 1..Len(s) /\ u[i] = s[i]
                         \/ /\ i > Len(s) /\ i - Len(s) \in 1..Len(t)
                            /\ u[i] = t[i - Len(s)]

LEMMA ConcatPlaces ==
  ASSUME NEW T, NEW s \in Seq(T), NEW t \in Seq(T), NEW u, u = s \o t
  PROVE  u \in Seq(T) /\ Joined(u, s, t)
<1>2. Len(s) \in Nat /\ Len(t) \in Nat /\ DOMAIN s = 1..Len(s) /\ DOMAIN t = 1..Len(t)
  BY SequenceFacts
<1>3. /\ u \in Seq(T) /\ Len(u) = Len(s) + Len(t)
      /\ \A i \in 1..Len(s) + Len(t) : u[i] = IF i <= Len(s) THEN s[i] ELSE t[i - Len(s)]
  BY ConcatProperties
<1>4. DOMAIN u = 1..Len(s) + Len(t)
  BY <1>3, SequenceFacts
<1>5. \A i \in 1..Len(s) : i \in DOMAIN u /\ u[i] = s[i]
  BY <1>2, <1>3, <1>4
<1>6. \A i \in 1..Len(t) : Len(s) + i \in DOMAIN u /\ u[Len(s) + i] = t[i]
  <2> SUFFICES ASSUME NEW i \in 1..Len(t)
               PROVE  Len(s) + i \in DOMAIN u /\ u[Len(s) + i] = t[i]
    OBVIOUS
  <2>1. /\ Len(s) + i \in 1..Len(s) + Len(t) /\ ~(Len(s) + i <= Len(s))
        /\ (Len(s) + i) - Len(s) = i
    BY <1>2
  <2>2. QED
    BY <1>3, <1>4, <2>1
<1>7. \A i \in DOMAIN u : \/ i \in 1..Len(s) /\ u[i] = s[i]
                          \/ /\ i > Len(s) /\ i - Len(s) \in 1..Len(t)
                             /\ u[i] = t[i - Len(s)]
  BY <1>2, <1>3, <1>4
<1>8. QED
  BY <1>3, <1>4, <1>5, <1>6, <1>7 DEF Joined

\* One sequence after another, by what they hold.
LEMMA ConcatFacts ==
  ASSUME NEW T, NEW s \in Seq(T), NEW t \in Seq(T)
  PROVE  /\ s \o t \in Seq(T)
         /\ ToSet(s \o t) = ToSet(s) \cup ToSet(t)
         /\ IsInjective(s) /\ IsInjective(t) /\ ToSet(s) \cap ToSet(t) = {}
              => IsInjective(s \o t)
<1>1. PICK u : u = s \o t
  OBVIOUS
<1>2. Len(s) \in Nat /\ Len(t) \in Nat /\ DOMAIN s = 1..Len(s) /\ DOMAIN t = 1..Len(t)
  BY SequenceFacts
<1>3. u \in Seq(T) /\ DOMAIN u = 1..Len(s) + Len(t)
  BY <1>1, ConcatPlaces DEF Joined
<1>4. DOMAIN u = 1..Len(s) + Len(t)
  BY <1>3
<1>5. \A i \in 1..Len(s) : i \in DOMAIN u /\ u[i] = s[i]
  BY <1>1, ConcatPlaces DEF Joined
<1>6. \A i \in 1..Len(t) : Len(s) + i \in DOMAIN u /\ u[Len(s) + i] = t[i]
  BY <1>1, ConcatPlaces DEF Joined
<1>7. \A i \in DOMAIN u : \/ i \in 1..Len(s) /\ u[i] = s[i]
                          \/ /\ i > Len(s) /\ i - Len(s) \in 1..Len(t)
                             /\ u[i] = t[i - Len(s)]
  BY <1>1, ConcatPlaces DEF Joined
<1>8. ToSet(u) = ToSet(s) \cup ToSet(t)
  <2>1. \A x \in ToSet(u) : x \in ToSet(s) \/ x \in ToSet(t)
    BY <1>2, <1>7 DEF ToSet
  <2>2. \A x \in ToSet(s) : x \in ToSet(u)
    BY <1>2, <1>5 DEF ToSet
  <2>3. \A x \in ToSet(t) : x \in ToSet(u)
    BY <1>2, <1>6 DEF ToSet
  <2>4. QED
    BY <2>1, <2>2, <2>3
<1>9. ASSUME IsInjective(s), IsInjective(t), ToSet(s) \cap ToSet(t) = {}
      PROVE  IsInjective(u)
  <2> SUFFICES ASSUME NEW i \in DOMAIN u, NEW j \in DOMAIN u, u[i] = u[j]
               PROVE  i = j
    BY DEF IsInjective
  <2>0. i \in Int /\ j \in Int
    BY <1>4
  <2>1. CASE i \in 1..Len(s) /\ u[i] = s[i] /\ j \in 1..Len(s) /\ u[j] = s[j]
    BY <1>2, <1>9, <2>1 DEF IsInjective
  <2>2. CASE /\ i - Len(s) \in 1..Len(t) /\ u[i] = t[i - Len(s)]
             /\ j - Len(s) \in 1..Len(t) /\ u[j] = t[j - Len(s)]
    <3>1. i - Len(s) = j - Len(s)
      BY <1>2, <1>9, <2>2 DEF IsInjective
    <3>2. QED
      BY <1>2, <2>0, <3>1
  <2>3. ASSUME NEW a \in 1..Len(s), NEW c \in 1..Len(t) PROVE s[a] # t[c]
    BY <1>2, <1>9 DEF ToSet
  <2>4. QED
    BY <1>7, <2>1, <2>2, <2>3
<1>10. QED
  BY <1>1, <1>3, <1>8, <1>9

\* The first n elements of a sequence without duplicates, and the others.
LEMMA SplitFacts ==
  ASSUME NEW T, NEW s \in Seq(T), IsInjective(s), NEW n \in 0..Len(s)
  PROVE  /\ SubSeq(s, n + 1, Len(s)) \in Seq(T)
         /\ IsInjective(SubSeq(s, n + 1, Len(s)))
         /\ ToSet(SubSeq(s, n + 1, Len(s))) = ToSet(s) \ ToSet(SubSeq(s, 1, n))
<1>1. Len(s) \in Nat /\ DOMAIN s = 1..Len(s) /\ \A i \in 1..Len(s) : s[i] \in T
  BY SequenceFacts
<1>2. PICK a : a = SubSeq(s, 1, n)
  OBVIOUS
<1>3. PICK z : z = SubSeq(s, n + 1, Len(s))
  OBVIOUS
<1>4. /\ a \in Seq(T) /\ Len(a) = n
      /\ \A i \in 1..n : a[i] = s[i]
  <2>1. /\ a \in Seq(T) /\ Len(a) = (IF 1 <= n THEN n - 1 + 1 ELSE 0)
        /\ \A i \in 1..n - 1 + 1 : a[i] = s[1 + i - 1]
    <3>1. 1 \in Int /\ n \in Int /\ \A i \in 1..n : s[i] \in T
      BY <1>1
    <3>2. QED
      BY <1>2, <3>1, SubSeqProperties
  <2>2. QED
    BY <2>1
<1>5. /\ z \in Seq(T) /\ Len(z) = Len(s) - n
      /\ \A i \in 1..Len(s) - n : z[i] = s[n + i]
  <2>1. /\ z \in Seq(T)
        /\ Len(z) = (IF n + 1 <= Len(s) THEN Len(s) - (n + 1) + 1 ELSE 0)
        /\ \A i \in 1..Len(s) - (n + 1) + 1 : z[i] = s[(n + 1) + i - 1]
    <3>1. n + 1 \in Int /\ Len(s) \in Int /\ \A i \in n + 1..Len(s) : s[i] \in T
      BY <1>1
    <3>2. QED
      BY <1>3, <3>1, SubSeqProperties
  <2>2. Len(s) - (n + 1) + 1 = Len(s) - n
    BY <1>1
  <2>3. \A i \in 1..Len(s) - n : (n + 1) + i - 1 = n + i
    BY <1>1
  <2>4. Len(z) = Len(s) - n
    <3>1. PICK l \in Nat : l = Len(s)
      BY <1>1
    <3>2. (IF n + 1 <= l THEN l - (n + 1) + 1 ELSE 0) = l - n
      BY <3>1
    <3>3. QED
      BY <2>1, <3>1, <3>2
  <2>5. \A i \in 1..Len(s) - n : z[i] = s[n + i]
    BY <2>1, <2>2, <2>3
  <2>6. QED
    BY <2>1, <2>4, <2>5
<1>6. DOMAIN a = 1..n /\ DOMAIN z = 1..Len(s) - n
  BY <1>4, <1>5, SequenceFacts
<1>7. \A i \in 1..Len(s) - n : n + i \in 1..Len(s)
  BY <1>1
<1>8. \A i \in n + 1..Len(s) : i - n \in 1..Len(s) - n /\ n + (i - n) = i
  BY <1>1
<1>9. IsInjective(z)
  <2> SUFFICES ASSUME NEW i \in 1..Len(s) - n, NEW j \in 1..Len(s) - n, z[i] = z[j]
               PROVE  i = j
    BY <1>6 DEF IsInjective
  <2>1. n + i = n + j
    BY <1>1, <1>5, <1>7 DEF IsInjective
  <2>2. QED
    BY <2>1
<1>10. ToSet(z) = ToSet(s) \ ToSet(a)
  <2>1. ASSUME NEW x \in ToSet(z) PROVE x \in ToSet(s) /\ x \notin ToSet(a)
    <3>1. PICK i \in 1..Len(s) - n : z[i] = x
      BY <1>6, <2>1 DEF ToSet
    <3>2. s[n + i] = x /\ n + i \in 1..Len(s)
      BY <1>5, <1>7, <3>1
    <3>3. ASSUME NEW j \in 1..n, a[j] = x PROVE FALSE
      <4>1. s[j] = x /\ j \in 1..Len(s) /\ j # n + i
        BY <1>1, <1>4, <3>3
      <4>2. QED
        BY <1>1, <3>2, <4>1 DEF IsInjective
    <3>4. QED
      BY <1>1, <1>6, <3>2, <3>3 DEF ToSet
  <2>2. ASSUME NEW x \in ToSet(s), x \notin ToSet(a) PROVE x \in ToSet(z)
    <3>1. PICK i \in 1..Len(s) : s[i] = x
      BY <1>1 DEF ToSet
    <3>2. i \notin 1..n
      BY <1>4, <1>6, <2>2, <3>1 DEF ToSet
    <3>3. i \in n + 1..Len(s)
      BY <1>1, <3>2
    <3>4. z[i - n] = x /\ i - n \in 1..Len(s) - n
      BY <1>5, <1>8, <3>1, <3>3
    <3>5. QED
      BY <1>6, <3>4 DEF ToSet
  <2>3. QED
    BY <2>1, <2>2
<1>11. QED
  BY <1>2, <1>3, <1>5, <1>9, <1>10

-----------------------------------------------------------------------------
(* The operations of the cache *)

\* A cache value, by its fields.
Shape(b) ==
  b = [by_container_id |-> b.by_container_id, by_pod_uid |-> b.by_pod_uid,
       insertion_order |-> b.insertion_order, max_containers |-> b.max_containers]

\* The index names the containers that are cached, each under its own pod.
Indexed(b) ==
  /\ DOMAIN b.by_pod_uid \subseteq Pods
  /\ \A p \in DOMAIN b.by_pod_uid :
       /\ b.by_pod_uid[p] \in Seq(Containers) /\ b.by_pod_uid[p] # <<>>
       /\ ToSet(b.by_pod_uid[p]) \subseteq Of(p)
  /\ \A c \in Containers :
       c \in Cached(b) <=> /\ PodOf[c] \in DOMAIN b.by_pod_uid
                           /\ c \in ToSet(b.by_pod_uid[PodOf[c]])

\* The order of insertion has every cached container once.
Ordered(b) ==
  /\ b.insertion_order \in Seq(Containers)
  /\ IsInjective(b.insertion_order)
  /\ ToSet(b.insertion_order) = Cached(b)

Sound(b) ==
  /\ Shape(b) /\ b.max_containers \in Nat
  /\ Cached(b) \subseteq Containers
  /\ \A c \in Cached(b) : b.by_container_id[c] = PodOf[c]
  /\ Indexed(b)
  /\ Ordered(b)

Fits(b) == Cardinality(Cached(b)) <= b.max_containers

LEMMA Cluster ==
  /\ IsFiniteSet(Containers) /\ IsFiniteSet(Pods)
  /\ \A c \in Containers : PodOf[c] \in Pods
  /\ MemoMax \in Nat
  /\ Capacities \subseteq Nat
BY BindingAssumption

\* What is cached is finite.
LEMMA CachedIsFinite ==
  ASSUME NEW S \in SUBSET Containers
  PROVE  IsFiniteSet(S) /\ Cardinality(S) \in Nat
BY Cluster, FS_Subset, FS_CardinalityType

LEMMA SmallerFits ==
  ASSUME NEW S \in SUBSET Containers, NEW R \in SUBSET S
  PROVE  Cardinality(R) <= Cardinality(S)
BY CachedIsFinite, FS_Subset

LEMMA EmptyIsSound ==
  ASSUME NEW max \in Nat
  PROVE  Sound(EmptyCache(max)) /\ Fits(EmptyCache(max)) /\ Cached(EmptyCache(max)) = {}
<1>1. PICK b : b = EmptyCache(max)
  OBVIOUS
<1>2. /\ b.by_container_id = <<>> /\ b.by_pod_uid = <<>> /\ b.insertion_order = <<>>
      /\ b.max_containers = max /\ Shape(b)
  BY <1>1 DEF EmptyCache, Shape
<1>3. Cached(b) = {} /\ DOMAIN b.by_pod_uid = {}
  BY <1>2 DEF Cached
<1>4. Indexed(b)
  BY <1>3 DEF Indexed
<1>5. Ordered(b)
  BY <1>2, <1>3 DEF Ordered, IsInjective, ToSet
<1>6. Fits(b)
  BY <1>2, <1>3, FS_EmptySet DEF Fits
<1>7. QED
  BY <1>1, <1>2, <1>3, <1>4, <1>5, <1>6 DEF Sound

\* Removing pods leaves a sound cache without their containers.
LEMMA RemoveKeeps ==
  ASSUME NEW b, Sound(b), NEW ps, NEW r, r = remove_pods(b, ps)
  PROVE  /\ Sound(r) /\ r.max_containers = b.max_containers
         /\ \A c : c \in Cached(r) <=> c \in Cached(b) /\ PodOf[c] \notin ps
         /\ \A p : p \in DOMAIN r.by_pod_uid <=> p \in DOMAIN b.by_pod_uid /\ p \notin ps
<1> DEFINE gone == UNION {ToSet(b.by_pod_uid[p]) : p \in ps \cap DOMAIN b.by_pod_uid}
<1>1. PICK G : G = gone
  OBVIOUS
<1>2. \A c \in Containers : c \in G <=> c \in Cached(b) /\ PodOf[c] \in ps
  <2>1. ASSUME NEW c \in Containers, c \in G PROVE c \in Cached(b) /\ PodOf[c] \in ps
    <3>1. PICK p \in ps \cap DOMAIN b.by_pod_uid : c \in ToSet(b.by_pod_uid[p])
      BY <1>1, <2>1
    <3>2. PodOf[c] = p
      BY <3>1 DEF Sound, Indexed, Of
    <3>3. QED
      BY <3>1, <3>2 DEF Sound, Indexed
  <2>2. ASSUME NEW c \in Containers, c \in Cached(b), PodOf[c] \in ps PROVE c \in G
    BY <1>1, <2>2 DEF Sound, Indexed
  <2>3. QED
    BY <2>1, <2>2
<1>3. r = [b EXCEPT !.by_container_id = Only(b.by_container_id, Cached(b) \ G),
                    !.by_pod_uid = Only(b.by_pod_uid, DOMAIN b.by_pod_uid \ ps),
                    !.insertion_order = Except(b.insertion_order, G)]
  BY <1>1 DEF remove_pods
<1>4. /\ Shape(r) /\ r.max_containers = b.max_containers
      /\ r.by_container_id = Only(b.by_container_id, Cached(b) \ G)
      /\ r.by_pod_uid = Only(b.by_pod_uid, DOMAIN b.by_pod_uid \ ps)
      /\ r.insertion_order = Except(b.insertion_order, G)
  <2>1. Shape(b)
    BY DEF Sound
  <2>2. QED
    BY <1>3, <2>1 DEF Shape
<1>5. /\ Cached(r) = Cached(b) \ G
      /\ \A c \in Cached(r) : r.by_container_id[c] = b.by_container_id[c]
  BY <1>4 DEF Cached, Only
<1>6. /\ DOMAIN r.by_pod_uid = DOMAIN b.by_pod_uid \ ps
      /\ \A p \in DOMAIN r.by_pod_uid : r.by_pod_uid[p] = b.by_pod_uid[p]
  BY <1>4 DEF Only
<1>7. Cached(b) \subseteq Containers
  BY DEF Sound
<1>8. Ordered(r)
  BY <1>4, <1>5, ExceptFacts DEF Sound, Ordered
<1>9. Indexed(r)
  <2>1. ASSUME NEW c \in Containers
        PROVE  c \in Cached(r) <=> /\ PodOf[c] \in DOMAIN r.by_pod_uid
                                   /\ c \in ToSet(r.by_pod_uid[PodOf[c]])
    BY <1>2, <1>5, <1>6 DEF Sound, Indexed
  <2>2. QED
    BY <1>6, <2>1 DEF Sound, Indexed
<1>10. Sound(r)
  BY <1>4, <1>5, <1>8, <1>9 DEF Sound
<1>11. QED
  BY <1>2, <1>4, <1>5, <1>6, <1>7, <1>10

WithIndex(b, p, cs) ==
  IF cs = <<>> THEN b ELSE [b EXCEPT !.by_pod_uid = Put(@, p, cs)]

\* A pod's containers come into a sound cache that has none of them.
LEMMA FillKeeps ==
  ASSUME NEW a, Sound(a), NEW p \in Pods, p \notin DOMAIN a.by_pod_uid,
         NEW cs \in Seq(Of(p)), IsInjective(cs), NEW i, NEW f,
         i = insert_containers(a, p, cs), f = WithIndex(i, p, cs)
  PROVE  /\ Sound(f) /\ f.max_containers = a.max_containers
         /\ Cached(f) = Cached(a) \cup ToSet(cs)
         /\ DOMAIN f.by_pod_uid \subseteq DOMAIN a.by_pod_uid \cup {p}
<1>1. cs \in Seq(Containers) /\ ToSet(cs) \subseteq Of(p) /\ ToSet(cs) \subseteq Containers
  <2>1. DOMAIN cs = 1..Len(cs) /\ \A k \in 1..Len(cs) : cs[k] \in Of(p)
    BY SequenceFacts
  <2>2. \A c \in Of(p) : c \in Containers
    BY DEF Of
  <2>3. QED
    BY <2>1, <2>2 DEF ToSet
<1>2. \A c \in Of(p) : c \in Containers /\ PodOf[c] = p
  BY DEF Of
<1>3. Cached(a) \cap ToSet(cs) = {}
  BY <1>1, <1>2 DEF Sound, Indexed
<1>4. i = [a EXCEPT !.by_container_id = [c \in Cached(a) \cup ToSet(cs) |->
                                     IF c \in ToSet(cs) THEN p ELSE a.by_container_id[c]],
                    !.insertion_order = a.insertion_order \o Except(cs, Cached(a))]
  BY DEF insert_containers
<1>5. /\ Shape(i) /\ i.max_containers = a.max_containers /\ i.by_pod_uid = a.by_pod_uid
      /\ i.by_container_id = [c \in Cached(a) \cup ToSet(cs) |->
                                IF c \in ToSet(cs) THEN p ELSE a.by_container_id[c]]
      /\ i.insertion_order = a.insertion_order \o Except(cs, Cached(a))
  <2>1. Shape(a)
    BY DEF Sound
  <2>2. QED
    BY <1>4, <2>1 DEF Shape
<1>6. /\ Shape(f) /\ f.max_containers = i.max_containers
      /\ f.by_container_id = i.by_container_id /\ f.insertion_order = i.insertion_order
      /\ f.by_pod_uid = IF cs = <<>> THEN a.by_pod_uid ELSE Put(a.by_pod_uid, p, cs)
  BY <1>5 DEF Shape, WithIndex
<1>7. /\ Cached(f) = Cached(a) \cup ToSet(cs)
      /\ \A c \in Cached(f) : f.by_container_id[c] = PodOf[c]
  BY <1>1, <1>2, <1>5, <1>6 DEF Cached, Sound
<1>8. Ordered(f)
  <2>1. PICK e : e = Except(cs, Cached(a))
    OBVIOUS
  <2>2. e \in Seq(Containers) /\ ToSet(e) = ToSet(cs) /\ IsInjective(e)
    <3>1. e \in Seq(Containers) /\ ToSet(e) = ToSet(cs) \ Cached(a) /\ IsInjective(e)
      BY <1>1, <2>1, ExceptFacts
    <3>2. QED
      BY <1>3, <3>1
  <2>3. ToSet(a.insertion_order) \cap ToSet(e) = {}
    BY <1>3, <2>2 DEF Sound, Ordered
  <2>4. PICK s : s = a.insertion_order
    OBVIOUS
  <2>5. s \in Seq(Containers) /\ IsInjective(s) /\ ToSet(s) = Cached(a)
    BY <2>4 DEF Sound, Ordered
  <2>6. s \o e \in Seq(Containers) /\ ToSet(s \o e) = ToSet(s) \cup ToSet(e) /\ IsInjective(s \o e)
    BY <2>2, <2>3, <2>4, <2>5, ConcatFacts
  <2>7. f.insertion_order = s \o e
    BY <1>5, <1>6, <2>1, <2>4
  <2>8. ToSet(f.insertion_order) = Cached(f)
    BY <1>7, <2>2, <2>5, <2>6, <2>7
  <2>9. QED
    BY <2>6, <2>7, <2>8 DEF Ordered
<1>9. Indexed(f) /\ DOMAIN f.by_pod_uid \subseteq DOMAIN a.by_pod_uid \cup {p}
  <2>1. CASE cs = <<>>
    <3>1. ToSet(cs) = {}
      BY <2>1 DEF ToSet
    <3>2. Cached(f) = Cached(a) /\ f.by_pod_uid = a.by_pod_uid
      BY <1>6, <1>7, <2>1, <3>1
    <3>3. QED
      BY <3>2 DEF Sound, Indexed
  <2>2. CASE cs # <<>>
    <3>1. /\ DOMAIN f.by_pod_uid = DOMAIN a.by_pod_uid \cup {p}
          /\ f.by_pod_uid[p] = cs
          /\ \A q \in DOMAIN a.by_pod_uid : q # p /\ f.by_pod_uid[q] = a.by_pod_uid[q]
      BY <1>6, <2>2 DEF Put
    <3>2. ASSUME NEW c \in Containers
          PROVE  c \in Cached(f) <=> /\ PodOf[c] \in DOMAIN f.by_pod_uid
                                     /\ c \in ToSet(f.by_pod_uid[PodOf[c]])
      <4>1. CASE PodOf[c] = p
        <5>1. c \notin Cached(a)
          BY <4>1 DEF Sound, Indexed
        <5>2. QED
          BY <1>7, <3>1, <4>1, <5>1
      <4>2. CASE PodOf[c] # p
        <5>1. c \notin ToSet(cs)
          BY <1>1, <1>2, <4>2
        <5>2. QED
          BY <1>7, <3>1, <4>2, <5>1 DEF Sound, Indexed
      <4>3. QED
        BY <4>1, <4>2
    <3>3. ASSUME NEW q \in DOMAIN f.by_pod_uid
          PROVE  /\ f.by_pod_uid[q] \in Seq(Containers) /\ f.by_pod_uid[q] # <<>>
                 /\ ToSet(f.by_pod_uid[q]) \subseteq Of(q)
      BY <1>1, <2>2, <3>1 DEF Sound, Indexed
    <3>4. DOMAIN f.by_pod_uid \subseteq Pods
      BY <3>1 DEF Sound, Indexed
    <3>5. QED
      BY <3>1, <3>2, <3>3, <3>4 DEF Indexed
  <2>3. QED
    BY <2>1, <2>2
<1>10. QED
  BY <1>1, <1>5, <1>6, <1>7, <1>8, <1>9 DEF Sound

\* How many eviction takes from the front: as few as needed.
Evictions(b) ==
  LET fits(k) == Cardinality(Cached(b) \ ToSet(SubSeq(b.insertion_order, 1, k)))
                   <= b.max_containers
  IN  CHOOSE k \in 0..Len(b.insertion_order) :
        /\ fits(k) \/ k = Len(b.insertion_order)
        /\ \A m \in 0..k - 1 : ~fits(m)

LEMMA EvictCount ==
  ASSUME NEW b, Sound(b), NEW n, n = Evictions(b)
  PROVE  /\ n \in 0..Len(b.insertion_order)
         /\ Cardinality(Cached(b) \ ToSet(SubSeq(b.insertion_order, 1, n)))
              <= b.max_containers
         /\ Fits(b) => n = 0
<1> DEFINE s == b.insertion_order
           fits(k) == Cardinality(Cached(b) \ ToSet(SubSeq(s, 1, k))) <= b.max_containers
           N == {k \in 0..Len(s) : fits(k) \/ k = Len(s)}
<1>1. s \in Seq(Containers) /\ Len(s) \in Nat
  BY SequenceFacts DEF Sound, Ordered
<1>2. PICK k \in N : \A m \in N : k <= m
  <2>1. N \in SUBSET Nat /\ Len(s) \in N
    BY <1>1
  <2> HIDE DEF N
  <2>2. QED
    BY <2>1, LeastNumber
<1>3. \A m \in 0..k - 1 : ~fits(m)
  <2> SUFFICES ASSUME NEW m \in 0..k - 1, fits(m) PROVE FALSE
    OBVIOUS
  <2>1. m \in 0..Len(s) /\ m < k
    BY <1>1
  <2>2. m \in N
    BY <2>1
  <2>3. QED
    <3> HIDE DEF N
    <3>1. k <= m /\ k \in Nat /\ m \in Nat
      BY <1>1, <1>2, <2>2
    <3>2. QED
      BY <2>1, <3>1
<1>4. \E x \in 0..Len(s) : (fits(x) \/ x = Len(s)) /\ \A m \in 0..x - 1 : ~fits(m)
  BY <1>2, <1>3
<1>5. n \in 0..Len(s) /\ (fits(n) \/ n = Len(s)) /\ \A m \in 0..n - 1 : ~fits(m)
  <2> HIDE DEF fits
  <2>1. n = CHOOSE x \in 0..Len(s) : (fits(x) \/ x = Len(s)) /\ \A m \in 0..x - 1 : ~fits(m)
    BY DEF fits, Evictions
  <2>2. QED
    BY <1>4, <2>1
<1>6. fits(n)
  <2> SUFFICES ASSUME n = Len(s) PROVE fits(n)
    BY <1>5
  <2>1. SubSeq(s, 1, n) = s
    BY <1>1, SubSeqFull
  <2>2. Cached(b) \ ToSet(SubSeq(s, 1, n)) = {}
    BY <2>1 DEF Sound, Ordered
  <2>3. QED
    <3>1. Cardinality({}) = 0 /\ b.max_containers \in Nat
      BY FS_EmptySet DEF Sound
    <3>2. PICK rest : rest = Cached(b) \ ToSet(SubSeq(s, 1, n))
      OBVIOUS
    <3>3. Cardinality(rest) <= b.max_containers
      <4>1. rest = {}
        BY <2>2, <3>2
      <4> HIDE DEF N
      <4>2. Cardinality(rest) = 0
        BY <3>1, <4>1
      <4>3. QED
        BY <3>1, <4>2
    <3>4. QED
      BY <3>2, <3>3
<1>7. Fits(b) => n = 0
  <2> SUFFICES ASSUME Fits(b), n # 0 PROVE FALSE
    OBVIOUS
  <2>1. 0 \in 0..n - 1
    <3>1. n \in Nat
      BY <1>1, <1>5
    <3>2. QED
      BY <3>1
  <2>2. ~fits(0)
    BY <1>5, <2>1
  <2>3. SubSeq(s, 1, 0) = <<>>
    BY SubSeqEmpty
  <2>4. Cached(b) \ ToSet(SubSeq(s, 1, 0)) = Cached(b)
    BY <2>3 DEF ToSet
  <2>5. QED
    BY <2>2, <2>4 DEF Fits
<1>8. QED
  BY <1>5, <1>6, <1>7

\* Eviction leaves a sound cache that fits, and takes nothing from one that does.
LEMMA EvictKeeps ==
  ASSUME NEW b, Sound(b), NEW r, r = evict_to_capacity(b)
  PROVE  /\ Sound(r) /\ Fits(r) /\ r.max_containers = b.max_containers
         /\ Cached(r) \subseteq Cached(b)
         /\ Fits(b) => Cached(r) = Cached(b)
         /\ DOMAIN r.by_pod_uid \subseteq DOMAIN b.by_pod_uid
<1>1. CASE b.max_containers = 0
  <2>1. r = EmptyCache(0) /\ r.max_containers = 0 /\ r.by_pod_uid = <<>>
    BY <1>1 DEF evict_to_capacity, EmptyCache
  <2>2. Sound(r) /\ Fits(r) /\ Cached(r) = {}
    BY <2>1, EmptyIsSound
  <2>3. Fits(b) => Cached(b) = {}
    <3> SUFFICES ASSUME Fits(b) PROVE Cached(b) = {}
      OBVIOUS
    <3>1. PICK S : S = Cached(b)
      OBVIOUS
    <3>2. S \in SUBSET Containers /\ Cardinality(S) <= 0
      BY <1>1, <3>1 DEF Sound, Fits
    <3>3. IsFiniteSet(S) /\ Cardinality(S) = 0
      BY <3>2, CachedIsFinite
    <3>4. QED
      BY <3>1, <3>3, FS_EmptySet
  <2>4. DOMAIN r.by_pod_uid = {}
    BY <2>1
  <2>5. QED
    BY <1>1, <2>1, <2>2, <2>3, <2>4
<1>2. CASE b.max_containers # 0
  <2>1. PICK n : n = Evictions(b)
    OBVIOUS
  <2>2. PICK G : G = ToSet(SubSeq(b.insertion_order, 1, n))
    OBVIOUS
  <2>3. /\ n \in 0..Len(b.insertion_order)
        /\ Cardinality(Cached(b) \ G) <= b.max_containers
        /\ Fits(b) => n = 0
    BY <2>1, <2>2, EvictCount
  <2>4. r = [b EXCEPT !.by_container_id = Only(b.by_container_id, Cached(b) \ G),
                      !.by_pod_uid = remove_from_pod_index(b.by_pod_uid, G),
                      !.insertion_order = SubSeq(b.insertion_order, n + 1,
                                                 Len(b.insertion_order))]
    BY <1>2, <2>1, <2>2 DEF evict_to_capacity, Evictions
  <2>5. /\ Shape(r) /\ r.max_containers = b.max_containers
        /\ r.by_container_id = Only(b.by_container_id, Cached(b) \ G)
        /\ r.by_pod_uid = remove_from_pod_index(b.by_pod_uid, G)
        /\ r.insertion_order = SubSeq(b.insertion_order, n + 1, Len(b.insertion_order))
    <3>1. Shape(b)
      BY DEF Sound
    <3>2. QED
      BY <2>4, <3>1 DEF Shape
  <2>6. /\ Cached(r) = Cached(b) \ G
        /\ \A c \in Cached(r) : r.by_container_id[c] = b.by_container_id[c]
    BY <2>5 DEF Cached, Only
  <2>7. Ordered(r)
    <3>1. PICK s : s = b.insertion_order
      OBVIOUS
    <3>2. s \in Seq(Containers) /\ IsInjective(s) /\ ToSet(s) = Cached(b) /\ n \in 0..Len(s)
      BY <2>3, <3>1 DEF Sound, Ordered
    <3>3. PICK z : z = SubSeq(s, n + 1, Len(s))
      OBVIOUS
    <3>4. z \in Seq(Containers) /\ IsInjective(z) /\ ToSet(z) = ToSet(s) \ G
      BY <2>2, <3>1, <3>2, <3>3, SplitFacts
    <3>5. QED
      BY <2>5, <2>6, <3>1, <3>2, <3>3, <3>4 DEF Ordered
  <2>8. /\ \A p : p \in DOMAIN r.by_pod_uid <=>
                    p \in DOMAIN b.by_pod_uid /\ Except(b.by_pod_uid[p], G) # <<>>
        /\ \A p \in DOMAIN r.by_pod_uid : r.by_pod_uid[p] = Except(b.by_pod_uid[p], G)
    BY <2>5 DEF remove_from_pod_index, Only
  <2>9. ASSUME NEW p \in DOMAIN b.by_pod_uid
        PROVE  /\ Except(b.by_pod_uid[p], G) \in Seq(Containers)
               /\ ToSet(Except(b.by_pod_uid[p], G)) = ToSet(b.by_pod_uid[p]) \ G
    BY ExceptFacts DEF Sound, Indexed
  <2>10. Indexed(r)
    <3>1. ASSUME NEW c \in Containers
          PROVE  c \in Cached(r) <=> /\ PodOf[c] \in DOMAIN r.by_pod_uid
                                     /\ c \in ToSet(r.by_pod_uid[PodOf[c]])
      <4>1. PICK p : p = PodOf[c]
        OBVIOUS
      <4>2. c \in Cached(b) <=> p \in DOMAIN b.by_pod_uid /\ c \in ToSet(b.by_pod_uid[p])
        BY <4>1 DEF Sound, Indexed
      <4>3. p \in DOMAIN b.by_pod_uid /\ c \in ToSet(b.by_pod_uid[p]) \ G
              => Except(b.by_pod_uid[p], G) # <<>>
        <5>1. ToSet(<<>>) = {}
          BY DEF ToSet
        <5>2. QED
          BY <2>9, <5>1
      <4>4. QED
        BY <2>6, <2>8, <2>9, <4>1, <4>2, <4>3
    <3>2. ASSUME NEW p \in DOMAIN r.by_pod_uid
          PROVE  /\ r.by_pod_uid[p] \in Seq(Containers) /\ r.by_pod_uid[p] # <<>>
                 /\ ToSet(r.by_pod_uid[p]) \subseteq Of(p) /\ p \in Pods
      <4>1. p \in DOMAIN b.by_pod_uid /\ p \in Pods /\ ToSet(b.by_pod_uid[p]) \subseteq Of(p)
        BY <2>8 DEF Sound, Indexed
      <4>2. QED
        BY <2>8, <2>9, <4>1
    <3>3. QED
      BY <3>1, <3>2 DEF Indexed
  <2>11. Fits(b) => Cached(r) = Cached(b)
    <3> SUFFICES ASSUME Fits(b) PROVE Cached(r) = Cached(b)
      OBVIOUS
    <3>1. SubSeq(b.insertion_order, 1, 0) = <<>>
      BY SubSeqEmpty
    <3>2. G = {}
      BY <2>2, <2>3, <3>1 DEF ToSet
    <3>3. QED
      BY <2>6, <3>2
  <2>12. Sound(r)
    BY <2>5, <2>6, <2>7, <2>10 DEF Sound
  <2>13. QED
    BY <2>3, <2>5, <2>6, <2>8, <2>11, <2>12 DEF Fits
<1>3. QED
  BY <1>1, <1>2

\* A snapshot replaces the pod's containers, and evicts only when it must.
LEMMA SnapshotKeeps ==
  ASSUME NEW b, Sound(b), Fits(b), NEW p \in Pods, NEW cs \in Seq(Of(p)), IsInjective(cs),
         NEW r, r = apply_pod_snapshot(b, p, cs)
  PROVE  /\ Sound(r) /\ Fits(r) /\ r.max_containers = b.max_containers
         /\ \A c \in Cached(r) : IF PodOf[c] = p THEN c \in ToSet(cs) ELSE c \in Cached(b)
         /\ b.max_containers >= Cardinality(Containers) =>
              \A c \in Containers : (IF PodOf[c] = p THEN c \in ToSet(cs) ELSE c \in Cached(b))
                                      => c \in Cached(r)
         /\ DOMAIN r.by_pod_uid \subseteq DOMAIN b.by_pod_uid \cup {p}
<1>1. PICK a : a = remove_pods(b, {p})
  OBVIOUS
<1>2. /\ Sound(a) /\ a.max_containers = b.max_containers
      /\ \A c : c \in Cached(a) <=> c \in Cached(b) /\ PodOf[c] # p
      /\ \A q : q \in DOMAIN a.by_pod_uid <=> q \in DOMAIN b.by_pod_uid /\ q # p
  BY <1>1, RemoveKeeps
<1>3. PICK i : i = insert_containers(a, p, cs)
  OBVIOUS
<1>4. PICK f : f = WithIndex(i, p, cs)
  OBVIOUS
<1>5. /\ Sound(f) /\ f.max_containers = a.max_containers
      /\ Cached(f) = Cached(a) \cup ToSet(cs)
      /\ DOMAIN f.by_pod_uid \subseteq DOMAIN a.by_pod_uid \cup {p}
  BY <1>2, <1>3, <1>4, FillKeeps
<1>6. r = evict_to_capacity(f)
  BY <1>1, <1>3, <1>4 DEF apply_pod_snapshot, WithIndex
<1>7. /\ Sound(r) /\ Fits(r) /\ r.max_containers = f.max_containers
      /\ Cached(r) \subseteq Cached(f)
      /\ Fits(f) => Cached(r) = Cached(f)
      /\ DOMAIN r.by_pod_uid \subseteq DOMAIN f.by_pod_uid
  BY <1>5, <1>6, EvictKeeps
<1>8. \A c \in ToSet(cs) : PodOf[c] = p
  <2>1. DOMAIN cs = 1..Len(cs) /\ \A k \in 1..Len(cs) : cs[k] \in Of(p)
    BY SequenceFacts
  <2>2. QED
    BY <2>1 DEF ToSet, Of
<1>9. b.max_containers >= Cardinality(Containers) => Fits(f)
  <2>1. PICK S : S = Cached(f)
    OBVIOUS
  <2>2. S \in SUBSET Containers
    BY <1>5, <2>1 DEF Sound
  <2>3. Cardinality(S) <= Cardinality(Containers) /\ Cardinality(S) \in Nat
    BY <2>2, SmallerFits, CachedIsFinite
  <2>4. Cardinality(Containers) \in Nat /\ b.max_containers \in Nat
    BY Cluster, FS_CardinalityType DEF Sound
  <2>5. QED
    BY <1>2, <1>5, <2>1, <2>3, <2>4 DEF Fits
<1>10. QED
  BY <1>2, <1>5, <1>7, <1>8, <1>9

-----------------------------------------------------------------------------
(* The inductive invariant *)

Kinds == {"Init", "InitApply", "InitDone", "Apply", "Delete", "Err"}
Events == [type : Kinds, pod : Pods \cup {"none"}, containers : Seq(Containers)]

\* An event that says what containers pod p has.
Word(e, p) == e.type \in {"Apply", "InitApply", "Delete"} /\ e.pod = p

Types ==
  /\ status \in [Pods -> {"new", "present", "deleted"}]
  /\ listed \subseteq Containers
  /\ watching \in BOOLEAN
  /\ known_pods \subseteq Pods
  /\ init_seen = {} \/ \E seen \in SUBSET Pods : init_seen = {seen}
  /\ memo \subseteq Containers \cup {Host}
  /\ Cardinality(memo) <= MemoMax
  /\ \A c \in listed : status[PodOf[c]] = "present"

\* An event tells each container of a pod once, and none of a deleted one.
Plausible(e) ==
  \A p : Word(e, p) => /\ p \in Pods
                       /\ e.containers \in Seq(Of(p)) /\ IsInjective(e.containers)
                       /\ e.type = "Delete" => ToSet(e.containers) = {}

Stream == queue \in Seq(Events) /\ \A i \in DOMAIN queue : Plausible(queue[i])

CacheSound ==
  /\ Sound(cache) /\ Fits(cache)
  /\ DOMAIN cache.by_pod_uid \subseteq known_pods

NoneAfter(q, i, type) == \A j \in DOMAIN q : j > i => q[j].type # type
SilentAfter(q, i, p) == \A j \in DOMAIN q : j > i => ~Word(q[j], p)

\* The last word on p is on its way, and true.
Announced(p) ==
  \E i \in DOMAIN queue :
    /\ Word(queue[i], p) /\ SilentAfter(queue, i, p)
    /\ NoneAfter(queue, i, "Init")
    /\ queue[i].type # "InitApply" => NoneAfter(queue, i, "InitDone")
    /\ ToSet(queue[i].containers) = listed \cap Of(p)

\* The list on its way, or half read, does not have p; nor has the cluster.
Unlisted(p) ==
  /\ listed \cap Of(p) = {}
  /\ \/ \E k, d \in DOMAIN queue :
          /\ queue[k].type = "Init" /\ queue[d].type = "InitDone" /\ k < d
          /\ NoneAfter(queue, k, "Init") /\ SilentAfter(queue, k, p)
     \/ /\ NoneAfter(queue, 0, "Init") /\ SilentAfter(queue, 0, p)
        /\ \E d \in DOMAIN queue : queue[d].type = "InitDone"
        /\ init_seen # {} /\ \A seen \in init_seen : p \notin seen

\* The cache has of p what the cluster lists.
Matches(p) ==
  \A c \in Of(p) :
    /\ c \in Cached(cache) => c \in listed
    /\ cache.max_containers >= Cardinality(Containers) /\ c \in listed
         => c \in Cached(cache)

\* All that was said of p has been read, and a list that ends has p.
Applied(p) ==
  /\ NoneAfter(queue, 0, "Init") /\ SilentAfter(queue, 0, p)
  /\ Matches(p)
  /\ NoneAfter(queue, 0, "InitDone") \/ \A seen \in init_seen : p \in seen

Follows == watching => \A p \in Pods : Announced(p) \/ Unlisted(p) \/ Applied(p)

\* A lookup goes on with the container of the event's own cgroup.
Looking ==
  /\ reader.pc = "bind" => /\ reader.pod = "none" /\ reader.cgroup \in Containers
                           /\ reader.container = reader.cgroup
  /\ BoundToItsPod

IInv == Types /\ Stream /\ CacheSound /\ Follows

-----------------------------------------------------------------------------
(* The stream *)

LEMMA QueueFacts ==
  ASSUME Stream
  PROVE  /\ Len(queue) \in Nat /\ DOMAIN queue = 1..Len(queue)
         /\ \A i \in DOMAIN queue : queue[i] \in Events
BY SequenceFacts DEF Stream

LEMMA MarksAreEvents ==
  ASSUME NEW type \in Kinds
  PROVE  /\ Mark(type) \in Events /\ Mark(type).type = type
         /\ type \notin {"Apply", "InitApply", "Delete"} => \A p : ~Word(Mark(type), p)
<1>1. /\ Mark(type).type = type
      /\ Mark(type) = [type |-> type, pod |-> "none", containers |-> <<>>]
  BY DEF Mark, Event
<1>2. <<>> \in Seq(Containers)
  OBVIOUS
<1>3. QED
  BY <1>1, <1>2 DEF Events, Word

\* A pod's containers as an event tells them.
Tells(e, type, p, cs) ==
  /\ e \in Events /\ e.type = type /\ e.pod = p
  /\ e.containers \in Seq(Of(p)) /\ IsInjective(e.containers)
  /\ ToSet(e.containers) = cs

LEMMA EventTells ==
  ASSUME NEW type \in Kinds, NEW p \in Pods, NEW cs \in SUBSET Of(p)
  PROVE  Tells(Event(type, p, SetToSeq(cs)), type, p, cs)
<1>1. cs \in SUBSET Containers
  BY DEF Of
<1>2. PICK s : s = SetToSeq(cs)
  OBVIOUS
<1>3. s \in Seq(cs) /\ IsInjective(s) /\ ToSet(s) = cs
  BY <1>1, <1>2, CachedIsFinite, SetToSeqFacts
<1>4. DOMAIN s = 1..Len(s) /\ Len(s) \in Nat /\ \A i \in 1..Len(s) : s[i] \in cs
  BY <1>3, SequenceFacts
<1>5. s \in Seq(Of(p)) /\ s \in Seq(Containers)
  BY <1>1, <1>3
<1>6. Event(type, p, s) = [type |-> type, pod |-> p, containers |-> s]
  BY DEF Event
<1>7. QED
  BY <1>2, <1>3, <1>5, <1>6 DEF Tells, Events

LEMMA EmptyTells ==
  ASSUME NEW type \in Kinds, NEW p \in Pods
  PROVE  Tells(Event(type, p, <<>>), type, p, {})
<1>1. PICK s : s = <<>>
  OBVIOUS
<1>2. s \in Seq(Of(p)) /\ s \in Seq(Containers) /\ ToSet(s) = {} /\ IsInjective(s)
  BY <1>1 DEF ToSet, IsInjective
<1>3. Event(type, p, s) = [type |-> type, pod |-> p, containers |-> s]
  BY DEF Event
<1>4. Tells(Event(type, p, s), type, p, {})
  BY <1>2, <1>3 DEF Tells, Events
<1>5. QED
  BY <1>1, <1>4

\* The watcher takes the first event.
Shifted ==
  /\ \A i \in DOMAIN queue' : i + 1 \in DOMAIN queue /\ queue'[i] = queue[i + 1]
  /\ \A i \in DOMAIN queue : i > 1 => i - 1 \in DOMAIN queue' /\ queue'[i - 1] = queue[i]
  /\ DOMAIN queue \subseteq Nat \ {0} /\ DOMAIN queue' \subseteq Nat \ {0}
  /\ 1 \in DOMAIN queue /\ Head(queue) = queue[1]

LEMMA TakeFacts ==
  ASSUME Stream, queue # <<>>, queue' = Tail(queue)
  PROVE  Shifted /\ Stream'
<1>1. Len(queue) \in Nat /\ DOMAIN queue = 1..Len(queue) /\ queue \in Seq(Events)
  BY QueueFacts DEF Stream
<1>2. Len(queue) # 0
  BY <1>1, EmptySeq
<1>3. /\ queue' \in Seq(Events) /\ Len(queue') = Len(queue) - 1
      /\ \A i \in 1..Len(queue') : queue'[i] = queue[i + 1]
  BY <1>1, HeadTailProperties
<1>4. DOMAIN queue' = 1..Len(queue) - 1
  BY <1>3, SequenceFacts
<1>5. Head(queue) = queue[1]
  BY <1>1
<1>6. Shifted
  BY <1>1, <1>2, <1>3, <1>4, <1>5 DEF Shifted
<1>7. Stream'
  BY <1>3, <1>6 DEF Stream, Shifted
<1>8. QED
  BY <1>6, <1>7

\* An event comes at the end.
Grown(e) ==
  /\ \A i \in DOMAIN queue : i \in DOMAIN queue' /\ queue'[i] = queue[i] /\ i < Len(queue) + 1
  /\ \A i \in DOMAIN queue' : i \in DOMAIN queue \/ i = Len(queue) + 1
  /\ Len(queue) + 1 \in DOMAIN queue' /\ queue'[Len(queue) + 1] = e
  /\ DOMAIN queue' \subseteq Nat \ {0} /\ DOMAIN queue \subseteq Nat \ {0}
  /\ Len(queue) \in Nat

LEMMA AppendFacts ==
  ASSUME Stream, NEW e \in Events, queue' = Append(queue, e),
         Plausible(e)
  PROVE  Grown(e) /\ Stream'
<1>1. Len(queue) \in Nat /\ DOMAIN queue = 1..Len(queue) /\ queue \in Seq(Events)
  BY QueueFacts DEF Stream
<1>2. /\ queue' \in Seq(Events) /\ DOMAIN queue' = 1..Len(queue) + 1
      /\ \A i \in 1..Len(queue) : queue'[i] = queue[i]
      /\ queue'[Len(queue) + 1] = e
  BY <1>1, AppendProperties
<1>3. Grown(e)
  BY <1>1, <1>2 DEF Grown
<1>4. Stream'
  BY <1>2, <1>3 DEF Stream, Grown
<1>5. QED
  BY <1>3, <1>4

-----------------------------------------------------------------------------
(* What the cache is worth after each event *)

\* What the handler of e must do for p.
Handled(e, p) ==
  /\ Word(e, p) => /\ ToSet(e.containers) = listed \cap Of(p) => Matches(p)'
                   /\ e.type = "InitApply" => \A seen \in init_seen' : p \in seen
  /\ e.type = "Init" => init_seen' # {} /\ \A seen \in init_seen' : p \notin seen
  /\ e.type = "InitDone" =>
       /\ init_seen' = {}
       /\ \/ (\A seen \in init_seen : p \in seen) /\ Matches(p)
          \/ init_seen # {} /\ (\A seen \in init_seen : p \notin seen) /\ listed \cap Of(p) = {}
          => Matches(p)'
  /\ ~Word(e, p) /\ e.type \notin {"Init", "InitDone"} =>
       /\ Matches(p) => Matches(p)'
       /\ init_seen # {} => init_seen' # {}
       /\ (\A seen \in init_seen : p \notin seen) => (\A seen \in init_seen' : p \notin seen)
       /\ (\A seen \in init_seen : p \in seen) => (\A seen \in init_seen' : p \in seen)

LEMMA TakeAnnounced ==
  ASSUME Shifted, NEW p, listed' = listed, Announced(p), Handled(Head(queue), p)
  PROVE  Announced(p)' \/ Applied(p)'
<1>1. PICK i \in DOMAIN queue :
        /\ Word(queue[i], p) /\ SilentAfter(queue, i, p)
        /\ NoneAfter(queue, i, "Init")
        /\ queue[i].type # "InitApply" => NoneAfter(queue, i, "InitDone")
        /\ ToSet(queue[i].containers) = listed \cap Of(p)
  BY DEF Announced
<1>2. CASE i > 1
  <2>1. PICK h : h = i - 1
    OBVIOUS
  <2>2. h \in DOMAIN queue' /\ queue'[h] = queue[i] /\ i \in Nat /\ h \in Nat
    BY <1>2, <2>1 DEF Shifted
  <2>3. \A j \in DOMAIN queue' : j > h => j + 1 \in DOMAIN queue /\ j + 1 > i /\ queue'[j] = queue[j + 1]
    BY <2>1, <2>2 DEF Shifted
  <2>4. SilentAfter(queue', h, p) /\ NoneAfter(queue', h, "Init")
    BY <1>1, <2>3 DEF SilentAfter, NoneAfter
  <2>5. queue'[h].type # "InitApply" => NoneAfter(queue', h, "InitDone")
    BY <1>1, <2>2, <2>3 DEF NoneAfter
  <2>6. QED
    BY <1>1, <2>2, <2>4, <2>5 DEF Announced, Of
<1>3. CASE ~(i > 1)
  <2>1. i = 1
    BY <1>3 DEF Shifted
  <2>2. \A j \in DOMAIN queue' : j + 1 \in DOMAIN queue /\ j + 1 > i /\ queue'[j] = queue[j + 1]
    BY <2>1 DEF Shifted
  <2>3. SilentAfter(queue', 0, p) /\ NoneAfter(queue', 0, "Init")
    BY <1>1, <2>2 DEF SilentAfter, NoneAfter
  <2>4. Word(Head(queue), p) /\ Head(queue) = queue[i]
    BY <1>1, <2>1 DEF Shifted
  <2>5. NoneAfter(queue', 0, "InitDone") \/ \A seen \in init_seen' : p \in seen
    <3>1. CASE queue[i].type = "InitApply"
      BY <2>4, <3>1 DEF Handled
    <3>2. CASE queue[i].type # "InitApply"
      BY <1>1, <2>2, <3>2 DEF NoneAfter
    <3>3. QED
      BY <3>1, <3>2
  <2>6. Matches(p)'
    BY <1>1, <2>4 DEF Handled
  <2>7. QED
    BY <2>3, <2>5, <2>6 DEF Applied
<1>4. QED
  BY <1>2, <1>3

LEMMA TakeUnlisted ==
  ASSUME Shifted, NEW p, listed' = listed, Unlisted(p), Handled(Head(queue), p)
  PROVE  Unlisted(p)' \/ Applied(p)'
<1>0. listed' \cap Of(p) = {} /\ listed \cap Of(p) = {} /\ Of(p)' = Of(p)
  BY DEF Unlisted, Of
<1>1. ASSUME NEW k \in DOMAIN queue, NEW d \in DOMAIN queue,
             queue[k].type = "Init", queue[d].type = "InitDone", k < d,
             NoneAfter(queue, k, "Init"), SilentAfter(queue, k, p)
      PROVE  Unlisted(p)'
  <2>0. k \in Nat /\ d \in Nat /\ k >= 1 /\ d > 1
    BY <1>1 DEF Shifted
  <2>1. PICK e : e = d - 1
    OBVIOUS
  <2>2. e \in DOMAIN queue' /\ queue'[e] = queue[d] /\ e \in Nat
    BY <2>0, <2>1 DEF Shifted
  <2>3. CASE k > 1
    <3>1. PICK h : h = k - 1
      OBVIOUS
    <3>2. h \in DOMAIN queue' /\ queue'[h] = queue[k] /\ h \in Nat /\ h < e
      BY <1>1, <2>0, <2>1, <2>3, <3>1 DEF Shifted
    <3>3. \A j \in DOMAIN queue' : j > h => j + 1 \in DOMAIN queue /\ j + 1 > k /\ queue'[j] = queue[j + 1]
      BY <2>0, <3>1, <3>2 DEF Shifted
    <3>4. SilentAfter(queue', h, p) /\ NoneAfter(queue', h, "Init")
      BY <1>1, <3>3 DEF SilentAfter, NoneAfter
    <3>5. QED
      BY <1>0, <1>1, <2>2, <3>2, <3>4 DEF Unlisted
  <2>4. CASE k = 1
    <3>1. \A j \in DOMAIN queue' : j + 1 \in DOMAIN queue /\ j + 1 > k /\ queue'[j] = queue[j + 1]
      BY <2>4 DEF Shifted
    <3>2. SilentAfter(queue', 0, p) /\ NoneAfter(queue', 0, "Init")
      BY <1>1, <3>1 DEF SilentAfter, NoneAfter
    <3>3. Head(queue).type = "Init"
      BY <1>1, <2>4 DEF Shifted
    <3>4. init_seen' # {} /\ \A seen \in init_seen' : p \notin seen
      BY <3>3 DEF Handled
    <3>5. QED
      BY <1>0, <1>1, <2>2, <3>2, <3>4 DEF Unlisted
  <2>5. QED
    BY <2>0, <2>3, <2>4
<1>2. ASSUME NoneAfter(queue, 0, "Init"), SilentAfter(queue, 0, p),
             NEW d \in DOMAIN queue, queue[d].type = "InitDone",
             init_seen # {}, \A seen \in init_seen : p \notin seen
      PROVE  Unlisted(p)' \/ Applied(p)'
  <2>1. \A j \in DOMAIN queue' : j + 1 \in DOMAIN queue /\ j + 1 > 0 /\ queue'[j] = queue[j + 1]
    BY DEF Shifted
  <2>2. SilentAfter(queue', 0, p) /\ NoneAfter(queue', 0, "Init")
    BY <1>2, <2>1 DEF SilentAfter, NoneAfter
  <2>3. PICK e : e = Head(queue)
    OBVIOUS
  <2>4. e = queue[1] /\ e.type # "Init" /\ ~Word(e, p)
    BY <1>2, <2>3 DEF Shifted, NoneAfter, SilentAfter
  <2>5. CASE e.type = "InitDone"
    <3>1. init_seen' = {} /\ Matches(p)'
      BY <1>0, <1>2, <2>3, <2>5 DEF Handled
    <3>2. QED
      BY <2>2, <3>1 DEF Applied
  <2>6. CASE e.type # "InitDone"
    <3>1. d \in Nat /\ d > 1
      BY <1>2, <2>4, <2>6 DEF Shifted
    <3>2. d - 1 \in DOMAIN queue' /\ queue'[d - 1] = queue[d]
      BY <3>1 DEF Shifted
    <3>3. init_seen' # {} /\ \A seen \in init_seen' : p \notin seen
      BY <1>2, <2>3, <2>4, <2>6 DEF Handled
    <3>4. QED
      BY <1>0, <1>2, <2>2, <3>2, <3>3 DEF Unlisted
  <2>7. QED
    BY <2>5, <2>6
<1>3. QED
  BY <1>1, <1>2 DEF Unlisted

LEMMA TakeApplied ==
  ASSUME Shifted, NEW p, listed' = listed, Applied(p), Handled(Head(queue), p)
  PROVE  Applied(p)'
<1>1. \A j \in DOMAIN queue' : j + 1 \in DOMAIN queue /\ j + 1 > 0 /\ queue'[j] = queue[j + 1]
  BY DEF Shifted
<1>2. SilentAfter(queue', 0, p) /\ NoneAfter(queue', 0, "Init")
  BY <1>1 DEF SilentAfter, NoneAfter, Applied
<1>3. PICK e : e = Head(queue)
  OBVIOUS
<1>4. e = queue[1] /\ e.type # "Init" /\ ~Word(e, p) /\ Matches(p)
  BY <1>3 DEF Shifted, NoneAfter, SilentAfter, Applied
<1>5. NoneAfter(queue, 0, "InitDone") => e.type # "InitDone" /\ NoneAfter(queue', 0, "InitDone")
  BY <1>1, <1>4 DEF NoneAfter, Shifted
<1>6. CASE e.type = "InitDone"
  <2>1. \A seen \in init_seen : p \in seen
    BY <1>5, <1>6 DEF Applied
  <2>2. init_seen' = {} /\ Matches(p)'
    BY <1>3, <1>4, <1>6, <2>1 DEF Handled
  <2>3. QED
    BY <1>2, <2>2 DEF Applied
<1>7. CASE e.type # "InitDone"
  <2>1. Matches(p)'
    BY <1>3, <1>4, <1>7 DEF Handled
  <2>2. (\A seen \in init_seen : p \in seen) => (\A seen \in init_seen' : p \in seen)
    BY <1>3, <1>4, <1>7 DEF Handled
  <2>3. QED
    BY <1>2, <1>5, <2>1, <2>2 DEF Applied
<1>8. QED
  BY <1>6, <1>7

LEMMA TakeFollows ==
  ASSUME Stream, queue # <<>>, queue' = Tail(queue), listed' = listed, watching' = watching,
         Follows, \A p \in Pods : Handled(Head(queue), p)
  PROVE  Stream' /\ Follows'
<1>1. Shifted /\ Stream'
  BY TakeFacts
<1>2. ASSUME watching', NEW p \in Pods PROVE (Announced(p) \/ Unlisted(p) \/ Applied(p))'
  <2>1. Announced(p) \/ Unlisted(p) \/ Applied(p)
    BY <1>2 DEF Follows
  <2>2. QED
    BY <1>1, <2>1, TakeAnnounced, TakeUnlisted, TakeApplied
<1>3. QED
  BY <1>1, <1>2 DEF Follows

-----------------------------------------------------------------------------
(* The cluster changes *)

LEMMA GrowTold ==
  ASSUME NEW e, Grown(e), NEW p, Word(e, p), ToSet(e.containers) = listed' \cap Of(p)
  PROVE  Announced(p)'
<1>1. PICK i : i = Len(queue) + 1
  OBVIOUS
<1>2. i \in DOMAIN queue' /\ queue'[i] = e /\ i \in Nat
  BY <1>1 DEF Grown
<1>3. \A j \in DOMAIN queue' : ~(j > i)
  BY <1>1 DEF Grown
<1>4. SilentAfter(queue', i, p) /\ NoneAfter(queue', i, "Init") /\ NoneAfter(queue', i, "InitDone")
  BY <1>3 DEF SilentAfter, NoneAfter
<1>5. QED
  BY <1>2, <1>4 DEF Announced, Of

LEMMA GrowOther ==
  ASSUME NEW e, Grown(e), NEW p, ~Word(e, p), e.type \notin {"Init", "InitDone"},
         \A c \in Of(p) : c \in listed' <=> c \in listed, UNCHANGED <<cache, init_seen>>,
         Announced(p) \/ Unlisted(p) \/ Applied(p)
  PROVE  (Announced(p) \/ Unlisted(p) \/ Applied(p))'
<1>1. Of(p)' = Of(p) /\ listed' \cap Of(p) = listed \cap Of(p)
  BY DEF Of
<1>2. ASSUME NEW i
      PROVE  /\ SilentAfter(queue, i, p) => SilentAfter(queue', i, p)
             /\ NoneAfter(queue, i, "Init") => NoneAfter(queue', i, "Init")
             /\ NoneAfter(queue, i, "InitDone") => NoneAfter(queue', i, "InitDone")
  <2>1. ASSUME NEW j \in DOMAIN queue' PROVE (j \in DOMAIN queue /\ queue'[j] = queue[j]) \/ queue'[j] = e
    BY DEF Grown
  <2>2. QED
    BY <2>1 DEF SilentAfter, NoneAfter
<1>3. \A i \in DOMAIN queue : i \in DOMAIN queue' /\ queue'[i] = queue[i]
  BY DEF Grown
<1>4. Announced(p) => Announced(p)'
  BY <1>1, <1>2, <1>3 DEF Announced
<1>5. Unlisted(p) => Unlisted(p)'
  <2> SUFFICES ASSUME Unlisted(p) PROVE Unlisted(p)'
    OBVIOUS
  <2>1. listed' \cap Of(p)' = {}
    BY <1>1 DEF Unlisted
  <2>2. ASSUME NEW k \in DOMAIN queue, NEW d \in DOMAIN queue,
               queue[k].type = "Init", queue[d].type = "InitDone", k < d,
               NoneAfter(queue, k, "Init"), SilentAfter(queue, k, p)
        PROVE  Unlisted(p)'
    <3>1. NoneAfter(queue', k, "Init") /\ SilentAfter(queue', k, p)
      BY <1>2, <2>2
    <3>2. QED
      BY <1>3, <2>1, <2>2, <3>1 DEF Unlisted
  <2>3. ASSUME NoneAfter(queue, 0, "Init"), SilentAfter(queue, 0, p),
               NEW d \in DOMAIN queue, queue[d].type = "InitDone",
               init_seen # {}, \A seen \in init_seen : p \notin seen
        PROVE  Unlisted(p)'
    <3>1. NoneAfter(queue', 0, "Init") /\ SilentAfter(queue', 0, p)
      BY <1>2, <2>3
    <3>2. QED
      BY <1>3, <2>1, <2>3, <3>1 DEF Unlisted
  <2>4. QED
    BY <2>2, <2>3 DEF Unlisted
<1>6. Applied(p) => Applied(p)'
  <2> SUFFICES ASSUME Applied(p) PROVE Applied(p)'
    OBVIOUS
  <2>1. Matches(p)'
    BY <1>1 DEF Applied, Matches, Cached
  <2>2. NoneAfter(queue', 0, "Init") /\ SilentAfter(queue', 0, p)
    BY <1>2 DEF Applied
  <2>3. NoneAfter(queue', 0, "InitDone") \/ \A seen \in init_seen' : p \in seen
    BY <1>2 DEF Applied
  <2>4. QED
    BY <2>1, <2>2, <2>3 DEF Applied
<1>7. QED
  BY <1>4, <1>5, <1>6

\* One pod changes, and an event that tells it follows the others.
LEMMA ChangeFollows ==
  ASSUME IInv, NEW p \in Pods, NEW type \in {"Apply", "Delete"}, NEW cs \in SUBSET Of(p),
         type = "Delete" => cs = {}, NEW e, Tells(e, type, p, cs), Notify(e), listed' = (listed \ Of(p)) \cup cs,
         UNCHANGED <<watching, cache, init_seen>>
  PROVE  Stream' /\ Follows'
<1>1. CASE watching
  <2>1. queue' = Append(queue, e)
    BY <1>1 DEF Notify
  <2>2. e \in Events /\ e.type = type /\ e.pod = p
    BY DEF Tells
  <2>3. \A q : Word(e, q) <=> q = p
    BY <2>2 DEF Word
  <2>4. Grown(e) /\ Stream'
    <3>1. Plausible(e)
      BY <2>3 DEF Tells, Plausible
    <3>2. QED
      BY <2>1, <2>2, <3>1, AppendFacts DEF IInv
  <2>5. ASSUME NEW q \in Pods PROVE (Announced(q) \/ Unlisted(q) \/ Applied(q))'
    <3>1. CASE q = p
      <4>1. ToSet(e.containers) = listed' \cap Of(p)
        BY DEF Tells
      <4>2. QED
        BY <2>3, <2>4, <3>1, <4>1, GrowTold
    <3>2. CASE q # p
      <4>1. \A c \in Of(q) : c \in listed' <=> c \in listed
        BY <3>2 DEF Of
      <4>2. Announced(q) \/ Unlisted(q) \/ Applied(q)
        BY <1>1 DEF IInv, Follows
      <4>3. ~Word(e, q) /\ e.type \notin {"Init", "InitDone"}
        BY <2>2, <2>3, <3>2
      <4>4. QED
        BY <2>4, <4>1, <4>2, <4>3, GrowOther
    <3>3. QED
      BY <3>1, <3>2
  <2>6. QED
    BY <2>4, <2>5 DEF Follows
<1>2. CASE ~watching
  <2>1. queue' = queue /\ watching' = watching
    BY <1>2 DEF Notify
  <2>2. Stream'
    BY <2>1 DEF IInv, Stream
  <2>3. Follows'
    BY <1>2, <2>1 DEF Follows
  <2>4. QED
    BY <2>2, <2>3
<1>3. QED
  BY <1>1, <1>2

LEMMA PodAppliedKeeps ==
  ASSUME IInv, NEW p \in Pods, NEW cs \in SUBSET Of(p), PodApplied(p, cs)
  PROVE  IInv'
<1>1. UNCHANGED <<watching, cache, known_pods, init_seen, memo>>
  BY DEF PodApplied, Changes, watcherVars, readerVars
<1>2. /\ listed' = (listed \ Of(p)) \cup cs /\ status' = [status EXCEPT ![p] = "present"]
      /\ Notify(Event("Apply", p, SetToSeq(cs)))
  BY DEF PodApplied
<1>3. Types'
  <2>1. \A c \in listed' : c \in Containers /\ status'[PodOf[c]] = "present"
    BY <1>2, Cluster DEF IInv, Types, Of
  <2>2. QED
    BY <1>1, <1>2, <2>1 DEF IInv, Types
<1>4. Stream' /\ Follows'
  <2>1. PICK type \in {"Apply", "Delete"} : type = "Apply" /\ type \in Kinds
    BY DEF Kinds
  <2>2. PICK e : e = Event(type, p, SetToSeq(cs))
    OBVIOUS
  <2>3. Tells(e, type, p, cs)
    BY <2>1, <2>2, EventTells
  <2>4. Notify(e)
    BY <1>2, <2>1, <2>2
  <2>5. PICK new \in SUBSET Of(p) : new = cs
    OBVIOUS
  <2>6. /\ Tells(e, type, p, new) /\ listed' = (listed \ Of(p)) \cup new
        /\ type = "Delete" => new = {}
    BY <1>2, <2>1, <2>3, <2>5
  <2>7. QED
    BY <1>1, <2>4, <2>6, ChangeFollows
<1>5. QED
  BY <1>1, <1>3, <1>4 DEF IInv, CacheSound, Sound, Shape, Indexed, Ordered, Fits, Cached, Of

LEMMA PodDeletedKeeps ==
  ASSUME IInv, NEW p \in Pods, PodDeleted(p)
  PROVE  IInv'
<1>1. UNCHANGED <<watching, cache, known_pods, init_seen, memo>>
  BY DEF PodDeleted, Changes, watcherVars, readerVars
<1>2. /\ listed' = (listed \ Of(p)) \cup {} /\ status' = [status EXCEPT ![p] = "deleted"]
      /\ Notify(Event("Delete", p, <<>>))
  BY DEF PodDeleted
<1>3. Types'
  <2>1. \A c \in listed' : c \in Containers /\ status'[PodOf[c]] = "present"
    BY <1>2, Cluster DEF IInv, Types, Of
  <2>2. QED
    BY <1>1, <1>2, <2>1 DEF IInv, Types
<1>4. Stream' /\ Follows'
  <2>1. PICK type \in {"Apply", "Delete"} : type = "Delete" /\ type \in Kinds
    BY DEF Kinds
  <2>2. PICK e : e = Event(type, p, <<>>)
    OBVIOUS
  <2>3. Tells(e, type, p, {})
    BY <2>1, <2>2, EmptyTells
  <2>4. Notify(e)
    BY <1>2, <2>1, <2>2
  <2>5. PICK new \in SUBSET Of(p) : new = {}
    OBVIOUS
  <2>6. /\ Tells(e, type, p, new) /\ listed' = (listed \ Of(p)) \cup new
        /\ type = "Delete" => new = {}
    BY <1>2, <2>1, <2>3, <2>5
  <2>7. QED
    BY <1>1, <2>4, <2>6, ChangeFollows
<1>5. QED
  BY <1>1, <1>3, <1>4 DEF IInv, CacheSound, Sound, Shape, Indexed, Ordered, Fits, Cached, Of

-----------------------------------------------------------------------------
(* The stream breaks and the pods are listed again *)

LEMMA BreakKeeps ==
  ASSUME IInv, Break
  PROVE  IInv'
<1>1. UNCHANGED <<status, listed, cache, known_pods, init_seen, memo>> /\ watching' = FALSE
  BY DEF Break, watcherVars, readerVars, clusterVars
<1>2. PICK n \in 0..Len(queue) : queue' = Append(SubSeq(queue, 1, n), Mark("Err"))
  BY DEF Break
<1>3. Len(queue) \in Nat /\ DOMAIN queue = 1..Len(queue) /\ queue \in Seq(Events)
      /\ \A i \in DOMAIN queue : queue[i] \in Events
  BY QueueFacts DEF IInv, Stream
<1>4. PICK s : s = SubSeq(queue, 1, n)
  OBVIOUS
<1>5. s \in Seq(Events) /\ Len(s) = n /\ \A i \in 1..n : s[i] = queue[i] /\ i \in DOMAIN queue
  <2>1. 1 \in Int /\ n \in Int /\ n \in Nat /\ \A i \in 1..n : queue[i] \in Events
    BY <1>3
  <2>2. /\ s \in Seq(Events) /\ Len(s) = (IF 1 <= n THEN n - 1 + 1 ELSE 0)
        /\ \A i \in 1..n - 1 + 1 : s[i] = queue[1 + i - 1]
    BY <1>4, <2>1, SubSeqProperties
  <2>3. QED
    BY <1>3, <2>1, <2>2
<1>6. PICK e : e = Mark("Err")
  OBVIOUS
<1>7. e \in Events /\ \A p : ~Word(e, p)
  <2>1. PICK type \in Kinds : type = "Err"
    BY DEF Kinds
  <2>2. QED
    BY <1>6, <2>1, MarksAreEvents
<1>8. /\ queue' \in Seq(Events) /\ DOMAIN queue' = 1..n + 1
      /\ \A i \in 1..n : queue'[i] = s[i]
      /\ queue'[n + 1] = e
  BY <1>2, <1>4, <1>5, <1>6, <1>7, AppendProperties
<1>9. \A i \in DOMAIN queue' : queue'[i] = e \/ (i \in DOMAIN queue /\ queue'[i] = queue[i])
  BY <1>3, <1>5, <1>8
<1>10. Stream'
  <2>1. Plausible(e)
    BY <1>7 DEF Plausible
  <2>2. QED
    BY <1>8, <1>9, <2>1 DEF Stream, IInv
<1>11. Follows'
  BY <1>1 DEF Follows
<1>12. Types'
  BY <1>1 DEF IInv, Types
<1>13. QED
  BY <1>1, <1>10, <1>11, <1>12 DEF IInv, CacheSound, Sound, Shape, Indexed, Ordered, Fits, Cached, Of

\* The queue after a list of n pods: what was there, Init, the pods, InitDone.
ListedAs(q, s, n) ==
  /\ q \in Seq(Events) /\ DOMAIN q = 1..Len(queue) + n + 2
  /\ \A i \in 1..Len(queue) : q[i] = queue[i]
  /\ q[Len(queue) + 1] = Mark("Init")
  /\ \A j \in 1..n : q[Len(queue) + 1 + j] = Snapshot("InitApply", s[j])
  /\ q[Len(queue) + n + 2] = Mark("InitDone")

LEMMA RelistFacts ==
  ASSUME Stream, NEW n \in Nat, NEW s \in [1..n -> Pods], NEW q,
         q = queue \o <<Mark("Init")>> \o [i \in 1..n |-> Snapshot("InitApply", s[i])]
                   \o <<Mark("InitDone")>>
  PROVE  ListedAs(q, s, n)
<1>1. Len(queue) \in Nat /\ queue \in Seq(Events)
  BY QueueFacts DEF Stream
<1>2. PICK a : a = <<Mark("Init")>>
  OBVIOUS
<1>3. PICK z : z = <<Mark("InitDone")>>
  OBVIOUS
<1>4. PICK mid : mid = [i \in 1..n |-> Snapshot("InitApply", s[i])]
  OBVIOUS
<1>5. Mark("Init") \in Events /\ Mark("InitDone") \in Events
  <2>1. PICK t \in Kinds : t = "Init"
    BY DEF Kinds
  <2>2. PICK u \in Kinds : u = "InitDone"
    BY DEF Kinds
  <2>3. QED
    BY <2>1, <2>2, MarksAreEvents
<1>6. a \in Seq(Events) /\ Len(a) = 1 /\ a[1] = Mark("Init")
  BY <1>2, <1>5
<1>7. z \in Seq(Events) /\ Len(z) = 1 /\ z[1] = Mark("InitDone")
  BY <1>3, <1>5
<1>8. \A i \in 1..n : Snapshot("InitApply", s[i]) \in Events
  <2> SUFFICES ASSUME NEW i \in 1..n PROVE Snapshot("InitApply", s[i]) \in Events
    OBVIOUS
  <2>1. PICK p \in Pods : p = s[i]
    OBVIOUS
  <2>2. PICK t \in Kinds : t = "InitApply"
    BY DEF Kinds
  <2>3. PICK cs \in SUBSET Of(p) : cs = listed \cap Of(p)
    OBVIOUS
  <2>4. Event(t, p, SetToSeq(cs)) \in Events
    BY EventTells DEF Tells
  <2>5. QED
    BY <2>1, <2>2, <2>3, <2>4 DEF Snapshot
<1>9. mid \in Seq(Events) /\ Len(mid) = n /\ \A i \in 1..n : mid[i] = Snapshot("InitApply", s[i])
  BY <1>4, <1>8
<1>10. PICK f : f = queue \o a
  OBVIOUS
<1>11. PICK g : g = f \o mid
  OBVIOUS
<1>12. q = g \o z
  BY <1>2, <1>3, <1>4, <1>10, <1>11
<1>13. PICK l \in Nat : l = Len(queue)
  BY <1>1
<1>14. /\ f \in Seq(Events) /\ Len(f) = l + 1
       /\ (\A i \in 1..l : f[i] = queue[i]) /\ f[l + 1] = a[1]
  <2>1. f \in Seq(Events) /\ Joined(f, queue, a)
    BY <1>1, <1>6, <1>10, ConcatPlaces
  <2>2. QED
    BY <1>6, <1>13, <2>1 DEF Joined
<1>15. /\ g \in Seq(Events) /\ Len(g) = l + 1 + n /\ (\A i \in 1..l + 1 : g[i] = f[i])
       /\ \A j \in 1..n : g[l + 1 + j] = mid[j]
  <2>1. g \in Seq(Events) /\ Joined(g, f, mid)
    BY <1>9, <1>11, <1>14, ConcatPlaces
  <2>2. QED
    BY <1>9, <1>14, <2>1 DEF Joined
<1>16. /\ q \in Seq(Events) /\ DOMAIN q = 1..l + n + 2 /\ (\A i \in 1..l + 1 + n : q[i] = g[i])
       /\ q[l + n + 2] = z[1]
  <2>1. q \in Seq(Events) /\ Joined(q, g, z)
    BY <1>7, <1>12, <1>15, ConcatPlaces
  <2>2. l + 1 + n + 1 = l + n + 2
    OBVIOUS
  <2>3. q[l + 1 + n + 1] = z[1] /\ DOMAIN q = 1..l + 1 + n + 1 /\ (\A i \in 1..l + 1 + n : q[i] = g[i])
    BY <1>7, <1>15, <2>1 DEF Joined
  <2>4. QED
    BY <2>1, <2>2, <2>3
<1>17. ASSUME NEW i \in 1..l PROVE q[i] = queue[i]
  <2>1. i \in 1..l + 1 /\ i \in 1..l + 1 + n
    OBVIOUS
  <2>2. QED
    BY <1>14, <1>15, <1>16, <2>1
<1>18. q[l + 1] = Mark("Init")
  <2>1. l + 1 \in 1..l + 1 /\ l + 1 \in 1..l + 1 + n
    OBVIOUS
  <2>2. QED
    BY <1>6, <1>14, <1>15, <1>16, <2>1
<1>19. ASSUME NEW j \in 1..n PROVE q[l + 1 + j] = Snapshot("InitApply", s[j])
  <2>1. l + 1 + j \in 1..l + 1 + n
    OBVIOUS
  <2>2. QED
    BY <1>9, <1>15, <1>16, <2>1
<1>20. QED
  BY <1>7, <1>13, <1>16, <1>17, <1>18, <1>19 DEF ListedAs

LEMMA SnapshotTells ==
  ASSUME NEW p \in Pods
  PROVE  Tells(Snapshot("InitApply", p), "InitApply", p, listed \cap Of(p))
<1>1. PICK t \in Kinds : t = "InitApply"
  BY DEF Kinds
<1>2. PICK cs \in SUBSET Of(p) : cs = listed \cap Of(p)
  OBVIOUS
<1>3. Tells(Event(t, p, SetToSeq(cs)), t, p, cs)
  BY EventTells
<1>4. QED
  BY <1>1, <1>2, <1>3 DEF Snapshot

LEMMA RelistKeeps ==
  ASSUME IInv, Relist
  PROVE  IInv'
<1>1. UNCHANGED <<status, listed, cache, known_pods, init_seen, memo>> /\ watching' = TRUE
  BY DEF Relist, watcherVars, readerVars, clusterVars
<1>2. PICK P : P = Present
  OBVIOUS
<1>3. P \subseteq Pods /\ IsFiniteSet(P) /\ \A p \in Pods : p \in P <=> status[p] = "present"
  BY <1>2, Cluster, FS_Subset DEF Present
<1>4. PICK n : n = Cardinality(P)
  OBVIOUS
<1>5. PICK s : s = SetToSeq(P)
  OBVIOUS
<1>6. n \in Nat /\ s \in [1..n -> P] /\ IsInjective(s) /\ ToSet(s) = P
  BY <1>3, <1>4, <1>5, FS_CardinalityType, SetToSeqFacts
<1>7. s \in [1..n -> Pods] /\ DOMAIN s = 1..n
  BY <1>3, <1>6
<1>8. PICK q : q = queue'
  OBVIOUS
<1>9. q = queue \o <<Mark("Init")>> \o [i \in 1..n |-> Snapshot("InitApply", s[i])]
                \o <<Mark("InitDone")>>
  BY <1>2, <1>4, <1>5, <1>8 DEF Relist
<1>10. ListedAs(q, s, n)
  BY <1>6, <1>7, <1>9, RelistFacts DEF IInv
<1>11. PICK l \in Nat : l = Len(queue)
  BY QueueFacts DEF IInv
<1>12. /\ q \in Seq(Events) /\ DOMAIN q = 1..l + n + 2
       /\ \A i \in 1..l : q[i] = queue[i] /\ i \in DOMAIN queue
       /\ q[l + 1] = Mark("Init") /\ q[l + n + 2] = Mark("InitDone")
       /\ \A j \in 1..n : q[l + 1 + j] = Snapshot("InitApply", s[j])
  BY <1>10, <1>11, QueueFacts DEF ListedAs, IInv
<1>13. \A m \in DOMAIN q : m > l + 1 =>
         m = l + n + 2 \/ \E j \in 1..n : m = l + 1 + j
  <2> SUFFICES ASSUME NEW m \in DOMAIN q, m > l + 1, m # l + n + 2
               PROVE  \E j \in 1..n : m = l + 1 + j
    OBVIOUS
  <2>1. m \in 1..l + n + 2
    BY <1>12
  <2>2. PICK j \in Int : j = m - (l + 1)
    BY <2>1
  <2>3. j \in 1..n /\ m = l + 1 + j
    BY <1>6, <2>1, <2>2
  <2>4. QED
    BY <2>3
<1>14. /\ Mark("Init").type = "Init" /\ Mark("InitDone").type = "InitDone"
       /\ \A p : ~Word(Mark("Init"), p) /\ ~Word(Mark("InitDone"), p)
  <2>1. PICK t \in Kinds : t = "Init"
    BY DEF Kinds
  <2>2. PICK u \in Kinds : u = "InitDone"
    BY DEF Kinds
  <2>3. QED
    BY <2>1, <2>2, MarksAreEvents
<1>15. ASSUME NEW j \in 1..n
       PROVE  Tells(q[l + 1 + j], "InitApply", s[j], listed \cap Of(s[j]))
  <2>1. PICK p \in Pods : p = s[j]
    BY <1>7
  <2>2. QED
    BY <1>12, <2>1, SnapshotTells
<1>16. ASSUME NEW j \in 1..n
       PROVE  /\ q[l + 1 + j].type = "InitApply"
              /\ \A p : Word(q[l + 1 + j], p) <=> p = s[j]
  BY <1>15 DEF Tells, Word
<1>17. Stream'
  <2>1. ASSUME NEW i \in DOMAIN q, NEW p, Word(q[i], p)
        PROVE  /\ p \in Pods /\ q[i].containers \in Seq(Of(p)) /\ IsInjective(q[i].containers)
               /\ q[i].type = "Delete" => ToSet(q[i].containers) = {}
    <3>1. i \in 1..l + n + 2
      BY <1>12
    <3>2. CASE i \in 1..l
      BY <1>12, <2>1, <3>2 DEF IInv, Stream, Plausible
    <3>3. CASE i = l + 1 \/ i = l + n + 2
      BY <1>12, <1>14, <2>1, <3>3
    <3>4. CASE \E j \in 1..n : i = l + 1 + j
      <4>1. PICK j \in 1..n : i = l + 1 + j
        BY <3>4
      <4>2. p = s[j] /\ p \in Pods
        BY <1>7, <1>16, <2>1, <4>1
      <4>3. QED
        BY <1>15, <4>1, <4>2 DEF Tells
    <3>5. QED
      <4>1. i \in 1..l \/ i = l + 1 \/ i > l + 1
        BY <3>1
      <4>2. QED
        BY <1>13, <3>2, <3>3, <3>4, <4>1
  <2>2. QED
    <3>1. \A i \in DOMAIN q : Plausible(q[i])
      BY <2>1 DEF Plausible
    <3>2. QED
      BY <1>8, <1>12, <3>1 DEF Stream
<1>18. ASSUME NEW p \in Pods, p \in P PROVE Announced(p)'
  <2>1. PICK j \in 1..n : s[j] = p
    BY <1>6, <1>7, <1>18 DEF ToSet
  <2>2. PICK i : i = l + 1 + j
    OBVIOUS
  <2>3. i \in DOMAIN q /\ i > l + 1 /\ i \in Int
    BY <1>6, <1>12, <2>2
  <2>4. ASSUME NEW m \in DOMAIN q, m > i PROVE ~Word(q[m], p) /\ q[m].type # "Init"
    <3>1. m > l + 1
      BY <1>12, <2>2, <2>3, <2>4
    <3>2. CASE m = l + n + 2
      BY <1>12, <1>14, <3>2
    <3>3. CASE \E k \in 1..n : m = l + 1 + k
      <4>1. PICK k \in 1..n : m = l + 1 + k
        BY <3>3
      <4>2. k # j
        BY <2>2, <2>4, <4>1
      <4>3. s[k] # p
        BY <1>6, <1>7, <2>1, <4>2 DEF IsInjective
      <4>4. QED
        BY <1>16, <4>1, <4>3
    <3>4. QED
      BY <1>13, <3>1, <3>2, <3>3
  <2>5. SilentAfter(q, i, p) /\ NoneAfter(q, i, "Init")
    BY <2>4 DEF SilentAfter, NoneAfter
  <2>6. Word(q[i], p) /\ q[i].type = "InitApply"
    BY <1>16, <2>1, <2>2
  <2>7. ToSet(q[i].containers) = listed \cap Of(p)
    BY <1>15, <2>1, <2>2 DEF Tells
  <2>8. QED
    BY <1>1, <1>8, <2>3, <2>5, <2>6, <2>7 DEF Announced, Of
<1>19. ASSUME NEW p \in Pods, p \notin P PROVE Unlisted(p)'
  <2>1. listed \cap Of(p) = {}
    BY <1>3, <1>19 DEF IInv, Types, Of
  <2>2. PICK k : k = l + 1
    OBVIOUS
  <2>3. PICK d : d = l + n + 2
    OBVIOUS
  <2>4. k \in DOMAIN q /\ d \in DOMAIN q /\ k < d
    BY <1>6, <1>12, <2>2, <2>3
  <2>5. q[k].type = "Init" /\ q[d].type = "InitDone"
    BY <1>12, <1>14, <2>2, <2>3
  <2>6. ASSUME NEW m \in DOMAIN q, m > k PROVE ~Word(q[m], p) /\ q[m].type # "Init"
    <3>1. CASE m = l + n + 2
      BY <1>12, <1>14, <3>1
    <3>2. CASE \E j \in 1..n : m = l + 1 + j
      <4>1. PICK j \in 1..n : m = l + 1 + j
        BY <3>2
      <4>2. s[j] # p
        BY <1>6, <1>19
      <4>3. QED
        BY <1>16, <4>1, <4>2
    <3>3. QED
      BY <1>13, <2>2, <2>6, <3>1, <3>2
  <2>7. SilentAfter(q, k, p) /\ NoneAfter(q, k, "Init")
    BY <2>6 DEF SilentAfter, NoneAfter
  <2>8. QED
    BY <1>1, <1>8, <2>1, <2>4, <2>5, <2>7 DEF Unlisted, Of
<1>20. Follows'
  BY <1>18, <1>19 DEF Follows
<1>21. Types'
  BY <1>1 DEF IInv, Types
<1>22. QED
  BY <1>1, <1>17, <1>20, <1>21
     DEF IInv, CacheSound, Sound, Shape, Indexed, Ordered, Fits, Cached, Of

-----------------------------------------------------------------------------
(* The watcher *)

LEMMA RecvFacts ==
  ASSUME IInv, NEW type, Recv(type)
  PROVE  /\ queue # <<>> /\ queue' = Tail(queue)
         /\ UNCHANGED <<status, listed, watching, memo, reader>>
         /\ Head(queue).type = type /\ Plausible(Head(queue))
<1>1. /\ queue # <<>> /\ queue' = Tail(queue) /\ Head(queue).type = type
      /\ UNCHANGED <<status, listed, watching, memo, reader>>
  BY DEF Recv, clusterVars, readerVars
<1>2. Shifted
  BY <1>1, TakeFacts DEF IInv
<1>3. Plausible(Head(queue))
  BY <1>2 DEF Shifted, IInv, Stream
<1>4. QED
  BY <1>1, <1>3

\* A handler that does its part keeps the invariant.
LEMMA WatcherKeeps ==
  ASSUME IInv, NEW type, Recv(type), CacheSound', known_pods' \subseteq Pods,
         init_seen' = {} \/ \E seen \in SUBSET Pods : init_seen' = {seen},
         \A p \in Pods : Handled(Head(queue), p)
  PROVE  IInv'
<1>1. /\ queue # <<>> /\ queue' = Tail(queue)
      /\ UNCHANGED <<status, listed, watching, memo>>
  BY RecvFacts
<1>2. Stream' /\ Follows'
  BY <1>1, TakeFollows DEF IInv
<1>3. Types'
  BY <1>1 DEF IInv, Types
<1>4. QED
  BY <1>2, <1>3 DEF IInv

LEMMA OnInitKeeps ==
  ASSUME IInv, OnInit
  PROVE  IInv'
<1>1. Recv("Init") /\ init_seen' = {{}} /\ UNCHANGED <<cache, known_pods>>
  BY DEF OnInit
<1>2. Head(queue).type = "Init"
  BY <1>1, RecvFacts
<1>3. \A p \in Pods : Handled(Head(queue), p)
  BY <1>1, <1>2 DEF Handled, Word
<1>4. CacheSound'
  BY <1>1 DEF IInv, CacheSound, Sound, Shape, Indexed, Ordered, Fits, Cached, Of
<1>5. known_pods' \subseteq Pods /\ \E seen \in SUBSET Pods : init_seen' = {seen}
  BY <1>1 DEF IInv, Types
<1>6. QED
  BY <1>1, <1>3, <1>4, <1>5, WatcherKeeps

LEMMA OnErrKeeps ==
  ASSUME IInv, OnErr
  PROVE  IInv'
<1>1. Recv("Err") /\ UNCHANGED <<cache, known_pods, init_seen>>
  BY DEF OnErr, watcherVars
<1>2. Head(queue).type = "Err" /\ listed' = listed
  BY <1>1, RecvFacts
<1>3. \A p \in Pods : Matches(p) => Matches(p)'
  BY <1>1, <1>2 DEF Matches, Cached, Of
<1>4. \A p \in Pods : Handled(Head(queue), p)
  BY <1>1, <1>2, <1>3 DEF Handled, Word
<1>5. CacheSound'
  BY <1>1 DEF IInv, CacheSound, Sound, Shape, Indexed, Ordered, Fits, Cached, Of
<1>6. /\ known_pods' \subseteq Pods
      /\ init_seen' = {} \/ \E seen \in SUBSET Pods : init_seen' = {seen}
  BY <1>1 DEF IInv, Types
<1>7. QED
  BY <1>1, <1>4, <1>5, <1>6, WatcherKeeps

\* What a snapshot of p does to the cache, as the watcher sees it.
LEMMA SnapshotApplied ==
  ASSUME IInv, NEW p \in Pods, NEW cs \in Seq(Of(p)), IsInjective(cs),
         cache' = apply_pod_snapshot(cache, p, cs), known_pods' = known_pods \cup {p},
         listed' = listed
  PROVE  /\ CacheSound' /\ known_pods' \subseteq Pods
         /\ ToSet(cs) = listed \cap Of(p) => Matches(p)'
         /\ \A q \in Pods : q # p /\ Matches(q) => Matches(q)'
<1>1. PICK r : r = cache'
  OBVIOUS
<1>2. PICK b : b = cache
  OBVIOUS
<1>3. Sound(b) /\ Fits(b) /\ DOMAIN b.by_pod_uid \subseteq known_pods
  BY <1>2 DEF IInv, CacheSound
<1>4. r = apply_pod_snapshot(b, p, cs)
  BY <1>1, <1>2
<1>5. /\ Sound(r) /\ Fits(r) /\ r.max_containers = b.max_containers
      /\ \A c \in Cached(r) : IF PodOf[c] = p THEN c \in ToSet(cs) ELSE c \in Cached(b)
      /\ b.max_containers >= Cardinality(Containers) =>
           \A c \in Containers : (IF PodOf[c] = p THEN c \in ToSet(cs) ELSE c \in Cached(b))
                                   => c \in Cached(r)
      /\ DOMAIN r.by_pod_uid \subseteq DOMAIN b.by_pod_uid \cup {p}
  BY <1>3, <1>4, SnapshotKeeps
<1>6. CacheSound'
  <2>1. DOMAIN r.by_pod_uid \subseteq known_pods'
    BY <1>3, <1>5
  <2>2. QED
    BY <1>1, <1>5, <2>1 DEF CacheSound
<1>7. known_pods' \subseteq Pods
  BY DEF IInv, Types
<1>8. \A q : \A c \in Of(q) : c \in Containers /\ PodOf[c] = q
  BY DEF Of
<1>9. ToSet(cs) = listed \cap Of(p) => Matches(p)'
  BY <1>1, <1>2, <1>5, <1>8 DEF Matches, Of
<1>10. \A q \in Pods : q # p /\ Matches(q) => Matches(q)'
  BY <1>1, <1>2, <1>5, <1>8 DEF Matches, Of
<1>11. QED
  BY <1>6, <1>7, <1>9, <1>10

LEMMA OnInitApplyKeeps ==
  ASSUME IInv, OnInitApply
  PROVE  IInv'
<1>1. PICK e : e = Head(queue)
  OBVIOUS
<1>2. /\ Recv("InitApply")
      /\ cache' = apply_pod_snapshot(cache, e.pod, e.containers)
      /\ init_seen' = {seen \cup {e.pod} : seen \in init_seen}
      /\ known_pods' = known_pods \cup {e.pod}
  BY <1>1 DEF OnInitApply
<1>3. e.type = "InitApply" /\ Plausible(e) /\ listed' = listed
  BY <1>1, <1>2, RecvFacts
<1>4. Word(e, e.pod) /\ \A q : Word(e, q) => q = e.pod
  BY <1>3 DEF Word
<1>5. PICK p : p = e.pod
  OBVIOUS
<1>6. PICK cs : cs = e.containers
  OBVIOUS
<1>7. p \in Pods /\ cs \in Seq(Of(p)) /\ IsInjective(cs)
  BY <1>3, <1>4, <1>5, <1>6 DEF Plausible
<1>8. /\ CacheSound' /\ known_pods' \subseteq Pods
      /\ ToSet(cs) = listed \cap Of(p) => Matches(p)'
      /\ \A q \in Pods : q # p /\ Matches(q) => Matches(q)'
  BY <1>2, <1>3, <1>5, <1>6, <1>7, SnapshotApplied
<1>9. ASSUME NEW q \in Pods PROVE Handled(Head(queue), q)
  <2>1. CASE q = p
    <3>1. \A seen \in init_seen' : q \in seen
      BY <1>2, <1>5, <2>1
    <3>2. Word(e, q)
      BY <1>4, <1>5, <2>1
    <3>3. QED
      BY <1>1, <1>3, <1>6, <1>8, <2>1, <3>1, <3>2 DEF Handled
  <2>2. CASE q # p
    <3>1. ~Word(e, q)
      BY <1>4, <1>5, <2>2
    <3>2. /\ init_seen # {} => init_seen' # {}
          /\ (\A seen \in init_seen : q \notin seen) => (\A seen \in init_seen' : q \notin seen)
          /\ (\A seen \in init_seen : q \in seen) => (\A seen \in init_seen' : q \in seen)
      BY <1>2, <1>5, <2>2
    <3>3. QED
      BY <1>1, <1>3, <1>8, <2>2, <3>1, <3>2 DEF Handled
  <2>3. QED
    BY <2>1, <2>2
<1>10. init_seen' = {} \/ \E seen \in SUBSET Pods : init_seen' = {seen}
  <2>1. CASE init_seen = {}
    BY <1>2, <2>1
  <2>2. CASE \E seen \in SUBSET Pods : init_seen = {seen}
    <3>1. PICK seen \in SUBSET Pods : init_seen = {seen}
      BY <2>2
    <3>2. init_seen' = {seen \cup {p}} /\ seen \cup {p} \in SUBSET Pods
      BY <1>2, <1>5, <1>7, <3>1
    <3>3. QED
      BY <3>2
  <2>3. QED
    BY <2>1, <2>2 DEF IInv, Types
<1>11. QED
  BY <1>2, <1>8, <1>9, <1>10, WatcherKeeps

LEMMA OnApplyKeeps ==
  ASSUME IInv, OnApply
  PROVE  IInv'
<1>1. PICK e : e = Head(queue)
  OBVIOUS
<1>2. /\ Recv("Apply")
      /\ cache' = apply_pod_snapshot(cache, e.pod, e.containers)
      /\ init_seen' = init_seen
      /\ known_pods' = known_pods \cup {e.pod}
  BY <1>1 DEF OnApply
<1>3. e.type = "Apply" /\ Plausible(e) /\ listed' = listed
  BY <1>1, <1>2, RecvFacts
<1>4. Word(e, e.pod) /\ \A q : Word(e, q) => q = e.pod
  BY <1>3 DEF Word
<1>5. PICK p : p = e.pod
  OBVIOUS
<1>6. PICK cs : cs = e.containers
  OBVIOUS
<1>7. p \in Pods /\ cs \in Seq(Of(p)) /\ IsInjective(cs)
  BY <1>3, <1>4, <1>5, <1>6 DEF Plausible
<1>8. /\ CacheSound' /\ known_pods' \subseteq Pods
      /\ ToSet(cs) = listed \cap Of(p) => Matches(p)'
      /\ \A q \in Pods : q # p /\ Matches(q) => Matches(q)'
  BY <1>2, <1>3, <1>5, <1>6, <1>7, SnapshotApplied
<1>9. ASSUME NEW q \in Pods PROVE Handled(Head(queue), q)
  <2>1. CASE q = p
    <3>1. Word(e, q)
      BY <1>4, <1>5, <2>1
    <3>2. QED
      BY <1>1, <1>3, <1>6, <1>8, <2>1, <3>1 DEF Handled
  <2>2. CASE q # p
    <3>1. ~Word(e, q)
      BY <1>4, <1>5, <2>2
    <3>2. QED
      BY <1>1, <1>2, <1>3, <1>8, <2>2, <3>1 DEF Handled
  <2>3. QED
    BY <2>1, <2>2
<1>10. init_seen' = {} \/ \E seen \in SUBSET Pods : init_seen' = {seen}
  BY <1>2 DEF IInv, Types
<1>11. QED
  BY <1>2, <1>8, <1>9, <1>10, WatcherKeeps

\* What removing pods does to the cache, as the watcher sees it.
LEMMA PodsRemoved ==
  ASSUME IInv, NEW ps, cache' = remove_pods(cache, ps), known_pods' = known_pods \ ps,
         listed' = listed
  PROVE  /\ CacheSound' /\ known_pods' \subseteq Pods
         /\ \A q : q \notin ps /\ Matches(q) => Matches(q)'
         /\ \A q : q \in ps /\ listed \cap Of(q) = {} => Matches(q)'
<1>1. PICK r : r = cache'
  OBVIOUS
<1>2. PICK b : b = cache
  OBVIOUS
<1>3. Sound(b) /\ Fits(b) /\ DOMAIN b.by_pod_uid \subseteq known_pods
  BY <1>2 DEF IInv, CacheSound
<1>4. /\ Sound(r) /\ r.max_containers = b.max_containers
      /\ \A c : c \in Cached(r) <=> c \in Cached(b) /\ PodOf[c] \notin ps
      /\ \A p : p \in DOMAIN r.by_pod_uid <=> p \in DOMAIN b.by_pod_uid /\ p \notin ps
  BY <1>1, <1>2, <1>3, RemoveKeeps
<1>5. Fits(r)
  <2>1. PICK S : S = Cached(b)
    OBVIOUS
  <2>2. PICK R : R = Cached(r)
    OBVIOUS
  <2>3. S \in SUBSET Containers /\ R \in SUBSET S /\ R \in SUBSET Containers
    BY <1>3, <1>4, <2>1, <2>2 DEF Sound
  <2>4. Cardinality(R) <= Cardinality(S) /\ Cardinality(S) \in Nat /\ Cardinality(R) \in Nat
    BY <2>3, SmallerFits, CachedIsFinite
  <2>5. Cardinality(S) <= b.max_containers /\ b.max_containers \in Nat
    BY <1>3, <2>1 DEF Fits, Sound
  <2>6. Cardinality(R) <= r.max_containers
    BY <1>4, <2>4, <2>5
  <2>7. QED
    BY <2>2, <2>6 DEF Fits
<1>6. CacheSound'
  <2>1. DOMAIN r.by_pod_uid \subseteq known_pods'
    BY <1>3, <1>4
  <2>2. QED
    BY <1>1, <1>4, <1>5, <2>1 DEF CacheSound
<1>7. known_pods' \subseteq Pods
  BY DEF IInv, Types
<1>8. \A q : \A c \in Of(q) : c \in Containers /\ PodOf[c] = q
  BY DEF Of
<1>9. \A q : q \notin ps /\ Matches(q) => Matches(q)'
  BY <1>1, <1>2, <1>4, <1>8 DEF Matches, Of
<1>10. \A q : q \in ps /\ listed \cap Of(q) = {} => Matches(q)'
  BY <1>1, <1>4, <1>8 DEF Matches, Of
<1>11. QED
  BY <1>6, <1>7, <1>9, <1>10

\* Nothing is cached of a pod that is not known.
LEMMA UnknownIsUncached ==
  ASSUME IInv, NEW p, p \notin known_pods, listed \cap Of(p) = {}
  PROVE  Matches(p)
<1>1. \A c \in Of(p) : c \in Containers /\ PodOf[c] = p
  BY DEF Of
<1>2. \A c \in Of(p) : c \notin Cached(cache)
  BY <1>1 DEF IInv, CacheSound, Sound, Indexed
<1>3. QED
  BY <1>2 DEF Matches

LEMMA OnInitDoneKeeps ==
  ASSUME IInv, OnInitDone
  PROVE  IInv'
<1>1. PICK stale : stale = {p \in known_pods : \E seen \in init_seen : p \notin seen}
  OBVIOUS
<1>2. /\ Recv("InitDone") /\ cache' = remove_pods(cache, stale)
      /\ known_pods' = known_pods \ stale /\ init_seen' = {}
  BY <1>1 DEF OnInitDone
<1>3. Head(queue).type = "InitDone" /\ listed' = listed
  BY <1>2, RecvFacts
<1>4. /\ CacheSound' /\ known_pods' \subseteq Pods
      /\ \A q : q \notin stale /\ Matches(q) => Matches(q)'
      /\ \A q : q \in stale /\ listed \cap Of(q) = {} => Matches(q)'
  BY <1>2, <1>3, PodsRemoved
<1>5. ASSUME NEW p \in Pods PROVE Handled(Head(queue), p)
  <2>1. (\A seen \in init_seen : p \in seen) => p \notin stale
    BY <1>1
  <2>2. ASSUME init_seen # {}, \A seen \in init_seen : p \notin seen, listed \cap Of(p) = {}
        PROVE  Matches(p)'
    <3>1. CASE p \in known_pods
      <4>1. p \in stale
        BY <1>1, <2>2, <3>1
      <4>2. QED
        BY <1>4, <2>2, <4>1
    <3>2. CASE p \notin known_pods
      <4>1. p \notin stale /\ Matches(p)
        BY <1>1, <2>2, <3>2, UnknownIsUncached
      <4>2. QED
        BY <1>4, <4>1
    <3>3. QED
      BY <3>1, <3>2
  <2>3. ~Word(Head(queue), p)
    BY <1>3 DEF Word
  <2>4. QED
    BY <1>2, <1>3, <1>4, <2>1, <2>2, <2>3 DEF Handled
<1>6. QED
  BY <1>2, <1>4, <1>5, WatcherKeeps

LEMMA OnDeleteKeeps ==
  ASSUME IInv, OnDelete
  PROVE  IInv'
<1>1. PICK e : e = Head(queue)
  OBVIOUS
<1>2. PICK p : p = e.pod
  OBVIOUS
<1>3. PICK ps : ps = {p}
  OBVIOUS
<1>4. /\ Recv("Delete") /\ cache' = remove_pods(cache, ps)
      /\ known_pods' = known_pods \ ps /\ init_seen' = init_seen
  BY <1>1, <1>2, <1>3 DEF OnDelete
<1>5. e.type = "Delete" /\ Plausible(e) /\ listed' = listed
  BY <1>1, <1>4, RecvFacts
<1>6. Word(e, p) /\ \A q : Word(e, q) => q = p
  BY <1>2, <1>5 DEF Word
<1>7. ToSet(e.containers) = {}
  BY <1>5, <1>6 DEF Plausible
<1>8. /\ CacheSound' /\ known_pods' \subseteq Pods
      /\ \A q : q \notin ps /\ Matches(q) => Matches(q)'
      /\ \A q : q \in ps /\ listed \cap Of(q) = {} => Matches(q)'
  BY <1>4, <1>5, PodsRemoved
<1>9. ASSUME NEW q \in Pods PROVE Handled(Head(queue), q)
  <2>1. CASE q = p
    <3>1. Word(e, q) /\ q \in ps
      BY <1>3, <1>6, <2>1
    <3>2. ToSet(e.containers) = listed \cap Of(q) => Matches(q)'
      BY <1>7, <1>8, <3>1
    <3>3. QED
      BY <1>1, <1>5, <3>1, <3>2 DEF Handled
  <2>2. CASE q # p
    <3>1. ~Word(e, q) /\ q \notin ps
      BY <1>3, <1>6, <2>2
    <3>2. QED
      BY <1>1, <1>4, <1>5, <1>8, <3>1 DEF Handled
  <2>3. QED
    BY <2>1, <2>2
<1>10. init_seen' = {} \/ \E seen \in SUBSET Pods : init_seen' = {seen}
  BY <1>4 DEF IInv, Types
<1>11. QED
  BY <1>4, <1>8, <1>9, <1>10, WatcherKeeps

-----------------------------------------------------------------------------
(* The lookup *)

\* A memo that may be cleared first stays within its bound.
LEMMA MemoBound ==
  ASSUME Types, NEW cgroup \in Containers \cup {Host}, Remember(cgroup)
  PROVE  memo' \subseteq Containers \cup {Host} /\ Cardinality(memo') <= MemoMax
<1>1. PICK old : old = IF Cardinality(memo) >= MemoMax THEN {} ELSE memo
  OBVIOUS
<1>2. memo' = old \cup {cgroup}
  BY <1>1 DEF Remember
<1>3. IsFiniteSet(Containers \cup {Host})
  BY Cluster, FS_AddElement
<1>4. IsFiniteSet(memo) /\ Cardinality(memo) \in Nat
  BY <1>3, FS_Subset, FS_CardinalityType DEF Types
<1>5. MemoMax \in Nat /\ MemoMax >= 1
  BY BindingAssumption
<1>6. IsFiniteSet(old) /\ Cardinality(old) \in Nat /\ Cardinality(old) < MemoMax
  <2>1. CASE Cardinality(memo) >= MemoMax
    <3>1. old = {}
      BY <1>1, <2>1
    <3>2. IsFiniteSet(old) /\ Cardinality(old) = 0
      BY <3>1, FS_EmptySet
    <3>3. QED
      BY <1>5, <3>2
  <2>2. CASE ~(Cardinality(memo) >= MemoMax)
    BY <1>1, <1>4, <1>5, <2>2
  <2>3. QED
    BY <2>1, <2>2
<1>7. Cardinality(old \cup {cgroup}) \in {Cardinality(old), Cardinality(old) + 1}
  BY <1>6, FS_AddElement
<1>8. Cardinality(memo') <= MemoMax
  BY <1>2, <1>5, <1>6, <1>7
<1>9. old \subseteq Containers \cup {Host}
  BY <1>1 DEF Types
<1>10. QED
  BY <1>2, <1>8, <1>9

\* What a lookup leaves alone.
LEMMA LookupKeeps ==
  ASSUME IInv, Lookup, memo' \subseteq Containers \cup {Host}, Cardinality(memo') <= MemoMax
  PROVE  IInv'
<1>1. UNCHANGED <<status, listed, watching, queue, cache, known_pods, init_seen>>
  BY DEF Lookup, clusterVars, streamVars, watcherVars
<1>2. Types'
  BY <1>1 DEF IInv, Types
<1>3. Stream'
  BY <1>1 DEF IInv, Stream
<1>4. CacheSound'
  BY <1>1 DEF IInv, CacheSound, Sound, Shape, Indexed, Ordered, Fits, Cached, Of
<1>5. Follows'
  <2>1. ASSUME NEW p \in Pods
        PROVE  /\ Announced(p)' <=> Announced(p)
               /\ Unlisted(p)' <=> Unlisted(p)
               /\ Applied(p)' <=> Applied(p)
    BY <1>1 DEF Announced, Unlisted, Applied, Matches, Cached, Of
  <2>2. QED
    BY <1>1, <2>1 DEF IInv, Follows
<1>6. QED
  BY <1>2, <1>3, <1>4, <1>5 DEF IInv

\* The result of a lookup, and the memo it leaves.
LEMMA ResolveFacts ==
  ASSUME IInv, NEW cgroup \in Containers \cup {Host, NoCgroup}, resolve(cgroup)
  PROVE  /\ Lookup
         /\ memo' \subseteq Containers \cup {Host} /\ Cardinality(memo') <= MemoMax
         /\ \/ reader' = Idle
            \/ \E container \in Containers :
                 /\ container \in NowOfPid(cgroup) \/ container = cgroup
                 /\ reader' = [pc |-> "bind", cgroup |-> cgroup, container |-> container,
                               pod |-> "none"]
<1>1. Lookup
  BY DEF resolve
<1>2. memo \subseteq Containers \cup {Host} /\ Cardinality(memo) <= MemoMax
  BY DEF IInv, Types
<1>3. ASSUME NEW c, ResolvedTo(cgroup, c)
      PROVE  reader' = [pc |-> "bind", cgroup |-> cgroup, container |-> c, pod |-> "none"]
  BY <1>3 DEF ResolvedTo, Idle
<1>4. CASE cgroup = NoCgroup /\ Unbound /\ UNCHANGED memo
  BY <1>1, <1>2, <1>4 DEF Unbound
<1>5. CASE cgroup # NoCgroup
  <2>0. cgroup \in Containers \cup {Host}
    BY <1>5
  <2>1. PICK of \in NowOfPid(cgroup) :
          IF of \in Containers THEN ResolvedTo(cgroup, of) /\ UNCHANGED memo
          ELSE resolve_from_cgroupfs_fallback(cgroup)
    BY <1>5 DEF resolve
  <2>2. CASE of \in Containers
    BY <1>1, <1>2, <1>3, <2>1, <2>2
  <2>3. CASE of \notin Containers
    <3>1. \/ UNCHANGED memo
          \/ Remember(cgroup)
      BY <2>1, <2>3 DEF resolve_from_cgroupfs_fallback
    <3>2. memo' \subseteq Containers \cup {Host} /\ Cardinality(memo') <= MemoMax
      BY <1>2, <2>0, <3>1, MemoBound DEF IInv
    <3>3. Unbound \/ (cgroup \in Containers /\ ResolvedTo(cgroup, cgroup))
      BY <2>1, <2>3 DEF resolve_from_cgroupfs_fallback
    <3>4. QED
      BY <1>1, <1>3, <3>2, <3>3 DEF Unbound
  <2>4. QED
    BY <2>2, <2>3
<1>6. QED
  BY <1>4, <1>5 DEF resolve

-----------------------------------------------------------------------------
(* The invariant *)

LEMMA InitHolds ==
  ASSUME Init
  PROVE  IInv
<1>1. PICK max \in Nat : cache = EmptyCache(max)
  BY Cluster DEF Init
<1>3. Sound(cache) /\ Fits(cache) /\ DOMAIN cache.by_pod_uid = {}
  <2>1. EmptyCache(max).by_pod_uid = <<>>
    BY DEF EmptyCache
  <2>2. QED
    BY <1>1, <2>1, EmptyIsSound
<1>4. CacheSound
  BY <1>3 DEF CacheSound
<1>5. Types
  <2>1. Cardinality(memo) <= MemoMax
    BY Cluster, FS_EmptySet DEF Init
  <2>2. listed = {} /\ init_seen = {} /\ known_pods = {} /\ memo = {} /\ watching = FALSE
    BY DEF Init
  <2>3. status \in [Pods -> {"new", "present", "deleted"}]
    BY DEF Init
  <2>4. QED
    BY <2>1, <2>2, <2>3 DEF Types
<1>6. Stream
  BY DEF Init, Stream
<1>7. Follows
  BY DEF Init, Follows
<1>8. QED
  BY <1>4, <1>5, <1>6, <1>7 DEF IInv

LEMMA NextKeeps ==
  ASSUME IInv, [Next]_vars
  PROVE  IInv'
<1>1. ASSUME NEW p \in Pods, NEW cs \in SUBSET Of(p), PodApplied(p, cs) PROVE IInv'
  BY <1>1, PodAppliedKeeps
<1>2. ASSUME NEW p \in Pods, PodDeleted(p) PROVE IInv'
  BY <1>2, PodDeletedKeeps
<1>3. CASE Break
  BY <1>3, BreakKeeps
<1>4. CASE Relist
  BY <1>4, RelistKeeps
<1>5. CASE Watcher
  <2>1. CASE OnInit
    BY <2>1, OnInitKeeps
  <2>2. CASE OnInitApply
    BY <2>2, OnInitApplyKeeps
  <2>3. CASE OnInitDone
    BY <2>3, OnInitDoneKeeps
  <2>4. CASE OnApply
    BY <2>4, OnApplyKeeps
  <2>5. CASE OnDelete
    BY <2>5, OnDeleteKeeps
  <2>6. CASE OnErr
    BY <2>6, OnErrKeeps
  <2>7. QED
    BY <1>5, <2>1, <2>2, <2>3, <2>4, <2>5, <2>6 DEF Watcher
<1>6. memo \subseteq Containers \cup {Host} /\ Cardinality(memo) <= MemoMax
  BY DEF IInv, Types
<1>7. ASSUME NEW cgroup \in Containers \cup {Host, NoCgroup}, resolve(cgroup) PROVE IInv'
  BY <1>7, ResolveFacts, LookupKeeps
<1>8. CASE bind_container
  BY <1>6, <1>8, LookupKeeps DEF bind_container
<1>9. CASE UNCHANGED vars
  <2>1. Lookup /\ UNCHANGED memo
    BY <1>9 DEF vars, Lookup, clusterVars, streamVars, watcherVars
  <2>2. QED
    BY <1>6, <2>1, LookupKeeps
<1>10. QED
  BY <1>1, <1>2, <1>3, <1>4, <1>5, <1>7, <1>8, <1>9 DEF Next

\* What the properties say follows from the invariant.
LEMMA Implied ==
  ASSUME IInv
  PROVE  TypeOK /\ CacheConsistent /\ CacheFollowsCluster
<1>1. PICK b : b = cache
  OBVIOUS
<1>2. Sound(b) /\ Fits(b)
  BY <1>1 DEF IInv, CacheSound
<1>3. Types
  BY DEF IInv
<1>4. TypeOK
  <2>1. init_seen \subseteq SUBSET Pods /\ Cardinality(init_seen) <= 1
    <3>1. CASE init_seen = {}
      BY <3>1, FS_EmptySet
    <3>2. CASE \E seen \in SUBSET Pods : init_seen = {seen}
      BY <3>2, FS_Singleton
    <3>3. QED
      BY <1>3, <3>1, <3>2 DEF Types
  <2>2. Cached(b) \subseteq Containers /\ DOMAIN b.by_pod_uid \subseteq Pods
    BY <1>2 DEF Sound, Indexed
  <2>3. QED
    BY <1>1, <1>3, <2>1, <2>2 DEF Types, TypeOK
<1>5. CacheConsistent
  <2>1. Len(b.insertion_order) = Cardinality(Cached(b)) /\ ToSet(b.insertion_order) = Cached(b)
    BY <1>2, LengthIsCardinality DEF Sound, Ordered
  <2>2. Cardinality(Cached(b)) <= b.max_containers
    BY <1>2 DEF Fits
  <2>3. /\ \A c \in Cached(b) : b.by_container_id[c] = PodOf[c]
        /\ \A p \in DOMAIN b.by_pod_uid : b.by_pod_uid[p] # <<>>
    BY <1>2 DEF Sound, Indexed
  <2>4. PICK I : I = UNION {ToSet(b.by_pod_uid[p]) : p \in DOMAIN b.by_pod_uid}
    OBVIOUS
  <2>5. ASSUME NEW c, c \in Cached(b) PROVE c \in I
    BY <1>2, <2>4, <2>5 DEF Sound, Indexed
  <2>6. ASSUME NEW c, c \in I PROVE c \in Cached(b)
    <3>1. PICK p \in DOMAIN b.by_pod_uid : c \in ToSet(b.by_pod_uid[p])
      BY <2>4, <2>6
    <3>2. c \in Of(p)
      BY <1>2, <3>1 DEF Sound, Indexed
    <3>3. c \in Containers /\ PodOf[c] = p
      BY <3>2 DEF Of
    <3>4. QED
      BY <1>2, <3>1, <3>3 DEF Sound, Indexed
  <2>7. Cached(b) = UNION {ToSet(b.by_pod_uid[p]) : p \in DOMAIN b.by_pod_uid}
    BY <2>4, <2>5, <2>6
  <2>8. QED
    BY <1>1, <2>1, <2>2, <2>3, <2>7 DEF CacheConsistent
<1>6. CacheFollowsCluster
  <2>1. SUFFICES ASSUME Settled
                 PROVE  /\ Cached(cache) \subseteq listed
                        /\ cache.max_containers >= Cardinality(Containers)
                             => listed \subseteq Cached(cache)
    BY DEF CacheFollowsCluster
  <2>2. watching /\ queue = <<>>
    BY <2>1 DEF Settled
  <2>3. DOMAIN queue = {}
    BY <2>2
  <2>4. ASSUME NEW p \in Pods PROVE Matches(p)
    <3>1. Announced(p) \/ Unlisted(p) \/ Applied(p)
      BY <2>2 DEF IInv, Follows
    <3>2. QED
      BY <2>3, <3>1 DEF Announced, Unlisted, Applied
  <2>5. ASSUME NEW c \in Containers
        PROVE  /\ c \in Cached(cache) => c \in listed
               /\ cache.max_containers >= Cardinality(Containers) /\ c \in listed
                    => c \in Cached(cache)
    <3>1. PICK p \in Pods : p = PodOf[c]
      BY Cluster
    <3>2. c \in Of(p)
      BY <3>1 DEF Of
    <3>3. QED
      BY <2>4, <3>2 DEF Matches
  <2>6. Cached(cache) \subseteq Containers /\ listed \subseteq Containers
    BY <1>1, <1>2, <1>3 DEF Sound, Types
  <2>7. QED
    BY <2>5, <2>6
<1>7. QED
  BY <1>4, <1>5, <1>6

-----------------------------------------------------------------------------
(* The event's own pod *)

\* A pid that is not reused names its own container or none.
LEMMA OwnContainer ==
  ASSUME ~PidReuse, NEW cgroup, NEW c \in Containers,
         c \in NowOfPid(cgroup) \/ c = cgroup
  PROVE  c = cgroup
<1>1. NoProcess \notin Containers
  BY BindingAssumption
<1>2. QED
  BY <1>1 DEF NowOfPid

LEMMA LookingInit ==
  ASSUME Init
  PROVE  Looking
<1>1. NoProcess \notin Pods
  BY BindingAssumption
<1>2. QED
  BY <1>1 DEF Init, Looking, BoundToItsPod, Idle, NoProcess

LEMMA LookingNext ==
  ASSUME ~PidReuse, IInv, Looking, [Next]_vars
  PROVE  Looking'
<1>1. "none" \notin Pods
  BY BindingAssumption DEF NoProcess
<1>2. CASE UNCHANGED reader
  BY <1>2 DEF Looking, BoundToItsPod
<1>3. CASE reader' = Idle
  BY <1>1, <1>3 DEF Looking, BoundToItsPod, Idle
<1>4. ASSUME NEW cgroup \in Containers \cup {Host, NoCgroup}, resolve(cgroup) PROVE Looking'
  <2>1. CASE reader' = Idle
    BY <1>3, <2>1
  <2>2. CASE \E c \in Containers :
               /\ c \in NowOfPid(cgroup) \/ c = cgroup
               /\ reader' = [pc |-> "bind", cgroup |-> cgroup, container |-> c, pod |-> "none"]
    <3>1. PICK c \in Containers :
            /\ c \in NowOfPid(cgroup) \/ c = cgroup
            /\ reader' = [pc |-> "bind", cgroup |-> cgroup, container |-> c, pod |-> "none"]
      BY <2>2
    <3>2. c = cgroup
      BY <3>1, OwnContainer
    <3>3. QED
      BY <1>1, <3>1, <3>2 DEF Looking, BoundToItsPod
  <2>3. QED
    BY <1>4, <2>1, <2>2, ResolveFacts
<1>5. CASE bind_container
  <2>1. CASE reader.container \in Cached(cache)
    <3>1. reader' = [reader EXCEPT !.pc = "idle",
                       !.pod = cache.by_container_id[reader.container]]
      BY <1>5, <2>1 DEF bind_container
    <3>2. reader.pc = "bind"
      BY <1>5 DEF bind_container
    <3>3. reader.cgroup \in Containers /\ reader.container = reader.cgroup
      BY <3>2 DEF Looking
    <3>4. cache.by_container_id[reader.container] = PodOf[reader.cgroup]
      BY <2>1, <3>3 DEF IInv, CacheSound, Sound
    <3>5. reader'.pc # "bind" /\ reader'.cgroup = reader.cgroup
      BY <3>1
    <3>6. reader'.pod \in Pods => reader'.pod = PodOf[reader.cgroup]
      BY <3>1, <3>4
    <3>7. QED
      BY <3>3, <3>5, <3>6 DEF Looking, BoundToItsPod
  <2>2. CASE reader.container \notin Cached(cache)
    BY <1>3, <1>5, <2>2 DEF bind_container, Unbound
  <2>3. QED
    BY <2>1, <2>2
<1>6. ASSUME NEW p \in Pods, (\E cs \in SUBSET Of(p) : PodApplied(p, cs)) \/ PodDeleted(p)
      PROVE  Looking'
  BY <1>2, <1>6 DEF PodApplied, PodDeleted, Changes, readerVars
<1>7. CASE Break \/ Relist
  BY <1>2, <1>7 DEF Break, Relist, readerVars
<1>8. CASE Watcher
  BY <1>2, <1>8 DEF Watcher, OnInit, OnInitApply, OnInitDone, OnApply, OnDelete, OnErr, Recv,
                    readerVars
<1>9. CASE UNCHANGED vars
  BY <1>2, <1>9 DEF vars
<1>10. QED
  BY <1>4, <1>5, <1>6, <1>7, <1>8, <1>9 DEF Next

-----------------------------------------------------------------------------
(* Theorems *)

LEMMA Invariance == Spec => []IInv
<1>1. Init => IInv
  BY InitHolds
<1>2. IInv /\ [Next]_vars => IInv'
  BY NextKeeps
<1>3. QED
  BY <1>1, <1>2, PTL DEF Spec

\* The state of the watcher, the cache and the memo is well formed, and the memo
\* never outgrows CGROUP_FALLBACK_MEMO_MAX.
THEOREM TypeCorrect == Spec => []TypeOK
<1>1. IInv => TypeOK
  BY Implied
<1>2. QED
  BY <1>1, Invariance, PTL

\* The map, the index by pod and the order of insertion agree after any sequence of
\* apply_pod_snapshot, remove_pod and evict_to_capacity, for any number of pods and
\* any capacity, none included.
THEOREM CacheAgrees == Spec => []CacheConsistent
<1>1. IInv => CacheConsistent
  BY Implied
<1>2. QED
  BY <1>1, Invariance, PTL

\* However often the stream breaks, and whatever is lost with it, once the watcher has
\* read all of it the cache holds no container that the cluster has not.
THEOREM CacheIsCurrent == Spec => []CacheFollowsCluster
<1>1. IInv => CacheFollowsCluster
  BY Implied
<1>2. QED
  BY <1>1, Invariance, PTL

\* Where pids are not reused, an event is bound to the pod of the cgroup it came from
\* or not at all, whatever the watcher does to the cache during the lookup.
THEOREM BindingIsTrue ==
  ASSUME ~PidReuse
  PROVE  Spec => []BoundToItsPod
<1>1. Init => Looking
  BY LookingInit
<1>2. IInv /\ Looking /\ [Next]_vars => Looking'
  BY LookingNext
<1>3. Looking => BoundToItsPod
  BY DEF Looking
<1>4. QED
  BY <1>1, <1>2, <1>3, Invariance, PTL DEF Spec
=============================================================================
