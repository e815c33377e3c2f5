---------------------------- MODULE BaseTheorems ----------------------------
(***************************************************************************)
(* What the proofs of several components rest on: how Weight behaves when  *)
(* a set gains, loses or is compared with members; least numbers and       *)
(* induction over a set of numbers; what a sequence is made of.            *)
(***************************************************************************)
EXTENDS Weights, Integers, Sequences, FiniteSetTheorems, SequenceTheorems,
        WellFoundedInduction, TLAPS

-----------------------------------------------------------------------------
(* Weights *)

\* Nothing weighs nothing.
THEOREM WeightOfEmpty ==
  ASSUME NEW size
  PROVE  IsFiniteSet(Units({}, size)) /\ Weight({}, size) = 0
<1>1. Units({}, size) = {}
  BY DEF Units
<1>2. QED
  BY <1>1, FS_EmptySet DEF Weight

\* A weight is a natural number.
THEOREM WeightType ==
  ASSUME NEW S, NEW size, IsFiniteSet(Units(S, size))
  PROVE  Weight(S, size) \in Nat
BY FS_CardinalityType DEF Weight

\* A new member adds its size.
THEOREM WeightOfMore ==
  ASSUME NEW S, NEW size, NEW x, x \notin S, size[x] \in Nat,
         IsFiniteSet(Units(S, size))
  PROVE  /\ IsFiniteSet(Units(S \cup {x}, size))
         /\ Weight(S \cup {x}, size) = Weight(S, size) + size[x]
<1> DEFINE more == {x} \X (1..size[x])
<1>1. IsFiniteSet(more) /\ Cardinality(more) = size[x]
  <2>1. IsFiniteSet({x}) /\ Cardinality({x}) = 1
    BY FS_Singleton
  <2>2. IsFiniteSet(1..size[x]) /\ Cardinality(1..size[x]) = size[x]
    BY FS_Interval
  <2>3. IsFiniteSet(more) /\ Cardinality(more) = 1 * size[x]
    BY <2>1, <2>2, FS_Product
  <2>4. QED
    BY <2>3
<1>2. Units(S \cup {x}, size) = Units(S, size) \cup more
  BY DEF Units
<1>3. Units(S, size) \cap more = {}
  BY DEF Units
<1>4. /\ IsFiniteSet(Units(S, size) \cup more)
      /\ Cardinality(Units(S, size) \cup more) =
           Cardinality(Units(S, size)) + Cardinality(more) - 0
  <2> HIDE DEF more
  <2>1. QED
    BY <1>1, <1>3, FS_Union, FS_EmptySet
<1>5. Cardinality(Units(S, size)) \in Nat
  BY FS_CardinalityType
<1> HIDE DEF more
<1>6. Cardinality(Units(S, size) \cup more) = Cardinality(Units(S, size)) + size[x]
  BY <1>1, <1>4, <1>5
<1>7. QED
  BY <1>2, <1>4, <1>6 DEF Weight

\* A part weighs at most as much as the whole.
THEOREM WeightOfSubset ==
  ASSUME NEW S, NEW T, S \subseteq T, NEW size, IsFiniteSet(Units(T, size))
  PROVE  /\ IsFiniteSet(Units(S, size))
         /\ Weight(S, size) <= Weight(T, size)
<1>1. Units(S, size) \in SUBSET Units(T, size)
  BY DEF Units
<1>2. QED
  BY <1>1, FS_Subset DEF Weight

\* A member that leaves takes its size along.
THEOREM WeightOfLess ==
  ASSUME NEW S, NEW size, NEW x \in S, size[x] \in Nat, IsFiniteSet(Units(S, size))
  PROVE  /\ IsFiniteSet(Units(S \ {x}, size))
         /\ Weight(S \ {x}, size) = Weight(S, size) - size[x]
<1> DEFINE rest == S \ {x}
<1>1. rest \cup {x} = S /\ x \notin rest /\ rest \subseteq S
  OBVIOUS
<1> HIDE DEF rest
<1>2. IsFiniteSet(Units(rest, size))
  BY <1>1, WeightOfSubset
<1>3. Weight(S, size) = Weight(rest, size) + size[x]
  BY <1>1, <1>2, WeightOfMore
<1>4. Weight(rest, size) \in Nat
  BY <1>2, WeightType
<1>5. Weight(rest, size) = Weight(S, size) - size[x]
  BY <1>3, <1>4
<1>6. QED
  BY <1>2, <1>5 DEF rest

\* Only the empty set of things that all weigh something weighs nothing.
THEOREM WeightZero ==
  ASSUME NEW S, NEW size, IsFiniteSet(Units(S, size)), Weight(S, size) = 0,
         \A x \in S : size[x] \in Nat \ {0}
  PROVE  S = {}
<1>1. Units(S, size) = {}
  BY FS_EmptySet DEF Weight
<1>2. ASSUME NEW x \in S PROVE FALSE
  <2>1. <<x, 1>> \in Units(S, size)
    BY DEF Units
  <2>2. QED
    BY <1>1, <2>1
<1>3. QED
  BY <1>2

\* Finitely many things have finitely many units.
THEOREM WeightFinite ==
  ASSUME NEW S, IsFiniteSet(S), NEW size, \A x \in S : size[x] \in Nat
  PROVE  IsFiniteSet(Units(S, size))
<1> DEFINE T == {{x} \X (1..size[x]) : x \in S}
           f == [x \in S |-> {x} \X (1..size[x])]
<1>1. f \in Surjection(S, T)
  <2>1. f \in [S -> T]
    OBVIOUS
  <2>2. \A t \in T : \E x \in S : f[x] = t
    OBVIOUS
  <2>3. QED
    BY <2>1, <2>2 DEF Surjection
<1>2. IsFiniteSet(T)
  <2> HIDE DEF f, T
  <2>1. QED
    BY <1>1, FS_Surjection
<1>3. ASSUME NEW x \in S PROVE IsFiniteSet({x} \X (1..size[x]))
  <2>1. IsFiniteSet({x})
    BY FS_Singleton
  <2>2. size[x] \in Int /\ 1 \in Int
    OBVIOUS
  <2>3. IsFiniteSet(1..size[x])
    BY <2>2, FS_Interval
  <2>4. QED
    BY <2>1, <2>3, FS_Product
<1>4. QED
  BY <1>2, <1>3, FS_UNION DEF Units

\* Only the sizes of the members count.
THEOREM WeightOfSame ==
  ASSUME NEW S, NEW size, NEW other, \A x \in S : size[x] = other[x]
  PROVE  Weight(S, size) = Weight(S, other)
BY DEF Weight, Units

-----------------------------------------------------------------------------
(* Numbers and sequences *)

Below == {p \in Nat \X Nat : p[1] < p[2]}

LEMMA BelowWF == IsWellFoundedOn(Below, Nat)
BY NatLessThanWellFounded, Zenon DEF OpToRel, Below

\* A set of numbers that is not empty has a least member.
LEMMA LeastNumber ==
  ASSUME NEW S \in SUBSET Nat, S # {}
  PROVE  \E x \in S : \A y \in S : x <= y
<1>1. PICK x \in S : \A y \in S : ~ (<<y, x>> \in Below)
  BY WFMin, BelowWF
<1>2. ASSUME NEW y \in S PROVE x <= y
  <2>1. y \in Nat /\ x \in Nat
    OBVIOUS
  <2>2. y < x => <<y, x>> \in Below
    BY <2>1 DEF Below
  <2>3. QED
    BY <2>1, <2>2, <1>1
<1>3. QED
  BY <1>2

\* A set with 0, and with the successor of each number it has, has them all.
LEMMA NatSetInduction ==
  ASSUME NEW S, 0 \in S, \A n \in Nat : n \in S => n + 1 \in S
  PROVE  Nat \subseteq S
<1> DEFINE T == Nat \ S
<1> SUFFICES ASSUME T # {} PROVE FALSE
  OBVIOUS
<1>1. PICK x \in T : \A y \in T : ~ (<<y, x>> \in Below)
  <2>1. T \subseteq Nat
    OBVIOUS
  <2> HIDE DEF T
  <2>2. QED BY <2>1, WFMin, BelowWF
<1>2. x # 0 /\ x \in Nat
  OBVIOUS
<1>3. x - 1 \in Nat /\ x - 1 < x
  BY <1>2
<1>4. <<x - 1, x>> \in Below
  BY <1>2, <1>3 DEF Below
<1>5. x - 1 \in S
  BY <1>1, <1>3, <1>4
<1>6. QED
  BY <1>5, <1>3

LEMMA SequenceFacts ==
  ASSUME NEW S, NEW s \in Seq(S)
  PROVE  Len(s) \in Nat /\ DOMAIN s = 1..Len(s) /\ \A i \in 1..Len(s) : s[i] \in S
BY LenProperties, ElementOfSeq
=============================================================================
