---------------------------- MODULE StreamsProofs ----------------------------
(***************************************************************************)
(* RowDiff and Streams, proved for any units, contents and ways to tell    *)
(* rows apart, and any number of consumers and changes.                    *)
(***************************************************************************)
EXTENDS Streams, FiniteSetTheorems, FunctionTheorems, SequenceTheorems, TLAPS

-----------------------------------------------------------------------------
(* Sequences.                                                              *)

LEMMA Split ==
  ASSUME NEW S, NEW s \in Seq(S), NEW t \in Seq(S)
  PROVE  /\ SubSeq(s \o t, Len(s) + 1, Len(s \o t)) = t
         /\ SubSeq(s \o t, 1, Len(s)) = s
         /\ Len(s) <= Len(s \o t)
<1>1. s \o t \in Seq(S) /\ Len(s) \in Nat /\ Len(t) \in Nat /\ Len(s \o t) = Len(s) + Len(t)
  OBVIOUS
<1>2. SubSeq(s \o t, Len(s) + 1, Len(s \o t)) = t
  <2>1. CASE t = <<>>
    BY <1>1, <2>1, SubSeqEmpty
  <2>2. CASE t # <<>>
    <3>1. Len(t) # 0 /\ Len(s) + 1 \in Len(s) + 1 .. Len(s) + Len(t)
                    /\ Len(s \o t) \in Len(s) + 1 .. Len(s) + Len(t)
      BY <1>1, <2>2
    <3>2. SubSeq(s \o t, Len(s) + 1, Len(s \o t)) = SubSeq(t, 1, Len(t))
      BY <1>1, <3>1, SubSeqOfConcat2
    <3>. QED
      BY <3>2, SubSeqFull
  <2>. QED
    BY <2>1, <2>2
<1>3. SubSeq(s \o t, 1, Len(s)) = s
  <2>1. CASE s = <<>>
    BY <1>1, <2>1, SubSeqEmpty
  <2>2. CASE s # <<>>
    <3>1. Len(s) # 0 /\ 1 \in 1 .. Len(s) /\ Len(s) \in 1 .. Len(s)
      BY <1>1, <2>2
    <3>2. SubSeq(s \o t, 1, Len(s)) = SubSeq(s, 1, Len(s))
      BY <3>1, SubSeqOfConcat1
    <3>. QED
      BY <3>2, SubSeqFull
  <2>. QED
    BY <2>1, <2>2
<1>. QED
  BY <1>1, <1>2, <1>3

LEMMA Regroup ==
  ASSUME NEW s \in Seq(RowEvent), NEW t \in Seq(RowEvent), NEW v \in Seq(RowEvent)
  PROVE  (s \o t) \o v = s \o (t \o v)
BY ConcatAssociative

LEMMA TailConcat ==
  ASSUME NEW s \in Seq(RowEvent), NEW t \in Seq(RowEvent), s # <<>>
  PROVE  s \o t # <<>> /\ Tail(s \o t) = Tail(s) \o t
<1>1. /\ Len(s) \in Nat /\ Len(s) # 0 /\ Len(t) \in Nat
      /\ s \o t \in Seq(RowEvent) /\ Len(s \o t) = Len(s) + Len(t)
      /\ Tail(s) \in Seq(RowEvent) /\ Len(Tail(s)) = Len(s) - 1
  OBVIOUS
<1>2. s \o t # <<>>
  BY <1>1
<1>3. Tail(s \o t) \in Seq(RowEvent) /\ Len(Tail(s \o t)) = Len(s) + Len(t) - 1
  BY <1>1, <1>2
<1>4. Tail(s) \o t \in Seq(RowEvent) /\ Len(Tail(s) \o t) = Len(s) + Len(t) - 1
  BY <1>1
<1>5. ASSUME NEW i \in 1 .. Len(s) + Len(t) - 1
      PROVE  Tail(s \o t)[i] = (Tail(s) \o t)[i]
  <2>1. Tail(s \o t)[i] = (s \o t)[i + 1]
    BY <1>1, <1>2, <1>3
  <2>2. CASE i <= Len(s) - 1
    BY <1>1, <1>4, <2>1, <2>2
  <2>3. CASE i > Len(s) - 1
    <3>1. (s \o t)[i + 1] = t[i + 1 - Len(s)]
      BY <1>1, <2>3, ConcatProperties
    <3>2. (Tail(s) \o t)[i] = t[i - (Len(s) - 1)]
      BY <1>1, <2>3, ConcatProperties
    <3>. QED
      BY <1>1, <2>1, <3>1, <3>2
  <2>. QED
    BY <1>1, <2>2, <2>3
<1>. QED
  BY <1>2, <1>3, <1>4, <1>5, SeqEqual

(* Where a sequence has one of some elements. *)
Hits(s, those) == {i \in DOMAIN s : s[i] \in those}

LEMMA HitsFinite ==
  ASSUME NEW S, NEW s \in Seq(S), NEW those
  PROVE  IsFiniteSet(Hits(s, those)) /\ Cardinality(Hits(s, those)) \in Nat
<1>1. Hits(s, those) \in SUBSET (1 .. Len(s)) /\ Len(s) \in Nat
  BY DEF Hits
<1>2. IsFiniteSet(1 .. Len(s))
  BY <1>1, FS_Interval
<1>. QED
  BY <1>1, <1>2, FS_Subset, FS_CardinalityType

LEMMA HitsConcat ==
  ASSUME NEW S, NEW s \in Seq(S), NEW t \in Seq(S), NEW those
  PROVE  Cardinality(Hits(s \o t, those))
           = Cardinality(Hits(s, those)) + Cardinality(Hits(t, those))
<1> DEFINE moved == {Len(s) + i : i \in Hits(t, those)}
           f == [i \in Hits(t, those) |-> Len(s) + i]
<1>1. /\ Len(s) \in Nat /\ Len(t) \in Nat /\ Len(s \o t) = Len(s) + Len(t)
      /\ DOMAIN s = 1 .. Len(s) /\ DOMAIN t = 1 .. Len(t)
      /\ DOMAIN (s \o t) = 1 .. Len(s) + Len(t)
      /\ \A i \in 1 .. Len(s) + Len(t) :
           (s \o t)[i] = IF i <= Len(s) THEN s[i] ELSE t[i - Len(s)]
  OBVIOUS
<1>2. Hits(t, those) \subseteq 1 .. Len(t) /\ Hits(s, those) \subseteq 1 .. Len(s)
  BY <1>1 DEF Hits
<1>3. Hits(s \o t, those) = Hits(s, those) \cup moved
  <2>1. ASSUME NEW i \in Hits(s \o t, those) PROVE i \in Hits(s, those) \cup moved
    <3>1. i \in 1 .. Len(s) + Len(t) /\ (s \o t)[i] \in those
      BY <1>1, <2>1 DEF Hits
    <3>2. CASE i <= Len(s)
      BY <1>1, <3>1, <3>2 DEF Hits
    <3>3. CASE ~ (i <= Len(s))
      <4>1. i - Len(s) \in Hits(t, those)
        BY <1>1, <3>1, <3>3 DEF Hits
      <4>. QED
        BY <1>1, <3>1, <4>1
    <3>. QED
      BY <3>2, <3>3
  <2>2. Hits(s, those) \subseteq Hits(s \o t, those)
    BY <1>1 DEF Hits
  <2>3. ASSUME NEW i \in Hits(t, those) PROVE Len(s) + i \in Hits(s \o t, those)
    <3>1. i \in 1 .. Len(t) /\ t[i] \in those
      BY <1>1 DEF Hits
    <3>2. Len(s) + i \in 1 .. Len(s) + Len(t) /\ (s \o t)[Len(s) + i] = t[i]
      BY <1>1, <3>1
    <3>. QED
      BY <1>1, <3>1, <3>2 DEF Hits
  <2>. QED
    BY <2>1, <2>2, <2>3
<1>4. f \in Bijection(Hits(t, those), moved)
  BY <1>1, <1>2, Fun_IsBij
<1>5. IsFiniteSet(moved) /\ Cardinality(moved) = Cardinality(Hits(t, those))
  BY <1>4, HitsFinite, FS_Bijection, Fun_ExistsBij
<1>6. Hits(s, those) \cap moved = {}
  BY <1>1, <1>2
<1>. QED
  <2>1. Cardinality(Hits(s, those) \cup moved)
          = Cardinality(Hits(s, those)) + Cardinality(moved) - Cardinality({})
    BY <1>5, <1>6, HitsFinite, FS_Union
  <2>2. Cardinality({}) = 0
    BY FS_EmptySet
  <2>. QED
    BY <1>3, <1>5, <2>1, <2>2, HitsFinite

-----------------------------------------------------------------------------
(* Places in order, and rows at them.                                      *)

UpTo(T, i) == {j \in T : j <= i}
Rank(T, i) == Cardinality(UpTo(T, i))

(* A member's rank among a bounded set's grows with it, from 1. *)
LEMMA Ranked ==
  ASSUME NEW T, NEW n \in Nat, T \subseteq 1 .. n
  PROVE  /\ IsFiniteSet(T) /\ Cardinality(T) \in 0 .. n
         /\ \A i \in T : Rank(T, i) \in 1 .. Cardinality(T)
         /\ \A i, j \in T : i < j => Rank(T, i) < Rank(T, j)
<1>1. IsFiniteSet(1 .. n) /\ Cardinality(1 .. n) = n
  BY FS_Interval
<1>2. IsFiniteSet(T) /\ Cardinality(T) <= n /\ Cardinality(T) \in Nat
  BY <1>1, FS_Subset, FS_CardinalityType
<1>3. ASSUME NEW i \in T
      PROVE  /\ IsFiniteSet(UpTo(T, i)) /\ Rank(T, i) \in Nat
             /\ Rank(T, i) <= Cardinality(T) /\ Rank(T, i) # 0
  <2>1. UpTo(T, i) \in SUBSET T /\ i \in UpTo(T, i)
    BY DEF UpTo
  <2>2. IsFiniteSet(UpTo(T, i)) /\ Cardinality(UpTo(T, i)) <= Cardinality(T)
    BY <1>2, <2>1, FS_Subset
  <2>3. Cardinality(UpTo(T, i)) \in Nat /\ Cardinality(UpTo(T, i)) # 0
    BY <2>1, <2>2, FS_CardinalityType, FS_EmptySet
  <2>. QED
    BY <2>2, <2>3 DEF Rank
<1>4. ASSUME NEW i \in T, NEW j \in T, i < j PROVE Rank(T, i) < Rank(T, j)
  <2>0. i \in Nat /\ j \in Nat /\ \A x \in T : x \in Nat
    OBVIOUS
  <2>1. \A x : x \in UpTo(T, i) => x \in UpTo(T, j)
    BY <1>4, <2>0 DEF UpTo
  <2>4. j \in UpTo(T, j) /\ j \notin UpTo(T, i)
    BY <1>4, <2>0 DEF UpTo
  <2>2. IsFiniteSet(UpTo(T, j)) /\ Rank(T, j) \in Nat /\ Rank(T, i) \in Nat
    BY <1>3
  <2>3. Cardinality(UpTo(T, i)) <= Cardinality(UpTo(T, j))
        /\ Cardinality(UpTo(T, i)) # Cardinality(UpTo(T, j))
    BY <2>1, <2>2, <2>4, FS_Subset
  <2>. QED
    BY <2>2, <2>3 DEF Rank
<1>. QED
  BY <1>2, <1>3, <1>4

(* Each number up to how many there are is the rank of one. *)
LEMMA RankFills ==
  ASSUME NEW T, NEW n \in Nat, T \subseteq 1 .. n
  PROVE  /\ IsFiniteSet(T) /\ Cardinality(T) \in Nat
         /\ \A i \in T : Rank(T, i) \in 1 .. Cardinality(T)
         /\ \A i, j \in T : Rank(T, i) = Rank(T, j) => i = j
         /\ \A m \in 1 .. Cardinality(T) : \E i \in T : Rank(T, i) = m
<1> DEFINE N == Cardinality(T)
           rank == [i \in T |-> Rank(T, i)]
<1>1. /\ IsFiniteSet(T) /\ N \in Nat
      /\ \A i \in T : Rank(T, i) \in 1 .. N
      /\ \A i, j \in T : i < j => Rank(T, i) < Rank(T, j)
  <2>1. N \in 0 .. n /\ IsFiniteSet(T)
    BY Ranked
  <2>2. \A i \in T : Rank(T, i) \in 1 .. N
    BY Ranked
  <2>3. \A i, j \in T : i < j => Rank(T, i) < Rank(T, j)
    BY Ranked
  <2>. QED
    BY <2>1, <2>2, <2>3
<1>2. \A i, j \in T : Rank(T, i) = Rank(T, j) => i = j
  <2>1. ASSUME NEW i \in T, NEW j \in T, Rank(T, i) = Rank(T, j) PROVE i = j
    <3>1. i \in Nat /\ j \in Nat /\ Rank(T, i) \in Nat /\ ~ (Rank(T, i) < Rank(T, j)) /\ ~ (Rank(T, j) < Rank(T, i))
      BY <1>1, <2>1
    <3>2. ~ (i < j) /\ ~ (j < i)
      BY <1>1, <3>1
    <3>. QED
      BY <3>1, <3>2
  <2>. QED
    BY <2>1
<1>3. IsFiniteSet(1 .. N) /\ Cardinality(1 .. N) = N
  BY <1>1, FS_Interval
<1>4. rank \in Injection(T, 1 .. N)
  BY <1>1, <1>2 DEF Injection, IsInjective
<1>5. rank \in Surjection(T, 1 .. N)
  <2>. HIDE DEF rank
  <2>. QED
    BY <1>3, <1>4, FS_Injection
<1>6. \A m \in 1 .. N : \E i \in T : Rank(T, i) = m
  BY <1>5 DEF Surjection
<1>. QED
  BY <1>1, <1>2, <1>6

(* InOrder(T) runs through T, each member once. *)
LEMMA Ordered ==
  ASSUME NEW T, NEW n \in Nat, T \subseteq 1 .. n
  PROVE  /\ Cardinality(T) \in Nat
         /\ InOrder(T) \in [1 .. Cardinality(T) -> T]
         /\ \A i, j \in 1 .. Cardinality(T) : InOrder(T)[i] = InOrder(T)[j] => i = j
         /\ \A x \in T : \E i \in 1 .. Cardinality(T) : InOrder(T)[i] = x
<1> DEFINE N == Cardinality(T)
<1>1. IsFiniteSet(T) /\ N \in Nat /\ \A i \in T : Rank(T, i) \in 1 .. N
  BY RankFills
<1>2. \A i, j \in T : Rank(T, i) = Rank(T, j) => i = j
  BY RankFills
<1>6. \A m \in 1 .. N : \E i \in T : Rank(T, i) = m
  BY RankFills
<1>7. \A i : Cardinality({j \in T : j <= i}) = Rank(T, i)
  BY DEF Rank, UpTo
<1>8. \A m \in 1 .. N : InOrder(T)[m] \in T /\ Rank(T, InOrder(T)[m]) = m
  <2>1. ASSUME NEW m \in 1 .. N
        PROVE  InOrder(T)[m] = CHOOSE i \in T : Rank(T, i) = m
    BY <1>7 DEF InOrder
  <2>. QED
    BY <2>1, <1>6
<1>9. InOrder(T) \in [1 .. N -> T]
  <2>1. InOrder(T) = [m \in 1 .. N |-> InOrder(T)[m]]
    BY DEF InOrder
  <2>. QED
    BY <2>1, <1>8
<1>10. \A x \in T : \E i \in 1 .. N : InOrder(T)[i] = x
  <2>1. ASSUME NEW x \in T PROVE InOrder(T)[Rank(T, x)] = x
    BY <1>1, <1>2, <1>8
  <2>. QED
    BY <1>1, <2>1
<1>. QED
  BY <1>1, <1>8, <1>9, <1>10


-----------------------------------------------------------------------------
(* How many rows of a sequence are among some.                             *)

Num(s, those) == Cardinality(Hits(s, those))
Among(T, s, those) == {i \in T : s[i] \in those}
In(T, s, those) == Cardinality(Among(T, s, those))

LEMMA NumType ==
  ASSUME NEW S, NEW s \in Seq(S), NEW those PROVE Num(s, those) \in Nat
BY HitsFinite DEF Num

LEMMA CountIsNum ==
  ASSUME NEW s, NEW row PROVE Count(s, row) = Num(s, {row})
<1>1. {i \in DOMAIN s : s[i] = row} = Hits(s, {row})
  BY DEF Hits
<1>. QED
  BY <1>1 DEF Count, Num

LEMMA NumConcat ==
  ASSUME NEW S, NEW s \in Seq(S), NEW t \in Seq(S), NEW those
  PROVE  Num(s \o t, those) = Num(s, those) + Num(t, those)
BY HitsConcat DEF Num

LEMMA NumEmpty == ASSUME NEW those PROVE Num(<<>>, those) = 0
<1>1. Hits(<<>>, those) = {}
  BY DEF Hits
<1>. QED
  BY <1>1, FS_EmptySet DEF Num

LEMMA NumAll == ASSUME NEW S, NEW s \in Seq(S) PROVE Num(s, S) = Len(s)
<1>1. Hits(s, S) = 1 .. Len(s) /\ Len(s) \in Nat
  BY DEF Hits
<1>2. Cardinality(1 .. Len(s)) = Len(s)
  BY <1>1, FS_Interval
<1>. QED
  BY <1>1, <1>2 DEF Num

(* Two sequences of one length that agree on what is among some. *)
LEMMA NumAlike ==
  ASSUME NEW s, NEW t, NEW these, NEW those, DOMAIN s = DOMAIN t,
         \A i \in DOMAIN s : s[i] \in these <=> t[i] \in those
  PROVE  Num(s, these) = Num(t, those)
<1>1. Hits(s, these) = Hits(t, those)
  BY DEF Hits
<1>. QED
  BY <1>1 DEF Num

LEMMA InType ==
  ASSUME NEW T, IsFiniteSet(T), NEW s, NEW those
  PROVE  IsFiniteSet(Among(T, s, those)) /\ In(T, s, those) \in Nat
<1>1. Among(T, s, those) \in SUBSET T
  BY DEF Among
<1>. QED
  BY <1>1, FS_Subset, FS_CardinalityType DEF In

LEMMA InSplit ==
  ASSUME NEW T, IsFiniteSet(T), NEW U \in SUBSET T, NEW s, NEW those
  PROVE  In(T, s, those) = In(U, s, those) + In(T \ U, s, those)
<1> DEFINE A == Among(U, s, those)
           B == Among(T \ U, s, those)
<1>1. Among(T, s, those) = A \cup B /\ A \cap B = {}
  BY DEF Among
<1>2. /\ IsFiniteSet(A) /\ IsFiniteSet(B)
      /\ Cardinality(A) = In(U, s, those) /\ In(U, s, those) \in Nat
      /\ Cardinality(B) = In(T \ U, s, those) /\ In(T \ U, s, those) \in Nat
  <2>1. IsFiniteSet(U) /\ IsFiniteSet(T \ U)
    BY FS_Subset
  <2>2. IsFiniteSet(A) /\ In(U, s, those) \in Nat
    BY <2>1, InType
  <2>3. IsFiniteSet(B) /\ In(T \ U, s, those) \in Nat
    BY <2>1, InType
  <2>. QED
    BY <2>2, <2>3 DEF In
<1>3. Cardinality(A \cup B) = Cardinality(A) + Cardinality(B) - Cardinality(A \cap B)
  <2>. HIDE DEF A, B
  <2>. QED
    BY <1>2, FS_Union
<1>4. Cardinality({}) = 0
  BY FS_EmptySet
<1>5. In(T, s, those) = Cardinality(A \cup B)
  BY <1>1 DEF In
<1>6. Cardinality(A \cap B) = 0
  BY <1>1, <1>4
<1>. HIDE DEF A, B
<1>. QED
  BY <1>2, <1>3, <1>5, <1>6

LEMMA NumSplit ==
  ASSUME NEW S, NEW s \in Seq(S), NEW T \in SUBSET DOMAIN s, NEW those
  PROVE  Num(s, those) = In(T, s, those) + In(DOMAIN s \ T, s, those)
<1>1. DOMAIN s = 1 .. Len(s) /\ Len(s) \in Nat
  OBVIOUS
<1>2. Num(s, those) = In(DOMAIN s, s, those)
  BY DEF Num, In, Hits, Among
<1>3. IsFiniteSet(DOMAIN s)
  BY <1>1, FS_Interval
<1>. QED
  BY <1>2, <1>3, InSplit

LEMMA InAlike ==
  ASSUME NEW T, NEW s, NEW t, NEW those, \A i \in T : s[i] = t[i]
  PROVE  In(T, s, those) = In(T, t, those)
<1>1. Among(T, s, those) = Among(T, t, those)
  BY DEF Among
<1>. QED
  BY <1>1 DEF In

(* A one-to-one map carries the count along. *)
LEMMA InMapped ==
  ASSUME NEW T, NEW U, IsFiniteSet(T), NEW p \in [T -> U],
         \A i, j \in T : p[i] = p[j] => i = j, \A u \in U : \E i \in T : p[i] = u,
         NEW s, NEW t, \A i \in T : t[i] = s[p[i]], NEW those
  PROVE  In(T, t, those) = In(U, s, those)
<1> DEFINE A == Among(T, t, those)
           B == Among(U, s, those)
           f == [i \in A |-> p[i]]
<1>1. f \in [A -> B]
  BY DEF Among
<1>2. \A i, j \in A : f[i] = f[j] => i = j
  BY DEF Among
<1>3. \A u \in B : \E i \in A : f[i] = u
  BY DEF Among
<1>4. IsFiniteSet(A)
  BY InType
<1>. HIDE DEF A, B, f
<1>5. f \in Bijection(A, B)
  BY <1>1, <1>2, <1>3, Fun_IsBij
<1>6. Cardinality(B) = Cardinality(A)
  BY <1>4, <1>5, FS_Bijection, Fun_ExistsBij
<1>. QED
  BY <1>6 DEF In, A, B

LEMMA RowsAtIs ==
  ASSUME NEW S, NEW s \in Seq(S), NEW T \in SUBSET DOMAIN s
  PROVE  /\ Cardinality(T) \in Nat
         /\ DOMAIN InOrder(T) = 1 .. Cardinality(T)
         /\ \A n \in 1 .. Cardinality(T) : InOrder(T)[n] \in T
         /\ RowsAt(T, s) \in Seq(S)
         /\ Len(RowsAt(T, s)) = Cardinality(T)
         /\ \A n \in 1 .. Cardinality(T) : RowsAt(T, s)[n] = s[InOrder(T)[n]]
         /\ \A those : Num(RowsAt(T, s), those) = In(T, s, those)
<1>1. Len(s) \in Nat /\ T \subseteq 1 .. Len(s) /\ \A i \in T : s[i] \in S
  OBVIOUS
<1>2. /\ Cardinality(T) \in Nat
      /\ InOrder(T) \in [1 .. Cardinality(T) -> T]
      /\ \A i, j \in 1 .. Cardinality(T) : InOrder(T)[i] = InOrder(T)[j] => i = j
      /\ \A x \in T : \E i \in 1 .. Cardinality(T) : InOrder(T)[i] = x
  BY <1>1, Ordered
<1>3. PICK g : g = InOrder(T)
  OBVIOUS
<1>4. PICK N \in Nat : N = Cardinality(T)
  BY <1>2
<1>5. RowsAt(T, s) = [n \in 1 .. N |-> s[g[n]]]
  BY <1>2, <1>3, <1>4 DEF RowsAt
<1>6. \A n \in 1 .. N : g[n] \in T /\ s[g[n]] \in S
  BY <1>1, <1>2, <1>3, <1>4
<1>7. RowsAt(T, s) \in Seq(S) /\ Len(RowsAt(T, s)) = N
  BY <1>5, <1>6
<1>8. ASSUME NEW those PROVE Num(RowsAt(T, s), those) = In(T, s, those)
  <2>1. Num(RowsAt(T, s), those) = In(1 .. N, RowsAt(T, s), those)
    BY <1>5 DEF Num, In, Hits, Among
  <2>2. In(1 .. N, RowsAt(T, s), those) = In(T, s, those)
    <3>0. PICK r, D : r = RowsAt(T, s) /\ D = 1 .. N
      OBVIOUS
    <3>1. IsFiniteSet(D) /\ g \in [D -> T]
      BY <1>2, <1>3, <1>4, <3>0, FS_Interval
    <3>2. \A i, j \in D : g[i] = g[j] => i = j
      BY <1>2, <1>3, <1>4, <3>0
    <3>3. \A x \in T : \E i \in D : g[i] = x
      BY <1>2, <1>3, <1>4, <3>0
    <3>4. \A i \in D : r[i] = s[g[i]]
      BY <1>5, <3>0
    <3>5. In(D, r, those) = In(T, s, those)
      BY <3>1, <3>2, <3>3, <3>4, InMapped, SMTT(30)
    <3>. QED
      BY <3>0, <3>5
  <2>. QED
    BY <2>1, <2>2
<1>. QED
  BY <1>2, <1>3, <1>4, <1>5, <1>6, <1>7, <1>8

LEMMA Parts ==
  ASSUME NEW S, NEW s \in Seq(S), NEW n \in 0 .. Len(s)
  PROVE  /\ First(n, s) \in Seq(S) /\ Len(First(n, s)) = n
         /\ After(n, s) \in Seq(S) /\ Len(After(n, s)) = Len(s) - n
         /\ \A i \in 1 .. n : First(n, s)[i] = s[i]
         /\ \A i \in 1 .. Len(s) - n : After(n, s)[i] = s[n + i]
         /\ \A those : Num(s, those) = Num(First(n, s), those) + Num(After(n, s), those)
<1>1. /\ First(n, s) \in Seq(S) /\ Len(First(n, s)) = n
      /\ After(n, s) \in Seq(S) /\ Len(After(n, s)) = Len(s) - n
      /\ \A i \in 1 .. n : First(n, s)[i] = s[i]
      /\ \A i \in 1 .. Len(s) - n : After(n, s)[i] = s[n + i]
  BY DEF First, After
<1>2. First(n, s) \o After(n, s) = s
  <2>1. SubSeq(s, 1, n) \o SubSeq(s, n + 1, Len(s)) = SubSeq(s, 1, Len(s))
    <3>1. 1 \in 1 .. Len(s) + 1 /\ n \in 1 - 1 .. Len(s) /\ Len(s) \in n .. Len(s)
      OBVIOUS
    <3>. QED
      BY <3>1, ConcatAdjacentSubSeq
  <2>. QED
    BY <2>1, SubSeqFull DEF First, After
<1>3. ASSUME NEW those PROVE Num(s, those) = Num(First(n, s), those) + Num(After(n, s), those)
  <2>1. First(n, s) \in Seq(S) /\ After(n, s) \in Seq(S)
    BY <1>1
  <2>2. Num(First(n, s) \o After(n, s), those) = Num(First(n, s), those) + Num(After(n, s), those)
    BY <2>1, NumConcat
  <2>. QED
    BY <1>2, <2>2
<1>. QED
  BY <1>1, <1>3

-----------------------------------------------------------------------------
(* Events that delete, then update, then insert.                           *)

Story(g, os, ns, c) == Deletes(g) \o Pairs(os, ns) \o Inserts(c)

NewIs(row) == {e \in RowChange : e.new = row}
OldIs(row) == {e \in RowChange : e.old = row}

LEMMA NumNone ==
  ASSUME NEW s, NEW those, \A i \in DOMAIN s : s[i] \notin those PROVE Num(s, those) = 0
<1>1. Hits(s, those) = {}
  BY DEF Hits
<1>. QED
  BY <1>1, FS_EmptySet DEF Num

LEMMA ChangeType ==
  ASSUME NEW row \in Rows, NEW other \in Rows
  PROVE  /\ Insert(row) \in RowChange /\ Delete(row) \in RowChange /\ Update(row, other) \in RowChange
         /\ Insert(row).old = NoRow /\ Insert(row).new = row
         /\ Delete(row).old = row /\ Delete(row).new = NoRow
         /\ Update(row, other).old = row /\ Update(row, other).new = other
         /\ row # NoRow
BY ContentsAssumption DEF Insert, Delete, Update, RowChange

LEMMA DeletesIs ==
  ASSUME NEW g \in Seq(Rows)
  PROVE  /\ Deletes(g) \in Seq(RowChange) /\ Len(Deletes(g)) = Len(g)
         /\ \A i \in 1 .. Len(g) : g[i] \in Rows /\ Deletes(g)[i] = Delete(g[i])
<1>1. \A i \in 1 .. Len(g) : Delete(g[i]) \in RowChange /\ g[i] \in Rows
  BY ChangeType
<1>. QED
  BY <1>1 DEF Deletes

LEMMA InsertsIs ==
  ASSUME NEW c \in Seq(Rows)
  PROVE  /\ Inserts(c) \in Seq(RowChange) /\ Len(Inserts(c)) = Len(c)
         /\ \A i \in 1 .. Len(c) : c[i] \in Rows /\ Inserts(c)[i] = Insert(c[i])
<1>1. \A i \in 1 .. Len(c) : Insert(c[i]) \in RowChange /\ c[i] \in Rows
  BY ChangeType
<1>. QED
  BY <1>1 DEF Inserts

LEMMA PairsIs ==
  ASSUME NEW os \in Seq(Rows), NEW ns \in Seq(Rows), Len(os) = Len(ns)
  PROVE  /\ Pairs(os, ns) \in Seq(RowChange) /\ Len(Pairs(os, ns)) = Len(os)
         /\ \A i \in 1 .. Len(os) :
              os[i] \in Rows /\ ns[i] \in Rows /\ Pairs(os, ns)[i] = Update(os[i], ns[i])
<1>1. \A i \in 1 .. Len(os) :
        os[i] \in Rows /\ ns[i] \in Rows /\ Update(os[i], ns[i]) \in RowChange
  BY ChangeType
<1>. QED
  BY <1>1 DEF Pairs

(* The three parts, one after the other: which are inserts, which deletes. *)
Shaped(e, gone, kept, come) ==
  /\ gone \in Nat /\ kept \in Nat /\ come \in Nat
  /\ e \in Seq(RowChange) /\ Len(e) = gone + kept + come
  /\ \A j \in 1 .. gone + kept + come :
       /\ e[j].old # e[j].new
       /\ e[j].old = NoRow <=> gone + kept < j
       /\ e[j].new = NoRow <=> j <= gone

LEMMA StoryShape ==
  ASSUME NEW g \in Seq(Rows), NEW os \in Seq(Rows), NEW ns \in Seq(Rows), NEW c \in Seq(Rows),
         Len(os) = Len(ns), \A m \in DOMAIN os : os[m] # ns[m]
  PROVE  Shaped(Story(g, os, ns, c), Len(g), Len(os), Len(c))
<1>1. PICK d \in Seq(RowChange), u \in Seq(RowChange), i \in Seq(RowChange) :
        d = Deletes(g) /\ u = Pairs(os, ns) /\ i = Inserts(c)
  BY DeletesIs, PairsIs, InsertsIs
<1>2. PICK G \in Nat, K \in Nat, C \in Nat : G = Len(g) /\ K = Len(os) /\ C = Len(c)
  OBVIOUS
<1>3. /\ Len(d) = G /\ Len(u) = K /\ Len(i) = C
      /\ d \in Seq(RowChange) /\ u \in Seq(RowChange) /\ i \in Seq(RowChange)
  BY <1>1, <1>2, DeletesIs, PairsIs, InsertsIs
<1>4. PICK e : e = (d \o u) \o i
  OBVIOUS
<1>5. /\ d \o u \in Seq(RowChange) /\ Len(d \o u) = G + K
      /\ \A j \in 1 .. G + K : (d \o u)[j] = IF j <= G THEN d[j] ELSE u[j - G]
  BY <1>3, ConcatProperties
<1>6. /\ e \in Seq(RowChange) /\ Len(e) = G + K + C
      /\ \A j \in 1 .. G + K + C : e[j] = IF j <= G + K THEN (d \o u)[j] ELSE i[j - (G + K)]
  <2>1. PICK s \in Seq(RowChange) : s = d \o u
    BY <1>5
  <2>2. Len(s) = G + K /\ Len(i) = C /\ e = s \o i
    BY <1>3, <1>4, <1>5, <2>1
  <2>4. /\ s \o i \in Seq(RowChange) /\ Len(s \o i) = Len(s) + Len(i)
        /\ \A j \in 1 .. Len(s) + Len(i) : (s \o i)[j] = IF j <= Len(s) THEN s[j] ELSE i[j - Len(s)]
    BY ConcatProperties
  <2>3. /\ e \in Seq(RowChange) /\ Len(e) = G + K + C
        /\ \A j \in 1 .. G + K + C : e[j] = IF j <= G + K THEN s[j] ELSE i[j - (G + K)]
    BY <2>2, <2>4
  <2>. QED
    BY <2>1, <2>3
<1>7. ASSUME NEW m \in 1 .. G PROVE d[m].old # NoRow /\ d[m].new = NoRow
  <2>1. PICK row \in Rows : d[m] = Delete(row)
    BY <1>1, <1>2, DeletesIs
  <2>. QED
    BY <2>1, ChangeType
<1>8. ASSUME NEW m \in 1 .. K
      PROVE  u[m].old # NoRow /\ u[m].new # NoRow /\ u[m].old # u[m].new
  <2>1. os[m] \in Rows /\ ns[m] \in Rows /\ u[m] = Update(os[m], ns[m])
    BY <1>1, <1>2, PairsIs
  <2>0. m \in DOMAIN os
    BY <1>2
  <2>2. os[m] # ns[m]
    BY <2>0, Zenon
  <2>3. PICK row \in Rows, other \in Rows : u[m] = Update(row, other) /\ row # other
    BY <2>1, <2>2
  <2>. QED
    BY <2>3, ChangeType
<1>9. ASSUME NEW m \in 1 .. C PROVE i[m].old = NoRow /\ i[m].new # NoRow
  <2>1. PICK row \in Rows : i[m] = Insert(row)
    BY <1>1, <1>2, InsertsIs
  <2>. QED
    BY <2>1, ChangeType
<1>10. ASSUME NEW j \in 1 .. G + K + C
       PROVE  /\ e[j].old # e[j].new
              /\ e[j].old = NoRow <=> G + K < j
              /\ e[j].new = NoRow <=> j <= G
  <2>1. CASE j <= G
    <3>1. j \in 1 .. G /\ j \in 1 .. G + K /\ ~ (G + K < j)
      BY <1>2, <2>1
    <3>2. e[j] = (d \o u)[j] /\ (d \o u)[j] = d[j]
      BY <1>5, <1>6, <2>1, <3>1
    <3>. QED
      BY <1>7, <2>1, <3>1, <3>2
  <2>2. CASE G < j /\ j <= G + K
    <3>1. j \in 1 .. G + K /\ ~ (G + K < j) /\ ~ (j <= G)
      BY <1>2, <2>2
    <3>0. j - G \in 1 .. K
      BY <2>2
    <3>2. PICK m \in 1 .. K : m = j - G
      BY <3>0
    <3>3. e[j] = u[m]
      BY <1>5, <1>6, <2>2, <3>1, <3>2
    <3>. QED
      BY <1>8, <3>1, <3>2, <3>3
  <2>3. CASE G + K < j
    <3>1. ~ (j <= G + K) /\ ~ (j <= G)
      BY <1>2, <2>3
    <3>0. j - (G + K) \in 1 .. C
      BY <2>3
    <3>2. PICK m \in 1 .. C : m = j - (G + K)
      BY <3>0
    <3>3. e[j] = i[m]
      BY <1>6, <3>1, <3>2
    <3>. QED
      BY <1>9, <2>3, <3>1, <3>2, <3>3
  <2>. QED
    BY <1>2, <2>1, <2>2, <2>3
<1>11. Shaped(e, G, K, C)
  BY <1>2, <1>6, <1>10 DEF Shaped
<1>. QED
  BY <1>1, <1>2, <1>4, <1>11 DEF Story

(* What they gain of a row. *)
LEMMA StoryGains ==
  ASSUME NEW g \in Seq(Rows), NEW os \in Seq(Rows), NEW ns \in Seq(Rows), NEW c \in Seq(Rows),
         Len(os) = Len(ns), NEW row \in Rows
  PROVE  Gain(Story(g, os, ns, c), row)
           = Num(ns, {row}) + Num(c, {row}) - Num(g, {row}) - Num(os, {row})
<1> DEFINE d == Deletes(g)
           u == Pairs(os, ns)
           i == Inserts(c)
           e == Story(g, os, ns, c)
<1>1. d \in Seq(RowChange) /\ u \in Seq(RowChange) /\ i \in Seq(RowChange) /\ e \in Seq(RowChange)
  <2>1. d \in Seq(RowChange) /\ u \in Seq(RowChange) /\ i \in Seq(RowChange)
    BY DeletesIs, PairsIs, InsertsIs
  <2>. QED
    BY <2>1, ConcatProperties DEF Story
<1>a. DOMAIN d = DOMAIN g /\ \A n \in DOMAIN g : d[n] = Delete(g[n]) /\ g[n] \in Rows
  BY DEF Deletes
<1>b. /\ DOMAIN u = DOMAIN os /\ DOMAIN u = DOMAIN ns
      /\ \A n \in DOMAIN os : u[n] = Update(os[n], ns[n]) /\ os[n] \in Rows /\ ns[n] \in Rows
  BY DEF Pairs
<1>c. DOMAIN i = DOMAIN c /\ \A n \in DOMAIN c : i[n] = Insert(c[n]) /\ c[n] \in Rows
  BY DEF Inserts
<1>2. e = (d \o u) \o i
  BY DEF Story
<1>. HIDE DEF d, u, i, e
<1>3. Num(d, NewIs(row)) = 0
  <2>1. \A n \in DOMAIN d : d[n] \notin NewIs(row)
    BY <1>a, ChangeType DEF NewIs
  <2>. QED
    BY <2>1, NumNone
<1>4. Num(d, OldIs(row)) = Num(g, {row})
  <2>1. \A n \in DOMAIN d : d[n] \in OldIs(row) <=> g[n] \in {row}
    BY <1>a, ChangeType DEF OldIs
  <2>. QED
    BY <1>a, <2>1, NumAlike
<1>5. Num(u, NewIs(row)) = Num(ns, {row})
  <2>1. ASSUME NEW n \in DOMAIN u PROVE u[n] \in NewIs(row) <=> ns[n] \in {row}
    <3>1. PICK o \in Rows, m \in Rows : u[n] = Update(o, m) /\ m = ns[n]
      BY <1>b
    <3>2. Update(o, m) \in RowChange /\ Update(o, m).new = m
      BY ChangeType
    <3>. QED
      BY <3>1, <3>2 DEF NewIs
  <2>. QED
    BY <1>b, <2>1, NumAlike
<1>6. Num(u, OldIs(row)) = Num(os, {row})
  <2>1. \A n \in DOMAIN u : u[n] \in OldIs(row) <=> os[n] \in {row}
    BY <1>b, ChangeType DEF OldIs
  <2>. QED
    BY <1>b, <2>1, NumAlike
<1>7. Num(i, NewIs(row)) = Num(c, {row})
  <2>1. \A n \in DOMAIN i : i[n] \in NewIs(row) <=> c[n] \in {row}
    BY <1>c, ChangeType DEF NewIs
  <2>. QED
    BY <1>c, <2>1, NumAlike
<1>8. Num(i, OldIs(row)) = 0
  <2>1. \A n \in DOMAIN i : i[n] \notin OldIs(row)
    BY <1>c, ChangeType DEF OldIs
  <2>. QED
    BY <2>1, NumNone
<1>9. \A those : Num(e, those) = Num(d, those) + Num(u, those) + Num(i, those)
  <2>1. ASSUME NEW those PROVE Num(e, those) = Num(d, those) + Num(u, those) + Num(i, those)
    <3>1. d \o u \in Seq(RowChange)
      BY <1>1
    <3>2. Num(e, those) = Num(d \o u, those) + Num(i, those)
      BY <1>1, <1>2, <3>1, NumConcat
    <3>3. Num(d \o u, those) = Num(d, those) + Num(u, those)
      BY <1>1, NumConcat
    <3>. QED
      BY <3>2, <3>3
  <2>. QED
    BY <2>1
<1>10. Gain(e, row) = Num(e, NewIs(row)) - Num(e, OldIs(row))
  <2>1. \A n \in DOMAIN e : e[n] \in RowChange
    BY <1>1
  <2>2. {n \in DOMAIN e : e[n].new = row} = Hits(e, NewIs(row))
    BY <2>1 DEF Hits, NewIs
  <2>3. {n \in DOMAIN e : e[n].old = row} = Hits(e, OldIs(row))
    BY <2>1 DEF Hits, OldIs
  <2>. QED
    BY <2>2, <2>3 DEF Gain, Num
<1>11. /\ Num(g, {row}) \in Nat /\ Num(os, {row}) \in Nat
       /\ Num(ns, {row}) \in Nat /\ Num(c, {row}) \in Nat
  BY NumType
<1>12. Gain(e, row) = Num(ns, {row}) + Num(c, {row}) - Num(g, {row}) - Num(os, {row})
  BY <1>3, <1>4, <1>5, <1>6, <1>7, <1>8, <1>9, <1>10, <1>11
<1>. QED
  BY <1>12 DEF e

LEMMA IntervalSize ==
  ASSUME NEW l \in Nat, NEW n \in Nat
  PROVE  Cardinality(l .. n) = IF l > n THEN 0 ELSE n - l + 1
BY FS_Interval

(* Deletes come first and inserts last: on the way there are never more      *)
(* rows than before, or than after.                                          *)
LEMMA ShapePeak ==
  ASSUME NEW e, NEW gone, NEW kept, NEW come, Shaped(e, gone, kept, come), NEW n \in DOMAIN e
  PROVE  /\ Growth(First(n, e)) \in Int
         /\ Growth(First(n, e)) <= 0 \/ Growth(First(n, e)) <= come - gone
<1>1. /\ gone \in Nat /\ kept \in Nat /\ come \in Nat
      /\ e \in Seq(RowChange) /\ Len(e) = gone + kept + come
      /\ \A j \in 1 .. gone + kept + come :
           /\ e[j].old = NoRow <=> gone + kept < j
           /\ e[j].new = NoRow <=> j <= gone
  BY DEF Shaped
<1>2. n \in 0 .. Len(e) /\ n \in 1 .. gone + kept + come
  BY <1>1
<1>b. n \in Nat
  BY <1>1, <1>2
<1>3. PICK f : f = First(n, e)
  OBVIOUS
<1>4. DOMAIN f = 1 .. n /\ \A j \in 1 .. n : f[j] = e[j]
  <2>1. /\ First(n, e) \in Seq(RowChange) /\ Len(First(n, e)) = n
        /\ \A j \in 1 .. n : First(n, e)[j] = e[j]
    BY <1>1, <1>2, Parts
  <2>. QED
    BY <1>3, <2>1
<1>5. PICK k \in Nat : k = IF n <= gone THEN n ELSE gone
  BY <1>1, <1>2
<1>6. PICK l \in Nat : l = gone + kept + 1
  BY <1>1
<1>7. {j \in DOMAIN f : f[j].old = NoRow} = l .. n
  <2>1. \A j \in 1 .. n : f[j].old = NoRow <=> l <= j
    BY <1>1, <1>2, <1>4, <1>6
  <2>2. l >= 1
    BY <1>1, <1>6
  <2>. QED
    BY <1>2, <1>4, <1>6, <2>1, <2>2
<1>8. {j \in DOMAIN f : f[j].new = NoRow} = 1 .. k
  <2>1. \A j \in 1 .. n : f[j].new = NoRow <=> j <= k
    BY <1>1, <1>2, <1>4, <1>5
  <2>2. k <= n
    BY <1>1, <1>2, <1>5
  <2>. QED
    BY <1>2, <1>4, <1>5, <2>1, <2>2
<1>9. Growth(f) = Cardinality(l .. n) - Cardinality(1 .. k)
  BY <1>7, <1>8 DEF Growth
<1>10. Cardinality(l .. n) = (IF l > n THEN 0 ELSE n - l + 1) /\ Cardinality(1 .. k) = k
  <2>1. Cardinality(l .. n) = IF l > n THEN 0 ELSE n - l + 1
    BY <1>b, IntervalSize
  <2>2. Cardinality(1 .. k) = IF 1 > k THEN 0 ELSE k - 1 + 1
    BY IntervalSize
  <2>. QED
    BY <1>5, <2>1, <2>2
<1>11. Growth(f) = (IF l > n THEN 0 ELSE n - l + 1) - k
  BY <1>9, <1>10
<1>. QED
  BY <1>1, <1>2, <1>3, <1>5, <1>6, <1>11

(* Events that tell of a change from one sequence of rows to another. *)
Tells(events, old, new) ==
  \E g, os, ns, c \in Seq(Rows) :
    /\ events = Story(g, os, ns, c)
    /\ Len(os) = Len(ns) /\ \A n \in DOMAIN os : os[n] # ns[n]
    /\ \A those : Num(old, those) + Num(ns, those) + Num(c, those)
                    = Num(new, those) + Num(g, those) + Num(os, those)

LEMMA TellsAll ==
  ASSUME NEW old \in Seq(Rows), NEW new \in Seq(Rows), NEW events, Tells(events, old, new)
  PROVE  /\ events \in Seq(RowChange)
         /\ \A row \in Rows : Count(old, row) + Gain(events, row) = Count(new, row)
         /\ \A n \in DOMAIN events :
              /\ events[n].old # events[n].new
              /\ Growth(First(n, events)) \in Int
              /\ \/ Len(old) + Growth(First(n, events)) <= Len(old)
                 \/ Len(old) + Growth(First(n, events)) <= Len(new)
<1>1. PICK g \in Seq(Rows), os \in Seq(Rows), ns \in Seq(Rows), c \in Seq(Rows) :
        /\ events = Story(g, os, ns, c)
        /\ Len(os) = Len(ns) /\ \A n \in DOMAIN os : os[n] # ns[n]
        /\ \A those : Num(old, those) + Num(ns, those) + Num(c, those)
                        = Num(new, those) + Num(g, those) + Num(os, those)
  BY DEF Tells
<1>2. Shaped(events, Len(g), Len(os), Len(c))
  BY <1>1, StoryShape
<1>3. ASSUME NEW row \in Rows PROVE Count(old, row) + Gain(events, row) = Count(new, row)
  <2>1. Gain(events, row) = Num(ns, {row}) + Num(c, {row}) - Num(g, {row}) - Num(os, {row})
    BY <1>1, StoryGains
  <2>2. PICK a \in Nat, b \in Nat, x \in Nat, y \in Nat, z \in Nat, w \in Nat :
          /\ a = Num(g, {row}) /\ b = Num(os, {row}) /\ x = Num(ns, {row})
          /\ y = Num(c, {row}) /\ z = Num(old, {row}) /\ w = Num(new, {row})
    BY <1>1, NumType
  <2>3. Count(old, row) = z /\ Count(new, row) = w
    BY <2>2, CountIsNum
  <2>4. z + x + y = w + a + b
    BY <1>1, <2>2
  <2>5. Gain(events, row) = x + y - a - b
    BY <2>1, <2>2
  <2>. QED
    BY <2>3, <2>4, <2>5
<1>4. PICK a \in Nat, b \in Nat, x \in Nat, y \in Nat, z \in Nat, w \in Nat :
          /\ a = Len(g) /\ b = Len(os) /\ x = Len(ns)
          /\ y = Len(c) /\ z = Len(old) /\ w = Len(new)
  BY <1>1
<1>5. z + y = w + a
  <2>1. /\ Num(old, Rows) = z /\ Num(new, Rows) = w /\ Num(g, Rows) = a
        /\ Num(os, Rows) = b /\ Num(ns, Rows) = x /\ Num(c, Rows) = y
    BY <1>1, <1>4, NumAll
  <2>2. z + x + y = w + a + b /\ b = x
    BY <1>1, <1>4, <2>1
  <2>. QED
    BY <2>2
<1>6. events \in Seq(RowChange) /\ \A n \in DOMAIN events : events[n].old # events[n].new
  BY <1>2 DEF Shaped
<1>7. ASSUME NEW n \in DOMAIN events
      PROVE  /\ Growth(First(n, events)) \in Int
             /\ \/ Len(old) + Growth(First(n, events)) <= Len(old)
                \/ Len(old) + Growth(First(n, events)) <= Len(new)
  <2>1. /\ Growth(First(n, events)) \in Int
        /\ Growth(First(n, events)) <= 0 \/ Growth(First(n, events)) <= y - a
    BY <1>2, <1>4, ShapePeak
  <2>. QED
    BY <1>4, <1>5, <2>1
<1>. QED
  BY <1>3, <1>6, <1>7

-----------------------------------------------------------------------------
(* Rows that match.                                                        *)

(* The places up to i of i's identity. *)
Alike(ids, i) == {j \in 1 .. i : ids[j] = ids[i]}

LEMMA NthGrows ==
  ASSUME NEW ids, NEW j \in Nat \ {0}
  PROVE  /\ Nth(ids, j) \in Nat \ {0}
         /\ \A i \in 1 .. (j - 1) : ids[i] = ids[j] => Nth(ids, i) < Nth(ids, j)
<1>1. ASSUME NEW i \in Nat \ {0}
      PROVE  IsFiniteSet(Alike(ids, i)) /\ Nth(ids, i) = Cardinality(Alike(ids, i)) /\ Nth(ids, i) \in Nat \ {0}
  <2>1. Alike(ids, i) \in SUBSET (1 .. i) /\ i \in Alike(ids, i)
    BY DEF Alike
  <2>0. IsFiniteSet(1 .. i)
    BY FS_Interval
  <2>2. IsFiniteSet(Alike(ids, i))
    BY <2>0, <2>1, FS_Subset
  <2>3. Cardinality(Alike(ids, i)) \in Nat \ {0}
    BY <2>1, <2>2, FS_CardinalityType, FS_EmptySet
  <2>4. Nth(ids, i) = Cardinality(Alike(ids, i))
    BY DEF Nth, Alike
  <2>. QED
    BY <2>2, <2>3, <2>4
<1>2. ASSUME NEW i \in 1 .. (j - 1), ids[i] = ids[j] PROVE Nth(ids, i) < Nth(ids, j)
  <2>1. \A x : x \in Alike(ids, i) => x \in Alike(ids, j)
    BY <1>2 DEF Alike
  <2>2. j \in Alike(ids, j) /\ j \notin Alike(ids, i)
    BY DEF Alike
  <2>3. i \in Nat \ {0}
    OBVIOUS
  <2>4. Cardinality(Alike(ids, i)) <= Cardinality(Alike(ids, j))
        /\ Cardinality(Alike(ids, i)) # Cardinality(Alike(ids, j))
    BY <1>1, <2>1, <2>2, FS_Subset
  <2>5. /\ Nth(ids, i) = Cardinality(Alike(ids, i)) /\ Nth(ids, i) \in Nat
        /\ Nth(ids, j) = Cardinality(Alike(ids, j)) /\ Nth(ids, j) \in Nat
    BY <1>1, <2>3
  <2>. QED
    BY <2>4, <2>5
<1>. QED
  BY <1>1, <1>2

(* No two places of one identity have the same number. *)
LEMMA NthTells ==
  ASSUME NEW ids, NEW i \in Nat \ {0}, NEW j \in Nat \ {0},
         ids[i] = ids[j], Nth(ids, i) = Nth(ids, j)
  PROVE  i = j
<1>1. Nth(ids, i) \in Nat /\ Nth(ids, j) \in Nat
  BY NthGrows
<1>2. ~ (i < j)
  <2>1. SUFFICES ASSUME i < j PROVE FALSE
    OBVIOUS
  <2>2. i \in 1 .. (j - 1)
    BY <2>1
  <2>. QED
    BY <1>1, <2>2, NthGrows
<1>3. ~ (j < i)
  <2>1. SUFFICES ASSUME j < i PROVE FALSE
    OBVIOUS
  <2>2. j \in 1 .. (i - 1)
    BY <2>1
  <2>. QED
    BY <1>1, <2>2, NthGrows
<1>. QED
  BY <1>2, <1>3

(* A place is claimed once, and one place at most. *)
LEMMA ClaimOne ==
  ASSUME NEW had, NEW ids, NEW n \in Nat, DOMAIN had = 1 .. n, NEW i \in Nat \ {0}
  PROVE  /\ \A a, b \in Claim(had, ids, i) : a = b
         /\ \A j \in Nat \ {0}, a \in Claim(had, ids, i) : a \in Claim(had, ids, j) => i = j
<1>1. ASSUME NEW a \in Claim(had, ids, i), NEW b \in Claim(had, ids, i) PROVE a = b
  <2>1. a \in Nat \ {0} /\ b \in Nat \ {0} /\ had[a] = had[b] /\ Nth(had, a) = Nth(had, b)
    BY DEF Claim
  <2>. QED
    BY <2>1, NthTells
<1>2. ASSUME NEW j \in Nat \ {0}, NEW a \in Claim(had, ids, i), a \in Claim(had, ids, j) PROVE i = j
  <2>1. ids[i] = ids[j] /\ Nth(ids, i) = Nth(ids, j)
    BY <1>2 DEF Claim
  <2>. QED
    BY <2>1, NthTells
<1>. QED
  BY <1>1, <1>2

(* The places of an identity are numbered from 1 up. *)
LEMMA NthFills ==
  ASSUME NEW ids, NEW n \in Nat, DOMAIN ids = 1 .. n, NEW a \in 1 .. n, NEW m \in 1 .. Nth(ids, a)
  PROVE  \E b \in 1 .. n : ids[b] = ids[a] /\ Nth(ids, b) = m
<1> DEFINE T == {b \in 1 .. n : ids[b] = ids[a]}
<1>1. T \subseteq 1 .. n /\ a \in T
  OBVIOUS
<1>2. \A b \in T : Nth(ids, b) = Rank(T, b)
  <2>1. ASSUME NEW b \in T PROVE {c \in 1 .. b : ids[c] = ids[b]} = UpTo(T, b)
    BY DEF UpTo
  <2>. QED
    BY <2>1 DEF Nth, Rank
<1>. HIDE DEF T
<1>3. Cardinality(T) \in Nat /\ Rank(T, a) \in 1 .. Cardinality(T)
  BY <1>1, RankFills
<1>4. m \in 1 .. Cardinality(T)
  BY <1>1, <1>2, <1>3
<1>5. PICK b \in T : Rank(T, b) = m
  BY <1>1, <1>4, RankFills
<1>. QED
  BY <1>1, <1>2, <1>5 DEF T

Claimed(had, ids) == UNION {Claim(had, ids, i) : i \in DOMAIN ids}
Claiming(had, ids) == {i \in DOMAIN ids : Claim(had, ids, i) # {}}

(* Each new row that claims one has one of its own. *)
LEMMA ClaimsApart ==
  ASSUME NEW had, NEW ids, NEW n \in Nat, NEW m \in Nat, DOMAIN had = 1 .. n, DOMAIN ids = 1 .. m
  PROVE  \E p \in [Claiming(had, ids) -> Claimed(had, ids)] :
           /\ \A i, j \in Claiming(had, ids) : p[i] = p[j] => i = j
           /\ \A a \in Claimed(had, ids) : \E i \in Claiming(had, ids) : p[i] = a
           /\ \A i \in Claiming(had, ids) : p[i] = CHOOSE a \in Claim(had, ids, i) : TRUE
<1> DEFINE p == [i \in Claiming(had, ids) |-> CHOOSE a \in Claim(had, ids, i) : TRUE]
<1>1. \A i \in Claiming(had, ids) : p[i] \in Claim(had, ids, i) /\ i \in DOMAIN ids
  BY DEF Claiming
<1>2. p \in [Claiming(had, ids) -> Claimed(had, ids)]
  BY <1>1 DEF Claimed
<1>3. ASSUME NEW i \in Claiming(had, ids), NEW j \in Claiming(had, ids), p[i] = p[j] PROVE i = j
  <2>0. i \in 1 .. m /\ j \in 1 .. m
    BY DEF Claiming
  <2>1. i \in Nat \ {0} /\ j \in Nat \ {0}
    BY <2>0
  <2>2. p[i] \in Claim(had, ids, i) /\ p[i] \in Claim(had, ids, j)
    BY <1>1, <1>3
  <2>. HIDE DEF p
  <2>. QED
    BY <2>1, <2>2, ClaimOne
<1>4. ASSUME NEW a \in Claimed(had, ids) PROVE \E i \in Claiming(had, ids) : p[i] = a
  <2>1. PICK i \in DOMAIN ids : a \in Claim(had, ids, i)
    BY DEF Claimed
  <2>2. i \in Claiming(had, ids) /\ i \in Nat \ {0}
    BY <2>1 DEF Claiming
  <2>3. p[i] \in Claim(had, ids, i)
    BY <1>1, <2>2
  <2>. HIDE DEF p
  <2>4. p[i] = a
    BY <2>1, <2>2, <2>3, ClaimOne
  <2>. QED
    BY <2>2, <2>4
<1>. QED
  BY <1>2, <1>3, <1>4

(* A new list with each row that claims one replaced by the one it claims. *)
Found(had, ids, old, new) ==
  [i \in DOMAIN new |-> IF Claim(had, ids, i) = {} THEN new[i]
                        ELSE old[CHOOSE a \in Claim(had, ids, i) : TRUE]]

LEMMA Halves ==
  ASSUME NEW S, NEW old \in Seq(S), NEW new \in Seq(S), NEW had, NEW ids,
         DOMAIN had = DOMAIN old, DOMAIN ids = DOMAIN new
  PROVE  /\ Found(had, ids, old, new) \in Seq(S)
         /\ DOMAIN Found(had, ids, old, new) = DOMAIN new
         /\ Claiming(had, ids) \in SUBSET DOMAIN new /\ IsFiniteSet(Claiming(had, ids))
         /\ Removed(had, ids, old) \in Seq(S) /\ Added(had, ids, new) \in Seq(S)
         /\ \A those : Num(old, those) = In(Claiming(had, ids), Found(had, ids, old, new), those)
                                           + Num(Removed(had, ids, old), those)
         /\ \A those : Num(new, those) = In(Claiming(had, ids), new, those)
                                           + Num(Added(had, ids, new), those)
<1> DEFINE M == Claiming(had, ids)
           C == Claimed(had, ids)
           found == Found(had, ids, old, new)
<1>1. /\ Len(old) \in Nat /\ Len(new) \in Nat
      /\ DOMAIN old = 1 .. Len(old) /\ DOMAIN new = 1 .. Len(new)
  OBVIOUS
<1>2. M \in SUBSET DOMAIN new
  BY DEF Claiming
<1>3. C \in SUBSET DOMAIN old
  BY DEF Claimed, Claim
<1>4. PICK p \in [M -> C] :
        /\ \A i, j \in M : p[i] = p[j] => i = j
        /\ \A a \in C : \E i \in M : p[i] = a
        /\ \A i \in M : p[i] = CHOOSE a \in Claim(had, ids, i) : TRUE
  BY <1>1, ClaimsApart
<1>5. DOMAIN found = DOMAIN new /\ \A i \in M : found[i] = old[p[i]]
  BY <1>2, <1>4 DEF Found, Claiming
<1>6. found \in Seq(S)
  <2>1. ASSUME NEW i \in DOMAIN new PROVE found[i] \in S
    <3>1. CASE i \in M
      <4>1. p[i] \in DOMAIN old
        BY <1>3, <1>4, <3>1
      <4>. QED
        BY <1>5, <3>1, <4>1
    <3>2. CASE i \notin M
      <4>1. found[i] = new[i]
        BY <3>2 DEF Found, Claiming
      <4>. QED
        BY <4>1
    <3>. QED
      BY <3>1, <3>2
  <2>2. found = [i \in 1 .. Len(new) |-> found[i]]
    BY <1>1 DEF Found
  <2>. HIDE DEF found
  <2>. QED
    BY <1>1, <2>1, <2>2
<1>7. IsFiniteSet(M) /\ IsFiniteSet(DOMAIN new)
  <2>1. IsFiniteSet(DOMAIN new)
    BY <1>1, FS_Interval
  <2>. QED
    BY <1>2, <2>1, FS_Subset
<1>8. Removed(had, ids, old) = RowsAt(DOMAIN old \ C, old)
  BY DEF Removed, Claimed
<1>9. Added(had, ids, new) = RowsAt(DOMAIN new \ M, new)
  <2>1. {i \in DOMAIN ids : Claim(had, ids, i) = {}} = DOMAIN new \ M
    BY DEF Claiming
  <2>. QED
    BY <2>1 DEF Added
<1>. HIDE DEF M, C, found
<1>10. /\ RowsAt(DOMAIN old \ C, old) \in Seq(S)
       /\ \A those : Num(RowsAt(DOMAIN old \ C, old), those) = In(DOMAIN old \ C, old, those)
  <2>1. DOMAIN old \ C \in SUBSET DOMAIN old
    OBVIOUS
  <2>. QED
    BY <2>1, RowsAtIs
<1>11. /\ RowsAt(DOMAIN new \ M, new) \in Seq(S)
       /\ \A those : Num(RowsAt(DOMAIN new \ M, new), those) = In(DOMAIN new \ M, new, those)
  <2>1. DOMAIN new \ M \in SUBSET DOMAIN new
    OBVIOUS
  <2>. QED
    BY <2>1, RowsAtIs
<1>12. ASSUME NEW those
       PROVE  Num(old, those) = In(M, found, those) + Num(Removed(had, ids, old), those)
  <2>1. Num(old, those) = In(C, old, those) + In(DOMAIN old \ C, old, those)
    BY <1>3, NumSplit
  <2>2. In(M, found, those) = In(C, old, those)
    BY <1>4, <1>5, <1>7, InMapped
  <2>. QED
    BY <1>8, <1>10, <2>1, <2>2
<1>13. ASSUME NEW those
       PROVE  Num(new, those) = In(M, new, those) + Num(Added(had, ids, new), those)
  <2>1. Num(new, those) = In(M, new, those) + In(DOMAIN new \ M, new, those)
    BY <1>2, NumSplit
  <2>. QED
    BY <1>9, <1>11, <2>1
<1>. QED
  BY <1>2, <1>5, <1>6, <1>7, <1>8, <1>9, <1>10, <1>11, <1>12, <1>13 DEF M, found

-----------------------------------------------------------------------------
(* The events of each way tell of the change.                              *)

LEMMA NoneOf ==
  /\ Deletes(<<>>) = <<>> /\ Pairs(<<>>, <<>>) = <<>> /\ Inserts(<<>>) = <<>>
  /\ <<>> \in Seq(Rows) /\ DOMAIN <<>> = {} /\ Len(<<>>) = 0
BY DEF Deletes, Pairs, Inserts

LEMMA TellsBy ==
  ASSUME NEW g \in Seq(Rows), NEW os \in Seq(Rows), NEW ns \in Seq(Rows), NEW c \in Seq(Rows),
         Len(os) = Len(ns), \A n \in DOMAIN os : os[n] # ns[n],
         NEW old, NEW new,
         \A those : Num(old, those) + Num(ns, those) + Num(c, those)
                       = Num(new, those) + Num(g, those) + Num(os, those)
  PROVE  Tells(Story(g, os, ns, c), old, new)
<1>1. PICK events : events = Story(g, os, ns, c)
  OBVIOUS
<1>2. Tells(events, old, new)
  BY <1>1 DEF Tells
<1>. QED
  BY <1>1, <1>2

LEMMA ReplaceTells ==
  ASSUME NEW old \in Seq(Rows), NEW new \in Seq(Rows)
  PROVE  Tells(full_replace(old, new), old, new)
<1>1. Deletes(old) \in Seq(RowChange)
  BY DeletesIs
<1>2. Deletes(old) \o <<>> = Deletes(old)
  BY <1>1, ConcatEmptySeq
<1>3. full_replace(old, new) = Story(old, <<>>, <<>>, new)
  BY <1>2, NoneOf DEF full_replace, Story
<1>4. ASSUME NEW those
      PROVE  Num(old, those) + Num(<<>>, those) + Num(new, those)
               = Num(new, those) + Num(old, those) + Num(<<>>, those)
  <2>1. PICK a \in Nat, b \in Nat : a = Num(old, those) /\ b = Num(new, those)
    BY NumType
  <2>2. Num(<<>>, those) = 0
    BY NumEmpty
  <2>3. a + 0 + b = b + a + 0
    OBVIOUS
  <2>. QED
    BY <2>1, <2>2, <2>3
<1>5. PICK none \in Seq(Rows) : none = <<>>
  BY NoneOf
<1>6. \A those : Num(old, those) + Num(none, those) + Num(new, those)
                    = Num(new, those) + Num(old, those) + Num(none, those)
  BY <1>4, <1>5
<1>7. \A n \in DOMAIN none : none[n] # none[n]
  BY <1>5, NoneOf
<1>8. Tells(Story(old, none, none, new), old, new)
  BY <1>6, <1>7, TellsBy
<1>. QED
  BY <1>3, <1>5, <1>8

(* A change of some of the places changes the count by those places alone. *)
LEMMA Apart ==
  ASSUME NEW T, IsFiniteSet(T), NEW U \in SUBSET T, NEW s, NEW t,
         \A i \in T \ U : s[i] = t[i], NEW those
  PROVE  /\ In(T, s, those) \in Nat /\ In(T, t, those) \in Nat
         /\ In(U, s, those) \in Nat /\ In(U, t, those) \in Nat
         /\ In(T, s, those) + In(U, t, those) = In(T, t, those) + In(U, s, those)
<1>1. In(T, s, those) = In(U, s, those) + In(T \ U, s, those)
  BY InSplit
<1>2. In(T, t, those) = In(U, t, those) + In(T \ U, t, those)
  BY InSplit
<1>3. In(T \ U, s, those) = In(T \ U, t, those)
  BY InAlike
<1>4. IsFiniteSet(U) /\ IsFiniteSet(T \ U)
  BY FS_Subset
<1>5. PICK a \in Nat, b \in Nat, c \in Nat :
        a = In(U, s, those) /\ b = In(U, t, those) /\ c = In(T \ U, s, those)
  BY <1>4, InType
<1>6. In(T, s, those) = a + c /\ In(T, t, those) = b + c
  BY <1>1, <1>2, <1>3, <1>5
<1>. QED
  BY <1>5, <1>6

LEMMA PlaceTells ==
  ASSUME NEW old \in Seq(Rows), NEW new \in Seq(Rows)
  PROVE  Tells(diff_rows(old, new), old, new)
<1> DEFINE T  == Changed(old, new)
           os == RowsAt(T, old)
           ns == RowsAt(T, new)
           c  == After(Len(old), new)
<1>1. CASE \/ Len(new) < Len(old)
           \/ Len(old) > 1 /\ Cardinality(T) * 2 > Len(old)
  BY <1>1, ReplaceTells DEF diff_rows
<1>2. CASE ~ (\/ Len(new) < Len(old)
              \/ Len(old) > 1 /\ Cardinality(T) * 2 > Len(old))
  <2>1. diff_rows(old, new) = Pairs(os, ns) \o Inserts(c)
    BY <1>2 DEF diff_rows
  <2>2. /\ Len(old) \in Nat /\ Len(new) \in Nat /\ Len(old) <= Len(new)
        /\ DOMAIN old = 1 .. Len(old) /\ DOMAIN new = 1 .. Len(new)
    BY <1>2
  <2>3. Len(old) \in 0 .. Len(new) /\ DOMAIN old \subseteq DOMAIN new
    BY <2>2
  <2>4. T \in SUBSET DOMAIN old /\ T \in SUBSET DOMAIN new /\ IsFiniteSet(DOMAIN old)
    <3>1. IsFiniteSet(1 .. Len(old))
      BY <2>2, FS_Interval
    <3>. QED
      BY <2>2, <2>3, <3>1 DEF Changed
  <2>5. /\ \A i \in T : old[i] # new[i]
        /\ \A i \in DOMAIN old \ T : old[i] = new[i]
    BY DEF Changed
  <2>6. /\ First(Len(old), new) \in Seq(Rows) /\ Len(First(Len(old), new)) = Len(old)
        /\ c \in Seq(Rows)
        /\ \A i \in 1 .. Len(old) : First(Len(old), new)[i] = new[i]
        /\ \A those : Num(new, those) = Num(First(Len(old), new), those) + Num(c, those)
    BY <2>3, Parts
  <2>. HIDE DEF T
  <2>7. /\ Cardinality(T) \in Nat
        /\ \A n \in 1 .. Cardinality(T) : InOrder(T)[n] \in T
        /\ os \in Seq(Rows) /\ Len(os) = Cardinality(T)
        /\ \A n \in 1 .. Cardinality(T) : os[n] = old[InOrder(T)[n]]
        /\ \A those : Num(os, those) = In(T, old, those)
    BY <2>4, RowsAtIs
  <2>8. /\ ns \in Seq(Rows) /\ Len(ns) = Cardinality(T)
        /\ \A n \in 1 .. Cardinality(T) : ns[n] = new[InOrder(T)[n]]
        /\ \A those : Num(ns, those) = In(T, new, those)
    BY <2>4, RowsAtIs
  <2>. HIDE DEF os, ns, c
  <2>9. Len(os) = Len(ns) /\ \A n \in DOMAIN os : os[n] # ns[n]
    <3>1. DOMAIN os = 1 .. Cardinality(T)
      BY <2>7
    <3>. QED
      BY <2>5, <2>7, <2>8, <3>1
  <2>10. diff_rows(old, new) = Story(<<>>, os, ns, c)
    <3>1. Pairs(os, ns) \in Seq(RowChange)
      BY <2>7, <2>8, <2>9, PairsIs
    <3>2. <<>> \o Pairs(os, ns) = Pairs(os, ns)
      BY <3>1, ConcatEmptySeq
    <3>. QED
      BY <2>1, <3>2, NoneOf DEF Story
  <2>11. ASSUME NEW those
         PROVE  Num(old, those) + Num(ns, those) + Num(c, those)
                  = Num(new, those) + Num(<<>>, those) + Num(os, those)
    <3>1. Num(old, those) = In(DOMAIN old, old, those)
      BY DEF Num, In, Hits, Among
    <3>2. Num(First(Len(old), new), those) = In(DOMAIN old, new, those)
      <4>1. DOMAIN First(Len(old), new) = DOMAIN old
        BY <2>2, <2>6
      <4>2. Num(First(Len(old), new), those) = In(DOMAIN old, First(Len(old), new), those)
        BY <4>1 DEF Num, In, Hits, Among
      <4>3. \A i \in DOMAIN old : First(Len(old), new)[i] = new[i]
        BY <2>2, <2>6
      <4>. QED
        BY <4>2, <4>3, InAlike
    <3>3. /\ In(DOMAIN old, old, those) \in Nat /\ In(DOMAIN old, new, those) \in Nat
          /\ In(T, old, those) \in Nat /\ In(T, new, those) \in Nat
          /\ In(DOMAIN old, old, those) + In(T, new, those)
               = In(DOMAIN old, new, those) + In(T, old, those)
      <4>1. PICK D : D = DOMAIN old
        OBVIOUS
      <4>2. IsFiniteSet(D) /\ T \in SUBSET D /\ \A i \in D \ T : old[i] = new[i]
        BY <2>4, <2>5, <4>1
      <4>3. /\ In(D, old, those) \in Nat /\ In(D, new, those) \in Nat
            /\ In(T, old, those) \in Nat /\ In(T, new, those) \in Nat
            /\ In(D, old, those) + In(T, new, those) = In(D, new, those) + In(T, old, those)
        BY <4>2, Apart
      <4>. QED
        BY <4>1, <4>3
    <3>4. PICK x \in Nat, y \in Nat, z \in Nat, w \in Nat, v \in Nat :
            /\ x = In(DOMAIN old, old, those) /\ y = In(DOMAIN old, new, those)
            /\ z = In(T, old, those) /\ w = In(T, new, those) /\ v = Num(c, those)
      BY <2>6, <3>3, NumType
    <3>5. x + w = y + z
      BY <3>3, <3>4
    <3>6. /\ Num(old, those) = x /\ Num(ns, those) = w /\ Num(c, those) = v
          /\ Num(new, those) = y + v /\ Num(os, those) = z
      BY <2>6, <2>7, <2>8, <3>1, <3>2, <3>4
    <3>7. Num(<<>>, those) = 0
      BY NumEmpty
    <3>8. x + w + v = (y + v) + 0 + z
      BY <3>5
    <3>. QED
      BY <3>6, <3>7, <3>8
  <2>12. PICK none \in Seq(Rows) : none = <<>>
    BY NoneOf
  <2>13. \A those : Num(old, those) + Num(ns, those) + Num(c, those)
                       = Num(new, those) + Num(none, those) + Num(os, those)
    BY <2>11, <2>12
  <2>14. Tells(Story(none, os, ns, c), old, new)
    BY <2>6, <2>7, <2>8, <2>9, <2>13, TellsBy
  <2>. QED
    BY <2>10, <2>12, <2>14
<1>. QED
  BY <1>1, <1>2

LEMMA KeyedTells ==
  ASSUME NEW old \in Seq(Rows), NEW new \in Seq(Rows)
  PROVE  Tells(diff_keyed(old, new), old, new)
<1>1. PICK had, ids : had = Keys(old) /\ ids = Keys(new)
  OBVIOUS
<1>2. DOMAIN had = DOMAIN old /\ DOMAIN ids = DOMAIN new
  BY <1>1 DEF Keys
<1>3. PICK M, found : M = Claiming(had, ids) /\ found = Found(had, ids, old, new)
  OBVIOUS
<1>4. PICK g, c : g = Removed(had, ids, old) /\ c = Added(had, ids, new)
  OBVIOUS
<1>5. /\ found \in Seq(Rows) /\ DOMAIN found = DOMAIN new
      /\ M \in SUBSET DOMAIN new /\ IsFiniteSet(M)
      /\ g \in Seq(Rows) /\ c \in Seq(Rows)
      /\ \A those : Num(old, those) = In(M, found, those) + Num(g, those)
      /\ \A those : Num(new, those) = In(M, new, those) + Num(c, those)
  BY <1>2, <1>3, <1>4, Halves
<1>6. /\ \A i \in M : found[i] = old[CHOOSE a \in Claim(had, ids, i) : TRUE]
      /\ \A i \in DOMAIN new \ M : found[i] = new[i]
  BY <1>2, <1>3, <1>5 DEF Found, Claiming
<1>7. PICK P : P = Changed(found, new)
  OBVIOUS
<1>8. /\ P \in SUBSET DOMAIN found /\ P \in SUBSET DOMAIN new /\ P \in SUBSET M
      /\ \A i \in P : found[i] # new[i]
      /\ \A i \in M \ P : found[i] = new[i]
  BY <1>5, <1>6, <1>7 DEF Changed
<1>9. PICK os, ns : os = RowsAt(P, found) /\ ns = RowsAt(P, new)
  OBVIOUS
<1>10. /\ Cardinality(P) \in Nat
       /\ DOMAIN InOrder(P) = 1 .. Cardinality(P)
       /\ \A n \in 1 .. Cardinality(P) : InOrder(P)[n] \in P
       /\ os \in Seq(Rows) /\ Len(os) = Cardinality(P)
       /\ \A n \in 1 .. Cardinality(P) : os[n] = found[InOrder(P)[n]]
       /\ \A those : Num(os, those) = In(P, found, those)
  BY <1>5, <1>8, <1>9, RowsAtIs
<1>11. /\ ns \in Seq(Rows) /\ Len(ns) = Cardinality(P)
       /\ \A n \in 1 .. Cardinality(P) : ns[n] = new[InOrder(P)[n]]
       /\ \A those : Num(ns, those) = In(P, new, those)
  BY <1>8, <1>9, RowsAtIs
<1>12. DOMAIN os = 1 .. Cardinality(P) /\ Len(os) = Len(ns) /\ \A n \in DOMAIN os : os[n] # ns[n]
  <2>1. DOMAIN os = 1 .. Cardinality(P)
    BY <1>10
  <2>. QED
    BY <1>8, <1>10, <1>11, <2>1
<1>13. Updated(had, ids, old, new) = Pairs(os, ns)
  <2> DEFINE Old(i) == old[CHOOSE a \in Claim(had, ids, i) : TRUE]
             Differ == {i \in {j \in DOMAIN ids : Claim(had, ids, j) # {}} : Old(i) # new[i]}
  <2>0. {i \in DOMAIN ids : Claim(had, ids, i) # {}} = M
    BY <1>3 DEF Claiming
  <2>1. Differ = P
    BY <1>6, <1>8, <2>0
  <2>a. Updated(had, ids, old, new)
          = [n \in DOMAIN InOrder(Differ) |->
               Update(Old(InOrder(Differ)[n]), new[InOrder(Differ)[n]])]
    BY DEF Updated
  <2>2. Updated(had, ids, old, new)
          = [n \in DOMAIN InOrder(P) |->
               Update(old[CHOOSE a \in Claim(had, ids, InOrder(P)[n]) : TRUE], new[InOrder(P)[n]])]
    BY <2>1, <2>a
  <2>3. ASSUME NEW n \in 1 .. Cardinality(P)
        PROVE  /\ old[CHOOSE a \in Claim(had, ids, InOrder(P)[n]) : TRUE] = os[n]
               /\ new[InOrder(P)[n]] = ns[n]
    <3>1. InOrder(P)[n] \in M
      BY <1>8, <1>10
    <3>. QED
      BY <1>6, <1>10, <1>11, <3>1
  <2>4. Updated(had, ids, old, new) = [n \in 1 .. Cardinality(P) |-> Update(os[n], ns[n])]
    BY <1>10, <2>2, <2>3
  <2>. QED
    BY <1>12, <2>4 DEF Pairs
<1>14. diff_keyed(old, new) = Story(g, os, ns, c)
  BY <1>1, <1>4, <1>13 DEF diff_keyed, Story
<1>15. ASSUME NEW those
       PROVE  Num(old, those) + Num(ns, those) + Num(c, those)
                = Num(new, those) + Num(g, those) + Num(os, those)
  <2>1. /\ In(M, found, those) \in Nat /\ In(M, new, those) \in Nat
        /\ In(P, found, those) \in Nat /\ In(P, new, those) \in Nat
        /\ In(M, found, those) + In(P, new, those) = In(M, new, those) + In(P, found, those)
    <3>1. IsFiniteSet(M) /\ P \in SUBSET M /\ \A i \in M \ P : found[i] = new[i]
      BY <1>5, <1>8
    <3>. QED
      BY <3>1, Apart
  <2>2. PICK x \in Nat, y \in Nat, z \in Nat, w \in Nat, v \in Nat, q \in Nat :
          /\ x = In(M, found, those) /\ y = In(M, new, those)
          /\ z = In(P, found, those) /\ w = In(P, new, those)
          /\ v = Num(c, those) /\ q = Num(g, those)
    BY <1>5, <2>1, NumType
  <2>3. x + w = y + z
    BY <2>1, <2>2
  <2>4. /\ Num(old, those) = x + q /\ Num(ns, those) = w /\ Num(c, those) = v
        /\ Num(new, those) = y + v /\ Num(g, those) = q /\ Num(os, those) = z
    BY <1>5, <1>10, <1>11, <2>2
  <2>5. (x + q) + w + v = (y + v) + q + z
    BY <2>3
  <2>. QED
    BY <2>4, <2>5
<1>16. Tells(Story(g, os, ns, c), old, new)
  BY <1>5, <1>10, <1>11, <1>12, <1>15, TellsBy
<1>. QED
  BY <1>14, <1>16

(* A row that none claims and one that claims none differ. *)
LEMMA LeftApart ==
  ASSUME NEW old, NEW new, NEW n \in Nat, NEW m \in Nat, DOMAIN old = 1 .. n, DOMAIN new = 1 .. m,
         NEW a \in DOMAIN old \ Claimed(old, new), NEW b \in DOMAIN new \ Claiming(old, new)
  PROVE  old[a] # new[b]
<1>1. SUFFICES ASSUME old[a] = new[b] PROVE FALSE
  OBVIOUS
<1>2. /\ a \in 1 .. n /\ b \in 1 .. m
      /\ Nth(old, a) \in Nat \ {0} /\ Nth(new, b) \in Nat \ {0}
  <2>1. a \in 1 .. n /\ b \in 1 .. m
    OBVIOUS
  <2>2. a \in Nat \ {0} /\ b \in Nat \ {0}
    BY <2>1
  <2>. QED
    BY <2>1, <2>2, NthGrows
<1>3. CASE Nth(new, b) <= Nth(old, a)
  <2>1. a \in 1 .. n /\ Nth(new, b) \in 1 .. Nth(old, a)
    BY <1>2, <1>3
  <2>2. PICK at \in 1 .. n : old[at] = old[a] /\ Nth(old, at) = Nth(new, b)
    BY <2>1, NthFills
  <2>3. at \in Claim(old, new, b)
    BY <1>1, <2>2 DEF Claim
  <2>. QED
    BY <2>3 DEF Claiming
<1>4. CASE Nth(old, a) <= Nth(new, b)
  <2>1. b \in 1 .. m /\ Nth(old, a) \in 1 .. Nth(new, b)
    BY <1>2, <1>4
  <2>2. PICK i \in 1 .. m : new[i] = new[b] /\ Nth(new, i) = Nth(old, a)
    BY <2>1, NthFills
  <2>3. a \in Claim(old, new, i)
    BY <1>1, <2>2 DEF Claim
  <2>. QED
    BY <2>2, <2>3 DEF Claimed
<1>. QED
  BY <1>2, <1>3, <1>4

LEMMA UnorderedTells ==
  ASSUME NEW old \in Seq(Rows), NEW new \in Seq(Rows)
  PROVE  Tells(diff_unordered(old, new), old, new)
<1>1. PICK M, found : M = Claiming(old, new) /\ found = Found(old, new, old, new)
  OBVIOUS
<1>2. PICK gone, come : gone = Removed(old, new, old) /\ come = Added(old, new, new)
  OBVIOUS
<1>3. /\ found \in Seq(Rows) /\ DOMAIN found = DOMAIN new
      /\ M \in SUBSET DOMAIN new /\ IsFiniteSet(M)
      /\ gone \in Seq(Rows) /\ come \in Seq(Rows)
      /\ \A those : Num(old, those) = In(M, found, those) + Num(gone, those)
      /\ \A those : Num(new, those) = In(M, new, those) + Num(come, those)
  BY <1>1, <1>2, Halves
<1>4. \A i \in M : found[i] = new[i]
  <2>1. ASSUME NEW i \in M PROVE found[i] = new[i]
    <3>1. PICK a \in Claim(old, new, i) : a = CHOOSE at \in Claim(old, new, i) : TRUE
      BY <1>1, <2>1 DEF Claiming
    <3>2. old[a] = new[i]
      BY <3>1 DEF Claim
    <3>3. found[i] = old[a]
      BY <1>1, <1>3, <3>1 DEF Found
    <3>. QED
      BY <3>2, <3>3
  <2>. QED
    BY <2>1
<1>5. PICK n \in Nat, m \in Nat :
        n = Len(old) /\ m = Len(new) /\ DOMAIN old = 1 .. n /\ DOMAIN new = 1 .. m
  OBVIOUS
<1>6. ASSUME NEW i \in DOMAIN gone PROVE \E a \in DOMAIN old \ Claimed(old, new) : gone[i] = old[a]
  <2>1. PICK T \in SUBSET DOMAIN old : T = DOMAIN old \ Claimed(old, new)
    OBVIOUS
  <2>2. gone = RowsAt(T, old)
    BY <1>2, <2>1 DEF Removed, Claimed
  <2>3. /\ \A j \in 1 .. Cardinality(T) : InOrder(T)[j] \in T
        /\ \A j \in 1 .. Cardinality(T) : gone[j] = old[InOrder(T)[j]]
        /\ Len(gone) = Cardinality(T)
    BY <2>2, RowsAtIs
  <2>4. i \in 1 .. Cardinality(T)
    BY <1>3, <1>6, <2>3
  <2>. QED
    BY <2>1, <2>3, <2>4
<1>7. ASSUME NEW i \in DOMAIN come PROVE \E b \in DOMAIN new \ M : come[i] = new[b]
  <2>1. PICK T \in SUBSET DOMAIN new : T = DOMAIN new \ M
    OBVIOUS
  <2>2. come = RowsAt(T, new)
    <3>1. {j \in DOMAIN new : Claim(old, new, j) = {}} = T
      BY <1>1, <2>1 DEF Claiming
    <3>. QED
      BY <1>2, <3>1 DEF Added
  <2>3. /\ \A j \in 1 .. Cardinality(T) : InOrder(T)[j] \in T
        /\ \A j \in 1 .. Cardinality(T) : come[j] = new[InOrder(T)[j]]
        /\ Len(come) = Cardinality(T)
    BY <2>2, RowsAtIs
  <2>4. i \in 1 .. Cardinality(T)
    BY <1>3, <1>7, <2>3
  <2>. QED
    BY <2>1, <2>3, <2>4
<1>8. PICK k \in Nat : /\ k = IF Len(gone) < Len(come) THEN Len(gone) ELSE Len(come)
                       /\ k \in 0 .. Len(gone) /\ k \in 0 .. Len(come)
                       /\ 1 .. k \subseteq DOMAIN gone /\ 1 .. k \subseteq DOMAIN come
  <2>1. /\ Len(gone) \in Nat /\ Len(come) \in Nat
        /\ DOMAIN gone = 1 .. Len(gone) /\ DOMAIN come = 1 .. Len(come)
    BY <1>3
  <2>2. PICK a \in Nat, b \in Nat : a = Len(gone) /\ b = Len(come)
    BY <2>1
  <2>3. PICK k \in Nat : k = (IF a < b THEN a ELSE b) /\ k <= a /\ k <= b
    OBVIOUS
  <2>4. 1 .. k \subseteq 1 .. a /\ 1 .. k \subseteq 1 .. b /\ k \in 0 .. a /\ k \in 0 .. b
    BY <2>3
  <2>. QED
    BY <2>1, <2>2, <2>3, <2>4
<1>9. PICK g, os, ns, c : /\ g = After(k, gone) /\ os = First(k, gone)
                          /\ ns = First(k, come) /\ c = After(k, come)
  OBVIOUS
<1>10. /\ os \in Seq(Rows) /\ Len(os) = k /\ g \in Seq(Rows)
       /\ \A i \in 1 .. k : os[i] = gone[i]
       /\ \A those : Num(gone, those) = Num(os, those) + Num(g, those)
  <2>1. gone \in Seq(Rows) /\ k \in 0 .. Len(gone)
    BY <1>3, <1>8
  <2>. QED
    BY <1>9, <2>1, Parts
<1>11. /\ ns \in Seq(Rows) /\ Len(ns) = k /\ c \in Seq(Rows)
       /\ \A i \in 1 .. k : ns[i] = come[i]
       /\ \A those : Num(come, those) = Num(ns, those) + Num(c, those)
  <2>1. come \in Seq(Rows) /\ k \in 0 .. Len(come)
    BY <1>3, <1>8
  <2>. QED
    BY <1>9, <2>1, Parts
<1>12. diff_unordered(old, new) = Story(g, os, ns, c)
  BY <1>2, <1>8, <1>9 DEF diff_unordered, Story
<1>13. Len(os) = Len(ns) /\ \A i \in DOMAIN os : os[i] # ns[i]
  <2>1. ASSUME NEW i \in DOMAIN os PROVE os[i] # ns[i]
    <3>1. i \in 1 .. k /\ i \in DOMAIN gone /\ i \in DOMAIN come
      <4>1. DOMAIN os = 1 .. k
        BY <1>10
      <4>2. 1 .. k \subseteq DOMAIN gone /\ 1 .. k \subseteq DOMAIN come
        BY <1>8
      <4>. QED
        BY <2>1, <4>1, <4>2
    <3>2. PICK a \in DOMAIN old \ Claimed(old, new) : gone[i] = old[a]
      BY <1>6, <3>1
    <3>3. PICK b \in DOMAIN new \ Claiming(old, new) : come[i] = new[b]
      BY <1>1, <1>7, <3>1
    <3>4. old[a] # new[b]
      BY <1>5, LeftApart
    <3>. QED
      BY <1>10, <1>11, <3>1, <3>2, <3>3, <3>4
  <2>. QED
    BY <1>10, <1>11, <2>1
<1>14. ASSUME NEW those
       PROVE  Num(old, those) + Num(ns, those) + Num(c, those)
                = Num(new, those) + Num(g, those) + Num(os, those)
  <2>1. In(M, found, those) = In(M, new, those)
    BY <1>4, InAlike
  <2>2. PICK x \in Nat, z \in Nat, w \in Nat, v \in Nat, q \in Nat :
          /\ x = In(M, new, those) /\ z = Num(os, those) /\ w = Num(ns, those)
          /\ v = Num(c, those) /\ q = Num(g, those)
    BY <1>3, <1>10, <1>11, InType, NumType
  <2>3. Num(old, those) = x + (z + q) /\ Num(new, those) = x + (w + v)
    BY <1>3, <1>10, <1>11, <2>1, <2>2
  <2>4. (x + (z + q)) + w + v = (x + (w + v)) + q + z
    OBVIOUS
  <2>. QED
    BY <2>2, <2>3, <2>4
<1>15. Tells(Story(g, os, ns, c), old, new)
  BY <1>10, <1>11, <1>13, <1>14, TellsBy
<1>. QED
  BY <1>12, <1>15

\* The events of a change (diff_rows, diff_keyed, diff_unordered), from any rows
\* to any others: after them there are as many of each row as there should be,
\* none repeats a row, and on the way no more rows are held than before or after.
THEOREM DiffAddsUp ==
  ASSUME NEW u \in Units, NEW old \in Held(u), NEW new \in Held(u)
  PROVE  /\ old \in Seq(Rows) /\ new \in Seq(Rows)
         /\ Diff[u][old][new] \in Seq(RowChange)
         /\ \A row \in Rows : Count(old, row) + Gain(Diff[u][old][new], row) = Count(new, row)
         /\ \A n \in DOMAIN Diff[u][old][new] :
              /\ Diff[u][old][new][n].old # Diff[u][old][new][n].new
              /\ Growth(First(n, Diff[u][old][new])) \in Int
              /\ \/ Len(old) + Growth(First(n, Diff[u][old][new])) <= Len(old)
                 \/ Len(old) + Growth(First(n, Diff[u][old][new])) <= Len(new)
<1>1. old \in Seq(Rows) /\ new \in Seq(Rows)
  BY ContentsAssumption, NoneOf DEF Held
<1>2. PICK events : events = RowEvents(Way[u], old, new)
  OBVIOUS
<1>3. Diff[u][old][new] = events
  BY <1>2 DEF Diff
<1>4. Tells(events, old, new)
  <2>1. Way[u] \in {"place", "key", "value"}
    BY ContentsAssumption
  <2>2. CASE Way[u] = "place"
    BY <1>1, <1>2, <2>2, PlaceTells DEF RowEvents
  <2>3. CASE Way[u] = "key"
    BY <1>1, <1>2, <2>3, KeyedTells DEF RowEvents
  <2>4. CASE Way[u] = "value"
    BY <1>1, <1>2, <2>4, UnorderedTells DEF RowEvents
  <2>. QED
    BY <2>1, <2>2, <2>3, <2>4
<1>5. /\ events \in Seq(RowChange)
      /\ \A row \in Rows : Count(old, row) + Gain(events, row) = Count(new, row)
      /\ \A n \in DOMAIN events :
           /\ events[n].old # events[n].new
           /\ Growth(First(n, events)) \in Int
           /\ \/ Len(old) + Growth(First(n, events)) <= Len(old)
              \/ Len(old) + Growth(First(n, events)) <= Len(new)
  BY <1>1, <1>4, TellsAll
<1>. QED
  BY <1>1, <1>3, <1>5

-----------------------------------------------------------------------------
(* Gains.                                                                  *)

\* The events that bring a unit a row, and those that take it away.
Brings(u, row) == {e \in RowEvent : e.unit = u /\ e.change.new = row}
Takes(u, row)  == {e \in RowEvent : e.unit = u /\ e.change.old = row}

LEMMA GainIsHits ==
  ASSUME NEW u, NEW row, NEW events \in Seq(RowEvent)
  PROVE  GainOf(u, events, row)
           = Cardinality(Hits(events, Brings(u, row))) - Cardinality(Hits(events, Takes(u, row)))
<1>1. \A i \in DOMAIN events : events[i] \in RowEvent
  OBVIOUS
<1>. QED
  BY <1>1 DEF GainOf, Hits, Brings, Takes

LEMMA GainType ==
  ASSUME NEW u, NEW row, NEW events \in Seq(RowEvent) PROVE GainOf(u, events, row) \in Int
<1>1. Cardinality(Hits(events, Brings(u, row))) \in Nat
  BY HitsFinite
<1>2. Cardinality(Hits(events, Takes(u, row))) \in Nat
  BY HitsFinite
<1>. QED
  BY <1>1, <1>2, GainIsHits

LEMMA GainConcat ==
  ASSUME NEW u, NEW row, NEW s \in Seq(RowEvent), NEW t \in Seq(RowEvent)
  PROVE  GainOf(u, s \o t, row) = GainOf(u, s, row) + GainOf(u, t, row)
<1>1. s \o t \in Seq(RowEvent)
  OBVIOUS
<1>2. \A those : /\ Cardinality(Hits(s, those)) \in Nat /\ Cardinality(Hits(t, those)) \in Nat
                 /\ Cardinality(Hits(s \o t, those))
                      = Cardinality(Hits(s, those)) + Cardinality(Hits(t, those))
  BY HitsConcat, HitsFinite
<1>3. /\ GainOf(u, s \o t, row) = Cardinality(Hits(s \o t, Brings(u, row)))
                                   - Cardinality(Hits(s \o t, Takes(u, row)))
      /\ GainOf(u, s, row) = Cardinality(Hits(s, Brings(u, row)))
                              - Cardinality(Hits(s, Takes(u, row)))
      /\ GainOf(u, t, row) = Cardinality(Hits(t, Brings(u, row)))
                              - Cardinality(Hits(t, Takes(u, row)))
  BY <1>1, GainIsHits
<1>. QED
  BY <1>2, <1>3

LEMMA GainNothing ==
  ASSUME NEW u, NEW row, NEW events \in Seq(RowEvent),
         \A i \in DOMAIN events : events[i].unit # u
  PROVE  GainOf(u, events, row) = 0
<1>1. Hits(events, Brings(u, row)) = {} /\ Hits(events, Takes(u, row)) = {}
  BY DEF Hits, Brings, Takes
<1>2. Cardinality({}) = 0
  BY FS_EmptySet
<1>3. GainOf(u, events, row)
        = Cardinality(Hits(events, Brings(u, row))) - Cardinality(Hits(events, Takes(u, row)))
  BY GainIsHits
<1>. QED
  BY <1>1, <1>2, <1>3

LEMMA GainEmpty == ASSUME NEW u, NEW row PROVE GainOf(u, <<>>, row) = 0
<1>1. <<>> \in Seq(RowEvent) /\ DOMAIN <<>> = {}
  OBVIOUS
<1>. QED
  BY <1>1, GainNothing

LEMMA CountType ==
  ASSUME TypeOK, NEW u \in Units, NEW row \in Rows PROVE Count(rows[u], row) \in Nat
<1>1. rows[u] \in Seq(Rows)
  <2>1. rows[u] \in Contents[u] \cup {<<>>}
    BY DEF TypeOK, Held
  <2>2. <<>> \in Seq(Rows) /\ Contents[u] \in SUBSET Seq(Rows)
    BY ContentsAssumption
  <2>. QED
    BY <2>1, <2>2
<1>2. {i \in DOMAIN rows[u] : rows[u][i] = row} = Hits(rows[u], {row})
  BY <1>1 DEF Hits
<1>. QED
  BY <1>1, <1>2, HitsFinite DEF Count

(* The events of a change tell of its unit what the change makes of it, and *)
(* of the others nothing.                                                   *)
LEMMA TellingGains ==
  ASSUME TypeOK, NEW u \in Units, NEW new \in Held(u)
  PROVE  /\ Telling(u, new) \in Seq(RowEvent)
         /\ \A row \in Rows : Count(rows[u], row) + GainOf(u, Telling(u, new), row) = Count(new, row)
         /\ \A v \in Units \ {u}, row \in Rows : GainOf(v, Telling(u, new), row) = 0
<1> DEFINE changed == Diff[u][rows[u]][new]
<1>1. changed \in Seq(RowChange)
  BY DiffAddsUp DEF TypeOK
<1>2. Telling(u, new) = [i \in DOMAIN changed |-> [unit |-> u, change |-> changed[i]]]
  BY DEF Telling
<1> HIDE DEF changed
<1>3. DOMAIN changed = 1 .. Len(changed) /\ Len(changed) \in Nat
  BY <1>1
<1>4. \A i \in 1 .. Len(changed) : changed[i] \in RowChange
  BY <1>1
<1>5. Telling(u, new) \in Seq(RowEvent)
  BY <1>2, <1>3, <1>4 DEF RowEvent
<1>6. ASSUME NEW row \in Rows
      PROVE  GainOf(u, Telling(u, new), row) = Gain(changed, row)
  <2>1. \A i \in DOMAIN changed : /\ Telling(u, new)[i].unit = u
                                 /\ Telling(u, new)[i].change = changed[i]
    BY <1>2
  <2>2. DOMAIN Telling(u, new) = DOMAIN changed
    BY <1>2
  <2>3. {i \in DOMAIN Telling(u, new) : /\ Telling(u, new)[i].unit = u
                                       /\ Telling(u, new)[i].change.new = row}
          = {i \in DOMAIN changed : changed[i].new = row}
    BY <2>1, <2>2
  <2>4. {i \in DOMAIN Telling(u, new) : /\ Telling(u, new)[i].unit = u
                                       /\ Telling(u, new)[i].change.old = row}
          = {i \in DOMAIN changed : changed[i].old = row}
    BY <2>1, <2>2
  <2>. QED
    BY <2>3, <2>4 DEF GainOf, Gain
<1>7. ASSUME NEW row \in Rows, NEW v \in Units \ {u}
      PROVE  GainOf(v, Telling(u, new), row) = 0
  BY <1>2, <1>5, GainNothing
<1>8. \A row \in Rows : Count(rows[u], row) + Gain(changed, row) = Count(new, row)
  BY DiffAddsUp DEF TypeOK, changed
<1>. QED
  BY <1>5, <1>6, <1>7, <1>8

-----------------------------------------------------------------------------
(* Types.                                                                  *)

\* The rows of a unit may become those of any of its contents.
LEMMA BecomeType ==
  ASSUME TypeOK, NEW u \in Units, NEW new \in Held(u),
         rows' = [rows EXCEPT ![u] = new]
  PROVE  DOMAIN rows' = Units /\ \A v \in Units : rows'[v] \in Held(v)
BY DEF TypeOK

LEMMA DiskHeld == ASSUME TypeOK, NEW u \in Units PROVE disk[u] \in Held(u) /\ <<>> \in Held(u)
BY DEF TypeOK, Held

LEMMA ToldType == ASSUME TypeOK PROVE Told \in [Units -> [Rows -> Int]]
<1>1. Pending \in Seq(RowEvent)
  BY DEF TypeOK, Pending
<1>2. ASSUME NEW u \in Units, NEW row \in Rows
      PROVE  Count(rows[u], row) - GainOf(u, Pending, row) \in Int
  <2>1. Count(rows[u], row) \in Nat
    BY CountType
  <2>2. GainOf(u, Pending, row) \in Int
    BY <1>1, GainType
  <2>. QED
    BY <2>1, <2>2
<1>. QED
  BY <1>2 DEF Told

LEMMA HeardType ==
  ASSUME TypeOK, NEW c \in Consumers, NEW event \in RowEvent
  PROVE  Heard(c, event) \in [Units -> [Rows -> Int]]
<1>1. <<event>> \in Seq(RowEvent)
  OBVIOUS
<1>2. ASSUME NEW u \in Units, NEW row \in Rows
      PROVE  seen[c][u][row] + GainOf(u, <<event>>, row) \in Int
  <2>1. GainOf(u, <<event>>, row) \in Int
    BY <1>1, GainType
  <2>. QED
    BY <2>1 DEF TypeOK
<1>. QED
  BY <1>2 DEF Heard

LEMMA InitTypes == ASSUME Init PROVE TypeOK /\ Lock
<1>1. /\ DOMAIN disk = Units /\ DOMAIN rows = Units
      /\ \A u \in Units : disk[u] \in Contents[u] /\ rows[u] \in Held(u)
  BY ContentsAssumption DEF Init, Held
<1>2. changes \in 0 .. MaxChanges /\ watching \in BOOLEAN
  <2>1. changes \in 0 .. MaxChanges
    <3>1. changes = 0
      BY DEF Init
    <3>. QED
      BY <3>1, ContentsAssumption
  <2>2. watching \in BOOLEAN
    BY DEF Init
  <2>. QED
    BY <2>1, <2>2
<1>3. /\ queue \in Seq(FileEvent) /\ taken \in Seq(FileEvent)
      /\ outbox \in Seq(RowEvent) /\ result \in Seq(RowEvent)
      /\ buffer \in [Consumers -> Seq(RowEvent)]
  BY DEF Init
<1>4. /\ stream \in [Consumers -> {"new", "open", "left"}]
      /\ asking \subseteq Open
      /\ \A c \in Consumers : buffer[c] # <<>> => c \in Open
  BY DEF Init
<1>5. seen \in [Consumers -> [Units -> [Rows -> Int]]]
  BY DEF Init
<1>6. /\ poll = "none" /\ taken = <<>> /\ marked = {} /\ result = <<>>
      /\ ~Applying
  BY DEF Init, Applying
<1>. QED
  BY <1>1, <1>2, <1>3, <1>4, <1>5, <1>6 DEF TypeOK, Lock

LEMMA StepTypes == ASSUME TypeOK, Lock, [Next]_vars PROVE TypeOK' /\ Lock'
<1>. USE DEF files, polling, consuming
<1>1. ASSUME NEW u \in Units, Change(u) PROVE TypeOK' /\ Lock'
  <2>1. queue' \in Seq(FileEvent)
    <3>1. PICK now \in Contents[u] :
            queue' = IF watching THEN Append(queue, [unit |-> u, gone |-> now = <<>>]) ELSE queue
      BY <1>1 DEF Change
    <3>2. [unit |-> u, gone |-> now = <<>>] \in FileEvent
      BY Zenon DEF FileEvent
    <3>. QED
      BY <3>1, <3>2 DEF TypeOK
  <2>2. DOMAIN disk' = Units /\ \A v \in Units : disk'[v] \in Contents[v]
    BY <1>1 DEF Change, TypeOK
  <2>3. changes' \in 0 .. MaxChanges
    BY <1>1, ContentsAssumption DEF Change, TypeOK
  <2>. QED
    BY <1>1, <2>1, <2>2, <2>3 DEF Change, TypeOK, Lock, Open, Applying
<1>2. ASSUME NEW u \in Units, Query(u) PROVE TypeOK' /\ Lock'
  <2>1. disk[u] \in Held(u)
    BY DiskHeld
  <2>2. DOMAIN rows' = Units /\ \A v \in Units : rows'[v] \in Held(v)
    BY <1>2, <2>1, BecomeType DEF Query
  <2>3. outbox' \in Seq(RowEvent)
    <3>1. Telling(u, disk[u]) \in Seq(RowEvent)
      BY <2>1, TellingGains
    <3>. QED
      BY <1>2, <3>1 DEF Query, TypeOK
  <2>. QED
    BY <1>2, <2>2, <2>3 DEF Query, TypeOK, Lock, Open, Applying
<1>3. ASSUME PollTakes PROVE TypeOK' /\ Lock'
  BY <1>3 DEF PollTakes, TypeOK, Lock, Open, Applying
<1>4. ASSUME PollTimesOut PROVE TypeOK' /\ Lock'
  BY <1>4 DEF PollTimesOut, TypeOK, Lock, Open, Applying
<1>5. ASSUME PollBegins PROVE TypeOK' /\ Lock'
  BY <1>5 DEF PollBegins, TypeOK, Lock, Open, Applying
<1>6. ASSUME PollRoutes PROVE TypeOK' /\ Lock'
  <2> DEFINE event == Head(taken)
  <2>1. event \in FileEvent /\ event.unit \in Units /\ taken' \in Seq(FileEvent)
    <3>1. taken \in Seq(FileEvent) /\ taken # <<>> /\ taken' = Tail(taken)
      BY <1>6 DEF PollRoutes, TypeOK
    <3>2. event \in FileEvent /\ taken' \in Seq(FileEvent)
      BY <3>1
    <3>. QED
      BY <3>2 DEF FileEvent
  <2>2. /\ DOMAIN rows' = Units /\ \A v \in Units : rows'[v] \in Held(v)
        /\ result' \in Seq(RowEvent)
        /\ marked' \in SUBSET Units
    <3>1. CASE rows' = rows /\ result' = result /\ marked' \in SUBSET Units
      BY <3>1 DEF TypeOK
    <3>2. ASSUME NEW new \in Held(event.unit), Become(event.unit, new), marked' = marked
          PROVE  <2>2
      <4>1. Telling(event.unit, new) \in Seq(RowEvent)
        BY <2>1, TellingGains
      <4>2. result' \in Seq(RowEvent)
        BY <3>2, <4>1 DEF Become, TypeOK
      <4>3. DOMAIN rows' = Units /\ \A v \in Units : rows'[v] \in Held(v)
        BY <2>1, <3>2, BecomeType DEF Become
      <4>. QED
        BY <3>2, <4>2, <4>3 DEF TypeOK
    <3>3. CASE event.unit \in Tables /\ mark(event.unit)
      <4>1. rows' = rows /\ result' = result /\ marked' \in SUBSET Units
        BY <2>1, <3>3 DEF mark, TypeOK
      <4>. QED
        BY <3>1, <4>1
    <3>4. CASE event.unit \notin Tables /\ event.gone /\ handle_delete(event.unit)
      BY <2>1, <3>2, <3>4, DiskHeld DEF handle_delete
    <3>5. CASE event.unit \notin Tables /\ ~event.gone /\ handle_upsert(event.unit)
      <4>1. CASE disk[event.unit] = <<>>
        BY <3>1, <3>5, <4>1 DEF handle_upsert, TypeOK
      <4>2. CASE disk[event.unit] # <<>>
        BY <2>1, <3>2, <3>5, <4>2, DiskHeld DEF handle_upsert
      <4>. QED
        BY <4>1, <4>2
    <3>. QED
      BY <1>6, <3>3, <3>4, <3>5 DEF PollRoutes
  <2>. QED
    BY <1>6, <2>1, <2>2 DEF PollRoutes, TypeOK, Lock, Open, Applying
<1>7. ASSUME PollDrains PROVE TypeOK' /\ Lock'
  BY <1>7 DEF PollDrains, TypeOK, Lock, Open, Applying
<1>8. ASSUME NEW u \in Units, PollRefreshes(u) PROVE TypeOK' /\ Lock'
  <2>1. disk[u] \in Held(u)
    BY DiskHeld
  <2>2. DOMAIN rows' = Units /\ \A v \in Units : rows'[v] \in Held(v)
    BY <1>8, <2>1, BecomeType DEF PollRefreshes, Become
  <2>3. result' \in Seq(RowEvent)
    <3>1. Telling(u, disk[u]) \in Seq(RowEvent)
      BY <2>1, TellingGains
    <3>. QED
      BY <1>8, <3>1 DEF PollRefreshes, Become, TypeOK
  <2>. QED
    BY <1>8, <2>2, <2>3 DEF PollRefreshes, TypeOK, Lock, Open, Applying
<1>9. ASSUME PollCommits PROVE TypeOK' /\ Lock'
  BY <1>9 DEF PollCommits, TypeOK, Lock, Open, Applying
<1>10. ASSUME PollDelivers PROVE TypeOK' /\ Lock'
  <2>1. buffer' \in [Consumers -> Seq(RowEvent)]
    BY <1>10 DEF PollDelivers, TypeOK
  <2>2. \A c \in Consumers : buffer'[c] # <<>> => c \in Open'
    BY <1>10 DEF PollDelivers, TypeOK, Delivered, Open
  <2>. QED
    BY <1>10, <2>1, <2>2 DEF PollDelivers, TypeOK, Lock, Open, Applying
<1>11. ASSUME NEW c \in Consumers, Watch(c) PROVE TypeOK' /\ Lock'
  <2>1. seen' \in [Consumers -> [Units -> [Rows -> Int]]]
    BY <1>11, ToldType DEF Watch, TypeOK
  <2>2. Open' = Open \cup {c}
    BY <1>11 DEF Watch, TypeOK, Open
  <2>. QED
    BY <1>11, <2>1, <2>2 DEF Watch, TypeOK, Lock, Applying
<1>12. ASSUME NEW c \in Consumers, Await(c) PROVE TypeOK' /\ Lock'
  BY <1>12 DEF Await, TypeOK, Lock, Open, Applying
<1>13. ASSUME NEW c \in Consumers, Yield(c) PROVE TypeOK' /\ Lock'
  <2>1. buffer[c] \in Seq(RowEvent) /\ buffer[c] # <<>>
    BY <1>13 DEF Yield, TypeOK
  <2>2. Head(buffer[c]) \in RowEvent /\ Tail(buffer[c]) \in Seq(RowEvent)
    BY <2>1
  <2>3. seen' \in [Consumers -> [Units -> [Rows -> Int]]]
    BY <1>13, <2>2, HeardType DEF Yield, TypeOK
  <2>4. buffer' \in [Consumers -> Seq(RowEvent)]
    BY <1>13, <2>2 DEF Yield, TypeOK
  <2>. QED
    BY <1>13, <2>3, <2>4 DEF Yield, TypeOK, Lock, Open, Applying
<1>14. ASSUME NEW c \in Consumers, Cancel(c) PROVE TypeOK' /\ Lock'
  BY <1>14 DEF Cancel, TypeOK, Lock, Open, Applying
<1>15. ASSUME NEW c \in Consumers, Leave(c) PROVE TypeOK' /\ Lock'
  <2>1. Open' = Open \ {c}
    BY <1>15 DEF Leave, TypeOK, Open
  <2>2. buffer' \in [Consumers -> Seq(RowEvent)]
    BY <1>15 DEF Leave, TypeOK
  <2>3. \A d \in Consumers : buffer'[d] # <<>> => d \in Open'
    BY <1>15, <2>1 DEF Leave, TypeOK
  <2>4. asking' \subseteq Open'
    BY <1>15, <2>1 DEF Leave, TypeOK
  <2>5. stream' \in [Consumers -> {"new", "open", "left"}]
    BY <1>15 DEF Leave, TypeOK
  <2>. QED
    BY <1>15, <2>2, <2>3, <2>4, <2>5 DEF Leave, TypeOK, Lock, Applying
<1>16. CASE UNCHANGED vars
  BY <1>16 DEF vars, TypeOK, Lock, Open, Applying
<1>. QED
  BY <1>1, <1>2, <1>3, <1>4, <1>5, <1>6, <1>7, <1>8, <1>9, <1>10, <1>11, <1>12,
     <1>13, <1>14, <1>15, <1>16 DEF Next, PollStep, ConsumerStep

-----------------------------------------------------------------------------
(* What a step does to the events on their way.                            *)

\* A unit's rows become others, which is told at the end of what is pending.
Grows(u, new) ==
  /\ rows' = [rows EXCEPT ![u] = new]
  /\ Pending' = Pending \o Telling(u, new)
  /\ UNCHANGED <<stream, buffer, seen>>

\* Nothing that is told, or pending, moves.
Keeps == UNCHANGED <<rows, stream, buffer, seen>> /\ Pending' = Pending

LEMMA BecomeGrows ==
  ASSUME TypeOK, Lock, Applying, NEW u \in Units, NEW new \in Held(u),
         Become(u, new), UNCHANGED <<outbox, stream, buffer, seen>>
  PROVE  Grows(u, new)
<1>1. Telling(u, new) \in Seq(RowEvent) /\ result \in Seq(RowEvent) /\ outbox = <<>>
  BY TellingGains DEF TypeOK, Lock
<1>2. Pending = result /\ Pending' = result'
  <2>1. result' \in Seq(RowEvent)
    BY <1>1 DEF Become
  <2>. QED
    BY <1>1, <2>1, ConcatEmptySeq DEF Pending
<1>. QED
  BY <1>2 DEF Grows, Become

LEMMA StepShape ==
  ASSUME TypeOK, Lock, [Next]_vars
  PROVE  \/ \E u \in Units : \E new \in Held(u) : Grows(u, new)
         \/ PollDelivers
         \/ \E c \in Consumers : Watch(c) \/ Yield(c) \/ Leave(c)
         \/ Keeps
<1>. USE DEF files, polling, consuming
<1>1. ASSUME NEW u \in Units, Query(u) PROVE Grows(u, disk[u])
  <2>1. Telling(u, disk[u]) \in Seq(RowEvent)
    BY DiskHeld, TellingGains
  <2>2. result \o (outbox \o Telling(u, disk[u])) = (result \o outbox) \o Telling(u, disk[u])
    <3>1. PICK r \in Seq(RowEvent), o \in Seq(RowEvent), t \in Seq(RowEvent) :
            r = result /\ o = outbox /\ t = Telling(u, disk[u])
      BY <2>1 DEF TypeOK
    <3>2. r \o (o \o t) = (r \o o) \o t
      BY ConcatAssociative
    <3>. QED
      BY <3>1, <3>2
  <2>. QED
    BY <1>1, <2>2 DEF Query, Grows, Pending
<1>2. ASSUME PollBegins PROVE Keeps
  <2>1. result = <<>>
    BY <1>2 DEF PollBegins, TypeOK, Applying
  <2>2. <<>> \o outbox = outbox \o <<>>
    BY ConcatEmptySeq DEF TypeOK
  <2>. QED
    BY <1>2, <2>1, <2>2 DEF PollBegins, Keeps, Pending
<1>3. ASSUME PollRoutes PROVE Keeps \/ \E u \in Units : \E new \in Held(u) : Grows(u, new)
  <2> DEFINE event == Head(taken)
  <2>1. event \in FileEvent
    BY <1>3 DEF PollRoutes, TypeOK
  <2>2. event.unit \in Units /\ Applying /\ UNCHANGED <<outbox, stream, buffer, seen>>
    BY <1>3, <2>1 DEF FileEvent, Applying, PollRoutes
  <2>3. ASSUME UNCHANGED <<rows, result>> PROVE Keeps
    BY <2>2, <2>3 DEF Keeps, Pending
  <2>4. CASE mark(event.unit)
    BY <2>3, <2>4 DEF mark
  <2>5. CASE handle_delete(event.unit)
    BY <2>2, <2>5, DiskHeld, BecomeGrows DEF handle_delete
  <2>6. CASE handle_upsert(event.unit)
    <3>1. CASE disk[event.unit] = <<>>
      BY <2>3, <2>6, <3>1 DEF handle_upsert
    <3>2. CASE disk[event.unit] # <<>>
      BY <2>2, <2>6, <3>2, DiskHeld, BecomeGrows DEF handle_upsert
    <3>. QED
      BY <3>1, <3>2
  <2>. QED
    BY <1>3, <2>4, <2>5, <2>6 DEF PollRoutes
<1>4. ASSUME NEW u \in Units, PollRefreshes(u) PROVE Grows(u, disk[u])
  BY <1>4, DiskHeld, BecomeGrows DEF PollRefreshes
<1>5. ASSUME NEW c \in Consumers, Await(c) \/ Cancel(c) PROVE Keeps
  BY <1>5 DEF Await, Cancel, Keeps, Pending
<1>6. ASSUME NEW u \in Units, Change(u) PROVE Keeps
  BY <1>6 DEF Change, Keeps, Pending
<1>7. ASSUME PollTakes \/ PollTimesOut \/ PollDrains \/ PollCommits PROVE Keeps
  BY <1>7 DEF PollTakes, PollTimesOut, PollDrains, PollCommits, Keeps, Pending
<1>8. CASE UNCHANGED vars
  BY <1>8 DEF vars, Keeps, Pending
<1>. QED
  BY <1>1, <1>2, <1>3, <1>4, <1>5, <1>6, <1>7, <1>8, DiskHeld DEF Next, PollStep, ConsumerStep

-----------------------------------------------------------------------------
(* Every stream is told.                                                   *)

LEMMA GainParts ==
  ASSUME NEW u, NEW row, NEW b \in Seq(RowEvent), NEW p \in Seq(RowEvent), NEW t \in Seq(RowEvent)
  PROVE  /\ GainOf(u, b \o p, row) = GainOf(u, b, row) + GainOf(u, p, row)
         /\ GainOf(u, b \o (p \o t), row) = GainOf(u, b \o p, row) + GainOf(u, t, row)
         /\ GainOf(u, (b \o p) \o t, row) = GainOf(u, b \o (p \o t), row)
         /\ GainOf(u, b, row) \in Int /\ GainOf(u, p, row) \in Int /\ GainOf(u, t, row) \in Int
         /\ GainOf(u, b \o p, row) \in Int
<1>1. b \o p \in Seq(RowEvent)
  OBVIOUS
<1>2. (b \o p) \o t = b \o (p \o t)
  BY ConcatAssociative
<1>3. GainOf(u, (b \o p) \o t, row) = GainOf(u, b \o p, row) + GainOf(u, t, row)
  BY <1>1, GainConcat
<1>4. /\ GainOf(u, b, row) \in Int /\ GainOf(u, p, row) \in Int /\ GainOf(u, t, row) \in Int
      /\ GainOf(u, b \o p, row) \in Int
  BY <1>1, GainType
<1>. QED
  BY <1>2, <1>3, <1>4, GainConcat

LEMMA StepTells ==
  ASSUME TypeOK, Lock, EveryStreamIsTold, [Next]_vars PROVE EveryStreamIsTold'
<1>0. Pending \in Seq(RowEvent) /\ \A c \in Consumers : buffer[c] \in Seq(RowEvent)
  BY DEF TypeOK, Pending
<1>1. ASSUME NEW u \in Units, NEW new \in Held(u), Grows(u, new) PROVE EveryStreamIsTold'
  <2>1. SUFFICES ASSUME NEW c \in Open, NEW v \in Units, NEW row \in Rows
                 PROVE  seen[c][v][row] + GainOf(v, buffer[c] \o Pending', row)
                          = Count(rows'[v], row)
    BY <1>1 DEF EveryStreamIsTold, Grows, Open
  <2>2. seen[c][v][row] + GainOf(v, buffer[c] \o Pending, row) = Count(rows[v], row)
    BY DEF EveryStreamIsTold
  <2>3. c \in Consumers
    BY DEF Open
  <2>4. Telling(u, new) \in Seq(RowEvent)
    BY TellingGains
  <2>5. /\ GainOf(v, buffer[c] \o Pending', row)
             = GainOf(v, buffer[c] \o Pending, row) + GainOf(v, Telling(u, new), row)
        /\ GainOf(v, buffer[c] \o Pending, row) \in Int
        /\ GainOf(v, Telling(u, new), row) \in Int
    <3>1. PICK b \in Seq(RowEvent), p \in Seq(RowEvent), t \in Seq(RowEvent) :
            b = buffer[c] /\ p = Pending /\ t = Telling(u, new)
      BY <1>0, <2>3, <2>4
    <3>2. /\ GainOf(v, b \o (p \o t), row) = GainOf(v, b \o p, row) + GainOf(v, t, row)
          /\ GainOf(v, t, row) \in Int /\ GainOf(v, b \o p, row) \in Int
      BY GainParts
    <3>3. Pending' = p \o t
      BY <1>1, <3>1 DEF Grows
    <3>. QED
      BY <3>1, <3>2, <3>3
  <2>6. seen[c][v][row] \in Int /\ Count(rows[v], row) \in Nat
    BY <2>3, CountType DEF TypeOK
  <2>7. CASE v = u
    <3>1. Count(rows[u], row) + GainOf(u, Telling(u, new), row) = Count(new, row)
      BY TellingGains
    <3>2. rows'[u] = new
      BY <1>1 DEF Grows, TypeOK
    <3>. QED
      BY <2>2, <2>5, <2>6, <2>7, <3>1, <3>2
  <2>8. CASE v # u
    <3>1. GainOf(v, Telling(u, new), row) = 0
      BY <2>8, TellingGains
    <3>2. rows'[v] = rows[v]
      BY <1>1, <2>8 DEF Grows, TypeOK
    <3>. QED
      BY <2>2, <2>5, <2>6, <3>1, <3>2
  <2>. QED
    BY <2>7, <2>8
<1>2. ASSUME PollDelivers PROVE EveryStreamIsTold'
  <2>1. SUFFICES ASSUME NEW c \in Open, NEW u \in Units, NEW row \in Rows
                 PROVE  GainOf(u, buffer'[c] \o Pending', row) = GainOf(u, buffer[c] \o Pending, row)
    BY <1>2 DEF EveryStreamIsTold, PollDelivers, Open
  <2>2. c \in Consumers /\ buffer'[c] = buffer[c] \o result
    BY <1>2 DEF PollDelivers, Delivered, Open
  <2>3. Pending' = outbox
    BY <1>2, ConcatEmptySeq DEF PollDelivers, Pending, TypeOK
  <2>4. (buffer[c] \o result) \o outbox = buffer[c] \o (result \o outbox)
    <3>1. buffer[c] \in Seq(RowEvent) /\ result \in Seq(RowEvent) /\ outbox \in Seq(RowEvent)
      BY <1>0, <2>2 DEF TypeOK
    <3>. QED
      BY <3>1, Regroup
  <2>. QED
    BY <2>2, <2>3, <2>4 DEF Pending
<1>3. ASSUME NEW c \in Consumers, Watch(c) PROVE EveryStreamIsTold'
  <2>1. Pending' = Pending /\ rows' = rows /\ buffer' = buffer /\ Open' = Open \cup {c}
    BY <1>3 DEF Watch, polling, Pending, Open, TypeOK
  <2>2. \A d \in Consumers \ {c} : seen'[d] = seen[d]
    BY <1>3 DEF Watch, TypeOK
  <2>3. seen'[c] = Told
    BY <1>3 DEF Watch, TypeOK
  <2>4. ASSUME NEW d \in Open \ {c}, NEW u \in Units, NEW row \in Rows
        PROVE  seen'[d][u][row] + GainOf(u, buffer'[d] \o Pending', row) = Count(rows'[u], row)
    BY <2>1, <2>2 DEF EveryStreamIsTold, Open
  <2>5. ASSUME NEW u \in Units, NEW row \in Rows
        PROVE  seen'[c][u][row] + GainOf(u, buffer'[c] \o Pending', row) = Count(rows'[u], row)
    <3>1. buffer'[c] = <<>>
      BY <1>3, <2>1 DEF Watch, TypeOK, Open
    <3>2. buffer'[c] \o Pending' = Pending
      BY <1>0, <2>1, <3>1, ConcatEmptySeq
    <3>3. seen'[c][u][row] = Count(rows[u], row) - GainOf(u, Pending, row)
      BY <2>3 DEF Told
    <3>4. Count(rows[u], row) \in Nat /\ GainOf(u, Pending, row) \in Int
      BY <1>0, CountType, GainType
    <3>. QED
      BY <2>1, <3>2, <3>3, <3>4
  <2>. QED
    BY <2>1, <2>4, <2>5 DEF EveryStreamIsTold
<1>4. ASSUME NEW c \in Consumers, Yield(c) PROVE EveryStreamIsTold'
  <2>1. Pending' = Pending /\ rows' = rows /\ Open' = Open
    BY <1>4 DEF Yield, polling, Pending, Open
  <2>2. /\ \A d \in Consumers \ {c} : seen'[d] = seen[d] /\ buffer'[d] = buffer[d]
        /\ seen'[c] = Heard(c, Head(buffer[c])) /\ buffer'[c] = Tail(buffer[c])
    BY <1>4 DEF Yield, TypeOK
  <2>3. ASSUME NEW d \in Open \ {c}, NEW u \in Units, NEW row \in Rows
        PROVE  seen'[d][u][row] + GainOf(u, buffer'[d] \o Pending', row) = Count(rows'[u], row)
    BY <2>1, <2>2 DEF EveryStreamIsTold, Open
  <2>4. ASSUME NEW u \in Units, NEW row \in Rows
        PROVE  seen'[c][u][row] + GainOf(u, buffer'[c] \o Pending', row) = Count(rows'[u], row)
    <3>1. /\ buffer[c] # <<>> /\ Head(buffer[c]) \in RowEvent /\ Tail(buffer[c]) \in Seq(RowEvent)
          /\ buffer[c] = <<Head(buffer[c])>> \o Tail(buffer[c])
          /\ <<Head(buffer[c])>> \in Seq(RowEvent)
      BY <1>0, <1>4 DEF Yield
    <3>2. seen[c][u][row] + GainOf(u, buffer[c] \o Pending, row) = Count(rows[u], row)
      BY <1>4 DEF EveryStreamIsTold, Yield
    <3>3. seen'[c][u][row] = seen[c][u][row] + GainOf(u, <<Head(buffer[c])>>, row)
      BY <2>2 DEF Heard
    <3>4. GainOf(u, buffer[c], row)
            = GainOf(u, <<Head(buffer[c])>>, row) + GainOf(u, Tail(buffer[c]), row)
      BY <3>1, GainConcat
    <3>5. /\ GainOf(u, buffer[c] \o Pending, row) = GainOf(u, buffer[c], row) + GainOf(u, Pending, row)
          /\ GainOf(u, Tail(buffer[c]) \o Pending, row)
               = GainOf(u, Tail(buffer[c]), row) + GainOf(u, Pending, row)
      BY <1>0, <3>1, GainConcat
    <3>6. /\ GainOf(u, <<Head(buffer[c])>>, row) \in Int
          /\ GainOf(u, Tail(buffer[c]), row) \in Int
          /\ GainOf(u, Pending, row) \in Int
      BY <1>0, <3>1, GainType
    <3>7. seen[c][u][row] \in Int
      BY DEF TypeOK
    <3>. QED
      BY <2>1, <2>2, <3>2, <3>3, <3>4, <3>5, <3>6, <3>7
  <2>. QED
    BY <2>1, <2>3, <2>4 DEF EveryStreamIsTold
<1>5. ASSUME NEW c \in Consumers, Leave(c) PROVE EveryStreamIsTold'
  <2>1. Pending' = Pending /\ rows' = rows /\ seen' = seen /\ Open' = Open \ {c}
    BY <1>5 DEF Leave, polling, Pending, Open, TypeOK
  <2>2. \A d \in Consumers \ {c} : buffer'[d] = buffer[d]
    BY <1>5 DEF Leave, TypeOK
  <2>. QED
    BY <2>1, <2>2 DEF EveryStreamIsTold, Open
<1>6. CASE Keeps
  BY <1>6 DEF Keeps, EveryStreamIsTold, Open
<1>. QED
  BY <1>1, <1>2, <1>3, <1>4, <1>5, <1>6, StepShape

\* The types hold, nothing gets into the outbox past a batch, and every stream
\* is told: all of it is kept by every step.
THEOREM Invariance == Spec => [](TypeOK /\ Lock /\ EveryStreamIsTold)
<1>1. ASSUME Init PROVE EveryStreamIsTold
  <2>1. Open = {}
    BY <1>1 DEF Init, Open
  <2>. QED
    BY <2>1 DEF EveryStreamIsTold
<1>2. Init => TypeOK /\ Lock /\ EveryStreamIsTold
  BY <1>1, InitTypes
<1>3. TypeOK /\ Lock /\ EveryStreamIsTold /\ [Next]_vars
        => (TypeOK /\ Lock /\ EveryStreamIsTold)'
  BY StepTypes, StepTells
<1>. QED
  BY <1>2, <1>3, PTL DEF Spec

\* The state of the streams, the poll and the index is always well-typed.
THEOREM TypeCorrect == Spec => []TypeOK
BY Invariance, PTL

\* What a consumer has heard, with what it has yet to hear, is what the index
\* holds (_WatchStream, watch(), poll_once): for any number of streams.
THEOREM EveryStreamIsToldHolds == Spec => []EveryStreamIsTold
BY Invariance, PTL

-----------------------------------------------------------------------------
(* The promise of Broadcast.                                               *)

\* What Broadcast's unheard is here.
Hears(c) == IF c \in Open THEN buffer[c] \o Pending ELSE <<>>

LEMMA StepKeepsPromise ==
  ASSUME TypeOK, Lock, [Next]_vars PROVE [Promise!Next]_(Promise!vars)
<1> DEFINE hears == [c \in Consumers |-> Hears(c)]
<1>0. /\ Pending \in Seq(RowEvent) /\ stream \in [Consumers -> {"new", "open", "left"}]
      /\ \A c \in Consumers : buffer[c] \in Seq(RowEvent)
  BY DEF TypeOK, Pending
<1>1. ASSUME NEW u \in Units, NEW new \in Held(u), Grows(u, new) PROVE Promise!Happen
  <2>1. Telling(u, new) \in Seq(RowEvent) /\ Pending' = Pending \o Telling(u, new)
    BY <1>1, TellingGains DEF Grows
  <2>2. /\ Pending' \in Seq(RowEvent)
        /\ Len(Pending) <= Len(Pending')
        /\ SubSeq(Pending', 1, Len(Pending)) = Pending
        /\ SubSeq(Pending', Len(Pending) + 1, Len(Pending')) = Telling(u, new)
    BY <1>0, <2>1, Split
  <2>3. UNCHANGED <<stream, buffer>> /\ Open' = Open
    BY <1>1 DEF Grows, Open
  <2>4. ASSUME NEW c \in Consumers
        PROVE  Hears(c)' = IF stream[c] = "open" THEN Hears(c) \o Telling(u, new) ELSE Hears(c)
    <3>1. buffer[c] \o (Pending \o Telling(u, new)) = (buffer[c] \o Pending) \o Telling(u, new)
      <4>1. buffer[c] \in Seq(RowEvent)
        BY <1>0
      <4>. QED
        BY <1>0, <2>1, <4>1, Regroup
    <3>. QED
      BY <2>1, <2>3, <3>1 DEF Hears, Open
  <2>. QED
    BY <2>2, <2>3, <2>4 DEF Promise!Happen, Promise!After, Hears
<1>2. ASSUME PollDelivers PROVE [Promise!Next]_(Promise!vars)
  <2>1. /\ Pending' = outbox /\ Open' = Open /\ stream' = stream
        /\ result \in Seq(RowEvent) /\ outbox \in Seq(RowEvent)
    BY <1>2, ConcatEmptySeq DEF PollDelivers, Pending, Open, TypeOK
  <2>2. ASSUME NEW c \in Consumers PROVE Hears(c)' = Hears(c)
    <3>1. CASE c \in Open
      <4>1. buffer'[c] = buffer[c] \o result
        BY <1>2, <3>1 DEF PollDelivers, Delivered
      <4>2. (buffer[c] \o result) \o outbox = buffer[c] \o (result \o outbox)
        <5>1. buffer[c] \in Seq(RowEvent)
          BY <1>0
        <5>. QED
          BY <2>1, <5>1, Regroup
      <4>. QED
        BY <2>1, <3>1, <4>1, <4>2 DEF Hears, Pending
    <3>2. CASE c \notin Open
      BY <2>1, <3>2 DEF Hears
    <3>. QED
      BY <3>1, <3>2
  <2>3. CASE result = <<>>
    <3>1. Pending' = Pending
      BY <2>1, <2>3, ConcatEmptySeq DEF Pending
    <3>. QED
      BY <2>1, <2>2, <3>1 DEF Promise!vars, Hears
  <2>4. CASE result # <<>>
    <3>1. Len(result) \in 1 .. Len(Pending)
      BY <2>1, <2>4 DEF Pending
    <3>2. Pending' = SubSeq(Pending, Len(result) + 1, Len(Pending))
      BY <2>1, Split DEF Pending
    <3>. QED
      BY <2>1, <2>2, <3>1, <3>2 DEF Promise!Next, Promise!Age, Promise!After, Hears
  <2>. QED
    BY <2>3, <2>4
<1>3. ASSUME NEW c \in Consumers, Watch(c) PROVE Promise!Join(c)
  <2>1. /\ Pending' = Pending /\ buffer' = buffer /\ Open' = Open \cup {c} /\ c \notin Open
        /\ stream[c] = "new" /\ stream' = [stream EXCEPT ![c] = "open"]
    BY <1>0, <1>3 DEF Watch, polling, Pending, Open
  <2>2. buffer[c] \o Pending = Pending
    <3>1. buffer[c] = <<>>
      BY <2>1 DEF TypeOK
    <3>. QED
      BY <1>0, <3>1, ConcatEmptySeq
  <2>3. Hears(c)' = Pending /\ \A d \in Consumers \ {c} : Hears(d)' = Hears(d)
    BY <2>1, <2>2 DEF Hears
  <2>. QED
    BY <2>1, <2>3 DEF Promise!Join, Hears
<1>4. ASSUME NEW c \in Consumers, Yield(c) PROVE Promise!Tell(c)
  <2>1. /\ Pending' = Pending /\ Open' = Open /\ stream' = stream /\ c \in Open
        /\ buffer[c] # <<>> /\ buffer'[c] = Tail(buffer[c])
        /\ \A d \in Consumers \ {c} : buffer'[d] = buffer[d]
    BY <1>4 DEF Yield, polling, Pending, Open, TypeOK
  <2>2. buffer[c] \o Pending # <<>> /\ Tail(buffer[c] \o Pending) = Tail(buffer[c]) \o Pending
    <3>1. buffer[c] \in Seq(RowEvent) /\ buffer[c] # <<>>
      BY <1>0, <2>1
    <3>. QED
      BY <1>0, <3>1, TailConcat
  <2>3. Hears(c) # <<>> /\ Hears(c)' = Tail(Hears(c))
    BY <2>1, <2>2 DEF Hears
  <2>4. \A d \in Consumers \ {c} : Hears(d)' = Hears(d)
    BY <2>1 DEF Hears
  <2>. QED
    BY <2>1, <2>3, <2>4 DEF Promise!Tell, Hears
<1>5. ASSUME NEW c \in Consumers, Leave(c) PROVE Promise!Part(c)
  <2>1. /\ Pending' = Pending /\ Open' = Open \ {c} /\ c \in Open
        /\ stream' = [stream EXCEPT ![c] = "left"]
        /\ \A d \in Consumers \ {c} : buffer'[d] = buffer[d]
    BY <1>0, <1>5 DEF Leave, polling, Pending, Open, TypeOK
  <2>2. Hears(c)' = <<>> /\ \A d \in Consumers \ {c} : Hears(d)' = Hears(d)
    BY <2>1 DEF Hears
  <2>. QED
    BY <2>1, <2>2 DEF Promise!Part, Hears, Open
<1>6. CASE Keeps
  BY <1>6 DEF Keeps, Promise!vars, Open
<1>. QED
  BY <1>1, <1>2, <1>3, <1>4, <1>5, <1>6, StepShape DEF Promise!Next

\* No event is lost, repeated or told out of turn on its way through the
\* outbox, the shared poll and the buffers: the streams implement Broadcast.
THEOREM BroadcastsHolds == Spec => Broadcasts
<1>1. Init => Promise!Init
  <2>1. ASSUME Init PROVE Promise!Init
    <3>1. Open = {} /\ Pending = <<>>
      BY <2>1 DEF Init, Open, Pending
    <3>. QED
      BY <2>1, <3>1 DEF Init, Promise!Init
  <2>. QED
    BY <2>1
<1>2. TypeOK /\ Lock /\ [Next]_vars => [Promise!Next]_(Promise!vars)
  BY StepKeepsPromise
<1>. QED
  BY <1>1, <1>2, Invariance, PTL DEF Spec, Broadcasts, Promise!Spec

-----------------------------------------------------------------------------
(* Rows on the way.                                                        *)

\* A unit's rows become others by events that never hold more rows than are
\* there before or after, and of which none repeats a row.
LEMMA StepNeverOverfull ==
  ASSUME TypeOK, TypeOK', NEW u \in Units
  PROVE  LET events == Diff[u][rows[u]][rows'[u]]
             peak   == IF Len(rows'[u]) > Len(rows[u]) THEN Len(rows'[u]) ELSE Len(rows[u])
         IN  \A n \in DOMAIN events :
               /\ events[n].old # events[n].new
               /\ Len(rows[u]) + Growth(First(n, events)) <= peak
<1>1. rows[u] \in Held(u) /\ rows'[u] \in Held(u)
  BY DEF TypeOK
<1>2. PICK old \in Held(u), new \in Held(u) : old = rows[u] /\ new = rows'[u]
  BY <1>1
<1>3. PICK events : events = Diff[u][old][new]
  OBVIOUS
<1>4. PICK before \in Nat, after \in Nat : before = Len(old) /\ after = Len(new)
  BY DiffAddsUp
<1>5. ASSUME NEW n \in DOMAIN events
      PROVE  /\ events[n].old # events[n].new
             /\ before + Growth(First(n, events)) <= IF after > before THEN after ELSE before
  <2>1. /\ events[n].old # events[n].new
        /\ Growth(First(n, events)) \in Int
        /\ \/ before + Growth(First(n, events)) <= before
           \/ before + Growth(First(n, events)) <= after
    BY <1>3, <1>4, DiffAddsUp
  <2>2. PICK grown \in Int : grown = Growth(First(n, events))
    BY <2>1
  <2>3. before + grown <= before \/ before + grown <= after
    BY <2>1, <2>2
  <2>4. before + grown <= IF after > before THEN after ELSE before
    BY <2>3
  <2>. QED
    BY <2>1, <2>2, <2>4
<1>. QED
  BY <1>2, <1>3, <1>4, <1>5

\* A consumer that replays the events of a change holds no more rows on the
\* way than the table does before or after it (differ.rs), whichever of the
\* three ways the rows are told apart.
THEOREM NeverOverfullHolds == Spec => NeverOverfull
<1>1. TypeOK /\ TypeOK' /\ [Next]_vars =>
        [\A u \in Units : rows'[u] # rows[u] =>
           LET events == Diff[u][rows[u]][rows'[u]]
               peak   == IF Len(rows'[u]) > Len(rows[u]) THEN Len(rows'[u]) ELSE Len(rows[u])
           IN  \A n \in DOMAIN events :
                 /\ events[n].old # events[n].new
                 /\ Len(rows[u]) + Growth(First(n, events)) <= peak]_vars
  BY StepNeverOverfull
<1>. QED
  BY <1>1, TypeCorrect, PTL DEF Spec, NeverOverfull

=============================================================================
