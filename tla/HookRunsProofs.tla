--------------------------- MODULE HookRunsProofs ---------------------------
(***************************************************************************)
(* HookRuns, proved for any number of tables, runs and CPUs.               *)
(***************************************************************************)
EXTENDS HookRuns, SequenceTheorems, FiniteSetTheorems, WellFoundedInduction, TLAPS

-----------------------------------------------------------------------------
(* Induction.  A set of naturals has a least member: a property of every   *)
(* natural is proved of the least at which it fails.                       *)

LEMMA Least ==
  ASSUME NEW T, T \subseteq Nat, T # {}
  PROVE  \E x \in T : \A y \in T : x <= y
<1> DEFINE R == OpToRel(<, Nat)
<1>1. IsWellFoundedOn(R, Nat)
  BY NatLessThanWellFounded
<1>3. \A x, y \in Nat : y < x => <<y, x>> \in R
  BY DEF R, OpToRel
<1>h. HIDE DEF R
<1>2. PICK x \in T : \A y \in T : ~ (<<y, x>> \in R)
  BY <1>1, WFMin
<1>4. ASSUME NEW y \in T PROVE x <= y
  <2>1. x \in Nat /\ y \in Nat /\ ~(y < x)
    BY <1>2, <1>3
  <2>. QED
    BY <2>1
<1>. QED
  BY <1>4

Flat(f, s) == f = [i \in 1 .. Len(s) |-> IF i = 1 THEN s[i] ELSE f[i - 1] \o s[i]]

LEMMA FlatDef ==
  ASSUME NEW s PROVE FlattenSeq(s) = IF Len(s) = 0 THEN s ELSE (CHOOSE f : Flat(f, s))[Len(s)]
  BY DEF FlattenSeq, Flat

LEMMA FlatAt ==
  ASSUME NEW f, NEW s, Flat(f, s), NEW i \in 1 .. Len(s)
  PROVE  f[i] = IF i = 1 THEN s[i] ELSE f[i - 1] \o s[i]
<1> DEFINE e(j) == IF j = 1 THEN s[j] ELSE f[j - 1] \o s[j]
<1>1. f = [j \in 1 .. Len(s) |-> e(j)]
  BY DEF Flat
<1>2. SUFFICES f[i] = e(i)
  OBVIOUS
<1>. HIDE DEF e
<1>. QED
  BY <1>1

LEMMA FlatExists ==
  ASSUME NEW S, NEW s \in Seq(Seq(S))
  PROVE  \E f : Flat(f, s) /\ \A i \in 1 .. Len(s) : f[i] \in Seq(S)
<1> DEFINE Has(t) == \E f : Flat(f, t) /\ \A i \in 1 .. Len(t) : f[i] \in Seq(S)
           T == {n \in Nat : \E t \in Seq(Seq(S)) : Len(t) = n /\ ~Has(t)}
<1>1. SUFFICES ASSUME T # {} PROVE FALSE
  OBVIOUS
<1>2. PICK n \in T : \A m \in T : n <= m
  <2>1. T \subseteq Nat
    OBVIOUS
  <2>. HIDE DEF T
  <2>. QED
    BY <1>1, <2>1, Least
<1>3. PICK t \in Seq(Seq(S)) : Len(t) = n /\ ~Has(t)
  BY <1>2
<1>4. n # 0
  <2>1. SUFFICES ASSUME n = 0 PROVE Has(t)
    BY <1>3
  <2>2. Flat(<<>>, t)
    BY <1>3, <2>1 DEF Flat
  <2>. QED
    BY <1>3, <2>1, <2>2
<1> DEFINE u == SubSeq(t, 1, n - 1)
<1>5. u \in Seq(Seq(S)) /\ Len(u) = n - 1 /\ \A i \in 1 .. n - 1 : u[i] = t[i]
  BY <1>3, <1>4
<1>6. n - 1 \in Nat /\ n - 1 \notin T
  BY <1>2, <1>4
<1>7. Has(u)
  <2>. HIDE DEF u, Has
  <2>. QED
    BY <1>5, <1>6
<1>. HIDE DEF u
<1>8. PICK g : Flat(g, u) /\ \A i \in 1 .. n - 1 : g[i] \in Seq(S)
  BY <1>5, <1>7
<1> DEFINE f == [i \in 1 .. n |-> IF i < n THEN g[i] ELSE IF n = 1 THEN t[1] ELSE g[n - 1] \o t[n]]
<1>9. \A i \in 1 .. n : f[i] \in Seq(S)
  <2>1. \A i \in 1 .. n : t[i] \in Seq(S)
    BY <1>3
  <2>2. n # 1 => g[n - 1] \o t[n] \in Seq(S)
    BY <1>8, <2>1, <1>4
  <2>. QED
    BY <2>1, <2>2, <1>8, <1>4
<1>10. \A i \in 1 .. n : f[i] = IF i = 1 THEN t[i] ELSE f[i - 1] \o t[i]
  <2> SUFFICES ASSUME NEW i \in 1 .. n PROVE f[i] = IF i = 1 THEN t[i] ELSE f[i - 1] \o t[i]
    OBVIOUS
  <2>1. CASE i = n
    BY <2>1, <1>4
  <2>2. CASE i < n
    <3>1. g[i] = IF i = 1 THEN u[i] ELSE g[i - 1] \o u[i]
      <4>1. i \in 1 .. Len(u)
        BY <1>4, <1>5, <2>2
      <4>. QED
        BY <1>8, <4>1, FlatAt, SMTT(30)
    <3>. QED
      BY <1>5, <2>2, <3>1
  <2>. QED
    BY <2>1, <2>2
<1>11. Flat(f, t)
  BY <1>3, <1>10 DEF Flat
<1>. QED
  BY <1>3, <1>9, <1>11

LEMMA FlatAgree ==
  ASSUME NEW s, NEW t, NEW f, NEW g, Len(s) \in Nat, Len(t) \in Nat, Len(s) <= Len(t),
         Flat(f, s), Flat(g, t),
         \A i \in 1 .. Len(s) : s[i] = t[i]
  PROVE  \A i \in 1 .. Len(s) : f[i] = g[i]
<1> DEFINE T == {i \in 1 .. Len(s) : f[i] # g[i]}
<1>1. SUFFICES ASSUME T # {} PROVE FALSE
  OBVIOUS
<1>2. PICK n \in T : \A i \in T : n <= i
  <2>1. T \subseteq Nat
    OBVIOUS
  <2>. HIDE DEF T
  <2>. QED
    BY <1>1, <2>1, Least
<1>3. /\ f[n] = IF n = 1 THEN s[n] ELSE f[n - 1] \o s[n]
      /\ g[n] = IF n = 1 THEN t[n] ELSE g[n - 1] \o t[n]
  <2>1. n \in 1 .. Len(s) /\ n \in 1 .. Len(t)
    BY <1>2
  <2>. QED
    BY <2>1, FlatAt
<1>4. n # 1 => f[n - 1] = g[n - 1]
  BY <1>2
<1>. QED
  BY <1>2, <1>3, <1>4

LEMMA FlattenIs ==
  ASSUME NEW S, NEW s \in Seq(Seq(S))
  PROVE  \E f : /\ Flat(f, s) /\ \A i \in 1 .. Len(s) : f[i] \in Seq(S)
                /\ FlattenSeq(s) = IF Len(s) = 0 THEN <<>> ELSE f[Len(s)]
<1> DEFINE g == CHOOSE h : Flat(h, s)
<1>1. PICK h : Flat(h, s) /\ \A i \in 1 .. Len(s) : h[i] \in Seq(S)
  BY FlatExists
<1>2. Flat(g, s)
  BY <1>1
<1>3. FlattenSeq(s) = IF Len(s) = 0 THEN s ELSE g[Len(s)]
  BY FlatDef
<1>. HIDE DEF g
<1>4. PICK f : f = g
  OBVIOUS
<1>5. \A i \in 1 .. Len(s) : f[i] = h[i]
  BY <1>1, <1>2, <1>4, FlatAgree
<1>6. Len(s) = 0 => s = <<>>
  OBVIOUS
<1>. QED
  BY <1>1, <1>2, <1>3, <1>4, <1>5, <1>6

LEMMA FlattenAppend ==
  ASSUME NEW S, NEW s \in Seq(Seq(S)), NEW x \in Seq(S)
  PROVE  /\ FlattenSeq(s) \in Seq(S)
         /\ FlattenSeq(Append(s, x)) = FlattenSeq(s) \o x
<1>t. PICK t : t = Append(s, x)
  OBVIOUS
<1>1. t \in Seq(Seq(S)) /\ Len(t) = Len(s) + 1 /\ Len(s) \in Nat
      /\ (\A i \in 1 .. Len(s) : s[i] = t[i]) /\ t[Len(t)] = x
  BY <1>t
<1>2. PICK f : /\ Flat(f, s) /\ \A i \in 1 .. Len(s) : f[i] \in Seq(S)
               /\ FlattenSeq(s) = IF Len(s) = 0 THEN <<>> ELSE f[Len(s)]
  BY FlattenIs
<1>3. PICK g : /\ Flat(g, t) /\ \A i \in 1 .. Len(t) : g[i] \in Seq(S)
               /\ FlattenSeq(t) = IF Len(t) = 0 THEN <<>> ELSE g[Len(t)]
  BY <1>1, FlattenIs
<1>4. \A i \in 1 .. Len(s) : f[i] = g[i]
  <2>1. Len(s) \in Nat /\ Len(t) \in Nat /\ Len(s) <= Len(t) /\ \A i \in 1 .. Len(s) : s[i] = t[i]
    BY <1>1
  <2>2. Flat(f, s) /\ Flat(g, t)
    BY <1>2, <1>3
  <2>. QED
    BY <2>1, <2>2, FlatAgree
<1>5. FlattenSeq(t) = IF Len(s) = 0 THEN x ELSE g[Len(s)] \o x
  <2>1. Len(t) # 0 /\ Len(t) \in 1 .. Len(t) /\ (Len(t) = 1 <=> Len(s) = 0) /\ Len(t) - 1 = Len(s)
    BY <1>1
  <2>. QED
    BY <1>1, <1>3, <2>1, FlatAt
<1>6. CASE Len(s) = 0
  BY <1>2, <1>5, <1>6, <1>t, EmptySeq, ConcatEmptySeq
<1>7. CASE Len(s) # 0
  <2>1. Len(s) \in 1 .. Len(s)
    BY <1>1, <1>7
  <2>2. FlattenSeq(s) \in Seq(S) /\ g[Len(s)] = FlattenSeq(s)
    BY <1>2, <1>4, <1>7, <2>1
  <2>3. FlattenSeq(t) = FlattenSeq(s) \o x
    BY <1>5, <1>7, <2>2
  <2>. QED
    BY <1>t, <2>2, <2>3
<1>. QED
  BY <1>6, <1>7

-----------------------------------------------------------------------------
(* Sequences of lines. *)

LEMMA Regroup ==
  \A s, t, u \in Seq(Line) : (s \o t) \o u = s \o (t \o u) /\ s \o t \in Seq(Line)
  BY ConcatAssociative

LEMMA InToSet ==
  ASSUME NEW S, NEW s \in Seq(S), NEW i \in 1 .. Len(s) PROVE s[i] \in ToSet(s)
  BY DEF ToSet

LEMMA ToSetFacts ==
  ASSUME NEW S, NEW s \in Seq(S), NEW t \in Seq(S)
  PROVE  /\ ToSet(s) \subseteq S
         /\ ToSet(<<>>) = {}
         /\ ToSet(s \o t) = ToSet(s) \cup ToSet(t)
         /\ s # <<>> => ToSet(s) = {Head(s)} \cup ToSet(Tail(s))
<1>1. ToSet(s) \subseteq S /\ ToSet(<<>>) = {}
  BY DEF ToSet
<1>2. ToSet(s \o t) = ToSet(s) \cup ToSet(t)
  <2>1. s \o t \in Seq(S) /\ Len(s \o t) = Len(s) + Len(t)
        /\ \A i \in 1 .. Len(s) + Len(t) : (s \o t)[i] = IF i <= Len(s) THEN s[i] ELSE t[i - Len(s)]
    BY ConcatProperties
  <2>2. ASSUME NEW x \in ToSet(s \o t) PROVE x \in ToSet(s) \cup ToSet(t)
    BY <2>1 DEF ToSet
  <2>3. ASSUME NEW x \in ToSet(s) PROVE x \in ToSet(s \o t)
    <3>1. PICK i \in 1 .. Len(s) : x = s[i]
      BY DEF ToSet
    <3>. QED
      BY <2>1, <3>1 DEF ToSet
  <2>4. ASSUME NEW x \in ToSet(t) PROVE x \in ToSet(s \o t)
    <3>1. PICK i \in 1 .. Len(t) : x = t[i]
      BY DEF ToSet
    <3>2. i + Len(s) \in 1 .. Len(s) + Len(t) /\ (s \o t)[i + Len(s)] = t[i]
      BY <2>1, <3>1
    <3>. QED
      BY <2>1, <3>1, <3>2 DEF ToSet
  <2>. QED
    BY <2>2, <2>3, <2>4
<1>3. ASSUME s # <<>> PROVE ToSet(s) = {Head(s)} \cup ToSet(Tail(s))
  <2>1. /\ Len(s) \in Nat \ {0} /\ Head(s) = s[1]
        /\ Tail(s) \in Seq(S) /\ Len(Tail(s)) = Len(s) - 1
        /\ \A i \in 1 .. Len(s) - 1 : Tail(s)[i] = s[i + 1]
    BY <1>3
  <2>2. ASSUME NEW x \in ToSet(s) PROVE x \in {Head(s)} \cup ToSet(Tail(s))
    <3>1. PICK i \in 1 .. Len(s) : x = s[i]
      BY DEF ToSet
    <3>2. CASE i = 1
      BY <2>1, <3>1, <3>2
    <3>3. CASE i # 1
      <4>1. i - 1 \in 1 .. Len(s) - 1 /\ Tail(s)[i - 1] = s[i]
        BY <2>1, <3>3
      <4>. QED
        BY <2>1, <3>1, <4>1, InToSet
    <3>. QED
      BY <3>2, <3>3
  <2>3. Head(s) \in ToSet(s)
    BY <2>1 DEF ToSet
  <2>4. ASSUME NEW x \in ToSet(Tail(s)) PROVE x \in ToSet(s)
    <3>1. PICK i \in 1 .. Len(s) - 1 : x = Tail(s)[i]
      BY <2>1 DEF ToSet
    <3>2. i + 1 \in 1 .. Len(s)
      BY <2>1
    <3>. QED
      BY <2>1, <3>1, <3>2 DEF ToSet
  <2>. QED
    BY <2>2, <2>3, <2>4
<1>. QED
  BY <1>1, <1>2, <1>3

LEMMA PrefixIs ==
  ASSUME NEW S, NEW s \in Seq(S), NEW t \in Seq(S)
  PROVE  IsPrefix(s, t) <=> Len(s) <= Len(t) /\ \A i \in 1 .. Len(s) : s[i] = t[i]
<1>1. ASSUME Len(s) <= Len(t)
      PROVE  SubSeq(s, 1, Len(s)) = SubSeq(t, 1, Len(s)) <=> \A i \in 1 .. Len(s) : s[i] = t[i]
  <2>1. SubSeq(s, 1, Len(s)) = s
    OBVIOUS
  <2>2. /\ SubSeq(t, 1, Len(s)) \in Seq(S) /\ Len(SubSeq(t, 1, Len(s))) = Len(s)
        /\ \A i \in 1 .. Len(s) : SubSeq(t, 1, Len(s))[i] = t[i]
    BY <1>1
  <2>3. (\A i \in 1 .. Len(s) : s[i] = t[i]) => s = SubSeq(t, 1, Len(s))
    BY <2>2, SeqEqual
  <2>. QED
    BY <2>1, <2>2, <2>3
<1>. QED
  BY <1>1 DEF IsPrefix

LEMMA PrefixFacts ==
  ASSUME NEW S, NEW s \in Seq(S), NEW t \in Seq(S), NEW u \in Seq(S)
  PROVE  /\ IsPrefix(<<>>, s) /\ IsPrefix(s, s) /\ IsPrefix(s, s \o t)
         /\ IsPrefix(s \o t, u) => IsPrefix(s, u) /\ ToSet(t) \subseteq ToSet(u)
<1>1. IsPrefix(<<>>, s) /\ IsPrefix(s, s) /\ IsPrefix(s, s \o t)
  <2>1. IsPrefix(<<>>, s)
    BY DEF IsPrefix
  <2>2. IsPrefix(s, s)
    BY DEF IsPrefix
  <2>3. /\ s \o t \in Seq(S) /\ Len(s) <= Len(s \o t)
        /\ \A i \in 1 .. Len(s) : s[i] = (s \o t)[i]
    BY ConcatProperties
  <2>4. IsPrefix(s, s \o t)
    BY <2>3, PrefixIs
  <2>. QED
    BY <2>1, <2>2, <2>4
<1>2. ASSUME IsPrefix(s \o t, u) PROVE IsPrefix(s, u) /\ ToSet(t) \subseteq ToSet(u)
  <2>1. /\ s \o t \in Seq(S) /\ Len(s \o t) = Len(s) + Len(t)
        /\ \A i \in 1 .. Len(s) + Len(t) : (s \o t)[i] = IF i <= Len(s) THEN s[i] ELSE t[i - Len(s)]
    BY ConcatProperties
  <2>2. Len(s) + Len(t) <= Len(u) /\ \A i \in 1 .. Len(s) + Len(t) : (s \o t)[i] = u[i]
    <3>1. PICK v \in Seq(S) : v = s \o t
      BY <2>1
    <3>2. Len(v) <= Len(u) /\ \A i \in 1 .. Len(v) : v[i] = u[i]
      <4>1. IsPrefix(v, u)
        BY <1>2, <3>1
      <4>. QED
        BY <4>1, PrefixIs
    <3>. QED
      BY <2>1, <3>1, <3>2
  <2>3. Len(s) \in Nat /\ Len(t) \in Nat /\ Len(u) \in Nat
    OBVIOUS
  <2>4. IsPrefix(s, u)
    BY <2>1, <2>2, <2>3, PrefixIs
  <2>5. ASSUME NEW i \in 1 .. Len(t) PROVE t[i] \in ToSet(u)
    <3> DEFINE n == Len(s) + i
    <3>1. n \in 1 .. Len(s) + Len(t) /\ ~(n <= Len(s)) /\ n - Len(s) = i
      BY <2>3
    <3>. HIDE DEF n
    <3>2. (s \o t)[n] = t[i] /\ (s \o t)[n] = u[n]
      BY <2>1, <2>2, <3>1
    <3>3. n \in 1 .. Len(u)
      BY <2>2, <2>3, <3>1
    <3>. QED
      BY <3>2, <3>3, InToSet
  <2>. QED
    BY <2>4, <2>5 DEF ToSet
<1>. QED
  BY <1>1, <1>2

-----------------------------------------------------------------------------
(* What chunks hold of a run. *)

LEMMA OfEmpty == ASSUME NEW i PROVE Of(<<>>, i) = <<>>
  BY FlatDef DEF Of

LEMMA OfAppend ==
  ASSUME NEW s \in Seq(Chunk), NEW c \in Chunk, NEW i
  PROVE  /\ Of(s, i) \in Seq(Line)
         /\ Of(Append(s, c), i) = Of(s, i) \o (IF c.run = i THEN c.lines ELSE <<>>)
<1> DEFINE E(d) == IF d.run = i THEN d.lines ELSE <<>>
           P(t) == [n \in DOMAIN t |-> E(t[n])]
<1>1. \A d \in Chunk : E(d) \in Seq(Line)
  BY DEF Chunk
<1>2. \A t : Of(t, i) = FlattenSeq(P(t))
  BY DEF Of
<1>. HIDE DEF E
<1>3. ASSUME NEW t \in Seq(Chunk) PROVE P(t) \in Seq(Seq(Line)) /\ Len(P(t)) = Len(t)
  <2>1. DOMAIN t = 1 .. Len(t) /\ Len(t) \in Nat /\ \A n \in 1 .. Len(t) : E(t[n]) \in Seq(Line)
    BY <1>1
  <2>2. P(t) \in [1 .. Len(t) -> Seq(Line)]
    BY <2>1
  <2>. HIDE DEF P
  <2>. QED
    BY <2>1, <2>2
<1>4. P(Append(s, c)) = Append(P(s), E(c))
  <2>1. Append(s, c) \in Seq(Chunk) /\ Len(Append(s, c)) = Len(s) + 1
    OBVIOUS
  <2>2. /\ P(Append(s, c)) \in Seq(Seq(Line)) /\ Len(P(Append(s, c))) = Len(s) + 1
        /\ Append(P(s), E(c)) \in Seq(Seq(Line)) /\ Len(Append(P(s), E(c))) = Len(s) + 1
    BY <1>1, <1>3, <2>1
  <2>3. \A n \in 1 .. Len(s) + 1 : P(Append(s, c))[n] = Append(P(s), E(c))[n]
    BY <1>1, <1>3, <2>1
  <2>. QED
    BY <2>2, <2>3, SeqEqual
<1>5. P(s) \in Seq(Seq(Line)) /\ E(c) \in Seq(Line)
  BY <1>1, <1>3
<1>. HIDE DEF P
<1>6. FlattenSeq(P(s)) \in Seq(Line) /\ FlattenSeq(Append(P(s), E(c))) = FlattenSeq(P(s)) \o E(c)
  BY <1>5, FlattenAppend
<1>7. Of(s, i) \in Seq(Line) /\ Of(Append(s, c), i) = Of(s, i) \o E(c)
  BY <1>2, <1>4, <1>6
<1>. QED
  BY <1>7 DEF E

LEMMA PrefixTrans ==
  ASSUME NEW S, NEW s \in Seq(S), NEW t \in Seq(S), NEW u \in Seq(S), IsPrefix(s, t), IsPrefix(t, u)
  PROVE  IsPrefix(s, u)
<1>1. Len(s) <= Len(t) /\ \A i \in 1 .. Len(s) : s[i] = t[i]
  BY PrefixIs
<1>2. Len(t) <= Len(u) /\ \A i \in 1 .. Len(t) : t[i] = u[i]
  BY PrefixIs
<1>3. Len(s) <= Len(u) /\ \A i \in 1 .. Len(s) : s[i] = u[i]
  BY <1>1, <1>2
<1>. QED
  BY <1>3, PrefixIs

LEMMA RegroupChunks ==
  \A s, t, u \in Seq(Chunk) : (s \o t) \o u = s \o (t \o u) /\ s \o t \in Seq(Chunk)
  BY ConcatAssociative

LEMMA OneChunk == \A c \in Chunk : <<c>> \in Seq(Chunk)
  OBVIOUS

LEMMA OfLines == ASSUME NEW s \in Seq(Chunk), NEW i PROVE Of(s, i) \in Seq(Line)
<1>1. [run |-> 0, lines |-> <<>>] \in Chunk
  BY DEF Chunk
<1>. QED
  BY <1>1, OfAppend

\* What is written of a run is only added to.
LEMMA OfConcat ==
  ASSUME NEW s \in Seq(Chunk), NEW t \in Seq(Chunk), NEW i
  PROVE  IsPrefix(Of(s, i), Of(s \o t, i))
<1> DEFINE Ext(u) == IsPrefix(Of(s, i), Of(s \o u, i))
           T == {n \in Nat : \E u \in Seq(Chunk) : Len(u) = n /\ ~Ext(u)}
<1>1. SUFFICES ASSUME T # {} PROVE FALSE
  <2>1. Len(t) \in Nat
    OBVIOUS
  <2>2. SUFFICES Ext(t)
    OBVIOUS
  <2>. HIDE DEF Ext
  <2>. QED
    BY <1>1, <2>1
<1>2. PICK n \in T : \A m \in T : n <= m
  <2>1. T \subseteq Nat
    OBVIOUS
  <2>. HIDE DEF T
  <2>. QED
    BY <1>1, <2>1, Least
<1>3. PICK u \in Seq(Chunk) : Len(u) = n /\ ~Ext(u)
  BY <1>2
<1>4. u # <<>>
  <2>1. s \o <<>> = s /\ Of(s, i) \in Seq(Line)
    BY OfLines, ConcatEmptySeq
  <2>2. Ext(<<>>)
    BY <2>1, PrefixFacts
  <2>. QED
    BY <1>3, <2>2
<1>5. PICK v \in Seq(Chunk), c \in Chunk : u = Append(v, c)
  BY <1>4, SequenceEmptyOrAppend
<1>6. Len(v) \in Nat /\ Len(v) < n
  BY <1>3, <1>5
<1>7. Ext(v)
  <2>. HIDE DEF Ext
  <2>1. Len(v) \notin T
    BY <1>2, <1>6
  <2>. QED
    BY <1>6, <2>1
<1>8. s \o u = Append(s \o v, c) /\ s \o v \in Seq(Chunk)
  <2>1. PICK d \in Seq(Chunk) : d = <<c>>
    BY OneChunk
  <2>2. (s \o v) \o d = s \o (v \o d) /\ s \o v \in Seq(Chunk)
    BY <1>5, <2>1, RegroupChunks
  <2>3. u = v \o d /\ Append(s \o v, c) = (s \o v) \o d
    BY <1>5, <2>1, <2>2, AppendIsConcat
  <2>. QED
    BY <2>2, <2>3
<1>9. PICK a \in Seq(Line), b \in Seq(Line), e \in Seq(Line) :
        a = Of(s, i) /\ b = Of(s \o v, i) /\ e = IF c.run = i THEN c.lines ELSE <<>>
  <2>1. (IF c.run = i THEN c.lines ELSE <<>>) \in Seq(Line)
    BY DEF Chunk
  <2>2. Of(s, i) \in Seq(Line) /\ Of(s \o v, i) \in Seq(Line)
    BY <1>8, OfLines
  <2>. QED
    BY <2>1, <2>2
<1>10. Of(s \o u, i) = b \o e
  <2>1. PICK p \in Seq(Chunk) : p = s \o v
    BY <1>8
  <2>2. Of(Append(p, c), i) = Of(p, i) \o (IF c.run = i THEN c.lines ELSE <<>>)
    BY OfAppend
  <2>. QED
    BY <1>8, <1>9, <2>1, <2>2
<1>11. IsPrefix(a, b \o e)
  <2>1. IsPrefix(a, b)
    BY <1>7, <1>9
  <2>2. IsPrefix(b, b \o e)
    BY PrefixFacts
  <2>3. b \o e \in Seq(Line)
    BY Regroup
  <2>. QED
    BY <2>1, <2>2, <2>3, PrefixTrans
<1>. QED
  BY <1>3, <1>9, <1>10, <1>11

-----------------------------------------------------------------------------
(* Workers, jobs and the runs they are. *)

LEMMA WorkerParts ==
  /\ \A w \in Workers : w[1] \in Hooks /\ w[2] \in 1 .. Limit /\ w = <<w[1], w[2]>>
  /\ \A h \in Hooks, n \in 1 .. Limit : <<h, n>> \in Workers
  BY DEF Workers

LEMMA JobParts ==
  /\ \A j \in Jobs : j[1] \in Hooks /\ j[2] \in 1 .. Runs[j[1]] /\ j = <<j[1], j[2]>>
  /\ \A h \in Hooks : \A i \in 1 .. Runs[h] : <<h, i>> \in Jobs
  BY DEF Jobs

LEMMA HookNumbers == Hooks \subseteq Nat /\ \A h \in Hooks : Runs[h] \in Nat
  BY RunsAssumption DEF Hooks

LEMMA MinIn == ASSUME NEW T, T \subseteq Nat, T # {} PROVE Min(T) \in T
  BY Least DEF Min

LEMMA HeldRuns ==
  ASSUME TypeOK, ScanInv, QueueInv
  PROVE  /\ \A h \in Hooks : Taken(h) \in Nat /\ Taken(h) <= sent[h] /\ Taken(h) <= Runs[h]
         /\ \A w \in Workers : Holds(w) => Job(w) \in Jobs
         /\ \A h \in Hooks : \A i \in begun[h] : <<h, i>> \in Jobs
<1>1. ASSUME NEW h \in Hooks
      PROVE  Taken(h) \in Nat /\ Taken(h) <= sent[h] /\ Taken(h) <= Runs[h]
  <2>1. sent[h] \in Nat /\ Len(jobs[h]) \in Nat /\ Len(jobs[h]) <= sent[h]
    BY DEF TypeOK, PoolOK, QueueInv
  <2>2. scanned[h] \in Nat /\ Runs[h] \in Nat /\ sent[h] <= scanned[h] /\ scanned[h] <= Runs[h]
    BY HookNumbers DEF TypeOK, ScanOK, ScanInv
  <2>. QED
    BY <2>1, <2>2 DEF Taken
<1>2. ASSUME NEW h \in Hooks, NEW i \in 1 .. Taken(h) PROVE <<h, i>> \in Jobs
  <2>1. i \in 1 .. Runs[h]
    BY <1>1, HookNumbers
  <2>. QED
    BY <2>1, JobParts
<1>3. \A w \in Workers : Holds(w) => Job(w) \in Jobs
  BY <1>2, WorkerParts DEF QueueInv, Job
<1>. QED
  BY <1>1, <1>2, <1>3 DEF QueueInv

LEMMA ScriptType ==
  ASSUME ScanOK, NEW j \in Jobs
  PROVE  script[j].lines \in Seq(Line) /\ script[j].noise \in Nat /\ script[j].ok \in BOOLEAN
  BY DEF ScanOK

-----------------------------------------------------------------------------
(* Every state is well typed. *)

LEMMA EmptyLines == <<>> \in Seq(Line) /\ <<>> \in Seq(Chunk) /\ <<>> \in Seq(Nat)
  OBVIOUS

LEMMA InitType == Init => TypeOK
<1> SUFFICES ASSUME Init PROVE TypeOK
  OBVIOUS
<1> USE EmptyLines DEF Each
<1>1. ScanOK
  <2>1. ASSUME NEW j \in Jobs PROVE script[j] \in [lines : Seq(Line), noise : Nat, ok : BOOLEAN]
    BY JobParts, RunsAssumption DEF Init
  <2>2. script \in [Jobs -> UNION {Scripts[h] : h \in Hooks}]
    BY DEF Init
  <2>. QED
    BY <2>1, <2>2 DEF Init, ScanOK
<1>2. HookOK
  BY DEF Init, HookOK
<1>3. PoolOK
  BY DEF Init, PoolOK
<1>4. RowsOK
  BY DEF Init, RowsOK
<1>5. WorkerOK
  BY DEF Init, WorkerOK, Phases
<1>6. ChildOK
  BY DEF Init, ChildOK
<1>7. BuiltOK
  BY RunsAssumption DEF Init, BuiltOK
<1>. QED
  BY <1>1, <1>2, <1>3, <1>4, <1>5, <1>6, <1>7 DEF TypeOK

LEMMA StillTyped ==
  ASSUME TypeOK
  PROVE  /\ UNCHANGED scan => ScanOK'
         /\ UNCHANGED hooks => HookOK'
         /\ UNCHANGED pool => PoolOK'
         /\ UNCHANGED <<rows, made>> => RowsOK'
         /\ UNCHANGED worker => WorkerOK'
         /\ UNCHANGED child => ChildOK'
         /\ UNCHANGED built => BuiltOK'
<1> USE DEF TypeOK
<1>1. UNCHANGED scan => ScanOK'
  BY DEF scan, ScanOK
<1>2. UNCHANGED hooks => HookOK'
  BY DEF hooks, HookOK
<1>3. UNCHANGED pool => PoolOK'
  BY DEF pool, PoolOK
<1>4. UNCHANGED <<rows, made>> => RowsOK'
  BY DEF RowsOK
<1>5. UNCHANGED worker => WorkerOK'
  BY DEF worker, WorkerOK
<1>6. UNCHANGED child => ChildOK'
  BY DEF child, ChildOK
<1>7. UNCHANGED built => BuiltOK'
  BY DEF built, BuiltOK
<1>. QED
  BY <1>1, <1>2, <1>3, <1>4, <1>5, <1>6, <1>7

LEMMA TypeScan == ASSUME IInv, ScanStep PROVE TypeOK'
<1>1. ScanOK'
  <2>1. ASSUME NEW h \in Hooks, ScanRun(h) PROVE ScanOK'
    BY <2>1 DEF IInv, TypeOK, ScanOK, ScanRun
  <2>2. CASE ScanEnds
    BY <2>2 DEF IInv, TypeOK, ScanOK, ScanEnds
  <2>. QED
    BY <2>1, <2>2 DEF ScanStep
<1>2. UNCHANGED <<hooks, pool, rows, made, worker, child, built>>
  BY DEF ScanStep, ScanEnds, ScanRun
<1>. QED
  BY <1>1, <1>2, StillTyped DEF IInv, TypeOK

LEMMA TypeHook == ASSUME IInv, NEW h \in Hooks, HookStep(h) PROVE TypeOK'
<1>1. CASE TakeTurn(h)
  <2>1. HookOK'
    BY <1>1 DEF IInv, TypeOK, HookOK, TakeTurn
  <2>2. UNCHANGED <<scan, pool, rows, made, worker, child, built>>
    BY <1>1 DEF TakeTurn
  <2>. QED
    BY <2>1, <2>2, StillTyped DEF IInv, TypeOK
<1>2. CASE Peek(h)
  <2>1. HookOK'
    BY <1>2 DEF IInv, TypeOK, HookOK, Peek
  <2>2. PoolOK'
    BY <1>2 DEF IInv, TypeOK, PoolOK, Peek
  <2>3. UNCHANGED <<scan, rows, made, worker, child, built>>
    BY <1>2 DEF Peek
  <2>. QED
    BY <2>1, <2>2, <2>3, StillTyped DEF IInv, TypeOK
<1>3. CASE Sink(h)
  <2>1. RowsOK'
    <3>1. rows[h] \in Seq(Chunk) /\ rows[h] # <<>> /\ made[h] \in Seq(Chunk)
      BY <1>3 DEF IInv, TypeOK, RowsOK, Sink
    <3>2. Tail(rows[h]) \in Seq(Chunk) /\ Append(made[h], Head(rows[h])) \in Seq(Chunk)
      BY <3>1
    <3>. QED
      BY <1>3, <3>2 DEF IInv, TypeOK, RowsOK, Sink
  <2>2. UNCHANGED <<scan, hooks, pool, worker, child, built>>
    BY <1>3 DEF Sink
  <2>. QED
    BY <2>1, <2>2, StillTyped DEF IInv, TypeOK
<1>4. CASE Finish(h)
  <2>1. HookOK'
    <3>1. failures[h] # {} => Min(failures[h]) \in Nat
      <4>1. failures[h] \subseteq Nat
        BY DEF IInv, TypeOK, PoolOK
      <4>. QED
        BY <4>1, MinIn
    <3>. QED
      BY <1>4, <3>1 DEF IInv, TypeOK, HookOK, Finish
  <2>2. UNCHANGED <<scan, pool, rows, made, worker, child, built>>
    BY <1>4 DEF Finish
  <2>. QED
    BY <2>1, <2>2, StillTyped DEF IInv, TypeOK
<1>. QED
  BY <1>1, <1>2, <1>3, <1>4 DEF HookStep

LEMMA TypeDispatch == ASSUME IInv, NEW h \in Hooks, DispatchStep(h) PROVE TypeOK'
<1>1. CASE Dispatch(h)
  <2>1. PoolOK'
    <3>1. sent[h] + 1 \in Nat /\ Append(jobs[h], sent[h] + 1) \in Seq(Nat)
      BY DEF IInv, TypeOK, PoolOK
    <3>. QED
      BY <1>1, <3>1 DEF IInv, TypeOK, PoolOK, Dispatch
  <2>2. WorkerOK'
    <3>1. phase' \in [Workers -> Phases]
      BY <1>1 DEF IInv, TypeOK, WorkerOK, Dispatch, Phases
    <3>. QED
      BY <1>1, <3>1 DEF IInv, TypeOK, WorkerOK, Dispatch
  <2>3. UNCHANGED <<scan, hooks, rows, made, child, built>>
    BY <1>1 DEF Dispatch
  <2>. QED
    BY <2>1, <2>2, <2>3, StillTyped DEF IInv, TypeOK
<1>2. CASE DispatchEnds(h)
  <2>1. PoolOK'
    BY <1>2 DEF IInv, TypeOK, PoolOK, DispatchEnds
  <2>2. UNCHANGED <<scan, hooks, rows, made, worker, child, built>>
    BY <1>2 DEF DispatchEnds
  <2>. QED
    BY <2>1, <2>2, StillTyped DEF IInv, TypeOK
<1>. QED
  BY <1>1, <1>2 DEF DispatchStep

LEMMA TypeWorker == ASSUME IInv, NEW w \in Workers, WorkerStep(w) PROVE TypeOK'
<1> USE WorkerParts
<1>p. \A p \in Phases : [phase EXCEPT ![w] = p] \in [Workers -> Phases]
  BY DEF IInv, TypeOK, WorkerOK
<1>n. {"take", "check", "drain", "send", "reap", "fail", "ended"} \subseteq Phases
  BY DEF Phases
<1>1. CASE Take(w)
  <2>1. CASE jobs[w[1]] # <<>>
    <3>1. jobs[w[1]] \in Seq(Nat)
      BY DEF IInv, TypeOK, PoolOK
    <3>2. Head(jobs[w[1]]) \in Nat /\ Tail(jobs[w[1]]) \in Seq(Nat)
      BY <2>1, <3>1
    <3>3. PoolOK'
      BY <1>1, <2>1, <3>2 DEF IInv, TypeOK, PoolOK, Take
    <3>4. WorkerOK'
      <4>1. job' = [job EXCEPT ![w] = Head(jobs[w[1]])] /\ phase' = [phase EXCEPT ![w] = "check"]
        BY <1>1, <2>1 DEF Take
      <4>2. UNCHANGED <<block, bad>>
        BY <1>1 DEF Take
      <4>3. job' \in [Workers -> Nat]
        BY <3>2, <4>1 DEF IInv, TypeOK, WorkerOK
      <4>4. phase' \in [Workers -> Phases]
        BY <1>p, <1>n, <4>1
      <4>. QED
        BY <4>2, <4>3, <4>4 DEF IInv, TypeOK, WorkerOK
    <3>5. UNCHANGED <<scan, hooks, rows, made, child, built>>
      BY <1>1 DEF Take
    <3>. QED
      BY <3>3, <3>4, <3>5, StillTyped DEF IInv, TypeOK
  <2>2. CASE jobs[w[1]] = <<>>
    <3>1. UNCHANGED <<scan, hooks, pool, rows, made, child, built>>
      BY <1>1, <2>2 DEF Take, pool
    <3>2. WorkerOK'
      BY <1>1, <1>p, <1>n, <2>2 DEF IInv, TypeOK, WorkerOK, Take
    <3>. QED
      BY <3>1, <3>2, StillTyped DEF IInv, TypeOK
  <2>. QED
    BY <2>1, <2>2
<1>2. CASE Spawn(w)
  <2>1. CASE aborted[w[1]]
    <3>1. UNCHANGED <<scan, hooks, pool, rows, made, child, built>>
      BY <1>2, <2>1 DEF Spawn, pool, child
    <3>2. WorkerOK'
      BY <1>2, <1>p, <1>n, <2>1 DEF IInv, TypeOK, WorkerOK, Spawn
    <3>. QED
      BY <3>1, <3>2, StillTyped DEF IInv, TypeOK
  <2>2. CASE ~aborted[w[1]]
    <3>1. script[Job(w)].lines \in Seq(Line) /\ script[Job(w)].noise \in Nat
      BY <1>2, HeldRuns, ScriptType DEF IInv, TypeOK, Holds, Spawn
    <3>2. job[w] \in Nat
      BY DEF IInv, TypeOK, WorkerOK
    <3>3. PoolOK'
      <4>1. begun' \in [Hooks -> SUBSET Nat]
        <5>1. begun' = [begun EXCEPT ![w[1]] = begun[w[1]] \cup {job[w]}]
          BY <1>2, <2>2 DEF Spawn
        <5>2. begun[w[1]] \cup {job[w]} \in SUBSET Nat
          BY <3>2 DEF IInv, TypeOK, PoolOK
        <5>. QED
          BY <5>1, <5>2 DEF IInv, TypeOK, PoolOK
      <4>. QED
        BY <1>2, <2>2, <4>1 DEF IInv, TypeOK, PoolOK, Spawn
    <3>4. WorkerOK'
      BY <1>2, <1>p, <1>n, <2>2 DEF IInv, TypeOK, WorkerOK, Spawn
    <3>5. ChildOK'
      BY <1>2, <2>2, <3>1 DEF IInv, TypeOK, ChildOK, Spawn, Job
    <3>6. UNCHANGED <<scan, hooks, rows, made, built>>
      BY <1>2 DEF Spawn
    <3>. QED
      BY <3>3, <3>4, <3>5, <3>6, StillTyped DEF IInv, TypeOK
  <2>. QED
    BY <2>1, <2>2
<1>3. CASE Drain(w)
  <2>1. out[w] \in Seq(Line)
    BY DEF IInv, TypeOK, ChildOK
  <2>2. WorkerOK'
    <3>1. phase' \in {phase, [phase EXCEPT ![w] = "send"]} /\ job' = job
      BY <1>3 DEF Drain
    <3>2. bad' \in {bad, [bad EXCEPT ![w] = TRUE]}
      BY <1>3 DEF Drain
    <3>3. block' \in {block, [block EXCEPT ![w] = out[w]]}
      BY <1>3 DEF Drain
    <3>4. phase' \in [Workers -> Phases]
      BY <1>p, <1>n, <3>1 DEF IInv, TypeOK, WorkerOK
    <3>5. bad' \in [Workers -> BOOLEAN]
      BY <3>2 DEF IInv, TypeOK, WorkerOK
    <3>6. block' \in [Workers -> Seq(Line)]
      BY <2>1, <3>3 DEF IInv, TypeOK, WorkerOK
    <3>. QED
      BY <3>1, <3>4, <3>5, <3>6 DEF IInv, TypeOK, WorkerOK
  <2>3. ChildOK'
    BY <1>3, EmptyLines DEF IInv, TypeOK, ChildOK, Drain
  <2>4. UNCHANGED <<scan, hooks, pool, rows, made, built>>
    BY <1>3 DEF Drain
  <2>. QED
    BY <2>2, <2>3, <2>4, StillTyped DEF IInv, TypeOK
<1>4. CASE Send(w)
  <2>1. [run |-> job[w], lines |-> block[w]] \in Chunk
    BY DEF IInv, TypeOK, WorkerOK, Chunk
  <2>2. RowsOK'
    <3>1. Append(rows[w[1]], [run |-> job[w], lines |-> block[w]]) \in Seq(Chunk)
      BY <2>1 DEF IInv, TypeOK, RowsOK
    <3>. QED
      BY <1>4, <3>1 DEF IInv, TypeOK, RowsOK, Send
  <2>3. WorkerOK'
    BY <1>4, <1>p, <1>n, EmptyLines DEF IInv, TypeOK, WorkerOK, Send
  <2>4. UNCHANGED <<scan, hooks, pool, child, built>>
    BY <1>4 DEF Send
  <2>. QED
    BY <2>2, <2>3, <2>4, StillTyped DEF IInv, TypeOK
<1>5. CASE Eof(w)
  <2>1. WorkerOK'
    BY <1>5, <1>p, <1>n DEF IInv, TypeOK, WorkerOK, Eof
  <2>2. UNCHANGED <<scan, hooks, pool, rows, made, child, built>>
    BY <1>5 DEF Eof
  <2>. QED
    BY <2>1, <2>2, StillTyped DEF IInv, TypeOK
<1>6. CASE Reap(w)
  <2>1. PICK p \in {"fail", "take"}, b \in BOOLEAN :
          phase' = [phase EXCEPT ![w] = p] /\ aborted' = [aborted EXCEPT ![w[1]] = b]
    <3>1. script[Job(w)].ok \in BOOLEAN
      BY <1>6, HeldRuns, ScriptType DEF IInv, TypeOK, Holds, Busy, Reading, Reap
    <3>2. bad[w] \in BOOLEAN /\ aborted[w[1]] \in BOOLEAN
      BY DEF IInv, TypeOK, WorkerOK, PoolOK
    <3>. QED
      BY <1>6, <3>1, <3>2 DEF Reap, Job
  <2>2. WorkerOK'
    BY <1>6, <1>p, <1>n, <2>1 DEF IInv, TypeOK, WorkerOK, Reap
  <2>3. PoolOK'
    BY <1>6, <2>1 DEF IInv, TypeOK, PoolOK, Reap
  <2>4. UNCHANGED <<scan, hooks, rows, made, child, built>>
    BY <1>6 DEF Reap
  <2>. QED
    BY <2>2, <2>3, <2>4, StillTyped DEF IInv, TypeOK
<1>7. CASE Fail(w)
  <2>1. WorkerOK'
    BY <1>7, <1>p, <1>n DEF IInv, TypeOK, WorkerOK, Fail
  <2>2. PoolOK'
    <3>1. job[w] \in Nat
      BY DEF IInv, TypeOK, WorkerOK
    <3>2. failures' \in [Hooks -> SUBSET Nat]
      BY <1>7, <3>1 DEF IInv, TypeOK, PoolOK, Fail
    <3>. QED
      BY <1>7, <3>2 DEF IInv, TypeOK, PoolOK, Fail
  <2>3. UNCHANGED <<scan, hooks, rows, made, child, built>>
    BY <1>7 DEF Fail
  <2>. QED
    BY <2>1, <2>2, <2>3, StillTyped DEF IInv, TypeOK
<1>. QED
  BY <1>1, <1>2, <1>3, <1>4, <1>5, <1>6, <1>7 DEF WorkerStep


LEMMA TypeChild == ASSUME IInv, NEW w \in Workers, ChildStep(w) \/ ReadErr(w) PROVE TypeOK'
<1>1. CASE ChildWrites(w)
  <2>1. ChildOK'
    <3>1. CASE left[w] # <<>> /\ out' = [out EXCEPT ![w] = Append(@, Head(left[w]))]
               /\ left' = [left EXCEPT ![w] = Tail(@)] /\ UNCHANGED <<err, noise, alive>>
      <4>1. left[w] \in Seq(Line) /\ left[w] # <<>> /\ out[w] \in Seq(Line)
        BY <3>1 DEF IInv, TypeOK, ChildOK
      <4>2. Tail(left[w]) \in Seq(Line) /\ Append(out[w], Head(left[w])) \in Seq(Line)
        BY <4>1
      <4>. QED
        BY <3>1, <4>2 DEF IInv, TypeOK, ChildOK
    <3>2. CASE noise[w] > 0 /\ err' = [err EXCEPT ![w] = @ + 1]
               /\ noise' = [noise EXCEPT ![w] = @ - 1] /\ UNCHANGED <<out, left, alive>>
      <4>1. noise[w] \in Nat /\ err[w] \in Nat
        BY DEF IInv, TypeOK, ChildOK
      <4>2. noise[w] - 1 \in Nat /\ err[w] + 1 \in Nat
        BY <3>2, <4>1
      <4>. QED
        BY <3>2, <4>2 DEF IInv, TypeOK, ChildOK
    <3>. QED
      BY <1>1, <3>1, <3>2 DEF ChildWrites
  <2>2. UNCHANGED <<scan, hooks, pool, rows, made, worker, built>>
    BY <1>1 DEF ChildWrites
  <2>. QED
    BY <2>1, <2>2, StillTyped DEF IInv, TypeOK
<1>2. CASE ChildExits(w) \/ ReadErr(w)
  <2>1. ChildOK'
    <3>1. CASE ChildExits(w)
      BY <3>1 DEF IInv, TypeOK, ChildOK, ChildExits
    <3>2. CASE ReadErr(w)
      BY <3>2 DEF IInv, TypeOK, ChildOK, ReadErr
    <3>. QED
      BY <1>2, <3>1, <3>2
  <2>2. UNCHANGED <<scan, hooks, pool, rows, made, worker, built>>
    BY <1>2 DEF ChildExits, ReadErr
  <2>. QED
    BY <2>1, <2>2, StillTyped DEF IInv, TypeOK
<1>. QED
  BY <1>1, <1>2 DEF ChildStep

LEMMA TypeBuilder == ASSUME IInv, BuilderStep PROVE TypeOK'
<1>1. CASE WriteRows
  <2>1. /\ builder \in Hooks /\ made[builder] \in Seq(Chunk) /\ made[builder] # <<>>
        /\ written[builder] \in Seq(Chunk)
    BY <1>1 DEF WriteRows, IInv, TypeOK, RowsOK, BuiltOK
  <2>2. /\ Tail(made[builder]) \in Seq(Chunk)
        /\ Append(written[builder], Head(made[builder])) \in Seq(Chunk)
    BY <2>1
  <2>3. RowsOK'
    BY <1>1, <2>2 DEF WriteRows, IInv, TypeOK, RowsOK
  <2>4. BuiltOK'
    BY <1>1, <2>2 DEF WriteRows, IInv, TypeOK, BuiltOK
  <2>5. UNCHANGED <<scan, hooks, pool, worker, child>>
    BY <1>1 DEF WriteRows
  <2>. QED
    BY <2>3, <2>4, <2>5, StillTyped DEF IInv, TypeOK
<1>2. CASE NextTable
  <2>1. BuiltOK'
    <3>1. builder \in Hooks => builder + 1 \in 1 .. Tables + 1
      BY RunsAssumption DEF Hooks
    <3>2. [g \in Hooks |-> <<>>] \in [Hooks -> Seq(Chunk)]
      BY EmptyLines
    <3>. QED
      BY <1>2, <3>1, <3>2 DEF NextTable, IInv, TypeOK, BuiltOK
  <2>2. UNCHANGED <<scan, hooks, pool, rows, made, worker, child>>
    BY <1>2 DEF NextTable
  <2>. QED
    BY <2>1, <2>2, StillTyped DEF IInv, TypeOK
<1>3. CASE BuildEnds
  <2>1. BuiltOK'
    BY <1>3 DEF BuildEnds, IInv, TypeOK, BuiltOK
  <2>2. UNCHANGED <<scan, hooks, pool, rows, made, worker, child>>
    BY <1>3 DEF BuildEnds
  <2>. QED
    BY <2>1, <2>2, StillTyped DEF IInv, TypeOK
<1>. QED
  BY <1>1, <1>2, <1>3 DEF BuilderStep

LEMMA TypeStep == IInv /\ [Next]_vars => TypeOK'
<1>1. IInv /\ UNCHANGED vars => TypeOK'
  BY StillTyped DEF IInv, TypeOK, vars
<1>. QED
  BY <1>1, TypeScan, TypeHook, TypeDispatch, TypeWorker, TypeChild, TypeBuilder DEF Next


-----------------------------------------------------------------------------
(* The inductive invariant: what it holds of at first, and what a part of  *)
(* it is about.                                                            *)

LEMMA StillInv ==
  ASSUME IInv
  PROVE  /\ UNCHANGED <<scanned, scanning, sent>> => ScanInv'
         /\ UNCHANGED <<hook, dispatching, sent, scanned, phase>> => TurnInv'
         /\ UNCHANGED <<jobs, sent, phase, job, begun>> => QueueInv'
         /\ UNCHANGED <<aborted, failures, phase, job, begun, jobs, sent, hook, dispatching>>
              => BegunInv'
         /\ UNCHANGED <<script, alive, phase, job, left, out, block, bad>> => ReadInv'
         /\ UNCHANGED <<script, failures, begun, phase, job>> => FiledInv'
         /\ UNCHANGED <<script, hook, begun, outcome, rows>> => OutcomeInv'
         /\ UNCHANGED <<script, written, made, rows, begun, build, shaped, builder, phase, job,
                        bad, block, out, left>> => WholeInv'
         /\ UNCHANGED <<script, builder, hook, made, build, written, shaped>> => BuilderInv'
<1> USE DEF IInv
<1>1. UNCHANGED <<scanned, scanning, sent>> => ScanInv'
  BY DEF ScanInv
<1>2. UNCHANGED <<hook, dispatching, sent, scanned, phase>> => TurnInv'
  BY DEF TurnInv
<1>3. UNCHANGED <<jobs, sent, phase, job, begun>> => QueueInv'
  BY DEF QueueInv, Taken, Holds, Busy, Reading, Job
<1>4. UNCHANGED <<aborted, failures, phase, job, begun, jobs, sent, hook, dispatching>> => BegunInv'
  BY DEF BegunInv, Taken, Job
<1>5. UNCHANGED <<script, alive, phase, job, left, out, block, bad>> => ReadInv'
  BY DEF ReadInv, Reading, Job, Clean
<1>6. UNCHANGED <<script, failures, begun, phase, job>> => FiledInv'
  BY DEF FiledInv, Busy, Reading, Job, Clean
<1>7. UNCHANGED <<script, hook, begun, outcome, rows>> => OutcomeInv'
  BY DEF OutcomeInv, Reports, Clean
<1>8. UNCHANGED <<script, written, made, rows, begun, build, shaped, builder, phase, job,
                  bad, block, out, left>> => WholeInv'
  <2> SUFFICES ASSUME UNCHANGED <<script, written, made, rows, begun, build, shaped, builder,
                                  phase, job, bad, block, out, left>>
               PROVE  WholeInv'
    OBVIOUS
  <2>1. \A h : Stream(h)' = Stream(h)
    BY DEF Stream
  <2>2. \A h, i : Lines(h, i)' = Lines(h, i)
    BY DEF Lines
  <2>3. \A w : Job(w)' = Job(w) /\ Reading(w)' = Reading(w) /\ Clean(Job(w))' = Clean(Job(w))
    BY DEF Job, Reading, Clean
  <2>4. \A j : Clean(j)' = Clean(j) /\ Got(j)' = Got(j)
    BY DEF Clean, Got, Stream
  <2>. QED
    BY <2>1, <2>2, <2>3, <2>4 DEF WholeInv, Intact, RunWhole
<1>9. UNCHANGED <<script, builder, hook, made, build, written, shaped>> => BuilderInv'
  <2> SUFFICES ASSUME UNCHANGED <<script, builder, hook, made, build, written, shaped>>
               PROVE  BuilderInv'
    OBVIOUS
  <2>1. \A j : Good(j)' = Good(j) /\ Lines(j[1], j[2])' = Lines(j[1], j[2])
    BY DEF Good, Lines
  <2>. QED
    BY <2>1 DEF BuilderInv
<1>. QED
  BY <1>1, <1>2, <1>3, <1>4, <1>5, <1>6, <1>7, <1>8, <1>9

LEMMA InitIInv == Init => IInv
<1> SUFFICES ASSUME Init PROVE IInv
  OBVIOUS
<1> USE DEF Init, Each
<1>1. TypeOK
  BY InitType
<1>2. ScanInv
  BY HookNumbers DEF ScanInv
<1>3. TurnInv
  BY WorkerParts, RunsAssumption DEF TurnInv
<1>4. QueueInv
  BY EmptySeq DEF QueueInv, Taken, Holds, Busy, Reading
<1>5. BegunInv
  <2>1. \A h \in Hooks : Taken(h) = 0
    BY DEF Taken
  <2>. QED
    BY <2>1 DEF BegunInv
<1>6. ReadInv
  BY DEF ReadInv, Reading
<1>7. FiledInv
  BY DEF FiledInv
<1>8. OutcomeInv
  BY DEF OutcomeInv
<1>9. WholeInv
  <2>1. ASSUME NEW h \in Hooks PROVE written[h] = <<>> /\ Stream(h) = <<>>
    BY ConcatEmptySeq, EmptyLines DEF Stream
  <2>2. ASSUME NEW j \in Jobs PROVE Of(Stream(j[1]), j[2]) = <<>> /\ Lines(j[1], j[2]) = <<>>
    BY <2>1, OfEmpty, JobParts DEF Lines
  <2>3. ASSUME NEW j \in Jobs PROVE IsPrefix(<<>>, script[j].lines)
    <3>1. script[j].lines \in Seq(Line)
      BY <1>1, ScriptType DEF TypeOK
    <3>. QED
      BY <3>1, PrefixFacts
  <2>4. ToSet(<<>>) = {}
    BY DEF ToSet
  <2>. QED
    BY <2>1, <2>2, <2>3, <2>4, JobParts DEF WholeInv, Reading, RunWhole, Got
<1>10. BuilderInv
  BY JobParts, HookNumbers DEF BuilderInv, Hooks
<1>. QED
  BY <1>1, <1>2, <1>3, <1>4, <1>5, <1>6, <1>7, <1>8, <1>9, <1>10 DEF IInv


-----------------------------------------------------------------------------
(* The scan and the hooks' turns. *)

LEMMA ScanKeeps == ASSUME IInv, ScanStep, TypeOK' PROVE IInv'
<1>1. UNCHANGED <<script, hooks, pool, rows, made, worker, child, built>>
  BY DEF ScanStep, ScanEnds, ScanRun
<1> USE DEF hooks, pool, worker, child, built
<1>2. ScanInv' /\ TurnInv'
  <2>1. ASSUME NEW h \in Hooks, ScanRun(h) PROVE ScanInv' /\ TurnInv'
    <3>1. ScanInv'
      <4>1. \A g \in Hooks : sent[g] \in Nat /\ scanned[g] \in Nat /\ Runs[g] \in Nat
        BY HookNumbers DEF IInv, TypeOK, ScanOK, PoolOK
      <4>. QED
        BY <1>1, <2>1, <4>1 DEF IInv, TypeOK, ScanOK, ScanInv, ScanRun
    <3>2. TurnInv'
      BY <1>1, <2>1 DEF IInv, TypeOK, ScanOK, TurnInv, ScanRun
    <3>. QED
      BY <3>1, <3>2
  <2>2. CASE ScanEnds
    BY <1>1, <2>2 DEF IInv, ScanInv, TurnInv, ScanEnds
  <2>. QED
    BY <2>1, <2>2 DEF ScanStep
<1>. QED
  BY <1>1, <1>2, StillInv DEF IInv

LEMMA TurnKeeps == ASSUME IInv, NEW h \in Hooks, TakeTurn(h), TypeOK' PROVE IInv'
<1>1. UNCHANGED <<outcome, scan, pool, rows, made, worker, child, built>>
      /\ hook[h] = "waiting" /\ hook' = [hook EXCEPT ![h] = "peeking"]
  BY DEF TakeTurn
<1> USE DEF scan, pool, worker, child, built
<1>2. \A g \in Hooks : hook'[g] = IF g = h THEN "peeking" ELSE hook[g]
  BY <1>1 DEF IInv, TypeOK, HookOK
<1>3. TurnInv'
  <2>1. ASSUME NEW f \in Hooks, NEW g \in Hooks, f < g, hook'[g] # "waiting" PROVE hook'[f] = "ended"
    <3>1. f # h
      BY <1>1, <1>2, <2>1, HookNumbers DEF IInv, TurnInv
    <3>2. CASE g # h
      BY <1>2, <2>1, <3>1, <3>2 DEF IInv, TurnInv
    <3>3. CASE g = h
      <4>1. h > 1 /\ h - 1 \in Hooks /\ f <= h - 1
        BY <2>1, <3>3, RunsAssumption DEF Hooks
      <4>2. hook[h - 1] = "ended"
        BY <4>1 DEF TakeTurn
      <4>3. f = h - 1 \/ f < h - 1
        BY <4>1, HookNumbers
      <4>4. hook[f] = "ended"
        BY <4>1, <4>2, <4>3 DEF IInv, TurnInv
      <4>. QED
        BY <1>2, <3>1, <4>4
    <3>. QED
      BY <3>2, <3>3
  <2>2. hook[h] = "waiting" /\ sent[h] = 0 /\ ~dispatching[h]
    BY <1>1 DEF IInv, TurnInv
  <2>. QED
    BY <1>1, <1>2, <2>1, <2>2, WorkerParts DEF IInv, TurnInv
<1>4. BegunInv'
  BY <1>1, <1>2 DEF IInv, BegunInv, Taken, Job
<1>5. OutcomeInv'
  <2>1. \A g : Reports(g)' = Reports(g)
    BY <1>1 DEF Reports, Clean
  <2>. QED
    BY <1>1, <1>2, <2>1 DEF IInv, OutcomeInv
<1>6. BuilderInv'
  <2>1. \A j : Good(j)' = Good(j) /\ Lines(j[1], j[2])' = Lines(j[1], j[2])
    BY <1>1 DEF Good, Lines
  <2>. QED
    BY <1>1, <1>2, <2>1 DEF IInv, BuilderInv
<1>. QED
  BY <1>1, <1>3, <1>4, <1>5, <1>6, StillInv DEF IInv


LEMMA PeekKeeps == ASSUME IInv, NEW h \in Hooks, Peek(h), TypeOK' PROVE IInv'
<1>1. UNCHANGED <<outcome, scan, begun, sent, jobs, aborted, failures, rows, made, worker, child,
                  built>>
      /\ hook[h] = "peeking"
  BY DEF Peek
<1> USE DEF scan, worker, child, built
<1>2. sent[h] = 0 /\ ~dispatching[h] /\ outcome[h] = 0 /\ scanned[h] \in Nat
  BY <1>1 DEF IInv, TurnInv, OutcomeInv, TypeOK, ScanOK
<1>3. \A w \in Workers : w[1] = h => phase[w] = "absent"
  BY <1>2, WorkerParts DEF IInv, TurnInv
<1>4. \A j : Good(j)' = Good(j) /\ Lines(j[1], j[2])' = Lines(j[1], j[2])
  BY <1>1 DEF Good, Lines
<1>5. \A g : Reports(g)' = Reports(g)
  BY <1>1 DEF Reports, Clean
<1>6. CASE scanned[h] > 0
  <2>1. \A g \in Hooks : /\ hook'[g] = IF g = h THEN "running" ELSE hook[g]
                         /\ dispatching'[g] = IF g = h THEN TRUE ELSE dispatching[g]
    BY <1>6 DEF Peek, IInv, TypeOK, HookOK, PoolOK
  <2>2. TurnInv'
    <3>1. ASSUME NEW f \in Hooks, NEW g \in Hooks, f < g, hook'[g] # "waiting"
          PROVE  hook'[f] = "ended"
      <4>1. f # g /\ hook[g] # "waiting"
        <5>1. f \in Nat /\ g \in Nat
          BY HookNumbers
        <5>2. f # g
          BY <3>1, <5>1
        <5>. QED
          BY <1>1, <2>1, <3>1, <5>2
      <4>2. hook[f] = "ended"
        BY <3>1, <4>1 DEF IInv, TurnInv
      <4>. QED
        BY <1>1, <2>1, <4>2
    <3>2. ASSUME NEW g \in Hooks, dispatching'[g] PROVE hook'[g] = "running"
      <4>1. CASE g = h
        BY <2>1, <4>1
      <4>2. CASE g # h
        <5>1. hook'[g] = hook[g] /\ (dispatching'[g] <=> dispatching[g])
          BY <2>1, <4>2
        <5>. QED
          BY <3>2, <5>1 DEF IInv, TurnInv
      <4>. QED
        BY <4>1, <4>2
    <3>3. \A g \in Hooks : hook'[g] \in {"waiting", "peeking"} => sent'[g] = 0
      BY <1>1, <2>1 DEF IInv, TurnInv
    <3>4. \A g \in Hooks : hook'[g] = "running" => scanned'[g] > 0
      BY <1>1, <1>6, <2>1 DEF IInv, TurnInv
    <3>5. \A w \in Workers : phase'[w] = "absent" <=> w[2] > sent'[w[1]]
      BY <1>1 DEF IInv, TurnInv
    <3>6. \A w \in Workers : phase'[w] \notin {"absent", "ended"} => hook'[w[1]] = "running"
      BY <1>1, <2>1, WorkerParts DEF IInv, TurnInv
    <3>. QED
      BY <3>1, <3>2, <3>3, <3>4, <3>5, <3>6 DEF TurnInv
  <2>3. BegunInv'
    <3>1. \A g \in Hooks : hook'[g] = "running" /\ ~dispatching'[g] => aborted[g] \/ sent[g] = Runs[g]
      BY <2>1 DEF IInv, BegunInv
    <3>2. \A w \in Workers : phase[w] = "ended" => w[1] # h
      BY <1>3
    <3>3. \A w \in Workers : phase[w] = "ended" =>
            aborted[w[1]] \/ (jobs[w[1]] = <<>> /\ ~dispatching'[w[1]])
      BY <2>1, <3>2, WorkerParts DEF IInv, BegunInv
    <3>. QED
      BY <1>1, <3>1, <3>3 DEF IInv, BegunInv, Taken, Job
  <2>4. OutcomeInv'
    BY <1>1, <1>2, <1>5, <2>1 DEF IInv, OutcomeInv
  <2>5. BuilderInv'
    BY <1>1, <1>4, <2>1 DEF IInv, BuilderInv
  <2>. QED
    BY <1>1, <2>2, <2>3, <2>4, <2>5, StillInv DEF IInv
<1>7. CASE ~(scanned[h] > 0)
  <2>1. /\ dispatching' = dispatching /\ ~scanning
        /\ \A g \in Hooks : hook'[g] = IF g = h THEN "ended" ELSE hook[g]
    BY <1>7 DEF Peek, IInv, TypeOK, HookOK, PoolOK
  <2>2. Runs[h] = 0
    BY <1>2, <1>7, <2>1 DEF IInv, ScanInv
  <2>3. TurnInv'
    BY <1>1, <1>2, <1>3, <2>1, WorkerParts DEF IInv, TurnInv
  <2>4. BegunInv'
    BY <1>1, <1>3, <2>1, WorkerParts DEF IInv, BegunInv, Taken, Job
  <2>5. OutcomeInv'
    <3>1. Reports(h) /\ rows[h] = <<>>
      <4>1. begun[h] = {} /\ 1 .. Runs[h] = {}
        BY <1>2, <2>2, HeldRuns DEF IInv, QueueInv
      <4>2. rows[h] = <<>>
        <5>1. Len(Stream(h)) = 0
          <6>1. \A n \in DOMAIN Stream(h) : FALSE
            BY <4>1 DEF IInv, WholeInv
          <6>2. Stream(h) \in Seq(Chunk)
            BY DEF IInv, TypeOK, RowsOK, BuiltOK, Stream
          <6>. QED
            BY <6>1, <6>2
        <5>. QED
          BY <5>1 DEF IInv, TypeOK, RowsOK, BuiltOK, Stream
      <4>. QED
        BY <1>2, <4>1, <4>2 DEF Reports
    <3>. QED
      BY <1>1, <1>5, <2>1, <3>1 DEF IInv, OutcomeInv
  <2>6. BuilderInv'
    BY <1>1, <1>4, <2>1 DEF IInv, BuilderInv
  <2>. QED
    BY <1>1, <2>1, <2>3, <2>4, <2>5, <2>6, StillInv DEF IInv
<1>. QED
  BY <1>6, <1>7

LEMMA DispatchEndsKeeps == ASSUME IInv, NEW h \in Hooks, DispatchEnds(h), TypeOK' PROVE IInv'
<1>1. UNCHANGED <<scan, hooks, begun, sent, jobs, aborted, failures, rows, made, worker, child, built>>
      /\ dispatching' = [dispatching EXCEPT ![h] = FALSE]
      /\ (sent[h] = Runs[h] \/ aborted[h])
  BY DEF DispatchEnds
<1> USE DEF scan, hooks, worker, child, built
<1>2. \A g \in Hooks : dispatching'[g] = IF g = h THEN FALSE ELSE dispatching[g]
  BY <1>1 DEF IInv, TypeOK, PoolOK
<1>3. TurnInv'
  BY <1>1, <1>2, WorkerParts DEF IInv, TurnInv
<1>4. BegunInv'
  BY <1>1, <1>2, WorkerParts DEF IInv, BegunInv, Taken, Job
<1>. QED
  BY <1>1, <1>3, <1>4, StillInv DEF IInv


-----------------------------------------------------------------------------
(* A worker's steps.  Most only take it from one phase to another.         *)

LEMMA MovesTurn ==
  ASSUME IInv, NEW w \in Workers, NEW p \in Phases \ {"absent"},
         phase[w] \notin {"absent", "ended"}, phase' = [phase EXCEPT ![w] = p],
         UNCHANGED <<hook, dispatching, sent, scanned>>
  PROVE  TurnInv'
<1>1. \A v \in Workers : phase'[v] = IF v = w THEN p ELSE phase[v]
  BY DEF IInv, TypeOK, WorkerOK
<1>. QED
  BY <1>1 DEF IInv, TurnInv

\* A worker that has a run goes on with it, or is through with it.
LEMMA MovesQueue ==
  ASSUME IInv, NEW w \in Workers, NEW p \in Phases \ {"absent", "check"},
         Busy(w), phase' = [phase EXCEPT ![w] = p], UNCHANGED <<sent, jobs, job, begun>>
  PROVE  QueueInv'
<1>1. \A v \in Workers : phase'[v] = IF v = w THEN p ELSE phase[v]
  BY DEF IInv, TypeOK, WorkerOK
<1>2. \A v \in Workers : (Holds(v)' => Holds(v)) /\ (Busy(v)' => Busy(v)) /\ Job(v)' = Job(v)
  BY <1>1 DEF Holds, Busy, Reading, Job
<1>3. \A h \in Hooks : Taken(h)' = Taken(h)
  BY DEF Taken
<1>4. \A v \in Workers : phase'[v] = "check" => phase[v] = "check"
  BY <1>1
<1>. QED
  BY <1>2, <1>3, <1>4, WorkerParts DEF IInv, QueueInv

LEMMA MovesBegun ==
  ASSUME IInv, NEW w \in Workers, NEW p \in Phases \ {"absent", "ended"},
         phase[w] \notin {"check", "fail"}, phase' = [phase EXCEPT ![w] = p],
         UNCHANGED <<aborted, failures, job, begun, jobs, sent, hook, dispatching>>
  PROVE  BegunInv'
<1>1. \A v \in Workers : phase'[v] = IF v = w THEN p ELSE phase[v]
  BY DEF IInv, TypeOK, WorkerOK
<1>2. \A h \in Hooks : Taken(h)' = Taken(h)
  BY DEF Taken
<1>3. \A v \in Workers : Job(v)' = Job(v) /\ (phase[v] = "fail" => phase'[v] = "fail")
                         /\ (phase[v] = "check" => phase'[v] = "check")
                         /\ (phase'[v] = "ended" => phase[v] = "ended")
  BY <1>1 DEF Job
<1>. QED
  BY <1>2, <1>3 DEF IInv, BegunInv

LEMMA MovesFiled ==
  ASSUME IInv, NEW w \in Workers, NEW p \in Phases, phase' = [phase EXCEPT ![w] = p],
         Busy(w) => p \in {"drain", "send", "reap", "fail"},
         UNCHANGED <<script, failures, begun, job>>
  PROVE  FiledInv'
<1>1. \A v \in Workers : phase'[v] = IF v = w THEN p ELSE phase[v]
  BY DEF IInv, TypeOK, WorkerOK
<1>2. \A v \in Workers : Job(v)' = Job(v) /\ (Busy(v) => Busy(v)')
  BY <1>1 DEF Job, Busy, Reading
<1>3. \A j : Clean(j)' = Clean(j)
  BY DEF Clean
<1>. QED
  BY <1>2, <1>3 DEF IInv, FiledInv

\* The workers of a hook are at work in its turn alone.
LEMMA AtWorkRunning ==
  ASSUME IInv, NEW w \in Workers, phase[w] \notin {"absent", "ended"}
  PROVE  hook[w[1]] = "running"
  BY DEF IInv, TurnInv


\* A worker's steps are no concern of the runs that others have.
LEMMA OtherRuns ==
  ASSUME NEW w \in Workers, NEW j \in Jobs, RunWhole(j), Got(j)' = Got(j), UNCHANGED script,
         j[2] \in begun'[j[1]] <=> j[2] \in begun[j[1]],
         \A v \in Workers \ {w} :
           /\ phase'[v] = phase[v] /\ job'[v] = job[v] /\ bad'[v] = bad[v]
           /\ block'[v] = block[v] /\ out'[v] = out[v] /\ left'[v] = left[v],
         Reading(w) => Job(w) # j, Reading(w)' => Job(w)' # j
  PROVE  RunWhole(j)'
<1>1. \A v \in Workers \ {w} : Reading(v)' = Reading(v) /\ Job(v)' = Job(v)
  BY DEF Reading, Job
<1>2. Clean(j)' = Clean(j)
  BY DEF Clean
<1>. QED
  BY <1>1, <1>2 DEF RunWhole

\* A run's one worker.
LEMMA OwnWorker ==
  ASSUME IInv, NEW w \in Workers, Holds(w)
  PROVE  /\ Job(w) \in Jobs
         /\ \A v \in Workers \ {w} : ~(Holds(v) /\ Job(v) = Job(w))
  BY HeldRuns DEF IInv, QueueInv

LEMMA GotType == ASSUME TypeOK PROVE \A j \in Jobs : Got(j) \in Seq(Line) /\ Lines(j[1], j[2]) \in Seq(Line)
<1>1. [run |-> 0, lines |-> <<>>] \in Chunk
  BY DEF Chunk
<1>2. \A h \in Hooks : Stream(h) \in Seq(Chunk) /\ written[h] \in Seq(Chunk)
  BY DEF TypeOK, RowsOK, BuiltOK, Stream
<1>. QED
  BY <1>1, <1>2, JobParts, OfAppend DEF Got, Lines

\* Of WholeInv, a step that leaves the builder and all that was sent alone has
\* the runs to see to.
LEMMA KeepsWhole ==
  ASSUME IInv, UNCHANGED <<script, written, made, rows, build, shaped, builder>>,
         \A h \in Hooks : begun[h] \subseteq begun'[h],
         \A j \in Jobs : RunWhole(j) => RunWhole(j)'
  PROVE  WholeInv'
<1>1. \A h \in Hooks : Stream(h)' = Stream(h) /\ Intact(h)' = Intact(h)
  BY DEF Stream, Intact
<1>2. \A j : Lines(j[1], j[2])' = Lines(j[1], j[2])
  BY DEF Lines
<1>3. \A h \in Hooks : \A n \in DOMAIN Stream(h) : Stream(h)[n].run \in begun[h]
  BY DEF IInv, WholeInv
<1>4. \A j \in Jobs : Intact(j[1]) => RunWhole(j)
  BY DEF IInv, WholeInv
<1>. QED
  BY <1>1, <1>2, <1>3, <1>4, JobParts DEF IInv, WholeInv

\* Nothing changes for any run where nobody was reading and nobody starts.
LEMMA IdleWhole ==
  ASSUME IInv, NEW w \in Workers, UNCHANGED <<script, written, made, rows, begun, build, shaped, builder>>,
         UNCHANGED <<bad, block, out, left>>,
         \A v \in Workers \ {w} : phase'[v] = phase[v] /\ job'[v] = job[v],
         ~Reading(w), ~Reading(w)'
  PROVE  WholeInv'
<1>1. \A j \in Jobs : Got(j)' = Got(j)
  BY DEF Got, Stream
<1>2. \A j \in Jobs : RunWhole(j) => RunWhole(j)'
  BY <1>1, OtherRuns
<1>. QED
  BY <1>2, KeepsWhole


\* Nor does anything for a run whose worker reads on, or goes on not reading.
LEMMA SameWhole ==
  ASSUME IInv, UNCHANGED <<script, written, made, rows, begun, build, shaped, builder>>,
         UNCHANGED <<job, bad, block, out, left>>, \A v \in Workers : Reading(v)' = Reading(v)
  PROVE  WholeInv'
<1>1. \A j \in Jobs : Got(j)' = Got(j) /\ Clean(j)' = Clean(j)
  BY DEF Got, Stream, Clean
<1>2. \A v : Job(v)' = Job(v)
  BY DEF Job
<1>3. \A j \in Jobs : RunWhole(j) => RunWhole(j)'
  BY <1>1, <1>2 DEF RunWhole
<1>. QED
  BY <1>3, KeepsWhole

LEMMA EofKeeps == ASSUME IInv, NEW w \in Workers, Eof(w), TypeOK' PROVE IInv'
<1>1. /\ UNCHANGED <<scan, hooks, pool, rows, made, job, block, bad, child, built>>
      /\ phase[w] = "drain" /\ ~alive[w] /\ out[w] = <<>>
      /\ phase' = [phase EXCEPT ![w] = "reap"]
  BY DEF Eof
<1> USE DEF scan, hooks, pool, child, built
<1>2. \A v \in Workers : phase'[v] = IF v = w THEN "reap" ELSE phase[v]
  BY <1>1 DEF IInv, TypeOK, WorkerOK
<1>3. "reap" \in Phases /\ Busy(w)
  BY <1>1 DEF Phases, Busy, Reading
<1>4. TurnInv'
  BY <1>1, <1>3, MovesTurn
<1>5. QueueInv'
  BY <1>1, <1>3, MovesQueue
<1>6. BegunInv'
  BY <1>1, <1>3, MovesBegun
<1>7. \A v \in Workers : Reading(v)' = Reading(v) /\ Job(v)' = Job(v) /\ Clean(Job(v))' = Clean(Job(v))
  BY <1>1, <1>2 DEF Reading, Job, Clean
<1>8. ReadInv'
  BY <1>1, <1>2, <1>7 DEF IInv, ReadInv
<1>9. FiledInv'
  BY <1>1, <1>3, MovesFiled
<1>10. WholeInv'
  BY <1>1, <1>7, SameWhole
<1>. QED
  BY <1>1, <1>4, <1>5, <1>6, <1>8, <1>9, <1>10, StillInv DEF IInv

LEMMA ReadErrKeeps == ASSUME IInv, NEW w \in Workers, ReadErr(w), TypeOK' PROVE IInv'
<1>1. UNCHANGED <<scan, hooks, pool, rows, made, worker, out, left, noise, alive, built>>
  BY DEF ReadErr
<1>. QED
  BY <1>1, StillInv DEF IInv, scan, hooks, pool, worker, built

LEMMA ChildExitsKeeps == ASSUME IInv, NEW w \in Workers, ChildExits(w), TypeOK' PROVE IInv'
<1>1. /\ UNCHANGED <<scan, hooks, pool, rows, made, worker, out, err, left, noise, built>>
      /\ left[w] = <<>> /\ alive' = [alive EXCEPT ![w] = FALSE]
  BY DEF ChildExits
<1> USE DEF scan, hooks, pool, worker, built
<1>2. \A v \in Workers : alive'[v] = IF v = w THEN FALSE ELSE alive[v]
  BY <1>1 DEF IInv, TypeOK, ChildOK
<1>3. \A v \in Workers : Reading(v)' = Reading(v) /\ Job(v)' = Job(v) /\ Clean(Job(v))' = Clean(Job(v))
  BY <1>1 DEF Reading, Job, Clean
<1>4. ReadInv'
  BY <1>1, <1>2, <1>3 DEF IInv, ReadInv
<1>. QED
  BY <1>1, <1>4, StillInv DEF IInv

LEMMA TakeKeeps == ASSUME IInv, NEW w \in Workers, Take(w), TypeOK' PROVE IInv'
<1> DEFINE h == w[1]
<1>1. UNCHANGED <<scan, hooks, begun, sent, dispatching, aborted, failures, rows, made, block, bad,
                  child, built>>
      /\ phase[w] = "take"
  BY DEF Take
<1> USE DEF scan, hooks, child, built
<1>2. h \in Hooks
  BY WorkerParts
<1>3. \A g \in Hooks : jobs[g] \in Seq(Nat) /\ sent[g] \in Nat
  BY DEF IInv, TypeOK, PoolOK
<1>4. CASE jobs[h] # <<>>
  <2>1. /\ job' = [job EXCEPT ![w] = Head(jobs[h])]
        /\ jobs' = [jobs EXCEPT ![h] = Tail(@)]
        /\ phase' = [phase EXCEPT ![w] = "check"]
    BY <1>4 DEF Take
  <2>2. \A v \in Workers : /\ phase'[v] = IF v = w THEN "check" ELSE phase[v]
                           /\ job'[v] = IF v = w THEN Head(jobs[h]) ELSE job[v]
    BY <2>1 DEF IInv, TypeOK, WorkerOK
  <2>3. \A g \in Hooks : jobs'[g] = IF g = h THEN Tail(jobs[h]) ELSE jobs[g]
    BY <2>1 DEF IInv, TypeOK, PoolOK
  <2>4. /\ Len(jobs[h]) \in Nat \ {0} /\ Head(jobs[h]) = jobs[h][1]
        /\ Tail(jobs[h]) \in Seq(Nat) /\ Len(Tail(jobs[h])) = Len(jobs[h]) - 1
        /\ \A n \in 1 .. Len(jobs[h]) - 1 : Tail(jobs[h])[n] = jobs[h][n + 1]
    BY <1>2, <1>3, <1>4
  <2>l. \A g \in Hooks : Len(jobs'[g]) = IF g = h THEN Len(jobs[h]) - 1 ELSE Len(jobs[g])
    BY <2>3, <2>4
  <2>m. \A g \in Hooks : Len(jobs[g]) \in Nat
    BY <1>3
  <2>5. \A g \in Hooks : Taken(g)' = IF g = h THEN Taken(g) + 1 ELSE Taken(g)
    <3> SUFFICES ASSUME NEW g \in Hooks PROVE Taken(g)' = IF g = h THEN Taken(g) + 1 ELSE Taken(g)
      OBVIOUS
    <3>1. Taken(g)' = sent[g] - Len(jobs'[g])
      BY <1>1 DEF Taken
    <3>. QED
      BY <1>3, <2>l, <2>m, <3>1 DEF Taken
  <2>6. \A g \in Hooks : Taken(g) \in Nat
    BY HeldRuns DEF IInv
  <2>7. Head(jobs[h]) = Taken(h) + 1
    BY <1>2, <1>3, <2>4 DEF IInv, QueueInv
  <2>8. \A v \in Workers \ {w} : /\ Holds(v)' = Holds(v) /\ Busy(v)' = Busy(v)
                                 /\ Reading(v)' = Reading(v) /\ Job(v)' = Job(v)
    BY <2>2 DEF Holds, Busy, Reading, Job
  <2>9. Holds(w)' /\ ~Busy(w)' /\ ~Reading(w)' /\ ~Busy(w) /\ ~Reading(w)
    BY <1>1, <2>2 DEF Holds, Busy, Reading
  <2>10. QueueInv'
    <3>1. \A g \in Hooks : Len(jobs'[g]) <= sent'[g]
      <4>1. \A g \in Hooks : Len(jobs[g]) <= sent[g]
        BY DEF IInv, QueueInv
      <4>. QED
        BY <1>1, <1>3, <2>l, <2>m, <4>1
    <3>2. ASSUME NEW g \in Hooks, NEW n \in DOMAIN jobs'[g] PROVE jobs'[g][n] = Taken(g)' + n
      <4>1. CASE g = h
        <5>1. n \in 1 .. Len(jobs[h]) - 1 /\ n + 1 \in DOMAIN jobs[h]
          <6>1. DOMAIN jobs'[h] = 1 .. Len(jobs[h]) - 1 /\ DOMAIN jobs[h] = 1 .. Len(jobs[h])
            <7>1. jobs'[h] = Tail(jobs[h]) /\ jobs[h] \in Seq(Nat)
              BY <1>2, <1>3, <2>3
            <7>2. DOMAIN Tail(jobs[h]) = 1 .. Len(Tail(jobs[h]))
              BY <2>4
            <7>. QED
              BY <2>4, <7>1, <7>2
          <6>. QED
            BY <2>4, <3>2, <4>1, <6>1
        <5>2. jobs'[g][n] = jobs[h][n + 1]
          BY <1>2, <2>3, <2>4, <4>1, <5>1
        <5>3. jobs[h][n + 1] = Taken(h) + (n + 1)
          BY <1>2, <5>1 DEF IInv, QueueInv
        <5>. QED
          BY <1>2, <2>5, <2>6, <4>1, <5>1, <5>2, <5>3
      <4>2. CASE g # h
        BY <2>3, <2>5, <3>2, <4>2 DEF IInv, QueueInv
      <4>. QED
        BY <4>1, <4>2
    <3>3. ASSUME NEW v \in Workers, Holds(v)' PROVE job'[v] \in 1 .. Taken(v[1])'
      <4>1. CASE v = w
        BY <1>2, <2>2, <2>5, <2>6, <2>7, <4>1
      <4>2. CASE v # w
        BY <2>2, <2>5, <2>6, <2>8, <3>3, <4>2, WorkerParts DEF IInv, QueueInv
      <4>. QED
        BY <4>1, <4>2
    <3>4. \A g \in Hooks : begun'[g] \subseteq 1 .. Taken(g)'
      BY <1>1, <2>5, <2>6 DEF IInv, QueueInv
    <3>5. \A v \in Workers : Busy(v)' => job'[v] \in begun'[v[1]]
      BY <1>1, <2>2, <2>8, <2>9 DEF IInv, QueueInv
    <3>6. \A v \in Workers : phase'[v] = "check" => job'[v] \notin begun'[v[1]]
      <4>1. job'[w] \notin begun'[h]
        BY <1>1, <1>2, <2>2, <2>6, <2>7 DEF IInv, QueueInv
      <4>. QED
        BY <1>1, <2>2, <4>1 DEF IInv, QueueInv
    <3>7. ASSUME NEW v \in Workers \ {w}, Holds(v)' PROVE Job(v)' # Job(w)'
      <4>1. CASE v[1] = h
        <5>1. job[v] \in 1 .. Taken(h) /\ job'[v] = job[v]
          BY <2>2, <2>8, <3>7, <4>1 DEF IInv, QueueInv
        <5>2. job'[v] # job'[w]
          BY <1>2, <2>2, <2>6, <2>7, <5>1
        <5>. QED
          BY <5>2 DEF Job
      <4>. QED
        BY <4>1 DEF Job
    <3>8. ASSUME NEW u \in Workers, NEW v \in Workers, Holds(u)', Holds(v)', Job(u)' = Job(v)'
          PROVE  u = v
      <4>1. CASE u # w /\ v # w
        BY <2>8, <3>8, <4>1 DEF IInv, QueueInv
      <4>. QED
        BY <3>7, <3>8, <4>1
    <3>. QED
      BY <3>1, <3>2, <3>3, <3>4, <3>5, <3>6, <3>8 DEF QueueInv
  <2>11. TurnInv'
    BY <1>1, <2>1, MovesTurn DEF Phases
  <2>12. BegunInv'
    <3>1. ASSUME NEW g \in Hooks, aborted'[g]
          PROVE  failures'[g] # {} \/ \E v \in Workers : v[1] = g /\ phase'[v] = "fail"
      BY <1>1, <2>2, <3>1 DEF IInv, BegunInv
    <3>2. ASSUME NEW g \in Hooks, ~aborted'[g], NEW i \in 1 .. Taken(g)'
          PROVE  i \in begun'[g] \/ \E v \in Workers : phase'[v] = "check" /\ Job(v)' = <<g, i>>
      <4>1. CASE g = h /\ i = Taken(h) + 1
        BY <2>2, <2>7, <4>1 DEF Job
      <4>2. CASE ~(g = h /\ i = Taken(h) + 1)
        <5>1. i \in 1 .. Taken(g)
          BY <2>5, <2>6, <4>2
        <5>2. i \in begun[g] \/ \E v \in Workers : phase[v] = "check" /\ Job(v) = <<g, i>>
          BY <1>1, <3>2, <5>1 DEF IInv, BegunInv
        <5>3. CASE i \in begun[g]
          BY <1>1, <5>3
        <5>4. ASSUME NEW v \in Workers, phase[v] = "check", Job(v) = <<g, i>>
              PROVE  phase'[v] = "check" /\ Job(v)' = <<g, i>>
          BY <1>1, <2>2, <2>8, <5>4
        <5>. QED
          BY <5>2, <5>3, <5>4
      <4>. QED
        BY <4>1, <4>2
    <3>3. \A v \in Workers : phase'[v] = "ended" => phase[v] = "ended"
      BY <2>2
    <3>4. \A v \in Workers : phase'[v] = "ended" =>
            aborted'[v[1]] \/ (jobs'[v[1]] = <<>> /\ ~dispatching'[v[1]])
      BY <1>1, <1>4, <2>3, <3>3, WorkerParts DEF IInv, BegunInv
    <3>. QED
      BY <1>1, <3>1, <3>2, <3>4 DEF IInv, BegunInv
  <2>13. ReadInv'
    <3>1. \A j : Clean(j)' = Clean(j)
      BY <1>1 DEF Clean
    <3>. QED
      BY <1>1, <2>2, <2>8, <2>9, <3>1 DEF IInv, ReadInv
  <2>14. FiledInv'
    <3>1. \A j : Clean(j)' = Clean(j)
      BY <1>1 DEF Clean
    <3>2. \A v \in Workers : Busy(v) => Busy(v)' /\ Job(v)' = Job(v)
      BY <2>8, <2>9
    <3>. QED
      BY <1>1, <3>1, <3>2 DEF IInv, FiledInv
  <2>15. WholeInv'
    BY <1>1, <2>2, <2>9, IdleWhole
  <2>. QED
    BY <1>1, <2>10, <2>11, <2>12, <2>13, <2>14, <2>15, StillInv DEF IInv
<1>5. CASE jobs[h] = <<>>
  <2>1. ~dispatching[h] /\ phase' = [phase EXCEPT ![w] = "ended"] /\ UNCHANGED <<job, jobs>>
    BY <1>5 DEF Take
  <2>2. \A v \in Workers : phase'[v] = IF v = w THEN "ended" ELSE phase[v]
    BY <2>1 DEF IInv, TypeOK, WorkerOK
  <2>3. \A v \in Workers : /\ Holds(v)' = Holds(v) /\ Busy(v)' = Busy(v)
                           /\ Reading(v)' = Reading(v) /\ Job(v)' = Job(v)
                           /\ (phase'[v] = "check" <=> phase[v] = "check")
                           /\ (phase'[v] = "fail" <=> phase[v] = "fail")
    BY <1>1, <2>1, <2>2 DEF Holds, Busy, Reading, Job
  <2>4. QueueInv'
    <3>1. \A g \in Hooks : Taken(g)' = Taken(g)
      BY <1>1, <2>1 DEF Taken
    <3>. QED
      BY <1>1, <2>1, <2>3, <3>1, WorkerParts DEF IInv, QueueInv
  <2>5. TurnInv'
    BY <1>1, <2>1, MovesTurn DEF Phases
  <2>6. BegunInv'
    <3>1. \A g \in Hooks : Taken(g)' = Taken(g)
      BY <1>1, <2>1 DEF Taken
    <3>2. \A v \in Workers : phase'[v] = "ended" =>
            aborted[v[1]] \/ (jobs[v[1]] = <<>> /\ ~dispatching[v[1]])
      BY <1>5, <2>1, <2>2 DEF IInv, BegunInv
    <3>. QED
      BY <1>1, <2>1, <2>3, <3>1, <3>2 DEF IInv, BegunInv
  <2>7. \A j : Clean(j)' = Clean(j)
    BY <1>1 DEF Clean
  <2>8. ReadInv'
    BY <1>1, <2>1, <2>2, <2>3, <2>7 DEF IInv, ReadInv
  <2>9. FiledInv'
    BY <1>1, <2>3, <2>7 DEF IInv, FiledInv
  <2>10. WholeInv'
    BY <1>1, <2>1, <2>3, SameWhole
  <2>. QED
    BY <1>1, <2>1, <2>4, <2>5, <2>6, <2>8, <2>9, <2>10, StillInv DEF IInv
<1>. QED
  BY <1>4, <1>5


LEMMA FailKeeps == ASSUME IInv, NEW w \in Workers, Fail(w), TypeOK' PROVE IInv'
<1> DEFINE h == w[1]
<1>1. /\ UNCHANGED <<scan, hooks, begun, sent, dispatching, jobs, aborted, rows, made, job, block, bad,
                     child, built>>
      /\ phase[w] = "fail" /\ phase' = [phase EXCEPT ![w] = "take"]
      /\ failures' = [failures EXCEPT ![h] = @ \cup {job[w]}]
  BY DEF Fail
<1> USE DEF scan, hooks, child, built
<1>2. h \in Hooks
  BY WorkerParts
<1>3. \A v \in Workers : phase'[v] = IF v = w THEN "take" ELSE phase[v]
  BY <1>1 DEF IInv, TypeOK, WorkerOK
<1>4. \A g \in Hooks : failures'[g] = IF g = h THEN failures[h] \cup {job[w]} ELSE failures[g]
  BY <1>1, <1>2 DEF IInv, TypeOK, PoolOK
<1>5. "take" \in Phases /\ Busy(w) /\ ~Reading(w) /\ ~Reading(w)'
  BY <1>1, <1>3 DEF Phases, Busy, Reading
<1>6. TurnInv'
  BY <1>1, <1>5, MovesTurn
<1>7. QueueInv'
  BY <1>1, <1>5, MovesQueue
<1>8. \A j : Clean(j)' = Clean(j)
  BY <1>1 DEF Clean
<1>9. \A v \in Workers : Job(v)' = Job(v) /\ (v # w => Busy(v)' = Busy(v) /\ Reading(v)' = Reading(v))
  BY <1>1, <1>3 DEF Job, Busy, Reading
<1>10. BegunInv'
  <2>1. ASSUME NEW g \in Hooks, aborted'[g]
        PROVE  failures'[g] # {} \/ \E v \in Workers : v[1] = g /\ phase'[v] = "fail"
    <3>1. failures[g] # {} \/ \E v \in Workers : v[1] = g /\ phase[v] = "fail"
      BY <1>1, <2>1 DEF IInv, BegunInv
    <3>2. CASE g = h
      BY <1>2, <1>4, <3>2
    <3>3. CASE g # h
      BY <1>3, <1>4, <3>1, <3>3
    <3>. QED
      BY <3>2, <3>3
  <2>2. \A g \in Hooks : Taken(g)' = Taken(g)
    BY <1>1 DEF Taken
  <2>3. \A v \in Workers : (phase'[v] = "check" <=> phase[v] = "check")
                           /\ (phase'[v] = "ended" <=> phase[v] = "ended")
    BY <1>1, <1>3
  <2>. QED
    BY <1>1, <1>9, <2>1, <2>2, <2>3 DEF IInv, BegunInv
<1>11. ReadInv'
  BY <1>1, <1>3, <1>5, <1>8, <1>9 DEF IInv, ReadInv
<1>12. FiledInv'
  <2>1. job[w] \in begun[h] /\ ~Clean(<<h, job[w]>>)
    BY <1>1, <1>5 DEF IInv, QueueInv, ReadInv, Job
  <2>2. ASSUME NEW g \in Hooks, NEW i \in failures'[g] PROVE i \in begun'[g] /\ ~Clean(<<g, i>>)'
    <3>1. CASE i \in failures[g]
      BY <1>1, <1>8, <3>1 DEF IInv, FiledInv
    <3>2. CASE g = h /\ i = job[w]
      BY <1>1, <1>8, <2>1, <3>2
    <3>. QED
      BY <1>4, <2>2, <3>1, <3>2
  <2>3. ASSUME NEW g \in Hooks, NEW i \in begun'[g], ~Clean(<<g, i>>)'
        PROVE  i \in failures'[g] \/ \E v \in Workers : Busy(v)' /\ Job(v)' = <<g, i>>
    <3>1. i \in failures[g] \/ \E v \in Workers : Busy(v) /\ Job(v) = <<g, i>>
      BY <1>1, <1>8, <2>3 DEF IInv, FiledInv
    <3>2. CASE i \in failures[g]
      BY <1>4, <3>2
    <3>3. CASE Job(w) = <<g, i>>
      BY <1>2, <1>4, <3>3 DEF Job
    <3>. QED
      BY <1>9, <3>1, <3>2, <3>3
  <2>. QED
    BY <2>2, <2>3 DEF FiledInv
<1>13. WholeInv'
  BY <1>1, <1>3, <1>5, IdleWhole
<1>. QED
  BY <1>1, <1>6, <1>7, <1>10, <1>11, <1>12, <1>13, StillInv DEF IInv

LEMMA DispatchKeeps == ASSUME IInv, NEW h \in Hooks, Dispatch(h), TypeOK' PROVE IInv'
<1> DEFINE n == sent[h]
           u == <<h, n + 1>>
<1>1. /\ UNCHANGED <<scan, hooks, begun, dispatching, aborted, failures, rows, made, job, block, bad,
                     child, built>>
      /\ dispatching[h] /\ n < scanned[h]
      /\ jobs' = [jobs EXCEPT ![h] = Append(@, n + 1)]
      /\ sent' = [sent EXCEPT ![h] = n + 1]
      /\ phase' = IF n < Limit THEN [phase EXCEPT ![u] = "take"] ELSE phase
  BY DEF Dispatch
<1> USE DEF scan, hooks, child, built
<1>2. \A g \in Hooks : /\ jobs[g] \in Seq(Nat) /\ sent[g] \in Nat /\ scanned[g] \in Nat
                       /\ Runs[g] \in Nat /\ Len(jobs[g]) \in Nat
  BY HookNumbers DEF IInv, TypeOK, PoolOK, ScanOK
<1>3. \A g \in Hooks : /\ sent'[g] = IF g = h THEN n + 1 ELSE sent[g]
                       /\ jobs'[g] = IF g = h THEN Append(jobs[h], n + 1) ELSE jobs[g]
  BY <1>1 DEF IInv, TypeOK, PoolOK
<1>a. /\ Len(Append(jobs[h], n + 1)) = Len(jobs[h]) + 1
      /\ DOMAIN Append(jobs[h], n + 1) = 1 .. Len(jobs[h]) + 1
      /\ DOMAIN jobs[h] = 1 .. Len(jobs[h])
      /\ \A k \in 1 .. Len(jobs[h]) + 1 :
           Append(jobs[h], n + 1)[k] = IF k <= Len(jobs[h]) THEN jobs[h][k] ELSE n + 1
  <2>1. jobs[h] \in Seq(Nat) /\ n + 1 \in Nat
    BY <1>2
  <2>. QED
    BY <2>1
<1>4. n < Limit => u \in Workers /\ phase[u] = "absent"
  <2>1. ASSUME n < Limit PROVE u \in Workers
    BY <1>2, <2>1, WorkerParts, RunsAssumption
  <2>2. n \in Nat
    BY <1>2
  <2>. QED
    BY <2>1, <2>2 DEF IInv, TurnInv
<1>5. \A v \in Workers : phase'[v] = IF v = u THEN "take" ELSE phase[v]
  <2>1. CASE n < Limit
    BY <1>1, <1>4, <2>1 DEF IInv, TypeOK, WorkerOK
  <2>2. CASE ~(n < Limit)
    <3>1. \A v \in Workers : v # u
      BY <1>2, <2>2, WorkerParts, RunsAssumption
    <3>. QED
      BY <1>1, <2>2, <3>1
  <2>. QED
    BY <2>1, <2>2
<1>6. \A v \in Workers : v = u => phase[v] = "absent"
  <2>1. \A v \in Workers : v = u => n < Limit
    BY <1>2, WorkerParts, RunsAssumption
  <2>. QED
    BY <1>4, <2>1
<1>. HIDE DEF u
<1>7. \A v \in Workers : /\ Holds(v)' = Holds(v) /\ Busy(v)' = Busy(v)
                         /\ Reading(v)' = Reading(v) /\ Job(v)' = Job(v)
                         /\ (phase'[v] = "check" <=> phase[v] = "check")
                         /\ (phase'[v] = "fail" <=> phase[v] = "fail")
                         /\ (phase'[v] = "ended" <=> phase[v] = "ended")
  BY <1>1, <1>5, <1>6 DEF Holds, Busy, Reading, Job
<1>8. \A g \in Hooks : Taken(g)' = Taken(g)
  <2>1. ASSUME NEW g \in Hooks PROVE Taken(g)' = Taken(g)
    <3>1. Taken(g)' = sent'[g] - Len(jobs'[g])
      BY DEF Taken
    <3>2. Len(jobs'[g]) = IF g = h THEN Len(jobs[g]) + 1 ELSE Len(jobs[g])
      BY <1>3, <1>a
    <3>3. sent'[g] = IF g = h THEN sent[g] + 1 ELSE sent[g]
      BY <1>3
    <3>4. sent[g] \in Nat /\ Len(jobs[g]) \in Nat
      BY <1>2
    <3>. QED
      BY <3>1, <3>2, <3>3, <3>4 DEF Taken
  <2>. QED
    BY <2>1
<1>9. \A j : Clean(j)' = Clean(j)
  BY <1>1 DEF Clean
<1>10. ScanInv'
  <2>1. \A g \in Hooks : sent[g] <= scanned[g] /\ scanned[g] <= Runs[g]
    BY DEF IInv, ScanInv
  <2>2. \A g \in Hooks : sent'[g] <= scanned[g]
    BY <1>1, <1>2, <1>3, <2>1
  <2>. QED
    BY <1>1, <2>1, <2>2 DEF IInv, ScanInv
<1>11. TurnInv'
  <2>1. hook[h] = "running"
    BY <1>1 DEF IInv, TurnInv
  <2>2. \A v \in Workers : phase'[v] = "absent" <=> v[2] > sent'[v[1]]
    <3> SUFFICES ASSUME NEW v \in Workers PROVE phase'[v] = "absent" <=> v[2] > sent'[v[1]]
      OBVIOUS
    <3>1. v[1] \in Hooks /\ v[2] \in Nat /\ v = <<v[1], v[2]>> /\ sent[v[1]] \in Nat
      BY <1>2, WorkerParts
    <3>2. phase[v] = "absent" <=> v[2] > sent[v[1]]
      BY DEF IInv, TurnInv
    <3>3. CASE v = u
      <4>1. v[1] = h /\ v[2] = n + 1
        BY <3>3 DEF u
      <4>. QED
        BY <1>2, <1>3, <1>5, <3>1, <3>3, <4>1
    <3>4. CASE v # u /\ v[1] = h
      <4>1. v[2] # n + 1
        BY <3>1, <3>4 DEF u
      <4>. QED
        BY <1>2, <1>3, <1>5, <3>1, <3>2, <3>4, <4>1
    <3>5. CASE v[1] # h
      <4>1. v # u
        BY <3>5 DEF u
      <4>. QED
        BY <1>3, <1>5, <3>1, <3>2, <3>5, <4>1
    <3>. QED
      BY <3>3, <3>4, <3>5
  <2>3. \A v \in Workers : phase'[v] \notin {"absent", "ended"} => hook[v[1]] = "running"
    <3>1. \A v \in Workers : v = u => v[1] = h
      BY DEF u
    <3>. QED
      BY <1>5, <2>1, <3>1 DEF IInv, TurnInv
  <2>4. \A g \in Hooks : hook[g] \in {"waiting", "peeking"} => sent'[g] = 0
    BY <1>3, <2>1 DEF IInv, TurnInv
  <2>. QED
    BY <1>1, <2>2, <2>3, <2>4 DEF IInv, TurnInv
<1>12. QueueInv'
  <2>1. \A g \in Hooks : Len(jobs'[g]) <= sent'[g]
    <3>1. \A g \in Hooks : Len(jobs[g]) <= sent[g]
      BY DEF IInv, QueueInv
    <3>2. Len(jobs'[h]) = Len(jobs[h]) + 1
      BY <1>3, <1>a
    <3>. QED
      BY <1>2, <1>3, <3>1, <3>2
  <2>2. ASSUME NEW g \in Hooks, NEW k \in DOMAIN jobs'[g] PROVE jobs'[g][k] = Taken(g)' + k
    <3>1. CASE g # h
      BY <1>3, <1>8, <2>2, <3>1 DEF IInv, QueueInv
    <3>2. CASE g = h
      <4>1. /\ k \in 1 .. Len(jobs[h]) + 1 /\ DOMAIN jobs[h] = 1 .. Len(jobs[h])
            /\ jobs'[h][k] = IF k <= Len(jobs[h]) THEN jobs[h][k] ELSE n + 1
        BY <1>3, <1>a, <2>2, <3>2
      <4>2. CASE k <= Len(jobs[h])
        <5>1. k \in DOMAIN jobs[h]
          BY <1>2, <4>1, <4>2
        <5>. QED
          BY <1>8, <3>2, <4>1, <4>2, <5>1 DEF IInv, QueueInv
      <4>3. CASE ~(k <= Len(jobs[h]))
        <5>1. k = Len(jobs[h]) + 1
          BY <1>2, <4>1, <4>3
        <5>. QED
          BY <1>2, <1>8, <3>2, <4>1, <4>3, <5>1 DEF Taken
      <4>. QED
        BY <4>2, <4>3
    <3>. QED
      BY <3>1, <3>2
  <2>. QED
    BY <1>1, <1>7, <1>8, <2>1, <2>2, WorkerParts DEF IInv, QueueInv
<1>13. BegunInv'
  <2>1. \A g \in Hooks : hook[g] = "running" /\ ~dispatching[g] => aborted[g] \/ sent'[g] = Runs[g]
    BY <1>1, <1>3 DEF IInv, BegunInv
  <2>2. \A v \in Workers : phase'[v] = "ended" =>
          aborted[v[1]] \/ (jobs'[v[1]] = <<>> /\ ~dispatching[v[1]])
    BY <1>1, <1>3, <1>7, WorkerParts DEF IInv, BegunInv
  <2>. QED
    BY <1>1, <1>7, <1>8, <2>1, <2>2 DEF IInv, BegunInv
<1>14. ReadInv'
  BY <1>1, <1>5, <1>6, <1>7, <1>9 DEF IInv, ReadInv
<1>15. FiledInv'
  BY <1>1, <1>7, <1>9 DEF IInv, FiledInv
<1>16. WholeInv'
  BY <1>1, <1>7, SameWhole
<1>. QED
  BY <1>1, <1>10, <1>11, <1>12, <1>13, <1>14, <1>15, <1>16, StillInv DEF IInv


\* What a step of its worker has to leave true of a run.
LEMMA OwnRun ==
  ASSUME IInv, NEW w \in Workers, Holds(w), NEW j, j = Job(w), UNCHANGED job,
         \A v \in Workers \ {w} : phase'[v] = phase[v],
         job[w] \in begun'[w[1]],
         IsPrefix(Got(j)', script'[j].lines),
         Reading(w)' /\ ~bad'[w] =>
           ((Got(j)' \o block'[w]) \o out'[w]) \o left'[w] = script'[j].lines,
         ~Reading(w)' /\ Clean(j)' => Got(j)' = script'[j].lines
  PROVE  RunWhole(j)'
<1>1. \A v \in Workers : Job(v)' = Job(v)
  BY DEF Job
<1>2. \A v \in Workers \ {w} : ~(Reading(v)' /\ Job(v) = j)
  BY OwnWorker DEF Holds, Busy, Reading
<1>3. j[1] = w[1] /\ j[2] = job[w]
  BY DEF Job
<1>. QED
  BY <1>1, <1>2, <1>3 DEF RunWhole

LEMMA ReapKeeps == ASSUME IInv, NEW w \in Workers, Reap(w), TypeOK' PROVE IInv'
<1> DEFINE h == w[1]
           fails == bad[w] \/ ~script[Job(w)].ok
<1>1. /\ UNCHANGED <<scan, hooks, begun, sent, dispatching, jobs, failures, rows, made, job, block, bad,
                     child, built>>
      /\ phase[w] = "reap" /\ ~alive[w]
      /\ phase' = [phase EXCEPT ![w] = IF fails THEN "fail" ELSE "take"]
      /\ aborted' = [aborted EXCEPT ![h] = @ \/ fails]
  BY DEF Reap, Job
<1> USE DEF scan, hooks, child, built
<1>2. h \in Hooks
  BY WorkerParts
<1>3. \A v \in Workers : phase'[v] = IF v = w THEN (IF fails THEN "fail" ELSE "take") ELSE phase[v]
  BY <1>1 DEF IInv, TypeOK, WorkerOK
<1>4. \A g \in Hooks : aborted'[g] = IF g = h THEN aborted[g] \/ fails ELSE aborted[g]
  BY <1>1 DEF IInv, TypeOK, PoolOK
<1>5. Busy(w) /\ Reading(w) /\ Holds(w) /\ ~Reading(w)'
  BY <1>1, <1>3 DEF Holds, Busy, Reading
<1>6. fails <=> ~Clean(Job(w))
  <2>1. out[w] = <<>> /\ left[w] = <<>>
    BY <1>1, <1>5 DEF IInv, ReadInv
  <2>2. "bad" \in ToSet(script[Job(w)].lines) <=> bad[w] \/ "bad" \in ToSet(<<>>) \cup ToSet(<<>>)
    BY <1>5, <2>1 DEF IInv, ReadInv
  <2>3. ToSet(<<>>) = {}
    BY DEF ToSet
  <2>. QED
    BY <2>2, <2>3 DEF Clean
<1>. HIDE DEF fails
<1> DEFINE p == IF fails THEN "fail" ELSE "take"
<1>7. p \in Phases /\ p \notin {"absent", "check"} /\ phase' = [phase EXCEPT ![w] = p]
  BY <1>1 DEF Phases
<1>. HIDE DEF p
<1>8. TurnInv'
  BY <1>1, <1>7, MovesTurn
<1>9. QueueInv'
  BY <1>1, <1>5, <1>7, MovesQueue
<1>10. \A j : Clean(j)' = Clean(j) /\ Got(j)' = Got(j)
  BY <1>1 DEF Clean, Got, Stream
<1>11. \A v \in Workers : Job(v)' = Job(v) /\ (v # w => Busy(v)' = Busy(v) /\ Reading(v)' = Reading(v))
  BY <1>1, <1>3 DEF Job, Busy, Reading
<1>12. BegunInv'
  <2>1. ASSUME NEW g \in Hooks, aborted'[g]
        PROVE  failures'[g] # {} \/ \E v \in Workers : v[1] = g /\ phase'[v] = "fail"
    <3>1. CASE aborted[g]
      <4>1. failures[g] # {} \/ \E v \in Workers : v[1] = g /\ phase[v] = "fail"
        BY <3>1 DEF IInv, BegunInv
      <4>. QED
        BY <1>1, <1>3, <4>1
    <3>2. CASE g = h /\ fails
      BY <1>3, <3>2
    <3>. QED
      BY <1>4, <2>1, <3>1, <3>2
  <2>2. \A g \in Hooks : Taken(g)' = Taken(g)
    BY <1>1 DEF Taken
  <2>3. \A v \in Workers : (phase'[v] = "check" <=> phase[v] = "check")
                           /\ (phase'[v] = "ended" <=> phase[v] = "ended")
    BY <1>1, <1>3
  <2>4. \A g \in Hooks : ~aborted'[g] => ~aborted[g]
    BY <1>4
  <2>5. \A v \in Workers : v[1] \in Hooks
    BY WorkerParts
  <2>. QED
    BY <1>1, <1>11, <2>1, <2>2, <2>3, <2>4, <2>5 DEF IInv, BegunInv
<1>13. ReadInv'
  BY <1>1, <1>3, <1>5, <1>6, <1>10, <1>11 DEF IInv, ReadInv
<1>14. FiledInv'
  <2>1. ASSUME NEW g \in Hooks, NEW i \in begun[g], ~Clean(<<g, i>>)
        PROVE  i \in failures[g] \/ \E v \in Workers : Busy(v)' /\ Job(v)' = <<g, i>>
    <3>1. i \in failures[g] \/ \E v \in Workers : Busy(v) /\ Job(v) = <<g, i>>
      BY <2>1 DEF IInv, FiledInv
    <3>2. CASE Job(w) = <<g, i>>
      <4>1. phase'[w] = "fail"
        BY <1>3, <1>6, <2>1, <3>2
      <4>. QED
        BY <1>11, <3>2, <4>1 DEF Busy
    <3>. QED
      BY <1>11, <3>1, <3>2
  <2>. QED
    BY <1>1, <1>10, <2>1 DEF IInv, FiledInv
<1>15. WholeInv'
  <2> SUFFICES ASSUME NEW j \in Jobs, RunWhole(j) PROVE RunWhole(j)'
    BY <1>1, KeepsWhole
  <2>1. CASE j # Job(w)
    BY <1>1, <1>3, <1>10, <1>11, <2>1, OtherRuns
  <2>2. CASE j = Job(w)
    <3>1. job[w] \in begun'[h]
      BY <1>1, <1>5 DEF IInv, QueueInv
    <3>2. IsPrefix(Got(j)', script'[j].lines)
      BY <1>1, <1>10 DEF RunWhole
    <3>3. ASSUME Clean(j) PROVE Got(j) = script[j].lines
      <4>1. ~bad[w]
        BY <1>6, <2>2, <3>3 DEF fails
      <4>2. ((Got(j) \o block[w]) \o out[w]) \o left[w] = script[j].lines
        BY <1>5, <2>2, <4>1 DEF RunWhole
      <4>3. block[w] = <<>> /\ out[w] = <<>> /\ left[w] = <<>>
        BY <1>1, <1>5 DEF IInv, ReadInv
      <4>4. Got(j) \in Seq(Line)
        BY GotType DEF IInv
      <4>. QED
        BY <4>2, <4>3, <4>4, ConcatEmptySeq
    <3>. QED
      BY <1>1, <1>3, <1>5, <1>10, <2>2, <3>1, <3>2, <3>3, OwnRun
  <2>. QED
    BY <2>1, <2>2
<1>. QED
  BY <1>1, <1>8, <1>9, <1>12, <1>13, <1>14, <1>15, StillInv DEF IInv


LEMMA SendKeeps == ASSUME IInv, NEW w \in Workers, Send(w), TypeOK' PROVE IInv'
<1> DEFINE h == w[1]
           c == [run |-> job[w], lines |-> block[w]]
<1>1. /\ UNCHANGED <<scan, hooks, pool, made, job, bad, child, built>>
      /\ phase[w] = "send" /\ phase' = [phase EXCEPT ![w] = "drain"]
      /\ rows' = [rows EXCEPT ![h] = Append(@, c)]
      /\ block' = [block EXCEPT ![w] = <<>>]
  BY DEF Send
<1> USE DEF scan, hooks, pool, child, built
<1>2. h \in Hooks /\ c \in Chunk /\ c.run = job[w] /\ c.lines = block[w]
  BY WorkerParts DEF IInv, TypeOK, WorkerOK, Chunk
<1>. HIDE DEF c
<1>3. \A v \in Workers : /\ phase'[v] = IF v = w THEN "drain" ELSE phase[v]
                         /\ block'[v] = IF v = w THEN <<>> ELSE block[v]
  BY <1>1 DEF IInv, TypeOK, WorkerOK
<1>4. \A g \in Hooks : rows'[g] = IF g = h THEN Append(rows[h], c) ELSE rows[g]
  BY <1>1, <1>2 DEF IInv, TypeOK, RowsOK
<1>5. "drain" \in Phases /\ Busy(w) /\ Holds(w) /\ Reading(w) /\ Reading(w)'
  BY <1>1, <1>3 DEF Phases, Holds, Busy, Reading
<1>6. TurnInv'
  BY <1>1, <1>5, MovesTurn
<1>7. QueueInv'
  BY <1>1, <1>5, MovesQueue
<1>8. BegunInv'
  BY <1>1, <1>5, MovesBegun
<1>9. FiledInv'
  BY <1>1, <1>5, MovesFiled
<1>10. \A v \in Workers : Reading(v)' = Reading(v) /\ Job(v)' = Job(v)
  BY <1>1, <1>3 DEF Reading, Job
<1>11. \A j : Clean(j)' = Clean(j) /\ Lines(j[1], j[2])' = Lines(j[1], j[2])
  BY <1>1 DEF Clean, Lines
<1>12. ReadInv'
  BY <1>1, <1>3, <1>10, <1>11 DEF IInv, ReadInv
<1>13. OutcomeInv'
  <2>1. hook[h] # "ended"
    BY <1>1, AtWorkRunning
  <2>2. \A g : Reports(g)' = Reports(g)
    BY <1>1 DEF Reports, Clean
  <2>. QED
    BY <1>1, <1>4, <2>1, <2>2 DEF IInv, OutcomeInv
<1>14. WholeInv'
  <2>1. \A g \in Hooks : /\ Stream(g) \in Seq(Chunk)
                         /\ Stream(g)' = IF g = h THEN Append(Stream(h), c) ELSE Stream(g)
    <3>1. ASSUME NEW s \in Seq(Chunk), NEW t \in Seq(Chunk)
          PROVE  s \o Append(t, c) = Append(s \o t, c) /\ s \o t \in Seq(Chunk)
      BY <1>2, ConcatAssociative, AppendIsConcat
    <3>2. \A g \in Hooks : /\ written[g] \o made[g] \in Seq(Chunk) /\ rows[g] \in Seq(Chunk)
                           /\ written'[g] = written[g] /\ made'[g] = made[g]
      BY <1>1 DEF IInv, TypeOK, RowsOK, BuiltOK
    <3> SUFFICES ASSUME NEW g \in Hooks
                 PROVE  /\ Stream(g) \in Seq(Chunk)
                        /\ Stream(g)' = IF g = h THEN Append(Stream(h), c) ELSE Stream(g)
      OBVIOUS
    <3>3. PICK s \in Seq(Chunk), t \in Seq(Chunk) : s = written[g] \o made[g] /\ t = rows[g]
      BY <3>2
    <3>4. Stream(g) = s \o t /\ Stream(g)' = IF g = h THEN s \o Append(t, c) ELSE s \o t
      BY <1>4, <3>2, <3>3 DEF Stream
    <3>5. s \o Append(t, c) = Append(s \o t, c) /\ s \o t \in Seq(Chunk)
      BY <3>1
    <3>6. CASE g = h
      BY <3>4, <3>5, <3>6
    <3>7. CASE g # h
      BY <3>4, <3>5, <3>7
    <3>. QED
      BY <3>6, <3>7
  <2>2. job[w] \in begun[h]
    BY <1>5 DEF IInv, QueueInv
  <2>3. ASSUME NEW g \in Hooks, NEW n \in DOMAIN Stream(g)' PROVE Stream(g)'[n].run \in begun'[g]
    <3>1. \A k \in DOMAIN Stream(g) : Stream(g)[k].run \in begun[g]
      BY DEF IInv, WholeInv
    <3>2. CASE g # h
      BY <1>1, <2>1, <2>3, <3>1, <3>2
    <3>3. CASE g = h
      <4>1. PICK s \in Seq(Chunk) : s = Stream(h)
        BY <1>2, <2>1
      <4>2. n \in 1 .. Len(s) + 1 /\ Stream(g)'[n] = IF n <= Len(s) THEN s[n] ELSE c
        BY <1>2, <2>1, <2>3, <3>3, <4>1
      <4>3. n <= Len(s) => n \in DOMAIN s
        BY <4>2
      <4>. QED
        BY <1>1, <1>2, <2>2, <3>1, <3>3, <4>1, <4>2, <4>3
    <3>. QED
      BY <3>2, <3>3
  <2>4. ASSUME NEW j \in Jobs
        PROVE  Got(j)' = IF j = Job(w) THEN Got(j) \o block[w] ELSE Got(j)
    <3>1. j[1] \in Hooks /\ j = <<j[1], j[2]>> /\ Got(j) \in Seq(Line)
      BY JobParts, GotType DEF IInv
    <3>2. CASE j[1] # h
      BY <2>1, <3>1, <3>2 DEF Got, Job
    <3>3. CASE j[1] = h
      <4>1. Got(j)' = Got(j) \o (IF c.run = j[2] THEN c.lines ELSE <<>>)
        <5>1. Got(j)' = Of(Append(Stream(h), c), j[2]) /\ Got(j) = Of(Stream(h), j[2])
          BY <2>1, <3>1, <3>3 DEF Got
        <5>2. Stream(h) \in Seq(Chunk) /\ c \in Chunk
          BY <1>2, <2>1
        <5>3. Of(Append(Stream(h), c), j[2]) =
                Of(Stream(h), j[2]) \o (IF c.run = j[2] THEN c.lines ELSE <<>>)
          BY <5>2, OfAppend
        <5>. QED
          BY <5>1, <5>3
      <4>2. j = Job(w) <=> c.run = j[2]
        BY <1>2, <3>1, <3>3 DEF Job
      <4>. QED
        BY <1>2, <3>1, <4>1, <4>2, ConcatEmptySeq
    <3>. QED
      BY <3>2, <3>3
  <2>5. ASSUME NEW j \in Jobs, RunWhole(j) PROVE RunWhole(j)'
    <3>1. CASE j # Job(w)
      BY <1>1, <1>3, <1>10, <2>4, <2>5, <3>1, OtherRuns
    <3>2. CASE j = Job(w)
      <4>1. /\ Got(j) \in Seq(Line) /\ block[w] \in Seq(Line) /\ out[w] \in Seq(Line)
            /\ left[w] \in Seq(Line)
        BY GotType DEF IInv, TypeOK, WorkerOK, ChildOK
      <4>2. ((Got(j) \o block[w]) \o out[w]) \o left[w] = script[j].lines
        <5>1. ~bad[w]
          BY <1>1 DEF IInv, ReadInv
        <5>. QED
          BY <1>5, <2>5, <3>2, <5>1 DEF RunWhole
      <4>3. (Got(j) \o block[w]) \o <<>> = Got(j) \o block[w] /\ Got(j) \o block[w] \in Seq(Line)
        BY <4>1, ConcatEmptySeq, Regroup
      <4>4. IsPrefix(Got(j) \o block[w], script[j].lines)
        <5>1. out[w] \o left[w] \in Seq(Line)
              /\ (Got(j) \o block[w]) \o (out[w] \o left[w]) = script[j].lines
          BY <4>1, <4>2, <4>3, Regroup
        <5>. QED
          BY <4>3, <5>1, PrefixFacts
      <4>5. job[w] \in begun'[h]
        BY <1>1, <2>2
      <4>. QED
        BY <1>1, <1>3, <1>5, <2>4, <3>2, <4>2, <4>3, <4>4, <4>5, OwnRun
    <3>. QED
      BY <3>1, <3>2
  <2>6. \A g \in Hooks : Intact(g)' = Intact(g)
    BY <1>1 DEF Intact
  <2>7. \A j \in Jobs : j[1] \in Hooks
    BY JobParts
  <2>8. \A j \in Jobs : Intact(j[1])' => RunWhole(j)'
    BY <2>5, <2>6, <2>7 DEF IInv, WholeInv
  <2>9. \A j \in Jobs : IsPrefix(Lines(j[1], j[2]), script[j].lines)'
                        /\ "odd" \notin ToSet(Lines(j[1], j[2]))'
    BY <1>1, <1>11 DEF IInv, WholeInv
  <2>. QED
    BY <2>3, <2>8, <2>9 DEF WholeInv
<1>. QED
  BY <1>1, <1>6, <1>7, <1>8, <1>9, <1>12, <1>13, <1>14, StillInv DEF IInv

LEMMA DrainKeeps == ASSUME IInv, NEW w \in Workers, Drain(w), TypeOK' PROVE IInv'
<1> DEFINE spoilt == bad[w] \/ "bad" \in ToSet(out[w])
<1>1. /\ UNCHANGED <<scan, hooks, pool, rows, made, job, err, left, noise, alive, built>>
      /\ phase[w] = "drain" /\ out' = [out EXCEPT ![w] = <<>>]
  BY DEF Drain
<1> USE DEF scan, hooks, pool, built
<1>2. \A v \in Workers : out'[v] = IF v = w THEN <<>> ELSE out[v]
  BY <1>1 DEF IInv, TypeOK, ChildOK
<1>3. Busy(w) /\ Holds(w) /\ Reading(w) /\ {"drain", "send"} \subseteq Phases
  BY <1>1 DEF Phases, Holds, Busy, Reading
<1>4. \A j : Clean(j)' = Clean(j) /\ Got(j)' = Got(j)
  BY <1>1 DEF Clean, Got, Stream
<1>5. block[w] = <<>>
  BY <1>1 DEF IInv, ReadInv
<1>6. "bad" \in ToSet(script[Job(w)].lines) <=> bad[w] \/ "bad" \in ToSet(out[w]) \cup ToSet(left[w])
  BY <1>3 DEF IInv, ReadInv
<1>7. ToSet(<<>>) = {}
  BY DEF ToSet
<1>8. job[w] \in begun'[w[1]]
  BY <1>1, <1>3 DEF IInv, QueueInv
<1>9. CASE spoilt
  <2>1. UNCHANGED <<phase, block>> /\ bad' = [bad EXCEPT ![w] = TRUE]
    BY <1>9 DEF Drain
  <2>2. \A v \in Workers : bad'[v] = IF v = w THEN TRUE ELSE bad[v]
    BY <2>1 DEF IInv, TypeOK, WorkerOK
  <2>3. \A v \in Workers : Reading(v)' = Reading(v) /\ Job(v)' = Job(v)
    BY <1>1, <2>1 DEF Reading, Job
  <2>4. ReadInv'
    <3>1. "bad" \in ToSet(script[Job(w)].lines)
      BY <1>6, <1>9
    <3>2. \A v \in Workers : Reading(v)' =>
            ("bad" \in ToSet(script[Job(v)].lines)
               <=> bad'[v] \/ "bad" \in ToSet(out'[v]) \cup ToSet(left[v]))
      BY <1>2, <2>2, <2>3, <3>1 DEF IInv, ReadInv
    <3>3. \A v \in Workers : IF phase[v] = "send" THEN ~bad'[v] ELSE block[v] = <<>>
      BY <1>1, <2>2 DEF IInv, ReadInv
    <3>4. \A v \in Workers : phase[v] \notin {"drain", "send"} => out'[v] = <<>>
      BY <1>2 DEF IInv, ReadInv
    <3>. QED
      BY <1>1, <1>4, <2>1, <2>3, <3>2, <3>3, <3>4 DEF IInv, ReadInv
  <2>5. WholeInv'
    <3> SUFFICES ASSUME NEW j \in Jobs, RunWhole(j) PROVE RunWhole(j)'
      BY <1>1, KeepsWhole
    <3>1. CASE j # Job(w)
      BY <1>1, <1>2, <1>4, <2>1, <2>2, <2>3, <3>1, OtherRuns
    <3>2. CASE j = Job(w)
      <4>1. IsPrefix(Got(j)', script'[j].lines)
        BY <1>1, <1>4 DEF RunWhole
      <4>. QED
        BY <1>1, <1>3, <1>8, <2>1, <2>2, <2>3, <3>2, <4>1, OwnRun
    <3>. QED
      BY <3>1, <3>2
  <2>. QED
    BY <1>1, <2>1, <2>4, <2>5, StillInv DEF IInv
<1>10. CASE ~spoilt
  <2>1. /\ block' = [block EXCEPT ![w] = out[w]]
        /\ phase' = [phase EXCEPT ![w] = "send"] /\ UNCHANGED bad
    BY <1>10 DEF Drain
  <2>2. \A v \in Workers : /\ phase'[v] = IF v = w THEN "send" ELSE phase[v]
                           /\ block'[v] = IF v = w THEN out[w] ELSE block[v]
    BY <2>1 DEF IInv, TypeOK, WorkerOK
  <2>3. \A v \in Workers : Reading(v)' = Reading(v) /\ Job(v)' = Job(v)
    BY <1>1, <2>2 DEF Reading, Job
  <2>4. TurnInv'
    BY <1>1, <1>3, <2>1, MovesTurn
  <2>5. QueueInv'
    BY <1>1, <1>3, <2>1, MovesQueue
  <2>6. BegunInv'
    BY <1>1, <1>3, <2>1, MovesBegun
  <2>7. FiledInv'
    BY <1>1, <1>3, <2>1, MovesFiled
  <2>8. ReadInv'
    <3>1. \A v \in Workers : Reading(v)' =>
            ("bad" \in ToSet(script[Job(v)].lines)
               <=> bad[v] \/ "bad" \in ToSet(out'[v]) \cup ToSet(left[v]))
      <4>1. "bad" \in ToSet(script[Job(w)].lines) <=> bad[w] \/ "bad" \in ToSet(<<>>) \cup ToSet(left[w])
        BY <1>6, <1>7, <1>10
      <4>. QED
        BY <1>2, <2>3, <4>1 DEF IInv, ReadInv
    <3>2. \A v \in Workers : IF phase'[v] = "send" THEN ~bad[v] ELSE block'[v] = <<>>
      BY <1>10, <2>2 DEF IInv, ReadInv
    <3>3. \A v \in Workers : phase'[v] \notin {"drain", "send"} => out'[v] = <<>>
      BY <1>2, <2>2 DEF IInv, ReadInv
    <3>4. \A v \in Workers : alive[v] => phase'[v] \in {"drain", "send"}
      BY <2>2 DEF IInv, ReadInv
    <3>5. \A v \in Workers : phase'[v] = "fail" => ~Clean(Job(v))
      BY <2>2 DEF IInv, ReadInv
    <3>. QED
      BY <1>1, <1>4, <2>1, <2>3, <3>1, <3>2, <3>3, <3>4, <3>5 DEF IInv, ReadInv
  <2>9. WholeInv'
    <3> SUFFICES ASSUME NEW j \in Jobs, RunWhole(j) PROVE RunWhole(j)'
      BY <1>1, KeepsWhole
    <3>1. CASE j # Job(w)
      BY <1>1, <1>2, <1>4, <2>1, <2>2, <2>3, <3>1, OtherRuns
    <3>2. CASE j = Job(w)
      <4>1. IsPrefix(Got(j)', script'[j].lines)
        BY <1>1, <1>4 DEF RunWhole
      <4>2. Got(j) \in Seq(Line) /\ out[w] \in Seq(Line)
        BY GotType DEF IInv, TypeOK, ChildOK
      <4>3. ((Got(j) \o <<>>) \o out[w]) \o left[w] = script[j].lines
        BY <1>3, <1>5, <1>10, <3>2 DEF RunWhole
      <4>4. Got(j) \o <<>> = Got(j) /\ (Got(j) \o out[w]) \o <<>> = Got(j) \o out[w]
        BY <4>2, ConcatEmptySeq, Regroup
      <4>5. ((Got(j) \o out[w]) \o <<>>) \o left[w] = script[j].lines
        BY <4>3, <4>4
      <4>6. ((Got(j)' \o block'[w]) \o out'[w]) \o left'[w] = script'[j].lines
        BY <1>1, <1>2, <1>4, <2>2, <4>5
      <4>. QED
        BY <1>1, <1>3, <1>8, <2>2, <2>3, <3>2, <4>1, <4>6, OwnRun
    <3>. QED
      BY <3>1, <3>2
  <2>. QED
    BY <1>1, <2>1, <2>4, <2>5, <2>6, <2>7, <2>8, <2>9, StillInv DEF IInv
<1>. QED
  BY <1>9, <1>10


LEMMA SpawnKeeps == ASSUME IInv, NEW w \in Workers, Spawn(w), TypeOK' PROVE IInv'
<1> DEFINE h == w[1]
<1>1. /\ UNCHANGED <<scan, hooks, sent, dispatching, jobs, aborted, failures, rows, made, job, block,
                     out, err, built>>
      /\ phase[w] = "check"
  BY DEF Spawn
<1> USE DEF scan, hooks, built
<1>2. h \in Hooks
  BY WorkerParts
<1>3. Holds(w) /\ ~Busy(w) /\ ~Reading(w) /\ {"drain", "ended"} \subseteq Phases
  BY <1>1 DEF Holds, Busy, Reading, Phases
<1>4. \A v \in Workers : Job(v)' = Job(v)
  BY <1>1 DEF Job
<1>5. \A g \in Hooks : Taken(g)' = Taken(g)
  BY <1>1 DEF Taken
<1>6. \A j : Clean(j)' = Clean(j) /\ Got(j)' = Got(j)
  BY <1>1 DEF Clean, Got, Stream
<1>7. CASE aborted[h]
  <2>1. phase' = [phase EXCEPT ![w] = "ended"] /\ UNCHANGED <<bad, left, noise, alive, begun>>
    BY <1>7 DEF Spawn
  <2>2. \A v \in Workers : phase'[v] = IF v = w THEN "ended" ELSE phase[v]
    BY <2>1 DEF IInv, TypeOK, WorkerOK
  <2>3. \A v \in Workers : /\ Busy(v)' = Busy(v) /\ Reading(v)' = Reading(v)
                           /\ (Holds(v)' => Holds(v))
                           /\ (phase'[v] = "check" => phase[v] = "check")
                           /\ (phase'[v] = "fail" <=> phase[v] = "fail")
    BY <1>1, <2>2 DEF Holds, Busy, Reading
  <2>4. QueueInv'
    BY <1>1, <1>4, <1>5, <2>1, <2>3, WorkerParts DEF IInv, QueueInv
  <2>5. TurnInv'
    BY <1>1, <1>3, <2>1, MovesTurn
  <2>6. BegunInv'
    <3>1. ASSUME NEW g \in Hooks, ~aborted[g], NEW i \in 1 .. Taken(g)
          PROVE  i \in begun[g] \/ \E v \in Workers : phase'[v] = "check" /\ Job(v) = <<g, i>>
      <4>1. i \in begun[g] \/ \E v \in Workers : phase[v] = "check" /\ Job(v) = <<g, i>>
        BY <3>1 DEF IInv, BegunInv
      <4>2. Job(w) # <<g, i>>
        BY <1>7, <3>1 DEF Job
      <4>. QED
        BY <2>2, <4>1, <4>2
    <3>2. \A v \in Workers : phase'[v] = "ended" =>
            aborted[v[1]] \/ (jobs[v[1]] = <<>> /\ ~dispatching[v[1]])
      BY <1>7, <2>2 DEF IInv, BegunInv
    <3>. QED
      BY <1>1, <1>4, <1>5, <2>1, <2>3, <3>1, <3>2 DEF IInv, BegunInv
  <2>7. ReadInv'
    BY <1>1, <1>4, <1>6, <2>1, <2>2, <2>3 DEF IInv, ReadInv
  <2>8. FiledInv'
    BY <1>1, <1>4, <1>6, <2>1, <2>3 DEF IInv, FiledInv
  <2>9. WholeInv'
    BY <1>1, <2>1, <2>3, SameWhole
  <2>. QED
    BY <1>1, <2>1, <2>4, <2>5, <2>6, <2>7, <2>8, <2>9, StillInv DEF IInv
<1>8. CASE ~aborted[h]
  <2>1. /\ phase' = [phase EXCEPT ![w] = "drain"]
        /\ bad' = [bad EXCEPT ![w] = FALSE]
        /\ left' = [left EXCEPT ![w] = script[Job(w)].lines]
        /\ alive' = [alive EXCEPT ![w] = TRUE]
        /\ begun' = [begun EXCEPT ![h] = @ \cup {job[w]}]
    BY <1>8 DEF Spawn, Job
  <2>2. \A v \in Workers : /\ phase'[v] = IF v = w THEN "drain" ELSE phase[v]
                           /\ bad'[v] = IF v = w THEN FALSE ELSE bad[v]
    BY <2>1 DEF IInv, TypeOK, WorkerOK
  <2>3. \A v \in Workers : /\ left'[v] = IF v = w THEN script[Job(w)].lines ELSE left[v]
                           /\ alive'[v] = IF v = w THEN TRUE ELSE alive[v]
    BY <2>1 DEF IInv, TypeOK, ChildOK
  <2>4. \A g \in Hooks : begun'[g] = IF g = h THEN begun[h] \cup {job[w]} ELSE begun[g]
    BY <1>2, <2>1 DEF IInv, TypeOK, PoolOK
  <2>5. Busy(w)' /\ Reading(w)'
    BY <2>2 DEF Busy, Reading
  <2>6. \A v \in Workers : /\ (Holds(v)' <=> Holds(v)) /\ (Busy(v)' <=> Busy(v) \/ v = w)
                           /\ (Reading(v)' <=> Reading(v) \/ v = w)
                           /\ (phase'[v] = "check" => phase[v] = "check" /\ v # w)
                           /\ (phase'[v] = "fail" <=> phase[v] = "fail")
                           /\ (phase'[v] = "ended" <=> phase[v] = "ended")
    <3> SUFFICES ASSUME NEW v \in Workers
                 PROVE  /\ (Holds(v)' <=> Holds(v)) /\ (Busy(v)' <=> Busy(v) \/ v = w)
                        /\ (Reading(v)' <=> Reading(v) \/ v = w)
                        /\ (phase'[v] = "check" => phase[v] = "check" /\ v # w)
                        /\ (phase'[v] = "fail" <=> phase[v] = "fail")
                        /\ (phase'[v] = "ended" <=> phase[v] = "ended")
      OBVIOUS
    <3>1. CASE v = w
      BY <1>1, <2>2, <3>1 DEF Holds, Busy, Reading
    <3>2. CASE v # w
      <4>1. phase'[v] = phase[v]
        BY <2>2, <3>2
      <4>. QED
        BY <3>2, <4>1 DEF Holds, Busy, Reading
    <3>. QED
      BY <3>1, <3>2
  <2>7. job[w] \in 1 .. Taken(h) /\ job[w] \notin begun[h] /\ job[w] \in begun'[h]
    BY <1>1, <1>2, <1>3, <2>4 DEF IInv, QueueInv
  <2>8. Job(w) = <<h, job[w]>> /\ Job(w) \in Jobs
    BY <1>3, OwnWorker DEF Job
  <2>9. QueueInv'
    <3>1. \A g \in Hooks : begun'[g] \subseteq 1 .. Taken(g)
      BY <2>4, <2>7 DEF IInv, QueueInv
    <3>2. \A v \in Workers : Busy(v)' => job[v] \in begun'[v[1]]
      BY <1>2, <2>4, <2>6, <2>7, WorkerParts DEF IInv, QueueInv
    <3>3. ASSUME NEW v \in Workers, phase'[v] = "check" PROVE job[v] \notin begun'[v[1]]
      <4>1. v # w /\ Holds(v) /\ job[v] \notin begun[v[1]]
        BY <2>6, <3>3 DEF IInv, QueueInv, Holds
      <4>2. Job(v) # Job(w)
        BY <1>3, <4>1, OwnWorker
      <4>. QED
        BY <2>4, <4>1, <4>2, WorkerParts DEF Job
    <3>. QED
      BY <1>1, <1>4, <1>5, <2>6, <3>1, <3>2, <3>3, WorkerParts DEF IInv, QueueInv
  <2>10. TurnInv'
    BY <1>1, <1>3, <2>1, MovesTurn
  <2>11. BegunInv'
    <3>1. ASSUME NEW g \in Hooks, ~aborted[g], NEW i \in 1 .. Taken(g)
          PROVE  i \in begun'[g] \/ \E v \in Workers : phase'[v] = "check" /\ Job(v) = <<g, i>>
      <4>1. i \in begun[g] \/ \E v \in Workers : phase[v] = "check" /\ Job(v) = <<g, i>>
        BY <3>1 DEF IInv, BegunInv
      <4>2. CASE Job(w) = <<g, i>>
        BY <2>7, <2>8, <4>2
      <4>3. CASE Job(w) # <<g, i>>
        BY <2>2, <2>4, <4>1, <4>3
      <4>. QED
        BY <4>2, <4>3
    <3>. QED
      BY <1>1, <1>4, <1>5, <2>6, <3>1 DEF IInv, BegunInv
  <2>12. ReadInv'
    <3>1. ToSet(<<>>) = {} /\ out[w] = <<>> /\ block[w] = <<>>
      BY <1>1 DEF IInv, ReadInv, ToSet
    <3>2. \A v \in Workers : Reading(v)' =>
            ("bad" \in ToSet(script[Job(v)].lines)
               <=> bad'[v] \/ "bad" \in ToSet(out[v]) \cup ToSet(left'[v]))
      BY <2>2, <2>3, <2>6, <3>1 DEF IInv, ReadInv
    <3>3. \A v \in Workers : IF phase'[v] = "send" THEN ~bad'[v] ELSE block[v] = <<>>
      BY <2>2, <3>1 DEF IInv, ReadInv
    <3>4. \A v \in Workers : phase'[v] \notin {"drain", "send"} => out[v] = <<>>
      BY <2>2 DEF IInv, ReadInv
    <3>5. \A v \in Workers : /\ alive'[v] => phase'[v] \in {"drain", "send"}
                             /\ Reading(v)' /\ ~alive'[v] => left'[v] = <<>>
      BY <2>2, <2>3, <2>6 DEF IInv, ReadInv
    <3>6. \A v \in Workers : phase'[v] = "fail" => ~Clean(Job(v))
      BY <2>6 DEF IInv, ReadInv
    <3>. QED
      BY <1>1, <1>4, <1>6, <3>2, <3>3, <3>4, <3>5, <3>6 DEF ReadInv
  <2>13. FiledInv'
    <3>1. ASSUME NEW g \in Hooks, NEW i \in begun'[g], ~Clean(<<g, i>>)
          PROVE  i \in failures[g] \/ \E v \in Workers : Busy(v)' /\ Job(v) = <<g, i>>
      <4>1. CASE i \in begun[g]
        <5>1. i \in failures[g] \/ \E v \in Workers : Busy(v) /\ Job(v) = <<g, i>>
          BY <3>1, <4>1 DEF IInv, FiledInv
        <5>. QED
          BY <2>6, <5>1
      <4>2. CASE g = h /\ i = job[w]
        BY <2>5, <2>8, <4>2
      <4>. QED
        BY <2>4, <3>1, <4>1, <4>2
    <3>2. \A g \in Hooks : begun[g] \subseteq begun'[g]
      BY <2>4
    <3>. QED
      BY <1>1, <1>4, <1>6, <3>1, <3>2 DEF IInv, FiledInv
  <2>14. OutcomeInv'
    <3>1. hook[h] # "ended"
      BY <1>1, AtWorkRunning
    <3>2. \A g \in Hooks : g # h => Reports(g)' = Reports(g)
      BY <1>1, <2>4 DEF Reports, Clean
    <3>. QED
      BY <1>1, <3>1, <3>2 DEF IInv, OutcomeInv
  <2>15. WholeInv'
    <3> SUFFICES ASSUME NEW j \in Jobs, RunWhole(j) PROVE RunWhole(j)'
      <4>1. \A g \in Hooks : begun[g] \subseteq begun'[g]
        BY <2>4
      <4>. QED
        BY <1>1, <4>1, KeepsWhole
    <3>1. CASE j # Job(w)
      <4>1. j[2] \in begun'[j[1]] <=> j[2] \in begun[j[1]]
        BY <2>4, <2>8, <3>1, JobParts
      <4>. QED
        BY <1>1, <1>3, <1>4, <1>6, <2>2, <2>3, <3>1, <4>1, OtherRuns
    <3>2. CASE j = Job(w)
      <4>1. Got(j) = <<>>
        BY <2>7, <2>8, <3>2 DEF RunWhole
      <4>2. script[j].lines \in Seq(Line)
        BY ScriptType DEF IInv, TypeOK
      <4>3. out[w] = <<>> /\ block[w] = <<>>
        BY <1>1 DEF IInv, ReadInv
      <4>4. ((<<>> \o <<>>) \o <<>>) \o script[j].lines = script[j].lines
        BY <4>2, ConcatEmptySeq, EmptyLines
      <4>5. ((Got(j)' \o block'[w]) \o out'[w]) \o left'[w] = script'[j].lines
        BY <1>1, <1>6, <2>3, <3>2, <4>1, <4>3, <4>4
      <4>6. IsPrefix(Got(j)', script'[j].lines)
        BY <1>1, <1>6, <4>1, <4>2, PrefixFacts
      <4>. QED
        BY <1>1, <1>3, <2>2, <2>5, <2>7, <3>2, <4>5, <4>6, OwnRun
    <3>. QED
      BY <3>1, <3>2
  <2>. QED
    BY <1>1, <2>9, <2>10, <2>11, <2>12, <2>13, <2>14, <2>15, StillInv DEF IInv
<1>. QED
  BY <1>7, <1>8

LEMMA ChildWritesKeeps == ASSUME IInv, NEW w \in Workers, ChildWrites(w), TypeOK' PROVE IInv'
<1>1. UNCHANGED <<scan, hooks, pool, rows, made, worker, alive, built>> /\ alive[w]
  BY DEF ChildWrites
<1> USE DEF scan, hooks, pool, worker, built
<1>2. CASE UNCHANGED <<out, left>>
  BY <1>1, <1>2, StillInv DEF IInv
<1>3. CASE /\ left[w] # <<>>
           /\ out' = [out EXCEPT ![w] = Append(@, Head(left[w]))]
           /\ left' = [left EXCEPT ![w] = Tail(@)]
  <2> DEFINE x == Head(left[w])
             o == Append(out[w], x)
             l == Tail(left[w])
  <2>1. \A v \in Workers : /\ out'[v] = IF v = w THEN o ELSE out[v]
                           /\ left'[v] = IF v = w THEN l ELSE left[v]
    BY <1>3 DEF IInv, TypeOK, ChildOK
  <2>2. /\ out[w] \in Seq(Line) /\ left[w] \in Seq(Line) /\ x \in Line /\ o \in Seq(Line)
        /\ l \in Seq(Line) /\ left[w] = <<x>> \o l /\ o = out[w] \o <<x>> /\ <<x>> \in Seq(Line)
        /\ ToSet(left[w]) = {x} \cup ToSet(l)
    <3>1. out[w] \in Seq(Line) /\ left[w] \in Seq(Line)
      BY DEF IInv, TypeOK, ChildOK
    <3>2. x \in Line /\ l \in Seq(Line) /\ left[w] = <<x>> \o l
      BY <1>3, <3>1
    <3>3. o \in Seq(Line) /\ o = out[w] \o <<x>> /\ <<x>> \in Seq(Line)
      BY <3>1, <3>2
    <3>4. ToSet(left[w]) = {x} \cup ToSet(l)
      BY <1>3, <3>1, ToSetFacts
    <3>. QED
      BY <3>1, <3>2, <3>3, <3>4
  <2>3. ToSet(o) = ToSet(out[w]) \cup {x}
    <3>1. ToSet(out[w] \o <<x>>) = ToSet(out[w]) \cup ToSet(<<x>>)
      <4>1. PICK y \in Seq(Line) : y = <<x>>
        BY <2>2
      <4>2. ToSet(out[w] \o y) = ToSet(out[w]) \cup ToSet(y)
        <5>1. out[w] \in Seq(Line)
          BY <2>2
        <5>. QED
          BY <5>1, ToSetFacts
      <4>. QED
        BY <4>1, <4>2
    <3>2. ToSet(<<x>>) = {x}
      BY DEF ToSet
    <3>. QED
      BY <2>2, <3>1, <3>2
  <2>. HIDE DEF x, o, l
  <2>4. Reading(w) /\ Holds(w) /\ Busy(w) /\ phase[w] \in {"drain", "send"}
    BY <1>1 DEF IInv, ReadInv, Reading, Holds, Busy
  <2>5. \A v \in Workers : Reading(v)' = Reading(v) /\ Job(v)' = Job(v)
    BY <1>1 DEF Reading, Job
  <2>6. \A j : Clean(j)' = Clean(j) /\ Got(j)' = Got(j)
    BY <1>1 DEF Clean, Got, Stream
  <2>7. ReadInv'
    <3>1. \A v \in Workers : ToSet(out'[v]) \cup ToSet(left'[v]) = ToSet(out[v]) \cup ToSet(left[v])
      BY <2>1, <2>2, <2>3
    <3>2. \A v \in Workers : phase[v] \notin {"drain", "send"} => out'[v] = <<>>
      BY <2>1, <2>4 DEF IInv, ReadInv
    <3>3. \A v \in Workers : Reading(v) /\ ~alive[v] => left'[v] = <<>>
      BY <1>1, <2>1 DEF IInv, ReadInv
    <3>. QED
      BY <1>1, <2>5, <2>6, <3>1, <3>2, <3>3 DEF IInv, ReadInv
  <2>8. WholeInv'
    <3> SUFFICES ASSUME NEW j \in Jobs, RunWhole(j) PROVE RunWhole(j)'
      BY <1>1, KeepsWhole
    <3>1. CASE j # Job(w)
      BY <1>1, <2>1, <2>5, <2>6, <3>1, OtherRuns
    <3>2. CASE j = Job(w)
      <4>1. job[w] \in begun'[w[1]]
        BY <1>1, <2>4 DEF IInv, QueueInv
      <4>2. IsPrefix(Got(j)', script'[j].lines)
        BY <1>1, <2>6 DEF RunWhole
      <4>3. ASSUME ~bad[w] PROVE ((Got(j) \o block[w]) \o o) \o l = script[j].lines
        <5>1. PICK s \in Seq(Line) : s = Got(j) \o block[w]
          BY GotType, Regroup DEF IInv, TypeOK, WorkerOK
        <5>2. (s \o out[w]) \o left[w] = script[j].lines
          BY <2>4, <3>2, <4>3, <5>1 DEF RunWhole
        <5>3. (s \o out[w]) \o (<<x>> \o l) = ((s \o out[w]) \o <<x>>) \o l
          <6>1. s \o out[w] \in Seq(Line)
            BY <2>2, Regroup
          <6>2. PICK a \in Seq(Line), b \in Seq(Line) : a = s \o out[w] /\ b = <<x>>
            BY <2>2, <6>1
          <6>3. a \o (b \o l) = (a \o b) \o l
            <7>1. l \in Seq(Line)
              BY <2>2
            <7>. QED
              BY <7>1, Regroup, SMTT(30)
          <6>. QED
            BY <6>2, <6>3
        <5>4. (s \o out[w]) \o <<x>> = s \o o
          BY <2>2, Regroup
        <5>. QED
          BY <2>2, <5>1, <5>2, <5>3, <5>4
      <4>4. Reading(w)' /\ ~bad'[w] =>
              ((Got(j)' \o block'[w]) \o out'[w]) \o left'[w] = script'[j].lines
        BY <1>1, <2>1, <2>6, <4>3
      <4>. QED
        BY <1>1, <2>4, <2>5, <3>2, <4>1, <4>2, <4>4, OwnRun
    <3>. QED
      BY <3>1, <3>2
  <2>. QED
    BY <1>1, <2>7, <2>8, StillInv DEF IInv
<1>. QED
  BY <1>2, <1>3 DEF ChildWrites



-----------------------------------------------------------------------------
(* A hook's own thread. *)

LEMMA MoveChunk ==
  ASSUME NEW s \in Seq(Chunk), NEW t \in Seq(Chunk), t # <<>>
  PROVE  /\ Append(s, Head(t)) \o Tail(t) = s \o t
         /\ Append(s, Head(t)) \in Seq(Chunk) /\ Head(t) \in Chunk /\ Tail(t) \in Seq(Chunk)
<1>1. /\ Head(t) \in Chunk /\ Tail(t) \in Seq(Chunk) /\ <<Head(t)>> \in Seq(Chunk)
      /\ t = <<Head(t)>> \o Tail(t) /\ Append(s, Head(t)) = s \o <<Head(t)>>
      /\ Append(s, Head(t)) \in Seq(Chunk)
  OBVIOUS
<1>2. PICK a \in Seq(Chunk), b \in Seq(Chunk) : a = <<Head(t)>> /\ b = Tail(t)
  BY <1>1
<1>3. (s \o a) \o b = s \o (a \o b)
  BY RegroupChunks, SMTT(30)
<1>. QED
  BY <1>1, <1>2, <1>3

\* A step of the hook's thread or the builder's concerns no worker.
LEMMA StreamWhole ==
  ASSUME IInv, UNCHANGED <<script, phase, job, begun, bad, block, out, left>>,
         \A g \in Hooks : Intact(g)' => Intact(g) /\ Stream(g)' = Stream(g),
         \A g \in Hooks : ToSet(Stream(g)') \subseteq ToSet(Stream(g)),
         \A j \in Jobs : IsPrefix(Lines(j[1], j[2])', script[j].lines)
                         /\ "odd" \notin ToSet(Lines(j[1], j[2])')
  PROVE  WholeInv'
<1>1. \A g \in Hooks : \A n \in DOMAIN Stream(g)' : Stream(g)'[n].run \in begun[g]
  <2> SUFFICES ASSUME NEW g \in Hooks, NEW n \in DOMAIN Stream(g)'
               PROVE  Stream(g)'[n].run \in begun[g]
    OBVIOUS
  <2>1. Stream(g)'[n] \in ToSet(Stream(g)')
    BY DEF ToSet
  <2>2. PICK k \in DOMAIN Stream(g) : Stream(g)[k] = Stream(g)'[n]
    BY <2>1 DEF ToSet
  <2>. QED
    BY <2>2 DEF IInv, WholeInv
<1>2. ASSUME NEW j \in Jobs, Intact(j[1])' PROVE RunWhole(j)'
  <2>1. Intact(j[1]) /\ Got(j)' = Got(j)
    BY <1>2, JobParts DEF Got
  <2>2. RunWhole(j)
    BY <2>1 DEF IInv, WholeInv
  <2>3. \A w : Reading(w)' = Reading(w) /\ Job(w)' = Job(w)
    BY DEF Reading, Job
  <2>4. Clean(j)' = Clean(j)
    BY DEF Clean
  <2>. QED
    BY <2>1, <2>2, <2>3, <2>4 DEF RunWhole
<1>3. \A j \in Jobs : IsPrefix(Lines(j[1], j[2]), script[j].lines)'
                      /\ "odd" \notin ToSet(Lines(j[1], j[2]))'
  OBVIOUS
<1>. QED
  BY <1>1, <1>2, <1>3 DEF WholeInv

LEMMA SinkKeeps == ASSUME IInv, NEW h \in Hooks, Sink(h), TypeOK' PROVE IInv'
<1>1. /\ UNCHANGED <<scan, hooks, pool, worker, child, built>> /\ rows[h] # <<>>
      /\ made' = [made EXCEPT ![h] = Append(@, Head(rows[h]))]
      /\ rows' = [rows EXCEPT ![h] = Tail(@)]
  BY DEF Sink
<1> USE DEF scan, hooks, pool, worker, child, built
<1>2. \A g \in Hooks : /\ made'[g] = IF g = h THEN Append(made[h], Head(rows[h])) ELSE made[g]
                       /\ rows'[g] = IF g = h THEN Tail(rows[h]) ELSE rows[g]
  BY <1>1 DEF IInv, TypeOK, RowsOK
<1>3. hook[h] # "ended"
  BY <1>1 DEF IInv, OutcomeInv
<1>4. OutcomeInv'
  <2>1. \A g : Reports(g)' = Reports(g)
    BY <1>1 DEF Reports, Clean
  <2>. QED
    BY <1>1, <1>2, <1>3, <2>1 DEF IInv, OutcomeInv
<1>5. \A g \in Hooks : Stream(g)' = Stream(g)
  <2> SUFFICES ASSUME NEW g \in Hooks PROVE Stream(g)' = Stream(g)
    OBVIOUS
  <2>1. CASE g # h
    BY <1>1, <1>2, <2>1 DEF Stream
  <2>2. CASE g = h
    <3>1. PICK s \in Seq(Chunk), m \in Seq(Chunk), r \in Seq(Chunk) :
            s = written[h] /\ m = made[h] /\ r = rows[h]
      BY DEF IInv, TypeOK, RowsOK, BuiltOK
    <3>2. r # <<>> /\ Head(r) \in Chunk
      BY <1>1, <3>1, MoveChunk
    <3>3. s \o Append(m, Head(r)) = Append(s \o m, Head(r)) /\ s \o m \in Seq(Chunk)
      BY <3>2, ConcatAssociative, AppendIsConcat
    <3>4. Append(s \o m, Head(r)) \o Tail(r) = (s \o m) \o r
      BY <3>2, <3>3, MoveChunk
    <3>. QED
      BY <1>1, <1>2, <2>2, <3>1, <3>3, <3>4 DEF Stream
  <2>. QED
    BY <2>1, <2>2
<1>6. WholeInv'
  <2>1. \A g \in Hooks : Intact(g)' => Intact(g)
    BY <1>1 DEF Intact
  <2>2. \A j \in Jobs : IsPrefix(Lines(j[1], j[2])', script[j].lines)
                        /\ "odd" \notin ToSet(Lines(j[1], j[2])')
    BY <1>1 DEF IInv, WholeInv, Lines
  <2>. QED
    BY <1>1, <1>5, <2>1, <2>2, StreamWhole
<1>7. BuilderInv'
  <2>1. \A j : Good(j)' = Good(j) /\ Lines(j[1], j[2])' = Lines(j[1], j[2])
    BY <1>1 DEF Good, Lines
  <2>. QED
    BY <1>1, <1>2, <1>3, <2>1 DEF IInv, BuilderInv
<1>. QED
  BY <1>1, <1>4, <1>6, <1>7, StillInv DEF IInv

LEMMA FinishKeeps == ASSUME IInv, NEW h \in Hooks, Finish(h), TypeOK' PROVE IInv'
<1>1. /\ UNCHANGED <<scan, pool, rows, made, worker, child, built>>
      /\ hook[h] = "running" /\ ~dispatching[h] /\ rows[h] = <<>>
      /\ \A n \in 1 .. Limit : phase[<<h, n>>] \in {"absent", "ended"}
      /\ outcome' = [outcome EXCEPT ![h] = IF failures[h] = {} THEN 0 ELSE Min(failures[h])]
      /\ hook' = [hook EXCEPT ![h] = "ended"]
  BY DEF Finish
<1> USE DEF scan, pool, worker, child, built
<1>2. \A g \in Hooks : hook'[g] = IF g = h THEN "ended" ELSE hook[g]
  BY <1>1 DEF IInv, TypeOK, HookOK
<1>3. \A g \in Hooks : outcome'[g] =
        IF g # h THEN outcome[g] ELSE IF failures[h] = {} THEN 0 ELSE Min(failures[h])
  BY <1>1 DEF IInv, TypeOK, HookOK
<1>4. \A w \in Workers : w[1] = h => phase[w] \in {"absent", "ended"}
  BY <1>1, WorkerParts
<1>5. \A w \in Workers : w[1] = h => ~Busy(w)
  BY <1>4 DEF Busy, Reading
<1>6. {i \in begun[h] : ~Clean(<<h, i>>)} = failures[h]
  <2>1. ASSUME NEW i \in begun[h], ~Clean(<<h, i>>) PROVE i \in failures[h]
    <3>1. i \in failures[h] \/ \E w \in Workers : Busy(w) /\ Job(w) = <<h, i>>
      BY <2>1 DEF IInv, FiledInv
    <3>2. \A w \in Workers : Job(w) = <<h, i>> => w[1] = h
      BY DEF Job
    <3>. QED
      BY <1>5, <3>1, <3>2
  <2>. QED
    BY <2>1 DEF IInv, FiledInv
<1>7. ASSUME failures[h] = {} PROVE begun[h] = 1 .. Runs[h]
  <2>1. ~aborted[h]
    BY <1>4, <1>7 DEF IInv, BegunInv
  <2>2. sent[h] = Runs[h]
    BY <1>1, <2>1 DEF IInv, BegunInv
  <2>3. jobs[h] = <<>>
    <3>1. <<h, 1>> \in Workers
      BY WorkerParts, RunsAssumption
    <3>2. sent[h] \in Nat /\ scanned[h] \in Nat /\ Runs[h] \in Nat /\ scanned[h] > 0 /\ scanned[h] <= Runs[h]
      BY <1>1, HookNumbers DEF IInv, TypeOK, PoolOK, ScanOK, TurnInv, ScanInv
    <3>3. phase[<<h, 1>>] = "absent" <=> 1 > sent[h]
      BY <3>1 DEF IInv, TurnInv
    <3>4. phase[<<h, 1>>] = "ended"
      BY <1>4, <2>2, <3>1, <3>2, <3>3
    <3>. QED
      BY <2>1, <3>1, <3>4 DEF IInv, BegunInv
  <2>4. Taken(h) = Runs[h]
    BY <2>2, <2>3, HookNumbers DEF Taken
  <2>5. \A i \in 1 .. Taken(h) : i \in begun[h]
    <3>1. ASSUME NEW i \in 1 .. Taken(h) PROVE i \in begun[h]
      <4>1. i \in begun[h] \/ \E w \in Workers : phase[w] = "check" /\ Job(w) = <<h, i>>
        BY <2>1 DEF IInv, BegunInv
      <4>2. \A w \in Workers : Job(w) = <<h, i>> => w[1] = h
        BY DEF Job
      <4>. QED
        BY <1>4, <4>1, <4>2
    <3>. QED
      BY <3>1
  <2>. QED
    BY <2>4, <2>5 DEF IInv, QueueInv
<1>8. TurnInv'
  <2>1. ASSUME NEW f \in Hooks, NEW g \in Hooks, f < g, hook'[g] # "waiting" PROVE hook'[f] = "ended"
    <3>1. hook[g] # "waiting"
      BY <1>1, <1>2, <2>1
    <3>. QED
      BY <1>2, <2>1, <3>1 DEF IInv, TurnInv
  <2>2. \A w \in Workers : phase[w] \notin {"absent", "ended"} => hook'[w[1]] = "running"
    BY <1>2, <1>4, WorkerParts DEF IInv, TurnInv
  <2>. QED
    BY <1>1, <1>2, <2>1, <2>2 DEF IInv, TurnInv
<1>9. BegunInv'
  BY <1>1, <1>2 DEF IInv, BegunInv, Taken, Job
<1>10. OutcomeInv'
  <2>1. \A g \in Hooks : g # h => Reports(g)' = Reports(g)
    BY <1>1, <1>3 DEF Reports, Clean
  <2>2. Reports(h)'
    <3>1. {i \in begun[h] : ~Clean(<<h, i>>)}' = failures[h]
      BY <1>1, <1>6 DEF Clean
    <3>2. begun' = begun
      BY <1>1
    <3>. QED
      BY <1>3, <1>7, <3>1, <3>2 DEF Reports
  <2>. QED
    BY <1>1, <1>2, <1>3, <2>1, <2>2 DEF IInv, OutcomeInv
<1>11. BuilderInv'
  <2>1. \A j : Good(j)' = Good(j) /\ Lines(j[1], j[2])' = Lines(j[1], j[2])
    BY <1>1 DEF Good, Lines
  <2>. QED
    BY <1>1, <1>2, <2>1 DEF IInv, BuilderInv
<1>. QED
  BY <1>1, <1>8, <1>9, <1>10, <1>11, StillInv DEF IInv



-----------------------------------------------------------------------------
(* The builder. *)

LEMMA ConcatSets ==
  ASSUME NEW s \in Seq(Chunk), NEW t \in Seq(Chunk), NEW u \in Seq(Chunk)
  PROVE  /\ ToSet((s \o t) \o u) = (ToSet(s) \cup ToSet(t)) \cup ToSet(u)
         /\ t # <<>> => ToSet(Tail(t)) \subseteq ToSet(t)
<1>1. PICK v \in Seq(Chunk) : v = s \o t
  BY RegroupChunks
<1>2. ToSet(v \o u) = ToSet(v) \cup ToSet(u)
  BY ToSetFacts
<1>3. ToSet(s \o t) = ToSet(s) \cup ToSet(t)
  BY ToSetFacts
<1>4. t # <<>> => ToSet(t) = {Head(t)} \cup ToSet(Tail(t))
  BY ToSetFacts
<1>. QED
  BY <1>1, <1>2, <1>3, <1>4

LEMMA OfNext ==
  ASSUME NEW s \in Seq(Chunk), NEW m \in Seq(Chunk), NEW r \in Seq(Chunk), m # <<>>, NEW i
  PROVE  IsPrefix(Of(Append(s, Head(m)), i), Of((s \o m) \o r, i))
<1>1. PICK p \in Seq(Chunk), t \in Seq(Chunk) : p = Append(s, Head(m)) /\ t = Tail(m)
  BY MoveChunk
<1>2. (s \o m) \o r = p \o (t \o r) /\ t \o r \in Seq(Chunk)
  <2>1. p \o t = s \o m
    BY <1>1, MoveChunk
  <2>2. (p \o t) \o r = p \o (t \o r) /\ t \o r \in Seq(Chunk)
    BY RegroupChunks, SMTT(30)
  <2>. QED
    BY <2>1, <2>2
<1>3. PICK q \in Seq(Chunk) : q = t \o r
  BY <1>2
<1>4. IsPrefix(Of(p, i), Of(p \o q, i))
  BY OfConcat
<1>. QED
  BY <1>1, <1>2, <1>3, <1>4

\* The next rows of a table go on from those written.
LEMMA NextChunk ==
  ASSUME IInv, NEW h \in Hooks, Intact(h), made[h] # <<>>, NEW c, c = Head(made[h])
  PROVE  /\ c \in Chunk /\ <<h, c.run>> \in Jobs
         /\ IsPrefix(Of(written[h], c.run) \o c.lines, script[<<h, c.run>>].lines)
         /\ ToSet(c.lines) \subseteq ToSet(script[<<h, c.run>>].lines)
<1>1. PICK s \in Seq(Chunk), m \in Seq(Chunk), r \in Seq(Chunk) :
        s = written[h] /\ m = made[h] /\ r = rows[h]
  BY DEF IInv, TypeOK, RowsOK, BuiltOK
<1>2. /\ c = Head(m) /\ c \in Chunk /\ Tail(m) \in Seq(Chunk) /\ Append(s, c) \in Seq(Chunk)
      /\ Append(s, c) \o Tail(m) = s \o m /\ m # <<>>
  BY <1>1, MoveChunk
<1>3. c.run \in begun[h]
  <2>1. c \in ToSet(m)
    BY <1>2, ToSetFacts
  <2>2. ToSet((s \o m) \o r) = (ToSet(s) \cup ToSet(m)) \cup ToSet(r)
    BY ConcatSets
  <2>3. c \in ToSet(Stream(h))
    BY <1>1, <2>1, <2>2 DEF Stream
  <2>4. PICK k \in DOMAIN Stream(h) : Stream(h)[k] = c
    BY <2>3 DEF ToSet
  <2>. QED
    BY <2>4 DEF IInv, WholeInv
<1>4. PICK j \in Jobs : j = <<h, c.run>>
  BY <1>3, HeldRuns DEF IInv
<1>5. IsPrefix(Got(j), script[j].lines)
  BY <1>4 DEF IInv, WholeInv, RunWhole
<1>6. PICK a \in Seq(Line), b \in Seq(Line), u \in Seq(Line) :
        a = Of(s, c.run) /\ b = c.lines /\ u = script[j].lines
  <2>1. Of(s, c.run) \in Seq(Line)
    BY <1>2, OfAppend
  <2>2. c.lines \in Seq(Line)
    BY <1>2 DEF Chunk
  <2>3. script[j].lines \in Seq(Line)
    BY ScriptType DEF IInv, TypeOK
  <2>. QED
    BY <2>1, <2>2, <2>3
<1>7. IsPrefix(a \o b, Got(j))
  <2>1. Of(Append(s, c), c.run) = a \o b
    BY <1>2, <1>6, OfAppend
  <2>2. IsPrefix(Of(Append(s, c), c.run), Of((s \o m) \o r, c.run))
    BY <1>2, OfNext
  <2>3. Got(j) = Of((s \o m) \o r, c.run)
    BY <1>1, <1>4 DEF Got, Stream
  <2>. QED
    BY <2>1, <2>2, <2>3
<1>8. IsPrefix(a \o b, u) /\ ToSet(b) \subseteq ToSet(u)
  <2>1. a \o b \in Seq(Line)
    BY Regroup
  <2>2. PICK v \in Seq(Line), g \in Seq(Line) : v = a \o b /\ g = Got(j)
    BY <2>1, GotType DEF IInv
  <2>3. IsPrefix(v, g) /\ IsPrefix(g, u)
    BY <1>5, <1>6, <1>7, <2>2
  <2>4. IsPrefix(v, u)
    BY <2>3, PrefixTrans
  <2>5. IsPrefix(a \o b, u)
    BY <2>2, <2>4
  <2>. QED
    BY <2>5, PrefixFacts
<1>. QED
  BY <1>1, <1>2, <1>4, <1>6, <1>8

LEMMA WriteRowsKeeps == ASSUME IInv, WriteRows, TypeOK' PROVE IInv'
<1> DEFINE h == builder
<1>0. PICK c : c = Head(made[h])
  OBVIOUS
<1>1. /\ UNCHANGED <<scan, hooks, pool, rows, worker, child, builder, build>>
      /\ h \in Hooks /\ build = "running" /\ shaped /\ made[h] # <<>>
      /\ made' = [made EXCEPT ![h] = Tail(@)]
      /\ IF "odd" \in ToSet(c.lines)
         THEN shaped' = FALSE /\ UNCHANGED written
         ELSE written' = [written EXCEPT ![h] = Append(@, c)] /\ UNCHANGED shaped
  BY <1>0 DEF WriteRows
<1> USE DEF scan, hooks, pool, worker, child
<1>2. Intact(h)
  BY <1>1 DEF Intact
<1>3. /\ c \in Chunk /\ <<h, c.run>> \in Jobs
      /\ IsPrefix(Of(written[h], c.run) \o c.lines, script[<<h, c.run>>].lines)
      /\ ToSet(c.lines) \subseteq ToSet(script[<<h, c.run>>].lines)
  BY <1>0, <1>1, <1>2, NextChunk
<1>4. \A g \in Hooks : made'[g] = IF g = h THEN Tail(made[h]) ELSE made[g]
  BY <1>1 DEF IInv, TypeOK, RowsOK
<1>5. \A j : Good(j)' = Good(j)
  BY <1>1 DEF Good
<1>6. CASE "odd" \in ToSet(c.lines)
  <2>1. shaped' = FALSE /\ written' = written
    BY <1>1, <1>6
  <2>2. \A j : Lines(j[1], j[2])' = Lines(j[1], j[2])
    BY <2>1 DEF Lines
  <2>3. WholeInv'
    <3>1. \A g \in Hooks : Intact(g)' => Intact(g) /\ Stream(g)' = Stream(g)
      BY <1>1, <1>4, <2>1 DEF Intact, Stream
    <3>2. ASSUME NEW g \in Hooks PROVE ToSet(Stream(g)') \subseteq ToSet(Stream(g))
      <4>1. CASE g # h
        <5>1. Stream(g)' = Stream(g)
          BY <1>1, <1>4, <2>1, <4>1 DEF Stream
        <5>. QED
          BY <5>1
      <4>2. CASE g = h
        <5>1. PICK s \in Seq(Chunk), m \in Seq(Chunk), r \in Seq(Chunk) :
                s = written[h] /\ m = made[h] /\ r = rows[h]
          BY <1>1 DEF IInv, TypeOK, RowsOK, BuiltOK
        <5>2. PICK t \in Seq(Chunk) : t = Tail(m)
          BY <1>1, <5>1, MoveChunk
        <5>3. /\ ToSet((s \o m) \o r) = (ToSet(s) \cup ToSet(m)) \cup ToSet(r)
              /\ ToSet((s \o t) \o r) = (ToSet(s) \cup ToSet(t)) \cup ToSet(r)
              /\ ToSet(t) \subseteq ToSet(m)
          <6>1. m # <<>>
            BY <1>1, <5>1
          <6>2. ToSet((s \o m) \o r) = (ToSet(s) \cup ToSet(m)) \cup ToSet(r)
            BY ConcatSets
          <6>3. ToSet((s \o t) \o r) = (ToSet(s) \cup ToSet(t)) \cup ToSet(r)
            BY ConcatSets
          <6>4. ToSet(Tail(m)) \subseteq ToSet(m)
            BY <6>1, ConcatSets
          <6>. QED
            BY <5>2, <6>2, <6>3, <6>4
        <5>4. Stream(g)' = (s \o t) \o r /\ Stream(g) = (s \o m) \o r
          <6>1. written'[g] = s /\ made'[g] = t /\ rows'[g] = r
            BY <1>1, <1>4, <2>1, <4>2, <5>1, <5>2
          <6>. QED
            BY <4>2, <5>1, <6>1 DEF Stream
        <5>. QED
          BY <5>3, <5>4
      <4>. QED
        BY <4>1, <4>2
    <3>3. \A j \in Jobs : IsPrefix(Lines(j[1], j[2])', script[j].lines)
                          /\ "odd" \notin ToSet(Lines(j[1], j[2])')
      BY <2>2 DEF IInv, WholeInv
    <3>. QED
      BY <1>1, <3>1, <3>2, <3>3, StreamWhole
  <2>4. BuilderInv'
    <3>1. \E j \in Jobs : j[1] = h /\ "odd" \in ToSet(script[j].lines)
      BY <1>3, <1>6
    <3>2. \A g \in Hooks : g < h => made'[g] = made[g]
      <4>1. \A g \in Hooks : g < h => g # h
        BY <1>1, HookNumbers
      <4>. QED
        BY <1>4, <4>1
    <3>. QED
      BY <1>1, <1>5, <2>2, <3>1, <3>2 DEF IInv, BuilderInv
  <2>. QED
    BY <1>1, <2>3, <2>4, StillInv DEF IInv
<1>7. CASE "odd" \notin ToSet(c.lines)
  <2>1. shaped' = shaped /\ \A g \in Hooks : written'[g] = IF g = h THEN Append(written[h], c) ELSE written[g]
    BY <1>1, <1>7 DEF IInv, TypeOK, BuiltOK
  <2>2. \A g \in Hooks : Stream(g)' = Stream(g) /\ Intact(g)' = Intact(g)
    <3> SUFFICES ASSUME NEW g \in Hooks PROVE Stream(g)' = Stream(g)
      BY <1>1, <2>1 DEF Intact
    <3>1. CASE g # h
      BY <1>1, <1>4, <2>1, <3>1 DEF Stream
    <3>2. CASE g = h
      <4>1. PICK s \in Seq(Chunk), m \in Seq(Chunk) : s = written[h] /\ m = made[h]
        BY <1>1 DEF IInv, TypeOK, RowsOK, BuiltOK
      <4>2. Append(s, c) \o Tail(m) = s \o m
        BY <1>0, <1>1, <4>1, MoveChunk
      <4>. QED
        BY <1>1, <1>4, <2>1, <3>2, <4>1, <4>2 DEF Stream
    <3>. QED
      BY <3>1, <3>2
  <2>3. ASSUME NEW j \in Jobs
        PROVE  Lines(j[1], j[2])' = IF j = <<h, c.run>> THEN Lines(h, c.run) \o c.lines ELSE Lines(j[1], j[2])
    <3>1. j[1] \in Hooks /\ j = <<j[1], j[2]>> /\ Lines(j[1], j[2]) \in Seq(Line)
      BY JobParts, GotType DEF IInv
    <3>2. CASE j[1] # h
      BY <2>1, <3>1, <3>2 DEF Lines
    <3>3. CASE j[1] = h
      <4>1. Lines(j[1], j[2])' = Of(Append(written[h], c), j[2])
        BY <2>1, <3>1, <3>3 DEF Lines
      <4>2. PICK s \in Seq(Chunk) : s = written[h]
        BY <1>1 DEF IInv, TypeOK, BuiltOK
      <4>3. Of(Append(s, c), j[2]) = Of(s, j[2]) \o (IF c.run = j[2] THEN c.lines ELSE <<>>)
        BY <1>3, OfAppend
      <4>4. Of(s, j[2]) = Lines(j[1], j[2])
        BY <3>3, <4>2 DEF Lines
      <4>5. CASE c.run = j[2]
        BY <3>1, <3>3, <4>1, <4>2, <4>3, <4>4, <4>5
      <4>6. CASE c.run # j[2]
        <5>1. Lines(j[1], j[2]) \o <<>> = Lines(j[1], j[2])
          BY <3>1, ConcatEmptySeq
        <5>2. j # <<h, c.run>>
          BY <3>1, <4>6
        <5>. QED
          BY <4>1, <4>2, <4>3, <4>4, <4>6, <5>1, <5>2
      <4>. QED
        BY <4>5, <4>6
    <3>. QED
      BY <3>2, <3>3
  <2>4. WholeInv'
    <3>1. ASSUME NEW j \in Jobs
          PROVE  IsPrefix(Lines(j[1], j[2])', script[j].lines) /\ "odd" \notin ToSet(Lines(j[1], j[2])')
      <4>1. IsPrefix(Lines(j[1], j[2]), script[j].lines) /\ "odd" \notin ToSet(Lines(j[1], j[2]))
        BY DEF IInv, WholeInv
      <4>2. CASE j # <<h, c.run>>
        BY <2>3, <4>1, <4>2
      <4>3. CASE j = <<h, c.run>>
        <5>1. PICK a \in Seq(Line), b \in Seq(Line) : a = Lines(h, c.run) /\ b = c.lines
          BY <1>3, <4>3, GotType DEF IInv, Chunk
        <5>2. ToSet(a \o b) = ToSet(a) \cup ToSet(b)
          BY ToSetFacts
        <5>3. Lines(j[1], j[2])' = a \o b
          BY <2>3, <4>3, <5>1
        <5>4. "odd" \notin ToSet(a \o b)
          BY <1>7, <4>1, <4>3, <5>1, <5>2
        <5>5. IsPrefix(a \o b, script[j].lines)
          BY <1>3, <4>3, <5>1 DEF Lines
        <5>. QED
          BY <5>3, <5>4, <5>5
      <4>. QED
        BY <4>2, <4>3
    <3>2. \A g \in Hooks : ToSet(Stream(g)') \subseteq ToSet(Stream(g))
      BY <2>2
    <3>. QED
      BY <1>1, <2>2, <3>1, <3>2, StreamWhole
  <2>5. BuilderInv'
    <3>1. \A g \in Hooks : g < h => g # h
      BY <1>1, HookNumbers
    <3>2. \A g \in Hooks : g < h => made'[g] = made[g]
      BY <1>4, <3>1
    <3>3. \A j \in Jobs : j[1] < h => Lines(j[1], j[2])' = Lines(j[1], j[2])
      BY <2>3, <3>1, JobParts
    <3>. QED
      BY <1>1, <1>5, <2>1, <3>2, <3>3 DEF IInv, BuilderInv
  <2>. QED
    BY <1>1, <2>4, <2>5, StillInv DEF IInv
<1>. QED
  BY <1>6, <1>7


LEMMA NextTableKeeps == ASSUME IInv, NextTable, TypeOK' PROVE IInv'
<1> DEFINE h == builder
           failing == {i \in begun[h] : ~Clean(<<h, i>>)}
<1>1. /\ UNCHANGED <<scan, hooks, pool, rows, made, worker, child, shaped>>
      /\ h \in Hooks /\ build = "running" /\ hook[h] = "ended" /\ (shaped => made[h] = <<>>)
      /\ IF outcome[h] = 0 /\ shaped
         THEN builder' = h + 1 /\ UNCHANGED <<build, written>>
         ELSE build' = "failed" /\ written' = [g \in Hooks |-> <<>>] /\ UNCHANGED builder
  BY DEF NextTable
<1> USE DEF scan, hooks, pool, worker, child
<1>2. Reports(h) /\ rows[h] = <<>>
  BY <1>1 DEF IInv, OutcomeInv
<1>3. failing \subseteq begun[h] /\ begun[h] \subseteq 1 .. Runs[h]
  <2>1. \A i \in begun[h] : <<h, i>> \in Jobs
    BY <1>1, HeldRuns DEF IInv
  <2>. QED
    BY <2>1, JobParts
<1>4. IF failing = {} THEN outcome[h] = 0 /\ begun[h] = 1 .. Runs[h]
      ELSE outcome[h] \in failing
  <2>1. failing # {} => Min(failing) \in failing
    <3>1. failing \subseteq Nat
      BY <1>3, HookNumbers
    <3>. HIDE DEF failing
    <3>. QED
      BY <3>1, MinIn
  <2>. QED
    BY <1>2, <2>1 DEF Reports
<1>5. \A j : Good(j)' = Good(j)
  BY <1>1 DEF Good
<1>6. CASE outcome[h] = 0 /\ shaped
  <2>1. builder' = h + 1 /\ build' = build /\ written' = written
    BY <1>1, <1>6
  <2>2. failing = {} /\ begun[h] = 1 .. Runs[h]
    <3>1. 0 \notin failing
      BY <1>3
    <3>. HIDE DEF failing
    <3>. QED
      BY <1>4, <1>6, <3>1
  <2>3. \A g \in Hooks : g < h + 1 => g < h \/ g = h
    BY <1>1, HookNumbers
  <2>4. \A j : Lines(j[1], j[2])' = Lines(j[1], j[2])
    BY <2>1 DEF Lines
  <2>5. ASSUME NEW j \in Jobs, j[1] = h PROVE Good(j) /\ Lines(j[1], j[2]) = script[j].lines
    <3>1. j = <<h, j[2]>> /\ j[2] \in begun[h] /\ Clean(j)
      BY <2>2, <2>5, JobParts
    <3>2. \A w \in Workers : Reading(w) => Job(w) # j
      BY <1>1, <2>5, AtWorkRunning DEF Reading, Job
    <3>3. Got(j) = script[j].lines
      BY <1>1, <1>6, <2>5, <3>1, <3>2 DEF IInv, WholeInv, Intact, RunWhole
    <3>4. Got(j) = Lines(j[1], j[2])
      <4>1. written[h] \in Seq(Chunk) /\ made[h] = <<>>
        BY <1>1, <1>6 DEF IInv, TypeOK, BuiltOK
      <4>2. (written[h] \o <<>>) \o <<>> = written[h]
        BY <4>1, ConcatEmptySeq
      <4>3. Stream(h) = written[h]
        BY <1>2, <4>1, <4>2 DEF Stream
      <4>. QED
        BY <2>5, <4>3 DEF Got, Lines
    <3>5. ToSet(script[j].lines) \subseteq {"row"}
      <4>1. script[j].lines \in Seq(Line)
        BY ScriptType DEF IInv, TypeOK
      <4>2. ToSet(script[j].lines) \subseteq {"row", "odd", "bad"}
        BY <4>1 DEF ToSet, Line
      <4>3. "bad" \notin ToSet(script[j].lines)
        BY <3>1 DEF Clean
      <4>4. "odd" \notin ToSet(script[j].lines)
        BY <3>3, <3>4 DEF IInv, WholeInv
      <4>. QED
        BY <4>2, <4>3, <4>4
    <3>. QED
      BY <3>1, <3>3, <3>4, <3>5 DEF Clean, Good
  <2>6. WholeInv'
    <3>1. \A g \in Hooks : (Intact(g)' => Intact(g)) /\ Stream(g)' = Stream(g)
      BY <1>1, <1>6, <2>1 DEF Intact, Stream
    <3>2. \A j \in Jobs : IsPrefix(Lines(j[1], j[2])', script[j].lines)
                          /\ "odd" \notin ToSet(Lines(j[1], j[2])')
      BY <2>4 DEF IInv, WholeInv
    <3>. QED
      BY <1>1, <3>1, <3>2, StreamWhole
  <2>7. BuilderInv'
    <3>1. \A g \in Hooks : g < h + 1 => hook[g] = "ended" /\ made[g] = <<>>
      BY <1>1, <1>6, <2>3 DEF IInv, BuilderInv
    <3>2. \A j \in Jobs : j[1] < h + 1 => Good(j) /\ Lines(j[1], j[2]) = script[j].lines
      <4>1. \A j \in Jobs : j[1] < h => Good(j) /\ Lines(j[1], j[2]) = script[j].lines
        BY <1>1 DEF IInv, BuilderInv
      <4>. QED
        BY <2>3, <2>5, <4>1, JobParts
    <3>. QED
      BY <1>1, <1>5, <1>6, <2>1, <2>4, <3>1, <3>2 DEF BuilderInv
  <2>. QED
    BY <1>1, <2>6, <2>7, StillInv DEF IInv
<1>7. CASE ~(outcome[h] = 0 /\ shaped)
  <2>1. build' = "failed" /\ builder' = h /\ \A g \in Hooks : written'[g] = <<>>
    BY <1>1, <1>7
  <2>2. WholeInv'
    <3>1. \A g \in Hooks : ~Intact(g)'
      BY <2>1 DEF Intact
    <3>2. ASSUME NEW g \in Hooks PROVE ToSet(Stream(g)') \subseteq ToSet(Stream(g))
      <4>1. PICK s \in Seq(Chunk), m \in Seq(Chunk), r \in Seq(Chunk) :
              s = written[g] /\ m = made[g] /\ r = rows[g]
        BY DEF IInv, TypeOK, RowsOK, BuiltOK
      <4>2. PICK e \in Seq(Chunk) : e = <<>>
        BY EmptyLines
      <4>3. ToSet((s \o m) \o r) = (ToSet(s) \cup ToSet(m)) \cup ToSet(r)
        BY ConcatSets
      <4>4. ToSet((e \o m) \o r) = (ToSet(e) \cup ToSet(m)) \cup ToSet(r)
        BY ConcatSets
      <4>5. ToSet(e) = {}
        BY <4>2 DEF ToSet
      <4>6. Stream(g)' = (e \o m) \o r /\ Stream(g) = (s \o m) \o r
        BY <1>1, <2>1, <4>1, <4>2 DEF Stream
      <4>. QED
        BY <4>3, <4>4, <4>5, <4>6
    <3>3. ASSUME NEW j \in Jobs
          PROVE  IsPrefix(Lines(j[1], j[2])', script[j].lines) /\ "odd" \notin ToSet(Lines(j[1], j[2])')
      <4>1. Lines(j[1], j[2])' = <<>>
        BY <2>1, OfEmpty, JobParts DEF Lines
      <4>2. script[j].lines \in Seq(Line)
        BY ScriptType DEF IInv, TypeOK
      <4>3. IsPrefix(<<>>, script[j].lines) /\ ToSet(<<>>) = {}
        BY <4>2, PrefixFacts DEF ToSet
      <4>. QED
        BY <4>1, <4>3
    <3>. QED
      BY <1>1, <3>1, <3>2, <3>3, StreamWhole
  <2>3. \E j \in Jobs : j[1] = h /\ ~Good(j)
    <3>1. CASE ~shaped
      <4>1. PICK j \in Jobs : j[1] = h /\ "odd" \in ToSet(script[j].lines)
        BY <3>1 DEF IInv, BuilderInv
      <4>. QED
        BY <4>1 DEF Good
    <3>2. CASE outcome[h] # 0
      <4>1. PICK i \in failing : TRUE
        BY <1>4, <3>2
      <4>2. i \in 1 .. Runs[h] /\ ~Clean(<<h, i>>)
        BY <1>3, <4>1
      <4>3. <<h, i>> \in Jobs /\ <<h, i>>[1] = h
        BY <1>1, <4>2, JobParts
      <4>4. ~Good(<<h, i>>)
        BY <4>2 DEF Clean, Good
      <4>. QED
        BY <4>3, <4>4
    <3>. QED
      BY <1>7, <3>1, <3>2
  <2>4. BuilderInv'
    BY <1>1, <1>5, <2>1, <2>3 DEF IInv, BuilderInv
  <2>. QED
    BY <1>1, <2>2, <2>4, StillInv DEF IInv
<1>. QED
  BY <1>6, <1>7

LEMMA BuildEndsKeeps == ASSUME IInv, BuildEnds, TypeOK' PROVE IInv'
<1>1. /\ UNCHANGED <<scan, hooks, pool, rows, made, worker, child, builder, shaped, written>>
      /\ build = "running" /\ builder \notin Hooks /\ build' = "built"
  BY DEF BuildEnds
<1> USE DEF scan, hooks, pool, worker, child
<1>2. \A j : Good(j)' = Good(j) /\ Lines(j[1], j[2])' = Lines(j[1], j[2])
  BY <1>1 DEF Good, Lines
<1>3. WholeInv'
  <2>1. \A g \in Hooks : (Intact(g)' => Intact(g)) /\ Stream(g)' = Stream(g)
    BY <1>1 DEF Intact, Stream
  <2>2. \A j \in Jobs : IsPrefix(Lines(j[1], j[2])', script[j].lines)
                        /\ "odd" \notin ToSet(Lines(j[1], j[2])')
    BY <1>2 DEF IInv, WholeInv
  <2>. QED
    BY <1>1, <2>1, <2>2, StreamWhole
<1>4. BuilderInv'
  BY <1>1, <1>2 DEF IInv, BuilderInv
<1>. QED
  BY <1>1, <1>3, <1>4, StillInv DEF IInv


-----------------------------------------------------------------------------
(* The invariant, and what follows from it. *)

LEMMA NextIInv == IInv /\ [Next]_vars => IInv'
<1> SUFFICES ASSUME IInv, [Next]_vars PROVE IInv'
  OBVIOUS
<1>1. TypeOK'
  BY TypeStep
<1>2. CASE UNCHANGED vars
  BY <1>1, <1>2, StillInv DEF IInv, vars, scan, hooks, pool, worker, child, built
<1>3. CASE ScanStep
  BY <1>1, <1>3, ScanKeeps
<1>4. CASE BuilderStep
  BY <1>1, <1>4, WriteRowsKeeps, NextTableKeeps, BuildEndsKeeps DEF BuilderStep
<1>5. ASSUME NEW h \in Hooks, HookStep(h) PROVE IInv'
  BY <1>1, <1>5, TurnKeeps, PeekKeeps, SinkKeeps, FinishKeeps DEF HookStep
<1>6. ASSUME NEW h \in Hooks, DispatchStep(h) PROVE IInv'
  BY <1>1, <1>6, DispatchKeeps, DispatchEndsKeeps DEF DispatchStep
<1>7. ASSUME NEW w \in Workers, WorkerStep(w) PROVE IInv'
  BY <1>1, <1>7, TakeKeeps, SpawnKeeps, DrainKeeps, SendKeeps, EofKeeps, ReapKeeps, FailKeeps
     DEF WorkerStep
<1>8. ASSUME NEW w \in Workers, ChildStep(w) \/ ReadErr(w) PROVE IInv'
  BY <1>1, <1>8, ChildWritesKeeps, ChildExitsKeeps, ReadErrKeeps DEF ChildStep
<1>. QED
  BY <1>2, <1>3, <1>4, <1>5, <1>6, <1>7, <1>8 DEF Next

\* The inductive invariant holds of every state the hooks, the workers, their
\* commands and the builder can reach.
THEOREM Invariance == Spec => []IInv
  BY InitIInv, NextIInv, PTL DEF Spec

\* Every variable keeps its type.
THEOREM TypeCorrect == Spec => []TypeOK
<1>1. IInv => TypeOK
  BY DEF IInv
<1>. QED
  BY <1>1, Invariance, PTL

LEMMA OnePerCpuFrom == IInv => OnePerCpu
<1> SUFFICES ASSUME IInv PROVE OnePerCpu
  OBVIOUS
<1> DEFINE A == {w \in Workers : alive[w]}
<1>1. \A w \in A : hook[w[1]] = "running" /\ w[1] \in Hooks
  BY AtWorkRunning, WorkerParts DEF IInv, ReadInv
<1>2. \A v, w \in A : v[1] = w[1]
  <2>1. \A g, h \in Hooks : g < h => ~(hook[g] = "running" /\ hook[h] = "running")
    BY DEF IInv, TurnInv
  <2>2. \A g, h \in Hooks : g = h \/ g < h \/ h < g
    BY HookNumbers
  <2>. HIDE DEF A
  <2>. QED
    BY <1>1, <2>1, <2>2
<1>3. IsFiniteSet(1 .. Limit) /\ Cardinality(1 .. Limit) = Limit /\ Limit \in Nat
  BY RunsAssumption, FS_Interval
<1>4. CASE A = {}
  <2>1. Cardinality(A) <= Limit
    <3>. HIDE DEF A
    <3>1. Cardinality(A) = 0
      BY <1>4, FS_EmptySet
    <3>2. 0 <= Limit
      BY <1>3
    <3>. QED
      BY <3>1, <3>2
  <2>. QED
    BY <2>1 DEF OnePerCpu
<1>5. CASE A # {}
  <2>1. PICK u \in A : TRUE
    BY <1>5
  <2> DEFINE f == [n \in 1 .. Limit |-> <<u[1], n>>]
             B == {f[n] : n \in 1 .. Limit}
  <2>2. A \subseteq B
    <3> SUFFICES ASSUME NEW w \in A PROVE w \in B
      OBVIOUS
    <3>1. w = <<w[1], w[2]>> /\ w[2] \in 1 .. Limit /\ w[1] = u[1]
      BY <1>2, <2>1, WorkerParts
    <3>. QED
      BY <3>1
  <2>3. IsFiniteSet(B) /\ Cardinality(B) <= Limit
    <3>1. B = {f[n] : n \in DOMAIN f} /\ DOMAIN f = 1 .. Limit
      OBVIOUS
    <3>2. f \in Surjection(1 .. Limit, B)
      BY DEF Surjection
    <3>. HIDE DEF f, B
    <3>. QED
      BY <1>3, <3>2, FS_Surjection
  <2>4. Cardinality(A) <= Cardinality(B) /\ IsFiniteSet(A)
    <3>. HIDE DEF A, B
    <3>. QED
      BY <2>2, <2>3, FS_Subset
  <2>5. Cardinality(A) \in Nat /\ Cardinality(B) \in Nat
    BY <2>3, <2>4, FS_CardinalityType
  <2>. HIDE DEF A, B
  <2>6. Cardinality(A) <= Limit
    BY <1>3, <2>3, <2>4, <2>5
  <2>. QED
    BY <2>6 DEF OnePerCpu, A
<1>. QED
  BY <1>4, <1>5

\* However many tables have hooks, no more commands run at once than there are
\* CPUs (start_per_table_hooks, run_streaming_on).
THEOREM OnePerCpuHolds == Spec => []OnePerCpu
  BY Invariance, OnePerCpuFrom, PTL

LEMMA EarliestFailureFrom == IInv => EarliestFailure
<1> SUFFICES ASSUME IInv PROVE EarliestFailure
  OBVIOUS
<1>1. \A h \in Hooks : hook[h] = "ended" => Reports(h)
  BY DEF IInv, OutcomeInv
<1>2. ASSUME build = "failed"
      PROVE  /\ \A h \in 1 .. builder - 1 : \A i \in 1 .. Runs[h] : Good(<<h, i>>)
             /\ \E i \in 1 .. Runs[builder] : ~Good(<<builder, i>>)
  <2>1. ASSUME NEW h \in 1 .. builder - 1, NEW i \in 1 .. Runs[h] PROVE Good(<<h, i>>)
    <3>1. h \in Hooks /\ h < builder
      BY RunsAssumption DEF IInv, TypeOK, BuiltOK, Hooks
    <3>2. <<h, i>> \in Jobs /\ <<h, i>>[1] < builder
      BY <3>1, JobParts
    <3>. QED
      BY <3>2 DEF IInv, BuilderInv
  <2>2. PICK j \in Jobs : j[1] = builder /\ ~Good(j)
    BY <1>2 DEF IInv, BuilderInv
  <2>3. j[2] \in 1 .. Runs[builder] /\ ~Good(<<builder, j[2]>>)
    BY <2>2, JobParts
  <2>. QED
    BY <2>1, <2>3
<1>. QED
  BY <1>1, <1>2 DEF EarliestFailure, Reports

\* A hook's outcome is its earliest failure, and success only where every run
\* began; a build fails for the first table that has one (run_streaming_on,
\* stream_early).
THEOREM EarliestFailureHolds == Spec => []EarliestFailure
  BY Invariance, EarliestFailureFrom, PTL

LEMMA RowsAreWholeFrom == IInv => RowsAreWhole
<1> SUFFICES ASSUME IInv PROVE RowsAreWhole
  OBVIOUS
<1>1. \A j \in Jobs : IsPrefix(Lines(j[1], j[2]), script[j].lines)
  BY DEF IInv, WholeInv
<1>2. ASSUME build = "built", NEW j \in Jobs PROVE Good(j) /\ Lines(j[1], j[2]) = script[j].lines
  <2>1. builder = Tables + 1
    BY <1>2, RunsAssumption DEF IInv, TypeOK, BuiltOK, BuilderInv, Hooks
  <2>2. j[1] < builder
    BY <2>1, JobParts, RunsAssumption DEF Hooks
  <2>. QED
    BY <1>2, <2>2 DEF IInv, BuilderInv
<1>. QED
  BY <1>1, <1>2 DEF RowsAreWhole

\* A run's rows are written in its own order, however runs and hooks overlap,
\* and a build that succeeds has all of them (run_streaming_on, stream_early).
THEOREM RowsAreWholeHolds == Spec => []RowsAreWhole
  BY Invariance, RowsAreWholeFrom, PTL

=============================================================================
