--------------------------- MODULE LiveIndexProofs ---------------------------
(***************************************************************************)
(* LiveIndex, proved for any tables, files, directories and contents, and  *)
(* any number of changes, batches and queries.                             *)
(***************************************************************************)
EXTENDS LiveIndex, SequenceTheorems, WellFoundedInduction, TLAPS

Events == {Rescan} \cup {Created(p) : p \in Files \cup Dirs} \cup {Deleted(p) : p \in Files \cup Dirs}

IndexOK ==
  /\ rows \in [Keys -> Held] /\ saved \in [Keys -> Held]
  /\ batch \in SUBSET Keys
  /\ marked \in SUBSET PerTable

EventsOK ==
  /\ raised \in Seq(Events) /\ queue \in Seq(Events) /\ taken \in Seq(Events)
  /\ held \in Seq(Events) /\ again \in Seq(Events)
  /\ todo \in Seq(Events) /\ applied \in Seq(Events)

WorldOK == disk \in [Files -> Held] /\ dirs \in SUBSET Dirs /\ changes \in Nat

ControlOK ==
  /\ pc \in {"idle", "route", "refresh", "commit"}
  /\ attempt \in {"plain", "together", "alone"}

FreshOK == known \in SUBSET Keys /\ vouched \in SUBSET Keys /\ seeded \in BOOLEAN

TypeOK == WorldOK /\ FreshOK /\ ControlOK /\ IndexOK /\ EventsOK

\* What there may be at which step.
PhaseInv ==
  /\ pc = "idle" => again = <<>> /\ todo = <<>> /\ applied = <<>> /\ attempt = "plain" /\ saved = rows
  /\ pc # "idle" => taken = <<>> /\ (attempt = "plain" => held = <<>>)
  /\ pc # "route" => again = <<>> /\ todo = <<>>
  /\ again # <<>> => attempt = "together" /\ applied = <<>> /\ ToSet(again) \subseteq ToSet(held)
  /\ pc \in {"idle", "commit"} => marked = {}

\* A directory that is not there holds nothing.
DirInv == \A p \in Under : p[1] \notin dirs => ~is_file(p[2])

\* An event is about a file, makes its rows what they should be, or takes away
\* the rows of a file that is there.
Touches(event, f) == event = Rescan \/ event.path = f \/ <<event.path, f>> \in Under

Heals(event, f) ==
  event = Rescan \/ (Touches(event, f) /\ event.kind = IF is_file(f) THEN "created" ELSE "deleted")

Harms(event, f) == Touches(event, f) /\ event.kind = "deleted" /\ is_file(f)

Touched(evs, f) == \E event \in evs : Touches(event, f)
Healed(evs, f)  == \E event \in evs : Heals(event, f)

\* The events still to be routed, in the order in which they happened.
Ahead == (todo \o taken) \o (queue \o raised)

Coming(f) == Healed(ToSet(Ahead), f)

\* What harms a file is followed by what heals it.
Safe(seq) ==
  \A f \in Files : \A i \in DOMAIN seq :
    Harms(seq[i], f) => \E j \in DOMAIN seq : i < j /\ Heals(seq[j], f)

OrderInv == \E seq \in {applied \o Ahead} : Safe(seq)

\* A held event is replayed as the file is, unless it has changed since.
AgainInv ==
  \A f \in Files : \A event \in ToSet(again) : Touches(event, f) => Heals(event, f) \/ Coming(f)

\* The rows of a key are those of its file, or will be once its hook has run.
RightIn(ix, k) ==
  /\ ix.rows[k] = disk[k[2]] \/ k[1] \in ix.marked
  /\ k[1] \in PerTable /\ is_file(k[2]) => k \in ix.batch

RowsAt(k) ==
  \/ RightIn(Index, k)
  \/ Coming(k[2])
  \/ pc = "route" /\ ToRescan
  \/ Healed(ToSet(again), k[2])
  \/ attempt # "together" /\ Touched(ToSet(held), k[2])

RowsInv == \A k \in Keys : RowsAt(k)

SavedAt(k) ==
  \/ saved[k] = disk[k[2]]
  \/ Coming(k[2])
  \/ Healed(ToSet(applied), k[2])
  \/ Touched(ToSet(held), k[2])

SavedInv == pc # "idle" => \A k \in Keys : SavedAt(k)

NoForeignKeys == \A r \in [Keys -> Held] : Consistent(r)

\* A per-table hook has rows only of the files listed for it.
ListedIn(ix) ==
  \A k \in Keys : k[1] \in PerTable /\ k[1] \notin ix.marked /\ k \notin ix.batch => ix.rows[k] = Absent

FreeInv == NoForeignKeys => held = <<>> /\ attempt = "plain" /\ ListedIn(Index)

OnTheWay == taken # <<>> \/ queue # <<>> \/ raised # <<>>

\* What the files, as they are, do not resolve is held.
OrphanInv ==
  (pc = "idle" /\ held # <<>>) \/ attempt = "alone" => OnTheWay \/ ~Consistent(Disk)

\* No directories, or no foreign keys: see README.md.
NotBoth == Dirs = {} \/ NoForeignKeys

IInv ==
  /\ TypeOK /\ PhaseInv /\ DirInv /\ OrderInv /\ AgainInv /\ RowsInv /\ SavedInv
  /\ FreeInv /\ OrphanInv

-----------------------------------------------------------------------------
(* Sequences.                                                              *)

LEMMA Least ==
  ASSUME NEW T, T \subseteq Nat, T # {}
  PROVE  \E x \in T : \A y \in T : x <= y
<1> DEFINE R == OpToRel(<, Nat)
<1>1. IsWellFoundedOn(R, Nat)
  BY NatLessThanWellFounded
<1>2. \A x, y \in Nat : y < x => <<y, x>> \in R
  BY DEF R, OpToRel
<1>. HIDE DEF R
<1>3. PICK x \in T : \A y \in T : ~ (<<y, x>> \in R)
  BY <1>1, WFMin
<1>4. ASSUME NEW y \in T PROVE x <= y
  <2>1. x \in Nat /\ y \in Nat /\ ~(y < x)
    BY <1>2, <1>3
  <2>. QED
    BY <2>1
<1>. QED
  BY <1>3, <1>4

LEMMA ToSetEmpty == ToSet(<<>>) = {}
BY DEF ToSet

LEMMA ToSetIn ==
  ASSUME NEW S, NEW s \in Seq(S)
  PROVE  ToSet(s) \subseteq S /\ (s # <<>> => ToSet(s) # {})
BY DEF ToSet

LEMMA ToSetConcat ==
  ASSUME NEW S, NEW s \in Seq(S), NEW t \in Seq(S)
  PROVE  ToSet(s \o t) = ToSet(s) \cup ToSet(t)
<1>1. /\ s \o t \in Seq(S) /\ Len(s \o t) = Len(s) + Len(t) /\ Len(s) \in Nat /\ Len(t) \in Nat
      /\ DOMAIN s = 1 .. Len(s) /\ DOMAIN t = 1 .. Len(t)
      /\ DOMAIN (s \o t) = 1 .. Len(s) + Len(t)
      /\ \A i \in 1 .. Len(s) + Len(t) :
           (s \o t)[i] = IF i <= Len(s) THEN s[i] ELSE t[i - Len(s)]
  BY ConcatProperties, LenProperties
<1>2. ToSet(s \o t) \subseteq ToSet(s) \cup ToSet(t)
  <2>1. ASSUME NEW i \in 1 .. Len(s) + Len(t)
        PROVE  (s \o t)[i] \in ToSet(s) \cup ToSet(t)
    <3>1. CASE i <= Len(s)
      <4>1. (s \o t)[i] = s[i] /\ i \in 1 .. Len(s)
        BY <1>1, <3>1
      <4>. QED
        BY <1>1, <4>1 DEF ToSet
    <3>2. CASE ~(i <= Len(s))
      <4>1. (s \o t)[i] = t[i - Len(s)] /\ i - Len(s) \in 1 .. Len(t)
        BY <1>1, <3>2
      <4>. QED
        BY <1>1, <4>1 DEF ToSet
    <3>. QED
      BY <3>1, <3>2
  <2>. QED
    BY <1>1, <2>1 DEF ToSet
<1>3. ToSet(s) \subseteq ToSet(s \o t)
  BY <1>1 DEF ToSet
<1>4. ToSet(t) \subseteq ToSet(s \o t)
  <2>1. ASSUME NEW i \in 1 .. Len(t) PROVE t[i] \in ToSet(s \o t)
    <3>1. i + Len(s) \in 1 .. Len(s) + Len(t)
      BY <1>1
    <3>2. t[i] = (s \o t)[i + Len(s)]
      BY <1>1, <3>1
    <3>. QED
      BY <1>1, <3>1, <3>2 DEF ToSet
  <2>. QED
    BY <1>1, <2>1 DEF ToSet
<1>. QED
  BY <1>2, <1>3, <1>4

LEMMA ToSetAppend ==
  ASSUME NEW S, NEW s \in Seq(S), NEW e \in S
  PROVE  ToSet(Append(s, e)) = ToSet(s) \cup {e}
<1>1. <<e>> \in Seq(S)
  OBVIOUS
<1>2. ToSet(<<e>>) = {e}
  BY DEF ToSet
<1>3. ToSet(s \o <<e>>) = ToSet(s) \cup ToSet(<<e>>)
  BY <1>1, ToSetConcat
<1>. QED
  BY <1>2, <1>3, AppendIsConcat

LEMMA HeadFirst ==
  ASSUME NEW S, NEW s \in Seq(S), s # <<>>
  PROVE  /\ Head(s) \in S /\ Tail(s) \in Seq(S) /\ <<Head(s)>> \in Seq(S)
         /\ s = <<Head(s)>> \o Tail(s)
         /\ ToSet(s) = {Head(s)} \cup ToSet(Tail(s))
<1>1. Head(s) \in S /\ Tail(s) \in Seq(S) /\ <<Head(s)>> \in Seq(S)
  BY HeadTailProperties
<1>2. s = <<Head(s)>> \o Tail(s)
  <2>1. /\ Len(s) \in Nat /\ Len(s) # 0 /\ Len(Tail(s)) = Len(s) - 1
        /\ \A i \in 1 .. Len(Tail(s)) : Tail(s)[i] = s[i + 1]
        /\ Head(s) = s[1]
    BY HeadTailProperties, LenProperties, EmptySeq
  <2>2. /\ <<Head(s)>> \o Tail(s) \in Seq(S)
        /\ Len(<<Head(s)>> \o Tail(s)) = 1 + Len(Tail(s))
        /\ \A i \in 1 .. 1 + Len(Tail(s)) :
             (<<Head(s)>> \o Tail(s))[i] = IF i <= 1 THEN Head(s) ELSE Tail(s)[i - 1]
    <3>1. Len(<<Head(s)>>) = 1 /\ <<Head(s)>>[1] = Head(s)
      OBVIOUS
    <3>2. \A i \in 1 .. 1 + Len(Tail(s)) : i <= 1 => i = 1
      BY <2>1
    <3>. QED
      BY <1>1, <3>1, <3>2, ConcatProperties
  <2>3. ASSUME NEW i \in 1 .. Len(s) PROVE s[i] = (<<Head(s)>> \o Tail(s))[i]
    <3>1. i = 1 \/ (i - 1 \in 1 .. Len(Tail(s)) /\ ~(i <= 1) /\ (i - 1) + 1 = i)
      BY <2>1
    <3>2. i \in 1 .. 1 + Len(Tail(s))
      BY <2>1
    <3>. QED
      BY <2>1, <2>2, <3>1, <3>2
  <2>. QED
    BY <1>1, <2>1, <2>2, <2>3, SeqEqual
<1>3. ToSet(<<Head(s)>>) = {Head(s)}
  BY DEF ToSet
<1>4. ToSet(<<Head(s)>> \o Tail(s)) = ToSet(<<Head(s)>>) \cup ToSet(Tail(s))
  <2>1. PICK a \in Seq(S), b \in Seq(S) : a = <<Head(s)>> /\ b = Tail(s)
    BY <1>1
  <2>2. ToSet(a \o b) = ToSet(a) \cup ToSet(b)
    BY ToSetConcat
  <2>. QED
    BY <2>1, <2>2
<1>. QED
  BY <1>1, <1>2, <1>3, <1>4

LEMMA ConcatMoves ==
  ASSUME NEW S, NEW s \in Seq(S), NEW t \in Seq(S), t # <<>>
  PROVE  Append(s, Head(t)) \in Seq(S) /\ Append(s, Head(t)) \o Tail(t) = s \o t
<1>1. Append(s, Head(t)) = s \o <<Head(t)>>
  BY HeadFirst, AppendIsConcat
<1>2. (s \o <<Head(t)>>) \o Tail(t) = s \o (<<Head(t)>> \o Tail(t))
  BY HeadFirst, ConcatAssociative
<1>. QED
  BY <1>1, <1>2, HeadFirst, AppendProperties

LEMMA ConcatAppends ==
  ASSUME NEW S, NEW s \in Seq(S), NEW t \in Seq(S), NEW e \in S
  PROVE  s \o Append(t, e) = Append(s \o t, e)
<1>1. <<e>> \in Seq(S) /\ s \o t \in Seq(S)
  BY ConcatProperties
<1>. QED
  BY <1>1, AppendIsConcat, ConcatAssociative

-----------------------------------------------------------------------------
(* hold.                                                                   *)

Keeps(h, a, b, m) == h = [n \in 0 .. m |-> IF n = 0 THEN a ELSE AppendNew(h[n - 1], b[n])]

LEMMA KeepsAt ==
  ASSUME NEW h, NEW a, NEW b, NEW m \in Nat, Keeps(h, a, b, m)
  PROVE  /\ h[0] = a
         /\ \A n \in 1 .. m : h[n] = AppendNew(h[n - 1], b[n])
<1> DEFINE e(n) == IF n = 0 THEN a ELSE AppendNew(h[n - 1], b[n])
<1>1. h = [n \in 0 .. m |-> e(n)]
  BY DEF Keeps
<1>2. \A n \in 0 .. m : h[n] = e(n)
  <2>. HIDE DEF e
  <2>. QED
    BY <1>1
<1>. QED
  BY <1>2

LEMMA KeepsExists ==
  ASSUME NEW a, NEW b, NEW m \in Nat
  PROVE  \E h : Keeps(h, a, b, m)
<1> DEFINE T == {n \in Nat : ~\E h : Keeps(h, a, b, n)}
<1>1. SUFFICES ASSUME T # {} PROVE FALSE
  OBVIOUS
<1>2. PICK n \in T : \A x \in T : n <= x
  <2>1. T \subseteq Nat
    OBVIOUS
  <2>. HIDE DEF T
  <2>. QED
    BY <1>1, <2>1, Least
<1>3. n \in Nat /\ ~\E h : Keeps(h, a, b, n)
  OBVIOUS
<1>4. n # 0
  <2>1. Keeps([i \in 0 .. 0 |-> a], a, b, 0)
    BY DEF Keeps
  <2>. QED
    BY <1>3, <2>1
<1>5. n - 1 \in Nat /\ n - 1 \notin T
  BY <1>2, <1>3, <1>4
<1>6. PICK h : Keeps(h, a, b, n - 1)
  BY <1>5
<1> DEFINE g == [i \in 0 .. n |-> IF i <= n - 1 THEN h[i] ELSE AppendNew(h[n - 1], b[n])]
           e(i) == IF i = 0 THEN a ELSE AppendNew(g[i - 1], b[i])
<1>7. ASSUME NEW i \in 0 .. n PROVE g[i] = e(i)
  <2>1. CASE i = 0
    BY <1>3, <1>4, <1>5, <1>6, <2>1, KeepsAt
  <2>2. CASE i # 0 /\ i <= n - 1
    <3>1. i \in 1 .. n - 1 /\ i - 1 \in 0 .. n /\ i - 1 <= n - 1
      BY <1>3, <2>2
    <3>2. h[i] = AppendNew(h[i - 1], b[i])
      BY <1>5, <1>6, <3>1, KeepsAt
    <3>. QED
      BY <2>2, <3>1, <3>2
  <2>3. CASE i = n
    <3>1. n - 1 \in 0 .. n /\ n - 1 <= n - 1 /\ ~(n <= n - 1)
      BY <1>3, <1>4
    <3>. QED
      BY <1>4, <2>3, <3>1
  <2>4. i = n \/ i <= n - 1
    BY <1>3
  <2>. QED
    BY <2>1, <2>2, <2>3, <2>4
<1>8. g = [i \in 0 .. n |-> e(i)]
  BY <1>7
<1>9. Keeps(g, a, b, n)
  BY <1>8 DEF Keeps
<1>. QED
  BY <1>3, <1>9

LEMMA HoldIs ==
  ASSUME NEW S, NEW a \in Seq(S), NEW b \in Seq(S)
  PROVE  hold(a, b) \in Seq(S) /\ ToSet(hold(a, b)) = ToSet(a) \cup ToSet(b)
<1> DEFINE h == CHOOSE kept : Keeps(kept, a, b, Len(b))
<1>1. Len(b) \in Nat /\ DOMAIN b = 1 .. Len(b) /\ \A i \in 1 .. Len(b) : b[i] \in S
  BY LenProperties, ElementOfSeq
<1>2. Keeps(h, a, b, Len(b))
  BY <1>1, KeepsExists
<1>3. hold(a, b) = h[Len(b)]
  BY DEF hold, Keeps
<1>4. h[0] = a /\ \A n \in 1 .. Len(b) : h[n] = AppendNew(h[n - 1], b[n])
  BY <1>1, <1>2, KeepsAt
<1>. HIDE DEF h
<1> DEFINE Good(n) == h[n] \in Seq(S) /\ ToSet(h[n]) = ToSet(a) \cup {b[i] : i \in 1 .. n}
           T == {n \in 0 .. Len(b) : ~Good(n)}
<1>5. T = {}
  <2>1. SUFFICES ASSUME T # {} PROVE FALSE
    OBVIOUS
  <2>2. PICK n \in T : \A x \in T : n <= x
    <3>1. T \subseteq Nat
      BY <1>1
    <3>. HIDE DEF T
    <3>. QED
      BY <2>1, <3>1, Least
  <2>3. n \in 0 .. Len(b) /\ ~Good(n)
    OBVIOUS
  <2>4. n # 0
    <3>1. {b[i] : i \in 1 .. 0} = {}
      OBVIOUS
    <3>. QED
      BY <1>4, <2>3, <3>1
  <2>5. n \in 1 .. Len(b) /\ n - 1 \in 0 .. Len(b) /\ ~(n <= n - 1)
    BY <1>1, <2>3, <2>4
  <2>6. Good(n - 1)
    BY <2>2, <2>5
  <2>7. {b[i] : i \in 1 .. n} = {b[i] : i \in 1 .. n - 1} \cup {b[n]}
    BY <1>1, <2>5
  <2>8. h[n] = AppendNew(h[n - 1], b[n]) /\ b[n] \in S
    BY <1>1, <1>4, <2>5
  <2>9. CASE b[n] \in ToSet(h[n - 1])
    BY <2>3, <2>6, <2>7, <2>8, <2>9 DEF AppendNew
  <2>10. CASE b[n] \notin ToSet(h[n - 1])
    <3>1. h[n] = Append(h[n - 1], b[n])
      BY <2>8, <2>10 DEF AppendNew
    <3>2. h[n] \in Seq(S) /\ ToSet(h[n]) = ToSet(h[n - 1]) \cup {b[n]}
      BY <2>6, <2>8, <3>1, ToSetAppend, AppendProperties
    <3>. QED
      BY <2>3, <2>6, <2>7, <3>2
  <2>. QED
    BY <2>9, <2>10
<1>6. Good(Len(b))
  BY <1>1, <1>5
<1>7. ToSet(b) = {b[i] : i \in 1 .. Len(b)}
  BY <1>1 DEF ToSet
<1>. QED
  BY <1>3, <1>6, <1>7

LEMMA TakeHeldIs ==
  ASSUME EventsOK, \A event \in Events : restated(event) \in Events
  PROVE  take_held \in Seq(Events) /\ ToSet(take_held) = {restated(event) : event \in ToSet(held)}
<1> DEFINE again0 == [i \in DOMAIN held |-> restated(held[i])]
<1>1. held \in Seq(Events) /\ Len(held) \in Nat /\ DOMAIN held = 1 .. Len(held)
      /\ \A i \in 1 .. Len(held) : held[i] \in Events
  BY LenProperties, ElementOfSeq DEF EventsOK
<1>2. again0 = [i \in 1 .. Len(held) |-> restated(held[i])]
  BY <1>1
<1>3. again0 \in Seq(Events)
  <2>1. \A i \in 1 .. Len(held) : restated(held[i]) \in Events
    BY <1>1
  <2>. HIDE DEF Events
  <2>. QED
    BY <1>1, <1>2, <2>1, IsASeq
<1>4. ToSet(again0) = {restated(event) : event \in ToSet(held)}
  BY <1>1, <1>2 DEF ToSet
<1>5. <<>> \in Seq(Events) /\ ToSet(<<>>) = {}
  BY ToSetEmpty, EmptySeq
<1>6. take_held = hold(<<>>, again0)
  BY DEF take_held
<1>. HIDE DEF again0, Events
<1>7. PICK empty \in Seq(Events) : empty = <<>>
  BY <1>5
<1>8. hold(empty, again0) \in Seq(Events) /\ ToSet(hold(empty, again0)) = ToSet(empty) \cup ToSet(again0)
  BY <1>3, HoldIs
<1>. QED
  BY <1>4, <1>5, <1>6, <1>7, <1>8

-----------------------------------------------------------------------------
(* What an event does to the rows.                                         *)

Indices == [rows : [Keys -> Held], batch : SUBSET Keys, marked : SUBSET PerTable]

LEMMA KeyParts ==
  ASSUME LiveAssumption, NEW k \in Keys
  PROVE  k[1] \in PerFile \cup PerTable /\ k[2] \in Files
BY DEF LiveAssumption

LEMMA DiskIn ==
  ASSUME LiveAssumption, WorldOK, NEW k \in Keys
  PROVE  disk[k[2]] \in Held /\ Absent \in Held
BY KeyParts DEF WorldOK, Held

LEMMA UpsertType ==
  ASSUME LiveAssumption, WorldOK, NEW ix \in Indices, NEW ks \in SUBSET Keys
  PROVE  upsert(ix, ks) \in Indices
<1> DEFINE r == [k \in Keys |-> IF k \in ks \ {l \in ks : l[1] \in PerTable} /\ is_file(k[2])
                                THEN disk[k[2]] ELSE ix.rows[k]]
<1>1. \A k \in Keys : ix.rows[k] \in Held /\ disk[k[2]] \in Held
  BY DiskIn DEF Indices
<1>2. r \in [Keys -> Held]
  BY <1>1
<1>3. (ix.batch \ {k \in ks : k[1] \in PerTable})
        \cup {k \in {l \in ks : l[1] \in PerTable} : is_file(k[2])} \in SUBSET Keys
  BY DEF Indices
<1>4. ix.marked \cup {k[1] : k \in {l \in ks : l[1] \in PerTable}} \in SUBSET PerTable
  BY DEF Indices
<1>. QED
  BY <1>2, <1>3, <1>4 DEF upsert, Indices

LEMMA DeleteType ==
  ASSUME LiveAssumption, WorldOK, NEW ix \in Indices, NEW ks \in SUBSET Keys
  PROVE  delete(ix, ks) \in Indices
<1> DEFINE r == [k \in Keys |-> IF k \in ks \ {l \in ks : l[1] \in PerTable} THEN Absent ELSE ix.rows[k]]
<1>1. \A k \in Keys : ix.rows[k] \in Held /\ Absent \in Held
  BY DiskIn DEF Indices
<1>2. r \in [Keys -> Held]
  BY <1>1
<1>3. ix.batch \ {k \in ks : k[1] \in PerTable} \in SUBSET Keys
  BY DEF Indices
<1>4. ix.marked \cup {k[1] : k \in {l \in ks : l[1] \in PerTable}} \in SUBSET PerTable
  BY DEF Indices
<1>. QED
  BY <1>2, <1>3, <1>4 DEF delete, Indices

\* Reading files harms no rows, and makes those of a file that is there right.
LEMMA UpsertAt ==
  ASSUME LiveAssumption, WorldOK, NEW ix \in Indices, NEW ks \in SUBSET Keys, NEW k \in Keys,
         RightIn(ix, k) \/ (k \in ks /\ is_file(k[2]))
  PROVE  RightIn(upsert(ix, ks), k)
<1> DEFINE new == upsert(ix, ks)
<1>. SUFFICES RightIn(new, k)
  OBVIOUS
<1>1. new.rows[k] = IF k \in ks /\ k[1] \notin PerTable /\ is_file(k[2]) THEN disk[k[2]] ELSE ix.rows[k]
  BY DEF upsert
<1>2. k \in ks /\ k[1] \in PerTable => k[1] \in new.marked /\ (is_file(k[2]) => k \in new.batch)
  BY DEF upsert
<1>3. ~(k \in ks /\ k[1] \in PerTable) => (k \in ix.batch => k \in new.batch)
  BY DEF upsert
<1>4. k[1] \in ix.marked => k[1] \in new.marked
  BY DEF upsert
<1>. HIDE DEF new
<1>5. CASE k \in ks /\ k[1] \in PerTable
  BY <1>2, <1>5 DEF RightIn
<1>6. CASE k \in ks /\ k[1] \notin PerTable
  BY <1>1, <1>4, <1>6 DEF RightIn, is_file
<1>7. CASE k \notin ks
  BY <1>1, <1>3, <1>4, <1>7 DEF RightIn
<1>. QED
  BY <1>5, <1>6, <1>7

LEMMA DeleteAt ==
  ASSUME LiveAssumption, WorldOK, NEW ix \in Indices, NEW ks \in SUBSET Keys, NEW k \in Keys,
         IF k \in ks THEN ~is_file(k[2]) ELSE RightIn(ix, k)
  PROVE  RightIn(delete(ix, ks), k)
<1> DEFINE new == delete(ix, ks)
<1>. SUFFICES RightIn(new, k)
  OBVIOUS
<1>1. new.rows[k] = IF k \in ks /\ k[1] \notin PerTable THEN Absent ELSE ix.rows[k]
  BY DEF delete
<1>2. k \in ks /\ k[1] \in PerTable => k[1] \in new.marked
  BY DEF delete
<1>3. k \notin ks => (k \in ix.batch => k \in new.batch)
  BY DEF delete
<1>4. k[1] \in ix.marked => k[1] \in new.marked
  BY DEF delete
<1>. HIDE DEF new
<1>5. CASE k \in ks
  BY <1>1, <1>2, <1>5 DEF RightIn, is_file
<1>6. CASE k \notin ks
  BY <1>1, <1>3, <1>4, <1>6 DEF RightIn
<1>. QED
  BY <1>5, <1>6

LEMMA UpsertListed ==
  ASSUME NEW ix \in Indices, NEW ks \in SUBSET Keys, ListedIn(ix)
  PROVE  ListedIn(upsert(ix, ks))
<1> DEFINE new == upsert(ix, ks)
<1>1. ASSUME NEW k \in Keys, k[1] \in PerTable, k[1] \notin new.marked, k \notin new.batch
      PROVE  new.rows[k] = Absent
  <2>1. k \notin ks /\ k[1] \notin ix.marked
    BY <1>1 DEF upsert
  <2>2. k \notin ix.batch
    BY <1>1, <2>1 DEF upsert
  <2>3. new.rows[k] = ix.rows[k]
    BY <2>1 DEF upsert
  <2>. QED
    BY <1>1, <2>1, <2>2, <2>3 DEF ListedIn
<1>. QED
  BY <1>1 DEF ListedIn

LEMMA DeleteListed ==
  ASSUME NEW ix \in Indices, NEW ks \in SUBSET Keys, ListedIn(ix)
  PROVE  ListedIn(delete(ix, ks))
<1> DEFINE new == delete(ix, ks)
<1>1. ASSUME NEW k \in Keys, k[1] \in PerTable, k[1] \notin new.marked, k \notin new.batch
      PROVE  new.rows[k] = Absent
  <2>1. k \notin ks /\ k[1] \notin ix.marked
    BY <1>1 DEF delete
  <2>2. k \notin ix.batch
    BY <1>1, <2>1 DEF delete
  <2>3. new.rows[k] = ix.rows[k]
    BY <2>1 DEF delete
  <2>. QED
    BY <1>1, <2>1, <2>2, <2>3 DEF ListedIn
<1>. QED
  BY <1>1 DEF ListedIn

LEMMA EventParts ==
  ASSUME NEW event \in Events
  PROVE  \/ event = Rescan
         \/ event.path \in Files \cup Dirs /\ event.kind \in {"created", "deleted"} /\ event # Rescan
BY DEF Events, Rescan, Created, Deleted

\* The keys of a directory's files that are there, or have rows.
LEMMA KeysOfIn ==
  ASSUME NEW fs PROVE KeysOf(fs) \in SUBSET Keys /\ \A k \in Keys : k \in KeysOf(fs) <=> k[2] \in fs
BY DEF KeysOf

LEMMA RouteType ==
  ASSUME LiveAssumption, WorldOK, NEW ix \in Indices, NEW event
  PROVE  route_file_event(ix, event) \in Indices
<1>1. \A fs : upsert(ix, KeysOf(fs)) \in Indices /\ delete(ix, KeysOf(fs)) \in Indices
  BY KeysOfIn, UpsertType, DeleteType
<1>2. \A fs : index_subtree(ix, fs) \in Indices
  BY <1>1 DEF index_subtree
<1>3. ASSUME NEW fs PROVE delete_subtree(ix, fs) \in Indices
  <2>1. {k \in KeysOf(fs) : k[1] \in PerTable => k \in ix.batch} \in SUBSET Keys
    BY KeysOfIn
  <2>. QED
    BY <2>1, DeleteType DEF delete_subtree
<1>. QED
  BY <1>1, <1>2, <1>3 DEF route_file_event

LEMMA RouteListed ==
  ASSUME NEW ix \in Indices, NEW event, ListedIn(ix)
  PROVE  ListedIn(route_file_event(ix, event))
<1>1. \A fs : ListedIn(upsert(ix, KeysOf(fs))) /\ ListedIn(delete(ix, KeysOf(fs)))
  BY KeysOfIn, UpsertListed, DeleteListed
<1>2. \A fs : ListedIn(index_subtree(ix, fs))
  BY <1>1 DEF index_subtree
<1>3. ASSUME NEW fs PROVE ListedIn(delete_subtree(ix, fs))
  <2>1. {k \in KeysOf(fs) : k[1] \in PerTable => k \in ix.batch} \in SUBSET Keys
    BY KeysOfIn
  <2>. QED
    BY <2>1, DeleteListed DEF delete_subtree
<1>. QED
  BY <1>1, <1>2, <1>3 DEF route_file_event

\* An event that heals a file makes its rows right; one that does not harm it
\* leaves them so.
LEMMA RouteAt ==
  ASSUME LiveAssumption, WorldOK, DirInv, NEW ix \in Indices, Dirs = {} \/ ListedIn(ix),
         NEW event \in Events, NEW k \in Keys,
         \/ Heals(event, k[2]) /\ event # Rescan
         \/ RightIn(ix, k) /\ ~Harms(event, k[2])
  PROVE  RightIn(route_file_event(ix, event), k)
<1> DEFINE f == k[2]
<1>1. f \in Files /\ (f \in Existing <=> is_file(f)) /\ Files \cap Dirs = {} /\ dirs \subseteq Dirs
  BY KeyParts DEF Existing, LiveAssumption, WorldOK
<1>2. CASE event = Rescan
  <2>1. route_file_event(ix, event) = ix
    BY <1>2 DEF route_file_event, Rescan
  <2>. QED
    BY <1>2, <2>1
<1>3. CASE event.kind = "created" /\ event.path \in Files
  <2>1. route_file_event(ix, event) = upsert(ix, KeysOf({event.path}))
    BY <1>1, <1>3 DEF route_file_event
  <2>2. Heals(event, f) /\ event # Rescan => f = event.path /\ is_file(f)
    <3>1. <<event.path, f>> \notin Under
      BY <1>1, <1>3 DEF LiveAssumption
    <3>. QED
      BY <1>3, <3>1 DEF Heals, Touches
  <2>3. RightIn(ix, k) \/ (k \in KeysOf({event.path}) /\ is_file(k[2]))
    BY <2>2, KeysOfIn
  <2>. QED
    BY <2>1, <2>3, KeysOfIn, UpsertAt
<1>4. CASE event.kind = "created" /\ event.path \in Dirs
  <2> DEFINE fs == FilesUnder(event.path) \cap Existing
  <2>1. route_file_event(ix, event) = IF event.path \in dirs THEN upsert(ix, KeysOf(fs)) ELSE ix
    BY <1>1, <1>4 DEF route_file_event, index_subtree
  <2>2. Heals(event, f) /\ event # Rescan => f \in fs /\ event.path \in dirs
    <3>1. SUFFICES ASSUME Heals(event, f), event # Rescan PROVE f \in fs /\ event.path \in dirs
      OBVIOUS
    <3>2. event.path # f
      BY <1>1, <1>4
    <3>3. is_file(f) /\ <<event.path, f>> \in Under
      BY <1>4, <3>1, <3>2 DEF Heals, Touches
    <3>4. event.path \in dirs
      BY <3>3 DEF DirInv
    <3>. QED
      BY <1>1, <3>3, <3>4 DEF FilesUnder
  <2>. HIDE DEF fs
  <2>3. CASE event.path \in dirs
    <3>1. RightIn(ix, k) \/ (k \in KeysOf(fs) /\ is_file(k[2]))
      <4>1. f \in fs => is_file(f)
        BY <1>1 DEF fs
      <4>. QED
        BY <2>2, <4>1, KeysOfIn
    <3>. QED
      BY <2>1, <2>3, <3>1, KeysOfIn, UpsertAt
  <2>4. CASE event.path \notin dirs
    BY <2>1, <2>2, <2>4
  <2>. QED
    BY <2>3, <2>4
<1>5. CASE event.kind = "deleted" /\ event.path \in Files
  <2>1. route_file_event(ix, event) = delete(ix, KeysOf({event.path}))
    BY <1>5 DEF route_file_event
  <2>2. <<event.path, f>> \notin Under
    BY <1>1, <1>5 DEF LiveAssumption
  <2>3. event # Rescan
    BY <1>5 DEF Rescan
  <2>4. f = event.path => ~is_file(f)
    BY <1>5 DEF Heals, Harms, Touches
  <2>5. f # event.path => RightIn(ix, k)
    BY <2>2, <2>3 DEF Heals, Touches
  <2>6. IF k \in KeysOf({event.path}) THEN ~is_file(k[2]) ELSE RightIn(ix, k)
    BY <2>4, <2>5, KeysOfIn
  <2>. QED
    BY <2>1, <2>6, KeysOfIn, DeleteAt
<1>6. CASE event.kind = "deleted" /\ event.path \in Dirs
  <2> DEFINE ks == {l \in KeysOf(FilesUnder(event.path)) : l[1] \in PerTable => l \in ix.batch}
  <2>1. route_file_event(ix, event) = delete(ix, ks)
    BY <1>1, <1>6 DEF route_file_event, delete_subtree
  <2>2. event # Rescan /\ event.path # f
    BY <1>1, <1>6 DEF Rescan
  <2>3. f \in FilesUnder(event.path) <=> <<event.path, f>> \in Under
    BY <1>1 DEF FilesUnder
  <2>4. ks \in SUBSET Keys /\ (k \in ks <=> f \in FilesUnder(event.path) /\ (k[1] \in PerTable => k \in ix.batch))
    BY KeysOfIn
  <2>5. f \in FilesUnder(event.path) => ~is_file(f)
    BY <1>6, <2>2, <2>3 DEF Heals, Harms, Touches
  <2>6. k \notin ks => RightIn(ix, k)
    <3>1. CASE f \in FilesUnder(event.path)
      <4>1. SUFFICES ASSUME k \notin ks PROVE RightIn(ix, k)
        OBVIOUS
      <4>2. k[1] \in PerTable /\ k \notin ix.batch
        BY <2>4, <3>1, <4>1
      <4>3. k[1] \in ix.marked \/ ix.rows[k] = Absent
        BY <1>6, <4>2 DEF ListedIn
      <4>. QED
        BY <2>5, <3>1, <4>3 DEF RightIn, is_file
    <3>2. CASE f \notin FilesUnder(event.path)
      BY <2>2, <2>3, <3>2 DEF Heals, Touches
    <3>. QED
      BY <3>1, <3>2
  <2>. HIDE DEF ks
  <2>7. IF k \in ks THEN ~is_file(k[2]) ELSE RightIn(ix, k)
    BY <2>4, <2>5, <2>6
  <2>. QED
    BY <2>1, <2>4, <2>7, DeleteAt
<1>. QED
  BY <1>2, <1>3, <1>4, <1>5, <1>6, EventParts

LEMMA RescanAt ==
  ASSUME LiveAssumption, WorldOK, NEW ix \in Indices
  PROVE  /\ rescan(ix) \in Indices
         /\ ListedIn(rescan(ix))
         /\ \A k \in Keys : RightIn(rescan(ix), k)
<1> DEFINE gone == {k \in Keys : k[1] \in PerFile /\ ~is_file(k[2])}
           left == delete(ix, gone)
           base == [left EXCEPT !.batch = {}, !.marked = PerTable]
           ks   == KeysOf(Files \cap Existing)
<1>1. rescan(ix) = upsert(base, ks)
  BY DEF rescan, index_subtree
<1>2. left \in Indices
  BY DeleteType
<1>3. ASSUME NEW k \in Keys, k \in gone PROVE left.rows[k] = Absent
  <2>1. k[1] \notin PerTable
    BY <1>3 DEF LiveAssumption
  <2>. QED
    BY <1>3, <2>1 DEF delete
<1>. HIDE DEF left
<1>4. /\ base \in Indices /\ base.rows = left.rows /\ base.marked = PerTable
      /\ \A k \in Keys : k[1] \in PerTable => k[1] \in base.marked
  BY <1>2 DEF Indices
<1>5. ks \in SUBSET Keys /\ \A k \in Keys : is_file(k[2]) => k \in ks
  BY KeysOfIn, KeyParts DEF Existing
<1>6. ASSUME NEW k \in Keys PROVE RightIn(base, k) \/ (k \in ks /\ is_file(k[2]))
  <2>1. CASE is_file(k[2])
    BY <1>5, <2>1
  <2>2. CASE ~is_file(k[2])
    <3>1. k[1] \notin PerTable => k \in gone
      BY <2>2, KeyParts
    <3>. QED
      BY <1>3, <1>4, <2>2, <3>1 DEF RightIn, is_file
  <2>. QED
    BY <2>1, <2>2
<1>7. ListedIn(base)
  BY <1>4 DEF ListedIn
<1>. HIDE DEF base, ks
<1>8. upsert(base, ks) \in Indices /\ ListedIn(upsert(base, ks))
  BY <1>4, <1>5, <1>7, UpsertType, UpsertListed
<1>9. \A k \in Keys : RightIn(upsert(base, ks), k)
  BY <1>4, <1>5, <1>6, UpsertAt
<1>. QED
  BY <1>1, <1>8, <1>9

LEMMA RefreshAt ==
  ASSUME LiveAssumption, WorldOK, NEW ix \in Indices
  PROVE  /\ refresh_pending(ix) \in [Keys -> Held]
         /\ \A k \in Keys : RightIn(ix, k) => refresh_pending(ix)[k] = disk[k[2]]
         /\ ListedIn(ix) =>
              \A k \in Keys : k[1] \in PerTable /\ k \notin ix.batch => refresh_pending(ix)[k] = Absent
<1>1. ASSUME NEW k \in Keys
      PROVE  /\ ix.rows[k] \in Held /\ disk[k[2]] \in Held /\ Absent \in Held
             /\ k[1] \in ix.marked => k[1] \in PerTable
  BY DiskIn DEF Indices
<1>2. refresh_pending(ix) \in [Keys -> Held]
  BY <1>1 DEF refresh_pending
<1>3. ASSUME NEW k \in Keys, RightIn(ix, k) PROVE refresh_pending(ix)[k] = disk[k[2]]
  BY <1>1, <1>3 DEF refresh_pending, RightIn, is_file
<1>4. ASSUME ListedIn(ix), NEW k \in Keys, k[1] \in PerTable, k \notin ix.batch
      PROVE  refresh_pending(ix)[k] = Absent
  BY <1>4 DEF refresh_pending, ListedIn
<1>. QED
  BY <1>2, <1>3, <1>4

\* What a query reads and drops.
LEMMA QueryAt ==
  ASSUME LiveAssumption, TypeOK
  PROVE  /\ AfterGone \in Indices /\ QueryRows \in [Keys -> Held]
         /\ ListedIn(Index) =>
              \A k \in Keys : k[1] \in PerTable /\ k \notin AfterGone.batch => QueryRows[k] = Absent
         /\ \A k \in Keys : RightIn(Index, k) =>
              QueryRows[k] = disk[k[2]] /\ (k[1] \in PerTable /\ is_file(k[2]) => k \in AfterGone.batch)
<1>1. WorldOK /\ Index \in Indices
  BY DEF TypeOK, IndexOK, Index, Indices
<1>2. Found \ (vouched \cap Entries) \in SUBSET Keys /\ Entries \ Found \in SUBSET Keys
      /\ \A k \in Entries \ Found : ~is_file(k[2])
  BY DEF Found, Entries, TypeOK, FreshOK
<1>3. AfterReads \in Indices
  BY <1>1, <1>2, UpsertType DEF AfterReads
<1>4. AfterGone \in Indices
  BY <1>1, <1>2, <1>3, DeleteType DEF AfterGone
<1>5. ListedIn(Index) => ListedIn(AfterGone)
  <2>1. ListedIn(Index) => ListedIn(AfterReads)
    BY <1>1, <1>2, UpsertListed DEF AfterReads
  <2>. QED
    BY <1>2, <1>3, <2>1, DeleteListed DEF AfterGone
<1>6. ASSUME NEW k \in Keys, RightIn(Index, k) PROVE RightIn(AfterGone, k)
  <2>1. RightIn(AfterReads, k)
    BY <1>1, <1>2, <1>6, UpsertAt DEF AfterReads
  <2>2. IF k \in Entries \ Found THEN ~is_file(k[2]) ELSE RightIn(AfterReads, k)
    BY <1>2, <2>1
  <2>. QED
    BY <1>1, <1>2, <1>3, <2>2, DeleteAt DEF AfterGone
<1>7. /\ QueryRows \in [Keys -> Held]
      /\ \A k \in Keys : RightIn(AfterGone, k) => QueryRows[k] = disk[k[2]]
      /\ ListedIn(AfterGone) =>
           \A k \in Keys : k[1] \in PerTable /\ k \notin AfterGone.batch => QueryRows[k] = Absent
  BY <1>1, <1>4, RefreshAt DEF QueryRows
<1>8. \A k \in Keys : RightIn(AfterGone, k) =>
        (k[1] \in PerTable /\ is_file(k[2]) => k \in AfterGone.batch)
  BY DEF RightIn
<1>. QED
  BY <1>4, <1>5, <1>6, <1>7, <1>8

-----------------------------------------------------------------------------
(* Types.                                                                  *)

LEMMA RestatedType ==
  ASSUME NEW event \in Events PROVE restated(event) \in Events
<1>1. \A p \in Files \cup Dirs : Created(p) \in Events /\ Deleted(p) \in Events
  BY DEF Events
<1>2. Rescan \in Events
  BY DEF Events
<1>. QED
  BY <1>1, <1>2, EventParts DEF restated

\* A change of the files raises an event that heals the files it changes and
\* harms none.
LEMMA FileMoves ==
  ASSUME LiveAssumption, TypeOK, DirInv, FileStep
  PROVE  /\ WorldOK' /\ DirInv'
         /\ vouched' \subseteq vouched
         /\ UNCHANGED <<queue, taken, held, rows, batch, known, seeded, applier>>
         /\ \E event \in Events :
              /\ raised' = Append(raised, event)
              /\ \A f \in Files : (disk'[f] = disk[f] \/ Heals(event, f)') /\ ~Harms(event, f)'
<1> DEFINE Told(event) ==
      /\ raised' = Append(raised, event)
      /\ \A f \in Files : (disk'[f] = disk[f] \/ Heals(event, f)') /\ ~Harms(event, f)'
<1>1. \A p \in Files \cup Dirs : Created(p) \in Events /\ Deleted(p) \in Events /\ Rescan \in Events
  BY DEF Events
<1>2. \A f : Heals(Rescan, f)' /\ ~Harms(Rescan, f)'
  BY DEF Heals, Harms, Rescan
<1>3. /\ disk \in [Files -> Held] /\ dirs \subseteq Dirs /\ changes \in Nat /\ MaxChanges \in Nat
      /\ Files \cap Dirs = {} /\ Absent \notin Contents /\ Contents \subseteq Held /\ Absent \in Held
      /\ Under \subseteq Dirs \X Files
  BY DEF TypeOK, WorldOK, LiveAssumption, Held
<1>4. ASSUME NEW f \in Files, Write(f)
      PROVE  WorldOK' /\ DirInv' /\ \E event \in Events : Told(event)
  <2>1. PICK c \in Contents : disk' = [disk EXCEPT ![f] = c]
    BY <1>4 DEF Write
  <2>2. /\ dirs' = dirs /\ changes' = changes + 1 /\ Raise(Created(f))
        /\ \A d \in Dirs : <<d, f>> \in Under => d \in dirs
    BY <1>4 DEF Write, Changed
  <2>3. WorldOK'
    BY <1>3, <2>1, <2>2 DEF WorldOK
  <2>4. DirInv'
    <3>1. ASSUME NEW p \in Under, p[1] \notin dirs PROVE disk'[p[2]] = Absent
      <4>1. p = <<p[1], p[2]>> /\ p[1] \in Dirs /\ p[2] \in Files
        BY <1>3
      <4>2. p[2] # f
        BY <2>2, <3>1, <4>1
      <4>. QED
        BY <1>3, <2>1, <3>1, <4>1, <4>2 DEF DirInv, is_file
    <3>. QED
      BY <2>2, <3>1 DEF DirInv, is_file
  <2>5. \A g \in Files : (disk'[g] = disk[g] \/ Heals(Created(f), g)') /\ ~Harms(Created(f), g)'
    <3>1. disk'[f] # Absent /\ \A g \in Files \ {f} : disk'[g] = disk[g]
      BY <1>3, <2>1
    <3>2. Heals(Created(f), f)'
      BY <3>1 DEF Heals, Touches, Created, is_file
    <3>. QED
      BY <3>1, <3>2 DEF Harms, Created
  <2>. QED
    BY <1>1, <1>2, <2>2, <2>3, <2>4, <2>5 DEF Raise
<1>5. ASSUME NEW f \in Files, Unlink(f)
      PROVE  WorldOK' /\ DirInv' /\ \E event \in Events : Told(event)
  <2>1. /\ disk' = [disk EXCEPT ![f] = Absent]
        /\ dirs' = dirs /\ changes' = changes + 1 /\ Raise(Deleted(f))
    BY <1>5 DEF Unlink, Changed
  <2>2. WorldOK'
    BY <1>3, <2>1 DEF WorldOK
  <2>3. disk'[f] = Absent /\ \A g \in Files \ {f} : disk'[g] = disk[g]
    BY <1>3, <2>1
  <2>4. DirInv'
    <3>1. \A p \in Under : p[2] \in Files
      BY <1>3
    <3>. QED
      BY <2>1, <2>3, <3>1 DEF DirInv, is_file
  <2>5. \A g \in Files : (disk'[g] = disk[g] \/ Heals(Deleted(f), g)') /\ ~Harms(Deleted(f), g)'
    <3>1. Heals(Deleted(f), f)'
      BY <2>3 DEF Heals, Touches, Deleted, is_file
    <3>2. ASSUME NEW g \in Files, g # f PROVE ~Touches(Deleted(f), g)
      <4>1. Deleted(f) # Rescan /\ Deleted(f).path = f
        BY DEF Deleted, Rescan
      <4>2. <<f, g>> \notin Under
        BY <1>3
      <4>. QED
        BY <3>2, <4>1, <4>2 DEF Touches
    <3>3. ~Harms(Deleted(f), f)'
      BY <2>3 DEF Harms, is_file
    <3>4. ASSUME NEW g \in Files, g # f PROVE ~Harms(Deleted(f), g)'
      BY <3>2, <3>4 DEF Harms, Touches
    <3>. QED
      BY <2>3, <3>1, <3>3, <3>4
  <2>. QED
    BY <1>1, <1>2, <2>1, <2>2, <2>4, <2>5 DEF Raise
<1>6. ASSUME NEW d \in Dirs, MoveOut(d)
      PROVE  WorldOK' /\ DirInv' /\ \E event \in Events : Told(event)
  <2>1. /\ disk' = [f \in Files |-> IF f \in FilesUnder(d) THEN Absent ELSE disk[f]]
        /\ dirs' = dirs \ {d} /\ changes' = changes + 1 /\ Raise(Deleted(d))
    BY <1>6 DEF MoveOut, Changed
  <2>2. \A f \in Files : disk'[f] = IF <<d, f>> \in Under THEN Absent ELSE disk[f]
    BY <2>1 DEF FilesUnder
  <2>3. WorldOK'
    BY <1>3, <2>1 DEF WorldOK
  <2>4. DirInv'
    <3>1. ASSUME NEW p \in Under, p[1] \notin dirs' PROVE disk'[p[2]] = Absent
      <4>1. p = <<p[1], p[2]>> /\ p[2] \in Files
        BY <1>3
      <4>2. CASE p[1] = d
        BY <2>2, <4>1, <4>2
      <4>3. CASE p[1] # d
        BY <2>1, <2>2, <3>1, <4>1, <4>3 DEF DirInv, is_file
      <4>. QED
        BY <4>2, <4>3
    <3>. QED
      BY <3>1 DEF DirInv, is_file
  <2>5. \A g \in Files : (disk'[g] = disk[g] \/ Heals(Deleted(d), g)') /\ ~Harms(Deleted(d), g)'
    <3>1. ASSUME NEW g \in Files, <<d, g>> \in Under PROVE Heals(Deleted(d), g)' /\ ~Harms(Deleted(d), g)'
      BY <2>2, <3>1 DEF Heals, Harms, Touches, Deleted, is_file
    <3>2. ASSUME NEW g \in Files, <<d, g>> \notin Under PROVE disk'[g] = disk[g] /\ ~Harms(Deleted(d), g)'
      <4>1. d # g /\ Deleted(d).path = d /\ Deleted(d) # Rescan
        BY <1>3 DEF Deleted, Rescan
      <4>. QED
        BY <2>2, <3>2, <4>1 DEF Harms, Touches
    <3>. QED
      BY <3>1, <3>2
  <2>. QED
    BY <1>1, <1>2, <2>1, <2>3, <2>4, <2>5 DEF Raise
<1>7. ASSUME NEW d \in Dirs, MoveIn(d)
      PROVE  WorldOK' /\ DirInv' /\ \E event \in Events : Told(event)
  <2>1. PICK moved \in [FilesUnder(d) -> Held] :
          disk' = [f \in Files |-> IF f \in FilesUnder(d) THEN moved[f] ELSE disk[f]]
    BY <1>7 DEF MoveIn
  <2>2. d \notin dirs /\ dirs' = dirs \cup {d} /\ changes' = changes + 1 /\ Raise(Created(d))
    BY <1>7 DEF MoveIn, Changed
  <2>3. WorldOK'
    BY <1>3, <2>1, <2>2 DEF WorldOK
  <2>4. DirInv'
    <3>1. ASSUME NEW p \in Under, p[1] \notin dirs' PROVE disk'[p[2]] = Absent
      <4>1. p = <<p[1], p[2]>> /\ p[2] \in Files /\ p[1] # d
        BY <1>3, <2>2, <3>1
      <4>2. <<d, p[2]>> \notin Under
        BY <4>1 DEF LiveAssumption
      <4>. QED
        BY <2>1, <2>2, <3>1, <4>1, <4>2 DEF DirInv, is_file, FilesUnder
    <3>. QED
      BY <3>1 DEF DirInv, is_file
  <2>5. \A g \in Files : (disk'[g] = disk[g] \/ Heals(Created(d), g)') /\ ~Harms(Created(d), g)'
    <3>1. ASSUME NEW g \in Files, <<d, g>> \in Under PROVE disk'[g] = disk[g] \/ Heals(Created(d), g)'
      <4>1. <<d, g>>[1] = d /\ <<d, g>>[2] = g
        OBVIOUS
      <4>2. disk[g] = Absent
        BY <2>2, <3>1, <4>1 DEF DirInv, is_file
      <4>3. Touches(Created(d), g) /\ Created(d).kind = "created"
        BY <3>1 DEF Touches, Created
      <4>. QED
        BY <4>2, <4>3 DEF Heals, is_file, Touches
    <3>2. ASSUME NEW g \in Files, <<d, g>> \notin Under PROVE disk'[g] = disk[g]
      BY <2>1, <3>2 DEF FilesUnder
    <3>3. \A g : ~Harms(Created(d), g)'
      BY DEF Harms, Created
    <3>. QED
      BY <3>1, <3>2, <3>3
  <2>. QED
    BY <1>1, <1>2, <2>2, <2>3, <2>4, <2>5 DEF Raise
<1>8. /\ vouched' \subseteq vouched
      /\ UNCHANGED <<queue, taken, held, rows, batch, known, seeded, applier>>
  BY DEF FileStep, Write, Unlink, MoveOut, MoveIn, Changed
<1>. QED
  BY <1>4, <1>5, <1>6, <1>7, <1>8 DEF FileStep

LEMMA RowsOf ==
  ASSUME LiveAssumption, TypeOK
  PROVE  Index \in Indices /\ rows \in [Keys -> Held] /\ saved \in [Keys -> Held]
BY DEF TypeOK, IndexOK, Index, Indices

LEMMA BecomesType ==
  ASSUME NEW ix \in Indices, Becomes(ix), saved \in [Keys -> Held], UNCHANGED saved
  PROVE  IndexOK'
<1>1. ix.rows \in [Keys -> Held] /\ ix.batch \in SUBSET Keys /\ ix.marked \in SUBSET PerTable
  BY DEF Indices
<1>. QED
  BY <1>1 DEF Becomes, IndexOK

LEMMA InitTypes == ASSUME LiveAssumption, Init PROVE TypeOK
<1>1. WorldOK /\ FreshOK /\ ControlOK
  BY DEF Init, WorldOK, FreshOK, ControlOK, Found
<1>2. IndexOK
  <2>1. Disk \in [Keys -> Held]
    BY <1>1, DiskIn DEF Disk
  <2>. QED
    BY <2>1 DEF Init, IndexOK
<1>3. EventsOK
  BY EmptySeq DEF Init, EventsOK
<1>. QED
  BY <1>1, <1>2, <1>3 DEF TypeOK

LEMMA StepIndexType ==
  ASSUME LiveAssumption, TypeOK, DirInv, [Next]_vars
  PROVE  IndexOK'
<1>1. CASE FileStep
  BY <1>1, FileMoves DEF TypeOK, IndexOK, applier
<1>2. CASE RouteHeld
  <2>1. route_file_event(Index, Head(again)) \in Indices
    BY RowsOf, RouteType DEF TypeOK
  <2>. QED
    BY <1>2, <2>1, RowsOf, BecomesType DEF RouteHeld
<1>3. CASE Route
  <2>1. route_file_event(Index, Head(todo)) \in Indices
    BY RowsOf, RouteType DEF TypeOK
  <2>. QED
    BY <1>3, <2>1, RowsOf, BecomesType DEF Route
<1>4. CASE Routed
  <2>1. rescan(Index) \in Indices
    BY RowsOf, RescanAt DEF TypeOK
  <2>2. CASE ToRescan
    BY <1>4, <2>1, <2>2, RowsOf, BecomesType DEF Routed
  <2>3. CASE ~ToRescan
    BY <1>4, <2>3 DEF Routed, TypeOK, IndexOK
  <2>. QED
    BY <2>2, <2>3
<1>5. CASE Refresh
  <2>1. refresh_pending(Index) \in [Keys -> Held]
    BY RowsOf, RefreshAt DEF TypeOK
  <2>. QED
    BY <1>5, <2>1 DEF Refresh, TypeOK, IndexOK
<1>6. CASE Query \/ QueryFails
  <2>1. AfterGone.batch \in SUBSET Keys /\ QueryRows \in [Keys -> Held]
    BY QueryAt DEF Indices
  <2>. QED
    BY <1>6, <2>1 DEF Query, QueryFails, TypeOK, IndexOK, applier
<1>7. CASE Deliver \/ Receive \/ Begin \/ Late \/ Commit \/ Reject \/ TryAlone \/ UNCHANGED vars
  BY <1>7 DEF Deliver, Receive, Begin, Late, Commit, Reject, TryAlone, vars, applier, TypeOK, IndexOK
<1>. QED
  BY <1>1, <1>2, <1>3, <1>4, <1>5, <1>6, <1>7 DEF Next, PollerStep, QueryStep

LEMMA StepEventsType ==
  ASSUME LiveAssumption, TypeOK, DirInv, [Next]_vars
  PROVE  EventsOK'
<1>0. /\ EventsOK /\ <<>> \in Seq(Events)
      /\ raised \in Seq(Events) /\ queue \in Seq(Events) /\ taken \in Seq(Events)
      /\ held \in Seq(Events) /\ again \in Seq(Events)
      /\ todo \in Seq(Events) /\ applied \in Seq(Events)
  BY EmptySeq DEF TypeOK, EventsOK
<1>. HIDE DEF Events
<1>1. CASE FileStep
  <2>1. PICK event \in Events : raised' = Append(raised, event)
    BY <1>1, FileMoves
  <2>2. raised' \in Seq(Events)
    BY <1>0, <2>1, AppendProperties
  <2>. QED
    BY <1>0, <1>1, <2>2, FileMoves DEF EventsOK, applier
<1>2. CASE Deliver
  <2>1. Append(queue, Head(raised)) \in Seq(Events) /\ Tail(raised) \in Seq(Events)
    BY <1>0, <1>2, ConcatMoves, HeadFirst DEF Deliver
  <2>. QED
    BY <1>0, <1>2, <2>1 DEF Deliver, EventsOK, applier
<1>3. CASE Begin
  <2>1. take_held \in Seq(Events)
    BY <1>0, TakeHeldIs, RestatedType
  <2>. QED
    BY <1>0, <1>3, <2>1 DEF Begin, EventsOK
<1>4. CASE RouteHeld
  <2>1. Tail(again) \in Seq(Events)
    BY <1>0, <1>4, HeadFirst DEF RouteHeld
  <2>. QED
    BY <1>0, <1>4, <2>1 DEF RouteHeld, EventsOK, events
<1>5. CASE Route
  <2>1. Tail(todo) \in Seq(Events) /\ Append(applied, Head(todo)) \in Seq(Events)
    BY <1>0, <1>5, HeadFirst, ConcatMoves DEF Route
  <2>. QED
    BY <1>0, <1>5, <2>1 DEF Route, EventsOK, events
<1>6. CASE Reject
  <2>1. hold(held, applied) \in Seq(Events)
    BY <1>0, HoldIs
  <2>. QED
    BY <1>0, <1>6, <2>1 DEF Reject, Finished, EventsOK
<1>7. CASE Receive \/ Late \/ Routed \/ Refresh \/ Commit \/ TryAlone \/ Query \/ QueryFails \/ UNCHANGED vars
  BY <1>0, <1>7 DEF Receive, Late, Routed, Refresh, Commit, TryAlone, Query, QueryFails, Finished,
                    vars, applier, events, EventsOK
<1>. QED
  BY <1>1, <1>2, <1>3, <1>4, <1>5, <1>6, <1>7 DEF Next, PollerStep, QueryStep

LEMMA StepTypes ==
  ASSUME LiveAssumption, TypeOK, DirInv, [Next]_vars
  PROVE  TypeOK' /\ DirInv'
<1>1. CASE FileStep
  <2>1. FreshOK' /\ ControlOK'
    BY <1>1, FileMoves DEF TypeOK, FreshOK, ControlOK, applier
  <2>. QED
    BY <1>1, <2>1, FileMoves, StepIndexType, StepEventsType DEF TypeOK
<1>2. CASE PollerStep \/ QueryStep \/ UNCHANGED vars
  <2>1. UNCHANGED world
    BY <1>2 DEF PollerStep, QueryStep, Deliver, Receive, Begin, RouteHeld, Route, Late, Routed, Refresh,
                Commit, Reject, TryAlone, Query, QueryFails, vars
  <2>2. WorldOK' /\ DirInv'
    BY <2>1 DEF world, TypeOK, WorldOK, DirInv, is_file
  <2>3. ControlOK'
    BY <1>2 DEF PollerStep, QueryStep, Deliver, Receive, Begin, RouteHeld, Route, Late, Routed, Refresh,
                Commit, Reject, TryAlone, Finished, Query, QueryFails, vars, applier, TypeOK, ControlOK
  <2>4. FreshOK'
    <3>1. Found \in SUBSET Keys /\ Entries \in SUBSET Keys
      BY DEF Found, Entries, TypeOK, FreshOK
    <3>2. CASE Query \/ QueryFails
      BY <3>1, <3>2 DEF Query, QueryFails, TypeOK, FreshOK
    <3>3. CASE PollerStep \/ UNCHANGED vars
      BY <3>3 DEF PollerStep, Deliver, Receive, Begin, RouteHeld, Route, Late, Routed, Refresh,
                  Commit, Reject, TryAlone, vars, fresh, TypeOK, FreshOK
    <3>. QED
      BY <1>2, <3>2, <3>3 DEF QueryStep
  <2>. QED
    BY <2>2, <2>3, <2>4, StepIndexType, StepEventsType DEF TypeOK
<1>. QED
  BY <1>1, <1>2 DEF Next

-----------------------------------------------------------------------------
(* What there is when, and the order of the events.                        *)

\* What a batch begins with.
LEMMA BeginHeld ==
  ASSUME TypeOK, Begin
  PROVE  /\ held' = take_held /\ again' = take_held
         /\ held' \in Seq(Events)
         /\ ToSet(held') = {restated(event) : event \in ToSet(held)}
         /\ held' = <<>> <=> held = <<>>
<1>1. held \in Seq(Events) /\ EventsOK /\ held' = take_held /\ again' = take_held
  BY DEF TypeOK, EventsOK, Begin
<1>. HIDE DEF Events
<1>2. take_held \in Seq(Events) /\ ToSet(take_held) = {restated(event) : event \in ToSet(held)}
  BY <1>1, TakeHeldIs, RestatedType
<1>3. take_held = <<>> <=> held = <<>>
  <2>1. held = <<>> <=> ToSet(held) = {}
    BY <1>1, ToSetIn, ToSetEmpty
  <2>2. take_held = <<>> <=> ToSet(take_held) = {}
    BY <1>2, ToSetIn, ToSetEmpty
  <2>. QED
    BY <1>2, <2>1, <2>2
<1>. QED
  BY <1>1, <1>2, <1>3

LEMMA StepPhase == ASSUME LiveAssumption, TypeOK, DirInv, PhaseInv, [Next]_vars PROVE PhaseInv'
<1>1. CASE FileStep
  BY <1>1, FileMoves DEF PhaseInv, applier
<1>2. CASE Begin
  BY <1>2, BeginHeld DEF PhaseInv, Begin
<1>3. CASE RouteHeld
  <2>1. again \in Seq(Events) /\ again # <<>>
    BY <1>3 DEF TypeOK, EventsOK, RouteHeld
  <2>2. ToSet(Tail(again)) \subseteq ToSet(again)
    <3>. HIDE DEF Events
    <3>1. ToSet(again) = {Head(again)} \cup ToSet(Tail(again))
      BY <2>1, HeadFirst
    <3>. QED
      BY <3>1
  <2>. QED
    BY <1>3, <2>1, <2>2 DEF RouteHeld, events, PhaseInv
<1>4. CASE Deliver \/ Receive \/ Route \/ Late \/ Routed \/ Refresh
  BY <1>4 DEF Deliver, Receive, Route, Late, Routed, Refresh, PhaseInv, applier, events
<1>5. CASE Commit \/ Reject \/ TryAlone
  BY <1>5 DEF Commit, Reject, TryAlone, Finished, PhaseInv, applier, events
<1>6. CASE Query \/ QueryFails \/ UNCHANGED vars
  BY <1>6 DEF Query, QueryFails, vars, PhaseInv, applier, events
<1>. QED
  BY <1>1, <1>2, <1>3, <1>4, <1>5, <1>6 DEF Next, PollerStep, QueryStep

LEMMA AheadType ==
  ASSUME TypeOK
  PROVE  /\ todo \in Seq(Events) /\ taken \in Seq(Events) /\ queue \in Seq(Events) /\ raised \in Seq(Events)
         /\ applied \in Seq(Events) /\ <<>> \in Seq(Events)
         /\ todo \o taken \in Seq(Events) /\ queue \o raised \in Seq(Events)
         /\ Ahead \in Seq(Events) /\ applied \o Ahead \in Seq(Events)
<1>1. /\ todo \in Seq(Events) /\ taken \in Seq(Events) /\ queue \in Seq(Events) /\ raised \in Seq(Events)
      /\ applied \in Seq(Events) /\ <<>> \in Seq(Events)
  BY EmptySeq DEF TypeOK, EventsOK
<1>. HIDE DEF Events
<1>2. todo \o taken \in Seq(Events) /\ queue \o raised \in Seq(Events)
  BY <1>1, ConcatProperties
<1>3. Ahead \in Seq(Events)
  BY <1>2, ConcatProperties DEF Ahead
<1>4. applied \o Ahead \in Seq(Events)
  BY <1>1, <1>3, ConcatProperties
<1>. QED
  BY <1>1, <1>2, <1>3, <1>4

LEMMA NothingAhead ==
  ASSUME TypeOK
  PROVE  Ahead = <<>> <=> todo = <<>> /\ taken = <<>> /\ queue = <<>> /\ raised = <<>>
<1>. HIDE DEF Events
<1>1. todo \o taken = <<>> <=> todo = <<>> /\ taken = <<>>
  BY AheadType, ConcatEqualIffEmpty
<1>2. queue \o raised = <<>> <=> queue = <<>> /\ raised = <<>>
  BY AheadType, ConcatEqualIffEmpty
<1>3. Ahead = <<>> <=> todo \o taken = <<>> /\ queue \o raised = <<>>
  BY AheadType, ConcatEqualIffEmpty DEF Ahead
<1>. QED
  BY <1>1, <1>2, <1>3

\* Where events only pass from one queue to the next.
LEMMA AheadStays ==
  ASSUME TypeOK, PhaseInv,
         \/ Deliver \/ Receive \/ Begin \/ RouteHeld \/ Late \/ Routed \/ Refresh
         \/ Query \/ QueryFails \/ UNCHANGED vars
  PROVE  Ahead' = Ahead /\ applied' = applied
<1>. HIDE DEF Events
<1>1. CASE Deliver
  <2>1. Append(queue, Head(raised)) \o Tail(raised) = queue \o raised
    BY <1>1, AheadType, ConcatMoves DEF Deliver
  <2>. QED
    BY <1>1, <2>1 DEF Deliver, Ahead, applier
<1>2. CASE Receive
  <2>1. todo = <<>> /\ taken = <<>> /\ taken' = queue /\ queue' = <<>>
        /\ UNCHANGED <<todo, raised, applied>>
    BY <1>2 DEF Receive, PhaseInv, applier
  <2>2. <<>> \o <<>> = <<>> /\ <<>> \o (queue \o raised) = queue \o raised
        /\ <<>> \o queue = queue /\ <<>> \o raised = raised
    BY AheadType, ConcatEmptySeq
  <2>. QED
    BY <2>1, <2>2 DEF Ahead
<1>3. CASE Begin
  <2>1. todo = <<>> /\ todo' = taken /\ taken' = <<>> /\ UNCHANGED <<queue, raised, applied>>
    BY <1>3 DEF Begin, PhaseInv
  <2>2. <<>> \o taken = taken /\ taken \o <<>> = taken
    BY AheadType, ConcatEmptySeq
  <2>. QED
    BY <2>1, <2>2 DEF Ahead
<1>4. CASE Late
  <2>1. todo = <<>> /\ taken = <<>> /\ todo' = queue /\ queue' = <<>> /\ UNCHANGED <<taken, raised, applied>>
    BY <1>4 DEF Late, PhaseInv
  <2>2. <<>> \o <<>> = <<>> /\ <<>> \o (queue \o raised) = queue \o raised
        /\ queue \o <<>> = queue /\ <<>> \o raised = raised
    BY AheadType, ConcatEmptySeq
  <2>. QED
    BY <2>1, <2>2 DEF Ahead
<1>5. CASE RouteHeld \/ Routed \/ Refresh \/ Query \/ QueryFails \/ UNCHANGED vars
  BY <1>5 DEF RouteHeld, Routed, Refresh, Query, QueryFails, vars, events, applier, Ahead
<1>. QED
  BY <1>1, <1>2, <1>3, <1>4, <1>5

LEMMA AheadRoute ==
  ASSUME TypeOK, PhaseInv, Route
  PROVE  /\ Head(todo) \in Events /\ <<Head(todo)>> \in Seq(Events)
         /\ Ahead' \in Seq(Events)
         /\ Ahead = <<Head(todo)>> \o Ahead'
         /\ applied' \o Ahead' = applied \o Ahead
<1>. HIDE DEF Events
<1>1. /\ todo # <<>> /\ todo' = Tail(todo) /\ applied' = Append(applied, Head(todo))
      /\ UNCHANGED <<taken, queue, raised>>
  BY DEF Route, events
<1>2. /\ Head(todo) \in Events /\ <<Head(todo)>> \in Seq(Events) /\ Tail(todo) \in Seq(Events)
      /\ todo = <<Head(todo)>> \o Tail(todo)
  BY <1>1, AheadType, HeadFirst
<1>3. Tail(todo) \o taken \in Seq(Events)
      /\ <<Head(todo)>> \o (Tail(todo) \o taken) = (<<Head(todo)>> \o Tail(todo)) \o taken
  <2>1. PICK a \in Seq(Events), b \in Seq(Events), c \in Seq(Events) :
           a = <<Head(todo)>> /\ b = Tail(todo) /\ c = taken
    BY <1>2, AheadType
  <2>2. b \o c \in Seq(Events) /\ a \o (b \o c) = (a \o b) \o c
    BY ConcatAssociative, ConcatProperties
  <2>. QED
    BY <2>1, <2>2
<1>4. Ahead' = (Tail(todo) \o taken) \o (queue \o raised)
  BY <1>1 DEF Ahead
<1>5. Ahead' \in Seq(Events)
  BY <1>3, <1>4, AheadType, ConcatProperties
<1>6. Ahead = <<Head(todo)>> \o Ahead'
  <2>1. (<<Head(todo)>> \o (Tail(todo) \o taken)) \o (queue \o raised)
          = <<Head(todo)>> \o ((Tail(todo) \o taken) \o (queue \o raised))
    <3>1. PICK a \in Seq(Events), b \in Seq(Events), c \in Seq(Events) :
             a = <<Head(todo)>> /\ b = Tail(todo) \o taken /\ c = queue \o raised
      BY <1>2, <1>3, AheadType
    <3>2. (a \o b) \o c = a \o (b \o c)
      BY ConcatAssociative
    <3>. QED
      BY <3>1, <3>2
  <2>. QED
    BY <1>2, <1>3, <1>4, <2>1 DEF Ahead
<1>7. applied' \o Ahead' = applied \o Ahead
  <2>1. (applied \o <<Head(todo)>>) \o Ahead' = applied \o (<<Head(todo)>> \o Ahead')
    <3>1. PICK a \in Seq(Events), b \in Seq(Events), c \in Seq(Events) :
             a = applied /\ b = <<Head(todo)>> /\ c = Ahead'
      BY <1>2, <1>5, AheadType
    <3>2. (a \o b) \o c = a \o (b \o c)
      BY ConcatAssociative
    <3>. QED
      BY <3>1, <3>2
  <2>2. applied' = applied \o <<Head(todo)>>
    BY <1>1, <1>2, AheadType, AppendIsConcat
  <2>. QED
    BY <1>6, <2>1, <2>2
<1>. QED
  BY <1>2, <1>5, <1>6, <1>7

LEMMA AheadOver ==
  ASSUME TypeOK, PhaseInv, Commit \/ Reject \/ TryAlone
  PROVE  /\ applied' = <<>>
         /\ Ahead' = IF TryAlone THEN applied \o Ahead ELSE Ahead
<1>. HIDE DEF Events
<1>1. todo = <<>> /\ taken = <<>> /\ UNCHANGED <<taken, queue, raised>> /\ applied' = <<>>
  BY DEF Commit, Reject, TryAlone, Finished, PhaseInv, events
<1>2. CASE TryAlone
  <2>1. todo' = applied
    BY <1>2 DEF TryAlone
  <2>2. <<>> \o <<>> = <<>> /\ <<>> \o (queue \o raised) = queue \o raised /\ applied \o <<>> = applied
    BY AheadType, ConcatEmptySeq
  <2>. QED
    BY <1>1, <1>2, <2>1, <2>2 DEF Ahead
<1>3. CASE ~TryAlone
  BY <1>1, <1>3 DEF Commit, Reject, Ahead
<1>. QED
  BY <1>1, <1>2, <1>3

LEMMA AheadGrows ==
  ASSUME LiveAssumption, TypeOK, DirInv, FileStep
  PROVE  \E event \in Events :
           /\ Ahead' = Append(Ahead, event) /\ ToSet(Ahead') = ToSet(Ahead) \cup {event}
           /\ applied' \o Ahead' = Append(applied \o Ahead, event)
           /\ \A f \in Files : (disk'[f] = disk[f] \/ Heals(event, f)') /\ ~Harms(event, f)'
<1>1. PICK event \in Events :
         /\ raised' = Append(raised, event)
         /\ \A f \in Files : (disk'[f] = disk[f] \/ Heals(event, f)') /\ ~Harms(event, f)'
  BY FileMoves
<1>. HIDE DEF Events
<1>2. UNCHANGED <<todo, taken, queue, applied>>
  BY FileMoves DEF applier
<1>3. queue \o Append(raised, event) = Append(queue \o raised, event)
  BY AheadType, ConcatAppends
<1>4. (todo \o taken) \o Append(queue \o raised, event) = Append(Ahead, event)
  <2>1. PICK a \in Seq(Events), b \in Seq(Events) : a = todo \o taken /\ b = queue \o raised
    BY AheadType
  <2>2. a \o Append(b, event) = Append(a \o b, event)
    BY ConcatAppends
  <2>. QED
    BY <2>1, <2>2 DEF Ahead
<1>5. Ahead' = Append(Ahead, event)
  BY <1>1, <1>2, <1>3, <1>4 DEF Ahead
<1>6. ToSet(Ahead') = ToSet(Ahead) \cup {event}
  BY <1>5, AheadType, ToSetAppend
<1>7. applied' \o Ahead' = Append(applied \o Ahead, event)
  BY <1>2, <1>5, AheadType, ConcatAppends
<1>. QED
  BY <1>1, <1>5, <1>6, <1>7

\* Whether an event heals or harms a file is as the file is.
LEMMA AsTheFile ==
  ASSUME NEW f, disk'[f] = disk[f], NEW event
  PROVE  (Heals(event, f)' <=> Heals(event, f)) /\ (Harms(event, f)' <=> Harms(event, f))
BY DEF Heals, Harms, Touches, is_file

LEMMA SafeSuffix ==
  ASSUME NEW S, NEW s \in Seq(S), NEW t \in Seq(S), Safe(s \o t)
  PROVE  Safe(t)
<1> DEFINE n == Len(s)
<1>1. /\ n \in Nat /\ Len(t) \in Nat /\ DOMAIN t = 1 .. Len(t)
      /\ DOMAIN (s \o t) = 1 .. n + Len(t)
      /\ \A i \in 1 .. n + Len(t) : (s \o t)[i] = IF i <= n THEN s[i] ELSE t[i - n]
  BY ConcatProperties, LenProperties
<1>. HIDE DEF n
<1>2. ASSUME NEW f \in Files, NEW i \in 1 .. Len(t), Harms(t[i], f)
      PROVE  \E j \in 1 .. Len(t) : i < j /\ Heals(t[j], f)
  <2>1. i + n \in 1 .. n + Len(t) /\ ~(i + n <= n) /\ i + n - n = i
    BY <1>1
  <2>2. Harms((s \o t)[i + n], f)
    BY <1>1, <1>2, <2>1
  <2>3. PICK j \in 1 .. n + Len(t) : i + n < j /\ Heals((s \o t)[j], f)
    BY <1>1, <2>1, <2>2 DEF Safe
  <2>4. j - n \in 1 .. Len(t) /\ i < j - n /\ ~(j <= n)
    BY <1>1, <2>3
  <2>. QED
    BY <1>1, <2>3, <2>4
<1>. QED
  BY <1>1, <1>2 DEF Safe

LEMMA SafeHead ==
  ASSUME NEW S, NEW event, <<event>> \in Seq(S), NEW t \in Seq(S), Safe(<<event>> \o t),
         NEW f \in Files, Harms(event, f)
  PROVE  Healed(ToSet(t), f)
<1>1. /\ Len(t) \in Nat /\ DOMAIN t = 1 .. Len(t) /\ Len(<<event>>) = 1
      /\ DOMAIN (<<event>> \o t) = 1 .. 1 + Len(t)
      /\ \A i \in 1 .. 1 + Len(t) : (<<event>> \o t)[i] = IF i <= 1 THEN <<event>>[i] ELSE t[i - 1]
  BY ConcatProperties, LenProperties
<1>2. 1 \in 1 .. 1 + Len(t) /\ (<<event>> \o t)[1] = event
  BY <1>1
<1>3. PICK j \in 1 .. 1 + Len(t) : 1 < j /\ Heals((<<event>> \o t)[j], f)
  BY <1>1, <1>2 DEF Safe
<1>4. j - 1 \in 1 .. Len(t) /\ ~(j <= 1)
  BY <1>1, <1>3
<1>. QED
  BY <1>1, <1>3, <1>4 DEF Healed, ToSet

LEMMA StepOrder ==
  ASSUME LiveAssumption, TypeOK, DirInv, PhaseInv, OrderInv, [Next]_vars
  PROVE  OrderInv'
<1>1. PICK new : new = applied' \o Ahead'
  OBVIOUS
<1>2. SUFFICES ASSUME NEW f \in Files, NEW i \in DOMAIN new, Harms(new[i], f)'
               PROVE  \E j \in DOMAIN new : i < j /\ Heals(new[j], f)'
  <2>1. Safe(new)' => OrderInv'
    BY <1>1 DEF OrderInv
  <2>2. SUFFICES Safe(new)'
    BY <2>1
  <2>. QED
    BY DEF Safe
<1>3. PICK old \in Seq(Events) : old = applied \o Ahead
  BY AheadType
<1>4. Safe(old)
  BY <1>3 DEF OrderInv
<1>. HIDE DEF Events
<1>5. CASE FileStep
  <2>1. PICK event \in Events :
           /\ new = Append(old, event)
           /\ (disk'[f] = disk[f] \/ Heals(event, f)') /\ ~Harms(event, f)'
    BY <1>1, <1>3, <1>5, AheadGrows
  <2>2. /\ Len(old) \in Nat /\ DOMAIN old = 1 .. Len(old)
        /\ DOMAIN new = 1 .. Len(old) + 1
        /\ new[Len(old) + 1] = event /\ \A j \in 1 .. Len(old) : new[j] = old[j]
    BY <2>1, AppendProperties, LenProperties
  <2>3. i \in 1 .. Len(old) /\ i < Len(old) + 1 /\ new[i] = old[i]
    <3>1. i # Len(old) + 1
      BY <1>2, <2>1, <2>2
    <3>. QED
      BY <2>2, <3>1
  <2>4. CASE disk'[f] = disk[f]
    <3>1. Harms(old[i], f)
      BY <1>2, <2>3, <2>4, AsTheFile
    <3>2. PICK j \in 1 .. Len(old) : i < j /\ Heals(old[j], f)
      BY <1>4, <2>2, <2>3, <3>1 DEF Safe
    <3>3. Heals(new[j], f)'
      BY <2>2, <2>4, <3>2, AsTheFile
    <3>. QED
      BY <2>2, <3>2, <3>3
  <2>5. CASE Heals(event, f)'
    BY <2>2, <2>3, <2>5
  <2>. QED
    BY <2>1, <2>4, <2>5
<1>6. CASE ~FileStep
  <2>1. disk' = disk
    BY <1>6 DEF Next, PollerStep, QueryStep, Deliver, Receive, Begin, RouteHeld, Route, Late, Routed,
                Refresh, Commit, Reject, TryAlone, Query, QueryFails, vars, world
  <2>2. Safe(new)
    <3>1. CASE new = old
      BY <1>4, <3>1
    <3>2. CASE Commit \/ Reject \/ TryAlone
      <4>1. new = <<>> \o Ahead'
        BY <1>1, <3>2, AheadOver
      <4>2. new = Ahead \/ new = applied \o Ahead
        BY <3>2, <4>1, AheadOver, AheadType, ConcatEmptySeq
      <4>. QED
        BY <1>3, <1>4, <4>2, AheadType, SafeSuffix
    <3>3. CASE Route
      BY <1>1, <1>3, <1>4, <3>3, AheadRoute
    <3>. QED
      BY <1>1, <1>3, <1>6, <3>1, <3>2, <3>3, AheadStays DEF Next, PollerStep, QueryStep
  <2>3. PICK j \in DOMAIN new : i < j /\ Heals(new[j], f)
    BY <1>2, <2>1, <2>2, AsTheFile DEF Safe
  <2>. QED
    BY <2>1, <2>3, AsTheFile
<1>. QED
  BY <1>5, <1>6

\* A healing event is routed, or stays ahead.
LEMMA ComingOn ==
  ASSUME NEW f, disk'[f] = disk[f], ToSet(Ahead) \subseteq ToSet(Ahead'), Coming(f)
  PROVE  Coming(f)'
<1>1. PICK event \in ToSet(Ahead') : Heals(event, f)
  BY DEF Coming, Healed
<1>2. Heals(event, f)'
  BY <1>1, AsTheFile
<1>. QED
  BY <1>1, <1>2 DEF Coming, Healed

LEMMA RestatedAt ==
  ASSUME NEW event \in Events, NEW f
  PROVE  /\ Touches(restated(event), f) <=> Touches(event, f)
         /\ restated(event) = Rescan <=> event = Rescan
<1>1. CASE event = Rescan
  BY <1>1 DEF restated
<1>2. CASE event # Rescan
  <2>1. restated(event) \in {Created(event.path), Deleted(event.path)}
    BY <1>2 DEF restated
  <2>2. restated(event) # Rescan /\ restated(event).path = event.path
    BY <2>1 DEF Created, Deleted, Rescan
  <2>. QED
    BY <1>2, <2>2 DEF Touches
<1>. QED
  BY <1>1, <1>2

LEMMA StepAgain ==
  ASSUME LiveAssumption, NotBoth, TypeOK, DirInv, PhaseInv, FreeInv, AgainInv, [Next]_vars
  PROVE  AgainInv'
<1>. SUFFICES ASSUME NEW f \in Files, NEW event \in ToSet(again'), Touches(event, f)
              PROVE  Heals(event, f)' \/ Coming(f)'
  BY DEF AgainInv, Touches
<1>1. CASE FileStep
  <2>1. PICK e \in Events : ToSet(Ahead') = ToSet(Ahead) \cup {e} /\ (disk'[f] = disk[f] \/ Heals(e, f)')
    BY <1>1, AheadGrows
  <2>2. Heals(event, f) \/ Coming(f)
    BY <1>1, FileMoves DEF AgainInv, applier
  <2>3. CASE disk'[f] = disk[f]
    BY <2>1, <2>2, <2>3, ComingOn, AsTheFile
  <2>4. CASE Heals(e, f)'
    BY <2>1, <2>4 DEF Coming, Healed
  <2>. QED
    BY <2>1, <2>3, <2>4
<1>2. CASE Begin
  <2>1. PICK e \in ToSet(held) : event = restated(e)
    BY <1>2, BeginHeld
  <2>2. e \in Events /\ held # <<>>
    <3>1. held \in Seq(Events)
      BY DEF TypeOK, EventsOK
    <3>. HIDE DEF Events
    <3>. QED
      BY <2>1, <3>1, ToSetIn, ToSetEmpty
  <2>3. Dirs = {}
    BY <2>2 DEF NotBoth, FreeInv
  <2>4. disk' = disk
    BY <1>2 DEF Begin, world
  <2>5. CASE e = Rescan
    BY <2>1, <2>5 DEF restated, Heals
  <2>6. CASE e # Rescan
    <3>1. Touches(e, f)
      BY <2>1, <2>2, RestatedAt
    <3>2. e.path = f /\ dirs = {}
      BY <2>3, <2>6, <3>1 DEF Touches, LiveAssumption, TypeOK, WorldOK
    <3>3. event = IF is_file(f) THEN Created(f) ELSE Deleted(f)
      BY <2>1, <2>6, <3>2 DEF restated, Existing
    <3>4. event.kind = IF is_file(f) THEN "created" ELSE "deleted"
      BY <3>3 DEF Created, Deleted
    <3>5. Heals(event, f)
      BY <3>4 DEF Heals
    <3>. QED
      BY <2>4, <3>5, AsTheFile
  <2>. QED
    BY <2>5, <2>6
<1>3. CASE Deliver \/ Receive \/ RouteHeld \/ Late \/ Routed \/ Refresh \/ Query \/ QueryFails \/ UNCHANGED vars
  <2>1. Ahead' = Ahead /\ disk' = disk
    BY <1>3, AheadStays DEF Deliver, Receive, RouteHeld, Late, Routed, Refresh, Query, QueryFails, vars, world
  <2>2. event \in ToSet(again)
    <3>1. CASE RouteHeld
      <4>1. again \in Seq(Events) /\ again # <<>> /\ again' = Tail(again)
        BY <3>1 DEF TypeOK, EventsOK, RouteHeld
      <4>2. ToSet(again) = {Head(again)} \cup ToSet(Tail(again))
        <5>. HIDE DEF Events
        <5>. QED
          BY <4>1, HeadFirst
      <4>. QED
        BY <4>1, <4>2
    <3>2. CASE ~RouteHeld
      BY <1>3, <3>2 DEF Deliver, Receive, Late, Routed, Refresh, Query, QueryFails, vars, applier
    <3>. QED
      BY <3>1, <3>2
  <2>3. Heals(event, f) \/ Coming(f)
    BY <2>2 DEF AgainInv
  <2>. QED
    BY <2>1, <2>3, ComingOn, AsTheFile
<1>4. CASE Route \/ Commit \/ Reject \/ TryAlone
  <2>1. again' = <<>>
    BY <1>4 DEF Route, Commit, Reject, TryAlone, PhaseInv
  <2>. QED
    BY <2>1, ToSetEmpty
<1>. QED
  BY <1>1, <1>2, <1>3, <1>4 DEF Next, PollerStep, QueryStep

-----------------------------------------------------------------------------
(* The rows.                                                               *)

\* The rows of a key whose file, rows and list stay.
LEMMA RightOn ==
  ASSUME NEW k, disk'[k[2]] = disk[k[2]], UNCHANGED <<rows, batch, marked>>, RightIn(Index, k)
  PROVE  RightIn(Index, k)'
BY DEF RightIn, Index, is_file

LEMMA BecomesRight ==
  ASSUME NEW ix, NEW k, disk' = disk, Becomes(ix), RightIn(ix, k)
  PROVE  RightIn(Index, k)'
BY DEF RightIn, Index, Becomes, is_file

LEMMA ListedOrNowhere ==
  ASSUME NotBoth, FreeInv PROVE Dirs = {} \/ ListedIn(Index)
BY DEF NotBoth, FreeInv

LEMMA RowsFiles == ASSUME LiveAssumption, IInv, FileStep PROVE RowsInv' /\ SavedInv'
<1>. USE DEF IInv
<1>0. ASSUME NEW k \in Keys PROVE k[2] \in Files
  BY KeyParts
<1>1. PICK e \in Events : ToSet(Ahead') = ToSet(Ahead) \cup {e} /\ \A f \in Files : disk'[f] = disk[f] \/ Heals(e, f)'
  BY AheadGrows
<1>2. UNCHANGED <<held, rows, batch, pc, attempt, again, todo, applied, marked, saved>>
  BY FileMoves DEF applier
<1>3. ASSUME NEW f \in Files, disk'[f] # disk[f] PROVE Coming(f)'
  BY <1>1, <1>3 DEF Coming, Healed
<1>4. ASSUME NEW k \in Keys PROVE RowsAt(k)'
  <2>1. CASE disk'[k[2]] # disk[k[2]]
    BY <1>0, <1>3, <2>1 DEF RowsAt
  <2>2. CASE disk'[k[2]] = disk[k[2]]
    <3>1. RightIn(Index, k) => RightIn(Index, k)'
      BY <1>2, <2>2, RightOn
    <3>2. Coming(k[2]) => Coming(k[2])'
      BY <1>1, <2>2, ComingOn
    <3>3. Healed(ToSet(again), k[2]) => Healed(ToSet(again), k[2])'
      BY <1>2, <2>2, AsTheFile DEF Healed
    <3>4. (pc = "route" /\ ToRescan) => (pc = "route" /\ ToRescan)'
      BY <1>2 DEF ToRescan
    <3>5. (attempt # "together" /\ Touched(ToSet(held), k[2])) => (attempt # "together" /\ Touched(ToSet(held), k[2]))'
      BY <1>2 DEF Touched, Touches
    <3>6. RowsAt(k)
      BY DEF RowsInv
    <3>. QED
      BY <3>1, <3>2, <3>3, <3>4, <3>5, <3>6 DEF RowsAt
  <2>. QED
    BY <2>1, <2>2
<1>5. ASSUME pc' # "idle", NEW k \in Keys PROVE SavedAt(k)'
  <2>1. CASE disk'[k[2]] # disk[k[2]]
    BY <1>0, <1>3, <2>1 DEF SavedAt
  <2>2. CASE disk'[k[2]] = disk[k[2]]
    <3>1. Coming(k[2]) => Coming(k[2])'
      BY <1>1, <2>2, ComingOn
    <3>2. Healed(ToSet(applied), k[2]) => Healed(ToSet(applied), k[2])'
      BY <1>2, <2>2, AsTheFile DEF Healed
    <3>3. Touched(ToSet(held), k[2]) => Touched(ToSet(held), k[2])'
      BY <1>2 DEF Touched, Touches
    <3>4. SavedAt(k)
      BY <1>2, <1>5 DEF SavedInv
    <3>. QED
      BY <1>2, <2>2, <3>1, <3>2, <3>3, <3>4 DEF SavedAt
  <2>. QED
    BY <2>1, <2>2
<1>. QED
  BY <1>4, <1>5 DEF RowsInv, SavedInv

\* Events pass from one queue to the next, and the rows stay.
LEMMA RowsPass ==
  ASSUME LiveAssumption, IInv, Deliver \/ Receive \/ Late \/ (Routed /\ ~ToRescan) \/ UNCHANGED vars
  PROVE  RowsInv' /\ SavedInv'
<1>. USE DEF IInv
<1>1. UNCHANGED <<disk, held, rows, batch, attempt, again, applied, marked, saved>> /\ Ahead' = Ahead
      /\ (pc' = pc \/ (Routed /\ ~ToRescan))
  BY AheadStays DEF Deliver, Receive, Late, Routed, vars, events, world, applier
<1>2. ASSUME NEW k \in Keys
      PROVE  /\ RightIn(Index, k) => RightIn(Index, k)'
             /\ Coming(k[2]) => Coming(k[2])'
             /\ Healed(ToSet(again), k[2]) => Healed(ToSet(again), k[2])'
             /\ Healed(ToSet(applied), k[2]) => Healed(ToSet(applied), k[2])'
             /\ Touched(ToSet(held), k[2]) => Touched(ToSet(held), k[2])'
  <2>1. RightIn(Index, k) => RightIn(Index, k)'
    BY <1>1, RightOn
  <2>2. Coming(k[2]) => Coming(k[2])'
    BY <1>1, ComingOn
  <2>3. /\ Healed(ToSet(again), k[2]) => Healed(ToSet(again), k[2])'
        /\ Healed(ToSet(applied), k[2]) => Healed(ToSet(applied), k[2])'
    BY <1>1, AsTheFile DEF Healed
  <2>4. Touched(ToSet(held), k[2]) => Touched(ToSet(held), k[2])'
    BY <1>1 DEF Touched, Touches
  <2>. QED
    BY <2>1, <2>2, <2>3, <2>4
<1>3. ASSUME NEW k \in Keys PROVE RowsAt(k)'
  <2>1. RowsAt(k)
    BY DEF RowsInv
  <2>2. (pc = "route" /\ ToRescan) => (pc = "route" /\ ToRescan)'
    BY <1>1 DEF ToRescan
  <2>. QED
    BY <1>1, <1>2, <2>1, <2>2 DEF RowsAt
<1>4. ASSUME pc' # "idle", NEW k \in Keys PROVE SavedAt(k)'
  <2>1. SavedAt(k)
    BY <1>1, <1>4 DEF SavedInv, Routed
  <2>. QED
    BY <1>1, <1>2, <2>1 DEF SavedAt
<1>. QED
  BY <1>3, <1>4 DEF RowsInv, SavedInv

LEMMA RowsBegin ==
  ASSUME LiveAssumption, IInv, AgainInv', Begin PROVE RowsInv' /\ SavedInv'
<1>. USE DEF IInv
<1>1. /\ UNCHANGED <<disk, rows, batch, marked, saved>> /\ Ahead' = Ahead
      /\ pc = "idle" /\ again = <<>> /\ applied = <<>> /\ attempt = "plain" /\ saved = rows /\ marked = {}
  BY AheadStays DEF Begin, PhaseInv, world
<1>2. ToSet(again) = {}
  BY <1>1, ToSetEmpty
<1>3. ASSUME NEW k \in Keys, Touched(ToSet(held), k[2])
      PROVE  Touched(ToSet(held), k[2])' /\ (Coming(k[2])' \/ Healed(ToSet(again), k[2])')
  <2>1. PICK e \in ToSet(held) : Touches(e, k[2])
    BY <1>3 DEF Touched
  <2>2. e \in Events
    <3>1. held \in Seq(Events)
      BY DEF TypeOK, EventsOK
    <3>. HIDE DEF Events
    <3>. QED
      BY <2>1, <3>1, ToSetIn
  <2>3. restated(e) \in ToSet(held') /\ again' = held'
    BY <2>1, BeginHeld
  <2>4. PICK r \in ToSet(held') : r = restated(e)
    BY <2>3
  <2>5. Touches(r, k[2])
    BY <2>1, <2>2, <2>4, RestatedAt
  <2>6. Heals(r, k[2])' \/ Coming(k[2])'
    BY <2>3, <2>4, <2>5, KeyParts DEF AgainInv, Touches
  <2>. QED
    BY <2>3, <2>4, <2>5, <2>6 DEF Touched, Healed, Touches
<1>4. ASSUME NEW k \in Keys PROVE RowsAt(k)' /\ SavedAt(k)'
  <2>1. RightIn(Index, k) \/ Coming(k[2]) \/ Touched(ToSet(held), k[2])
    BY <1>1, <1>2 DEF RowsInv, RowsAt, Healed
  <2>2. CASE RightIn(Index, k)
    <3>1. saved[k] = disk[k[2]]
      BY <1>1, <2>2 DEF RightIn, Index
    <3>. QED
      BY <1>1, <2>2, <3>1, RightOn DEF RowsAt, SavedAt
  <2>3. CASE Coming(k[2])
    BY <1>1, <2>3, ComingOn DEF RowsAt, SavedAt
  <2>4. CASE Touched(ToSet(held), k[2])
    BY <1>3, <2>4 DEF RowsAt, SavedAt
  <2>. QED
    BY <2>1, <2>2, <2>3, <2>4
<1>. QED
  BY <1>4 DEF RowsInv, SavedInv

\* An event is routed: it heals a key's rows, leaves them right, or something
\* that heals them comes later.
LEMMA RouteStep ==
  ASSUME LiveAssumption, NotBoth, IInv, UNCHANGED disk, NEW event \in Events,
         Becomes(route_file_event(Index, event)), NEW k \in Keys,
         RightIn(Index, k) \/ (Heals(event, k[2]) /\ event # Rescan)
  PROVE  RightIn(Index, k)' \/ (Harms(event, k[2]) /\ ~Heals(event, k[2]))
<1>1. CASE Harms(event, k[2]) /\ ~Heals(event, k[2])
  BY <1>1
<1>2. CASE ~Harms(event, k[2]) \/ Heals(event, k[2])
  <2>1. event = Rescan => ~Harms(event, k[2])
    BY DEF Harms, Rescan
  <2>2. \/ Heals(event, k[2]) /\ event # Rescan
        \/ RightIn(Index, k) /\ ~Harms(event, k[2])
    BY <1>2, <2>1
  <2>3. RightIn(route_file_event(Index, event), k)
    BY <2>2, RowsOf, ListedOrNowhere, RouteAt DEF IInv, TypeOK
  <2>. QED
    BY <2>3, BecomesRight
<1>. QED
  BY <1>1, <1>2

LEMMA RowsRouteHeld ==
  ASSUME LiveAssumption, NotBoth, IInv, RouteHeld PROVE RowsInv' /\ SavedInv'
<1>. USE DEF IInv
<1> DEFINE event == Head(again)
<1>1. /\ UNCHANGED <<disk, held, pc, attempt, applied, saved>> /\ Ahead' = Ahead
      /\ pc = "route" /\ again # <<>> /\ again' = Tail(again)
      /\ attempt = "together" /\ ToSet(again) \subseteq ToSet(held)
      /\ Becomes(route_file_event(Index, event))
  BY AheadStays DEF RouteHeld, PhaseInv, world, events
<1>2. event \in Events /\ ToSet(again) = {event} \cup ToSet(again')
  <2>1. again \in Seq(Events)
    BY DEF TypeOK, EventsOK
  <2>. HIDE DEF Events
  <2>. QED
    BY <1>1, <2>1, HeadFirst
<1>. HIDE DEF event
<1>3. ASSUME NEW k \in Keys PROVE RowsAt(k)'
  <2>1. Coming(k[2]) => Coming(k[2])'
    BY <1>1, ComingOn
  <2>2. RowsAt(k) /\ k[2] \in Files
    BY KeyParts DEF RowsInv
  <2>3. CASE RightIn(Index, k) \/ (Heals(event, k[2]) /\ event # Rescan)
    <3>1. RightIn(Index, k)' \/ (Harms(event, k[2]) /\ ~Heals(event, k[2]))
      BY <1>1, <1>2, <2>3, RouteStep
    <3>2. Harms(event, k[2]) /\ ~Heals(event, k[2]) => Coming(k[2])
      BY <1>2, <2>2 DEF AgainInv, Harms
    <3>. QED
      BY <2>1, <3>1, <3>2 DEF RowsAt
  <2>4. CASE Coming(k[2])
    BY <2>1, <2>4 DEF RowsAt
  <2>5. CASE ToRescan \/ event = Rescan
    <3>1. ToRescan
      BY <1>1, <1>2, <2>5 DEF ToRescan
    <3>2. (pc = "route" /\ ToRescan)'
      BY <1>1, <3>1 DEF ToRescan
    <3>. QED
      BY <3>2 DEF RowsAt
  <2>6. CASE \E e \in ToSet(again') : Heals(e, k[2])
    BY <1>1, <2>6, AsTheFile DEF RowsAt, Healed
  <2>. QED
    BY <1>1, <1>2, <2>2, <2>3, <2>4, <2>5, <2>6 DEF RowsAt, Healed
<1>4. ASSUME NEW k \in Keys PROVE SavedAt(k)'
  <2>1. SavedAt(k)
    BY <1>1 DEF SavedInv
  <2>2. Coming(k[2]) => Coming(k[2])'
    BY <1>1, ComingOn
  <2>3. Healed(ToSet(applied), k[2]) => Healed(ToSet(applied), k[2])'
    BY <1>1, AsTheFile DEF Healed
  <2>4. Touched(ToSet(held), k[2]) => Touched(ToSet(held), k[2])'
    BY <1>1 DEF Touched, Touches
  <2>. QED
    BY <1>1, <2>1, <2>2, <2>3, <2>4 DEF SavedAt
<1>. QED
  BY <1>3, <1>4 DEF RowsInv, SavedInv

LEMMA RowsRoute ==
  ASSUME LiveAssumption, NotBoth, IInv, Route PROVE RowsInv' /\ SavedInv'
<1>. USE DEF IInv
<1> DEFINE event == Head(todo)
<1>1. /\ UNCHANGED <<disk, held, pc, attempt, again, saved>>
      /\ pc = "route" /\ again = <<>> /\ applied' = Append(applied, event)
      /\ Becomes(route_file_event(Index, event))
  BY DEF Route, PhaseInv, world, events
<1>2. /\ event \in Events /\ <<event>> \in Seq(Events)
      /\ Ahead' \in Seq(Events) /\ Ahead = <<event>> \o Ahead'
  BY AheadRoute
<1>. HIDE DEF event
<1>3. ToSet(Ahead) = {event} \cup ToSet(Ahead')
  <2>1. PICK later \in Seq(Events) : later = Ahead'
    BY <1>2
  <2>2. ToSet(<<event>> \o later) = ToSet(<<event>>) \cup ToSet(later)
    <3>. HIDE DEF Events
    <3>1. PICK first \in Seq(Events) : first = <<event>>
      BY <1>2
    <3>2. ToSet(first \o later) = ToSet(first) \cup ToSet(later)
      BY ToSetConcat
    <3>. QED
      BY <3>1, <3>2
  <2>3. ToSet(<<event>>) = {event}
    BY DEF ToSet
  <2>. QED
    BY <1>2, <2>1, <2>2, <2>3
<1>4. ToSet(applied') = ToSet(applied) \cup {event}
  <2>1. applied \in Seq(Events)
    BY AheadType
  <2>. HIDE DEF Events
  <2>. QED
    BY <1>1, <1>2, <2>1, ToSetAppend
<1>5. ASSUME NEW f \in Files, Harms(event, f) PROVE Coming(f)'
  <2>1. Safe(Ahead)
    <3>1. applied \in Seq(Events) /\ Ahead \in Seq(Events) /\ Safe(applied \o Ahead)
      BY AheadType DEF OrderInv
    <3>. HIDE DEF Events
    <3>. QED
      BY <3>1, SafeSuffix
  <2>2. PICK later \in Seq(Events) : later = Ahead'
    BY <1>2
  <2>3. Safe(<<event>> \o later)
    BY <1>2, <2>1, <2>2
  <2>4. Healed(ToSet(later), f)
    <3>. HIDE DEF Events
    <3>. QED
      BY <1>2, <1>5, <2>3, SafeHead
  <2>. QED
    BY <1>1, <2>2, <2>4, AsTheFile DEF Coming, Healed
<1>6. ASSUME NEW f, Coming(f) PROVE Heals(event, f) \/ Coming(f)'
  BY <1>1, <1>3, <1>6, AsTheFile DEF Coming, Healed
<1>7. ASSUME NEW k \in Keys PROVE RowsAt(k)'
  <2>1. RowsAt(k) /\ k[2] \in Files /\ ~Healed(ToSet(again), k[2])
    BY <1>1, KeyParts, ToSetEmpty DEF RowsInv, Healed
  <2>2. CASE RightIn(Index, k) \/ (Heals(event, k[2]) /\ event # Rescan)
    <3>1. RightIn(Index, k)' \/ Harms(event, k[2])
      BY <1>1, <1>2, <2>2, RouteStep
    <3>. QED
      BY <1>5, <2>1, <3>1 DEF RowsAt
  <2>3. CASE Coming(k[2])'
    BY <2>3 DEF RowsAt
  <2>4. CASE ToRescan \/ event = Rescan
    <3>1. (pc = "route" /\ ToRescan)'
      BY <1>1, <1>4, <2>4 DEF ToRescan
    <3>. QED
      BY <3>1 DEF RowsAt
  <2>5. CASE attempt # "together" /\ Touched(ToSet(held), k[2])
    <3>1. (attempt # "together" /\ Touched(ToSet(held), k[2]))'
      BY <1>1, <2>5 DEF Touched, Touches
    <3>. QED
      BY <3>1 DEF RowsAt
  <2>. QED
    BY <1>6, <2>1, <2>2, <2>3, <2>4, <2>5 DEF RowsAt
<1>8. ASSUME NEW k \in Keys PROVE SavedAt(k)'
  <2>1. SavedAt(k)
    BY <1>1 DEF SavedInv
  <2>2. Heals(event, k[2]) \/ Healed(ToSet(applied), k[2]) => Healed(ToSet(applied), k[2])'
    BY <1>1, <1>4, AsTheFile DEF Healed
  <2>3. Touched(ToSet(held), k[2]) => Touched(ToSet(held), k[2])'
    BY <1>1 DEF Touched, Touches
  <2>. QED
    BY <1>1, <1>6, <2>1, <2>2, <2>3 DEF SavedAt
<1>. QED
  BY <1>7, <1>8 DEF RowsInv, SavedInv

LEMMA RowsRescan ==
  ASSUME LiveAssumption, IInv, Routed, ToRescan PROVE RowsInv' /\ SavedInv'
<1>. USE DEF IInv
<1>1. /\ UNCHANGED <<disk, held, applied, saved>> /\ Ahead' = Ahead /\ pc = "route"
      /\ Becomes(rescan(Index))
  BY AheadStays DEF Routed, world, events
<1>2. ASSUME NEW k \in Keys PROVE RowsAt(k)'
  <2>1. RightIn(rescan(Index), k)
    BY RowsOf, RescanAt DEF TypeOK
  <2>. QED
    BY <1>1, <2>1, BecomesRight DEF RowsAt
<1>3. ASSUME NEW k \in Keys PROVE SavedAt(k)'
  <2>1. SavedAt(k)
    BY <1>1 DEF SavedInv
  <2>2. Coming(k[2]) => Coming(k[2])'
    BY <1>1, ComingOn
  <2>3. Healed(ToSet(applied), k[2]) => Healed(ToSet(applied), k[2])'
    BY <1>1, AsTheFile DEF Healed
  <2>4. Touched(ToSet(held), k[2]) => Touched(ToSet(held), k[2])'
    BY <1>1 DEF Touched, Touches
  <2>. QED
    BY <1>1, <2>1, <2>2, <2>3, <2>4 DEF SavedAt
<1>. QED
  BY <1>2, <1>3 DEF RowsInv, SavedInv

LEMMA RowsRefresh ==
  ASSUME LiveAssumption, IInv, Refresh PROVE RowsInv' /\ SavedInv'
<1>. USE DEF IInv
<1>1. /\ UNCHANGED <<disk, held, batch, attempt, again, applied, saved>> /\ Ahead' = Ahead
      /\ pc = "refresh" /\ rows' = refresh_pending(Index) /\ again = <<>>
  BY AheadStays DEF Refresh, PhaseInv, world, events
<1>2. ASSUME NEW k \in Keys
      PROVE  /\ Coming(k[2]) => Coming(k[2])'
             /\ Touched(ToSet(held), k[2]) => Touched(ToSet(held), k[2])'
  <2>1. Coming(k[2]) => Coming(k[2])'
    BY <1>1, ComingOn
  <2>2. Touched(ToSet(held), k[2]) => Touched(ToSet(held), k[2])'
    BY <1>1 DEF Touched, Touches
  <2>. QED
    BY <2>1, <2>2
<1>3. ASSUME NEW k \in Keys PROVE RowsAt(k)'
  <2>1. RowsAt(k) /\ ~Healed(ToSet(again), k[2])
    BY <1>1, ToSetEmpty DEF RowsInv, Healed
  <2>2. CASE RightIn(Index, k)
    <3>1. rows'[k] = disk[k[2]]
      BY <1>1, <2>2, RowsOf, RefreshAt DEF TypeOK
    <3>2. k[1] \in PerTable /\ is_file(k[2]) => k \in batch
      BY <2>2 DEF RightIn, Index
    <3>3. RightIn(Index, k)'
      BY <1>1, <3>1, <3>2 DEF RightIn, Index, is_file
    <3>. QED
      BY <3>3 DEF RowsAt
  <2>. QED
    BY <1>1, <1>2, <2>1, <2>2 DEF RowsAt
<1>4. ASSUME NEW k \in Keys PROVE SavedAt(k)'
  <2>1. SavedAt(k)
    BY <1>1 DEF SavedInv
  <2>2. Healed(ToSet(applied), k[2]) => Healed(ToSet(applied), k[2])'
    BY <1>1, AsTheFile DEF Healed
  <2>. QED
    BY <1>1, <1>2, <2>1, <2>2 DEF SavedAt
<1>. QED
  BY <1>3, <1>4 DEF RowsInv, SavedInv

\* What is rejected is held, or tried again.
LEMMA HeldGrows ==
  ASSUME IInv, Reject
  PROVE  ToSet(held') = ToSet(held) \cup ToSet(applied)
<1>1. held \in Seq(Events) /\ applied \in Seq(Events) /\ held' = hold(held, applied)
  BY DEF Reject, IInv, TypeOK, EventsOK
<1>2. ToSet(hold(held, applied)) = ToSet(held) \cup ToSet(applied)
  <2>. HIDE DEF Events
  <2>. QED
    BY <1>1, HoldIs
<1>. QED
  BY <1>1, <1>2

LEMMA RowsOver ==
  ASSUME LiveAssumption, IInv, Commit \/ Reject \/ TryAlone PROVE RowsInv' /\ SavedInv'
<1>. USE DEF IInv
<1>1. /\ UNCHANGED <<disk, batch, marked>> /\ pc = "commit" /\ again = <<>> /\ marked = {}
      /\ applied' = <<>> /\ Ahead' = IF TryAlone THEN applied \o Ahead ELSE Ahead
  BY AheadOver DEF Commit, Reject, TryAlone, PhaseInv, world, events
<1>2. ToSet(Ahead) \subseteq ToSet(Ahead') /\ (TryAlone => ToSet(applied) \subseteq ToSet(Ahead'))
  <2>1. applied \in Seq(Events) /\ Ahead \in Seq(Events)
    BY AheadType
  <2>2. ToSet(applied \o Ahead) = ToSet(applied) \cup ToSet(Ahead)
    <3>. HIDE DEF Events
    <3>. QED
      BY <2>1, ToSetConcat
  <2>. QED
    BY <1>1, <2>2
<1>3. ASSUME NEW k \in Keys
      PROVE  /\ RowsAt(k) /\ ~Healed(ToSet(again), k[2]) /\ SavedAt(k)
             /\ Coming(k[2]) => Coming(k[2])'
  <2>1. RowsAt(k) /\ ~Healed(ToSet(again), k[2]) /\ SavedAt(k)
    BY <1>1, ToSetEmpty DEF RowsInv, SavedInv, Healed
  <2>2. Coming(k[2]) => Coming(k[2])'
    BY <1>1, <1>2, ComingOn
  <2>. QED
    BY <2>1, <2>2
<1>4. CASE Commit
  <2>1. UNCHANGED rows /\ attempt' # "together" /\ (attempt # "together" => held' = held) /\ pc' = "idle"
    BY <1>4 DEF Commit, Finished
  <2>2. ASSUME NEW k \in Keys PROVE RowsAt(k)'
    <3>1. RightIn(Index, k) => RightIn(Index, k)'
      BY <1>1, <2>1, RightOn
    <3>2. (attempt # "together" /\ Touched(ToSet(held), k[2])) => (attempt # "together" /\ Touched(ToSet(held), k[2]))'
      BY <2>1 DEF Touched, Touches
    <3>. QED
      BY <1>1, <1>3, <3>1, <3>2 DEF RowsAt
  <2>. QED
    BY <2>1, <2>2 DEF RowsInv, SavedInv
<1>5. CASE Reject \/ TryAlone
  <2>1. /\ rows' = saved /\ attempt' # "together" /\ saved' = saved
        /\ ToSet(held) \subseteq ToSet(held') /\ (Reject => ToSet(applied) \subseteq ToSet(held'))
        /\ (TryAlone => attempt = "together") /\ (Reject => pc' = "idle")
    BY <1>5, HeldGrows DEF Reject, TryAlone, Finished, events
  <2>2. ASSUME NEW k \in Keys PROVE RowsAt(k)' /\ (TryAlone => SavedAt(k)')
    <3>1. Touched(ToSet(held), k[2]) => Touched(ToSet(held), k[2])'
      BY <2>1 DEF Touched, Touches
    <3>2. Healed(ToSet(applied), k[2]) => Touched(ToSet(held), k[2])' \/ Coming(k[2])'
      <4>1. SUFFICES ASSUME NEW e \in ToSet(applied), Heals(e, k[2])
                     PROVE  Touched(ToSet(held), k[2])' \/ Coming(k[2])'
        BY DEF Healed
      <4>2. CASE Reject
        BY <2>1, <4>1, <4>2 DEF Touched, Heals, Touches
      <4>3. CASE TryAlone
        BY <1>1, <1>2, <4>1, <4>3, AsTheFile DEF Coming, Healed
      <4>. QED
        BY <1>5, <4>2, <4>3
    <3>3. (attempt # "together")'
      BY <2>1
    <3>4. CASE RightIn(Index, k) /\ saved[k] = disk[k[2]]
      <4>1. RightIn(Index, k)' /\ (saved[k] = disk[k[2]])'
        BY <1>1, <2>1, <3>4 DEF RightIn, Index, is_file
      <4>. QED
        BY <4>1 DEF RowsAt, SavedAt
    <3>5. CASE Coming(k[2])' \/ Touched(ToSet(held), k[2])'
      BY <3>3, <3>5 DEF RowsAt, SavedAt
    <3>6. RightIn(Index, k) \/ Coming(k[2]) \/ Touched(ToSet(held), k[2])
      BY <1>1, <1>3 DEF RowsAt
    <3>7. saved[k] = disk[k[2]] \/ Coming(k[2]) \/ Healed(ToSet(applied), k[2]) \/ Touched(ToSet(held), k[2])
      BY <1>3 DEF SavedAt
    <3>. QED
      BY <1>3, <3>1, <3>2, <3>4, <3>5, <3>6, <3>7
  <2>. QED
    BY <1>5, <2>1, <2>2 DEF RowsInv, SavedInv
<1>. QED
  BY <1>4, <1>5

LEMMA RowsQuery ==
  ASSUME LiveAssumption, IInv, QueryStep PROVE RowsInv' /\ SavedInv'
<1>. USE DEF IInv
<1>1. /\ UNCHANGED <<disk, held, pc, attempt, again, applied, marked>> /\ Ahead' = Ahead
      /\ pc = "idle" /\ marked = {} /\ again = <<>>
      /\ batch' = AfterGone.batch /\ (rows' = QueryRows \/ rows' = rows)
  BY AheadStays DEF QueryStep, Query, QueryFails, PhaseInv, world, events, applier
<1>2. ASSUME NEW k \in Keys PROVE RowsAt(k)'
  <2>1. RowsAt(k) /\ ~Healed(ToSet(again), k[2])
    BY <1>1, ToSetEmpty DEF RowsInv, Healed
  <2>2. CASE RightIn(Index, k)
    <3>1. QueryRows[k] = disk[k[2]] /\ (k[1] \in PerTable /\ is_file(k[2]) => k \in AfterGone.batch)
      BY <2>2, QueryAt
    <3>2. rows[k] = disk[k[2]]
      BY <1>1, <2>2 DEF RightIn, Index
    <3>3. RightIn(Index, k)'
      BY <1>1, <3>1, <3>2 DEF RightIn, Index, is_file
    <3>. QED
      BY <3>3 DEF RowsAt
  <2>3. CASE Coming(k[2])
    BY <1>1, <2>3, ComingOn DEF RowsAt
  <2>4. CASE attempt # "together" /\ Touched(ToSet(held), k[2])
    <3>1. (attempt # "together" /\ Touched(ToSet(held), k[2]))'
      BY <1>1, <2>4 DEF Touched, Touches
    <3>. QED
      BY <3>1 DEF RowsAt
  <2>. QED
    BY <1>1, <2>1, <2>2, <2>3, <2>4 DEF RowsAt
<1>. QED
  BY <1>1, <1>2 DEF RowsInv, SavedInv

-----------------------------------------------------------------------------
(* What is held, and the theorems.                                         *)

LEMMA StepFree == ASSUME LiveAssumption, IInv, [Next]_vars PROVE FreeInv'
<1>. USE DEF IInv
<1>. SUFFICES ASSUME NoForeignKeys PROVE (held = <<>> /\ attempt = "plain" /\ ListedIn(Index))'
  BY DEF FreeInv, NoForeignKeys
<1>1. held = <<>> /\ attempt = "plain" /\ ListedIn(Index) /\ again = <<>> /\ Index \in Indices
  BY RowsOf DEF FreeInv, PhaseInv
<1>2. ASSUME NEW ix, ListedIn(ix), Becomes(ix) PROVE ListedIn(Index)'
  BY <1>2 DEF ListedIn, Index, Becomes
<1>3. Consistent(rows) /\ Consistent(QueryRows)
  BY RowsOf, QueryAt DEF NoForeignKeys
<1>4. CASE FileStep \/ Deliver \/ Receive \/ Late \/ UNCHANGED vars
  <2>1. UNCHANGED <<held, attempt, rows, batch, marked>>
    BY <1>4, FileMoves DEF Deliver, Receive, Late, vars, applier, events
  <2>. QED
    BY <1>1, <2>1 DEF ListedIn, Index
<1>5. CASE Begin
  BY <1>1, <1>5, BeginHeld DEF Begin, ListedIn, Index
<1>6. CASE Route
  <2>1. ListedIn(route_file_event(Index, Head(todo)))
    BY <1>1, RouteListed
  <2>. QED
    BY <1>1, <1>2, <1>6, <2>1 DEF Route, events
<1>7. CASE Routed
  <2>1. ListedIn(rescan(Index))
    BY <1>1, RescanAt DEF TypeOK
  <2>2. held' = <<>> /\ attempt' = "plain"
    BY <1>1, <1>7 DEF Routed, events
  <2>3. CASE ToRescan
    BY <1>2, <1>7, <2>1, <2>2, <2>3 DEF Routed
  <2>4. CASE ~ToRescan
    BY <1>1, <1>7, <2>2, <2>4 DEF Routed, ListedIn, Index
  <2>. QED
    BY <2>3, <2>4
<1>8. CASE Refresh
  <2>1. \A k \in Keys : k[1] \in PerTable /\ k \notin batch => refresh_pending(Index)[k] = Absent
    BY <1>1, RefreshAt DEF TypeOK, Index
  <2>. QED
    BY <1>1, <1>8, <2>1 DEF Refresh, ListedIn, Index, events
<1>9. CASE Commit
  BY <1>1, <1>9 DEF Commit, Finished, ListedIn, Index
<1>10. CASE Query
  <2>1. \A k \in Keys : k[1] \in PerTable /\ k \notin AfterGone.batch => QueryRows[k] = Absent
    BY <1>1, QueryAt
  <2>. QED
    BY <1>1, <1>10, <2>1 DEF Query, ListedIn, Index, events
<1>11. ~RouteHeld /\ ~Reject /\ ~TryAlone /\ ~QueryFails
  BY <1>1, <1>3 DEF RouteHeld, Reject, TryAlone, QueryFails
<1>. QED
  BY <1>4, <1>5, <1>6, <1>7, <1>8, <1>9, <1>10, <1>11 DEF Next, PollerStep, QueryStep

LEMMA AllRight ==
  ASSUME IInv, marked = {}, \A k \in Keys : RightIn(Index, k)
  PROVE  rows = Disk
<1>1. rows \in [Keys -> Held]
  BY DEF IInv, TypeOK, IndexOK
<1>2. \A k \in Keys : rows[k] = disk[k[2]]
  BY DEF RightIn, Index
<1>. QED
  BY <1>1, <1>2 DEF Disk

\* What is rejected although nothing is on its way is what the files are.
LEMMA RejectedAsIs ==
  ASSUME IInv, pc = "commit", ~Consistent(rows), attempt = "together" \/ held = <<>>
  PROVE  OnTheWay \/ ~Consistent(Disk)
<1>. SUFFICES ASSUME ~OnTheWay PROVE ~Consistent(Disk)
  OBVIOUS
<1>. USE DEF IInv
<1>1. todo = <<>> /\ again = <<>> /\ marked = {} /\ Ahead = <<>>
  BY NothingAhead DEF PhaseInv, OnTheWay
<1>2. ASSUME NEW k \in Keys PROVE RightIn(Index, k)
  <2>1. ~Coming(k[2]) /\ ~Healed(ToSet(again), k[2])
    BY <1>1, ToSetEmpty DEF Coming, Healed
  <2>2. ~(attempt # "together" /\ Touched(ToSet(held), k[2]))
    BY ToSetEmpty DEF Touched
  <2>. QED
    BY <2>1, <2>2 DEF RowsInv, RowsAt
<1>. QED
  BY <1>1, <1>2, AllRight

LEMMA StepOrphan == ASSUME LiveAssumption, IInv, [Next]_vars PROVE OrphanInv'
<1>. USE DEF IInv
<1>1. CASE FileStep
  <2>1. PICK event \in Events : raised' = Append(raised, event)
    BY <1>1, FileMoves
  <2>2. raised' # <<>>
    <3>1. raised \in Seq(Events)
      BY DEF TypeOK, EventsOK
    <3>. HIDE DEF Events
    <3>. QED
      BY <2>1, <3>1, AppendProperties
  <2>. QED
    BY <2>2 DEF OrphanInv, OnTheWay
<1>2. CASE ~FileStep
  <2>1. Consistent(Disk) <=> Consistent(Disk)'
    <3>1. disk' = disk
      BY <1>2 DEF Next, PollerStep, QueryStep, Deliver, Receive, Begin, RouteHeld, Route, Late, Routed,
                  Refresh, Commit, Reject, TryAlone, Query, QueryFails, vars, world
    <3>2. Disk' = Disk
      BY <3>1 DEF Disk
    <3>. QED
      BY <3>2
  <2>2. CASE Deliver
    <3>1. Append(queue, Head(raised)) # <<>>
      <4>1. queue \in Seq(Events) /\ raised \in Seq(Events) /\ raised # <<>>
        BY <2>2 DEF TypeOK, EventsOK, Deliver
      <4>. HIDE DEF Events
      <4>2. Head(raised) \in Events
        BY <4>1, HeadFirst
      <4>. QED
        BY <4>1, <4>2, AppendProperties
    <3>. QED
      BY <2>1, <2>2, <3>1 DEF Deliver, OrphanInv, OnTheWay, applier
  <2>3. CASE Receive
    BY <2>1, <2>3 DEF Receive, OrphanInv, OnTheWay, applier
  <2>4. CASE Begin \/ Late
    BY <2>4 DEF Begin, Late, MoreIsDue, OrphanInv
  <2>5. CASE RouteHeld \/ Route \/ Routed \/ Refresh \/ Query \/ QueryFails \/ UNCHANGED vars
    <3>1. UNCHANGED <<taken, queue, raised, held, attempt>>
          /\ (pc' = "idle" => pc = "idle")
      BY <2>5 DEF RouteHeld, Route, Routed, Refresh, Query, QueryFails, vars, events, applier
    <3>. QED
      BY <2>1, <3>1 DEF OrphanInv, OnTheWay
  <2>6. CASE Commit \/ Reject \/ TryAlone
    <3>1. UNCHANGED <<taken, queue, raised>> /\ pc = "commit"
      BY <2>6 DEF Commit, Reject, TryAlone, events
    <3>2. CASE attempt = "alone"
      BY <2>1, <3>1, <3>2 DEF OrphanInv, OnTheWay
    <3>3. CASE attempt # "alone" /\ Commit
      BY <3>3 DEF Commit, Finished, PhaseInv, TypeOK, ControlOK, OrphanInv
    <3>4. CASE attempt # "alone" /\ (Reject \/ TryAlone)
      <4>1. ~Consistent(rows) /\ (attempt = "together" \/ held = <<>>)
        BY <3>1, <3>4 DEF Reject, TryAlone, PhaseInv, TypeOK, ControlOK
      <4>2. OnTheWay \/ ~Consistent(Disk)
        BY <3>1, <4>1, RejectedAsIs
      <4>. QED
        BY <2>1, <3>1, <4>2 DEF OrphanInv, OnTheWay
    <3>. QED
      BY <2>6, <3>2, <3>3, <3>4
  <2>. QED
    BY <1>2, <2>2, <2>3, <2>4, <2>5, <2>6 DEF Next, PollerStep, QueryStep
<1>. QED
  BY <1>1, <1>2

LEMMA InitInvariant == ASSUME LiveAssumption, Init PROVE IInv
<1>1. TypeOK
  BY InitTypes
<1>2. /\ rows = Disk /\ saved = rows /\ marked = {} /\ pc = "idle" /\ attempt = "plain"
      /\ raised = <<>> /\ queue = <<>> /\ taken = <<>> /\ held = <<>>
      /\ again = <<>> /\ todo = <<>> /\ applied = <<>>
      /\ batch = {k \in Keys : k[1] \in PerTable /\ is_file(k[2])}
  BY DEF Init
<1>3. PhaseInv /\ DirInv
  BY <1>2 DEF Init, PhaseInv, DirInv, is_file
<1>4. OrderInv
  <2>1. Ahead = <<>>
    BY <1>1, <1>2, NothingAhead
  <2>2. applied \o Ahead = <<>>
    BY <1>1, <1>2, <2>1, AheadType, ConcatEmptySeq
  <2>. QED
    BY <2>2 DEF OrderInv, Safe
<1>5. AgainInv
  BY <1>2, ToSetEmpty DEF AgainInv
<1>6. ASSUME NEW k \in Keys PROVE RightIn(Index, k)
  BY <1>2 DEF RightIn, Index, Disk
<1>7. RowsInv /\ SavedInv
  BY <1>2, <1>6 DEF RowsInv, RowsAt, SavedInv
<1>8. ListedIn(Index)
  BY <1>2 DEF ListedIn, Index, Disk, is_file
<1>9. FreeInv /\ OrphanInv
  BY <1>2, <1>8 DEF FreeInv, OrphanInv
<1>. QED
  BY <1>1, <1>3, <1>4, <1>5, <1>7, <1>9 DEF IInv

LEMMA StepInvariant ==
  ASSUME LiveAssumption, NotBoth, IInv, [Next]_vars PROVE IInv'
<1>1. TypeOK' /\ DirInv'
  BY StepTypes DEF IInv
<1>2. PhaseInv'
  BY StepPhase DEF IInv
<1>3. OrderInv'
  BY StepOrder DEF IInv
<1>4. AgainInv'
  BY StepAgain DEF IInv
<1>5. RowsInv' /\ SavedInv'
  <2>1. CASE FileStep
    BY <2>1, RowsFiles
  <2>2. CASE Routed
    BY <2>2, RowsPass, RowsRescan
  <2>3. CASE PollerStep /\ ~Routed
    BY <1>4, <2>3, RowsPass, RowsBegin, RowsRouteHeld, RowsRoute, RowsRefresh, RowsOver DEF PollerStep
  <2>4. CASE QueryStep
    BY <2>4, RowsQuery
  <2>5. CASE UNCHANGED vars
    BY <2>5, RowsPass
  <2>. QED
    BY <2>1, <2>2, <2>3, <2>4, <2>5 DEF Next
<1>6. FreeInv' /\ OrphanInv'
  BY StepFree, StepOrphan
<1>. QED
  BY <1>1, <1>2, <1>3, <1>4, <1>5, <1>6 DEF IInv

\* Types, of any index.
THEOREM TypeCorrect == Spec => []TypeOK
<1>1. Init => TypeOK /\ DirInv
  BY InitInvariant, LiveAssumption DEF IInv
<1>2. TypeOK /\ DirInv /\ [Next]_vars => (TypeOK /\ DirInv)'
  BY StepTypes, LiveAssumption
<1>. QED
  BY <1>1, <1>2, PTL DEF Spec

\* The inductive invariant: what is wrong with a key's rows is healed by an
\* event still to come, or held.
THEOREM Invariance == ASSUME NotBoth PROVE Spec => []IInv
<1>1. Init => IInv
  BY InitInvariant, LiveAssumption
<1>2. IInv /\ [Next]_vars => IInv'
  BY StepInvariant, LiveAssumption
<1>. QED
  BY <1>1, <1>2, PTL DEF Spec

\* Nothing is held once the files break no foreign key and all events are applied.
THEOREM HeldWhileOrphanedHolds == ASSUME NotBoth PROVE Spec => []HeldWhileOrphaned
<1>1. IInv => HeldWhileOrphaned
  BY DEF IInv, OrphanInv, OnTheWay, HeldWhileOrphaned, Quiet
<1>. QED
  BY <1>1, Invariance, PTL

\* The index is in line with the files once it has applied all events.
THEOREM InLineHolds == ASSUME NotBoth PROVE Spec => []InLine
<1>1. ASSUME IInv, Quiet, Consistent(Disk) PROVE rows = Disk
  <2>. USE <1>1 DEF IInv, Quiet
  <2>1. /\ held = <<>> /\ again = <<>> /\ todo = <<>> /\ marked = {} /\ pc = "idle"
    BY DEF OrphanInv, OnTheWay, PhaseInv
  <2>2. Ahead = <<>>
    BY <2>1, NothingAhead
  <2>3. ASSUME NEW k \in Keys PROVE RightIn(Index, k)
    BY <2>1, <2>2, ToSetEmpty DEF RowsInv, RowsAt, Coming, Healed, Touched
  <2>. QED
    BY <2>1, <2>3, AllRight
<1>2. IInv => InLine
  BY <1>1 DEF InLine
<1>. QED
  BY <1>2, Invariance, PTL

=============================================================================
