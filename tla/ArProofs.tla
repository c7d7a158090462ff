------------------------------ MODULE ArProofs ------------------------------
(***************************************************************************)
(* Proofs about Ar, for all archives, directories and command lines and any *)
(* number of runs, signals and failing calls: what a run does to the list   *)
(* of members, what one that fails leaves, and that r can be given again.   *)
(***************************************************************************)
EXTENDS Ar, FiniteSetTheorems, SequenceTheorems, WellFoundedInduction, TLAPS

-----------------------------------------------------------------------------
(* The inductive invariant, in parts.                                      *)

Item == Entry \cup {Magic, Stub}
Mem == Members(old.arfile)
HitSet == Hits(Mem, ArgNames)

\* The archive that the run reads.
Base == IF old.arfile = NoFile THEN <<Magic>> ELSE old.arfile

\* No write to a temporary has failed.
Clean == \A t \in 0..2 : ~tmps[t].err

OldType ==
    /\ old.arfile = NoFile \/ Store(old.arfile)
    /\ old.files \in [Paths -> {NoFile} \cup File]
    /\ old.faults \in Nat /\ old.faults <= faults

TypeOK ==
    /\ cmd \in Commands
    /\ argv \in [DOMAIN cmd.argv -> Paths \cup {NULL}]
    /\ files \in [Paths -> {NoFile} \cup File]
    /\ tmps \in [0..2 -> [items : Seq(Entry), err : BOOLEAN]]
    /\ buf \in Seq(Item)
    /\ arfile = NoFile \/ Store(arfile)
    /\ n \in Nat /\ cur \in {BEFORE, AFTER}
    /\ faults \in Nat
    /\ OldType

\* The operands that stand for one of the first k members, and argv without
\* the operands of U.
UsedBy(k) ==
    {j \in DOMAIN ArgNames : \E p \in 1..k : <<p, j>> \in Pairs(Mem, ArgNames)}
Crossed(U) == [i \in DOMAIN cmd.argv |-> IF i \in U THEN NULL ELSE cmd.argv[i]]
Final == Crossed(IF cmd.key \in {"r", "q"} THEN DOMAIN cmd.argv ELSE Used(Mem, ArgNames))

\* What becomes of the first k members that are not moved or deleted, and where
\* among them the new or moved ones go.
StaleSet == Stale(Mem, ArgNames, ArgMembers, cmd.u)
Stay(k) ==
    IF cmd.key = "r" THEN SubSeq(Renewed(Mem, ArgNames, ArgMembers, cmd.u), 1, k)
    ELSE At(Mem, (1..k) \ HitSet)
Mark(k) ==
    CASE cmd.key = "r" -> Anchor(Mem, (1..k) \ StaleSet, cmd.pos)
      [] cmd.key = "m" -> Anchor(Stay(k), DOMAIN Stay(k), cmd.pos)
      [] OTHER -> 0

\* BEFORE and AFTER hold s, and the place is the mark p.
Split(s, p) ==
    /\ tmps[BEFORE].items = SubSeq(s, 1, Cut(s, p, cmd.b))
    /\ tmps[AFTER].items = SubSeq(s, Cut(s, p, cmd.b) + 1, Len(s))
    /\ cur = IF p = 0 THEN BEFORE ELSE AFTER

\* The temporaries after k members.
Sorted(k) ==
    Clean => /\ Split(Stay(k), Mark(k))
             /\ tmps[INDOT].items = IF cmd.key = "m" THEN At(Mem, (1..k) \cap HitSet) ELSE <<>>

\* The members listed or extracted.
ShownBy(k) ==
    IF cmd.argv = <<>> THEN SubSeq(Mem, 1, k) ELSE At(Mem, (1..k) \cap HitSet)
Gave(k) ==
    /\ cmd.key \in {"t", "p"} => out = ShownBy(k)
    /\ cmd.key = "x" => files = Unpacked(ShownBy(k), old.files)

Fresh ==
    /\ argv = cmd.argv /\ tmps = Empty /\ out = <<>> /\ cur = BEFORE
    /\ files = old.files
Opened == arfile = Base /\ Base # <<>> /\ Base[1] = Magic
Joined == tmps[BEFORE].items \o tmps[INDOT].items \o tmps[AFTER].items
Kept == cmd.key # "x" => files = old.files
Change == Edit(cmd.key, cmd.u, cmd.pos, cmd.b, Mem, ArgNames, ArgMembers)

\* merge() has written the temporaries below n.
Written ==
    IF n = 0 THEN <<Magic>>
    ELSE IF n = 1 THEN <<Magic>> \o tmps[BEFORE].items
    ELSE IF n = 2 THEN <<Magic>> \o tmps[BEFORE].items \o tmps[INDOT].items
    ELSE <<Magic>> \o tmps[BEFORE].items \o tmps[INDOT].items \o tmps[AFTER].items

Merging == Sane => argv = Final /\ (Clean => Joined = Change)

Opening ==
    /\ pc \in {"start", "open"} => Fresh /\ arfile = old.arfile /\ buf = <<>>
    /\ pc = "magic" => Fresh /\ old.arfile = NoFile /\ arfile = <<>> /\ buf = <<Magic>>
    /\ pc = "ar" => Fresh /\ Opened /\ buf = <<>>
    /\ pc = "tmps" => Fresh /\ Opened /\ buf = <<>> /\ Editing

Running ==
    pc = "run" =>
        /\ Opened /\ buf = <<>> /\ n >= 2 /\ cmd.key # "q" /\ Kept
        /\ Sane => /\ n - 2 <= Len(Mem)
                   /\ argv = Crossed(UsedBy(n - 2))
                   /\ Gave(n - 2)
                   /\ Editing => Sorted(n - 2)

Adding ==
    /\ pc = "insert" =>
          /\ Opened /\ buf = <<>> /\ cmd.key = "r" /\ Kept
          /\ n \in 1..Len(cmd.argv) + 1
          /\ Sane => /\ argv = Crossed(Used(Mem, ArgNames) \cup (1..n - 1))
                     /\ Clean => /\ Split(Stay(Len(Mem)), Mark(Len(Mem)))
                                 /\ tmps[INDOT].items =
                                       At(ArgMembers, (1..n - 1) \ Used(Mem, ArgNames))
    /\ pc = "append" =>
          /\ Opened /\ cmd.key = "q" /\ Kept
          /\ n \in 1..Len(cmd.argv) + 1
          /\ buf = SubSeq(ArgMembers, 1, n - 1)
          /\ argv = Crossed(1..n - 1)
          /\ \A i \in 1..n - 1 : old.files[cmd.argv[i]] # NoFile

Rewriting ==
    /\ pc = "merge" => Opened /\ buf = <<>> /\ Editing /\ Kept /\ Merging
    /\ pc = "merging" =>
          /\ Editing /\ Kept /\ Merging
          /\ n \in 0..3 /\ arfile = <<>> /\ buf = Written
          /\ \A t \in 0..2 : t < n => ~tmps[t].err

Closing ==
    /\ pc = "check" => buf = <<>> /\ (Sane => arfile = Edited /\ argv = Final /\ Gave(Len(Mem)))
    /\ pc = "exit" =>
          /\ buf = <<>>
          /\ Sane => /\ arfile = Edited /\ Gave(Len(Mem))
                     /\ cmd.key \in {"r", "q"} \/ AllFound(Mem, ArgNames)
    /\ pc = "end" => buf = <<>> /\ status \in {0, 1} /\ names = {}

Places == {"start", "open", "magic", "ar", "tmps", "run", "insert", "append", "merge",
           "merging", "check", "exit", "end"}

Inv ==
    /\ TypeOK /\ pc \in Places
    /\ ~Clean => faults > old.faults
    /\ Opening /\ Running /\ Adding /\ Rewriting /\ Closing
    /\ EditsList /\ FailsSafe

-----------------------------------------------------------------------------
(* For r given again.                                                      *)

\* The first member of w with the name x is what r puts there for g.
Known(w, x, g, u) ==
    \E p \in 1..Len(w) :
        /\ w[p].name = x
        /\ \A q \in 1..p - 1 : w[q].name # x
        /\ w[p] = g \/ (u /\ ~(g.date > w[p].date))

Lacks(w, x) == \A p \in 1..Len(w) : w[p].name # x

\* Temporary t has the member of operand i, and none is before it.
Has(t, i) ==
    /\ Known(tmps[t].items, ArgNames[i], ArgMembers[i], cmd.u)
    /\ \A x \in 0..2 : x < t => Lacks(tmps[x].items, ArgNames[i])
    /\ t = AFTER /\ ArgNames[i] = cmd.pos => cmd.b

Sought(i) ==
    IF argv[i] # NULL THEN \A t \in 0..2 : Lacks(tmps[t].items, ArgNames[i])
    ELSE \E t \in 0..2 : Has(t, i)

Collected ==
    /\ \A i \in DOMAIN cmd.argv : argv[i] \in {NULL, cmd.argv[i]}
    /\ Clean =>
          /\ \A i \in DOMAIN cmd.argv : Sought(i)
          /\ IF cur = AFTER THEN \E t \in {BEFORE, AFTER} : ~Lacks(tmps[t].items, cmd.pos)
             ELSE tmps[AFTER].items = <<>>

AllKnown(f) ==
    /\ f # NoFile
    /\ \A i \in DOMAIN cmd.argv : Known(Tail(f), ArgNames[i], ArgMembers[i], cmd.u)

RInv ==
    cmd.key = "r" /\ IsInjective(ArgNames) =>
        /\ old.status = 0 => AllKnown(old.arfile)
        /\ pc \in {"run", "insert", "merge", "merging"} => Collected
        /\ pc = "run" => (Clean => tmps[INDOT].items = <<>>)
        /\ pc = "insert" => \A i \in DOMAIN cmd.argv : i < n => argv[i] = NULL
        /\ pc \in {"merge", "merging"} => \A i \in DOMAIN cmd.argv : argv[i] = NULL
        /\ pc \in {"check", "exit"} => AllKnown(arfile) /\ files = old.files
        /\ pc = "end" /\ status = 0 => AllKnown(arfile) /\ files = old.files

-----------------------------------------------------------------------------
(* Numbers and positions.                                                  *)

LEMMA Least == ASSUME NEW S, S \subseteq Nat, S # {} PROVE \E x \in S : \A y \in S : x <= y
<1> DEFINE R == OpToRel(<, Nat)
<1>1. IsWellFoundedOn(R, Nat)
  BY NatLessThanWellFounded
<1>2. \A x, y \in Nat : <<y, x>> \in R <=> y < x
  BY DEF OpToRel
<1> HIDE DEF R
<1>3. PICK x \in S : \A y \in S : ~(<<y, x>> \in R)
  BY <1>1, WFMin
<1>4. ASSUME NEW y \in S PROVE x <= y
  <2>1. x \in Nat /\ y \in Nat /\ ~(<<y, x>> \in R)
    BY <1>3
  <2>2. ~(y < x)
    BY <1>2, <2>1
  <2> QED BY <2>1, <2>2
<1> QED BY <1>4

\* Induction up to n, for a property that is given as a set.
LEMMA UpTo ==
    ASSUME NEW S, NEW m \in Nat, 0 \in S, \A i \in 0 .. m - 1 : i \in S => i + 1 \in S
    PROVE  \A i \in 0 .. m : i \in S
<1> DEFINE B == {i \in 0 .. m : i \notin S}
<1> SUFFICES ASSUME B # {} PROVE FALSE
  OBVIOUS
<1>1. B \subseteq Nat
  OBVIOUS
<1>2. PICK i \in B : \A y \in B : i <= y
  <2> HIDE DEF B
  <2> QED BY <1>1, Least
<1>3. i # 0 /\ i - 1 \in 0 .. m - 1 /\ i - 1 \in S
  BY <1>2
<1> QED BY <1>2, <1>3

\* Sets of positions are finite.
LEMMA Positions ==
    ASSUME NEW m \in Nat, NEW I, I \subseteq 1 .. m
    PROVE  IsFiniteSet(I) /\ Cardinality(I) \in Nat
<1>1. IsFiniteSet(1 .. m)
  BY FS_Interval
<1>2. IsFiniteSet(I)
  BY <1>1, FS_Subset
<1> QED BY <1>2, FS_CardinalityType

LEMMA AtEmpty == ASSUME NEW s PROVE At(s, {}) = << >>
<1>1. Cardinality({}) = 0
  BY FS_EmptySet
<1> QED BY <1>1 DEF At

\* A position behind all others comes last.
LEMMA PositionAdd ==
    ASSUME NEW m \in Nat, NEW I, I \subseteq 1 .. m
    PROVE  /\ \A k \in 1 .. Cardinality(I) : Position(I \cup {m + 1}, k) = Position(I, k)
           /\ Position(I \cup {m + 1}, Cardinality(I) + 1) = m + 1
<1> DEFINE J == I \cup {m + 1}
           c == Cardinality(I)
<1>1. IsFiniteSet(I) /\ c \in Nat
  BY Positions
<1>2. m + 1 \notin I
  OBVIOUS
<1>3. Cardinality(J) = c + 1
  BY <1>1, <1>2, FS_AddElement
<1>4. {j \in J : j <= m + 1} = J
  <2>1. \A j \in J : j <= m + 1
    OBVIOUS
  <2> HIDE DEF J
  <2> QED BY <2>1
<1>5. ASSUME NEW i \in I
      PROVE  /\ {j \in J : j <= i} = {j \in I : j <= i}
             /\ Cardinality({j \in I : j <= i}) \in Nat /\ Cardinality({j \in I : j <= i}) <= c
  <2>1. {j \in J : j <= i} = {j \in I : j <= i}
    OBVIOUS
  <2>2. {j \in I : j <= i} \in SUBSET I
    OBVIOUS
  <2>3. IsFiniteSet({j \in I : j <= i}) /\ Cardinality({j \in I : j <= i}) <= c
    BY <1>1, <2>2, FS_Subset
  <2> QED BY <2>1, <2>3, FS_CardinalityType
<1>6. ASSUME NEW k \in 1 .. c PROVE Position(J, k) = Position(I, k)
  <2>1. \A i : (i \in J /\ Cardinality({j \in J : j <= i}) = k) <=> (i \in I /\ Cardinality({j \in I : j <= i}) = k)
    <3>1. ASSUME NEW i \in J, i \notin I PROVE Cardinality({j \in J : j <= i}) # k
      <4>1. i = m + 1
        BY <3>1
      <4> HIDE DEF J, c
      <4>2. {j \in J : j <= i} = J
        BY <1>4, <4>1
      <4>3. k \in Int /\ k <= c
        BY <1>1
      <4> QED BY <1>1, <1>3, <4>2, <4>3
    <3>2. ASSUME NEW i \in I PROVE i \in J /\ Cardinality({j \in J : j <= i}) = Cardinality({j \in I : j <= i})
      BY <1>5
    <3> HIDE DEF J
    <3> QED BY <3>1, <3>2
  <2> HIDE DEF J
  <2> QED BY <2>1, Zenon DEF Position
<1>7. Position(J, c + 1) = m + 1
  <2>1. \A i : (i \in J /\ Cardinality({j \in J : j <= i}) = c + 1) <=> i = m + 1
    <3>1. ASSUME NEW i \in I PROVE Cardinality({j \in J : j <= i}) # c + 1
      BY <1>1, <1>5
    <3>2. m + 1 \in J /\ \A i \in J : i \in I \/ i = m + 1
      OBVIOUS
    <3> HIDE DEF J
    <3> QED BY <1>3, <1>4, <3>1, <3>2
  <2> HIDE DEF J
  <2>2. (CHOOSE i : i \in J /\ Cardinality({j \in J : j <= i}) = c + 1) = m + 1
    BY <2>1
  <2> QED BY <2>2 DEF Position
<1> QED BY <1>6, <1>7

\* Adding such a position appends its element.
LEMMA AtAppend ==
    ASSUME NEW S, NEW s, NEW m \in Nat, NEW I, I \subseteq 1 .. m, At(s, I) \in Seq(S), s[m + 1] \in S
    PROVE  At(s, I \cup {m + 1}) = Append(At(s, I), s[m + 1])
<1> DEFINE J == I \cup {m + 1}
           c == Cardinality(I)
<1>1. IsFiniteSet(I) /\ c \in Nat
  BY Positions
<1>2. Cardinality(J) = c + 1
  <2>1. m + 1 \notin I
    OBVIOUS
  <2> QED BY <1>1, <2>1, FS_AddElement
<1>3. /\ \A k \in 1 .. c : Position(J, k) = Position(I, k)
      /\ Position(J, c + 1) = m + 1
  BY PositionAdd
<1> HIDE DEF J, c
<1>4. At(s, J) = [k \in 1 .. c + 1 |-> s[Position(J, k)]]
  BY <1>2 DEF At
<1>5. At(s, I) = [k \in 1 .. c |-> s[Position(I, k)]]
  BY DEF At, c
<1>6. Len(At(s, I)) = c
  BY <1>1, <1>5, LenProperties
<1>7. PICK a : a = At(s, I)
  OBVIOUS
<1>8. Append(a, s[m + 1]) = [k \in 1 .. c + 1 |-> IF k = c + 1 THEN s[m + 1] ELSE a[k]]
  BY <1>1, <1>6, <1>7
<1>9. \A k \in 1 .. c + 1 : s[Position(J, k)] = IF k = c + 1 THEN s[m + 1] ELSE a[k]
  BY <1>1, <1>3, <1>5, <1>7
<1> QED BY <1>4, <1>7, <1>8, <1>9 DEF J

\* What At picks are elements.
LEMMA AtSeq ==
    ASSUME NEW S, NEW m \in Nat, NEW s, NEW I, I \subseteq 1 .. m, \A i \in I : s[i] \in S
    PROVE  At(s, I) \in Seq(S)
<1> DEFINE G == {k \in 0 .. m : At(s, I \cap (1 .. k)) \in Seq(S)}
<1>1. 0 \in G
  <2>1. I \cap (1 .. 0) = {} /\ 0 \in 0 .. m
    OBVIOUS
  <2>2. << >> \in Seq(S)
    OBVIOUS
  <2>3. At(s, I \cap (1 .. 0)) \in Seq(S)
    BY <2>1, <2>2, AtEmpty
  <2> QED BY <2>1, <2>3
<1>2. ASSUME NEW k \in 0 .. m - 1, k \in G PROVE k + 1 \in G
  <2>1. k \in Nat /\ k + 1 \in 0 .. m
    OBVIOUS
  <2>2. CASE k + 1 \in I
    <3>1. I \cap (1 .. k + 1) = (I \cap (1 .. k)) \cup {k + 1}
      BY <2>2
    <3>2. PICK K : K = I \cap (1 .. k)
      OBVIOUS
    <3>3. K \subseteq 1 .. k /\ At(s, K) \in Seq(S) /\ s[k + 1] \in S
      BY <1>2, <2>2, <3>2
    <3>4. At(s, K \cup {k + 1}) = Append(At(s, K), s[k + 1])
      BY <2>1, <3>3, AtAppend
    <3>5. At(s, K \cup {k + 1}) \in Seq(S)
      <4>1. PICK a, e : a = At(s, K) /\ e = s[k + 1]
        OBVIOUS
      <4>2. Append(a, e) \in Seq(S)
        BY <3>3, <4>1
      <4> QED BY <3>4, <4>1, <4>2
    <3>6. At(s, I \cap (1 .. k + 1)) \in Seq(S)
      BY <3>1, <3>2, <3>5
    <3> QED BY <2>1, <3>6
  <2>3. CASE k + 1 \notin I
    <3>1. I \cap (1 .. k + 1) = I \cap (1 .. k)
      BY <2>3
    <3>2. At(s, I \cap (1 .. k + 1)) \in Seq(S)
      BY <1>2, <3>1
    <3> QED BY <2>1, <3>2
  <2> QED BY <2>2, <2>3
<1>3. m \in G
  <2> HIDE DEF G
  <2>1. \A i \in 0 .. m : i \in G
    BY <1>1, <1>2, UpTo
  <2> QED BY <2>1
<1>4. I \cap (1 .. m) = I
  OBVIOUS
<1> QED BY <1>3, <1>4

\* All the positions give the sequence.
LEMMA AtAll ==
    ASSUME NEW S, NEW s \in Seq(S)
    PROVE  \A k \in 0 .. Len(s) : At(s, 1 .. k) = SubSeq(s, 1, k)
<1> DEFINE G == {k \in 0 .. Len(s) : At(s, 1 .. k) = SubSeq(s, 1, k)}
<1>0. Len(s) \in Nat
  BY LenProperties
<1>1. 0 \in G
  <2>1. 1 .. 0 = {}
    OBVIOUS
  <2>2. SubSeq(s, 1, 0) = << >>
    BY SubSeqEmpty
  <2>3. At(s, 1 .. 0) = << >>
    BY <2>1, AtEmpty
  <2>4. 0 \in 0 .. Len(s)
    BY <1>0
  <2> QED BY <2>2, <2>3, <2>4
<1>2. ASSUME NEW k \in 0 .. Len(s) - 1, k \in G PROVE k + 1 \in G
  <2>1. k \in Nat /\ k + 1 \in 1 .. Len(s) /\ 1 .. k + 1 = (1 .. k) \cup {k + 1} /\ s[k + 1] \in S
    BY <1>0, ElementOfSeq
  <2>2. At(s, 1 .. k) \in Seq(S)
    <3>1. \A i \in 1 .. k : s[i] \in S
      BY <1>0, <2>1, ElementOfSeq
    <3> QED BY <2>1, <3>1, AtSeq
  <2>3. At(s, 1 .. k + 1) = Append(At(s, 1 .. k), s[k + 1])
    <3>1. PICK K : K = 1 .. k
      OBVIOUS
    <3>2. K \subseteq 1 .. k /\ At(s, K) \in Seq(S) /\ k \in Nat /\ s[k + 1] \in S
      BY <2>1, <2>2, <3>1
    <3>3. At(s, K \cup {k + 1}) = Append(At(s, K), s[k + 1])
      BY <3>2, AtAppend
    <3> QED BY <2>1, <3>1, <3>3
  <2>4. SubSeq(s, 1, k + 1) = Append(SubSeq(s, 1, k), s[k + 1])
    <3>1. SubSeq(s, 1, k + 1) = SubSeq(s, 1, k) \o <<s[k + 1]>>
      BY <1>0, <2>1, SubSeqRecursiveSecond
    <3>2. SubSeq(s, 1, k) \in Seq(S)
      BY <1>2, <2>2
    <3> QED BY <2>1, <3>1, <3>2, AppendIsConcat
  <2> QED BY <1>2, <2>1, <2>3, <2>4
<1> HIDE DEF G
<1>3. \A k \in 0 .. Len(s) : k \in G
  BY <1>0, <1>1, <1>2, UpTo
<1> QED BY <1>3 DEF G

-----------------------------------------------------------------------------
(* Members and operands that stand for each other.                         *)

Count(s, k, x) == Cardinality({j \in 1 .. k : s[j] = x})

LEMMA CountStep ==
    ASSUME NEW s, NEW x, NEW k \in Nat
    PROVE  /\ Count(s, 0, x) = 0 /\ Count(s, k, x) \in Nat
           /\ Count(s, k + 1, x) = Count(s, k, x) + (IF s[k + 1] = x THEN 1 ELSE 0)
<1> DEFINE C == {j \in 1 .. k : s[j] = x}
<1>1. Count(s, 0, x) = 0
  <2>1. {j \in 1 .. 0 : s[j] = x} = {}
    OBVIOUS
  <2> QED BY <2>1, FS_EmptySet DEF Count
<1>2. IsFiniteSet(C) /\ Count(s, k, x) \in Nat
  <2>1. C \subseteq 1 .. k
    OBVIOUS
  <2> HIDE DEF C
  <2>2. IsFiniteSet(C) /\ Cardinality(C) \in Nat
    BY <2>1, Positions
  <2> QED BY <2>2 DEF Count, C
<1>3. CASE s[k + 1] = x
  <2>1. {j \in 1 .. k + 1 : s[j] = x} = C \cup {k + 1} /\ k + 1 \notin C
    BY <1>3
  <2> HIDE DEF C
  <2>2. Cardinality(C \cup {k + 1}) = Cardinality(C) + 1
    BY <1>2, <2>1, FS_AddElement
  <2> QED BY <1>1, <1>2, <1>3, <2>1, <2>2 DEF Count, C
<1>4. CASE s[k + 1] # x
  <2>1. {j \in 1 .. k + 1 : s[j] = x} = C
    BY <1>4
  <2>2. Count(s, k + 1, x) = Count(s, k, x)
    BY <2>1 DEF Count
  <2> QED BY <1>1, <1>2, <1>4, <2>2
<1> QED BY <1>3, <1>4

LEMMA CountMonotone ==
    ASSUME NEW s, NEW x, NEW a \in Nat, NEW b \in Nat, a <= b
    PROVE  Count(s, a, x) <= Count(s, b, x)
<1> DEFINE A == {j \in 1 .. a : s[j] = x}
           B == {j \in 1 .. b : s[j] = x}
<1>1. B \subseteq 1 .. b /\ A \in SUBSET B
  OBVIOUS
<1> HIDE DEF A, B
<1>2. IsFiniteSet(B)
  BY <1>1, Positions
<1>3. Cardinality(A) <= Cardinality(B)
  BY <1>1, <1>2, FS_Subset
<1> QED BY <1>3 DEF Count, A, B

\* A later equal element has a greater rank.
LEMMA CountLater ==
    ASSUME NEW s, NEW a \in Nat, NEW b \in Nat, a < b, NEW x, s[b] = x
    PROVE  Count(s, a, x) < Count(s, b, x)
<1>1. b - 1 \in Nat /\ a <= b - 1 /\ (b - 1) + 1 = b
  OBVIOUS
<1>2. PICK d : d = b - 1
  OBVIOUS
<1>3. Count(s, a, x) <= Count(s, d, x) /\ Count(s, a, x) \in Nat /\ Count(s, d, x) \in Nat
  BY <1>1, <1>2, CountMonotone, CountStep
<1>4. Count(s, d + 1, x) = Count(s, d, x) + 1
  BY <1>1, <1>2, CountStep
<1> QED BY <1>1, <1>2, <1>3, <1>4

LEMMA CountBound ==
    ASSUME NEW s, NEW x, NEW m \in Nat, NEW c \in Nat,
           \A j \in 1 .. m : s[j] = x => Count(s, j, x) <= c
    PROVE  Count(s, m, x) <= c
<1> DEFINE G == {k \in 0 .. m : Count(s, k, x) <= c}
<1>1. 0 \in G
  <2>1. 0 \in 0 .. m /\ Count(s, 0, x) = 0
    BY CountStep
  <2> QED BY <2>1
<1>2. ASSUME NEW k \in 0 .. m - 1, k \in G PROVE k + 1 \in G
  <2>1. k \in Nat /\ k + 1 \in 1 .. m /\ k + 1 \in 0 .. m
    OBVIOUS
  <2>2. CASE s[k + 1] = x
    BY <2>1, <2>2
  <2>3. CASE s[k + 1] # x
    <3>1. Count(s, k + 1, x) = Count(s, k, x) + 0 /\ Count(s, k, x) \in Nat
      BY <2>1, <2>3, CountStep
    <3>2. Count(s, k + 1, x) <= c
      BY <1>2, <3>1
    <3> QED BY <2>1, <3>2
  <2> QED BY <2>2, <2>3
<1> HIDE DEF G
<1>3. \A k \in 0 .. m : k \in G
  BY <1>1, <1>2, UpTo
<1>4. m \in G
  BY <1>3
<1> QED BY <1>4 DEF G

LEMMA PairIs ==
    ASSUME NEW w, NEW args, NEW p, NEW i
    PROVE  <<p, i>> \in Pairs(w, args) <=>
              /\ p \in DOMAIN w /\ i \in DOMAIN args /\ w[p].name = args[i]
              /\ Count(NamesOf(w), p, args[i]) = Count(args, i, args[i])
<1>1. <<p, i>> \in Pairs(w, args) <=>
              /\ p \in DOMAIN w /\ i \in DOMAIN args /\ NamesOf(w)[p] = args[i]
              /\ Rank(NamesOf(w), p) = Rank(args, i)
  BY DEF Pairs
<1>2. p \in DOMAIN w => NamesOf(w)[p] = w[p].name
  BY DEF NamesOf
<1> QED BY <1>1, <1>2 DEF Rank, Count

\* The operands that stand for one of the first k members are those whose rank
\* is no greater than the number of members of their name.
LEMMA UsedCount ==
    ASSUME NEW L \in Nat, NEW w, DOMAIN w = 1 .. L, NEW A \in Nat, NEW args, DOMAIN args = 1 .. A,
           NEW i \in 1 .. A, NEW k \in 0 .. L
    PROVE  (\E p \in 1 .. k : <<p, i>> \in Pairs(w, args))
           <=> Count(args, i, args[i]) <= Count(NamesOf(w), k, args[i])
<1> DEFINE r == Count(args, i, args[i])
           C(j) == Count(NamesOf(w), j, args[i])
           used(j) == \E p \in 1 .. j : <<p, i>> \in Pairs(w, args)
           G == {j \in 0 .. L : used(j) <=> r <= C(j)}
<1>1. r \in Nat /\ r > 0
  <2>1. i - 1 \in Nat /\ (i - 1) + 1 = i
    OBVIOUS
  <2>2. PICK d : d = i - 1
    OBVIOUS
  <2>3. Count(args, d + 1, args[i]) = Count(args, d, args[i]) + 1 /\ Count(args, d, args[i]) \in Nat
    BY <2>1, <2>2, CountStep
  <2> QED BY <2>1, <2>2, <2>3
<1>2. \A p \in 1 .. L : <<p, i>> \in Pairs(w, args) <=> w[p].name = args[i] /\ C(p) = r
  BY PairIs
<1>3. \A p \in 1 .. L : NamesOf(w)[p] = w[p].name
  BY DEF NamesOf
<1>4. \A j \in 0 .. L : C(j) \in Nat
  BY CountStep
<1>5. C(0) = 0 /\ \A j \in 0 .. L - 1 : C(j + 1) = C(j) + (IF NamesOf(w)[j + 1] = args[i] THEN 1 ELSE 0)
  <2>1. C(0) = 0
    <3>1. 0 \in Nat
      OBVIOUS
    <3> QED BY <3>1, CountStep
  <2>2. ASSUME NEW j \in 0 .. L - 1
        PROVE  C(j + 1) = C(j) + (IF NamesOf(w)[j + 1] = args[i] THEN 1 ELSE 0)
    <3>1. j \in Nat
      OBVIOUS
    <3>2. PICK s, x : s = NamesOf(w) /\ x = args[i]
      OBVIOUS
    <3>3. Count(s, j + 1, x) = Count(s, j, x) + (IF s[j + 1] = x THEN 1 ELSE 0)
      BY <3>1, CountStep
    <3> QED BY <3>2, <3>3
  <2> QED BY <2>1, <2>2
<1> HIDE DEF r, C
<1>6. 0 \in G
  <2>1. ~used(0) /\ ~(r <= C(0)) /\ 0 \in 0 .. L
    BY <1>1, <1>5
  <2> QED BY <2>1
<1>7. ASSUME NEW j \in 0 .. L - 1, j \in G PROVE j + 1 \in G
  <2>1. j \in 0 .. L /\ j + 1 \in 0 .. L /\ j + 1 \in 1 .. L
    OBVIOUS
  <2>2. used(j + 1) <=> used(j) \/ <<j + 1, i>> \in Pairs(w, args)
    <3>1. 1 .. j + 1 = (1 .. j) \cup {j + 1}
      OBVIOUS
    <3> QED BY <3>1
  <2>3. used(j) <=> r <= C(j)
    BY <1>7
  <2> HIDE DEF used
  <2>4. C(j + 1) = C(j) + (IF w[j + 1].name = args[i] THEN 1 ELSE 0)
    BY <1>3, <1>5, <2>1
  <2>5. C(j) \in Nat
    BY <1>4, <2>1
  <2>6. <<j + 1, i>> \in Pairs(w, args) <=> w[j + 1].name = args[i] /\ C(j + 1) = r
    BY <1>2, <2>1
  <2>7. used(j + 1) <=> r <= C(j + 1)
    <3>1. CASE w[j + 1].name = args[i]
      <4>1. C(j + 1) = C(j) + 1
        BY <2>4, <3>1
      <4> QED BY <1>1, <2>2, <2>3, <2>5, <2>6, <3>1, <4>1
    <3>2. CASE w[j + 1].name # args[i]
      <4>1. C(j + 1) = C(j)
        BY <2>4, <2>5, <3>2
      <4> QED BY <2>2, <2>3, <2>6, <3>2, <4>1
    <3> QED BY <3>1, <3>2
  <2> QED BY <2>1, <2>7
<1> HIDE DEF G
<1>8. \A j \in 0 .. L : j \in G
  BY <1>6, <1>7, UpTo
<1>9. k \in G
  BY <1>8
<1> QED BY <1>9 DEF G, C, r

\* A member stands for one operand, and an operand for one member.
LEMMA PairsUnique ==
    ASSUME NEW L \in Nat, NEW w, DOMAIN w = 1 .. L, NEW A \in Nat, NEW args, DOMAIN args = 1 .. A,
           NEW p, NEW q, NEW i, NEW j
    PROVE  /\ <<p, i>> \in Pairs(w, args) /\ <<p, j>> \in Pairs(w, args) => i = j
           /\ <<p, i>> \in Pairs(w, args) /\ <<q, i>> \in Pairs(w, args) => p = q
<1>1. ASSUME <<p, i>> \in Pairs(w, args), <<p, j>> \in Pairs(w, args) PROVE i = j
  <2>1. i \in 1 .. A /\ j \in 1 .. A /\ args[i] = args[j] /\ Count(args, i, args[i]) = Count(args, j, args[i])
    BY <1>1, PairIs
  <2>2. i \in Nat /\ j \in Nat /\ Count(args, i, args[i]) \in Nat /\ Count(args, j, args[i]) \in Nat
    BY <2>1, CountStep
  <2>3. ~(i < j)
    <3>1. i < j => Count(args, i, args[i]) < Count(args, j, args[i])
      BY <2>1, <2>2, CountLater
    <3> QED BY <2>1, <2>2, <3>1
  <2>4. ~(j < i)
    <3>1. j < i => Count(args, j, args[i]) < Count(args, i, args[i])
      BY <2>1, <2>2, CountLater
    <3> QED BY <2>1, <2>2, <3>1
  <2> QED BY <2>2, <2>3, <2>4
<1>2. ASSUME <<p, i>> \in Pairs(w, args), <<q, i>> \in Pairs(w, args) PROVE p = q
  <2> DEFINE s == NamesOf(w)
             x == args[i]
  <2>1. p \in 1 .. L /\ q \in 1 .. L /\ w[p].name = x /\ w[q].name = x /\ Count(s, p, x) = Count(s, q, x)
    BY <1>2, PairIs
  <2>2. s[p] = x /\ s[q] = x
    BY <2>1 DEF NamesOf
  <2> HIDE DEF s, x
  <2>3. p \in Nat /\ q \in Nat /\ Count(s, p, x) \in Nat /\ Count(s, q, x) \in Nat
    BY <2>1, CountStep
  <2>4. ~(p < q)
    <3>1. p < q => Count(s, p, x) < Count(s, q, x)
      BY <2>2, <2>3, CountLater
    <3> QED BY <2>1, <2>3, <3>1
  <2>5. ~(q < p)
    <3>1. q < p => Count(s, q, x) < Count(s, p, x)
      BY <2>2, <2>3, CountLater
    <3> QED BY <2>1, <2>3, <3>1
  <2> QED BY <2>3, <2>4, <2>5
<1> QED BY <1>1, <1>2

\* inlist() finds the operand that stands for the member: the first one of its
\* name that stands for none before it.
Free(w, args, k) ==
    {i \in DOMAIN args : args[i] = w[k + 1].name /\ ~\E p \in 1 .. k : <<p, i>> \in Pairs(w, args)}

LEMMA NextOperand ==
    ASSUME NEW L \in Nat, NEW w, DOMAIN w = 1 .. L, NEW A \in Nat, NEW args, DOMAIN args = 1 .. A,
           NEW k \in 0 .. L - 1, NEW i
    PROVE  <<k + 1, i>> \in Pairs(w, args) <=> i \in Free(w, args, k) /\ \A j \in Free(w, args, k) : i <= j
<1>0. PICK N : N = {j \in 1 .. A : args[j] = w[k + 1].name /\ ~\E p \in 1 .. k : <<p, j>> \in Pairs(w, args)}
  OBVIOUS
<1> DEFINE s == NamesOf(w)
           x == w[k + 1].name
           c == Count(s, k, x)
<1>1. k \in Nat /\ k \in 0 .. L /\ k + 1 \in 1 .. L /\ s[k + 1] = x
  BY DEF NamesOf
<1>2. c \in Nat /\ Count(s, k + 1, x) = c + 1
  <2> HIDE DEF s, x
  <2>1. Count(s, k, x) \in Nat /\ Count(s, k + 1, x) = Count(s, k, x) + 1
    BY <1>1, CountStep
  <2> QED BY <2>1
<1>3. \A j \in N : j \in 1 .. A /\ args[j] = x /\ ~(Count(args, j, x) <= c)
  BY <1>0, <1>1, UsedCount
<1>4. \A j \in 1 .. A : args[j] = x /\ ~(Count(args, j, x) <= c) => j \in N
  BY <1>0, <1>1, UsedCount
<1>5. \A j \in 1 .. A : Count(args, j, x) \in Nat
  BY CountStep
<1>6. \A j : <<k + 1, j>> \in Pairs(w, args) <=> j \in 1 .. A /\ args[j] = x /\ Count(args, j, x) = c + 1
  <2>1. \A j : <<k + 1, j>> \in Pairs(w, args) <=>
              k + 1 \in DOMAIN w /\ j \in DOMAIN args /\ w[k + 1].name = args[j]
              /\ Count(NamesOf(w), k + 1, args[j]) = Count(args, j, args[j])
    BY PairIs
  <2> QED BY <1>1, <1>2, <2>1
<1> HIDE DEF c, x, s
<1>7. ASSUME <<k + 1, i>> \in Pairs(w, args) PROVE i \in N /\ \A j \in N : i <= j
  <2>1. i \in 1 .. A /\ args[i] = x /\ Count(args, i, x) = c + 1
    BY <1>6, <1>7
  <2>2. i \in N
    BY <1>2, <1>4, <2>1
  <2>3. ASSUME NEW j \in N, j < i PROVE FALSE
    <3>1. j \in 1 .. A /\ args[j] = x /\ ~(Count(args, j, x) <= c)
      BY <1>3
    <3>2. j \in Nat /\ i \in Nat
      BY <2>1, <3>1
    <3>3. Count(args, j, x) < Count(args, i, x)
      BY <2>1, <2>3, <3>2, CountLater
    <3> QED BY <1>2, <1>5, <2>1, <3>1, <3>3
  <2>4. \A j \in N : j \in Int
    BY <1>3
  <2> QED BY <2>1, <2>2, <2>3, <2>4
<1>8. ASSUME i \in N, \A j \in N : i <= j PROVE <<k + 1, i>> \in Pairs(w, args)
  <2>1. i \in 1 .. A /\ args[i] = x /\ ~(Count(args, i, x) <= c)
    BY <1>3, <1>8
  <2>2. PICK d : d = i - 1
    OBVIOUS
  <2>3. d \in Nat /\ d + 1 = i
    BY <2>1, <2>2
  <2>4. ASSUME NEW j \in 1 .. d, args[j] = x PROVE Count(args, j, x) <= c
    <3>1. j \in 1 .. A /\ j < i
      BY <2>1, <2>3
    <3>2. j \notin N
      BY <1>8, <2>1, <3>1
    <3> QED BY <1>4, <2>4, <3>1, <3>2
  <2>5. Count(args, d, x) <= c /\ Count(args, d, x) \in Nat
    BY <1>2, <2>3, <2>4, CountBound, CountStep
  <2>6. Count(args, d + 1, x) = Count(args, d, x) + 1
    BY <2>1, <2>3, CountStep
  <2>7. Count(args, i, x) = c + 1
    BY <1>2, <2>1, <2>3, <2>5, <2>6
  <2> QED BY <1>6, <2>1, <2>7
<1>9. N = Free(w, args, k)
  BY <1>0 DEF Free
<1> QED BY <1>7, <1>8, <1>9

-----------------------------------------------------------------------------
(* The place of the new members: where it is and how the list around it    *)
(* grows.                                                                  *)

LEMMA AnchorIs ==
    ASSUME NEW m \in Nat, NEW I, I \subseteq 1 .. m, NEW s, NEW pos
    PROVE  /\ Anchor(s, I, pos) \in 0 .. m
           /\ Anchor(s, I, pos) = 0 => \A i \in I : s[i].name # pos
           /\ Anchor(s, I, pos) # 0 =>
                 /\ Anchor(s, I, pos) \in I /\ s[Anchor(s, I, pos)].name = pos
                 /\ \A i \in I : s[i].name = pos => Anchor(s, I, pos) <= i
<1>0. PICK a : a = Anchor(s, I, pos)
  OBVIOUS
<1> DEFINE T == {i \in I : s[i].name = pos}
<1>1. a = IF T = {} THEN 0 ELSE CHOOSE i \in T : \A j \in T : i <= j
  BY <1>0 DEF Anchor
<1>2. \A i : i \in T <=> i \in I /\ s[i].name = pos
  OBVIOUS
<1>3. T \subseteq Nat
  <2>1. \A i \in I : i \in Nat
    OBVIOUS
  <2> QED BY <2>1
<1> HIDE DEF T
<1>4. CASE T = {}
  BY <1>0, <1>1, <1>2, <1>4
<1>5. CASE T # {}
  <2>1. \E x \in T : \A y \in T : x <= y
    BY <1>3, <1>5, Least
  <2>2. a \in T /\ \A y \in T : a <= y
    BY <1>1, <1>5, <2>1
  <2>3. a \in 1 .. m /\ a # 0
    <3>1. a \in I
      BY <1>2, <2>2
    <3> QED BY <3>1
  <2> QED BY <1>0, <1>2, <2>2, <2>3
<1> QED BY <1>4, <1>5

LEMMA AnchorAdd ==
    ASSUME NEW m \in Nat, NEW I, I \subseteq 1 .. m, NEW s, NEW pos
    PROVE  /\ Anchor(s, I, pos) # 0 => Anchor(s, I \cup {m + 1}, pos) = Anchor(s, I, pos)
           /\ Anchor(s, I, pos) = 0 /\ s[m + 1].name = pos => Anchor(s, I \cup {m + 1}, pos) = m + 1
           /\ Anchor(s, I, pos) = 0 /\ s[m + 1].name # pos => Anchor(s, I \cup {m + 1}, pos) = 0
<1>1. PICK a, b, J : a = Anchor(s, I, pos) /\ b = Anchor(s, J, pos) /\ J = I \cup {m + 1}
  OBVIOUS
<1>2. m + 1 \in Nat /\ J \subseteq 1 .. m + 1 /\ m + 1 \in J
  BY <1>1
<1>3. /\ a \in 0 .. m
      /\ a = 0 => \A i \in I : s[i].name # pos
      /\ a # 0 => a \in I /\ s[a].name = pos /\ \A i \in I : s[i].name = pos => a <= i
  <2>1. /\ Anchor(s, I, pos) \in 0 .. m
        /\ Anchor(s, I, pos) = 0 => \A i \in I : s[i].name # pos
        /\ Anchor(s, I, pos) # 0 =>
                 /\ Anchor(s, I, pos) \in I /\ s[Anchor(s, I, pos)].name = pos
                 /\ \A i \in I : s[i].name = pos => Anchor(s, I, pos) <= i
    BY AnchorIs, Zenon
  <2> QED BY <1>1, <2>1
<1>4. /\ b \in 0 .. m + 1
      /\ b = 0 => \A i \in J : s[i].name # pos
      /\ b # 0 => b \in J /\ s[b].name = pos /\ \A i \in J : s[i].name = pos => b <= i
  <2>1. PICK k : k = m + 1
    OBVIOUS
  <2>2. k \in Nat /\ J \subseteq 1 .. k
    BY <1>2, <2>1
  <2>3. /\ Anchor(s, J, pos) \in 0 .. k
        /\ Anchor(s, J, pos) = 0 => \A i \in J : s[i].name # pos
        /\ Anchor(s, J, pos) # 0 =>
                 /\ Anchor(s, J, pos) \in J /\ s[Anchor(s, J, pos)].name = pos
                 /\ \A i \in J : s[i].name = pos => Anchor(s, J, pos) <= i
    BY <2>2, AnchorIs, Zenon
  <2> QED BY <1>1, <2>1, <2>3
<1>5. \A i : i \in J <=> i \in I \/ i = m + 1
  BY <1>1
<1>6. b = IF a # 0 THEN a ELSE IF s[m + 1].name = pos THEN m + 1 ELSE 0
  <2>1. CASE a # 0
    <3>1. a \in J /\ s[a].name = pos
      BY <1>3, <1>5, <2>1
    <3>2. b # 0 /\ b <= a
      BY <1>4, <3>1
    <3>3. b # m + 1 /\ b \in I
      BY <1>3, <1>4, <1>5, <3>2
    <3>4. a <= b
      BY <1>3, <1>4, <2>1, <3>2, <3>3
    <3> QED BY <1>3, <1>4, <2>1, <3>2, <3>4
  <2>2. CASE a = 0 /\ s[m + 1].name = pos
    <3>1. b # 0
      BY <1>2, <1>4, <2>2
    <3>2. b \notin I
      BY <1>3, <1>4, <2>2, <3>1
    <3> QED BY <1>4, <1>5, <2>2, <3>1, <3>2
  <2>3. CASE a = 0 /\ s[m + 1].name # pos
    BY <1>3, <1>4, <1>5, <2>3
  <2> QED BY <2>1, <2>2, <2>3
<1> QED BY <1>1, <1>6

LEMMA AnchorSame ==
    ASSUME NEW I, NEW s, NEW t, NEW pos, \A i \in I : s[i].name = t[i].name
    PROVE  Anchor(s, I, pos) = Anchor(t, I, pos)
<1> DEFINE T == {i \in I : s[i].name = pos}
           U == {i \in I : t[i].name = pos}
<1>1. T = U
  OBVIOUS
<1>2. Anchor(s, I, pos) = IF T = {} THEN 0 ELSE CHOOSE i \in T : \A j \in T : i <= j
  BY DEF Anchor
<1>3. Anchor(t, I, pos) = IF U = {} THEN 0 ELSE CHOOSE i \in U : \A j \in U : i <= j
  BY DEF Anchor
<1> HIDE DEF T, U
<1> QED BY <1>1, <1>2, <1>3

LEMMA AnchorEmpty == ASSUME NEW s, NEW pos PROVE Anchor(s, {}, pos) = 0
<1>1. {i \in {} : s[i].name = pos} = {}
  OBVIOUS
<1> QED BY <1>1 DEF Anchor

LEMMA SubAppend ==
    ASSUME NEW S, NEW s \in Seq(S), NEW e \in S, NEW t, t = Append(s, e), NEW i \in 1 .. Len(s) + 1
    PROVE  /\ t \in Seq(S) /\ Len(t) = Len(s) + 1
           /\ \A j \in 0 .. Len(s) : SubSeq(t, i, j) = SubSeq(s, i, j)
           /\ SubSeq(t, i, Len(t)) = Append(SubSeq(s, i, Len(s)), e)
           /\ SubSeq(s, i, Len(s)) \in Seq(S)
<1>1. /\ t \in Seq(S) /\ Len(t) = Len(s) + 1 /\ Len(s) \in Nat
      /\ \A j \in 1 .. Len(s) : t[j] = s[j]
      /\ t[Len(s) + 1] = e
      /\ \A j \in 1 .. Len(s) : s[j] \in S
  BY AppendProperties, LenProperties, ElementOfSeq
<1>2. \A j \in 0 .. Len(s) : SubSeq(t, i, j) = SubSeq(s, i, j)
  <2> SUFFICES ASSUME NEW j \in 0 .. Len(s) PROVE SubSeq(t, i, j) = SubSeq(s, i, j)
    OBVIOUS
  <2>1. (\A k \in i .. j : s[k] \in S) /\ (\A k \in i .. j : t[k] \in S) /\ i \in Int /\ j \in Int
    BY <1>1
  <2>2. PICK a, b : a = SubSeq(t, i, j) /\ b = SubSeq(s, i, j)
    OBVIOUS
  <2>3. /\ a \in Seq(S) /\ Len(a) = IF i <= j THEN j - i + 1 ELSE 0
        /\ \A k \in 1 .. j - i + 1 : a[k] = t[i + k - 1]
    BY <2>1, <2>2, SubSeqProperties
  <2>4. /\ b \in Seq(S) /\ Len(b) = IF i <= j THEN j - i + 1 ELSE 0
        /\ \A k \in 1 .. j - i + 1 : b[k] = s[i + k - 1]
    BY <2>1, <2>2, SubSeqProperties
  <2>5. \A k \in 1 .. Len(a) : a[k] = b[k]
    BY <1>1, <2>1, <2>3, <2>4
  <2> QED BY <2>2, <2>3, <2>4, <2>5, SeqEqual
<1>3. SubSeq(s, i, Len(s)) \in Seq(S)
  <2>1. \A k \in i .. Len(s) : s[k] \in S
    BY <1>1
  <2> QED BY <1>1, <2>1, SubSeqProperties
<1>4. SubSeq(t, i, Len(t)) = Append(SubSeq(s, i, Len(s)), e)
  <2>1. PICK m : m = Len(s) + 1
    OBVIOUS
  <2>2. i \in 1 .. Len(t) /\ m \in i .. Len(t) /\ m - 1 = Len(s) /\ Len(t) = m
    BY <1>1, <2>1
  <2>3. SubSeq(t, i, m) = SubSeq(t, i, m - 1) \o <<t[m]>>
    BY <1>1, <2>2, SubSeqRecursiveSecond
  <2>4. SubSeq(t, i, Len(s)) = SubSeq(s, i, Len(s))
    BY <1>1, <1>2
  <2>5. SubSeq(s, i, Len(s)) \o <<e>> = Append(SubSeq(s, i, Len(s)), e)
    BY <1>3, AppendIsConcat
  <2> QED BY <1>1, <2>1, <2>2, <2>3, <2>4, <2>5
<1> QED BY <1>1, <1>2, <1>3, <1>4

\* BEFORE and AFTER when the list around the place p grows by e.
Ahead(s, p, b) == SubSeq(s, 1, Cut(s, p, b))
Behind(s, p, b) == SubSeq(s, Cut(s, p, b) + 1, Len(s))

LEMMA FrontBackType ==
    ASSUME NEW S, NEW s \in Seq(S), NEW b \in BOOLEAN, NEW p \in 0 .. Len(s)
    PROVE  /\ Cut(s, p, b) \in 0 .. Len(s)
           /\ Ahead(s, p, b) \in Seq(S) /\ Behind(s, p, b) \in Seq(S)
           /\ Ahead(s, p, b) \o Behind(s, p, b) = s
<1>1. Len(s) \in Nat /\ \A j \in 1 .. Len(s) : s[j] \in S
  BY LenProperties, ElementOfSeq
<1>2. PICK c : c = Cut(s, p, b)
  OBVIOUS
<1>3. c \in 0 .. Len(s)
  BY <1>1, <1>2 DEF Cut
<1>4. (\A j \in 1 .. c : s[j] \in S) /\ (\A j \in c + 1 .. Len(s) : s[j] \in S)
  BY <1>1, <1>3
<1>5. SubSeq(s, 1, c) \in Seq(S)
  <2>1. 1 \in Int /\ c \in Int
    BY <1>1, <1>3
  <2> QED BY <1>4, <2>1, SubSeqProperties
<1>6. SubSeq(s, c + 1, Len(s)) \in Seq(S)
  <2>1. c + 1 \in Int /\ Len(s) \in Int
    BY <1>1, <1>3
  <2> QED BY <1>4, <2>1, SubSeqProperties
<1>7. SubSeq(s, 1, c) \o SubSeq(s, c + 1, Len(s)) = SubSeq(s, 1, Len(s))
  <2>1. PICK m, n1 : m = 1 /\ n1 = Len(s)
    OBVIOUS
  <2>2. m \in 1 .. Len(s) + 1 /\ c \in m - 1 .. Len(s) /\ n1 \in c .. Len(s)
    BY <1>1, <1>3, <2>1
  <2>3. SubSeq(s, m, c) \o SubSeq(s, c + 1, n1) = SubSeq(s, m, n1)
    BY <2>2, ConcatAdjacentSubSeq
  <2> QED BY <2>1, <2>3
<1>8. SubSeq(s, 1, Len(s)) = s
  BY SubSeqFull
<1> QED BY <1>2, <1>3, <1>5, <1>6, <1>7, <1>8 DEF Ahead, Behind

\* A member that does not fix the place.
LEMMA SplitStay ==
    ASSUME NEW S, NEW s \in Seq(S), NEW e \in S, NEW b \in BOOLEAN, NEW p \in 0 .. Len(s)
    PROVE  /\ p = 0 => /\ Ahead(Append(s, e), p, b) = Append(Ahead(s, p, b), e)
                       /\ Behind(Append(s, e), p, b) = Behind(s, p, b)
           /\ p # 0 => /\ Ahead(Append(s, e), p, b) = Ahead(s, p, b)
                       /\ Behind(Append(s, e), p, b) = Append(Behind(s, p, b), e)
<1>0. PICK t : t = Append(s, e)
  OBVIOUS
<1>1. Len(s) \in Nat
  BY LenProperties
<1>2. PICK c : c = Cut(s, p, b)
  OBVIOUS
<1>3. c \in 0 .. Len(s)
  BY <1>2, FrontBackType
<1>4. 1 \in 1 .. Len(s) + 1 /\ c + 1 \in 1 .. Len(s) + 1
  BY <1>1, <1>3
<1>5. /\ Len(t) = Len(s) + 1
      /\ \A j \in 0 .. Len(s) : SubSeq(t, 1, j) = SubSeq(s, 1, j)
      /\ SubSeq(t, 1, Len(t)) = Append(SubSeq(s, 1, Len(s)), e)
      /\ SubSeq(t, c + 1, Len(t)) = Append(SubSeq(s, c + 1, Len(s)), e)
  BY <1>0, <1>4, SubAppend
<1>6. ASSUME p = 0 PROVE Ahead(t, p, b) = Append(Ahead(s, p, b), e) /\ Behind(t, p, b) = Behind(s, p, b)
  <2>1. c = Len(s) /\ Cut(t, p, b) = Len(s) + 1
    BY <1>2, <1>5, <1>6 DEF Cut
  <2>2. SubSeq(t, Cut(t, p, b) + 1, Len(t)) = << >> /\ SubSeq(s, c + 1, Len(s)) = << >>
    <3>1. Len(t) < Len(s) + 1 + 1 /\ Len(s) < Len(s) + 1 /\ Len(t) \in Int /\ Len(s) + 1 + 1 \in Int
      BY <1>1, <1>5
    <3> QED BY <1>1, <2>1, <3>1, SubSeqEmpty
  <2> QED BY <1>2, <1>5, <1>6, <2>1, <2>2 DEF Ahead, Behind
<1>7. ASSUME p # 0 PROVE Ahead(t, p, b) = Ahead(s, p, b) /\ Behind(t, p, b) = Append(Behind(s, p, b), e)
  <2>1. Cut(t, p, b) = c
    BY <1>2, <1>7 DEF Cut
  <2> QED BY <1>2, <1>3, <1>5, <1>7, <2>1 DEF Ahead, Behind
<1> QED BY <1>0, <1>6, <1>7

\* The member that fixes it.
LEMMA SplitTurn ==
    ASSUME NEW S, NEW s \in Seq(S), NEW e \in S, NEW b \in BOOLEAN
    PROVE  /\ b => /\ Ahead(Append(s, e), Len(s) + 1, b) = Ahead(s, 0, b)
                   /\ Behind(Append(s, e), Len(s) + 1, b) = Append(Behind(s, 0, b), e)
           /\ ~b => /\ Ahead(Append(s, e), Len(s) + 1, b) = Append(Ahead(s, 0, b), e)
                    /\ Behind(Append(s, e), Len(s) + 1, b) = Behind(s, 0, b)
<1>0. PICK t, q : t = Append(s, e) /\ q = Len(s) + 1
  OBVIOUS
<1>1. Len(s) \in Nat
  BY LenProperties
<1>2. Cut(s, 0, b) = Len(s) /\ Cut(t, q, b) = IF b THEN Len(s) ELSE Len(s) + 1
  BY <1>0, <1>1 DEF Cut
<1>4. 1 \in 1 .. Len(s) + 1 /\ Len(s) + 1 \in 1 .. Len(s) + 1
  BY <1>1
<1>5. /\ Len(t) = Len(s) + 1
      /\ \A j \in 0 .. Len(s) : SubSeq(t, 1, j) = SubSeq(s, 1, j)
      /\ SubSeq(t, 1, Len(t)) = Append(SubSeq(s, 1, Len(s)), e)
      /\ SubSeq(t, Len(s) + 1, Len(t)) = Append(SubSeq(s, Len(s) + 1, Len(s)), e)
  BY <1>0, <1>4, SubAppend
<1>6. SubSeq(t, Len(s) + 1 + 1, Len(t)) = << >> /\ SubSeq(s, Len(s) + 1, Len(s)) = << >>
  <2>1. Len(t) < Len(s) + 1 + 1 /\ Len(s) < Len(s) + 1 /\ Len(t) \in Int /\ Len(s) + 1 + 1 \in Int
    BY <1>1, <1>5
  <2> QED BY <1>1, <2>1, SubSeqEmpty
<1>7. Len(s) \in 0 .. Len(s)
  BY <1>1
<1>8. ASSUME b PROVE Ahead(t, q, b) = Ahead(s, 0, b) /\ Behind(t, q, b) = Append(Behind(s, 0, b), e)
  BY <1>0, <1>2, <1>5, <1>6, <1>7, <1>8 DEF Ahead, Behind
<1>9. ASSUME ~b PROVE Ahead(t, q, b) = Append(Ahead(s, 0, b), e) /\ Behind(t, q, b) = Behind(s, 0, b)
  BY <1>0, <1>2, <1>5, <1>6, <1>7, <1>9 DEF Ahead, Behind
<1> QED BY <1>0, <1>8, <1>9

-----------------------------------------------------------------------------
(* Partners, the list r leaves, and what is extracted.                     *)

LEMMA HitIs ==
    ASSUME NEW w, NEW args, NEW x
    PROVE  /\ x \in Hits(w, args) <=> \E i \in DOMAIN args : <<x, i>> \in Pairs(w, args)
           /\ x \in Used(w, args) <=> \E p \in DOMAIN w : <<p, x>> \in Pairs(w, args)
           /\ Hits(w, args) \subseteq DOMAIN w /\ Used(w, args) \subseteq DOMAIN args
<1> DEFINE P == Pairs(w, args)
<1>1. \A q \in P : q \in (DOMAIN w) \X (DOMAIN args)
  BY DEF Pairs
<1> HIDE DEF P
<1>2. \A q \in P : q[1] \in DOMAIN w /\ q[2] \in DOMAIN args /\ q = <<q[1], q[2]>>
  BY <1>1
<1>3. \A i : <<x, i>>[1] = x /\ <<x, i>>[2] = i /\ <<i, x>>[1] = i /\ <<i, x>>[2] = x
  OBVIOUS
<1>4. Hits(w, args) = {q[1] : q \in P} /\ Used(w, args) = {q[2] : q \in P}
  BY DEF Hits, Used, P
<1>5. x \in Hits(w, args) <=> \E i \in DOMAIN args : <<x, i>> \in P
  <2>1. ASSUME x \in Hits(w, args) PROVE \E i \in DOMAIN args : <<x, i>> \in P
    <3>1. PICK q \in P : x = q[1]
      BY <1>4, <2>1
    <3> QED BY <1>2, <3>1
  <2>2. ASSUME NEW i \in DOMAIN args, <<x, i>> \in P PROVE x \in Hits(w, args)
    BY <1>3, <1>4, <2>2
  <2> QED BY <2>1, <2>2
<1>6. x \in Used(w, args) <=> \E p \in DOMAIN w : <<p, x>> \in P
  <2>1. ASSUME x \in Used(w, args) PROVE \E p \in DOMAIN w : <<p, x>> \in P
    <3>1. PICK q \in P : x = q[2]
      BY <1>4, <2>1
    <3> QED BY <1>2, <3>1
  <2>2. ASSUME NEW p \in DOMAIN w, <<p, x>> \in P PROVE x \in Used(w, args)
    BY <1>3, <1>4, <2>2
  <2> QED BY <2>1, <2>2
<1> QED BY <1>2, <1>4, <1>5, <1>6 DEF P

LEMMA PartnerIs ==
    ASSUME NEW L \in Nat, NEW w, DOMAIN w = 1 .. L, NEW A \in Nat, NEW args, DOMAIN args = 1 .. A,
           NEW p, NEW i, <<p, i>> \in Pairs(w, args)
    PROVE  Partner(w, args, p) = i /\ i \in DOMAIN args /\ p \in DOMAIN w
<1>1. \A j : <<p, j>> \in Pairs(w, args) => j = i
  BY PairsUnique
<1>2. i \in DOMAIN args /\ p \in DOMAIN w
  BY PairIs
<1> QED BY <1>1, <1>2 DEF Partner

LEMMA NoArgs ==
    ASSUME NEW w, NEW args, DOMAIN args = {}
    PROVE  Hits(w, args) = {} /\ Used(w, args) = {}
BY HitIs

LEMMA AtRange ==
    ASSUME NEW m \in Nat, NEW s, NEW I, I \subseteq 1 .. m, NEW x \in DOMAIN At(s, I)
    PROVE  \E i \in I : At(s, I)[x] = s[i]
<1> DEFINE S == {s[i] : i \in I}
<1>1. \A i \in I : s[i] \in S
  OBVIOUS
<1> HIDE DEF S
<1>2. PICK a : a = At(s, I)
  OBVIOUS
<1>3. a \in Seq(S)
  BY <1>1, <1>2, AtSeq
<1>4. a[x] \in S
  <2>1. x \in 1 .. Len(a)
    BY <1>2, <1>3, LenProperties
  <2> QED BY <1>3, <2>1, ElementOfSeq
<1> QED BY <1>2, <1>4 DEF S

LEMMA TwoPositions ==
    ASSUME NEW m \in Nat, NEW I, I \subseteq 1 .. m, NEW x \in I, NEW y \in I, x # y
    PROVE  ~(Cardinality(I) < 2)
<1>1. IsFiniteSet(I) /\ Cardinality(I) \in Nat
  BY Positions
<1>2. IsFiniteSet({x}) /\ Cardinality({x}) = 1
  BY FS_Singleton
<1>3. IsFiniteSet({x} \cup {y}) /\ Cardinality({x} \cup {y}) = 2
  <2>1. y \notin {x}
    OBVIOUS
  <2> QED BY <1>2, <2>1, FS_AddElement
<1>4. PICK T : T = {x} \cup {y}
  OBVIOUS
<1>5. T \in SUBSET I
  BY <1>4
<1>6. Cardinality(T) <= Cardinality(I)
  BY <1>1, <1>5, FS_Subset
<1> QED BY <1>1, <1>3, <1>4, <1>6

LEMMA BesideNone ==
    ASSUME NEW S, NEW s \in Seq(S), NEW b \in BOOLEAN, NEW p \in 0 .. Len(s)
    PROVE  Beside(s, << >>, p, b) = s
<1>1. Ahead(s, p, b) \in Seq(S) /\ Ahead(s, p, b) \o Behind(s, p, b) = s
  BY FrontBackType
<1>2. Ahead(s, p, b) \o << >> = Ahead(s, p, b)
  BY <1>1, ConcatEmptySeq
<1> QED BY <1>1, <1>2 DEF Beside, Ahead, Behind

LEMMA SubExtend ==
    ASSUME NEW S, NEW s, NEW m \in Nat, \A i \in 1 .. m + 1 : s[i] \in S
    PROVE  /\ SubSeq(s, 1, m) \in Seq(S)
           /\ SubSeq(s, 1, m + 1) = Append(SubSeq(s, 1, m), s[m + 1])
<1>1. PICK a, b, e, k, o : a = SubSeq(s, o, m) /\ b = SubSeq(s, o, k) /\ e = s[k] /\ k = m + 1 /\ o = 1
  OBVIOUS
<1>2. a \in Seq(S) /\ Len(a) = m /\ \A i \in 1 .. m : a[i] = s[i]
  <2>1. o \in Int /\ m \in Int /\ \A i \in o .. m : s[i] \in S
    BY <1>1
  <2>2. /\ a \in Seq(S) /\ Len(a) = IF o <= m THEN m - o + 1 ELSE 0
        /\ \A i \in 1 .. m - o + 1 : a[i] = s[o + i - 1]
    BY <1>1, <2>1, SubSeqProperties
  <2> QED BY <1>1, <2>2
<1>3. b \in Seq(S) /\ Len(b) = k /\ \A i \in 1 .. k : b[i] = s[i]
  <2>1. o \in Int /\ k \in Int /\ \A i \in o .. k : s[i] \in S
    BY <1>1
  <2>2. /\ b \in Seq(S) /\ Len(b) = IF o <= k THEN k - o + 1 ELSE 0
        /\ \A i \in 1 .. k - o + 1 : b[i] = s[o + i - 1]
    BY <1>1, <2>1, SubSeqProperties
  <2> QED BY <1>1, <2>2
<1>4. e \in S
  BY <1>1
<1>5. PICK c : c = Append(a, e)
  OBVIOUS
<1>6. c \in Seq(S) /\ Len(c) = m + 1 /\ (\A i \in 1 .. m : c[i] = a[i]) /\ c[m + 1] = e
  BY <1>2, <1>4, <1>5, AppendProperties
<1>7. \A i \in 1 .. Len(b) : b[i] = c[i]
  BY <1>1, <1>2, <1>3, <1>6
<1>8. b = c
  BY <1>1, <1>3, <1>6, <1>7, SeqEqual
<1> QED BY <1>1, <1>2, <1>5, <1>8

LEMMA RenewedIs ==
    ASSUME NEW S, NEW w \in Seq(S), NEW args, NEW A \in Nat, DOMAIN args = 1 .. A, NEW g, NEW u,
           \A i \in 1 .. A : g[i] \in S
    PROVE  /\ Renewed(w, args, g, u) \in Seq(S)
           /\ Len(Renewed(w, args, g, u)) = Len(w)
           /\ \A i \in 1 .. Len(w) : Renewed(w, args, g, u)[i] =
                 IF i \in Stale(w, args, g, u) THEN g[Partner(w, args, i)] ELSE w[i]
<1>1. Len(w) \in Nat /\ DOMAIN w = 1 .. Len(w) /\ \A i \in 1 .. Len(w) : w[i] \in S
  BY LenProperties, ElementOfSeq
<1>2. ASSUME NEW i \in Stale(w, args, g, u) PROVE Partner(w, args, i) \in 1 .. A
  <2>1. i \in Hits(w, args)
    BY DEF Stale
  <2>2. PICK j \in DOMAIN args : <<i, j>> \in Pairs(w, args)
    BY <2>1, HitIs
  <2>3. Partner(w, args, i) = j
    BY <1>1, <2>2, PartnerIs
  <2> QED BY <2>2, <2>3
<1>3. PICK T, P, R : T = Stale(w, args, g, u) /\ P = [i \in T |-> Partner(w, args, i)] /\ R = Renewed(w, args, g, u)
  OBVIOUS
<1>4. R = [i \in 1 .. Len(w) |-> IF i \in T THEN g[Partner(w, args, i)] ELSE w[i]]
  BY <1>1, <1>3 DEF Renewed
<1>5. \A i \in 1 .. Len(w) : R[i] = (IF i \in T THEN g[Partner(w, args, i)] ELSE w[i]) /\ R[i] \in S
  BY <1>1, <1>2, <1>3, <1>4
<1>6. R \in [1 .. Len(w) -> S]
  BY <1>4, <1>5
<1>7. R \in Seq(S) /\ Len(R) = Len(w)
  BY <1>1, <1>6
<1> QED BY <1>3, <1>5, <1>7

-----------------------------------------------------------------------------
(* The directory, and what can be in an archive.                           *)

LEMMA UnpackedNone ==
    ASSUME NEW P, NEW X, NEW f \in [P -> X]
    PROVE  Unpacked(<< >>, f) = f
<1>1. \A p : {i \in DOMAIN << >> : << >>[i].name = p} = {}
  OBVIOUS
<1>2. Unpacked(<< >>, f) = [p \in DOMAIN f |-> f[p]]
  BY <1>1, Zenon DEF Unpacked
<1> QED BY <1>2

\* What becomes of the file p.
FileOf(s, f, p) ==
    LET I == {i \in DOMAIN s : s[i].name = p}
    IN IF I = {} THEN f[p] ELSE [date |-> s[Max(I)].date, data |-> s[Max(I)].data]

\* Member m extracted over the directory f.
Over(f, m) == [f EXCEPT ![m.name] = [date |-> m.date, data |-> m.data]]

LEMMA UnpackedAdd ==
    ASSUME NEW S, NEW s \in Seq(S), NEW e \in S, NEW f, NEW t, t = Append(s, e)
    PROVE  Unpacked(t, f) = Over(Unpacked(s, f), e)
<1>1. /\ Len(s) \in Nat /\ DOMAIN s = 1 .. Len(s) /\ DOMAIN t = 1 .. Len(s) + 1
      /\ \A j \in 1 .. Len(s) : t[j] = s[j]
      /\ t[Len(s) + 1] = e
  <2>1. t \in Seq(S) /\ Len(t) = Len(s) + 1 /\ (\A j \in 1 .. Len(s) : t[j] = s[j]) /\ t[Len(s) + 1] = e
    BY AppendProperties
  <2> QED BY <2>1, LenProperties
<1>2. Unpacked(s, f) = [p \in DOMAIN f |-> FileOf(s, f, p)] /\ Unpacked(t, f) = [p \in DOMAIN f |-> FileOf(t, f, p)]
  BY DEF Unpacked, FileOf
<1>3. ASSUME NEW p \in DOMAIN f, p # e.name PROVE FileOf(t, f, p) = FileOf(s, f, p)
  <2> DEFINE I == {i \in DOMAIN s : s[i].name = p}
             J == {i \in DOMAIN t : t[i].name = p}
  <2>1. I = J
    BY <1>1, <1>3
  <2>2. Max(J) \in DOMAIN s \/ J = {}
    <3>1. ASSUME J # {} PROVE \E x \in J : \A y \in J : x >= y
      <4>1. J \subseteq 1 .. Len(s)
        BY <1>1, <2>1
      <4> HIDE DEF J
      <4>2. PICK N : N = {x \in 0 .. Len(s) : Len(s) - x \in J}
        OBVIOUS
      <4>3. N \subseteq Nat /\ N # {}
        <5>1. PICK y \in J : TRUE
          BY <3>1
        <5>2. Len(s) - y \in N
          BY <1>1, <4>1, <4>2, <5>1
        <5> QED BY <1>1, <4>2, <5>2
      <4>4. PICK x \in N : \A y \in N : x <= y
        BY <4>3, Least
      <4>5. ASSUME NEW y \in J PROVE Len(s) - x >= y
        <5>1. y \in 1 .. Len(s) /\ Len(s) - y \in 0 .. Len(s) /\ Len(s) - (Len(s) - y) = y
          BY <1>1, <4>1
        <5>2. Len(s) - y \in N
          BY <4>2, <5>1
        <5>3. x <= Len(s) - y /\ x \in Nat
          BY <4>3, <4>4, <5>2
        <5> QED BY <1>1, <5>1, <5>3
      <4> QED BY <4>2, <4>4, <4>5
    <3>2. J # {} => Max(J) \in J
      <4> HIDE DEF J
      <4> QED BY <3>1 DEF Max
    <3> QED BY <2>1, <3>2
  <2>3. J # {} => t[Max(J)] = s[Max(J)]
    <3> HIDE DEF J
    <3> QED BY <1>1, <2>2
  <2>4. FileOf(s, f, p) = IF I = {} THEN f[p] ELSE [date |-> s[Max(I)].date, data |-> s[Max(I)].data]
    BY DEF FileOf
  <2>5. FileOf(t, f, p) = IF J = {} THEN f[p] ELSE [date |-> t[Max(J)].date, data |-> t[Max(J)].data]
    BY DEF FileOf
  <2> HIDE DEF I, J
  <2> QED BY <2>1, <2>3, <2>4, <2>5
<1>4. FileOf(t, f, e.name) = [date |-> e.date, data |-> e.data]
  <2> DEFINE J == {i \in DOMAIN t : t[i].name = e.name}
  <2>1. Len(s) + 1 \in J /\ \A y \in J : y \in 1 .. Len(s) + 1
    BY <1>1
  <2>2. FileOf(t, f, e.name) = IF J = {} THEN f[e.name] ELSE [date |-> t[Max(J)].date, data |-> t[Max(J)].data]
    BY DEF FileOf
  <2> HIDE DEF J
  <2>3. Max(J) = Len(s) + 1
    <3>1. \A x : (x \in J /\ \A y \in J : x >= y) <=> x = Len(s) + 1
      BY <1>1, <2>1
    <3>2. (CHOOSE x : x \in J /\ \A y \in J : x >= y) = Len(s) + 1
      BY <3>1
    <3> QED BY <3>2 DEF Max
  <2> QED BY <1>1, <2>1, <2>2, <2>3
<1>5. PICK U, V, x, r : U = Unpacked(s, f) /\ V = Unpacked(t, f) /\ x = e.name /\ r = [date |-> e.date, data |-> e.data]
  OBVIOUS
<1>6. U = [p \in DOMAIN f |-> FileOf(s, f, p)] /\ V = [p \in DOMAIN f |-> FileOf(t, f, p)]
  BY <1>2, <1>5
<1>7. DOMAIN U = DOMAIN f /\ DOMAIN V = DOMAIN f
  BY <1>6
<1>8. \A p \in DOMAIN f : V[p] = IF p = x THEN r ELSE U[p]
  BY <1>3, <1>4, <1>5, <1>6
<1>9. V = [U EXCEPT ![x] = r]
  BY <1>6, <1>7, <1>8
<1>10. Over(U, e) = [U EXCEPT ![x] = r]
  BY <1>5 DEF Over
<1> QED BY <1>5, <1>9, <1>10

\* What is written after d keeps the magic number at the start.
Flows(d, w) == w \in Seq(Item) /\ \A i \in 1 .. Len(w) : w[i] = Magic => i = 1 /\ d = << >>

LEMMA ItemFacts ==
    /\ \A e \in Entry : e # Magic /\ e # Stub /\ e \in Item
    /\ Magic \in Item /\ Stub \in Item /\ Stub # Magic
    /\ \A e \in Item : e.kind \in {"member", "cut"} => e \in Entry
    /\ \A e \in Item : e \in Entry \/ e = Magic \/ e = Stub
    /\ \A e \in Entry : [e EXCEPT !.kind = "cut"] \in Entry /\ e.kind \in {"member", "cut"}
<1>1. Magic.kind = "magic" /\ Stub.kind = "stub"
  BY DEF Magic, Stub
<1>2. \A e \in Entry : e.kind \in {"member", "cut"}
  BY DEF Entry
<1>3. \A e \in Entry : [e EXCEPT !.kind = "cut"] \in Entry
  BY DEF Entry
<1>4. \A e : e \in Item <=> e \in Entry \/ e = Magic \/ e = Stub
  BY DEF Item
<1> QED BY <1>1, <1>2, <1>3, <1>4

LEMMA StoreConcat ==
    ASSUME NEW d, Store(d), NEW w, Flows(d, w)
    PROVE  Store(d \o w) /\ d \o w \in Seq(Item)
<1>1. d \in Seq(Item) /\ w \in Seq(Item) /\ \A i \in 2 .. Len(d) : d[i] # Magic
  BY DEF Store, Flows, Item
<1>2. PICK c : c = d \o w
  OBVIOUS
<1>3. /\ c \in Seq(Item) /\ Len(c) = Len(d) + Len(w) /\ Len(d) \in Nat /\ Len(w) \in Nat
      /\ \A i \in 1 .. Len(d) + Len(w) : c[i] = IF i <= Len(d) THEN d[i] ELSE w[i - Len(d)]
  BY <1>1, <1>2, ConcatProperties, LenProperties
<1>4. ASSUME NEW i \in 2 .. Len(c) PROVE c[i] # Magic
  <2>1. CASE i <= Len(d)
    BY <1>1, <1>3, <2>1
  <2>2. CASE ~(i <= Len(d))
    <3>1. i - Len(d) \in 1 .. Len(w) /\ c[i] = w[i - Len(d)]
      BY <1>3, <2>2
    <3>2. d = << >> => Len(d) = 0
      OBVIOUS
    <3>3. i - Len(d) = 1 => d # << >>
      BY <3>2
    <3> QED BY <3>1, <3>3 DEF Flows
  <2> QED BY <2>1, <2>2
<1>5. Item = Entry \cup {Magic, Stub}
  BY DEF Item
<1>6. Store(c)
  BY <1>3, <1>4, <1>5 DEF Store
<1> QED BY <1>2, <1>3, <1>6

LEMMA FlowsPart ==
    ASSUME NEW d, NEW w, Flows(d, w), NEW k \in 0 .. Len(w)
    PROVE  /\ Flows(d, SubSeq(w, 1, k))
           /\ \A e \in Item \ {Magic} : Flows(d, SubSeq(w, 1, k) \o <<e>>)
<1>1. w \in Seq(Item) /\ Len(w) \in Nat /\ k \in Nat /\ \A i \in 1 .. Len(w) : w[i] \in Item
  BY LenProperties, ElementOfSeq DEF Flows
<1>2. PICK a, o : a = SubSeq(w, o, k) /\ o = 1
  OBVIOUS
<1>3. a \in Seq(Item) /\ Len(a) = k /\ \A i \in 1 .. k : a[i] = w[i]
  <2>1. o \in Int /\ k \in Int /\ \A i \in o .. k : w[i] \in Item
    BY <1>1, <1>2
  <2>2. /\ a \in Seq(Item) /\ Len(a) = IF o <= k THEN k - o + 1 ELSE 0
        /\ \A i \in 1 .. k - o + 1 : a[i] = w[o + i - 1]
    BY <1>2, <2>1, SubSeqProperties
  <2> QED BY <1>1, <1>2, <2>2
<1>4. Flows(d, a)
  BY <1>1, <1>3 DEF Flows
<1>5. ASSUME NEW e \in Item \ {Magic} PROVE Flows(d, a \o <<e>>)
  <2>1. PICK c, b : c = a \o b /\ b = <<e>>
    OBVIOUS
  <2>2. b \in Seq(Item) /\ Len(b) = 1 /\ b[1] = e
    BY <2>1
  <2>3. c \in Seq(Item) /\ Len(c) = k + 1 /\ \A i \in 1 .. k + 1 : c[i] = IF i <= k THEN a[i] ELSE b[i - k]
    BY <1>3, <2>1, <2>2, ConcatProperties
  <2>4. ASSUME NEW i \in 1 .. Len(c), c[i] = Magic PROVE i = 1 /\ d = << >>
    <3>1. i <= k
      BY <1>1, <1>5, <2>2, <2>3, <2>4
    <3> QED BY <1>1, <1>4, <1>3, <2>3, <2>4, <3>1 DEF Flows
  <2> QED BY <2>1, <2>3, <2>4 DEF Flows
<1> QED BY <1>2, <1>4, <1>5

\* What a stopped write leaves is a store, and begins with what was there.
LEMMA PartialIs ==
    ASSUME NEW d, Store(d), NEW w, Flows(d, w), NEW x \in Partial(d, w)
    PROVE  Store(x) /\ \E v \in Seq(Item) : x = d \o v
<1>1. w \in Seq(Item) /\ Len(w) \in Nat /\ \A i \in 1 .. Len(w) : w[i] \in Item
  BY LenProperties, ElementOfSeq DEF Flows
<1>2. d \in Seq(Item)
  BY DEF Store, Item
<1>3. \E v : x = d \o v /\ Flows(d, v)
  <2>1. CASE \E k \in 0 .. Len(w) : x = d \o SubSeq(w, 1, k)
    BY <2>1, FlowsPart
  <2>2. ASSUME NEW k \in 1 .. Len(w), NEW e \in Item \ {Magic}, x = d \o SubSeq(w, 1, k - 1) \o <<e>>
        PROVE  \E v : x = d \o v /\ Flows(d, v)
    <3>1. PICK j : j = k - 1
      OBVIOUS
    <3>2. j \in 0 .. Len(w)
      BY <1>1, <3>1
    <3>3. PICK a, b : a = SubSeq(w, 1, j) /\ b = <<e>>
      OBVIOUS
    <3>4. Flows(d, a) /\ Flows(d, a \o b)
      BY <3>2, <3>3, FlowsPart
    <3>5. b \in Seq(Item) /\ a \in Seq(Item)
      BY <3>3, <3>4 DEF Flows
    <3>6. (d \o a) \o b = d \o (a \o b)
      BY <1>2, <3>5, ConcatAssociative
    <3> QED BY <2>2, <3>1, <3>3, <3>4, <3>6
  <2>3. CASE \E k \in 1 .. Len(w) : x = d \o SubSeq(w, 1, k - 1) \o <<Stub>>
    <3>1. Stub \in Item \ {Magic}
      BY ItemFacts
    <3> QED BY <2>2, <2>3, <3>1
  <2>4. CASE \E k \in {j \in 1 .. Len(w) : w[j].kind = "member"} :
                x = d \o SubSeq(w, 1, k - 1) \o <<[w[k] EXCEPT !.kind = "cut"]>>
    <3>1. PICK k \in 1 .. Len(w) : /\ w[k].kind = "member"
                                   /\ x = d \o SubSeq(w, 1, k - 1) \o <<[w[k] EXCEPT !.kind = "cut"]>>
      BY <2>4
    <3>2. PICK e : e = [w[k] EXCEPT !.kind = "cut"]
      OBVIOUS
    <3>3. w[k] \in Entry
      BY <1>1, <3>1, ItemFacts
    <3>4. e \in Item \ {Magic}
      BY <3>2, <3>3, ItemFacts
    <3> QED BY <2>2, <3>1, <3>2, <3>4
  <2> QED BY <2>1, <2>3, <2>4 DEF Partial
<1>4. PICK v : x = d \o v /\ Flows(d, v)
  BY <1>3
<1> QED BY <1>4, StoreConcat DEF Flows

LEMMA PrefixOfConcat ==
    ASSUME NEW d \in Seq(Item), NEW v \in Seq(Item)
    PROVE  IsPrefix(d, d \o v)
<1>1. PICK c, o, l : c = d \o v /\ o = 1 /\ l = Len(d)
  OBVIOUS
<1>2. /\ c \in Seq(Item) /\ Len(c) = Len(d) + Len(v) /\ Len(d) \in Nat /\ Len(v) \in Nat
      /\ \A i \in 1 .. Len(d) + Len(v) : c[i] = IF i <= Len(d) THEN d[i] ELSE v[i - Len(d)]
  BY <1>1, ConcatProperties, LenProperties
<1>3. o \in Int /\ l \in Int /\ \A i \in o .. l : d[i] \in Item /\ c[i] = d[i]
  BY <1>1, <1>2, ElementOfSeq
<1>4. SubSeq(d, o, l) = SubSeq(c, o, l)
  <2>1. PICK a, b : a = SubSeq(d, o, l) /\ b = SubSeq(c, o, l)
    OBVIOUS
  <2>2. /\ a \in Seq(Item) /\ Len(a) = IF o <= l THEN l - o + 1 ELSE 0
        /\ \A i \in 1 .. l - o + 1 : a[i] = d[o + i - 1]
    BY <1>3, <2>1, SubSeqProperties
  <2>3. /\ b \in Seq(Item) /\ Len(b) = IF o <= l THEN l - o + 1 ELSE 0
        /\ \A i \in 1 .. l - o + 1 : b[i] = c[o + i - 1]
    BY <1>3, <2>1, SubSeqProperties
  <2>4. \A i \in 1 .. Len(a) : a[i] = b[i]
    BY <1>1, <1>2, <1>3, <2>2, <2>3
  <2> QED BY <2>1, <2>2, <2>3, <2>4, SeqEqual
<1> QED BY <1>1, <1>2, <1>4 DEF IsPrefix

-----------------------------------------------------------------------------
(* What the command line, the operands and a sane archive are.             *)

Args == 1 .. Len(cmd.argv)

LEMMA CommandFacts ==
    ASSUME cmd \in Commands
    PROVE  /\ cmd.key \in {"r", "m", "d", "t", "p", "x", "q"}
           /\ cmd.u \in BOOLEAN /\ cmd.b \in BOOLEAN /\ cmd.l \in BOOLEAN
           /\ cmd.argv \in Seq(Paths) /\ Len(cmd.argv) \in Nat /\ DOMAIN cmd.argv = Args
           /\ \A i \in Args : cmd.argv[i] \in Paths /\ cmd.argv[i] # NULL
           /\ DOMAIN ArgNames = Args /\ DOMAIN ArgMembers = Args
           /\ \A i \in Args : ArgNames[i] = canonical(cmd.argv[i])
<1>1. /\ cmd.key \in {"r", "m", "d", "t", "p", "x", "q"}
      /\ cmd.u \in BOOLEAN /\ cmd.b \in BOOLEAN /\ cmd.l \in BOOLEAN
      /\ cmd.argv \in Seq(Paths)
  BY CommandAssumption
<1>2. PICK a : a = cmd.argv
  OBVIOUS
<1>3. a \in Seq(Paths)
  BY <1>1, <1>2
<1>4. Len(a) \in Nat /\ DOMAIN a = 1 .. Len(a) /\ \A i \in 1 .. Len(a) : a[i] \in Paths
  BY <1>3, LenProperties, ElementOfSeq
<1>5. DOMAIN ArgNames = DOMAIN a /\ DOMAIN ArgMembers = DOMAIN a
  BY <1>2 DEF ArgNames, ArgMembers
<1>6. \A i \in DOMAIN a : ArgNames[i] = canonical(cmd.argv[i])
  BY <1>2 DEF ArgNames
<1>7. NULL \notin Paths
  BY CommandAssumption
<1> QED BY <1>1, <1>2, <1>4, <1>5, <1>6, <1>7 DEF Args

\* What archive() makes of a file.
LEMMA FileFacts ==
    ASSUME TypeOK, NEW p \in Paths
    PROVE  /\ files[p] \in {NoFile} \cup File
           /\ files[p] # NoFile => archive(p) \in Entry /\ archive(p).kind = "member" /\ archive(p).name = canonical(p)
<1>1. files[p] \in {NoFile} \cup File
  BY DEF TypeOK
<1>2. canonical(p) \in Names
  BY DirectoryAssumption
<1>3. ASSUME files[p] \in File PROVE archive(p) \in Entry
  <2>1. PICK f, c : f = files[p] /\ c = canonical(p)
    OBVIOUS
  <2>2. f.date \in Nat /\ f.data \in Contents
    BY <1>3, <2>1 DEF File
  <2>3. [kind |-> "member", name |-> c, date |-> f.date, data |-> f.data] \in Entry
    BY <1>2, <2>1, <2>2 DEF Entry
  <2> QED BY <2>1, <2>3 DEF archive
<1>4. archive(p).kind = "member" /\ archive(p).name = canonical(p)
  BY DEF archive
<1> QED BY <1>1, <1>3, <1>4

\* The operand's member, which archive() gives while the directory is as it was.
LEMMA ArgFacts ==
    ASSUME TypeOK, NEW i \in Args
    PROVE  /\ old.files[cmd.argv[i]] # NoFile => ArgMembers[i] \in Entry
           /\ files = old.files /\ files[cmd.argv[i]] # NoFile => archive(cmd.argv[i]) = ArgMembers[i]
<1>0. cmd \in Commands
  BY DEF TypeOK
<1>1. cmd.argv[i] \in Paths /\ DOMAIN cmd.argv = Args /\ ArgNames[i] = canonical(cmd.argv[i])
  BY <1>0, CommandFacts
<1>2. PICK p : p = cmd.argv[i]
  OBVIOUS
<1>3. p \in Paths /\ canonical(p) \in Names
  BY <1>1, <1>2, DirectoryAssumption
<1>4. PICK f : f = old.files[p]
  OBVIOUS
<1>5. f \in {NoFile} \cup File
  BY <1>3, <1>4 DEF TypeOK, OldType
<1>6. f # NoFile => ArgMembers[i] = [kind |-> "member", name |-> canonical(p), date |-> f.date, data |-> f.data]
  BY <1>1, <1>2, <1>4 DEF ArgMembers
<1>7. f # NoFile => ArgMembers[i] \in Entry
  <2>1. f # NoFile => f.date \in Nat /\ f.data \in Contents
    BY <1>5 DEF File
  <2>2. PICK c : c = canonical(p)
    OBVIOUS
  <2>3. f # NoFile => [kind |-> "member", name |-> c, date |-> f.date, data |-> f.data] \in Entry
    BY <1>3, <2>1, <2>2 DEF Entry
  <2> QED BY <1>6, <2>2, <2>3
<1>8. files = old.files /\ files[p] # NoFile => archive(p) = ArgMembers[i]
  BY <1>4, <1>6 DEF archive
<1> QED BY <1>2, <1>4, <1>7, <1>8

LEMMA SaneFacts ==
    ASSUME TypeOK, Sane
    PROVE  /\ Mem \in Seq(Entry) /\ Len(Mem) \in Nat /\ DOMAIN Mem = 1 .. Len(Mem)
           /\ \A i \in 1 .. Len(Mem) : Mem[i] \in Entry /\ Mem[i].kind = "member"
           /\ Base \in Seq(Item) /\ Len(Base) = Len(Mem) + 1 /\ Base[1] = Magic
           /\ \A i \in 1 .. Len(Mem) : Base[i + 1] = Mem[i]
           /\ Base = <<Magic>> \o Mem
           /\ cmd.key \in {"r", "q"} => \A i \in Args : ArgMembers[i] \in Entry /\ old.files[cmd.argv[i]] # NoFile
<1>1. PICK f : f = old.arfile
  OBVIOUS
<1>2. f = NoFile \/ Store(f)
  BY <1>1 DEF TypeOK, OldType
<1>3. f = NoFile \/ (f # <<>> /\ f[1] = Magic /\ \A i \in 2 .. Len(f) : f[i].kind = "member")
  BY <1>1 DEF Sane, Whole
<1>4. PICK B, w, s : B = Base /\ w = Mem /\ s = <<Magic>>
  OBVIOUS
<1>5. s \in Seq(Item) /\ Len(s) = 1 /\ s[1] = Magic
  <2>1. Magic \in Item
    BY ItemFacts
  <2> QED BY <1>4, <2>1
<1>6. /\ w \in Seq(Entry) /\ B \in Seq(Item) /\ Len(B) = Len(w) + 1 /\ B[1] = Magic
      /\ \A i \in 1 .. Len(w) : B[i + 1] = w[i] /\ w[i].kind = "member"
  <2>1. CASE f = NoFile
    <3>1. B = s /\ w = <<>>
      BY <1>1, <1>4, <2>1 DEF Base, Mem, Members
    <3>2. <<>> \in Seq(Entry) /\ Len(<<>>) = 0
      OBVIOUS
    <3> QED BY <1>5, <3>1, <3>2
  <2>2. CASE f # NoFile
    <3>1. B = f /\ w = Tail(f)
      BY <1>1, <1>4, <2>2 DEF Base, Mem, Members
    <3>2. f \in Seq(Item) /\ f # <<>> /\ Len(f) \in Nat
      BY <1>2, <1>3, <2>2, LenProperties DEF Store, Item
    <3>3. w \in Seq(Item) /\ Len(w) = Len(f) - 1 /\ Len(w) \in Nat /\ \A i \in 1 .. Len(w) : w[i] = f[i + 1]
      BY <3>1, <3>2, HeadTailProperties, LenProperties
    <3>4. \A i \in 1 .. Len(w) : w[i] \in Item /\ w[i].kind = "member"
      BY <1>3, <2>2, <3>2, <3>3, ElementOfSeq
    <3>5. \A i \in 1 .. Len(w) : w[i] \in Entry
      BY <3>4, ItemFacts
    <3>6. w \in Seq(Entry)
      <4>1. DOMAIN w = 1 .. Len(w) /\ w \in [1 .. Len(w) -> Item]
        BY <3>3, LenProperties
      <4>2. w \in [1 .. Len(w) -> Entry]
        BY <3>5, <4>1
      <4> QED BY <3>3, <4>2
    <3> QED BY <1>3, <2>2, <3>1, <3>2, <3>3, <3>4, <3>6
  <2> QED BY <2>1, <2>2
<1>7. Len(w) \in Nat /\ DOMAIN w = 1 .. Len(w) /\ \A i \in 1 .. Len(w) : w[i] \in Entry
  BY <1>6, LenProperties, ElementOfSeq
<1>8. B = s \o w
  <2>1. w \in Seq(Item)
    <3>1. Entry \subseteq Item
      BY ItemFacts
    <3> QED BY <1>6, <3>1, SeqMonotonic
  <2>2. PICK c : c = s \o w
    OBVIOUS
  <2>3. /\ c \in Seq(Item) /\ Len(c) = 1 + Len(w)
        /\ \A i \in 1 .. 1 + Len(w) : c[i] = IF i <= 1 THEN s[i] ELSE w[i - 1]
    <3>1. /\ s \o w \in Seq(Item) /\ Len(s \o w) = Len(s) + Len(w)
          /\ \A i \in 1 .. Len(s) + Len(w) : (s \o w)[i] = IF i <= Len(s) THEN s[i] ELSE w[i - Len(s)]
      BY <1>5, <2>1, ConcatProperties, Zenon
    <3> QED BY <1>5, <2>2, <3>1
  <2>4. \A i \in 1 .. Len(B) : B[i] = c[i]
    <3> SUFFICES ASSUME NEW i \in 1 .. Len(B) PROVE B[i] = c[i]
      OBVIOUS
    <3>1. CASE i = 1
      BY <1>5, <1>6, <1>7, <2>3, <3>1
    <3>2. CASE i # 1
      <4>1. i - 1 \in 1 .. Len(w) /\ (i - 1) + 1 = i
        BY <1>6, <1>7, <3>2
      <4>2. B[i] = w[i - 1]
        BY <1>6, <4>1
      <4>3. c[i] = w[i - 1]
        BY <1>6, <1>7, <2>3, <3>2
      <4> QED BY <4>2, <4>3
    <3> QED BY <3>1, <3>2
  <2>5. B = c
    BY <1>6, <1>7, <2>3, <2>4, SeqEqual
  <2> QED BY <2>2, <2>5
<1>9. cmd.key \in {"r", "q"} => \A i \in Args : ArgMembers[i] \in Entry /\ old.files[cmd.argv[i]] # NoFile
  <2>1. cmd \in Commands
    BY DEF TypeOK
  <2>2. DOMAIN cmd.argv = Args
    BY <2>1, CommandFacts
  <2> QED BY <2>2, ArgFacts DEF Sane
<1> QED BY <1>4, <1>6, <1>7, <1>8, <1>9

-----------------------------------------------------------------------------
(* One turn of run(): which operand names the member.                      *)

LEMMA UsedGrows ==
    ASSUME NEW k \in Nat
    PROVE  UsedBy(k + 1) = UsedBy(k) \cup {i \in DOMAIN ArgNames : <<k + 1, i>> \in Pairs(Mem, ArgNames)}
<1>1. 1 .. k + 1 = (1 .. k) \cup {k + 1}
  OBVIOUS
<1> DEFINE P == Pairs(Mem, ArgNames)
           D == DOMAIN ArgNames
<1>2. UsedBy(k + 1) = {j \in D : \E p \in 1 .. k + 1 : <<p, j>> \in P} /\ UsedBy(k) = {j \in D : \E p \in 1 .. k : <<p, j>> \in P}
  BY DEF UsedBy
<1> HIDE DEF P, D
<1>3. UsedBy(k + 1) = UsedBy(k) \cup {i \in D : <<k + 1, i>> \in P}
  BY <1>1, <1>2
<1> QED BY <1>3 DEF P, D

LEMMA UsedEnds ==
    ASSUME TypeOK, Sane
    PROVE  UsedBy(0) = {} /\ UsedBy(Len(Mem)) = Used(Mem, ArgNames)
<1>1. DOMAIN Mem = 1 .. Len(Mem) /\ Len(Mem) \in Nat
  BY SaneFacts
<1>2. UsedBy(0) = {}
  BY DEF UsedBy
<1>3. \A x : x \in UsedBy(Len(Mem)) <=> x \in DOMAIN ArgNames /\ \E p \in DOMAIN Mem : <<p, x>> \in Pairs(Mem, ArgNames)
  BY <1>1 DEF UsedBy
<1>4. \A x : x \in Used(Mem, ArgNames) <=> \E p \in DOMAIN Mem : <<p, x>> \in Pairs(Mem, ArgNames)
  BY HitIs
<1>5. \A x : x \in Used(Mem, ArgNames) => x \in DOMAIN ArgNames
  BY HitIs
<1> QED BY <1>2, <1>3, <1>4, <1>5

LEMMA Look ==
    ASSUME TypeOK, Sane, NEW k \in 0 .. Len(Mem) - 1, argv = Crossed(UsedBy(k)),
           NEW x, x = Mem[k + 1].name
    PROVE  /\ Named(x) = {} => k + 1 \notin HitSet /\ UsedBy(k + 1) = UsedBy(k)
           /\ Named(x) # {} =>
                 /\ k + 1 \in HitSet
                 /\ inlist(x) = Partner(Mem, ArgNames, k + 1)
                 /\ inlist(x) \in Args /\ argv[inlist(x)] = cmd.argv[inlist(x)]
                 /\ [argv EXCEPT ![inlist(x)] = NULL] = Crossed(UsedBy(k + 1))
<1>0. cmd \in Commands
  BY DEF TypeOK
<1>1. /\ Len(cmd.argv) \in Nat /\ DOMAIN cmd.argv = Args /\ DOMAIN ArgNames = Args
      /\ \A i \in Args : cmd.argv[i] # NULL /\ ArgNames[i] = canonical(cmd.argv[i])
  BY <1>0, CommandFacts
<1>2. Len(Mem) \in Nat /\ DOMAIN Mem = 1 .. Len(Mem)
  BY SaneFacts
<1>3. k \in Nat /\ k + 1 \in 1 .. Len(Mem)
  BY <1>2
<1>4. PICK N, A, L : N = Named(x) /\ A = Len(cmd.argv) /\ L = Len(Mem)
  OBVIOUS
<1>5. DOMAIN argv = Args /\ \A i \in Args : argv[i] = IF i \in UsedBy(k) THEN NULL ELSE cmd.argv[i]
  BY <1>1 DEF Crossed
<1>6. \A i \in Args : i \in UsedBy(k) <=> \E p \in 1 .. k : <<p, i>> \in Pairs(Mem, ArgNames)
  BY <1>1 DEF UsedBy
<1>7. N = {i \in 1 .. A : ArgNames[i] = Mem[k + 1].name /\ ~\E p \in 1 .. k : <<p, i>> \in Pairs(Mem, ArgNames)}
  <2>1. N = {i \in Args : argv[i] # NULL /\ canonical(argv[i]) = x}
    BY <1>4, <1>5 DEF Named
  <2>2. \A i \in Args : (argv[i] # NULL /\ canonical(argv[i]) = x) <=>
            (ArgNames[i] = Mem[k + 1].name /\ ~\E p \in 1 .. k : <<p, i>> \in Pairs(Mem, ArgNames))
    BY <1>1, <1>5, <1>6
  <2>3. Args = 1 .. A
    BY <1>4 DEF Args
  <2> QED BY <2>1, <2>2, <2>3
<1>8. \A i : <<k + 1, i>> \in Pairs(Mem, ArgNames) <=> i \in N /\ \A j \in N : i <= j
  <2>1. L \in Nat /\ DOMAIN Mem = 1 .. L /\ A \in Nat /\ DOMAIN ArgNames = 1 .. A /\ k \in 0 .. L - 1
    BY <1>1, <1>2, <1>4 DEF Args
  <2>2. PICK w, a : w = Mem /\ a = ArgNames
    OBVIOUS
  <2>3. L \in Nat /\ DOMAIN w = 1 .. L /\ A \in Nat /\ DOMAIN a = 1 .. A /\ k \in 0 .. L - 1
    BY <2>1, <2>2
  <2>4. N = Free(w, a, k)
    BY <1>7, <2>2, <2>3 DEF Free
  <2> SUFFICES ASSUME NEW i PROVE <<k + 1, i>> \in Pairs(w, a) <=> i \in N /\ \A j \in N : i <= j
    BY <2>2
  <2>5. <<k + 1, i>> \in Pairs(w, a) <=> i \in Free(w, a, k) /\ \A j \in Free(w, a, k) : i <= j
    BY <2>3, NextOperand, Zenon
  <2> QED BY <2>4, <2>5
<1>9. N \subseteq Nat /\ N \subseteq Args
  BY <1>4, <1>7 DEF Args
<1>10. ASSUME N = {} PROVE k + 1 \notin HitSet /\ UsedBy(k + 1) = UsedBy(k)
  <2>1. \A i : <<k + 1, i>> \notin Pairs(Mem, ArgNames)
    BY <1>8, <1>10
  <2>2. k + 1 \notin HitSet
    BY <2>1, HitIs DEF HitSet
  <2>3. UsedBy(k + 1) = UsedBy(k)
    BY <1>3, <2>1, UsedGrows
  <2> QED BY <2>2, <2>3
<1>11. ASSUME N # {}
       PROVE  /\ k + 1 \in HitSet
              /\ inlist(x) = Partner(Mem, ArgNames, k + 1)
              /\ inlist(x) \in Args /\ argv[inlist(x)] = cmd.argv[inlist(x)]
              /\ [argv EXCEPT ![inlist(x)] = NULL] = Crossed(UsedBy(k + 1))
  <2>1. PICK j : j = inlist(x)
    OBVIOUS
  <2>2. j = CHOOSE i \in N : \A y \in N : i <= y
    BY <1>4, <2>1 DEF inlist
  <2>3. \E i \in N : \A y \in N : i <= y
    BY <1>9, <1>11, Least
  <2>4. j \in N /\ \A y \in N : j <= y
    BY <2>2, <2>3
  <2>5. <<k + 1, j>> \in Pairs(Mem, ArgNames) /\ j \in Args
    BY <1>8, <1>9, <2>4
  <2>6. \A i : <<k + 1, i>> \in Pairs(Mem, ArgNames) => i = j
    <3> SUFFICES ASSUME NEW i, <<k + 1, i>> \in Pairs(Mem, ArgNames) PROVE i = j
      OBVIOUS
    <3>1. i \in N /\ i <= j /\ j <= i
      BY <1>8, <2>4
    <3> QED BY <1>9, <2>4, <3>1
  <2>7. k + 1 \in HitSet
    BY <1>1, <2>5, HitIs DEF HitSet
  <2>8. Partner(Mem, ArgNames, k + 1) = j
    BY <1>1, <2>5, <2>6 DEF Partner
  <2>9. j \notin UsedBy(k)
    <3>1. ~\E p \in 1 .. k : <<p, j>> \in Pairs(Mem, ArgNames)
      BY <1>7, <2>4
    <3> QED BY <1>6, <2>5, <3>1
  <2>10. argv[j] = cmd.argv[j]
    BY <1>5, <2>5, <2>9
  <2>11. UsedBy(k + 1) = UsedBy(k) \cup {j}
    <3>1. {i \in DOMAIN ArgNames : <<k + 1, i>> \in Pairs(Mem, ArgNames)} = {j}
      BY <1>1, <2>5, <2>6
    <3> QED BY <1>3, <3>1, UsedGrows
  <2>12. [argv EXCEPT ![j] = NULL] = Crossed(UsedBy(k + 1))
    <3>1. argv = [i \in Args |-> IF i \in UsedBy(k) THEN NULL ELSE cmd.argv[i]]
      BY <1>1 DEF Crossed
    <3>2. Crossed(UsedBy(k + 1)) = [i \in Args |-> IF i \in UsedBy(k) \cup {j} THEN NULL ELSE cmd.argv[i]]
      BY <1>1, <2>11 DEF Crossed
    <3> QED BY <2>5, <3>1, <3>2
  <2> QED BY <2>1, <2>5, <2>7, <2>8, <2>10, <2>12
<1> QED BY <1>4, <1>10, <1>11

-----------------------------------------------------------------------------
(* The lists in BEFORE and AFTER, member by member.                        *)

\* With -a there is only one member called posname.
LEMMA OnePlace ==
    ASSUME TypeOK, Sane, NEW x \in 1 .. Len(Mem), NEW y \in 1 .. Len(Mem), x # y,
           Mem[x].name = cmd.pos, Mem[y].name = cmd.pos
    PROVE  cmd.b
<1> DEFINE I == {i \in DOMAIN Mem : Mem[i].name = cmd.pos}
<1>1. Len(Mem) \in Nat /\ DOMAIN Mem = 1 .. Len(Mem)
  BY SaneFacts
<1>2. x \in I /\ y \in I /\ I \subseteq 1 .. Len(Mem)
  BY <1>1
<1>3. cmd.b \/ Cardinality(I) < 2
  BY DEF Sane, Mem
<1> HIDE DEF I
<1>4. PICK m : m = Len(Mem)
  OBVIOUS
<1>5. ~(Cardinality(I) < 2)
  BY <1>1, <1>2, <1>4, TwoPositions
<1> QED BY <1>3, <1>5

\* The list r leaves.
LEMMA NewList ==
    ASSUME TypeOK, Sane, cmd.key = "r", NEW R, R = Renewed(Mem, ArgNames, ArgMembers, cmd.u)
    PROVE  /\ R \in Seq(Entry) /\ Len(R) = Len(Mem)
           /\ \A i \in 1 .. Len(Mem) :
                 R[i] = (IF i \in StaleSet THEN ArgMembers[Partner(Mem, ArgNames, i)] ELSE Mem[i])
<1>0. cmd \in Commands
  BY DEF TypeOK
<1>1. PICK A, S, w, a, g, u : A = Len(cmd.argv) /\ S = Entry /\ w = Mem /\ a = ArgNames /\ g = ArgMembers /\ u = cmd.u
  OBVIOUS
<1>2. A \in Nat
  BY <1>0, <1>1, CommandFacts
<1>5. DOMAIN a = 1 .. A
  BY <1>0, <1>1, CommandFacts DEF Args
<1>3. w \in Seq(S)
  BY <1>1, SaneFacts
<1>6. \A i \in 1 .. A : g[i] \in S
  BY <1>1, SaneFacts DEF Args
<1>4. /\ Renewed(w, a, g, u) \in Seq(S)
      /\ Len(Renewed(w, a, g, u)) = Len(w)
      /\ \A i \in 1 .. Len(w) : Renewed(w, a, g, u)[i] =
            IF i \in Stale(w, a, g, u) THEN g[Partner(w, a, i)] ELSE w[i]
  BY <1>2, <1>3, <1>5, <1>6, RenewedIs
<1> QED BY <1>1, <1>4 DEF StaleSet

LEMMA StayFacts ==
    ASSUME TypeOK, Sane, Editing, NEW k \in 0 .. Len(Mem)
    PROVE  /\ Stay(k) \in Seq(Entry) /\ Len(Stay(k)) \in Nat
           /\ cmd.key = "r" => Len(Stay(k)) = k
           /\ Mark(k) \in 0 .. Len(Stay(k))
<1>1. Len(Mem) \in Nat /\ Mem \in Seq(Entry) /\ k \in Nat /\ \A i \in 1 .. Len(Mem) : Mem[i] \in Entry
  BY SaneFacts
<1>2. CASE cmd.key = "r"
  <2>1. PICK R : R = Renewed(Mem, ArgNames, ArgMembers, cmd.u)
    OBVIOUS
  <2>2. R \in Seq(Entry) /\ Len(R) = Len(Mem)
    BY <1>2, <2>1, NewList
  <2>3. PICK o : o = 1
    OBVIOUS
  <2>4. o \in Int /\ k \in Int /\ \A i \in o .. k : R[i] \in Entry
    BY <1>1, <2>2, <2>3, ElementOfSeq
  <2>5. SubSeq(R, o, k) \in Seq(Entry) /\ Len(SubSeq(R, o, k)) = IF o <= k THEN k - o + 1 ELSE 0
    BY <2>4, SubSeqProperties
  <2>6. Stay(k) = SubSeq(R, o, k)
    BY <1>2, <2>1, <2>3 DEF Stay
  <2>7. Stay(k) \in Seq(Entry) /\ Len(Stay(k)) = k
    BY <1>1, <2>3, <2>5, <2>6
  <2>8. Mark(k) \in 0 .. k
    <3>1. Mark(k) = Anchor(Mem, (1 .. k) \ StaleSet, cmd.pos)
      BY <1>2 DEF Mark
    <3>2. PICK I : I = (1 .. k) \ StaleSet
      OBVIOUS
    <3>3. I \subseteq 1 .. k
      BY <3>2
    <3>4. Anchor(Mem, I, cmd.pos) \in 0 .. k
      BY <1>1, <3>3, AnchorIs
    <3> QED BY <3>1, <3>2, <3>4
  <2> QED BY <1>1, <2>7, <2>8
<1>3. CASE cmd.key # "r"
  <2>1. PICK I, s : I = (1 .. k) \ HitSet /\ s = Stay(k)
    OBVIOUS
  <2>2. I \subseteq 1 .. k /\ \A i \in I : Mem[i] \in Entry
    BY <1>1, <2>1
  <2>3. At(Mem, I) \in Seq(Entry)
    BY <1>1, <2>2, AtSeq
  <2>4. s \in Seq(Entry)
    BY <1>3, <2>1, <2>3 DEF Stay
  <2>5. Len(s) \in Nat /\ DOMAIN s = 1 .. Len(s)
    BY <2>4, LenProperties
  <2>6. Mark(k) \in 0 .. Len(s)
    <3>1. CASE cmd.key = "m"
      <4>1. Mark(k) = Anchor(s, DOMAIN s, cmd.pos)
        BY <2>1, <3>1 DEF Mark
      <4>2. PICK J, l : J = DOMAIN s /\ l = Len(s)
        OBVIOUS
      <4>3. l \in Nat /\ J \subseteq 1 .. l
        BY <2>5, <4>2
      <4>4. Anchor(s, J, cmd.pos) \in 0 .. l
        BY <4>3, AnchorIs
      <4> QED BY <4>1, <4>2, <4>4
    <3>2. CASE cmd.key # "m"
      BY <1>3, <2>5, <3>2 DEF Mark
    <3> QED BY <3>1, <3>2
  <2> QED BY <1>3, <2>1, <2>4, <2>5, <2>6
<1> QED BY <1>2, <1>3

\* A member that stays.
LEMMA StayPlace ==
    ASSUME TypeOK, Sane, Editing, NEW k \in 0 .. Len(Mem) - 1,
           k + 1 \notin (IF cmd.key = "r" THEN StaleSet ELSE HitSet)
    PROVE  /\ Stay(k + 1) = Append(Stay(k), Mem[k + 1])
           /\ cmd.key # "d" => Mark(k + 1) = IF Mark(k) # 0 THEN Mark(k)
                                             ELSE IF Mem[k + 1].name = cmd.pos THEN Len(Stay(k)) + 1 ELSE 0
           /\ cmd.key = "d" => Mark(k) = 0 /\ Mark(k + 1) = 0
           /\ Mark(k) # 0 /\ Mem[k + 1].name = cmd.pos => cmd.b
<1>1. Len(Mem) \in Nat /\ Mem \in Seq(Entry) /\ \A i \in 1 .. Len(Mem) : Mem[i] \in Entry
  BY SaneFacts
<1>2. k \in Nat /\ k \in 0 .. Len(Mem) /\ k + 1 \in 1 .. Len(Mem)
  BY <1>1
<1>3. CASE cmd.key = "r"
  <2>1. PICK R : R = Renewed(Mem, ArgNames, ArgMembers, cmd.u)
    OBVIOUS
  <2>2. /\ R \in Seq(Entry) /\ Len(R) = Len(Mem)
        /\ R[k + 1] = Mem[k + 1] /\ \A i \in 1 .. k + 1 : R[i] \in Entry
    <3>1. /\ R \in Seq(Entry) /\ Len(R) = Len(Mem)
          /\ \A i \in 1 .. Len(Mem) :
                 R[i] = (IF i \in StaleSet THEN ArgMembers[Partner(Mem, ArgNames, i)] ELSE Mem[i])
      BY <1>3, <2>1, NewList
    <3>2. \A i \in 1 .. k + 1 : R[i] \in Entry
      <4>1. \A i \in 1 .. k + 1 : i \in 1 .. Len(R)
        BY <1>1, <1>2, <3>1
      <4> QED BY <3>1, <4>1, ElementOfSeq
    <3> QED BY <1>2, <1>3, <3>1, <3>2
  <2>3. SubSeq(R, 1, k + 1) = Append(SubSeq(R, 1, k), R[k + 1])
    BY <1>2, <2>2, SubExtend
  <2>4. Stay(k + 1) = SubSeq(R, 1, k + 1) /\ Stay(k) = SubSeq(R, 1, k)
    BY <1>3, <2>1 DEF Stay
  <2>5. PICK I : I = (1 .. k) \ StaleSet
    OBVIOUS
  <2>6. (1 .. k + 1) \ StaleSet = I \cup {k + 1} /\ I \subseteq 1 .. k
    BY <1>2, <1>3, <2>5
  <2>7. PICK pos, a, b : pos = cmd.pos /\ a = Mark(k) /\ b = Mark(k + 1)
    OBVIOUS
  <2>8. a = Anchor(Mem, I, pos) /\ b = Anchor(Mem, I \cup {k + 1}, pos)
    BY <1>3, <2>5, <2>6, <2>7 DEF Mark
  <2>9. b = IF a # 0 THEN a ELSE IF Mem[k + 1].name = pos THEN k + 1 ELSE 0
    <3>1. /\ Anchor(Mem, I, pos) # 0 => Anchor(Mem, I \cup {k + 1}, pos) = Anchor(Mem, I, pos)
          /\ Anchor(Mem, I, pos) = 0 /\ Mem[k + 1].name = pos => Anchor(Mem, I \cup {k + 1}, pos) = k + 1
          /\ Anchor(Mem, I, pos) = 0 /\ Mem[k + 1].name # pos => Anchor(Mem, I \cup {k + 1}, pos) = 0
      <4>1. k \in Nat
        BY <1>2
      <4>2. I \subseteq 1 .. k
        BY <2>6
      <4> QED BY <4>1, <4>2, AnchorAdd, Zenon
    <3> QED BY <2>8, <3>1
  <2>10. Len(Stay(k)) = k
    BY <1>2, <1>3, StayFacts
  <2>11. ASSUME a # 0, Mem[k + 1].name = pos PROVE cmd.b
    <3>1. /\ Anchor(Mem, I, pos) \in 0 .. k
          /\ Anchor(Mem, I, pos) = 0 => \A i \in I : Mem[i].name # pos
          /\ Anchor(Mem, I, pos) # 0 =>
                 /\ Anchor(Mem, I, pos) \in I /\ Mem[Anchor(Mem, I, pos)].name = pos
                 /\ \A i \in I : Mem[i].name = pos => Anchor(Mem, I, pos) <= i
      <4>1. k \in Nat
        BY <1>2
      <4>2. I \subseteq 1 .. k
        BY <2>6
      <4> QED BY <4>1, <4>2, AnchorIs, Zenon
    <3>2. a \in I /\ Mem[a].name = pos
      BY <2>8, <2>11, <3>1
    <3>3. a \in 1 .. Len(Mem) /\ a # k + 1
      BY <1>1, <1>2, <2>6, <3>2
    <3> QED BY <1>2, <2>7, <2>11, <3>2, <3>3, OnePlace
  <2> QED BY <1>3, <2>2, <2>3, <2>4, <2>7, <2>9, <2>10, <2>11
<1>4. CASE cmd.key # "r"
  <2>1. PICK I, s : I = (1 .. k) \ HitSet /\ s = Stay(k)
    OBVIOUS
  <2>2. I \subseteq 1 .. k /\ (1 .. k + 1) \ HitSet = I \cup {k + 1}
    BY <1>2, <1>4, <2>1
  <2>3. s = At(Mem, I) /\ s \in Seq(Entry) /\ Len(s) \in Nat
    BY <1>2, <1>4, <2>1, StayFacts DEF Stay
  <2>4. PICK t, e : t = Stay(k + 1) /\ e = Mem[k + 1]
    OBVIOUS
  <2>5. t = Append(s, e) /\ e \in Entry
    <3>1. At(Mem, I) \in Seq(Entry) /\ Mem[k + 1] \in Entry
      BY <1>1, <1>2, <2>3
    <3>2. At(Mem, I \cup {k + 1}) = Append(At(Mem, I), Mem[k + 1])
      BY <1>2, <2>2, <3>1, AtAppend
    <3>3. t = At(Mem, I \cup {k + 1})
      BY <1>4, <2>2, <2>4 DEF Stay
    <3> QED BY <2>3, <2>4, <3>1, <3>2, <3>3
  <2>6. CASE cmd.key = "m"
    <3>1. PICK pos, l, a, b, J : pos = cmd.pos /\ l = Len(s) /\ a = Mark(k) /\ b = Mark(k + 1) /\ J = DOMAIN s
      OBVIOUS
    <3>2. J = 1 .. l /\ DOMAIN t = J \cup {l + 1} /\ (\A i \in J : t[i] = s[i]) /\ t[l + 1] = e
      <4>1. /\ t \in Seq(Entry) /\ Len(t) = Len(s) + 1
            /\ \A i \in 1 .. Len(s) : t[i] = s[i]
            /\ t[Len(s) + 1] = e
        BY <2>3, <2>5, AppendProperties
      <4>2. DOMAIN s = 1 .. Len(s) /\ DOMAIN t = 1 .. Len(t)
        BY <2>3, <4>1, LenProperties
      <4> QED BY <2>3, <3>1, <4>1, <4>2
    <3>3. a = Anchor(s, J, pos) /\ b = Anchor(t, J \cup {l + 1}, pos)
      BY <2>1, <2>4, <2>6, <3>1, <3>2 DEF Mark
    <3>4. l \in Nat
      BY <2>3, <3>1
    <3>9. J \subseteq 1 .. l
      BY <3>2
    <3>5. /\ Anchor(t, J, pos) # 0 => Anchor(t, J \cup {l + 1}, pos) = Anchor(t, J, pos)
          /\ Anchor(t, J, pos) = 0 /\ t[l + 1].name = pos => Anchor(t, J \cup {l + 1}, pos) = l + 1
          /\ Anchor(t, J, pos) = 0 /\ t[l + 1].name # pos => Anchor(t, J \cup {l + 1}, pos) = 0
      BY <3>4, <3>9, AnchorAdd, Zenon
    <3>6. Anchor(t, J, pos) = Anchor(s, J, pos)
      <4>1. \A i \in J : t[i].name = s[i].name
        BY <3>2
      <4> QED BY <4>1, AnchorSame
    <3>7. b = IF a # 0 THEN a ELSE IF e.name = pos THEN l + 1 ELSE 0
      BY <3>2, <3>3, <3>5, <3>6
    <3>8. ASSUME a # 0, e.name = pos PROVE cmd.b
      <4>1. /\ Anchor(s, J, pos) \in 0 .. l
            /\ Anchor(s, J, pos) = 0 => \A i \in J : s[i].name # pos
            /\ Anchor(s, J, pos) # 0 =>
                 /\ Anchor(s, J, pos) \in J /\ s[Anchor(s, J, pos)].name = pos
                 /\ \A i \in J : s[i].name = pos => Anchor(s, J, pos) <= i
        BY <3>4, <3>9, AnchorIs, Zenon
      <4>2. a \in J /\ s[a].name = pos
        BY <3>3, <3>8, <4>1
      <4>3. PICK i \in I : s[a] = Mem[i]
        <5>1. a \in DOMAIN At(Mem, I)
          BY <2>3, <3>1, <4>2
        <5>2. \E i \in I : At(Mem, I)[a] = Mem[i]
          BY <1>2, <2>2, <5>1, AtRange
        <5> QED BY <2>3, <5>2
      <4>4. i \in 1 .. Len(Mem) /\ i # k + 1
        BY <1>1, <1>2, <2>2
      <4> QED BY <1>2, <2>4, <3>1, <3>8, <4>2, <4>3, <4>4, OnePlace
    <3> QED BY <2>1, <2>4, <2>5, <2>6, <3>1, <3>7, <3>8
  <2>7. CASE cmd.key # "m"
    <3>1. cmd.key = "d"
      BY <1>4, <2>7 DEF Editing
    <3>2. Mark(k) = 0 /\ Mark(k + 1) = 0
      BY <3>1 DEF Mark
    <3> QED BY <2>1, <2>4, <2>5, <3>1, <3>2
  <2> QED BY <2>6, <2>7
<1> QED BY <1>3, <1>4

\* One that is replaced.
LEMMA StayReplaced ==
    ASSUME TypeOK, Sane, cmd.key = "r", NEW k \in 0 .. Len(Mem) - 1, k + 1 \in StaleSet
    PROVE  /\ Stay(k + 1) = Append(Stay(k), ArgMembers[Partner(Mem, ArgNames, k + 1)])
           /\ Mark(k + 1) = Mark(k)
<1>1. Len(Mem) \in Nat /\ Mem \in Seq(Entry) /\ \A i \in 1 .. Len(Mem) : Mem[i] \in Entry
  BY SaneFacts
<1>2. k \in Nat /\ k \in 0 .. Len(Mem) /\ k + 1 \in 1 .. Len(Mem)
  BY <1>1
<1>3. PICK R : R = Renewed(Mem, ArgNames, ArgMembers, cmd.u)
  OBVIOUS
<1>4. /\ R \in Seq(Entry) /\ Len(R) = Len(Mem)
      /\ \A i \in 1 .. Len(Mem) :
                 R[i] = (IF i \in StaleSet THEN ArgMembers[Partner(Mem, ArgNames, i)] ELSE Mem[i])
  BY <1>3, NewList
<1>5. \A i \in 1 .. k + 1 : R[i] \in Entry
  <2>1. \A i \in 1 .. k + 1 : i \in 1 .. Len(R)
    BY <1>1, <1>2, <1>4
  <2> QED BY <1>4, <2>1, ElementOfSeq
<1>6. SubSeq(R, 1, k + 1) = Append(SubSeq(R, 1, k), R[k + 1])
  BY <1>2, <1>5, SubExtend
<1>7. Stay(k + 1) = SubSeq(R, 1, k + 1) /\ Stay(k) = SubSeq(R, 1, k)
  BY <1>3 DEF Stay
<1>8. (1 .. k + 1) \ StaleSet = (1 .. k) \ StaleSet
  BY <1>2
<1>9. Mark(k + 1) = Mark(k)
  BY <1>8 DEF Mark
<1> QED BY <1>2, <1>4, <1>6, <1>7, <1>9

\* One that is moved or deleted.
LEMMA StayGone ==
    ASSUME Editing, cmd.key # "r", NEW k \in Nat, k + 1 \in HitSet
    PROVE  Stay(k + 1) = Stay(k) /\ Mark(k + 1) = Mark(k)
<1>1. (1 .. k + 1) \ HitSet = (1 .. k) \ HitSet
  OBVIOUS
<1>2. Stay(k + 1) = Stay(k)
  BY <1>1 DEF Stay
<1> QED BY <1>2 DEF Mark

\* The members the operands name, one after another.
LEMMA HitsGrow ==
    ASSUME TypeOK, Sane, NEW k \in 0 .. Len(Mem) - 1
    PROVE  /\ At(Mem, (1 .. k) \cap HitSet) \in Seq(Entry)
           /\ At(Mem, (1 .. k + 1) \cap HitSet) =
                 IF k + 1 \in HitSet THEN Append(At(Mem, (1 .. k) \cap HitSet), Mem[k + 1])
                 ELSE At(Mem, (1 .. k) \cap HitSet)
<1>1. Len(Mem) \in Nat /\ \A i \in 1 .. Len(Mem) : Mem[i] \in Entry
  BY SaneFacts
<1>2. k \in Nat /\ k + 1 \in 1 .. Len(Mem)
  BY <1>1
<1>3. PICK I : I = (1 .. k) \cap HitSet
  OBVIOUS
<1>4. I \subseteq 1 .. k /\ \A i \in I : Mem[i] \in Entry
  BY <1>1, <1>3
<1>5. At(Mem, I) \in Seq(Entry)
  BY <1>2, <1>4, AtSeq
<1>6. CASE k + 1 \in HitSet
  <2>1. (1 .. k + 1) \cap HitSet = I \cup {k + 1}
    BY <1>2, <1>3, <1>6
  <2>2. Mem[k + 1] \in Entry
    BY <1>1, <1>2
  <2>3. At(Mem, I \cup {k + 1}) = Append(At(Mem, I), Mem[k + 1])
    BY <1>2, <1>4, <1>5, <2>2, AtAppend
  <2> QED BY <1>3, <1>5, <1>6, <2>1, <2>3
<1>7. CASE k + 1 \notin HitSet
  <2>1. (1 .. k + 1) \cap HitSet = I
    BY <1>2, <1>3, <1>7
  <2> QED BY <1>3, <1>5, <1>7, <2>1
<1> QED BY <1>6, <1>7

-----------------------------------------------------------------------------
(* What a write to a temporary does.                                       *)

Temp == [items : Seq(Entry), err : BOOLEAN]

LEMMA PutIs ==
    ASSUME tmps \in [0 .. 2 -> Temp], faults \in Nat, NEW t \in 0 .. 2, NEW m \in Entry, Put(t, m)
    PROVE  /\ tmps' \in [0 .. 2 -> Temp] /\ faults' \in Nat /\ faults' >= faults
           /\ Clean' => /\ Clean
                        /\ tmps'[t].items = Append(tmps[t].items, m)
                        /\ \A x \in 0 .. 2 : x # t => tmps'[x] = tmps[x]
           /\ ~Clean' => ~Clean \/ faults' > faults
<1>1. PICK w, e : w = tmps[t] /\ e = [m EXCEPT !.kind = "cut"]
  OBVIOUS
<1>2. w.items \in Seq(Entry) /\ w.err \in BOOLEAN /\ w = [items |-> w.items, err |-> w.err] /\ w \in Temp
  BY <1>1 DEF Temp
<1>3. e \in Entry
  BY <1>1, ItemFacts
<1>4. Append(w.items, m) \in Seq(Entry) /\ Append(w.items, e) \in Seq(Entry)
  BY <1>2, <1>3, AppendProperties
<1>5. CASE tmps' = [tmps EXCEPT ![t].items = Append(@, m)] /\ faults' = faults
  <2>1. PICK a : a = Append(w.items, m)
    OBVIOUS
  <2>2. PICK v : v = [items |-> a, err |-> w.err]
    OBVIOUS
  <2>3. v \in Temp /\ v.items = a /\ v.err = w.err
    BY <1>2, <1>4, <2>1, <2>2 DEF Temp
  <2>4. [w EXCEPT !.items = a] = v
    BY <1>2, <2>2
  <2>5. tmps' = [tmps EXCEPT ![t] = v]
    BY <1>1, <1>5, <2>1, <2>4
  <2>6. tmps'[t] = v /\ \A x \in 0 .. 2 : x # t => tmps'[x] = tmps[x]
    BY <2>5
  <2>7. tmps' \in [0 .. 2 -> Temp]
    BY <2>3, <2>5
  <2>8. \A x \in 0 .. 2 : tmps'[x].err = tmps[x].err
    BY <1>1, <2>3, <2>6
  <2>9. Clean' <=> Clean
    BY <2>8 DEF Clean
  <2> QED BY <1>1, <1>5, <2>1, <2>3, <2>6, <2>7, <2>9
<1>6. CASE Fault /\ tmps' = [tmps EXCEPT ![t] = [items |-> Append(@.items, e), err |-> TRUE]]
  <2>1. PICK v : v = [items |-> Append(w.items, e), err |-> TRUE]
    OBVIOUS
  <2>2. v \in Temp /\ v.err = TRUE
    BY <1>4, <2>1 DEF Temp
  <2>3. tmps' = [tmps EXCEPT ![t] = v]
    BY <1>1, <1>6, <2>1
  <2>4. tmps' \in [0 .. 2 -> Temp] /\ tmps'[t] = v
    BY <2>2, <2>3
  <2>5. ~Clean'
    BY <2>2, <2>4 DEF Clean
  <2>6. faults' = faults + 1
    BY <1>6 DEF Fault
  <2> QED BY <2>4, <2>5, <2>6
<1> QED BY <1>1, <1>5, <1>6 DEF Put

\* The list around the place grows by a member that goes where the last one
\* went.
LEMMA PutGrows ==
    ASSUME tmps \in [0 .. 2 -> Temp], faults \in Nat, cmd \in Commands, cmd' = cmd,
           NEW m \in Entry, Put(cur, m), cur' = cur, cur \in {BEFORE, AFTER},
           NEW s \in Seq(Entry), NEW p \in 0 .. Len(s), Clean => Split(s, p),
           NEW t, t = Append(s, m)
    PROVE  /\ tmps' \in [0 .. 2 -> Temp] /\ faults' \in Nat /\ faults' >= faults
           /\ Clean' => Clean /\ Split(t, p)' /\ tmps'[INDOT].items = tmps[INDOT].items
           /\ ~Clean' => ~Clean \/ faults' > faults
<1>1. BEFORE = 0 /\ INDOT = 1 /\ AFTER = 2
  BY DEF BEFORE, INDOT, AFTER
<1>2. cur \in 0 .. 2
  BY <1>1
<1>3. /\ tmps' \in [0 .. 2 -> Temp] /\ faults' \in Nat /\ faults' >= faults
      /\ Clean' => /\ Clean
                   /\ tmps'[cur].items = Append(tmps[cur].items, m)
                   /\ \A x \in 0 .. 2 : x # cur => tmps'[x] = tmps[x]
      /\ ~Clean' => ~Clean \/ faults' > faults
  BY <1>2, PutIs
<1>4. cmd.b \in BOOLEAN
  BY CommandFacts
<1>5. PICK b : b = cmd.b
  OBVIOUS
<1>8. b \in BOOLEAN
  BY <1>4, <1>5
<1>6. /\ p = 0 => Ahead(t, p, b) = Append(Ahead(s, p, b), m) /\ Behind(t, p, b) = Behind(s, p, b)
      /\ p # 0 => Ahead(t, p, b) = Ahead(s, p, b) /\ Behind(t, p, b) = Append(Behind(s, p, b), m)
  <2>1. /\ p = 0 => /\ Ahead(Append(s, m), p, b) = Append(Ahead(s, p, b), m)
                    /\ Behind(Append(s, m), p, b) = Behind(s, p, b)
        /\ p # 0 => /\ Ahead(Append(s, m), p, b) = Ahead(s, p, b)
                    /\ Behind(Append(s, m), p, b) = Append(Behind(s, p, b), m)
    BY <1>8, SplitStay, Zenon
  <2> QED BY <2>1
<1>7. ASSUME Clean' PROVE Split(t, p)' /\ tmps'[INDOT].items = tmps[INDOT].items
  <2>1. tmps[BEFORE].items = Ahead(s, p, b) /\ tmps[AFTER].items = Behind(s, p, b) /\ cur = IF p = 0 THEN BEFORE ELSE AFTER
    BY <1>3, <1>5, <1>7 DEF Split, Ahead, Behind
  <2>2. tmps'[BEFORE].items = Ahead(t, p, b) /\ tmps'[AFTER].items = Behind(t, p, b) /\ tmps'[INDOT].items = tmps[INDOT].items
    <3>1. BEFORE \in 0 .. 2 /\ INDOT \in 0 .. 2 /\ AFTER \in 0 .. 2 /\ BEFORE # INDOT /\ BEFORE # AFTER /\ INDOT # AFTER
      BY <1>1
    <3>2. tmps'[cur].items = Append(tmps[cur].items, m) /\ \A x \in 0 .. 2 : x # cur => tmps'[x] = tmps[x]
      BY <1>3, <1>7
    <3>3. CASE p = 0
      BY <1>6, <2>1, <3>1, <3>2, <3>3
    <3>4. CASE p # 0
      BY <1>6, <2>1, <3>1, <3>2, <3>4
    <3> QED BY <3>3, <3>4
  <2>3. Split(t, p)'
    BY <1>5, <2>1, <2>2 DEF Split, Ahead, Behind
  <2> QED BY <2>2, <2>3
<1> QED BY <1>3, <1>7

\* copy() of a member that stays, which may fix the place.
LEMMA PlaceGrows ==
    ASSUME tmps \in [0 .. 2 -> Temp], faults \in Nat, cmd \in Commands, cmd' = cmd,
           NEW m \in Entry, Place(m), cur \in {BEFORE, AFTER},
           NEW s \in Seq(Entry), NEW p \in 0 .. Len(s), Clean => Split(s, p),
           p # 0 /\ m.name = cmd.pos => cmd.b,
           NEW t, t = Append(s, m),
           NEW q, q = IF p # 0 THEN p ELSE IF m.name = cmd.pos THEN Len(s) + 1 ELSE 0
    PROVE  /\ tmps' \in [0 .. 2 -> Temp] /\ faults' \in Nat /\ faults' >= faults
           /\ cur' \in {BEFORE, AFTER}
           /\ Clean' => Clean /\ Split(t, q)' /\ tmps'[INDOT].items = tmps[INDOT].items
           /\ ~Clean' => ~Clean \/ faults' > faults
<1>1. BEFORE = 0 /\ INDOT = 1 /\ AFTER = 2
  BY DEF BEFORE, INDOT, AFTER
<1>2. PICK b : b = cmd.b
  OBVIOUS
<1>3. b \in BOOLEAN
  BY <1>2, CommandFacts
<1>4. CASE m.name # cmd.pos
  <2>1. cur' = cur /\ Put(cur, m)
    BY <1>4 DEF Place
  <2>2. q = p
    BY <1>4
  <2> QED BY <2>1, <2>2, PutGrows
<1>5. CASE m.name = cmd.pos
  <2>1. PICK w : w = IF b THEN AFTER ELSE BEFORE
    OBVIOUS
  <2>2. cur' = AFTER /\ Put(w, m) /\ w \in 0 .. 2
    BY <1>1, <1>2, <1>5, <2>1 DEF Place
  <2>3. /\ tmps' \in [0 .. 2 -> Temp] /\ faults' \in Nat /\ faults' >= faults
        /\ Clean' => /\ Clean
                     /\ tmps'[w].items = Append(tmps[w].items, m)
                     /\ \A x \in 0 .. 2 : x # w => tmps'[x] = tmps[x]
        /\ ~Clean' => ~Clean \/ faults' > faults
    BY <2>2, PutIs
  <2>4. Len(s) \in Nat
    BY LenProperties
  <2>5. ASSUME Clean' PROVE Split(t, q)' /\ tmps'[INDOT].items = tmps[INDOT].items
    <3>1. tmps[BEFORE].items = Ahead(s, p, b) /\ tmps[AFTER].items = Behind(s, p, b)
      BY <1>2, <2>3, <2>5 DEF Split, Ahead, Behind
    <3>2. /\ Ahead(t, q, b) = IF w = BEFORE THEN Append(Ahead(s, p, b), m) ELSE Ahead(s, p, b)
          /\ Behind(t, q, b) = IF w = BEFORE THEN Behind(s, p, b) ELSE Append(Behind(s, p, b), m)
      <4>1. CASE p = 0
        <5>1. q = Len(s) + 1
          BY <1>5, <4>1
        <5>2. /\ b => /\ Ahead(Append(s, m), Len(s) + 1, b) = Ahead(s, 0, b)
                      /\ Behind(Append(s, m), Len(s) + 1, b) = Append(Behind(s, 0, b), m)
              /\ ~b => /\ Ahead(Append(s, m), Len(s) + 1, b) = Append(Ahead(s, 0, b), m)
                       /\ Behind(Append(s, m), Len(s) + 1, b) = Behind(s, 0, b)
          BY <1>3, SplitTurn, Zenon
        <5>3. CASE b
          <6>1. w # BEFORE
            BY <1>1, <2>1, <5>3
          <6> QED BY <4>1, <5>1, <5>2, <5>3, <6>1
        <5>4. CASE ~b
          <6>1. w = BEFORE
            BY <2>1, <5>4
          <6> QED BY <4>1, <5>1, <5>2, <5>4, <6>1
        <5> QED BY <5>3, <5>4
      <4>2. CASE p # 0
        <5>1. q = p /\ b /\ w = AFTER
          BY <1>2, <1>5, <2>1, <4>2
        <5>2. /\ p = 0 => /\ Ahead(Append(s, m), p, b) = Append(Ahead(s, p, b), m)
                          /\ Behind(Append(s, m), p, b) = Behind(s, p, b)
              /\ p # 0 => /\ Ahead(Append(s, m), p, b) = Ahead(s, p, b)
                          /\ Behind(Append(s, m), p, b) = Append(Behind(s, p, b), m)
          BY <1>3, SplitStay, Zenon
        <5>3. w # BEFORE
          BY <1>1, <5>1
        <5> QED BY <4>2, <5>1, <5>2, <5>3
      <4> QED BY <4>1, <4>2
    <3>3. w = BEFORE \/ w = AFTER
      BY <2>1
    <3>4. tmps'[BEFORE].items = Ahead(t, q, b) /\ tmps'[AFTER].items = Behind(t, q, b) /\ tmps'[INDOT].items = tmps[INDOT].items
      <4>1. BEFORE \in 0 .. 2 /\ INDOT \in 0 .. 2 /\ AFTER \in 0 .. 2 /\ BEFORE # INDOT /\ BEFORE # AFTER /\ INDOT # AFTER
        BY <1>1
      <4>2. tmps'[w].items = Append(tmps[w].items, m) /\ \A x \in 0 .. 2 : x # w => tmps'[x] = tmps[x]
        BY <2>3, <2>5
      <4>3. CASE w = BEFORE
        BY <3>1, <3>2, <4>1, <4>2, <4>3
      <4>4. CASE w = AFTER
        BY <3>1, <3>2, <4>1, <4>2, <4>4
      <4> QED BY <3>3, <4>3, <4>4
    <3>5. q # 0
      BY <1>5, <2>4
    <3>6. Split(t, q)'
      BY <1>2, <2>2, <3>4, <3>5 DEF Split, Ahead, Behind
    <3> QED BY <3>4, <3>6
  <2> QED BY <2>2, <2>3, <2>5
<1> QED BY <1>4, <1>5

-----------------------------------------------------------------------------
(* The parts of the invariant that a step leaves to another place.         *)

LEMMA Elsewhere ==
    /\ pc' \notin {"start", "open", "magic", "ar", "tmps"} => Opening'
    /\ pc' # "run" => Running'
    /\ pc' \notin {"insert", "append"} => Adding'
    /\ pc' \notin {"merge", "merging"} => Rewriting'
    /\ pc' \notin {"check", "exit", "end"} => Closing'
    /\ pc' # "end" => EditsList' /\ FailsSafe'
<1>1. pc' \notin {"start", "open", "magic", "ar", "tmps"} => Opening'
  BY DEF Opening
<1>2. pc' # "run" => Running'
  BY DEF Running
<1>3. pc' \notin {"insert", "append"} => Adding'
  BY DEF Adding
<1>4. pc' \notin {"merge", "merging"} => Rewriting'
  BY DEF Rewriting
<1>5. pc' \notin {"check", "exit", "end"} => Closing'
  BY DEF Closing
<1>6. pc' # "end" => EditsList' /\ FailsSafe'
  BY DEF EditsList, FailsSafe
<1> QED BY <1>1, <1>2, <1>3, <1>4, <1>5, <1>6

\* What a run starts from does not change while it lasts.
LEMMA Rigid ==
    ASSUME cmd' = cmd, old' = old
    PROVE  /\ Mem' = Mem /\ ArgNames' = ArgNames /\ ArgMembers' = ArgMembers /\ HitSet' = HitSet
           /\ Base' = Base /\ Sane' = Sane /\ Edited' = Edited /\ Change' = Change
           /\ Editing' = Editing /\ Final' = Final /\ Args' = Args
           /\ \A k : UsedBy(k)' = UsedBy(k) /\ Stay(k)' = Stay(k) /\ Mark(k)' = Mark(k) /\ ShownBy(k)' = ShownBy(k)
           /\ \A U : Crossed(U)' = Crossed(U)
<1>1. Mem' = Mem
  BY DEF Mem
<1>2. ArgNames' = ArgNames
  BY DEF ArgNames
<1>3. ArgMembers' = ArgMembers
  BY <1>2 DEF ArgMembers
<1>4. HitSet' = HitSet
  BY <1>1, <1>2 DEF HitSet
<1>5. Base' = Base
  BY DEF Base
<1>6. Sane' = Sane
  BY DEF Sane
<1>7. Edited' = Edited
  BY <1>2, <1>3 DEF Edited
<1>8. Change' = Change
  BY <1>1, <1>2, <1>3 DEF Change
<1>9. Editing' = Editing
  BY DEF Editing
<1>10. \A U : Crossed(U)' = Crossed(U)
  BY DEF Crossed
<1>11. Final' = Final
  BY <1>1, <1>2, <1>10 DEF Final, Crossed
<1>12. Args' = Args
  BY DEF Args
<1>13. \A k : UsedBy(k)' = UsedBy(k)
  BY <1>1, <1>2 DEF UsedBy
<1>14. StaleSet' = StaleSet
  BY <1>1, <1>2, <1>3 DEF StaleSet
<1>15. \A k : Stay(k)' = Stay(k)
  BY <1>1, <1>2, <1>3, <1>4 DEF Stay
<1>16. \A k : Mark(k)' = Mark(k)
  BY <1>1, <1>14, <1>15 DEF Mark
<1>17. \A k : ShownBy(k)' = ShownBy(k)
  BY <1>1, <1>4 DEF ShownBy
<1> QED BY <1>1, <1>2, <1>3, <1>4, <1>5, <1>6, <1>7, <1>8, <1>9, <1>10, <1>11, <1>12, <1>13, <1>15, <1>16, <1>17

-----------------------------------------------------------------------------
(* The ends of a run.                                                      *)

LEMMA Stores ==
    /\ Store(<< >>) /\ << >> # NoFile /\ Store(<<Magic>>) /\ <<Magic>> # NoFile
    /\ \A f : Store(f) => f # NoFile /\ f \in Seq(Item)
<1>1. \A f : Store(f) => f # NoFile /\ f \in Seq(Item)
  BY StoreAssumption DEF Store, Item
<1>2. Store(<< >>)
  <2>1. << >> \in Seq(Entry \cup {Magic, Stub}) /\ Len(<< >>) = 0
    OBVIOUS
  <2> QED BY <2>1 DEF Store
<1>3. Store(<<Magic>>)
  <2>1. PICK s, m, S : s = <<m>> /\ m = Magic /\ S = Entry \cup {Magic, Stub}
    OBVIOUS
  <2>2. m \in S
    BY <2>1
  <2>3. s \in Seq(S) /\ Len(s) = 1
    BY <2>1, <2>2
  <2>4. \A i \in 2 .. Len(s) : s[i] # Magic
    BY <2>3
  <2> QED BY <2>1, <2>3, <2>4 DEF Store
<1> QED BY <1>1, <1>2, <1>3

LEMMA OpenedFacts ==
    ASSUME TypeOK, Opened
    PROVE  /\ arfile # NoFile /\ Store(arfile) /\ arfile \in Seq(Item) /\ arfile # << >> /\ arfile[1] = Magic
           /\ old.arfile # NoFile => arfile = old.arfile
<1>1. CASE old.arfile = NoFile
  <2>1. arfile = <<Magic>>
    BY <1>1 DEF Opened, Base
  <2> QED BY <1>1, <2>1, Stores DEF Opened
<1>2. CASE old.arfile # NoFile
  <2>1. arfile = old.arfile
    BY <1>2 DEF Opened, Base
  <2>2. Store(arfile)
    BY <1>2, <2>1 DEF TypeOK, OldType
  <2> QED BY <1>2, <2>1, <2>2, Stores DEF Opened
<1> QED BY <1>1, <1>2

LEMMA EntriesFlow ==
    ASSUME NEW d, NEW w \in Seq(Entry)
    PROVE  Flows(d, w)
<1>1. Entry \subseteq Item
  BY ItemFacts
<1>2. w \in Seq(Item)
  BY <1>1, SeqMonotonic
<1>3. \A i \in 1 .. Len(w) : w[i] # Magic
  <2>1. \A i \in 1 .. Len(w) : w[i] \in Entry
    BY ElementOfSeq
  <2> QED BY <2>1, ItemFacts
<1> QED BY <1>2, <1>3 DEF Flows

LEMMA MagicFlows ==
    ASSUME NEW w \in Seq(Entry)
    PROVE  Flows(<< >>, <<Magic>> \o w) /\ Flows(<< >>, <<Magic>>)
<1>1. PICK s, m : s = <<m>> /\ m = Magic
  OBVIOUS
<1>2. s \in Seq(Item) /\ Len(s) = 1
  <2>1. m \in Item
    BY <1>1, ItemFacts
  <2> QED BY <1>1, <2>1
<1>3. w \in Seq(Item) /\ Len(w) \in Nat /\ \A i \in 1 .. Len(w) : w[i] # Magic
  <2>1. Flows(0, w) /\ Len(w) \in Nat
    BY EntriesFlow, LenProperties
  <2>2. \A i \in 1 .. Len(w) : w[i] \in Entry
    BY ElementOfSeq
  <2> QED BY <2>1, <2>2, ItemFacts DEF Flows
<1>4. PICK c : c = s \o w
  OBVIOUS
<1>5. c \in Seq(Item) /\ Len(c) = Len(s) + Len(w) /\ \A i \in 1 .. Len(s) + Len(w) : c[i] = IF i <= Len(s) THEN s[i] ELSE w[i - Len(s)]
  <2>1. s \o w \in Seq(Item) /\ Len(s \o w) = Len(s) + Len(w)
         /\ \A i \in 1 .. Len(s) + Len(w) : (s \o w)[i] = IF i <= Len(s) THEN s[i] ELSE w[i - Len(s)]
    BY <1>2, <1>3, ConcatProperties
  <2> QED BY <1>4, <2>1
<1>6. \A i \in 1 .. Len(c) : c[i] = Magic => i = 1
  <2> SUFFICES ASSUME NEW i \in 1 .. Len(c), i # 1 PROVE c[i] # Magic
    OBVIOUS
  <2>1. i - 1 \in 1 .. Len(w) /\ c[i] = w[i - 1]
    BY <1>2, <1>3, <1>5
  <2> QED BY <1>3, <2>1
<1>7. Flows(<< >>, c)
  BY <1>5, <1>6 DEF Flows
<1>8. Flows(<< >>, s)
  BY <1>2 DEF Flows
<1> QED BY <1>1, <1>4, <1>7, <1>8

\* The temporaries together.
LEMMA Together ==
    ASSUME tmps \in [0 .. 2 -> Temp]
    PROVE  /\ Joined \in Seq(Entry)
           /\ \A t \in 0 .. 2 : tmps[t].items \in Seq(Entry)
           /\ tmps[BEFORE].items \in Seq(Entry) /\ tmps[INDOT].items \in Seq(Entry) /\ tmps[AFTER].items \in Seq(Entry)
           /\ tmps[BEFORE].items \o tmps[INDOT].items \in Seq(Entry)
           /\ <<Magic>> \o tmps[BEFORE].items \o tmps[INDOT].items =
                 <<Magic>> \o (tmps[BEFORE].items \o tmps[INDOT].items)
           /\ <<Magic>> \o tmps[BEFORE].items \o tmps[INDOT].items \o tmps[AFTER].items = <<Magic>> \o Joined
<1>1. \A t \in 0 .. 2 : tmps[t].items \in Seq(Entry)
  BY DEF Temp
<1>2. PICK a, b, c, m, s : a = tmps[BEFORE].items /\ b = tmps[INDOT].items /\ c = tmps[AFTER].items /\ m = Magic /\ s = <<m>>
  OBVIOUS
<1>3. a \in Seq(Entry) /\ b \in Seq(Entry) /\ c \in Seq(Entry)
  BY <1>1, <1>2 DEF BEFORE, INDOT, AFTER
<1>4. a \o b \in Seq(Entry) /\ (a \o b) \o c \in Seq(Entry)
  <2>1. PICK d : d = a \o b
    OBVIOUS
  <2>2. d \in Seq(Entry)
    BY <1>3, <2>1, ConcatProperties
  <2>3. d \o c \in Seq(Entry)
    BY <1>3, <2>2, ConcatProperties
  <2> QED BY <2>1, <2>2, <2>3
<1>5. s \in Seq(Item)
  <2>1. m \in Item
    BY <1>2, ItemFacts
  <2> QED BY <1>2, <2>1
<1>6. Entry \subseteq Item
  BY ItemFacts
<1>7. a \in Seq(Item) /\ b \in Seq(Item) /\ c \in Seq(Item) /\ a \o b \in Seq(Item)
  <2>1. PICK d : d = a \o b
    OBVIOUS
  <2> QED BY <1>3, <1>4, <1>6, <2>1, SeqMonotonic
<1>8. (s \o a) \o b = s \o (a \o b)
  BY <1>5, <1>7, ConcatAssociative
<1>9. (s \o (a \o b)) \o c = s \o ((a \o b) \o c)
  <2>1. PICK d : d = a \o b
    OBVIOUS
  <2>2. d \in Seq(Item)
    BY <1>7, <2>1
  <2>4. c \in Seq(Item)
    BY <1>7
  <2>3. (s \o d) \o c = s \o (d \o c)
    BY <1>5, <2>2, <2>4, ConcatAssociative
  <2> QED BY <2>1, <2>3
<1>10. Joined = (a \o b) \o c
  BY <1>2 DEF Joined
<1> QED BY <1>1, <1>2, <1>3, <1>4, <1>8, <1>9, <1>10

\* merge() writes the magic number first.
LEMMA WrittenFlows ==
    ASSUME tmps \in [0 .. 2 -> Temp]
    PROVE  Flows(<< >>, Written)
<1>1. CASE n = 0
  <2>1. Written = <<Magic>>
    BY <1>1 DEF Written
  <2>2. << >> \in Seq(Entry)
    OBVIOUS
  <2> QED BY <2>1, <2>2, MagicFlows
<1>2. CASE n = 1
  <2>1. Written = <<Magic>> \o tmps[BEFORE].items
    BY <1>2 DEF Written
  <2> QED BY <2>1, MagicFlows, Together
<1>3. CASE n = 2
  <2>1. Written = <<Magic>> \o (tmps[BEFORE].items \o tmps[INDOT].items)
    <3>1. Written = <<Magic>> \o tmps[BEFORE].items \o tmps[INDOT].items
      BY <1>3 DEF Written
    <3> QED BY <3>1, Together
  <2> QED BY <2>1, MagicFlows, Together
<1>4. CASE n \notin {0, 1, 2}
  <2>1. Written = <<Magic>> \o Joined
    <3>1. Written = <<Magic>> \o tmps[BEFORE].items \o tmps[INDOT].items \o tmps[AFTER].items
      BY <1>4 DEF Written
    <3> QED BY <3>1, Together
  <2> QED BY <2>1, MagicFlows, Together
<1> QED BY <1>1, <1>2, <1>3, <1>4

\* What append() has written are members.
LEMMA Appended ==
    ASSUME TypeOK, Adding, pc = "append"
    PROVE  /\ buf \in Seq(Entry) /\ n - 1 \in Nat /\ n - 1 <= Len(cmd.argv)
           /\ \A i \in 1 .. n - 1 : ArgMembers[i] \in Entry
<1>0. cmd \in Commands
  BY DEF TypeOK
<1>1. Len(cmd.argv) \in Nat
  BY <1>0, CommandFacts
<1>2. n \in 1 .. Len(cmd.argv) + 1 /\ buf = SubSeq(ArgMembers, 1, n - 1) /\ \A i \in 1 .. n - 1 : old.files[cmd.argv[i]] # NoFile
  BY DEF Adding
<1>3. n - 1 \in Nat /\ n - 1 <= Len(cmd.argv)
  BY <1>1, <1>2
<1>4. \A i \in 1 .. n - 1 : ArgMembers[i] \in Entry
  <2>1. \A i \in 1 .. n - 1 : i \in Args
    BY <1>1, <1>2 DEF Args
  <2> QED BY <1>2, <2>1, ArgFacts
<1>5. buf \in Seq(Entry)
  <2>1. PICK j, o : j = n - 1 /\ o = 1
    OBVIOUS
  <2>2. o \in Int /\ j \in Int /\ \A i \in o .. j : ArgMembers[i] \in Entry
    BY <1>3, <1>4, <2>1
  <2>3. SubSeq(ArgMembers, o, j) \in Seq(Entry)
    BY <2>2, SubSeqProperties
  <2> QED BY <1>2, <2>1, <2>3
<1> QED BY <1>3, <1>4, <1>5

LEMMA BufFlows ==
    ASSUME Inv, pc # "end"
    PROVE  /\ pc \in {"magic", "append", "merging"} => arfile # NoFile /\ Store(arfile) /\ Flows(arfile, buf)
           /\ pc \notin {"magic", "append", "merging"} => buf = << >>
<1>1. tmps \in [0 .. 2 -> Temp] /\ TypeOK
  BY DEF Inv, TypeOK, Temp
<1>2. CASE pc = "magic"
  <2>1. arfile = << >> /\ buf = <<Magic>>
    BY <1>2 DEF Inv, Opening
  <2>2. << >> \in Seq(Entry)
    OBVIOUS
  <2>3. Flows(<< >>, <<Magic>>)
    BY <2>2, MagicFlows
  <2> QED BY <1>2, <2>1, <2>3, Stores
<1>3. CASE pc = "append"
  <2>1. Opened /\ Adding
    BY <1>3 DEF Inv, Adding
  <2>2. buf \in Seq(Entry)
    BY <1>1, <1>3, <2>1, Appended
  <2>3. Flows(arfile, buf)
    BY <2>2, EntriesFlow
  <2> QED BY <1>1, <1>3, <2>1, <2>3, OpenedFacts
<1>4. CASE pc = "merging"
  <2>1. arfile = << >> /\ buf = Written
    BY <1>4 DEF Inv, Rewriting
  <2> QED BY <1>1, <1>4, <2>1, Stores, WrittenFlows
<1>5. CASE pc \in {"start", "open", "ar", "tmps"}
  <2>1. buf = << >>
    BY <1>5 DEF Inv, Opening
  <2> QED BY <1>5, <2>1
<1>6. CASE pc = "run"
  <2>1. buf = << >>
    BY <1>6 DEF Inv, Running
  <2> QED BY <1>6, <2>1
<1>7. CASE pc = "insert"
  <2>1. buf = << >>
    BY <1>7 DEF Inv, Adding
  <2> QED BY <1>7, <2>1
<1>8. CASE pc = "merge"
  <2>1. buf = << >>
    BY <1>8 DEF Inv, Rewriting
  <2> QED BY <1>8, <2>1
<1>9. CASE pc \in {"check", "exit"}
  <2>1. buf = << >>
    BY <1>9 DEF Inv, Closing
  <2> QED BY <1>9, <2>1
<1>10. pc \in Places
  BY DEF Inv
<1> QED BY <1>2, <1>3, <1>4, <1>5, <1>6, <1>7, <1>8, <1>9, <1>10 DEF Places

\* The archive at the end of a run, as exit(), a signal and a failing flush
\* leave it.
LEMMA ArchiveLeft ==
    ASSUME Inv, pc # "end",
           \/ arfile' = IF buf = << >> THEN arfile ELSE arfile \o buf
           \/ arfile' \in IF buf = << >> THEN {arfile} ELSE Partial(arfile, buf)
           \/ pc \in {"magic", "append", "merging"} /\ arfile' \in Partial(arfile, buf)
    PROVE  /\ arfile' = NoFile \/ Store(arfile')
           /\ pc \notin {"magic", "append", "merging"} => arfile' = arfile
           /\ pc = "append" => \E v \in Seq(Item) : arfile' = arfile \o v
<1>1. TypeOK
  BY DEF Inv
<1>2. CASE pc \notin {"magic", "append", "merging"}
  <2>1. arfile' = arfile
    BY <1>2, BufFlows
  <2> QED BY <1>1, <1>2, <2>1 DEF TypeOK
<1>3. CASE pc \in {"magic", "append", "merging"}
  <2>1. Store(arfile) /\ Flows(arfile, buf) /\ arfile \in Seq(Item)
    BY <1>3, BufFlows, Stores
  <2>2. CASE arfile' = arfile
    <3>1. arfile \o << >> = arfile
      BY <2>1, ConcatEmptySeq
    <3>2. << >> \in Seq(Item)
      OBVIOUS
    <3> QED BY <1>3, <2>1, <2>2, <3>1, <3>2
  <2>3. CASE arfile' = arfile \o buf
    <3>1. buf \in Seq(Item) /\ Store(arfile \o buf)
      BY <2>1, StoreConcat DEF Flows
    <3> QED BY <1>3, <2>3, <3>1
  <2>4. CASE arfile' \in Partial(arfile, buf)
    <3>1. PICK x : x = arfile'
      OBVIOUS
    <3>2. Store(x) /\ \E v \in Seq(Item) : x = arfile \o v
      BY <2>1, <2>4, <3>1, PartialIs
    <3> QED BY <1>3, <3>1, <3>2
  <2> QED BY <2>2, <2>3, <2>4
<1> QED BY <1>2, <1>3

LEMMA TypeKept ==
    ASSUME TypeOK, cmd' = cmd, old' = old,
           argv' \in [DOMAIN cmd.argv -> Paths \cup {NULL}],
           files' \in [Paths -> {NoFile} \cup File],
           tmps' \in [0 .. 2 -> Temp], buf' \in Seq(Item),
           arfile' = NoFile \/ Store(arfile'),
           n' \in Nat, cur' \in {BEFORE, AFTER}, faults' \in Nat, faults' >= faults
    PROVE  TypeOK'
<1>1. old.faults \in Nat /\ old.faults <= faults /\ faults \in Nat
  BY DEF TypeOK, OldType
<1>2. old'.faults \in Nat /\ old'.faults <= faults'
  BY <1>1
<1>3. OldType'
  BY <1>2 DEF TypeOK, OldType
<1> QED BY <1>3 DEF TypeOK, Temp

LEMMA FaultEnd ==
    ASSUME TypeOK, cmd' = cmd, old' = old, status' = 1, faults' = faults + 1
    PROVE  EditsList'
<1>1. old.faults \in Nat /\ old.faults <= faults /\ faults \in Nat
  BY DEF TypeOK, OldType
<1>2. ~(status' = 0 \/ faults' = old'.faults)
  BY <1>1
<1> QED BY <1>2 DEF EditsList

LEMMA InsaneEnd ==
    ASSUME ~Sane, cmd' = cmd, old' = old
    PROVE  EditsList'
<1>1. ~Sane'
  BY Rigid
<1> QED BY <1>1 DEF EditsList

\* A run that ends leaves what FailsSafe says.
LEMMA GoneSafe ==
    ASSUME Inv, pc # "end", NEW s, Gone(s),
           pc \notin {"magic", "append", "merging"} => arfile' = arfile,
           pc = "append" => \E v \in Seq(Item) : arfile' = arfile \o v
    PROVE  FailsSafe'
<1>1. TypeOK /\ pc \in Places
  BY DEF Inv
<1>2. cmd' = cmd /\ old' = old /\ names' = {} /\ at' = pc /\ pc' = "end"
  BY DEF Gone, cleanup
<1>3. ASSUME pc # "merging", old.arfile # NoFile
      PROVE  \/ arfile' = old.arfile
             \/ cmd.key = "q" /\ IsPrefix(old.arfile, arfile')
             \/ pc \in {"check", "exit"} /\ (Sane => arfile' = Edited)
  <2>1. CASE pc \in {"start", "open"}
    <3>1. arfile = old.arfile
      BY <2>1 DEF Inv, Opening
    <3> QED BY <2>1, <3>1
  <2>2. CASE pc = "magic"
    BY <1>3, <2>2 DEF Inv, Opening
  <2>3. CASE pc \in {"ar", "tmps"}
    <3>1. Opened
      BY <2>3 DEF Inv, Opening
    <3> QED BY <1>1, <1>3, <2>3, <3>1, OpenedFacts
  <2>4. CASE pc = "run"
    <3>1. Opened
      BY <2>4 DEF Inv, Running
    <3> QED BY <1>1, <1>3, <2>4, <3>1, OpenedFacts
  <2>5. CASE pc = "insert"
    <3>1. Opened
      BY <2>5 DEF Inv, Adding
    <3> QED BY <1>1, <1>3, <2>5, <3>1, OpenedFacts
  <2>6. CASE pc = "append"
    <3>1. Opened /\ cmd.key = "q"
      BY <2>6 DEF Inv, Adding
    <3>2. arfile = old.arfile /\ arfile \in Seq(Item)
      BY <1>1, <1>3, <3>1, OpenedFacts
    <3>3. PICK v \in Seq(Item) : arfile' = arfile \o v
      BY <2>6
    <3>4. IsPrefix(arfile, arfile \o v)
      BY <3>2, PrefixOfConcat
    <3> QED BY <3>1, <3>2, <3>3, <3>4
  <2>7. CASE pc = "merge"
    <3>1. Opened
      BY <2>7 DEF Inv, Rewriting
    <3> QED BY <1>1, <1>3, <2>7, <3>1, OpenedFacts
  <2>8. CASE pc \in {"check", "exit"}
    <3>1. Sane => arfile = Edited
      BY <2>8 DEF Inv, Closing
    <3> QED BY <2>8, <3>1
  <2> QED BY <1>1, <1>3, <2>1, <2>2, <2>3, <2>4, <2>5, <2>6, <2>7, <2>8 DEF Places
<1>4. Sane' = Sane /\ Edited' = Edited
  BY <1>2, Rigid
<1> QED BY <1>2, <1>3, <1>4 DEF FailsSafe

\* The whole invariant at the end of a run.
LEMMA Ends ==
    ASSUME Inv, pc # "end", NEW s \in {0, 1}, Gone(s),
           arfile' = NoFile \/ Store(arfile'),
           pc \notin {"magic", "append", "merging"} => arfile' = arfile,
           pc = "append" => \E v \in Seq(Item) : arfile' = arfile \o v,
           argv' \in [DOMAIN cmd.argv -> Paths \cup {NULL}],
           files' \in [Paths -> {NoFile} \cup File],
           UNCHANGED <<tmps, n, cur>>, faults' \in {faults, faults + 1},
           EditsList'
    PROVE  Inv'
<1>1. TypeOK /\ tmps \in [0 .. 2 -> Temp] /\ n \in Nat /\ cur \in {BEFORE, AFTER} /\ faults \in Nat
  BY DEF Inv, TypeOK, Temp
<1>2. cmd' = cmd /\ old' = old /\ names' = {} /\ buf' = << >> /\ pc' = "end" /\ status' = s
  BY DEF Gone, cleanup
<1>3. TypeOK'
  <2>1. buf' \in Seq(Item)
    BY <1>2
  <2>2. faults' \in Nat /\ faults' >= faults
    BY <1>1
  <2> QED BY <1>1, <1>2, <2>1, <2>2, TypeKept
<1>4. ~Clean' => faults' > old'.faults
  <2>1. Clean' = Clean
    BY DEF Clean
  <2>2. ~Clean => faults > old.faults
    BY DEF Inv
  <2>3. old.faults \in Nat
    BY <1>1 DEF TypeOK, OldType
  <2> QED BY <1>1, <1>2, <2>1, <2>2, <2>3
<1>5. Opening' /\ Running' /\ Adding' /\ Rewriting'
  BY <1>2, Elsewhere
<1>6. Closing'
  BY <1>2 DEF Closing
<1>7. FailsSafe'
  BY GoneSafe
<1>8. pc' \in Places
  BY <1>2 DEF Places
<1> QED BY <1>3, <1>4, <1>5, <1>6, <1>7, <1>8 DEF Inv

\* error() and exit(): the archive is flushed.
LEMMA ExitEnds ==
    ASSUME Inv, pc # "end", NEW s \in {0, 1}, exit(s),
           argv' \in [DOMAIN cmd.argv -> Paths \cup {NULL}],
           files' \in [Paths -> {NoFile} \cup File],
           UNCHANGED <<tmps, n, cur>>, faults' \in {faults, faults + 1},
           EditsList'
    PROVE  Inv'
<1>1. Gone(s) /\ arfile' = IF buf = << >> THEN arfile ELSE arfile \o buf
  BY DEF exit
<1>2. /\ arfile' = NoFile \/ Store(arfile')
      /\ pc \notin {"magic", "append", "merging"} => arfile' = arfile
      /\ pc = "append" => \E v \in Seq(Item) : arfile' = arfile \o v
  BY <1>1, ArchiveLeft
<1> QED BY <1>1, <1>2, Ends

\* One that goes on somewhere else.
LEMMA GoesOn ==
    ASSUME TypeOK', ~Clean' => faults' > old'.faults, pc' \in Places \ {"end"},
           pc' \in {"start", "open", "magic", "ar", "tmps"} => Opening',
           pc' = "run" => Running',
           pc' \in {"insert", "append"} => Adding',
           pc' \in {"merge", "merging"} => Rewriting',
           pc' \in {"check", "exit"} => Closing'
    PROVE  Inv'
<1>1. Opening'
  BY Elsewhere
<1>2. Running'
  BY Elsewhere
<1>3. Adding'
  BY Elsewhere
<1>4. Rewriting'
  BY Elsewhere
<1>5. Closing'
  BY Elsewhere
<1>6. EditsList' /\ FailsSafe'
  BY Elsewhere
<1> QED BY <1>1, <1>2, <1>3, <1>4, <1>5, <1>6 DEF Inv

\* Writes that fail are counted.
LEMMA CleanKept ==
    ASSUME TypeOK, ~Clean => faults > old.faults, old' = old, faults' \in Nat, faults' >= faults,
           ~Clean' => ~Clean \/ faults' > faults
    PROVE  ~Clean' => faults' > old'.faults
<1>1. old.faults \in Nat /\ old.faults <= faults /\ faults \in Nat
  BY DEF TypeOK, OldType
<1> QED BY <1>1

-----------------------------------------------------------------------------
(* Opening: from the command line to the first member.                     *)

\* run() has read k members.
LEMMA RunningIs ==
    ASSUME NEW k \in Nat, n' = k + 2, cmd' = cmd, old' = old,
           arfile' = arfile, Opened, buf' = << >>, cmd.key # "q",
           cmd.key # "x" => files' = old.files,
           NEW s, s = Stay(k), NEW p, p = Mark(k),
           Sane => /\ k <= Len(Mem) /\ argv' = Crossed(UsedBy(k))
                   /\ cmd.key \in {"t", "p"} => out' = ShownBy(k)
                   /\ cmd.key = "x" => files' = Unpacked(ShownBy(k), old.files)
                   /\ Editing /\ Clean' =>
                         /\ Split(s, p)'
                         /\ tmps'[INDOT].items = IF cmd.key = "m" THEN At(Mem, (1 .. k) \cap HitSet) ELSE << >>
    PROVE  Running'
<1>1. /\ Mem' = Mem /\ HitSet' = HitSet /\ Base' = Base /\ Sane' = Sane /\ Editing' = Editing
      /\ \A j : UsedBy(j)' = UsedBy(j) /\ Stay(j)' = Stay(j) /\ Mark(j)' = Mark(j) /\ ShownBy(j)' = ShownBy(j)
      /\ \A U : Crossed(U)' = Crossed(U)
  BY Rigid
<1>2. n' - 2 = k /\ n' >= 2
  OBVIOUS
<1>3. Opened'
  BY <1>1 DEF Opened
<1>4. Kept'
  BY DEF Kept
<1>5. ASSUME Sane PROVE (k <= Len(Mem) /\ argv = Crossed(UsedBy(k)))'
  BY <1>1, <1>5
<1>6. ASSUME Sane PROVE Gave(k)'
  BY <1>1, <1>6 DEF Gave
<1>7. ASSUME Sane, Editing PROVE Sorted(k)'
  <2>1. ASSUME Clean' PROVE Split(Stay(k), Mark(k))'
    <3>1. Split(s, p)'
      BY <1>7, <2>1
    <3>2. s = Stay(k)' /\ p = Mark(k)'
      BY <1>1
    <3> QED BY <3>1, <3>2 DEF Split
  <2> QED BY <1>1, <1>7, <2>1 DEF Sorted
<1> QED BY <1>1, <1>2, <1>3, <1>4, <1>5, <1>6, <1>7 DEF Running

LEMMA Nothing ==
    ASSUME TypeOK
    PROVE  /\ Crossed({}) = cmd.argv
           /\ ShownBy(0) = << >> /\ Unpacked(<< >>, old.files) = old.files
           /\ Editing => Stay(0) = << >> /\ Mark(0) = 0 /\ At(Mem, (1 .. 0) \cap HitSet) = << >>
<1>0. cmd \in Commands
  BY DEF TypeOK
<1>1. Crossed({}) = cmd.argv
  <2>1. cmd.argv \in Seq(Paths)
    BY <1>0, CommandFacts
  <2>2. cmd.argv = [i \in DOMAIN cmd.argv |-> cmd.argv[i]]
    BY <2>1, LenProperties
  <2> QED BY <2>2 DEF Crossed
<1>2. SubSeq(Mem, 1, 0) = << >> /\ At(Mem, {}) = << >>
  BY SubSeqEmpty, AtEmpty
<1>3. (1 .. 0) \cap HitSet = {} /\ (1 .. 0) \ HitSet = {} /\ (1 .. 0) \ StaleSet = {}
  OBVIOUS
<1>4. ShownBy(0) = << >>
  BY <1>2, <1>3 DEF ShownBy
<1>5. Unpacked(<< >>, old.files) = old.files
  <2>1. old.files \in [Paths -> {NoFile} \cup File]
    BY DEF TypeOK, OldType
  <2> QED BY <2>1, UnpackedNone
<1>6. Stay(0) = << >>
  <2>1. SubSeq(Renewed(Mem, ArgNames, ArgMembers, cmd.u), 1, 0) = << >>
    BY SubSeqEmpty
  <2> QED BY <1>2, <1>3, <2>1 DEF Stay
<1>7. Mark(0) = 0
  <2>1. Anchor(Mem, {}, cmd.pos) = 0 /\ Anchor(<< >>, {}, cmd.pos) = 0
    BY AnchorEmpty
  <2>2. DOMAIN << >> = {}
    OBVIOUS
  <2>3. cmd.key = "r" => Mark(0) = 0
    BY <1>3, <2>1 DEF Mark
  <2>4. cmd.key = "m" => Mark(0) = 0
    BY <1>6, <2>1, <2>2 DEF Mark
  <2>5. cmd.key \notin {"r", "m"} => Mark(0) = 0
    BY DEF Mark
  <2> QED BY <2>3, <2>4, <2>5
<1> QED BY <1>1, <1>2, <1>3, <1>4, <1>5, <1>6, <1>7

\* The first member is next.
LEMMA Begin ==
    ASSUME TypeOK, Fresh, Opened, cmd.key # "q", n' = 2,
           UNCHANGED <<arfile, files, tmps, cmd, argv, out, cur, old>>, buf' = << >>
    PROVE  Running'
<1>1. /\ Crossed({}) = cmd.argv
      /\ ShownBy(0) = << >> /\ Unpacked(<< >>, old.files) = old.files
      /\ Editing => Stay(0) = << >> /\ Mark(0) = 0 /\ At(Mem, (1 .. 0) \cap HitSet) = << >>
  BY Nothing
<1>2. argv = cmd.argv /\ tmps = Empty /\ out = << >> /\ cur = BEFORE /\ files = old.files
  BY DEF Fresh
<1>3. PICK s, p, k : s = Stay(k) /\ p = Mark(k) /\ k = 0
  OBVIOUS
<1>4. k \in Nat /\ n' = k + 2
  BY <1>3
<1>5. ASSUME Sane PROVE k <= Len(Mem) /\ argv' = Crossed(UsedBy(k))
  <2>1. Len(Mem) \in Nat /\ UsedBy(0) = {}
    BY <1>5, SaneFacts, UsedEnds
  <2> QED BY <1>1, <1>2, <1>3, <2>1
<1>6. ASSUME Editing
      PROVE  /\ Split(s, p)'
             /\ tmps'[INDOT].items = IF cmd.key = "m" THEN At(Mem, (1 .. k) \cap HitSet) ELSE << >>
  <2>1. s = << >> /\ p = 0
    BY <1>1, <1>3, <1>6
  <2>2. Empty[BEFORE].items = << >> /\ Empty[INDOT].items = << >> /\ Empty[AFTER].items = << >>
    BY DEF Empty, BEFORE, INDOT, AFTER
  <2>3. PICK o : o = << >>
    OBVIOUS
  <2>4. Len(o) = 0 /\ SubSeq(o, 1, 0) = o /\ SubSeq(o, 0 + 1, 0) = o
    BY <2>3, SubSeqEmpty
  <2>5. Cut(o, 0, cmd.b) = 0
    BY <2>4 DEF Cut
  <2>6. Split(s, p)'
    BY <1>2, <2>1, <2>2, <2>3, <2>4, <2>5 DEF Split
  <2> QED BY <1>1, <1>2, <1>3, <1>6, <2>2, <2>6
<1>7. (cmd.key \in {"t", "p"} => out' = ShownBy(k)) /\ files' = Unpacked(ShownBy(k), old.files)
  BY <1>1, <1>2, <1>3
<1> QED BY <1>2, <1>3, <1>4, <1>5, <1>6, <1>7, RunningIs

LEMMA Kinds ==
    ASSUME Inv
    PROVE  /\ TypeOK /\ cmd \in Commands
           /\ argv \in [DOMAIN cmd.argv -> Paths \cup {NULL}]
           /\ files \in [Paths -> {NoFile} \cup File]
           /\ tmps \in [0 .. 2 -> Temp] /\ buf \in Seq(Item)
           /\ arfile = NoFile \/ Store(arfile)
           /\ n \in Nat /\ cur \in {BEFORE, AFTER} /\ faults \in Nat
           /\ ~Clean => faults > old.faults
BY DEF Inv, TypeOK, Temp

\* A step that does not touch what is typed.
LEMMA Quiet ==
    ASSUME Inv, UNCHANGED <<cmd, old, argv, files, tmps, cur, faults>>,
           buf' \in Seq(Item), arfile' = NoFile \/ Store(arfile'), n' \in Nat
    PROVE  TypeOK' /\ (~Clean' => faults' > old'.faults)
<1>1. TypeOK'
  <2>1. faults' \in Nat /\ faults' >= faults
    BY Kinds
  <2> QED BY <2>1, Kinds, TypeKept
<1>2. Clean' = Clean
  BY DEF Clean
<1> QED BY <1>1, <1>2, Kinds

LEMMA StepCheckfnames == ASSUME Inv, checkfnames PROVE Inv'
<1>1. pc = "start" /\ Fresh /\ arfile = old.arfile /\ buf = << >>
  BY DEF Inv, Opening, checkfnames
<1>2. UNCHANGED <<files, tmps, argv, out, n, cur, faults>>
  BY DEF checkfnames
<1>3. CASE \A i \in DOMAIN argv : argv[i] \in Valid
  <2>1. pc' = "open" /\ UNCHANGED <<arfile, buf, names, cmd, status, at, old, runs>>
    BY <1>3 DEF checkfnames
  <2>2. TypeOK' /\ (~Clean' => faults' > old'.faults)
    BY <1>2, <2>1, Kinds, Quiet
  <2>3. Fresh' /\ arfile' = old'.arfile /\ buf' = << >>
    BY <1>1, <1>2, <2>1 DEF Fresh
  <2>4. Opening'
    BY <2>1, <2>3 DEF Opening
  <2>5. pc' \in Places \ {"end"}
    BY <2>1 DEF Places
  <2> QED BY <2>1, <2>2, <2>4, <2>5, GoesOn
<1>4. CASE ~\A i \in DOMAIN argv : argv[i] \in Valid
  <2>1. exit(1)
    BY <1>4 DEF checkfnames, error
  <2>2. cmd' = cmd /\ old' = old
    BY <2>1 DEF exit, Gone
  <2>3. ~Sane
    BY <1>1, <1>4 DEF Sane, Fresh
  <2>4. EditsList'
    BY <2>2, <2>3, InsaneEnd
  <2> QED BY <1>1, <1>2, <2>1, <2>4, ExitEnds, Kinds
<1> QED BY <1>3, <1>4

LEMMA StepOpenar == ASSUME Inv, openar PROVE Inv'
<1>1. pc = "open" /\ Fresh /\ arfile = old.arfile /\ buf = << >>
  BY DEF Inv, Opening, openar
<1>2. UNCHANGED <<files, tmps, argv, out, n, cur, faults>>
  BY DEF openar
<1>3. CASE /\ arfile = NoFile
           /\ arfile' = <<>>
           /\ buf' = <<Magic>>
           /\ pc' = "magic"
           /\ UNCHANGED <<names, cmd, status, at, old, runs>>
  <2>1. TypeOK' /\ (~Clean' => faults' > old'.faults)
    <3>1. <<Magic>> \in Seq(Item)
      BY Stores
    <3> QED BY <1>2, <1>3, <3>1, Kinds, Quiet, Stores
  <2>2. Fresh' /\ old'.arfile = NoFile
    BY <1>1, <1>2, <1>3 DEF Fresh
  <2>3. Opening'
    BY <1>3, <2>2 DEF Opening
  <2>4. pc' \in Places \ {"end"}
    BY <1>3 DEF Places
  <2> QED BY <1>3, <2>1, <2>3, <2>4, GoesOn
<1>4. CASE arfile # NoFile /\ (arfile = <<>> \/ (arfile # <<>> /\ arfile[1] # Magic)) /\ error
  <2>1. exit(1)
    BY <1>4 DEF error
  <2>2. cmd' = cmd /\ old' = old
    BY <2>1 DEF exit, Gone
  <2>3. ~Sane
    BY <1>1, <1>4 DEF Sane, Whole
  <2>4. EditsList'
    BY <2>2, <2>3, InsaneEnd
  <2> QED BY <1>1, <1>2, <2>1, <2>4, ExitEnds, Kinds
<1>5. CASE /\ arfile # NoFile
           /\ arfile # <<>> /\ arfile[1] = Magic
           /\ pc' = "ar"
           /\ UNCHANGED <<arfile, buf, names, cmd, status, at, old, runs>>
  <2>1. TypeOK' /\ (~Clean' => faults' > old'.faults)
    BY <1>2, <1>5, Kinds, Quiet
  <2>2. Fresh'
    BY <1>1, <1>2, <1>5 DEF Fresh
  <2>3. Base' = old.arfile
    BY <1>1, <1>5 DEF Base
  <2>4. Opened'
    BY <1>1, <1>5, <2>3 DEF Opened
  <2>5. Opening'
    BY <1>1, <1>5, <2>2, <2>4 DEF Opening
  <2>6. pc' \in Places \ {"end"}
    BY <1>5 DEF Places
  <2> QED BY <1>5, <2>1, <2>5, <2>6, GoesOn
<1> QED BY <1>3, <1>4, <1>5 DEF openar

\* A flush that fails.
LEMMA FlushFails ==
    ASSUME Inv, pc \in {"magic", "append", "merging"}, Fault, Gone(1), arfile' \in Partial(arfile, buf),
           UNCHANGED <<files, tmps, argv, out, n, cur>>
    PROVE  Inv'
<1>1. pc # "end" /\ faults' = faults + 1
  BY DEF Fault
<1>2. cmd' = cmd /\ old' = old /\ status' = 1
  BY DEF Gone
<1>3. /\ arfile' = NoFile \/ Store(arfile')
      /\ pc \notin {"magic", "append", "merging"} => arfile' = arfile
      /\ pc = "append" => \E v \in Seq(Item) : arfile' = arfile \o v
  BY <1>1, ArchiveLeft
<1>4. EditsList'
  BY <1>1, <1>2, FaultEnd, Kinds
<1>5. /\ argv' \in [DOMAIN cmd.argv -> Paths \cup {NULL}]
      /\ files' \in [Paths -> {NoFile} \cup File]
      /\ faults' \in {faults, faults + 1}
  BY <1>1, Kinds
<1>6. UNCHANGED <<tmps, n, cur>>
  OBVIOUS
<1> QED BY <1>1, <1>3, <1>4, <1>5, <1>6, Ends

LEMMA StepFlushMagic == ASSUME Inv, FlushMagic PROVE Inv'
<1>1. pc = "magic" /\ Fresh /\ old.arfile = NoFile /\ arfile = << >> /\ buf = <<Magic>>
  BY DEF Inv, Opening, FlushMagic
<1>2. UNCHANGED <<files, tmps, argv, out, n, cur>> /\ Flush("ar")
  BY DEF FlushMagic
<1>3. CASE /\ arfile' = arfile \o buf /\ buf' = <<>> /\ pc' = "ar"
           /\ UNCHANGED <<names, cmd, status, at, old, runs, faults>>
  <2>1. arfile' = <<Magic>>
    <3>1. PICK s : s = <<Magic>>
      OBVIOUS
    <3>2. s \in Seq(Item)
      BY <3>1, Stores
    <3>3. << >> \o s = s
      BY <3>2, ConcatEmptySeq
    <3> QED BY <1>1, <1>3, <3>1, <3>3
  <2>2. TypeOK' /\ (~Clean' => faults' > old'.faults)
    <3>1. buf' \in Seq(Item)
      BY <1>3
    <3> QED BY <1>2, <1>3, <2>1, <3>1, Kinds, Quiet, Stores
  <2>3. Fresh'
    BY <1>1, <1>2, <1>3 DEF Fresh
  <2>4. Opened'
    <3>1. Base' = <<Magic>>
      BY <1>1, <1>3 DEF Base
    <3>2. PICK s : s = <<Magic>>
      OBVIOUS
    <3>3. s # << >> /\ s[1] = Magic
      BY <3>2
    <3> QED BY <2>1, <3>1, <3>2, <3>3 DEF Opened
  <2>5. Opening'
    BY <1>3, <2>3, <2>4 DEF Opening
  <2>6. pc' \in Places \ {"end"}
    BY <1>3 DEF Places
  <2> QED BY <1>3, <2>2, <2>5, <2>6, GoesOn
<1>4. CASE Fault /\ Gone(1) /\ arfile' \in Partial(arfile, buf) \ {arfile \o buf}
  BY <1>1, <1>2, <1>4, FlushFails
<1> QED BY <1>2, <1>3, <1>4 DEF Flush

-----------------------------------------------------------------------------
(* The whole list.                                                         *)

LEMMA EditIs ==
    /\ cmd.key = "r" =>
          Change = Beside(Renewed(Mem, ArgNames, ArgMembers, cmd.u),
                          At(ArgMembers, DOMAIN ArgNames \ Used(Mem, ArgNames)),
                          Anchor(Mem, DOMAIN Mem \ StaleSet, cmd.pos), cmd.b)
    /\ cmd.key = "m" =>
          Change = Beside(At(Mem, DOMAIN Mem \ HitSet), At(Mem, HitSet),
                          Anchor(At(Mem, DOMAIN Mem \ HitSet), DOMAIN At(Mem, DOMAIN Mem \ HitSet), cmd.pos), cmd.b)
    /\ cmd.key = "d" => Change = At(Mem, DOMAIN Mem \ HitSet)
    /\ cmd.key = "q" => Change = Mem \o ArgMembers
    /\ cmd.key \in {"t", "p", "x"} => Change = Mem
<1>1. CASE cmd.key = "r"
  BY <1>1 DEF Change, Edit, StaleSet
<1>2. CASE cmd.key = "m"
  BY <1>2 DEF Change, Edit, HitSet
<1>3. CASE cmd.key = "d"
  BY <1>3 DEF Change, Edit, HitSet
<1>4. CASE cmd.key = "q"
  BY <1>4 DEF Change, Edit
<1>5. CASE cmd.key \in {"t", "p", "x"}
  BY <1>5 DEF Change, Edit
<1> QED BY <1>1, <1>2, <1>3, <1>4, <1>5

LEMMA EditedIs == Edited = <<Magic>> \o Change
BY DEF Edited, Change, Mem

\* The temporaries hold the edited list when every member is sorted.
LEMMA Joins ==
    ASSUME TypeOK, Sane, Editing, NEW L, L = Len(Mem), Split(Stay(L), Mark(L)),
           tmps[INDOT].items = (CASE cmd.key = "r" -> At(ArgMembers, DOMAIN ArgNames \ Used(Mem, ArgNames))
                                  [] cmd.key = "m" -> At(Mem, HitSet)
                                  [] OTHER -> << >>)
    PROVE  Joined = Change
<1>1. L \in Nat /\ Mem \in Seq(Entry) /\ DOMAIN Mem = 1 .. L
  BY SaneFacts
<1>2. PICK b, s, p, ins : b = cmd.b /\ s = Stay(L) /\ p = Mark(L) /\ ins = tmps[INDOT].items
  OBVIOUS
<1>3. L \in 0 .. Len(Mem)
  BY <1>1
<1>4. s \in Seq(Entry) /\ p \in 0 .. Len(s)
  BY <1>2, <1>3, StayFacts
<1>5. Joined = Beside(s, ins, p, b)
  BY <1>2 DEF Joined, Beside, Split
<1>6. CASE cmd.key = "r"
  <2>1. s = Renewed(Mem, ArgNames, ArgMembers, cmd.u)
    <3>1. PICK R : R = Renewed(Mem, ArgNames, ArgMembers, cmd.u)
      OBVIOUS
    <3>2. R \in Seq(Entry) /\ Len(R) = L
      BY <1>6, <3>1, NewList
    <3>3. SubSeq(R, 1, Len(R)) = R
      BY <3>2, SubSeqFull
    <3> QED BY <1>2, <1>6, <3>1, <3>2, <3>3 DEF Stay
  <2>2. p = Anchor(Mem, DOMAIN Mem \ StaleSet, cmd.pos)
    BY <1>1, <1>2, <1>6 DEF Mark
  <2>3. ins = At(ArgMembers, DOMAIN ArgNames \ Used(Mem, ArgNames))
    BY <1>2, <1>6
  <2>4. Change = Beside(Renewed(Mem, ArgNames, ArgMembers, cmd.u), At(ArgMembers, DOMAIN ArgNames \ Used(Mem, ArgNames)),
                        Anchor(Mem, DOMAIN Mem \ StaleSet, cmd.pos), cmd.b)
    BY <1>6, EditIs
  <2> QED BY <1>2, <1>5, <2>1, <2>2, <2>3, <2>4
<1>7. ASSUME cmd.key # "r" PROVE s = At(Mem, DOMAIN Mem \ HitSet)
  BY <1>1, <1>2, <1>7 DEF Stay
<1>8. CASE cmd.key = "m"
  <2>1. s = At(Mem, DOMAIN Mem \ HitSet)
    BY <1>7, <1>8
  <2>2. p = Anchor(s, DOMAIN s, cmd.pos)
    BY <1>2, <1>8 DEF Mark
  <2>3. ins = At(Mem, HitSet)
    BY <1>2, <1>8
  <2>4. Change = Beside(At(Mem, DOMAIN Mem \ HitSet), At(Mem, HitSet),
                        Anchor(At(Mem, DOMAIN Mem \ HitSet), DOMAIN At(Mem, DOMAIN Mem \ HitSet), cmd.pos), cmd.b)
    BY <1>8, EditIs
  <2> QED BY <1>2, <1>5, <2>1, <2>2, <2>3, <2>4
<1>9. CASE cmd.key \notin {"r", "m"}
  <2>1. cmd.key = "d"
    BY <1>9 DEF Editing
  <2>2. s = At(Mem, DOMAIN Mem \ HitSet)
    BY <1>7, <2>1
  <2>3. ins = << >>
    BY <1>2, <2>1
  <2>4. Change = At(Mem, DOMAIN Mem \ HitSet)
    BY <2>1, EditIs
  <2>5. b \in BOOLEAN
    BY <1>2, CommandFacts DEF TypeOK
  <2>6. Beside(s, << >>, p, b) = s
    BY <1>4, <2>5, BesideNone
  <2> QED BY <1>5, <2>2, <2>3, <2>4, <2>6
<1> QED BY <1>6, <1>8, <1>9

\* Without operands the list stays.
LEMMA EditNoArgs ==
    ASSUME TypeOK, Sane, cmd.argv = << >>, cmd.key \in {"r", "d", "m", "q"}
    PROVE  Edited = Base /\ AllFound(Mem, ArgNames)
<1>0. cmd \in Commands
  BY DEF TypeOK
<1>1. PICK w, a, g, u, pos, b, L : w = Mem /\ a = ArgNames /\ g = ArgMembers /\ u = cmd.u /\ pos = cmd.pos /\ b = cmd.b /\ L = Len(Mem)
  OBVIOUS
<1>2. L \in Nat /\ w \in Seq(Entry) /\ DOMAIN w = 1 .. L /\ Len(w) = L /\ Base = <<Magic>> \o w
  BY <1>1, SaneFacts
<1>3. Args = {} /\ b \in BOOLEAN /\ DOMAIN a = {} /\ DOMAIN g = {}
  <2>1. Len(cmd.argv) = 0
    BY LenProperties
  <2> QED BY <1>0, <1>1, <2>1, CommandFacts DEF Args
<1>4. Hits(w, a) = {} /\ Used(w, a) = {}
  BY <1>3, NoArgs
<1>5. At(w, DOMAIN w) = w
  <2>1. L \in 0 .. Len(w)
    BY <1>2
  <2>2. At(w, 1 .. L) = SubSeq(w, 1, L)
    BY <1>2, <2>1, AtAll
  <2>3. SubSeq(w, 1, Len(w)) = w
    BY <1>2, SubSeqFull
  <2> QED BY <1>2, <2>2, <2>3
<1>6. Stale(w, a, g, u) = {}
  BY <1>4 DEF Stale
<1>7. Renewed(w, a, g, u) = w
  <2>1. Renewed(w, a, g, u) = [i \in DOMAIN w |-> w[i]]
    BY <1>6 DEF Renewed
  <2>2. w = [i \in DOMAIN w |-> w[i]]
    BY <1>2, LenProperties
  <2> QED BY <2>1, <2>2
<1>8. \A s \in Seq(Entry) : Beside(s, << >>, Anchor(s, DOMAIN s, pos), b) = s
  <2> SUFFICES ASSUME NEW s \in Seq(Entry) PROVE Beside(s, << >>, Anchor(s, DOMAIN s, pos), b) = s
    OBVIOUS
  <2>1. PICK l, I : l = Len(s) /\ I = DOMAIN s
    OBVIOUS
  <2>2. l \in Nat
    BY <2>1, LenProperties
  <2>3. I \subseteq 1 .. l
    BY <2>1, LenProperties
  <2>4. Anchor(s, I, pos) \in 0 .. l
    BY <2>2, <2>3, AnchorIs, Zenon
  <2>5. PICK p : p = Anchor(s, I, pos)
    OBVIOUS
  <2>6. p \in 0 .. Len(s)
    BY <2>1, <2>4, <2>5
  <2> QED BY <1>3, <2>1, <2>5, <2>6, BesideNone
<1>9. DOMAIN w \ {} = DOMAIN w /\ DOMAIN a \ {} = {} /\ At(g, {}) = << >> /\ At(w, {}) = << >>
  BY <1>3, AtEmpty
<1>10. CASE cmd.key = "r"
  <2>1. Change = Beside(Renewed(w, a, g, u), At(g, DOMAIN a \ Used(w, a)),
                        Anchor(w, DOMAIN w \ Stale(w, a, g, u), pos), b)
    BY <1>1, <1>10, EditIs DEF StaleSet
  <2>2. Change = Beside(w, << >>, Anchor(w, DOMAIN w, pos), b)
    BY <1>4, <1>6, <1>7, <1>9, <2>1
  <2> QED BY <1>1, <1>2, <1>3, <1>4, <1>8, <2>2, EditedIs DEF AllFound
<1>11. CASE cmd.key = "m"
  <2>1. Change = Beside(At(w, DOMAIN w \ Hits(w, a)), At(w, Hits(w, a)),
                        Anchor(At(w, DOMAIN w \ Hits(w, a)), DOMAIN At(w, DOMAIN w \ Hits(w, a)), pos), b)
    BY <1>1, <1>11, EditIs DEF HitSet
  <2>2. Change = Beside(w, << >>, Anchor(w, DOMAIN w, pos), b)
    BY <1>4, <1>5, <1>9, <2>1
  <2> QED BY <1>1, <1>2, <1>3, <1>4, <1>8, <2>2, EditedIs DEF AllFound
<1>12. CASE cmd.key = "d"
  <2>1. Change = At(w, DOMAIN w \ Hits(w, a))
    BY <1>1, <1>12, EditIs DEF HitSet
  <2>2. Change = w
    BY <1>4, <1>5, <1>9, <2>1
  <2> QED BY <1>1, <1>2, <1>3, <1>4, <2>2, EditedIs DEF AllFound
<1>13. CASE cmd.key = "q"
  <2>1. Change = w \o g
    BY <1>1, <1>13, EditIs
  <2>2. g = << >>
    <3>1. g = [i \in DOMAIN g |-> g[i]]
      <4>1. g = [i \in DOMAIN cmd.argv |-> g[i]]
        BY <1>1 DEF ArgMembers
      <4>2. DOMAIN g = DOMAIN cmd.argv
        BY <1>1 DEF ArgMembers
      <4> QED BY <4>1, <4>2
    <3>2. g \in [1 .. 0 -> Entry]
      BY <1>3, <3>1
    <3>3. g \in Seq(Entry) /\ Len(g) = 0
      BY <3>2
    <3> QED BY <3>3, EmptySeq
  <2>3. Change = w
    BY <1>2, <2>1, <2>2, ConcatEmptySeq
  <2> QED BY <1>1, <1>2, <1>3, <1>4, <2>3, EditedIs DEF AllFound
<1> QED BY <1>10, <1>11, <1>12, <1>13

-----------------------------------------------------------------------------
(* The loop of run() begins and ends.                                      *)

\* A run that a failing call ends, and one that was given no proper input.
LEMMA FaultStops ==
    ASSUME Inv, pc # "end", Fault, error, UNCHANGED <<tmps, n, cur>>,
           argv' \in [DOMAIN cmd.argv -> Paths \cup {NULL}],
           files' \in [Paths -> {NoFile} \cup File]
    PROVE  Inv'
<1>1. exit(1)
  BY DEF error
<1>2. cmd' = cmd /\ old' = old /\ status' = 1
  BY <1>1 DEF exit, Gone
<1>3. faults' = faults + 1 /\ faults' \in {faults, faults + 1}
  BY DEF Fault
<1>4. EditsList'
  BY <1>2, <1>3, FaultEnd, Kinds
<1> QED BY <1>1, <1>3, <1>4, ExitEnds

LEMMA InsaneStops ==
    ASSUME Inv, pc # "end", ~Sane, error, UNCHANGED <<tmps, n, cur, faults>>,
           argv' \in [DOMAIN cmd.argv -> Paths \cup {NULL}],
           files' \in [Paths -> {NoFile} \cup File]
    PROVE  Inv'
<1>1. exit(1)
  BY DEF error
<1>2. cmd' = cmd /\ old' = old
  BY <1>1 DEF exit, Gone
<1>3. EditsList'
  BY <1>2, InsaneEnd
<1>4. faults' \in {faults, faults + 1}
  OBVIOUS
<1> QED BY <1>1, <1>3, <1>4, ExitEnds

\* The header that is read.
LEMMA Reading ==
    ASSUME Inv, pc = "run"
    PROVE  /\ Opened /\ buf = << >> /\ n \in Nat /\ n >= 2 /\ cmd.key # "q" /\ Kept
           /\ arfile # NoFile /\ Len(arfile) \in Nat /\ Len(arfile) >= 1
           /\ ~AtEnd /\ ~Misplaced => arfile[n] \in Entry
           /\ Sane => /\ Len(Mem) \in Nat /\ n - 2 \in 0 .. Len(Mem) /\ ~Misplaced
                      /\ AtEnd => n - 2 = Len(Mem)
                      /\ ~AtEnd => n - 2 \in 0 .. Len(Mem) - 1 /\ arfile[n] = Mem[n - 1]
<1>1. /\ Opened /\ buf = << >> /\ n >= 2 /\ cmd.key # "q" /\ Kept
      /\ Sane => n - 2 <= Len(Mem)
  BY DEF Inv, Running
<1>2. n \in Nat /\ TypeOK
  BY Kinds
<1>3. arfile # NoFile /\ Store(arfile) /\ arfile \in Seq(Item) /\ arfile # << >>
  BY <1>1, <1>2, OpenedFacts
<1>4. Len(arfile) \in Nat /\ Len(arfile) >= 1
  BY <1>3, EmptySeq, LenProperties
<1>5. ASSUME ~AtEnd, ~Misplaced PROVE arfile[n] \in Entry
  <2>1. n \in 2 .. Len(arfile)
    BY <1>1, <1>2, <1>4, <1>5 DEF AtEnd
  <2>2. arfile[n] # Magic
    BY <1>3, <2>1 DEF Store
  <2>3. arfile[n] \in Item
    BY <1>3, <2>1, ElementOfSeq
  <2>4. arfile[n] # Stub
    BY <1>5 DEF Misplaced
  <2> QED BY <2>2, <2>3, <2>4, ItemFacts
<1>6. ASSUME Sane
      PROVE  /\ Len(Mem) \in Nat /\ n - 2 \in 0 .. Len(Mem) /\ ~Misplaced
             /\ AtEnd => n - 2 = Len(Mem)
             /\ ~AtEnd => n - 2 \in 0 .. Len(Mem) - 1 /\ arfile[n] = Mem[n - 1]
  <2>1. PICK L : L = Len(Mem)
    OBVIOUS
  <2>2. /\ L \in Nat /\ Len(arfile) = L + 1 /\ arfile[1] = Magic
        /\ \A i \in 1 .. L : arfile[i + 1] = Mem[i] /\ Mem[i] \in Entry /\ Mem[i].kind = "member"
    BY <1>1, <1>2, <1>6, <2>1, SaneFacts DEF Opened
  <2>3. n - 2 \in 0 .. L
    BY <1>1, <1>2, <1>6, <2>1, <2>2
  <2>4. ASSUME n <= L + 1
        PROVE  n - 1 \in 1 .. L /\ arfile[n] = Mem[n - 1] /\ arfile[n] # Stub
    <3>1. n - 1 \in 1 .. L /\ (n - 1) + 1 = n
      BY <1>1, <1>2, <2>2, <2>4
    <3>2. arfile[(n - 1) + 1] = Mem[n - 1] /\ Mem[n - 1] \in Entry
      BY <2>2, <3>1
    <3> QED BY <3>1, <3>2, ItemFacts
  <2>5. AtEnd <=> n > L + 1
    BY <1>2, <2>2, <2>4 DEF AtEnd
  <2>6. AtEnd => n - 2 = L
    BY <1>2, <2>2, <2>3, <2>5
  <2>7. ~AtEnd => n - 2 \in 0 .. L - 1 /\ arfile[n] = Mem[n - 1] /\ arfile[n] # Stub
    BY <1>1, <1>2, <2>2, <2>4, <2>5
  <2>8. ~AtEnd => arfile[n - 1].kind # "cut"
    <3>1. CASE n = 2
      <4>1. n - 1 = 1 /\ Magic.kind = "magic"
        BY <3>1 DEF Magic
      <4> QED BY <2>2, <4>1
    <3>2. CASE n # 2 /\ ~AtEnd
      <4>1. n - 2 \in 1 .. L /\ (n - 2) + 1 = n - 1
        BY <1>1, <1>2, <2>2, <2>7, <3>2
      <4>2. arfile[(n - 2) + 1] = Mem[n - 2] /\ Mem[n - 2].kind = "member"
        BY <2>2, <4>1
      <4> QED BY <4>1, <4>2
    <3> QED BY <3>1, <3>2
  <2>9. ~Misplaced
    BY <2>7, <2>8 DEF Misplaced
  <2> QED BY <2>1, <2>2, <2>3, <2>6, <2>7, <2>9
<1> QED BY <1>1, <1>2, <1>3, <1>4, <1>5, <1>6

LEMMA StepReadError == ASSUME Inv, ReadError PROVE Inv'
<1>1. pc # "end" /\ Fault /\ error /\ UNCHANGED <<tmps, n, cur>> /\ argv' = argv /\ files' = files
  BY DEF ReadError
<1> QED BY <1>1, FaultStops, Kinds

LEMMA StepCorrupted == ASSUME Inv, Corrupted PROVE Inv'
<1>1. pc = "run" /\ Misplaced /\ UNCHANGED <<files, tmps, argv, out, cur, faults>>
  BY DEF Corrupted
<1>2. ~Sane /\ Opened /\ buf = << >> /\ n >= 2 /\ cmd.key # "q" /\ Kept /\ Len(arfile) \in Nat /\ Len(arfile) >= 1
  BY <1>1, Reading
<1>3. CASE error /\ n' = n
  <2>1. pc # "end" /\ UNCHANGED <<tmps, n, cur, faults>>
    BY <1>1, <1>3
  <2> QED BY <1>1, <1>2, <1>3, <2>1, InsaneStops, Kinds
<1>4. CASE /\ n' = Len(arfile) + 1
           /\ pc' = pc
           /\ UNCHANGED <<arfile, buf, names, cmd, status, at, old, runs>>
  <2>1. n' \in Nat /\ n' >= 2
    BY <1>2, <1>4
  <2>2. TypeOK' /\ (~Clean' => faults' > old'.faults)
    BY <1>1, <1>4, <2>1, Kinds, Quiet
  <2>3. Sane' = Sane /\ Base' = Base
    BY <1>4, Rigid
  <2>4. Opened' /\ Kept'
    BY <1>1, <1>2, <1>4, <2>3 DEF Opened, Kept
  <2>5. Running'
    BY <1>2, <1>4, <2>1, <2>3, <2>4 DEF Running
  <2>6. pc' = "run" /\ pc' \in Places \ {"end"}
    BY <1>1, <1>4 DEF Places
  <2> QED BY <2>2, <2>5, <2>6, GoesOn
<1> QED BY <1>3, <1>4 DEF Corrupted

LEMMA Stepopentmp == ASSUME Inv, opentmp PROVE Inv'
<1>1. pc = "tmps" /\ Fresh /\ Opened /\ buf = << >> /\ Editing
  BY DEF Inv, Opening, opentmp
<1>2. UNCHANGED <<files, tmps, argv, out, cur>>
  BY DEF opentmp
<1>3. CASE Fault /\ error /\ n' = n
  <2>1. pc # "end" /\ UNCHANGED <<tmps, n, cur>>
    BY <1>1, <1>2, <1>3
  <2> QED BY <1>2, <1>3, <2>1, FaultStops, Kinds
<1>4. CASE /\ names' = IF cmd.l THEN names \cup {n} ELSE names
           /\ IF n = (IF cmd.key = "d" THEN BEFORE ELSE AFTER)
              THEN pc' = "run" /\ n' = 2
              ELSE pc' = pc /\ n' = n + 1
           /\ UNCHANGED <<arfile, buf, cmd, status, at, old, runs, faults>>
  <2>0. n' \in Nat
    BY <1>4, Kinds
  <2>1. TypeOK' /\ (~Clean' => faults' > old'.faults)
    BY <1>2, <1>4, <2>0, Kinds, Quiet
  <2>2. CASE n = (IF cmd.key = "d" THEN BEFORE ELSE AFTER)
    <3>1. pc' = "run" /\ n' = 2
      BY <1>4, <2>2
    <3>2. cmd.key # "q" /\ buf' = << >> /\ TypeOK
      BY <1>1, <1>4, Kinds DEF Editing
    <3>3. Running'
      BY <1>1, <1>2, <1>4, <3>1, <3>2, Begin
    <3>4. pc' \in Places \ {"end"}
      BY <3>1 DEF Places
    <3> QED BY <2>1, <3>1, <3>3, <3>4, GoesOn
  <2>3. CASE n # (IF cmd.key = "d" THEN BEFORE ELSE AFTER)
    <3>1. pc' = "tmps"
      BY <1>1, <1>4, <2>3
    <3>2. Base' = Base
      BY <1>4, Rigid
    <3>3. Fresh' /\ Opened' /\ buf' = << >> /\ Editing'
      BY <1>1, <1>2, <1>4, <3>2 DEF Fresh, Opened, Editing
    <3>4. Opening'
      BY <3>1, <3>3 DEF Opening
    <3>5. pc' \in Places \ {"end"}
      BY <3>1 DEF Places
    <3> QED BY <2>1, <3>1, <3>4, <3>5, GoesOn
  <2> QED BY <2>2, <2>3
<1> QED BY <1>3, <1>4 DEF opentmp

LEMMA Stepar == ASSUME Inv, ar PROVE Inv'
<1>1. pc = "ar" /\ Fresh /\ Opened /\ buf = << >>
  BY DEF Inv, Opening, ar
<1>2. UNCHANGED <<arfile, buf, files, tmps, names, cmd, argv, out, cur, status, at, old, runs, faults>>
  BY DEF ar
<1>3. argv = cmd.argv /\ files = old.files /\ TypeOK /\ cmd \in Commands
  BY <1>1, Kinds DEF Fresh
<1>4. ASSUME n' \in Nat PROVE TypeOK' /\ (~Clean' => faults' > old'.faults)
  BY <1>2, <1>4, Kinds, Quiet
<1>5. Base' = Base /\ Sane' = Sane /\ Edited' = Edited /\ Mem' = Mem /\ ArgNames' = ArgNames /\ ArgMembers' = ArgMembers
  BY <1>2, Rigid
<1>6. Fresh' /\ Opened' /\ Kept' /\ Editing' = Editing
  BY <1>1, <1>2, <1>3, <1>5 DEF Fresh, Opened, Kept, Editing
<1>7. CASE argv = <<>> /\ cmd.key \in {"r", "d", "m", "q"} /\ pc' = "exit" /\ n' = n
  <2>1. TypeOK' /\ (~Clean' => faults' > old'.faults)
    BY <1>4, <1>7, Kinds
  <2>2. ASSUME Sane PROVE arfile = Edited /\ AllFound(Mem, ArgNames)
    BY <1>1, <1>3, <1>7, <2>2, EditNoArgs DEF Opened
  <2>3. Gave(Len(Mem))'
    BY <1>2, <1>7 DEF Gave
  <2>4. Closing'
    BY <1>1, <1>2, <1>5, <1>7, <2>2, <2>3 DEF Closing
  <2>5. pc' \in Places \ {"end"}
    BY <1>7 DEF Places
  <2> QED BY <1>7, <2>1, <2>4, <2>5, GoesOn
<1>8. CASE argv # <<>> /\ Editing /\ pc' = "tmps" /\ n' = 0
  <2>1. TypeOK' /\ (~Clean' => faults' > old'.faults)
    BY <1>4, <1>8
  <2>2. Opening'
    BY <1>1, <1>2, <1>6, <1>8 DEF Opening
  <2>3. pc' \in Places \ {"end"}
    BY <1>8 DEF Places
  <2> QED BY <1>8, <2>1, <2>2, <2>3, GoesOn
<1>9. CASE cmd.key \in {"t", "p", "x"} /\ pc' = "run" /\ n' = 2
  <2>1. TypeOK' /\ (~Clean' => faults' > old'.faults)
    BY <1>4, <1>9
  <2>2. cmd.key # "q" /\ buf' = << >>
    BY <1>1, <1>2, <1>9
  <2>3. Running'
    BY <1>1, <1>2, <1>3, <1>9, <2>2, Begin
  <2>4. pc' \in Places \ {"end"}
    BY <1>9 DEF Places
  <2> QED BY <1>9, <2>1, <2>3, <2>4, GoesOn
<1>10. CASE argv # <<>> /\ cmd.key = "q" /\ pc' = "append" /\ n' = 1
  <2>1. TypeOK' /\ (~Clean' => faults' > old'.faults)
    BY <1>4, <1>10
  <2>2. n' - 1 = 0 /\ n' \in 1 .. Len(cmd.argv) + 1
    BY <1>3, <1>10, CommandFacts
  <2>3. SubSeq(ArgMembers, 1, 0) = << >>
    BY SubSeqEmpty
  <2>4. Crossed({}) = cmd.argv /\ 1 .. 0 = {}
    BY <1>3, Nothing
  <2>5. Crossed(1 .. 0)' = cmd.argv
    BY <1>2, <2>4, Rigid
  <2>6. Adding'
    BY <1>1, <1>2, <1>3, <1>5, <1>6, <1>10, <2>2, <2>3, <2>4, <2>5 DEF Adding
  <2>7. pc' \in Places \ {"end"}
    BY <1>10 DEF Places
  <2> QED BY <1>10, <2>1, <2>6, <2>7, GoesOn
<1> QED BY <1>7, <1>8, <1>9, <1>10 DEF ar

\* What is in memory when the members are sorted.
LEMMA Sorting ==
    ASSUME Inv, pc = "run", AtEnd, Sane
    PROVE  /\ argv = Crossed(Used(Mem, ArgNames)) /\ Gave(Len(Mem))
           /\ Editing => Sorted(Len(Mem))
<1>1. TypeOK /\ n - 2 = Len(Mem)
  BY Kinds, Reading
<1>2. argv = Crossed(UsedBy(n - 2)) /\ Gave(n - 2) /\ (Editing => Sorted(n - 2))
  BY DEF Inv, Running
<1>3. UsedBy(Len(Mem)) = Used(Mem, ArgNames)
  BY <1>1, UsedEnds
<1> QED BY <1>1, <1>2, <1>3

LEMMA StepEndRun == ASSUME Inv, EndRun PROVE Inv'
<1>1. pc = "run" /\ AtEnd /\ n' = 1
  BY DEF EndRun
<1>2. UNCHANGED <<arfile, buf, files, tmps, names, cmd, argv, out, cur, status, at, old, runs, faults>>
  BY DEF EndRun
<1>3. Opened /\ buf = << >> /\ cmd.key # "q" /\ Kept
  BY <1>1, Reading
<1>4. TypeOK' /\ (~Clean' => faults' > old'.faults)
  BY <1>1, <1>2, Kinds, Quiet
<1>5. /\ Base' = Base /\ Sane' = Sane /\ Edited' = Edited /\ Mem' = Mem /\ ArgNames' = ArgNames
      /\ ArgMembers' = ArgMembers /\ Change' = Change /\ Final' = Final /\ HitSet' = HitSet
  BY <1>2, Rigid
<1>6. Opened' /\ Kept' /\ Editing' = Editing /\ Clean' = Clean /\ Joined' = Joined
  BY <1>2, <1>3, <1>5 DEF Opened, Kept, Editing, Clean, Joined
<1>7. cmd.key \in {"r", "m", "d", "t", "p", "x"} /\ TypeOK /\ cmd \in Commands
  BY <1>3, Kinds, CommandFacts
<1>8. CASE cmd.key = "r"
  <2>1. pc' = "insert"
    BY <1>8 DEF EndRun
  <2>2. n' \in 1 .. Len(cmd.argv) + 1 /\ 1 .. n' - 1 = {}
    BY <1>1, <1>7, CommandFacts
  <2>3. ASSUME Sane
        PROVE  /\ argv = Crossed(Used(Mem, ArgNames) \cup (1 .. n' - 1))
               /\ Clean => /\ Split(Stay(Len(Mem)), Mark(Len(Mem)))
                           /\ tmps[INDOT].items = At(ArgMembers, (1 .. n' - 1) \ Used(Mem, ArgNames))
    <3>1. PICK U : U = Used(Mem, ArgNames)
      OBVIOUS
    <3>2. argv = Crossed(U)
      BY <1>1, <2>3, <3>1, Sorting
    <3>3. U \cup (1 .. n' - 1) = U /\ (1 .. n' - 1) \ U = {}
      BY <2>2
    <3>4. At(ArgMembers, {}) = << >>
      BY AtEmpty
    <3>5. Sorted(Len(Mem))
      BY <1>1, <1>8, <2>3, Sorting DEF Editing
    <3>6. Clean => Split(Stay(Len(Mem)), Mark(Len(Mem))) /\ tmps[INDOT].items = << >>
      BY <1>8, <3>5 DEF Sorted
    <3> QED BY <3>1, <3>2, <3>3, <3>4, <3>6
  <2>4. PICK s, p, U, V : /\ s = Stay(Len(Mem)) /\ p = Mark(Len(Mem)) /\ U = Crossed(Used(Mem, ArgNames) \cup (1 .. n' - 1))
                          /\ V = At(ArgMembers, (1 .. n' - 1) \ Used(Mem, ArgNames))
    OBVIOUS
  <2>5. /\ Stay(Len(Mem))' = s /\ Mark(Len(Mem))' = p
        /\ Crossed(Used(Mem, ArgNames) \cup (1 .. n - 1))' = U
        /\ At(ArgMembers, (1 .. n - 1) \ Used(Mem, ArgNames))' = V
    BY <1>2, <1>5, <2>4, Rigid
  <2>6. Sane => argv' = U /\ (Clean' => Split(s, p)' /\ tmps'[INDOT].items = V)
    BY <1>2, <1>6, <2>3, <2>4 DEF Split
  <2>7. pc' \in Places \ {"end"}
    BY <2>1 DEF Places
  <2>8. Adding'
    <3>1. Sane' => /\ argv' = Crossed(Used(Mem, ArgNames) \cup (1..n - 1))'
                   /\ Clean' => /\ Split(Stay(Len(Mem)), Mark(Len(Mem)))'
                                /\ tmps'[INDOT].items =
                                       At(ArgMembers, (1..n - 1) \ Used(Mem, ArgNames))'
      <4>1. Split(Stay(Len(Mem)), Mark(Len(Mem)))' = Split(s, p)'
        BY <2>5 DEF Split
      <4> QED BY <1>5, <2>5, <2>6, <4>1
    <3> QED BY <1>2, <1>3, <1>6, <1>8, <2>1, <2>2, <3>1 DEF Adding
  <2> QED BY <1>4, <2>1, <2>7, <2>8, GoesOn
<1>9. CASE cmd.key \in {"m", "d"}
  <2>1. pc' = "merge"
    BY <1>9 DEF EndRun
  <2>2. Editing
    BY <1>9 DEF Editing
  <2>3. ASSUME Sane PROVE argv = Final /\ (Clean => Joined = Change)
    <3>1. argv = Crossed(Used(Mem, ArgNames)) /\ Sorted(Len(Mem))
      BY <1>1, <2>2, <2>3, Sorting
    <3>2. argv = Final
      BY <1>9, <3>1 DEF Final
    <3>3. ASSUME Clean PROVE Joined = Change
      <4>1. PICK L : L = Len(Mem)
        OBVIOUS
      <4>2. Split(Stay(L), Mark(L)) /\ tmps[INDOT].items = IF cmd.key = "m" THEN At(Mem, (1 .. L) \cap HitSet) ELSE << >>
        BY <3>1, <3>3, <4>1 DEF Sorted
      <4>3. DOMAIN Mem = 1 .. L /\ HitSet \subseteq DOMAIN Mem
        BY <1>7, <2>3, <4>1, SaneFacts, HitIs DEF HitSet
      <4>4. (1 .. L) \cap HitSet = HitSet
        BY <4>3
      <4>5. tmps[INDOT].items = (CASE cmd.key = "r" -> At(ArgMembers, DOMAIN ArgNames \ Used(Mem, ArgNames))
                                  [] cmd.key = "m" -> At(Mem, HitSet)
                                  [] OTHER -> << >>)
        <5>1. CASE cmd.key = "m"
          BY <4>2, <4>4, <5>1
        <5>2. CASE cmd.key = "d"
          BY <4>2, <5>2
        <5> QED BY <1>9, <5>1, <5>2
      <4> QED BY <1>7, <2>2, <2>3, <4>1, <4>2, <4>5, Joins
    <3> QED BY <3>2, <3>3
  <2>4. Merging'
    BY <1>2, <1>5, <1>6, <2>3 DEF Merging
  <2>5. Rewriting'
    BY <1>2, <1>3, <1>6, <2>1, <2>2, <2>4 DEF Rewriting
  <2>6. pc' \in Places \ {"end"}
    BY <2>1 DEF Places
  <2> QED BY <1>4, <2>1, <2>5, <2>6, GoesOn
<1>10. CASE cmd.key \in {"t", "p", "x"}
  <2>1. pc' = "check"
    BY <1>10 DEF EndRun
  <2>2. ASSUME Sane PROVE arfile = Edited /\ argv = Final /\ Gave(Len(Mem))
    <3>1. Edited = <<Magic>> \o Mem
      BY <1>10, EditIs, EditedIs
    <3>2. arfile = Edited
      BY <1>3, <1>7, <2>2, <3>1, SaneFacts DEF Opened
    <3> QED BY <1>1, <1>10, <2>2, <3>2, Sorting DEF Final
  <2>3. PICK s : s = ShownBy(Len(Mem))
    OBVIOUS
  <2>4. ShownBy(Len(Mem))' = s
    BY <1>2, <1>5, <2>3, Rigid
  <2>5. Gave(Len(Mem)) => Gave(Len(Mem))'
    BY <1>2, <2>3, <2>4 DEF Gave
  <2>6. Closing'
    BY <1>2, <1>3, <1>5, <2>1, <2>2, <2>5 DEF Closing
  <2>7. pc' \in Places \ {"end"}
    BY <2>1 DEF Places
  <2> QED BY <1>4, <2>1, <2>6, <2>7, GoesOn
<1> QED BY <1>7, <1>8, <1>9, <1>10

-----------------------------------------------------------------------------
(* One turn of the loop.                                                   *)

LEMMA Turn ==
    ASSUME Inv, pc = "run", Advance,
           argv' \in [DOMAIN cmd.argv -> Paths \cup {NULL}],
           files' \in [Paths -> {NoFile} \cup File],
           tmps' \in [0 .. 2 -> Temp], cur' \in {BEFORE, AFTER},
           faults' \in Nat, faults' >= faults,
           ~Clean' => ~Clean \/ faults' > faults,
           cmd.key # "x" => files' = files,
           NEW k, k = n - 1, NEW s, s = Stay(k), NEW p, p = Mark(k),
           Sane => /\ k <= Len(Mem) /\ argv' = Crossed(UsedBy(k))
                   /\ cmd.key \in {"t", "p"} => out' = ShownBy(k)
                   /\ cmd.key = "x" => files' = Unpacked(ShownBy(k), old.files)
                   /\ Editing /\ Clean' =>
                         /\ Split(s, p)'
                         /\ tmps'[INDOT].items = IF cmd.key = "m" THEN At(Mem, (1 .. k) \cap HitSet) ELSE << >>
    PROVE  Inv'
<1>1. Opened /\ buf = << >> /\ n \in Nat /\ n >= 2 /\ cmd.key # "q" /\ Kept
  BY Reading
<1>2. pc' = "run" /\ n' = n + 1 /\ UNCHANGED <<arfile, buf, cmd, old>>
  BY DEF Advance
<1>3. k \in Nat /\ n' = k + 2 /\ n' \in Nat /\ buf' = << >> /\ arfile' = arfile /\ cmd' = cmd /\ old' = old
  BY <1>1, <1>2
<1>4. TypeOK'
  <2>1. buf' \in Seq(Item) /\ (arfile' = NoFile \/ Store(arfile')) /\ TypeOK
    BY <1>2, Kinds
  <2> QED BY <1>3, <2>1, TypeKept
<1>5. ~Clean' => faults' > old'.faults
  BY <1>3, Kinds, CleanKept
<1>6. cmd.key # "x" => files' = old.files
  BY <1>1 DEF Kept
<1>7. Running'
  BY <1>1, <1>3, <1>6, RunningIs
<1>8. pc' \in Places \ {"end"}
  BY <1>2 DEF Places
<1> QED BY <1>2, <1>4, <1>5, <1>7, <1>8, GoesOn

LEMMA PlaceIs ==
    ASSUME tmps \in [0 .. 2 -> Temp], faults \in Nat, cur \in {BEFORE, AFTER},
           NEW m \in Entry, Place(m)
    PROVE  /\ tmps' \in [0 .. 2 -> Temp] /\ faults' \in Nat /\ faults' >= faults
           /\ cur' \in {BEFORE, AFTER}
           /\ ~Clean' => ~Clean \/ faults' > faults
<1>1. \E t \in 0 .. 2 : Put(t, m)
  BY DEF Place, BEFORE, AFTER
<1>2. cur' \in {BEFORE, AFTER}
  BY DEF Place
<1> QED BY <1>1, <1>2, PutIs

LEMMA TakeIs ==
    ASSUME argv \in [DOMAIN cmd.argv -> Paths \cup {NULL}], NEW x, Take(x)
    PROVE  argv' \in [DOMAIN cmd.argv -> Paths \cup {NULL}]
BY DEF Take

\* A member that stays where the place is.
LEMMA Placed ==
    ASSUME Inv, pc = "run", ~AtEnd, Sane, cmd.key \in {"r", "m"}, cmd' = cmd,
           NEW m, m = arfile[n], Place(m), NEW k, k = n - 1,
           k \notin (IF cmd.key = "r" THEN StaleSet ELSE HitSet),
           NEW t, t = Stay(k), NEW q, q = Mark(k)
    PROVE  Clean' => Clean /\ Split(t, q)' /\ tmps'[INDOT].items = tmps[INDOT].items
<1>1. PICK j : j = n - 2
  OBVIOUS
<1>2. n \in Nat /\ j \in 0 .. Len(Mem) - 1 /\ Len(Mem) \in Nat /\ arfile[n] = Mem[n - 1]
  BY <1>1, Reading
<1>3. k = j + 1 /\ j \in 0 .. Len(Mem) /\ k \in 1 .. Len(Mem)
  BY <1>1, <1>2
<1>4. m = Mem[j + 1] /\ m \in Entry
  BY <1>2, <1>3, Kinds, SaneFacts
<1>5. PICK s, p : s = Stay(j) /\ p = Mark(j)
  OBVIOUS
<1>6. Editing /\ TypeOK
  BY Kinds DEF Editing
<1>7. Stay(j) \in Seq(Entry) /\ Mark(j) \in 0 .. Len(Stay(j))
  BY <1>3, <1>6, StayFacts
<1>8. s \in Seq(Entry) /\ p \in 0 .. Len(s)
  BY <1>5, <1>7
<1>9. Clean => Split(s, p)
  <2>1. Sorted(j)
    BY <1>1, <1>6 DEF Inv, Running
  <2> QED BY <1>5, <2>1 DEF Sorted
<1>10. /\ Stay(j + 1) = Append(Stay(j), Mem[j + 1])
       /\ Mark(j + 1) = IF Mark(j) # 0 THEN Mark(j) ELSE IF Mem[j + 1].name = cmd.pos THEN Len(Stay(j)) + 1 ELSE 0
       /\ Mark(j) # 0 /\ Mem[j + 1].name = cmd.pos => cmd.b
  <2>1. j + 1 \notin (IF cmd.key = "r" THEN StaleSet ELSE HitSet)
    BY <1>3
  <2>2. cmd.key # "d"
    OBVIOUS
  <2> QED BY <1>2, <1>6, <2>1, <2>2, StayPlace
<1>11. t = Append(s, m) /\ q = (IF p # 0 THEN p ELSE IF m.name = cmd.pos THEN Len(s) + 1 ELSE 0)
  BY <1>3, <1>4, <1>5, <1>10
<1>12. p # 0 /\ m.name = cmd.pos => cmd.b
  BY <1>4, <1>5, <1>10
<1>13. tmps \in [0 .. 2 -> Temp] /\ faults \in Nat /\ cmd \in Commands /\ cur \in {BEFORE, AFTER}
  BY Kinds
<1> QED BY <1>4, <1>8, <1>9, <1>11, <1>12, <1>13, PlaceGrows

\* The members that are listed or extracted.
LEMMA Picked ==
    ASSUME Inv, pc = "run", ~AtEnd, Sane, NEW m, m = arfile[n], NEW k, k = n - 1
    PROVE  /\ ShownBy(k - 1) \in Seq(Entry)
           /\ Select(m) => ShownBy(k) = Append(ShownBy(k - 1), m) /\ argv' = Crossed(UsedBy(k))
           /\ Skip(m) => ShownBy(k) = ShownBy(k - 1) /\ argv' = Crossed(UsedBy(k))
<1>1. PICK j : j = n - 2
  OBVIOUS
<1>2. n \in Nat /\ j \in 0 .. Len(Mem) - 1 /\ Len(Mem) \in Nat /\ arfile[n] = Mem[n - 1]
  BY <1>1, Reading
<1>3. k = j + 1 /\ j \in Nat /\ k - 1 = j /\ j + 1 \in 1 .. Len(Mem)
  BY <1>1, <1>2
<1>4. TypeOK /\ cmd \in Commands /\ argv \in [DOMAIN cmd.argv -> Paths \cup {NULL}]
  BY Kinds
<1>5. m = Mem[j + 1] /\ m \in Entry /\ \A i \in 1 .. j + 1 : Mem[i] \in Entry
  BY <1>2, <1>3, <1>4, SaneFacts
<1>6. argv = Crossed(UsedBy(j))
  BY <1>1 DEF Inv, Running
<1>7. CASE cmd.argv = << >>
  <2>1. DOMAIN cmd.argv = {} /\ DOMAIN ArgNames = {}
    <3>1. Len(cmd.argv) = 0
      BY <1>7, LenProperties
    <3> QED BY <1>4, <3>1, CommandFacts DEF Args
  <2>2. argv = << >>
    BY <2>1, <1>4
  <2>3. Crossed(UsedBy(k)) = argv
    BY <1>6, <2>1 DEF UsedBy
  <2>4. SubSeq(Mem, 1, j) \in Seq(Entry) /\ SubSeq(Mem, 1, j + 1) = Append(SubSeq(Mem, 1, j), Mem[j + 1])
    BY <1>3, <1>5, SubExtend
  <2>5. ShownBy(k) = SubSeq(Mem, 1, j + 1) /\ ShownBy(k - 1) = SubSeq(Mem, 1, j)
    BY <1>3, <1>7 DEF ShownBy
  <2>6. Select(m) => argv' = argv
    BY <2>2 DEF Select
  <2>7. ~Skip(m)
    BY <2>2 DEF Skip
  <2> QED BY <1>5, <2>3, <2>4, <2>5, <2>6, <2>7
<1>8. CASE cmd.argv # << >>
  <2>1. argv # << >>
    <3>1. Len(cmd.argv) # 0 /\ Len(cmd.argv) \in Nat
      BY <1>4, <1>8, CommandFacts, EmptySeq
    <3>2. 1 \in DOMAIN argv
      BY <1>4, <3>1, CommandFacts DEF Args
    <3> QED BY <3>2
  <2>2. PICK x : x = m.name
    OBVIOUS
  <2>3. /\ Named(x) = {} => j + 1 \notin HitSet /\ UsedBy(j + 1) = UsedBy(j)
        /\ Named(x) # {} => j + 1 \in HitSet /\ [argv EXCEPT ![inlist(x)] = NULL] = Crossed(UsedBy(j + 1))
    BY <1>2, <1>4, <1>5, <1>6, <2>2, Look
  <2>4. /\ At(Mem, (1 .. j) \cap HitSet) \in Seq(Entry)
        /\ At(Mem, (1 .. j + 1) \cap HitSet) = IF j + 1 \in HitSet THEN Append(At(Mem, (1 .. j) \cap HitSet), Mem[j + 1])
                                               ELSE At(Mem, (1 .. j) \cap HitSet)
    BY <1>2, <1>4, HitsGrow
  <2>5. ShownBy(k) = At(Mem, (1 .. j + 1) \cap HitSet) /\ ShownBy(k - 1) = At(Mem, (1 .. j) \cap HitSet)
    BY <1>3, <1>8 DEF ShownBy
  <2>6. Select(m) => Named(x) # {} /\ argv' = [argv EXCEPT ![inlist(x)] = NULL]
    BY <2>1, <2>2 DEF Select, Take
  <2>7. Skip(m) => Named(x) = {} /\ argv' = argv
    BY <2>2 DEF Skip
  <2> QED BY <1>3, <1>5, <1>6, <2>3, <2>4, <2>5, <2>6, <2>7
<1> QED BY <1>7, <1>8

\* What the code reads of the member it is at.
LEMMA Here ==
    ASSUME Inv, pc = "run", ~AtEnd, Sane, NEW k, k = n - 1
    PROVE  /\ k \in Nat /\ k <= Len(Mem) /\ k - 1 \in 0 .. Len(Mem) - 1 /\ (k - 1) + 1 = k /\ k \in 1 .. Len(Mem)
           /\ arfile[n] = Mem[k] /\ Mem[k] \in Entry /\ Mem[k].kind = "member"
           /\ argv = Crossed(UsedBy(k - 1)) /\ Gave(k - 1) /\ (Editing => Sorted(k - 1))
<1>1. n \in Nat /\ Len(Mem) \in Nat /\ n - 2 \in 0 .. Len(Mem) - 1 /\ arfile[n] = Mem[n - 1]
  BY Reading
<1>2. n - 2 = k - 1
  BY <1>1
<1>3. argv = Crossed(UsedBy(n - 2)) /\ Gave(n - 2) /\ (Editing => Sorted(n - 2))
  BY DEF Inv, Running
<1>4. k \in 1 .. Len(Mem)
  BY <1>1
<1>5. Mem[k] \in Entry /\ Mem[k].kind = "member"
  BY <1>4, Kinds, SaneFacts
<1> QED BY <1>1, <1>2, <1>3, <1>4, <1>5

LEMMA Steplist ==
    ASSUME Inv, pc = "run", ~AtEnd, ~Misplaced, cmd.key \in {"t", "p"}, list(arfile[n])
    PROVE  Inv'
<1>1. PICK k, s, p, m : k = n - 1 /\ s = Stay(k) /\ p = Mark(k) /\ m = arfile[n]
  OBVIOUS
<1>2. Advance /\ UNCHANGED <<files, tmps, cur, faults>>
  BY DEF list
<1>3. (Select(m) /\ out' = Append(out, m)) \/ (Skip(m) /\ out' = out)
  BY <1>1 DEF list
<1>4. argv' \in [DOMAIN cmd.argv -> Paths \cup {NULL}]
  BY <1>3, Kinds, TakeIs DEF Select, Skip
<1>5. ASSUME Sane PROVE k <= Len(Mem) /\ argv' = Crossed(UsedBy(k)) /\ out' = ShownBy(k)
  <2>1. k <= Len(Mem) /\ Gave(k - 1)
    BY <1>1, <1>5, Here
  <2>2. out = ShownBy(k - 1)
    BY <2>1 DEF Gave
  <2>3. /\ Select(m) => ShownBy(k) = Append(ShownBy(k - 1), m) /\ argv' = Crossed(UsedBy(k))
        /\ Skip(m) => ShownBy(k) = ShownBy(k - 1) /\ argv' = Crossed(UsedBy(k))
    BY <1>1, <1>5, Picked
  <2> QED BY <1>3, <2>1, <2>2, <2>3
<1>6. Clean' = Clean /\ ~Editing
  BY <1>2 DEF Clean, Editing
<1>7. tmps' \in [0 .. 2 -> Temp] /\ cur' \in {BEFORE, AFTER} /\ faults' \in Nat /\ faults' >= faults
      /\ files' \in [Paths -> {NoFile} \cup File]
  BY <1>2, Kinds
<1>8. Sane => /\ k <= Len(Mem) /\ argv' = Crossed(UsedBy(k))
              /\ cmd.key \in {"t", "p"} => out' = ShownBy(k)
              /\ cmd.key = "x" => files' = Unpacked(ShownBy(k), old.files)
              /\ Editing /\ Clean' =>
                    /\ Split(s, p)'
                    /\ tmps'[INDOT].items = IF cmd.key = "m" THEN At(Mem, (1 .. k) \cap HitSet) ELSE << >>
  BY <1>5, <1>6
<1> QED BY <1>1, <1>2, <1>4, <1>6, <1>7, <1>8, Turn

\* The same of a turn that extracts.
LEMMA TurnExtracts ==
    ASSUME Inv, pc = "run", cmd.key = "x", Advance,
           argv' \in [DOMAIN cmd.argv -> Paths \cup {NULL}],
           files' \in [Paths -> {NoFile} \cup File],
           tmps' \in [0 .. 2 -> Temp], cur' \in {BEFORE, AFTER},
           faults' \in Nat, faults' >= faults,
           ~Clean' => ~Clean \/ faults' > faults,
           NEW k, k = n - 1, 
           Sane => k <= Len(Mem) /\ argv' = Crossed(UsedBy(k)) /\ files' = Unpacked(ShownBy(k), old.files)
    PROVE  Inv'
<1>1. PICK s, p, key : s = Stay(k) /\ p = Mark(k) /\ key = cmd.key
  OBVIOUS
<1>2. cmd.key # "x" => files' = files
  OBVIOUS
<1>3. ~Editing /\ key = "x"
  BY <1>1 DEF Editing
<1>4. Sane => /\ k <= Len(Mem) /\ argv' = Crossed(UsedBy(k))
              /\ cmd.key \in {"t", "p"} => out' = ShownBy(k)
              /\ cmd.key = "x" => files' = Unpacked(ShownBy(k), old.files)
              /\ Editing /\ Clean' =>
                    /\ Split(s, p)'
                    /\ tmps'[INDOT].items = IF cmd.key = "m" THEN At(Mem, (1 .. k) \cap HitSet) ELSE << >>
  BY <1>3
<1>5. s = Stay(k)
  BY <1>1
<1>6. p = Mark(k)
  BY <1>1
<1> HIDE <1>3
<1> QED BY <1>2, <1>4, <1>5, <1>6, Turn, Zenon

LEMMA Stepextract ==
    ASSUME Inv, pc = "run", ~AtEnd, ~Misplaced, cmd.key = "x", extract(arfile[n])
    PROVE  Inv'
<1>1. PICK k, m : k = n - 1 /\ m = arfile[n]
  OBVIOUS
<1>2. UNCHANGED <<tmps, cur, out>> /\ (Skip(m) \/ Select(m))
  BY <1>1 DEF extract
<1>3. m \in Entry
  BY <1>1, Reading
<1>4. argv' \in [DOMAIN cmd.argv -> Paths \cup {NULL}]
  BY <1>2, Kinds, TakeIs DEF Select, Skip
<1>5. ASSUME NEW f \in File PROVE [files EXCEPT ![m.name] = f] \in [Paths -> {NoFile} \cup File]
  BY Kinds
<1>6. tmps' \in [0 .. 2 -> Temp] /\ cur' \in {BEFORE, AFTER} /\ faults \in Nat /\ Clean' = Clean /\ ~Editing
  BY <1>2, Kinds DEF Clean, Editing
<1>7. CASE Skip(m) /\ Advance /\ UNCHANGED <<files, faults>>
  <2>1. ASSUME Sane PROVE k <= Len(Mem) /\ argv' = Crossed(UsedBy(k)) /\ files' = Unpacked(ShownBy(k), old.files)
    <3>1. k <= Len(Mem) /\ Gave(k - 1)
      BY <1>1, <2>1, Here
    <3>2. files = Unpacked(ShownBy(k - 1), old.files)
      BY <3>1 DEF Gave
    <3>3. ShownBy(k) = ShownBy(k - 1) /\ argv' = Crossed(UsedBy(k))
      BY <1>1, <1>7, <2>1, Picked
    <3> QED BY <1>7, <3>1, <3>2, <3>3
  <2>3. files' \in [Paths -> {NoFile} \cup File] /\ faults' \in Nat /\ faults' >= faults
    BY <1>6, <1>7, Kinds
  <2>5. ~Clean' => ~Clean \/ faults' > faults
    BY <1>6
  <2>6. Advance
    BY <1>7
  <2>7. tmps' \in [0 .. 2 -> Temp] /\ cur' \in {BEFORE, AFTER}
    BY <1>6
  <2>8. k = n - 1
    BY <1>1
  <2> QED BY <1>4, <2>1, <2>3, <2>5, <2>6, <2>7, <2>8, TurnExtracts, Zenon
<1>8. CASE /\ Select(m)
           /\ files' = [files EXCEPT ![m.name] = [date |-> m.date,
                 data |-> IF m.kind = "cut" THEN "part" ELSE m.data]]
           /\ Advance
           /\ UNCHANGED faults
  <2>1. ASSUME Sane PROVE k <= Len(Mem) /\ argv' = Crossed(UsedBy(k)) /\ files' = Unpacked(ShownBy(k), old.files)
    <3>1. k <= Len(Mem) /\ Gave(k - 1) /\ m.kind = "member"
      BY <1>1, <2>1, Here
    <3>2. PICK z, t : z = ShownBy(k - 1) /\ t = ShownBy(k)
      OBVIOUS
    <3>3. files = Unpacked(z, old.files)
      BY <3>1, <3>2 DEF Gave
    <3>4. ShownBy(k - 1) \in Seq(Entry) /\ ShownBy(k) = Append(ShownBy(k - 1), m) /\ argv' = Crossed(UsedBy(k))
      BY <1>1, <1>8, <2>1, Picked
    <3>5. z \in Seq(Entry) /\ t = Append(z, m)
      BY <3>2, <3>4
    <3>6. Unpacked(t, old.files) = Over(Unpacked(z, old.files), m)
      <4>1. PICK f : f = old.files
        OBVIOUS
      <4>2. z \in Seq(Entry)
        BY <3>5
      <4>3. t = Append(z, m)
        BY <3>5
      <4>4. Unpacked(t, f) = Over(Unpacked(z, f), m)
        BY <1>3, <4>2, <4>3, UnpackedAdd, Zenon
      <4> QED BY <4>1, <4>4
    <3>7. files' = Over(files, m)
      BY <1>8, <3>1 DEF Over
    <3> QED BY <3>1, <3>2, <3>3, <3>4, <3>6, <3>7
  <2>3. [date |-> m.date, data |-> IF m.kind = "cut" THEN "part" ELSE m.data] \in File
    BY <1>3, DirectoryAssumption DEF Entry, File
  <2>4. files' \in [Paths -> {NoFile} \cup File] /\ faults' \in Nat /\ faults' >= faults
    BY <1>5, <1>6, <1>8, <2>3
  <2>6. ~Clean' => ~Clean \/ faults' > faults
    BY <1>6
  <2>7. Advance
    BY <1>8
  <2>8. tmps' \in [0 .. 2 -> Temp] /\ cur' \in {BEFORE, AFTER}
    BY <1>6
  <2>9. k = n - 1
    BY <1>1
  <2> QED BY <1>4, <2>1, <2>4, <2>6, <2>7, <2>8, <2>9, TurnExtracts, Zenon
<1>9. CASE /\ Fault
           /\ files' = [files EXCEPT ![m.name] = [date |-> 9, data |-> "part"]]
           /\ error
           /\ n' = n
  <2>1. [date |-> 9, data |-> "part"] \in File
    BY DirectoryAssumption DEF File
  <2>2. files' \in [Paths -> {NoFile} \cup File]
    BY <1>5, <1>9, <2>1
  <2>3. pc # "end" /\ UNCHANGED <<tmps, n, cur>>
    BY <1>2, <1>9
  <2> QED BY <1>4, <1>9, <2>2, <2>3, FaultStops
<1> QED BY <1>1, <1>7, <1>8, <1>9 DEF extract

\* The same of a turn that sorts.
LEMMA TurnSorts ==
    ASSUME Inv, pc = "run", Editing, Advance, files' = files,
           argv' \in [DOMAIN cmd.argv -> Paths \cup {NULL}],
           tmps' \in [0 .. 2 -> Temp], cur' \in {BEFORE, AFTER},
           faults' \in Nat, faults' >= faults,
           ~Clean' => ~Clean \/ faults' > faults,
           NEW k, k = n - 1, NEW s, s = Stay(k), NEW p, p = Mark(k),
           Sane => /\ k <= Len(Mem) /\ argv' = Crossed(UsedBy(k))
                   /\ Clean' => Split(s, p)' /\ tmps'[INDOT].items =
                                   IF cmd.key = "m" THEN At(Mem, (1 .. k) \cap HitSet) ELSE << >>
    PROVE  Inv'
<1>1. files' \in [Paths -> {NoFile} \cup File]
  BY Kinds
<1>2. cmd.key \notin {"t", "p", "x"}
  BY DEF Editing
<1>3. cmd.key # "x" => files' = files
  OBVIOUS
<1>4. Sane => /\ k <= Len(Mem) /\ argv' = Crossed(UsedBy(k))
              /\ cmd.key \in {"t", "p"} => out' = ShownBy(k)
              /\ cmd.key = "x" => files' = Unpacked(ShownBy(k), old.files)
              /\ Editing /\ Clean' =>
                    /\ Split(s, p)'
                    /\ tmps'[INDOT].items = IF cmd.key = "m" THEN At(Mem, (1 .. k) \cap HitSet) ELSE << >>
  BY <1>2
<1> HIDE <1>2
<1> QED BY <1>1, <1>3, <1>4, Turn, Zenon

LEMMA InList ==
    ASSUME argv \in [DOMAIN cmd.argv -> Paths \cup {NULL}], cmd \in Commands, NEW x, Named(x) # {}
    PROVE  inlist(x) \in Named(x) /\ inlist(x) \in DOMAIN argv /\ argv[inlist(x)] \in Paths
<1>1. PICK A : A = Named(x)
  OBVIOUS
<1>2. A \subseteq Nat /\ A \subseteq DOMAIN argv
  BY <1>1, CommandFacts DEF Named, Args
<1>3. \E i \in A : \A j \in A : i <= j
  BY <1>1, <1>2, Least
<1>4. inlist(x) \in A
  BY <1>1, <1>3 DEF inlist
<1> QED BY <1>1, <1>2, <1>4 DEF Named

\* update() replaces the members that are to be replaced.
LEMMA StaleIs ==
    ASSUME TypeOK, Sane, cmd.key = "r", files = old.files, NEW k \in HitSet,
           NEW j \in Args, j = Partner(Mem, ArgNames, k)
    PROVE  /\ k \in StaleSet <=> ~cmd.u \/ older(Mem[k], cmd.argv[j])
           /\ archive(cmd.argv[j]) = ArgMembers[j] /\ ArgMembers[j] \in Entry
           /\ files[cmd.argv[j]] # NoFile
<1>1. old.files[cmd.argv[j]] # NoFile /\ ArgMembers[j] \in Entry
  BY SaneFacts
<1>2. archive(cmd.argv[j]) = ArgMembers[j]
  BY <1>1, ArgFacts
<1>3. ArgMembers[j].date = files[cmd.argv[j]].date
  <2>1. archive(cmd.argv[j]).date = files[cmd.argv[j]].date
    BY DEF archive
  <2> QED BY <1>2, <2>1
<1>4. k \in StaleSet <=> ~cmd.u \/ ArgMembers[j].date > Mem[k].date
  BY DEF StaleSet, Stale, HitSet
<1> QED BY <1>1, <1>2, <1>3, <1>4 DEF older

LEMMA Stepdel ==
    ASSUME Inv, pc = "run", ~AtEnd, ~Misplaced, cmd.key = "d", del(arfile[n])
    PROVE  Inv'
<1>1. PICK k, s, p, m, x : k = n - 1 /\ s = Stay(k) /\ p = Mark(k) /\ m = arfile[n] /\ x = m.name
  OBVIOUS
<1>2. UNCHANGED <<files, out, cur>> /\ Advance /\ cmd' = cmd /\ Editing
  BY DEF del, Advance, Editing
<1>3. m \in Entry
  BY <1>1, Reading
<1>4. /\ TypeOK /\ tmps \in [0 .. 2 -> Temp] /\ faults \in Nat /\ cmd \in Commands /\ cur \in {BEFORE, AFTER}
      /\ argv \in [DOMAIN cmd.argv -> Paths \cup {NULL}]
  BY Kinds
<1>5. CASE Named(x) = {}
  <2>1. Put(BEFORE, m) /\ argv' = argv
    BY <1>1, <1>5 DEF del
  <2>2. BEFORE \in 0 .. 2
    BY DEF BEFORE
  <2>3. /\ tmps' \in [0 .. 2 -> Temp] /\ faults' \in Nat /\ faults' >= faults
        /\ Clean' => Clean
        /\ ~Clean' => ~Clean \/ faults' > faults
    BY <1>3, <1>4, <2>1, <2>2, PutIs
  <2>4. ASSUME Sane
        PROVE  /\ k <= Len(Mem) /\ argv' = Crossed(UsedBy(k))
               /\ Clean' => Split(s, p)' /\ tmps'[INDOT].items =
                               IF cmd.key = "m" THEN At(Mem, (1 .. k) \cap HitSet) ELSE << >>
    <3>1. /\ k \in Nat /\ k <= Len(Mem) /\ k - 1 \in 0 .. Len(Mem) - 1 /\ (k - 1) + 1 = k
          /\ arfile[n] = Mem[k] /\ argv = Crossed(UsedBy(k - 1)) /\ Sorted(k - 1)
      BY <1>1, <1>2, <2>4, Here
    <3>2. PICK j : j = k - 1
      OBVIOUS
    <3>3. j \in 0 .. Len(Mem) - 1 /\ j + 1 = k /\ j \in 0 .. Len(Mem) /\ argv = Crossed(UsedBy(j)) /\ x = Mem[j + 1].name
      BY <1>1, <3>1, <3>2
    <3>4. j + 1 \notin HitSet /\ UsedBy(j + 1) = UsedBy(j)
      BY <1>4, <1>5, <2>4, <3>3, Look
    <3>5. Stay(j + 1) = Append(Stay(j), Mem[j + 1]) /\ Mark(j) = 0 /\ Mark(j + 1) = 0
      BY <1>2, <1>4, <2>4, <3>3, <3>4, StayPlace
    <3>6. PICK z, o : z = Stay(j) /\ o = 0
      OBVIOUS
    <3>7. Stay(j) \in Seq(Entry) /\ Len(Stay(j)) \in Nat
      BY <1>2, <1>4, <2>4, <3>3, StayFacts
    <3>8. z \in Seq(Entry) /\ o \in 0 .. Len(z) /\ s = Append(z, m) /\ p = o
      BY <1>1, <3>1, <3>3, <3>5, <3>6, <3>7
    <3>9. Clean => Split(z, o) /\ tmps[INDOT].items = << >>
      BY <3>1, <3>2, <3>5, <3>6 DEF Sorted
    <3>10. ASSUME Clean' PROVE Split(s, p)' /\ tmps'[INDOT].items = << >>
      <4>1. Clean /\ cur = BEFORE
        BY <2>3, <3>6, <3>9, <3>10 DEF Split
      <4>2. Put(cur, m) /\ cur' = cur
        BY <1>2, <2>1, <4>1
      <4>3. Clean' => Clean /\ Split(s, o)' /\ tmps'[INDOT].items = tmps[INDOT].items
        BY <1>2, <1>3, <1>4, <3>8, <3>9, <4>2, PutGrows
      <4> QED BY <3>8, <3>9, <3>10, <4>3
    <3> QED BY <2>1, <3>1, <3>3, <3>4, <3>10
  <2>5. argv' \in [DOMAIN cmd.argv -> Paths \cup {NULL}] /\ cur' \in {BEFORE, AFTER} /\ files' = files
    BY <1>2, <1>4, <2>1
  <2> QED BY <1>1, <1>2, <2>3, <2>4, <2>5, TurnSorts, Zenon
<1>6. CASE Named(x) # {}
  <2>1. Take(x) /\ UNCHANGED <<tmps, faults>>
    BY <1>1, <1>6 DEF del
  <2>2. argv' \in [DOMAIN cmd.argv -> Paths \cup {NULL}]
    BY <1>4, <2>1, TakeIs
  <2>3. /\ tmps' \in [0 .. 2 -> Temp] /\ faults' \in Nat /\ faults' >= faults /\ cur' \in {BEFORE, AFTER}
        /\ Clean' = Clean
    BY <1>2, <1>4, <2>1 DEF Clean
  <2>4. ASSUME Sane
        PROVE  /\ k <= Len(Mem) /\ argv' = Crossed(UsedBy(k))
               /\ Clean' => Split(s, p)' /\ tmps'[INDOT].items =
                               IF cmd.key = "m" THEN At(Mem, (1 .. k) \cap HitSet) ELSE << >>
    <3>1. /\ k \in Nat /\ k <= Len(Mem) /\ k - 1 \in 0 .. Len(Mem) - 1 /\ (k - 1) + 1 = k
          /\ arfile[n] = Mem[k] /\ argv = Crossed(UsedBy(k - 1)) /\ Sorted(k - 1)
      BY <1>1, <1>2, <2>4, Here
    <3>2. PICK j : j = k - 1
      OBVIOUS
    <3>3. /\ j \in 0 .. Len(Mem) - 1 /\ j + 1 = k /\ j \in Nat /\ argv = Crossed(UsedBy(j)) /\ x = Mem[j + 1].name
      BY <1>1, <3>1, <3>2
    <3>4. j + 1 \in HitSet /\ [argv EXCEPT ![inlist(x)] = NULL] = Crossed(UsedBy(j + 1))
      BY <1>4, <1>6, <2>4, <3>3, Look
    <3>5. Stay(j + 1) = Stay(j) /\ Mark(j + 1) = Mark(j)
      BY <1>2, <3>3, <3>4, StayGone
    <3>6. Clean => Split(s, p) /\ tmps[INDOT].items = << >>
      BY <1>1, <3>1, <3>2, <3>3, <3>5 DEF Sorted
    <3>7. Split(s, p)' = Split(s, p)
      BY <1>2, <2>1 DEF Split
    <3> QED BY <2>1, <2>3, <3>1, <3>3, <3>4, <3>6, <3>7 DEF Take
  <2>5. (~Clean' => ~Clean \/ faults' > faults) /\ files' = files
    BY <1>2, <2>3
  <2> QED BY <1>1, <1>2, <2>2, <2>3, <2>4, <2>5, TurnSorts, Zenon
<1> QED BY <1>5, <1>6

LEMMA Stepmove ==
    ASSUME Inv, pc = "run", ~AtEnd, ~Misplaced, cmd.key = "m", move(arfile[n])
    PROVE  Inv'
<1>1. PICK k, s, p, m, x : k = n - 1 /\ s = Stay(k) /\ p = Mark(k) /\ m = arfile[n] /\ x = m.name
  OBVIOUS
<1>2. UNCHANGED <<files, out>> /\ Advance /\ cmd' = cmd /\ Editing
  BY DEF move, Advance, Editing
<1>3. m \in Entry
  BY <1>1, Reading
<1>4. /\ TypeOK /\ tmps \in [0 .. 2 -> Temp] /\ faults \in Nat /\ cmd \in Commands /\ cur \in {BEFORE, AFTER}
      /\ argv \in [DOMAIN cmd.argv -> Paths \cup {NULL}]
  BY Kinds
<1>5. CASE Named(x) = {}
  <2>1. Place(m) /\ argv' = argv
    BY <1>1, <1>5 DEF move
  <2>2. /\ tmps' \in [0 .. 2 -> Temp] /\ faults' \in Nat /\ faults' >= faults /\ cur' \in {BEFORE, AFTER}
        /\ ~Clean' => ~Clean \/ faults' > faults
    BY <1>3, <1>4, <2>1, PlaceIs
  <2>3. ASSUME Sane
        PROVE  /\ k <= Len(Mem) /\ argv' = Crossed(UsedBy(k))
               /\ Clean' => Split(s, p)' /\ tmps'[INDOT].items =
                               IF cmd.key = "m" THEN At(Mem, (1 .. k) \cap HitSet) ELSE << >>
    <3>1. /\ k \in Nat /\ k <= Len(Mem) /\ k - 1 \in 0 .. Len(Mem) - 1 /\ (k - 1) + 1 = k
          /\ arfile[n] = Mem[k] /\ argv = Crossed(UsedBy(k - 1)) /\ Sorted(k - 1)
      BY <1>1, <1>2, <2>3, Here
    <3>2. PICK j : j = k - 1
      OBVIOUS
    <3>3. j \in 0 .. Len(Mem) - 1 /\ j + 1 = k /\ argv = Crossed(UsedBy(j)) /\ x = Mem[j + 1].name
      BY <1>1, <3>1, <3>2
    <3>4. j + 1 \notin HitSet /\ UsedBy(j + 1) = UsedBy(j)
      BY <1>4, <1>5, <2>3, <3>3, Look
    <3>5. k \notin (IF cmd.key = "r" THEN StaleSet ELSE HitSet)
      BY <3>3, <3>4
    <3>6. Clean' => Clean /\ Split(s, p)' /\ tmps'[INDOT].items = tmps[INDOT].items
      BY <1>1, <1>2, <2>1, <2>3, <3>5, Placed
    <3>7. At(Mem, (1 .. j + 1) \cap HitSet) = At(Mem, (1 .. j) \cap HitSet)
      BY <1>4, <2>3, <3>3, <3>4, HitsGrow
    <3>8. Clean => tmps[INDOT].items = At(Mem, (1 .. j) \cap HitSet)
      BY <3>1, <3>2 DEF Sorted
    <3> QED BY <2>1, <3>1, <3>3, <3>4, <3>6, <3>7, <3>8
  <2>4. argv' \in [DOMAIN cmd.argv -> Paths \cup {NULL}] /\ files' = files
    BY <1>2, <1>4, <2>1
  <2> QED BY <1>1, <1>2, <2>2, <2>3, <2>4, TurnSorts, Zenon
<1>6. CASE Named(x) # {}
  <2>1. Take(x) /\ Put(INDOT, m) /\ cur' = cur
    BY <1>1, <1>6 DEF move
  <2>2. argv' \in [DOMAIN cmd.argv -> Paths \cup {NULL}]
    BY <1>4, <2>1, TakeIs
  <2>3. INDOT \in 0 .. 2 /\ BEFORE # INDOT /\ AFTER # INDOT /\ BEFORE \in 0 .. 2 /\ AFTER \in 0 .. 2
    BY DEF INDOT, BEFORE, AFTER
  <2>4. /\ tmps' \in [0 .. 2 -> Temp] /\ faults' \in Nat /\ faults' >= faults
        /\ Clean' => /\ Clean
                     /\ tmps'[INDOT].items = Append(tmps[INDOT].items, m)
                     /\ \A y \in 0 .. 2 : y # INDOT => tmps'[y] = tmps[y]
        /\ ~Clean' => ~Clean \/ faults' > faults
    BY <1>3, <1>4, <2>1, <2>3, PutIs
  <2>5. ASSUME Sane
        PROVE  /\ k <= Len(Mem) /\ argv' = Crossed(UsedBy(k))
               /\ Clean' => Split(s, p)' /\ tmps'[INDOT].items =
                               IF cmd.key = "m" THEN At(Mem, (1 .. k) \cap HitSet) ELSE << >>
    <3>1. /\ k \in Nat /\ k <= Len(Mem) /\ k - 1 \in 0 .. Len(Mem) - 1 /\ (k - 1) + 1 = k
          /\ arfile[n] = Mem[k] /\ argv = Crossed(UsedBy(k - 1)) /\ Sorted(k - 1)
      BY <1>1, <1>2, <2>5, Here
    <3>2. PICK j : j = k - 1
      OBVIOUS
    <3>3. j \in 0 .. Len(Mem) - 1 /\ j + 1 = k /\ j \in Nat /\ argv = Crossed(UsedBy(j)) /\ x = Mem[j + 1].name
      BY <1>1, <3>1, <3>2
    <3>4. j + 1 \in HitSet /\ [argv EXCEPT ![inlist(x)] = NULL] = Crossed(UsedBy(j + 1))
      BY <1>4, <1>6, <2>5, <3>3, Look
    <3>5. Stay(j + 1) = Stay(j) /\ Mark(j + 1) = Mark(j)
      BY <1>2, <3>3, <3>4, StayGone
    <3>6. Clean => Split(s, p) /\ tmps[INDOT].items = At(Mem, (1 .. j) \cap HitSet)
      BY <1>1, <3>1, <3>2, <3>3, <3>5 DEF Sorted
    <3>7. Clean' => Split(s, p)'
      <4>1. Clean' => tmps'[BEFORE] = tmps[BEFORE] /\ tmps'[AFTER] = tmps[AFTER]
        BY <2>3, <2>4
      <4> QED BY <1>2, <2>1, <2>4, <3>6, <4>1 DEF Split
    <3>8. At(Mem, (1 .. j + 1) \cap HitSet) = Append(At(Mem, (1 .. j) \cap HitSet), Mem[j + 1])
      BY <1>4, <2>5, <3>3, <3>4, HitsGrow
    <3>9. Clean' => tmps'[INDOT].items = At(Mem, (1 .. k) \cap HitSet)
      BY <1>1, <2>4, <3>1, <3>3, <3>6, <3>8
    <3> QED BY <2>1, <3>1, <3>3, <3>4, <3>7, <3>9 DEF Take
  <2>6. cur' \in {BEFORE, AFTER} /\ files' = files
    BY <1>2, <1>4, <2>1
  <2> QED BY <1>1, <1>2, <2>2, <2>4, <2>5, <2>6, TurnSorts, Zenon
<1> QED BY <1>5, <1>6

LEMMA Stepupdate ==
    ASSUME Inv, pc = "run", ~AtEnd, ~Misplaced, cmd.key = "r", update(arfile[n])
    PROVE  Inv'
<1>1. PICK k, s, p, m, x : k = n - 1 /\ s = Stay(k) /\ p = Mark(k) /\ m = arfile[n] /\ x = m.name
  OBVIOUS
<1>2. files' = files /\ Editing
  BY DEF update, Editing
<1>3. m \in Entry /\ Kept
  BY <1>1, Reading
<1>4. /\ TypeOK /\ tmps \in [0 .. 2 -> Temp] /\ faults \in Nat /\ cmd \in Commands /\ cur \in {BEFORE, AFTER}
      /\ argv \in [DOMAIN cmd.argv -> Paths \cup {NULL}] /\ files \in [Paths -> {NoFile} \cup File]
  BY Kinds
<1>5. files = old.files
  BY <1>3 DEF Kept
<1>6. PICK j : j = k - 1
  OBVIOUS
<1>7. ASSUME Sane
      PROVE  /\ k \in Nat /\ k <= Len(Mem) /\ j \in 0 .. Len(Mem) - 1 /\ j + 1 = k /\ k \in 1 .. Len(Mem)
             /\ m = Mem[k] /\ argv = Crossed(UsedBy(j)) /\ x = Mem[j + 1].name
             /\ Clean => Split(Stay(j), Mark(j)) /\ tmps[INDOT].items = << >>
  <2>1. /\ k \in Nat /\ k <= Len(Mem) /\ k - 1 \in 0 .. Len(Mem) - 1 /\ (k - 1) + 1 = k /\ k \in 1 .. Len(Mem)
        /\ arfile[n] = Mem[k] /\ argv = Crossed(UsedBy(k - 1)) /\ Sorted(k - 1)
    BY <1>1, <1>2, <1>7, Here
  <2>2. Clean => Split(Stay(j), Mark(j)) /\ tmps[INDOT].items = << >>
    BY <1>6, <2>1 DEF Sorted
  <2> QED BY <1>1, <1>6, <2>1, <2>2
<1>8. ASSUME Place(m), Advance, Sane => k \notin StaleSet /\ argv' = Crossed(UsedBy(k)),
             argv' \in [DOMAIN cmd.argv -> Paths \cup {NULL}]
      PROVE  Inv'
  <2>1. /\ tmps' \in [0 .. 2 -> Temp] /\ faults' \in Nat /\ faults' >= faults /\ cur' \in {BEFORE, AFTER}
        /\ ~Clean' => ~Clean \/ faults' > faults
    BY <1>3, <1>4, <1>8, PlaceIs
  <2>2. ASSUME Sane
        PROVE  /\ k <= Len(Mem) /\ argv' = Crossed(UsedBy(k))
               /\ Clean' => Split(s, p)' /\ tmps'[INDOT].items =
                               IF cmd.key = "m" THEN At(Mem, (1 .. k) \cap HitSet) ELSE << >>
    <3>1. k \notin (IF cmd.key = "r" THEN StaleSet ELSE HitSet)
      BY <1>8, <2>2
    <3>2. cmd' = cmd
      BY <1>8 DEF Advance
    <3>3. Clean' => Clean /\ Split(s, p)' /\ tmps'[INDOT].items = tmps[INDOT].items
      BY <1>1, <1>8, <2>2, <3>1, <3>2, Placed
    <3> QED BY <1>7, <1>8, <2>2, <3>3
  <2> QED BY <1>1, <1>2, <1>8, <2>1, <2>2, TurnSorts, Zenon
<1>9. CASE Named(x) = {}
  <2>1. Place(m) /\ Advance /\ argv' = argv
    BY <1>1, <1>9 DEF update
  <2>2. ASSUME Sane PROVE k \notin StaleSet /\ argv' = Crossed(UsedBy(k))
    <3>1. j + 1 \notin HitSet /\ UsedBy(j + 1) = UsedBy(j)
      BY <1>4, <1>7, <1>9, <2>2, Look
    <3>2. StaleSet \subseteq HitSet
      BY DEF StaleSet, Stale, HitSet
    <3> QED BY <1>7, <2>1, <2>2, <3>1, <3>2
  <2> QED BY <1>4, <1>8, <2>1, <2>2
<1>10. CASE Named(x) # {}
  <2>1. PICK i, path : i = inlist(x) /\ path = argv[i]
    OBVIOUS
  <2>2. Take(x) /\ path \in Paths
    BY <1>1, <1>4, <1>10, <2>1, InList DEF update
  <2>3. argv' \in [DOMAIN cmd.argv -> Paths \cup {NULL}]
    BY <1>4, <2>2, TakeIs
  <2>4. ASSUME Sane
        PROVE  /\ k \in HitSet /\ i = Partner(Mem, ArgNames, k) /\ i \in Args /\ path = cmd.argv[i]
               /\ argv' = Crossed(UsedBy(k))
               /\ k \in StaleSet <=> ~cmd.u \/ older(m, path)
               /\ archive(path) = ArgMembers[i] /\ ArgMembers[i] \in Entry
               /\ files[path] # NoFile
    <3>1. /\ j + 1 \in HitSet
          /\ inlist(x) = Partner(Mem, ArgNames, j + 1)
          /\ inlist(x) \in Args /\ argv[inlist(x)] = cmd.argv[inlist(x)]
          /\ [argv EXCEPT ![inlist(x)] = NULL] = Crossed(UsedBy(j + 1))
      BY <1>4, <1>7, <1>10, <2>4, Look
    <3>2. k \in HitSet /\ i = Partner(Mem, ArgNames, k) /\ i \in Args /\ path = cmd.argv[i]
      BY <1>7, <2>1, <2>4, <3>1
    <3>3. /\ k \in StaleSet <=> ~cmd.u \/ older(Mem[k], cmd.argv[i])
          /\ archive(cmd.argv[i]) = ArgMembers[i] /\ ArgMembers[i] \in Entry
          /\ files[cmd.argv[i]] # NoFile
      BY <1>4, <1>5, <2>4, <3>2, StaleIs
    <3>4. argv' = Crossed(UsedBy(k))
      BY <1>7, <2>2, <2>4, <3>1 DEF Take
    <3> QED BY <1>7, <2>4, <3>2, <3>3, <3>4
  <2>5. CASE files[path] = NoFile /\ error /\ UNCHANGED <<tmps, n, cur, faults>>
    <3>1. pc # "end" /\ ~Sane /\ files' \in [Paths -> {NoFile} \cup File]
      BY <1>2, <1>4, <2>4, <2>5
    <3> QED BY <2>3, <2>5, <3>1, InsaneStops
  <2>6. CASE files[path] # NoFile /\ cmd.u /\ ~older(m, path) /\ Place(m) /\ Advance
    BY <1>8, <2>3, <2>4, <2>6
  <2>7. CASE /\ files[path] # NoFile
             /\ ~cmd.u \/ older(m, path)
             /\ Put(cur, archive(path)) /\ Advance
             /\ cur' = cur
    <3>1. PICK e : e = archive(path)
      OBVIOUS
    <3>2. e \in Entry /\ Put(cur, e) /\ cur \in 0 .. 2 /\ cmd' = cmd
      BY <1>4, <2>2, <2>7, <3>1, FileFacts DEF BEFORE, AFTER, Advance
    <3>3. /\ tmps' \in [0 .. 2 -> Temp] /\ faults' \in Nat /\ faults' >= faults
          /\ ~Clean' => ~Clean \/ faults' > faults
      BY <1>4, <3>2, PutIs
    <3>4. ASSUME Sane
          PROVE  /\ k <= Len(Mem) /\ argv' = Crossed(UsedBy(k))
                 /\ Clean' => Split(s, p)' /\ tmps'[INDOT].items =
                                 IF cmd.key = "m" THEN At(Mem, (1 .. k) \cap HitSet) ELSE << >>
      <4>1. j + 1 \in StaleSet
        BY <1>7, <2>4, <2>7, <3>4
      <4>2. Stay(j + 1) = Append(Stay(j), ArgMembers[Partner(Mem, ArgNames, j + 1)]) /\ Mark(j + 1) = Mark(j)
        BY <1>4, <1>7, <3>4, <4>1, StayReplaced
      <4>3. PICK z, o : z = Stay(j) /\ o = Mark(j)
        OBVIOUS
      <4>4. j \in 0 .. Len(Mem)
        BY <1>7, <3>4
      <4>5. Stay(j) \in Seq(Entry) /\ Mark(j) \in 0 .. Len(Stay(j))
        BY <1>2, <1>4, <3>4, <4>4, StayFacts
      <4>6. z \in Seq(Entry) /\ o \in 0 .. Len(z)
        BY <4>3, <4>5
      <4>7. s = Append(z, e) /\ p = o
        BY <1>1, <1>7, <2>4, <3>1, <3>4, <4>2, <4>3
      <4>8. Clean => Split(z, o) /\ tmps[INDOT].items = << >>
        BY <1>7, <3>4, <4>3
      <4>9. cur' = cur
        BY <2>7
      <4>10. Clean' => Clean /\ Split(s, o)' /\ tmps'[INDOT].items = tmps[INDOT].items
        BY <1>4, <3>2, <4>6, <4>7, <4>8, <4>9, PutGrows
      <4> QED BY <1>7, <2>4, <3>4, <4>7, <4>8, <4>10
    <3>5. cur' \in {BEFORE, AFTER} /\ Advance
      BY <1>4, <2>7
    <3> QED BY <1>1, <1>2, <2>3, <3>3, <3>4, <3>5, TurnSorts, Zenon
  <2> QED BY <1>1, <1>10, <2>1, <2>5, <2>6, <2>7 DEF update
<1> QED BY <1>9, <1>10

LEMMA StepMember == ASSUME Inv, Member PROVE Inv'
<1>1. pc = "run" /\ ~AtEnd /\ ~Misplaced
  BY DEF Member
<1>2. \/ cmd.key = "r" /\ update(arfile[n])
      \/ cmd.key = "m" /\ move(arfile[n])
      \/ cmd.key = "d" /\ del(arfile[n])
      \/ cmd.key \in {"t", "p"} /\ list(arfile[n])
      \/ cmd.key = "x" /\ extract(arfile[n])
  BY DEF Member
<1> QED BY <1>1, <1>2, Stepupdate, Stepmove, Stepdel, Steplist, Stepextract

-----------------------------------------------------------------------------
(* insert() and append().                                                  *)

LEMMA Inserting ==
    ASSUME Inv, pc = "insert"
    PROVE  /\ Opened /\ buf = << >> /\ cmd.key = "r" /\ Kept /\ Editing /\ files = old.files
           /\ n \in Nat /\ n \in 1 .. Len(cmd.argv) + 1 /\ Len(cmd.argv) \in Nat /\ Len(argv) = Len(cmd.argv)
           /\ DOMAIN argv = Args
           /\ Sane => /\ argv = Crossed(Used(Mem, ArgNames) \cup (1 .. n - 1))
                      /\ Clean => /\ Split(Stay(Len(Mem)), Mark(Len(Mem)))
                                  /\ tmps[INDOT].items = At(ArgMembers, (1 .. n - 1) \ Used(Mem, ArgNames))
<1>1. /\ Opened /\ buf = << >> /\ cmd.key = "r" /\ Kept /\ n \in 1 .. Len(cmd.argv) + 1
      /\ Sane => /\ argv = Crossed(Used(Mem, ArgNames) \cup (1 .. n - 1))
                 /\ Clean => /\ Split(Stay(Len(Mem)), Mark(Len(Mem)))
                             /\ tmps[INDOT].items = At(ArgMembers, (1 .. n - 1) \ Used(Mem, ArgNames))
  BY DEF Inv, Adding
<1>2. /\ cmd \in Commands /\ argv \in [DOMAIN cmd.argv -> Paths \cup {NULL}] /\ n \in Nat
  BY Kinds
<1>3. Len(cmd.argv) \in Nat /\ DOMAIN cmd.argv = Args
  BY <1>2, CommandFacts
<1>4. Len(argv) = Len(cmd.argv)
  <2>1. argv \in [1 .. Len(cmd.argv) -> Paths \cup {NULL}]
    BY <1>2, <1>3 DEF Args
  <2>2. argv \in Seq(Paths \cup {NULL})
    BY <1>3, <2>1
  <2> QED BY <1>3, <2>1, <2>2, LenProperties
<1> QED BY <1>1, <1>2, <1>3, <1>4 DEF Editing, Kept

\* What insert() leaves of the operands and puts between the temporaries.
LEMMA OneMore ==
    ASSUME TypeOK, Sane, cmd.key = "r", NEW i \in Args, NEW U, U = Used(Mem, ArgNames),
           argv = Crossed(U \cup (1 .. i - 1))
    PROVE  /\ argv[i] = NULL <=> i \in U
           /\ argv[i] # NULL => argv[i] = cmd.argv[i]
           /\ [argv EXCEPT ![i] = NULL] = Crossed(U \cup (1 .. i))
           /\ i \in U => argv = Crossed(U \cup (1 .. i)) /\ (1 .. i) \ U = (1 .. i - 1) \ U
           /\ i \notin U => At(ArgMembers, (1 .. i) \ U) = Append(At(ArgMembers, (1 .. i - 1) \ U), ArgMembers[i])
<1>1. /\ cmd.argv \in Seq(Paths) /\ Len(cmd.argv) \in Nat /\ DOMAIN cmd.argv = Args
      /\ \A j \in Args : cmd.argv[j] \in Paths /\ cmd.argv[j] # NULL
  BY CommandFacts DEF TypeOK
<1>2. i \in 1 .. Len(cmd.argv) /\ i \in Nat /\ i - 1 \in Nat /\ (i - 1) + 1 = i /\ i \notin 1 .. i - 1
  BY <1>1 DEF Args
<1>3. 1 .. i = (1 .. i - 1) \cup {i}
  BY <1>2
<1>4. argv[i] = IF i \in U THEN NULL ELSE cmd.argv[i]
  BY <1>1, <1>2 DEF Crossed
<1>5. U \cup (1 .. i) = (U \cup (1 .. i - 1)) \cup {i}
  BY <1>3
<1>6. [argv EXCEPT ![i] = NULL] = Crossed(U \cup (1 .. i))
  BY <1>1, <1>5 DEF Crossed
<1>7. ASSUME i \in U PROVE argv = Crossed(U \cup (1 .. i)) /\ (1 .. i) \ U = (1 .. i - 1) \ U
  <2>1. U \cup (1 .. i) = U \cup (1 .. i - 1)
    BY <1>5, <1>7
  <2> QED BY <1>3, <1>7, <2>1
<1>8. ASSUME i \notin U
      PROVE  At(ArgMembers, (1 .. i) \ U) = Append(At(ArgMembers, (1 .. i - 1) \ U), ArgMembers[i])
  <2>1. PICK m, I : m = i - 1 /\ I = (1 .. i - 1) \ U
    OBVIOUS
  <2>2. m \in Nat /\ I \subseteq 1 .. m /\ m + 1 = i
    BY <1>2, <2>1
  <2>3. \A j \in Args : ArgMembers[j] \in Entry
    BY SaneFacts
  <2>4. \A j \in I : ArgMembers[j] \in Entry
    <3>1. I \subseteq Args
      BY <1>1, <1>2, <2>1 DEF Args
    <3> QED BY <2>3, <3>1
  <2>5. At(ArgMembers, I) \in Seq(Entry)
    BY <2>2, <2>4, AtSeq
  <2>6. ArgMembers[m + 1] \in Entry
    BY <2>2, <2>3
  <2>7. At(ArgMembers, I \cup {m + 1}) = Append(At(ArgMembers, I), ArgMembers[m + 1])
    BY <2>2, <2>5, <2>6, AtAppend
  <2>8. I \cup {m + 1} = (1 .. i) \ U
    BY <1>3, <1>8, <2>1, <2>2
  <2> QED BY <2>1, <2>2, <2>7, <2>8
<1> QED BY <1>1, <1>4, <1>6, <1>7, <1>8

LEMMA TurnInserts ==
    ASSUME Inv, pc = "insert", n <= Len(cmd.argv), Advance, files' = files, cur' = cur,
           argv' \in [DOMAIN cmd.argv -> Paths \cup {NULL}],
           tmps' \in [0 .. 2 -> Temp], faults' \in Nat, faults' >= faults,
           ~Clean' => ~Clean \/ faults' > faults,
           NEW s, s = Stay(Len(Mem)), NEW p, p = Mark(Len(Mem)), NEW U, U = Used(Mem, ArgNames),
           Sane => /\ argv' = Crossed(U \cup (1 .. n))
                   /\ Clean' => Split(s, p)' /\ tmps'[INDOT].items = At(ArgMembers, (1 .. n) \ U)
    PROVE  Inv'
<1>1. /\ Opened /\ buf = << >> /\ cmd.key = "r" /\ Kept /\ n \in Nat /\ n \in 1 .. Len(cmd.argv) + 1
      /\ Len(cmd.argv) \in Nat
  BY Inserting
<1>2. pc' = "insert" /\ n' = n + 1 /\ UNCHANGED <<arfile, buf, cmd, old>>
  BY DEF Advance
<1>3. n' \in Nat /\ n' - 1 = n /\ n' \in 1 .. Len(cmd.argv) + 1
  BY <1>1, <1>2
<1>4. TypeOK'
  <2>1. /\ buf' \in Seq(Item) /\ (arfile' = NoFile \/ Store(arfile')) /\ TypeOK
        /\ files' \in [Paths -> {NoFile} \cup File] /\ cur' \in {BEFORE, AFTER}
    BY <1>2, Kinds
  <2>2. cmd' = cmd /\ old' = old /\ n' \in Nat
    BY <1>2, <1>3
  <2> QED BY <2>1, <2>2, TypeKept
<1>5. ~Clean' => faults' > old'.faults
  BY <1>2, Kinds, CleanKept
<1>6. /\ Base' = Base /\ Sane' = Sane /\ Mem' = Mem /\ ArgNames' = ArgNames /\ ArgMembers' = ArgMembers
      /\ Stay(Len(Mem))' = s /\ Mark(Len(Mem))' = p
  BY <1>2, Rigid
<1>7. Opened' /\ Kept'
  BY <1>1, <1>2, <1>6 DEF Opened, Kept
<1>8. Adding'
  <2>1. Crossed(Used(Mem, ArgNames) \cup (1 .. n - 1))' = Crossed(U \cup (1 .. n))
    <3>1. (Used(Mem, ArgNames) \cup (1 .. n - 1))' = U \cup (1 .. n)
      BY <1>3, <1>6
    <3> QED BY <1>2, <3>1 DEF Crossed
  <2>2. At(ArgMembers, (1 .. n - 1) \ Used(Mem, ArgNames))' = At(ArgMembers, (1 .. n) \ U)
    BY <1>3, <1>6
  <2>3. Split(Stay(Len(Mem)), Mark(Len(Mem)))' = Split(s, p)'
    BY <1>6 DEF Split
  <2>4. Sane' => /\ argv' = Crossed(Used(Mem, ArgNames) \cup (1..n - 1))'
                 /\ Clean' => /\ Split(Stay(Len(Mem)), Mark(Len(Mem)))'
                              /\ tmps'[INDOT].items = At(ArgMembers, (1..n - 1) \ Used(Mem, ArgNames))'
    BY <1>6, <2>1, <2>2, <2>3
  <2> QED BY <1>1, <1>2, <1>3, <1>7, <2>4 DEF Adding
<1>9. pc' \in Places \ {"end"}
  BY <1>2 DEF Places
<1> QED BY <1>2, <1>4, <1>5, <1>8, <1>9, GoesOn

LEMMA Stepinsert == ASSUME Inv, insert PROVE Inv'
<1>1. pc = "insert" /\ UNCHANGED <<files, out, cur>>
  BY DEF insert
<1>2. /\ Opened /\ buf = << >> /\ cmd.key = "r" /\ Kept /\ Editing /\ files = old.files
      /\ n \in Nat /\ n \in 1 .. Len(cmd.argv) + 1 /\ Len(cmd.argv) \in Nat /\ Len(argv) = Len(cmd.argv)
      /\ DOMAIN argv = Args
      /\ Sane => /\ argv = Crossed(Used(Mem, ArgNames) \cup (1 .. n - 1))
                 /\ Clean => /\ Split(Stay(Len(Mem)), Mark(Len(Mem)))
                             /\ tmps[INDOT].items = At(ArgMembers, (1 .. n - 1) \ Used(Mem, ArgNames))
  BY <1>1, Inserting
<1>3. /\ TypeOK /\ tmps \in [0 .. 2 -> Temp] /\ faults \in Nat /\ cmd \in Commands /\ cur \in {BEFORE, AFTER}
      /\ argv \in [DOMAIN cmd.argv -> Paths \cup {NULL}] /\ files \in [Paths -> {NoFile} \cup File]
      /\ files' \in [Paths -> {NoFile} \cup File]
  BY <1>1, Kinds
<1>4. PICK s, p, U : s = Stay(Len(Mem)) /\ p = Mark(Len(Mem)) /\ U = Used(Mem, ArgNames)
  OBVIOUS
<1>5. CASE /\ n > Len(argv)
           /\ pc' = "merge" /\ n' = 1
           /\ UNCHANGED <<arfile, buf, tmps, names, cmd, argv, status, at, old, runs, faults>>
  <2>1. n - 1 = Len(cmd.argv) /\ n' \in Nat
    BY <1>2, <1>5
  <2>2. ASSUME Sane PROVE argv = Final /\ (Clean => Joined = Change)
    <3>1. 1 .. n - 1 = DOMAIN cmd.argv /\ DOMAIN ArgNames = DOMAIN cmd.argv
      BY <1>3, <2>1, CommandFacts DEF Args
    <3>2. U \subseteq DOMAIN ArgNames
      BY <1>4, HitIs
    <3>3. argv = Crossed(DOMAIN cmd.argv)
      <4>1. U \cup (1 .. n - 1) = DOMAIN cmd.argv
        BY <3>1, <3>2
      <4> QED BY <1>2, <1>4, <2>2, <4>1
    <3>4. argv = Final
      BY <1>2, <3>3 DEF Final
    <3>5. ASSUME Clean PROVE Joined = Change
      <4>1. PICK L : L = Len(Mem)
        OBVIOUS
      <4>2. Split(Stay(L), Mark(L)) /\ tmps[INDOT].items = At(ArgMembers, DOMAIN ArgNames \ Used(Mem, ArgNames))
        BY <1>2, <2>2, <3>1, <3>5, <4>1
      <4>3. tmps[INDOT].items = (CASE cmd.key = "r" -> At(ArgMembers, DOMAIN ArgNames \ Used(Mem, ArgNames))
                                  [] cmd.key = "m" -> At(Mem, HitSet)
                                  [] OTHER -> << >>)
        BY <1>2, <4>2
      <4> QED BY <1>2, <1>3, <2>2, <4>1, <4>2, <4>3, Joins
    <3> QED BY <3>4, <3>5
  <2>3. TypeOK' /\ (~Clean' => faults' > old'.faults)
    BY <1>1, <1>5, <2>1, Kinds, Quiet
  <2>4. /\ Base' = Base /\ Sane' = Sane /\ Change' = Change /\ Final' = Final
    BY <1>5, Rigid
  <2>5. Opened' /\ Kept' /\ Editing' /\ Merging'
    <3>1. Clean' = Clean /\ Joined' = Joined
      BY <1>5 DEF Clean, Joined
    <3> QED BY <1>1, <1>2, <1>5, <2>2, <2>4, <3>1 DEF Opened, Kept, Editing, Merging
  <2>6. Rewriting'
    BY <1>2, <1>5, <2>5 DEF Rewriting
  <2>7. pc' \in Places \ {"end"}
    BY <1>5 DEF Places
  <2> QED BY <1>5, <2>3, <2>6, <2>7, GoesOn
<1>6. ASSUME n <= Len(argv)
      PROVE  /\ n \in Args /\ argv[n] \in Paths \cup {NULL} /\ n <= Len(cmd.argv) /\ n \in Nat
             /\ Sane => /\ argv[n] = NULL <=> n \in U
                        /\ argv[n] # NULL => argv[n] = cmd.argv[n]
                        /\ [argv EXCEPT ![n] = NULL] = Crossed(U \cup (1 .. n))
                        /\ n \in U => argv = Crossed(U \cup (1 .. n)) /\ (1 .. n) \ U = (1 .. n - 1) \ U
                        /\ n \notin U => At(ArgMembers, (1 .. n) \ U) = Append(At(ArgMembers, (1 .. n - 1) \ U), ArgMembers[n])
  <2>1. n \in Args /\ n <= Len(cmd.argv)
    BY <1>2, <1>6 DEF Args
  <2>2. argv[n] \in Paths \cup {NULL}
    BY <1>2, <1>3, <2>1
  <2>3. ASSUME Sane
        PROVE /\ argv[n] = NULL <=> n \in U
              /\ argv[n] # NULL => argv[n] = cmd.argv[n]
              /\ [argv EXCEPT ![n] = NULL] = Crossed(U \cup (1 .. n))
              /\ n \in U => argv = Crossed(U \cup (1 .. n)) /\ (1 .. n) \ U = (1 .. n - 1) \ U
              /\ n \notin U => At(ArgMembers, (1 .. n) \ U) = Append(At(ArgMembers, (1 .. n - 1) \ U), ArgMembers[n])
    <3>1. argv = Crossed(U \cup (1 .. n - 1))
      BY <1>2, <1>4, <2>3
    <3> QED BY <1>2, <1>3, <1>4, <2>1, <2>3, <3>1, OneMore
  <2> QED BY <1>2, <2>1, <2>2, <2>3
<1>7. CASE /\ n <= Len(argv) /\ argv[n] = NULL
           /\ Advance
           /\ UNCHANGED <<tmps, argv, faults>>
  <2>1. n <= Len(cmd.argv) /\ Clean' = Clean
    BY <1>6, <1>7 DEF Clean
  <2>2. ASSUME Sane
        PROVE  /\ argv' = Crossed(U \cup (1 .. n))
               /\ Clean' => Split(s, p)' /\ tmps'[INDOT].items = At(ArgMembers, (1 .. n) \ U)
    <3>1. argv = Crossed(U \cup (1 .. n)) /\ (1 .. n) \ U = (1 .. n - 1) \ U
      BY <1>6, <1>7, <2>2
    <3>2. Split(s, p)' = Split(s, p)
      BY <1>1, <1>7 DEF Split, Advance
    <3> QED BY <1>2, <1>4, <1>7, <2>1, <2>2, <3>1, <3>2
  <2>3. /\ argv' \in [DOMAIN cmd.argv -> Paths \cup {NULL}] /\ tmps' \in [0 .. 2 -> Temp]
        /\ faults' \in Nat /\ faults' >= faults
    BY <1>3, <1>7
  <2>4. ~Clean' => ~Clean \/ faults' > faults
    BY <2>1
  <2>5. Advance /\ files' = files /\ cur' = cur
    BY <1>1, <1>7
  <2> QED BY <1>1, <1>4, <2>1, <2>2, <2>3, <2>4, <2>5, TurnInserts, Zenon
<1>8. CASE /\ n <= Len(argv) /\ argv[n] # NULL /\ files[argv[n]] = NoFile
           /\ error
           /\ UNCHANGED <<tmps, argv, n, faults>>
  <2>1. ~Sane
    <3>1. ASSUME Sane PROVE FALSE
      <4>1. argv[n] = cmd.argv[n] /\ n \in Args
        BY <1>6, <1>8, <3>1
      <4>2. old.files[cmd.argv[n]] # NoFile
        BY <1>2, <1>3, <3>1, <4>1, SaneFacts
      <4> QED BY <1>2, <1>8, <4>1, <4>2
    <3> QED BY <3>1
  <2>2. pc # "end" /\ UNCHANGED <<tmps, n, cur, faults>>
    BY <1>1, <1>8
  <2> QED BY <1>3, <1>8, <2>1, <2>2, InsaneStops
<1>9. CASE /\ n <= Len(argv) /\ argv[n] # NULL /\ files[argv[n]] # NoFile
           /\ Put(INDOT, archive(argv[n]))
           /\ argv' = [argv EXCEPT ![n] = NULL]
           /\ Advance
  <2>1. PICK path, e : path = argv[n] /\ e = archive(path)
    OBVIOUS
  <2>2. path \in Paths
    BY <1>6, <1>9, <2>1
  <2>3. e \in Entry /\ Put(INDOT, e)
    BY <1>3, <1>9, <2>1, <2>2, FileFacts
  <2>4. INDOT \in 0 .. 2 /\ BEFORE # INDOT /\ AFTER # INDOT /\ BEFORE \in 0 .. 2 /\ AFTER \in 0 .. 2
    BY DEF INDOT, BEFORE, AFTER
  <2>5. /\ tmps' \in [0 .. 2 -> Temp] /\ faults' \in Nat /\ faults' >= faults
        /\ Clean' => /\ Clean
                     /\ tmps'[INDOT].items = Append(tmps[INDOT].items, e)
                     /\ \A y \in 0 .. 2 : y # INDOT => tmps'[y] = tmps[y]
        /\ ~Clean' => ~Clean \/ faults' > faults
    BY <1>3, <2>3, <2>4, PutIs
  <2>6. ASSUME Sane
        PROVE  /\ argv' = Crossed(U \cup (1 .. n))
               /\ Clean' => Split(s, p)' /\ tmps'[INDOT].items = At(ArgMembers, (1 .. n) \ U)
    <3>1. /\ n \notin U /\ path = cmd.argv[n] /\ n \in Args
          /\ [argv EXCEPT ![n] = NULL] = Crossed(U \cup (1 .. n))
          /\ At(ArgMembers, (1 .. n) \ U) = Append(At(ArgMembers, (1 .. n - 1) \ U), ArgMembers[n])
      BY <1>6, <1>9, <2>1, <2>6
    <3>2. e = ArgMembers[n]
      BY <1>2, <1>3, <1>9, <2>1, <3>1, ArgFacts
    <3>3. Clean => Split(s, p) /\ tmps[INDOT].items = At(ArgMembers, (1 .. n - 1) \ U)
      BY <1>2, <1>4, <2>6
    <3>4. Clean' => Split(s, p)'
      <4>1. Clean' => tmps'[BEFORE] = tmps[BEFORE] /\ tmps'[AFTER] = tmps[AFTER]
        BY <2>4, <2>5
      <4>2. cmd' = cmd /\ cur' = cur
        BY <1>1, <1>9 DEF Advance
      <4> QED BY <2>5, <3>3, <4>1, <4>2 DEF Split
    <3> QED BY <1>9, <2>5, <3>1, <3>2, <3>3, <3>4
  <2>7. argv' \in [DOMAIN cmd.argv -> Paths \cup {NULL}]
    BY <1>3, <1>9
  <2>8. Advance /\ files' = files /\ cur' = cur /\ n <= Len(cmd.argv)
    BY <1>1, <1>6, <1>9
  <2> QED BY <1>1, <1>4, <2>5, <2>6, <2>7, <2>8, TurnInserts, Zenon
<1> QED BY <1>5, <1>7, <1>8, <1>9 DEF insert

LEMMA Appending ==
    ASSUME Inv, pc = "append"
    PROVE  /\ Opened /\ cmd.key = "q" /\ Kept /\ files = old.files
           /\ n \in Nat /\ n \in 1 .. Len(cmd.argv) + 1 /\ Len(cmd.argv) \in Nat /\ Len(argv) = Len(cmd.argv)
           /\ buf = SubSeq(ArgMembers, 1, n - 1) /\ buf \in Seq(Entry) /\ argv = Crossed(1 .. n - 1)
           /\ \A i \in 1 .. n - 1 : old.files[cmd.argv[i]] # NoFile /\ ArgMembers[i] \in Entry
<1>1. /\ Opened /\ cmd.key = "q" /\ Kept /\ n \in 1 .. Len(cmd.argv) + 1
      /\ buf = SubSeq(ArgMembers, 1, n - 1) /\ argv = Crossed(1 .. n - 1)
      /\ \A i \in 1 .. n - 1 : old.files[cmd.argv[i]] # NoFile
  BY DEF Inv, Adding
<1>2. /\ cmd \in Commands /\ argv \in [DOMAIN cmd.argv -> Paths \cup {NULL}] /\ n \in Nat /\ TypeOK
  BY Kinds
<1>3. Len(cmd.argv) \in Nat /\ DOMAIN cmd.argv = Args
  BY <1>2, CommandFacts
<1>4. Len(argv) = Len(cmd.argv)
  <2>1. argv \in [1 .. Len(cmd.argv) -> Paths \cup {NULL}]
    BY <1>2, <1>3 DEF Args
  <2>2. argv \in Seq(Paths \cup {NULL})
    BY <1>3, <2>1
  <2> QED BY <1>3, <2>1, <2>2, LenProperties
<1>5. buf \in Seq(Entry) /\ \A i \in 1 .. n - 1 : ArgMembers[i] \in Entry
  <2>1. Adding
    BY DEF Inv
  <2> QED BY <1>2, <2>1, Appended
<1> QED BY <1>1, <1>2, <1>3, <1>4, <1>5 DEF Kept

LEMMA Stepappend == ASSUME Inv, append PROVE Inv'
<1>1. /\ pc = "append" /\ n <= Len(argv) /\ argv' = [argv EXCEPT ![n] = NULL]
      /\ UNCHANGED <<files, tmps, out, cur>>
  BY DEF append
<1>2. /\ Opened /\ cmd.key = "q" /\ Kept /\ files = old.files
      /\ n \in Nat /\ n \in 1 .. Len(cmd.argv) + 1 /\ Len(cmd.argv) \in Nat /\ Len(argv) = Len(cmd.argv)
      /\ buf = SubSeq(ArgMembers, 1, n - 1) /\ buf \in Seq(Entry) /\ argv = Crossed(1 .. n - 1)
      /\ \A i \in 1 .. n - 1 : old.files[cmd.argv[i]] # NoFile /\ ArgMembers[i] \in Entry
  BY <1>1, Appending
<1>3. /\ TypeOK /\ tmps \in [0 .. 2 -> Temp] /\ faults \in Nat /\ cmd \in Commands /\ cur \in {BEFORE, AFTER}
      /\ argv \in [DOMAIN cmd.argv -> Paths \cup {NULL}] /\ files \in [Paths -> {NoFile} \cup File]
      /\ files' \in [Paths -> {NoFile} \cup File]
  BY <1>1, Kinds
<1>4. argv' \in [DOMAIN cmd.argv -> Paths \cup {NULL}]
  BY <1>1, <1>3
<1>5. n \in Args /\ n \in 1 .. Len(cmd.argv) /\ 1 .. n = (1 .. n - 1) \cup {n} /\ (n - 1) + 1 = n /\ n - 1 \in Nat /\ n \notin 1 .. n - 1
  BY <1>1, <1>2 DEF Args
<1>6. DOMAIN cmd.argv = Args
  BY <1>3, CommandFacts
<1>7. PICK path, e : path = argv[n] /\ e = archive(path)
  OBVIOUS
<1>8. path = cmd.argv[n] /\ path \in Paths
  <2>1. argv[n] = cmd.argv[n]
    BY <1>2, <1>5, <1>6 DEF Crossed
  <2> QED BY <1>3, <1>5, <1>7, <2>1, CommandFacts
<1>9. files[path] # NoFile => e = ArgMembers[n] /\ e \in Entry
  BY <1>2, <1>3, <1>5, <1>7, <1>8, ArgFacts, FileFacts
<1>10. CASE files[path] = NoFile /\ error /\ UNCHANGED <<n, faults>>
  <2>1. ~Sane
    <3>1. ASSUME Sane PROVE FALSE
      <4>1. old.files[cmd.argv[n]] # NoFile
        BY <1>2, <1>3, <1>5, <3>1, SaneFacts
      <4> QED BY <1>2, <1>8, <1>10, <4>1
    <3> QED BY <3>1
  <2>2. pc # "end" /\ UNCHANGED <<tmps, n, cur, faults>>
    BY <1>1, <1>10
  <2> QED BY <1>3, <1>4, <1>10, <2>1, <2>2, InsaneStops
<1>11. CASE /\ files[path] # NoFile
            /\ buf' = Append(buf, e)
            /\ pc' = pc /\ n' = n + 1
            /\ UNCHANGED <<arfile, names, cmd, status, at, old, runs, faults>>
  <2>1. n' \in Nat /\ n' - 1 = n /\ n' \in 1 .. Len(cmd.argv) + 1
    BY <1>2, <1>5, <1>11
  <2>2. buf' \in Seq(Item)
    <3>1. buf' \in Seq(Entry)
      BY <1>2, <1>9, <1>11, AppendProperties
    <3> QED BY <3>1, EntriesFlow DEF Flows
  <2>3. TypeOK' /\ (~Clean' => faults' > old'.faults)
    <3>1. Clean' = Clean
      BY <1>1 DEF Clean
    <3>2. TypeOK'
      <4>1. /\ tmps' \in [0 .. 2 -> Temp] /\ cur' \in {BEFORE, AFTER} /\ faults' \in Nat /\ faults' >= faults
            /\ (arfile' = NoFile \/ Store(arfile')) /\ cmd' = cmd /\ old' = old
        BY <1>1, <1>3, <1>11, Kinds
      <4> QED BY <1>3, <1>4, <2>1, <2>2, <4>1, TypeKept
    <3> QED BY <1>11, <3>1, <3>2, Kinds
  <2>4. /\ Base' = Base /\ ArgMembers' = ArgMembers
    BY <1>11, Rigid
  <2>5. Opened' /\ Kept'
    BY <1>1, <1>2, <1>11, <2>4 DEF Opened, Kept
  <2>6. buf' = SubSeq(ArgMembers', 1, n' - 1)
    <3>1. PICK m : m = n - 1
      OBVIOUS
    <3>2. m \in Nat /\ m + 1 = n
      BY <1>5, <3>1
    <3>3. \A i \in 1 .. m + 1 : ArgMembers[i] \in Entry
      BY <1>2, <1>5, <1>9, <1>11, <3>1, <3>2
    <3>4. SubSeq(ArgMembers, 1, m + 1) = Append(SubSeq(ArgMembers, 1, m), ArgMembers[m + 1])
      BY <3>2, <3>3, SubExtend
    <3>5. SubSeq(ArgMembers, 1, n) = Append(buf, e)
      BY <1>2, <1>9, <1>11, <3>1, <3>2, <3>4
    <3> QED BY <1>11, <2>1, <2>4, <3>5
  <2>7. argv' = Crossed(1 .. n - 1)'
    <3>1. argv' = Crossed(1 .. n)
      BY <1>1, <1>2, <1>5, <1>6 DEF Crossed
    <3>2. Crossed(1 .. n - 1)' = Crossed(1 .. n)
      BY <1>11, <2>1 DEF Crossed
    <3> QED BY <3>1, <3>2
  <2>8. \A i \in 1 .. n' - 1 : old'.files[cmd'.argv[i]] # NoFile
    BY <1>2, <1>5, <1>8, <1>11, <2>1
  <2>9. Adding'
    BY <1>1, <1>2, <1>11, <2>1, <2>4, <2>5, <2>6, <2>7, <2>8 DEF Adding
  <2>10. pc' = "append" /\ pc' \in Places \ {"end"}
    BY <1>1, <1>11 DEF Places
  <2> QED BY <2>3, <2>9, <2>10, GoesOn
<1>12. CASE /\ files[path] # NoFile
            /\ Fault
            /\ Gone(1)
            /\ arfile' = arfile \o Append(buf, [e EXCEPT !.kind = "cut"])
            /\ n' = n
  <2>1. PICK c, v : c = [e EXCEPT !.kind = "cut"] /\ v = Append(buf, c)
    OBVIOUS
  <2>2. c \in Entry
    BY <1>9, <1>12, <2>1, ItemFacts
  <2>3. v \in Seq(Entry)
    BY <1>2, <2>1, <2>2, AppendProperties
  <2>4. Flows(arfile, v)
    BY <2>3, EntriesFlow
  <2>5. Store(arfile) /\ arfile' = arfile \o v
    BY <1>2, <1>3, <1>12, <2>1, OpenedFacts
  <2>6. Store(arfile') /\ v \in Seq(Item)
    BY <2>4, <2>5, StoreConcat DEF Flows
  <2>7. faults' = faults + 1 /\ cmd' = cmd /\ old' = old /\ status' = 1
    BY <1>12 DEF Fault, Gone
  <2>8. EditsList'
    BY <1>3, <2>7, FaultEnd
  <2>9. pc = "append" => \E z \in Seq(Item) : arfile' = arfile \o z
    BY <2>5, <2>6
  <2>10. pc \notin {"magic", "append", "merging"} => arfile' = arfile
    BY <1>1
  <2>11. UNCHANGED <<tmps, n, cur>> /\ faults' \in {faults, faults + 1} /\ pc # "end"
    BY <1>1, <1>12, <2>7
  <2> QED BY <1>3, <1>4, <1>12, <2>6, <2>8, <2>9, <2>10, <2>11, Ends
<1> QED BY <1>1, <1>7, <1>10, <1>11, <1>12 DEF append

LEMMA StepCloseAppended == ASSUME Inv, CloseAppended PROVE Inv'
<1>1. pc = "append" /\ n > Len(argv) /\ Flush("check") /\ UNCHANGED <<files, tmps, argv, out, n, cur>>
  BY DEF CloseAppended
<1>2. /\ Opened /\ cmd.key = "q" /\ Kept /\ files = old.files
      /\ n \in Nat /\ n \in 1 .. Len(cmd.argv) + 1 /\ Len(cmd.argv) \in Nat /\ Len(argv) = Len(cmd.argv)
      /\ buf = SubSeq(ArgMembers, 1, n - 1) /\ buf \in Seq(Entry) /\ argv = Crossed(1 .. n - 1)
      /\ \A i \in 1 .. n - 1 : old.files[cmd.argv[i]] # NoFile /\ ArgMembers[i] \in Entry
  BY <1>1, Appending
<1>3. TypeOK /\ cmd \in Commands
  BY Kinds
<1>4. n - 1 = Len(cmd.argv) /\ DOMAIN cmd.argv = 1 .. n - 1
  BY <1>1, <1>2, <1>3, CommandFacts DEF Args
<1>5. CASE /\ arfile' = arfile \o buf /\ buf' = <<>> /\ pc' = "check"
           /\ UNCHANGED <<names, cmd, status, at, old, runs, faults>>
  <2>1. Store(arfile')
    BY <1>2, <1>3, <1>5, OpenedFacts, EntriesFlow, StoreConcat
  <2>2. << >> \in Seq(Item)
    OBVIOUS
  <2>3. TypeOK' /\ (~Clean' => faults' > old'.faults)
    BY <1>1, <1>5, <2>1, <2>2, Kinds, Quiet
  <2>4. argv = Final
    BY <1>2, <1>4 DEF Final
  <2>5. ASSUME Sane PROVE arfile' = Edited
    <3>1. buf = ArgMembers
      <4>1. PICK g, m : g = ArgMembers /\ m = n - 1
        OBVIOUS
      <4>2. g \in [1 .. m -> Entry]
        <5>1. g = [i \in DOMAIN cmd.argv |-> g[i]]
          <6>1. DOMAIN g = DOMAIN cmd.argv
            BY <4>1 DEF ArgMembers
          <6>2. g = [i \in DOMAIN g |-> g[i]]
            BY <4>1 DEF ArgMembers
          <6> QED BY <6>1, <6>2
        <5> QED BY <1>2, <1>4, <4>1, <5>1
      <4>3. m \in Nat
        BY <1>2, <1>4, <4>1
      <4>4. g \in Seq(Entry) /\ Len(g) = m
        BY <4>2, <4>3, LenProperties
      <4>5. SubSeq(g, 1, Len(g)) = g
        BY <4>4, SubSeqFull
      <4> QED BY <1>2, <4>1, <4>4, <4>5
    <3>2. Edited = <<Magic>> \o (Mem \o buf)
      BY <1>2, <3>1, EditIs, EditedIs
    <3>3. PICK o, w, g : o = <<Magic>> /\ w = Mem /\ g = buf
      OBVIOUS
    <3>4. o \in Seq(Item) /\ w \in Seq(Item) /\ g \in Seq(Item)
      BY <1>2, <1>3, <2>5, <3>3, SaneFacts, EntriesFlow, Stores DEF Flows
    <3>5. (o \o w) \o g = o \o (w \o g)
      BY <3>4, ConcatAssociative
    <3>6. arfile = <<Magic>> \o Mem
      BY <1>2, <1>3, <2>5, SaneFacts DEF Opened
    <3> QED BY <1>5, <3>2, <3>3, <3>5, <3>6
  <2>6. /\ Edited' = Edited /\ Sane' = Sane /\ Final' = Final
    BY <1>5, Rigid
  <2>7. Gave(Len(Mem))'
    BY <1>2, <1>5 DEF Gave
  <2>8. Closing'
    BY <1>1, <1>5, <2>4, <2>5, <2>6, <2>7 DEF Closing
  <2>9. pc' \in Places \ {"end"}
    BY <1>5 DEF Places
  <2> QED BY <1>5, <2>3, <2>8, <2>9, GoesOn
<1>6. CASE Fault /\ Gone(1) /\ arfile' \in Partial(arfile, buf) \ {arfile \o buf}
  BY <1>1, <1>6, FlushFails
<1> QED BY <1>1, <1>5, <1>6 DEF Flush

-----------------------------------------------------------------------------
(* merge() and the ends of a run.                                          *)

LEMMA StepReopen == ASSUME Inv, Reopen PROVE Inv'
<1>1. pc = "merge" /\ UNCHANGED <<files, tmps, argv, out, cur>>
  BY DEF Reopen
<1>2. Opened /\ buf = << >> /\ Editing /\ Kept /\ Merging
  BY <1>1 DEF Inv, Rewriting
<1>3. CASE Fault /\ error /\ n' = n
  <2>1. pc # "end" /\ UNCHANGED <<tmps, n, cur>>
    BY <1>1, <1>3
  <2> QED BY <1>1, <1>3, <2>1, FaultStops, Kinds
<1>4. CASE /\ arfile' = <<>>
           /\ buf' = <<Magic>>
           /\ pc' = "merging" /\ n' = BEFORE
           /\ UNCHANGED <<names, cmd, status, at, old, runs, faults>>
  <2>1. n' = 0 /\ n' \in Nat /\ n' \in 0 .. 3
    BY <1>4 DEF BEFORE
  <2>2. <<Magic>> \in Seq(Item)
    BY Stores
  <2>3. TypeOK' /\ (~Clean' => faults' > old'.faults)
    BY <1>1, <1>4, <2>1, <2>2, Kinds, Quiet, Stores
  <2>4. Sane' = Sane /\ Change' = Change /\ Final' = Final
    BY <1>4, Rigid
  <2>5. Clean' = Clean /\ Joined' = Joined
    BY <1>1 DEF Clean, Joined
  <2>6. Kept' /\ Editing' /\ Merging'
    BY <1>1, <1>2, <1>4, <2>4, <2>5 DEF Kept, Editing, Merging
  <2>7. Written' = <<Magic>>
    BY <2>1 DEF Written
  <2>8. \A t \in 0 .. 2 : t < n' => ~tmps'[t].err
    BY <2>1
  <2>9. Rewriting'
    BY <1>4, <2>1, <2>6, <2>7, <2>8 DEF Rewriting
  <2>10. pc' \in Places \ {"end"}
    BY <1>4 DEF Places
  <2> QED BY <1>4, <2>3, <2>9, <2>10, GoesOn
<1> QED BY <1>3, <1>4 DEF Reopen

LEMMA Stepmerge == ASSUME Inv, merge PROVE Inv'
<1>1. pc = "merging" /\ n <= AFTER /\ UNCHANGED <<files, tmps, argv, out, cur, faults>>
  BY DEF merge
<1>2. /\ Editing /\ Kept /\ Merging /\ n \in 0 .. 3 /\ arfile = << >> /\ buf = Written
      /\ \A t \in 0 .. 2 : t < n => ~tmps[t].err
  BY <1>1 DEF Inv, Rewriting
<1>3. TypeOK /\ tmps \in [0 .. 2 -> Temp] /\ n \in 0 .. 2 /\ n \in Nat
  BY <1>1, <1>2, Kinds DEF AFTER
<1>4. PICK w : w = tmps[n].items
  OBVIOUS
<1>5. w \in Seq(Entry)
  BY <1>3, <1>4, Together
<1>6. Store(arfile) /\ Flows(arfile, buf) /\ buf \in Seq(Item)
  BY <1>1, BufFlows DEF Flows
<1>7. CASE tmps[n].err
  <2>1. Gone(1) /\ arfile' = arfile \o buf \o w /\ n' = n
    BY <1>4, <1>7 DEF merge
  <2>2. PICK d : d = arfile \o buf
    OBVIOUS
  <2>3. Store(d)
    BY <1>6, <2>2, StoreConcat
  <2>4. Flows(d, w)
    BY <1>5, EntriesFlow
  <2>5. Store(arfile')
    BY <2>1, <2>2, <2>3, <2>4, StoreConcat
  <2>6. cmd' = cmd /\ old' = old /\ status' = 1
    BY <2>1 DEF Gone
  <2>7. faults > old.faults
    <3>1. ~Clean
      BY <1>3, <1>7 DEF Clean
    <3> QED BY <3>1, Kinds
  <2>8. EditsList'
    <3>1. ~(status' = 0 \/ faults' = old'.faults)
      <4>1. old.faults \in Nat /\ faults \in Nat
        BY <1>3 DEF TypeOK, OldType
      <4> QED BY <1>1, <2>6, <2>7, <4>1
    <3> QED BY <3>1 DEF EditsList
  <2>9. /\ argv' \in [DOMAIN cmd.argv -> Paths \cup {NULL}]
        /\ files' \in [Paths -> {NoFile} \cup File]
        /\ UNCHANGED <<tmps, n, cur>> /\ faults' \in {faults, faults + 1}
    BY <1>1, <2>1, Kinds
  <2>10. /\ pc \notin {"magic", "append", "merging"} => arfile' = arfile
         /\ pc = "append" => \E v \in Seq(Item) : arfile' = arfile \o v
    BY <1>1
  <2>11. pc # "end" /\ 1 \in {0, 1}
    BY <1>1
  <2> QED BY <2>1, <2>5, <2>8, <2>9, <2>10, <2>11, Ends
<1>8. CASE ~tmps[n].err
  <2>1. /\ buf' = buf \o w /\ n' = n + 1
        /\ UNCHANGED <<arfile, names, cmd, status, at, pc, old, runs>>
    BY <1>4, <1>8 DEF merge
  <2>2. w \in Seq(Item) /\ n' \in Nat /\ n' \in 0 .. 3
    <3>1. Flows(arfile, w)
      BY <1>5, EntriesFlow
    <3>2. w \in Seq(Item)
      BY <3>1 DEF Flows
    <3>3. n' \in Nat /\ n' \in 0 .. 3
      BY <1>3, <2>1
    <3> QED BY <3>2, <3>3
  <2>3. buf' \in Seq(Item)
    BY <1>6, <2>1, <2>2, ConcatProperties
  <2>4. TypeOK' /\ (~Clean' => faults' > old'.faults)
    BY <1>1, <2>1, <2>2, <2>3, Kinds, Quiet
  <2>5. Sane' = Sane /\ Change' = Change /\ Final' = Final
    BY <2>1, Rigid
  <2>6. Clean' = Clean /\ Joined' = Joined
    BY <1>1 DEF Clean, Joined
  <2>7. Kept' /\ Editing' /\ Merging'
    BY <1>1, <1>2, <2>1, <2>5, <2>6 DEF Kept, Editing, Merging
  <2>8. buf' = Written'
    <3>1. PICK x, y, z : x = tmps[BEFORE].items /\ y = tmps[INDOT].items /\ z = tmps[AFTER].items
      OBVIOUS
    <3>2. Written = IF n = 0 THEN <<Magic>> ELSE IF n = 1 THEN <<Magic>> \o x
                    ELSE IF n = 2 THEN <<Magic>> \o x \o y ELSE <<Magic>> \o x \o y \o z
      BY <3>1 DEF Written
    <3>3. Written' = IF n' = 0 THEN <<Magic>> ELSE IF n' = 1 THEN <<Magic>> \o x
                     ELSE IF n' = 2 THEN <<Magic>> \o x \o y ELSE <<Magic>> \o x \o y \o z
      BY <1>1, <3>1 DEF Written
    <3>4. (n = 0 => w = x) /\ (n = 1 => w = y) /\ (n = 2 => w = z)
      BY <1>4, <3>1 DEF BEFORE, INDOT, AFTER
    <3>5. CASE n = 0
      <4>1. buf = <<Magic>> /\ w = x /\ n' = 1
        BY <1>2, <2>1, <3>2, <3>4, <3>5
      <4>2. Written' = <<Magic>> \o x
        BY <3>3, <4>1
      <4> QED BY <2>1, <4>1, <4>2
    <3>6. CASE n = 1
      <4>1. buf = <<Magic>> \o x /\ w = y /\ n' = 2
        BY <1>2, <2>1, <3>2, <3>4, <3>6
      <4>2. Written' = <<Magic>> \o x \o y
        BY <3>3, <4>1
      <4> QED BY <2>1, <4>1, <4>2
    <3>7. CASE n = 2
      <4>1. buf = <<Magic>> \o x \o y /\ w = z /\ n' = 3
        BY <1>2, <2>1, <3>2, <3>4, <3>7
      <4>2. Written' = <<Magic>> \o x \o y \o z
        BY <3>3, <4>1
      <4> QED BY <2>1, <4>1, <4>2
    <3> QED BY <1>3, <3>5, <3>6, <3>7
  <2>9. \A t \in 0 .. 2 : t < n' => ~tmps'[t].err
    BY <1>1, <1>2, <1>3, <1>8, <2>1
  <2>10. Rewriting'
    BY <1>1, <1>2, <2>1, <2>2, <2>7, <2>8, <2>9 DEF Rewriting
  <2>11. pc' = "merging" /\ pc' \in Places \ {"end"}
    BY <1>1, <2>1 DEF Places
  <2> QED BY <2>4, <2>10, <2>11, GoesOn
<1> QED BY <1>7, <1>8

LEMMA StepCloseMerged == ASSUME Inv, CloseMerged PROVE Inv'
<1>1. pc = "merging" /\ n > AFTER /\ Flush("check") /\ UNCHANGED <<files, tmps, argv, out, n, cur>>
  BY DEF CloseMerged
<1>2. /\ Editing /\ Kept /\ Merging /\ n \in 0 .. 3 /\ arfile = << >> /\ buf = Written
      /\ \A t \in 0 .. 2 : t < n => ~tmps[t].err
  BY <1>1 DEF Inv, Rewriting
<1>3. TypeOK /\ tmps \in [0 .. 2 -> Temp] /\ n = 3
  BY <1>1, <1>2, Kinds DEF AFTER
<1>4. CASE /\ arfile' = arfile \o buf /\ buf' = <<>> /\ pc' = "check"
           /\ UNCHANGED <<names, cmd, status, at, old, runs, faults>>
  <2>1. Store(arfile') /\ arfile' = buf
    <3>1. Store(arfile) /\ Flows(arfile, buf)
      BY <1>1, BufFlows
    <3>2. buf \in Seq(Item) /\ Store(arfile')
      BY <1>4, <3>1, StoreConcat DEF Flows
    <3>3. << >> \o buf = buf
      BY <3>2, ConcatEmptySeq
    <3> QED BY <1>2, <1>4, <3>2, <3>3
  <2>2. << >> \in Seq(Item) /\ n' \in Nat
    BY <1>1, <1>3
  <2>3. TypeOK' /\ (~Clean' => faults' > old'.faults)
    BY <1>1, <1>4, <2>1, <2>2, Kinds, Quiet
  <2>4. ASSUME Sane PROVE arfile' = Edited /\ argv = Final
    <3>1. Clean
      BY <1>2, <1>3 DEF Clean
    <3>2. argv = Final /\ Joined = Change
      BY <1>2, <2>4, <3>1 DEF Merging
    <3>3. Written = <<Magic>> \o tmps[BEFORE].items \o tmps[INDOT].items \o tmps[AFTER].items
      BY <1>3 DEF Written
    <3>4. Written = <<Magic>> \o Joined
      BY <1>3, <3>3, Together
    <3> QED BY <1>2, <2>1, <3>2, <3>4, EditedIs
  <2>5. Edited' = Edited /\ Sane' = Sane /\ Final' = Final
    BY <1>4, Rigid
  <2>6. Gave(Len(Mem))'
    BY <1>2, <1>4 DEF Gave, Editing
  <2>7. Closing'
    BY <1>1, <1>4, <2>4, <2>5, <2>6 DEF Closing
  <2>8. pc' \in Places \ {"end"}
    BY <1>4 DEF Places
  <2> QED BY <1>4, <2>3, <2>7, <2>8, GoesOn
<1>5. CASE Fault /\ Gone(1) /\ arfile' \in Partial(arfile, buf) \ {arfile \o buf}
  BY <1>1, <1>5, FlushFails
<1> QED BY <1>1, <1>4, <1>5 DEF Flush

\* What was listed or extracted when the members are read.
LEMMA ShownAll ==
    ASSUME TypeOK, Sane
    PROVE  ShownBy(Len(Mem)) = Shown(Mem, ArgNames)
<1>1. PICK L, w, a : L = Len(Mem) /\ w = Mem /\ a = ArgNames
  OBVIOUS
<1>2. L \in Nat /\ w \in Seq(Entry) /\ DOMAIN w = 1 .. L /\ Len(w) = L
  BY <1>1, SaneFacts
<1>3. cmd.argv \in Seq(Paths) /\ Len(cmd.argv) \in Nat /\ DOMAIN cmd.argv = Args /\ DOMAIN a = Args
  BY <1>1, CommandFacts DEF TypeOK
<1>4. HitSet \subseteq DOMAIN Mem
  BY HitIs DEF HitSet
<1>5. (1 .. L) \cap HitSet = Hits(w, a)
  BY <1>1, <1>2, <1>4 DEF HitSet
<1>6. cmd.argv = << >> <=> a = << >>
  <2>1. a = [i \in 1 .. Len(cmd.argv) |-> a[i]]
    <3>1. DOMAIN ArgNames = DOMAIN cmd.argv /\ ArgNames = [i \in DOMAIN ArgNames |-> ArgNames[i]]
      BY DEF ArgNames
    <3> QED BY <1>1, <1>3, <3>1 DEF Args
  <2>2. ASSUME cmd.argv = << >> PROVE a = << >>
    <3>1. Len(cmd.argv) = 0
      <4>1. Len(<< >>) = 0
        OBVIOUS
      <4> QED BY <2>2, <4>1, Zenon
    <3>2. a \in [1 .. 0 -> {}]
      BY <2>1, <3>1
    <3>3. a \in Seq({}) /\ Len(a) = 0
      BY <3>2
    <3> QED BY <3>3, EmptySeq
  <2>3. ASSUME a = << >> PROVE cmd.argv = << >>
    <3>1. DOMAIN a = {}
      BY <2>3
    <3>2. Len(cmd.argv) = 0
      <4>1. 1 \notin 1 .. Len(cmd.argv)
        BY <1>3, <3>1 DEF Args
      <4>2. PICK l : l = Len(cmd.argv)
        OBVIOUS
      <4>3. l \in Nat /\ 1 \notin 1 .. l
        BY <1>3, <4>1, <4>2
      <4> QED BY <4>2, <4>3
    <3> QED BY <1>3, <3>2, EmptySeq
  <2> QED BY <2>2, <2>3
<1>7. SubSeq(w, 1, L) = w
  BY <1>2, SubSeqFull
<1> QED BY <1>1, <1>5, <1>6, <1>7 DEF ShownBy, Shown

LEMMA EditsEnd ==
    ASSUME TypeOK, cmd' = cmd, old' = old, out' = out, files' = files, arfile' = arfile,
           Sane => /\ arfile = Edited /\ Gave(Len(Mem))
                   /\ status' = IF cmd.key \in {"r", "q"} \/ AllFound(Mem, ArgNames) THEN 0 ELSE 1
    PROVE  EditsList'
<1>1. Sane' = Sane /\ Edited' = Edited /\ Mem' = Mem /\ ArgNames' = ArgNames
  BY Rigid
<1>2. SUFFICES ASSUME Sane
               PROVE  /\ arfile' = Edited'
                      /\ status' = IF cmd.key \in {"r", "q"} \/ AllFound(Mem, ArgNames) THEN 0 ELSE 1
                      /\ cmd.key \in {"t", "p"} => out' = Shown(Mem, ArgNames)
                      /\ cmd.key = "x" => files' = Unpacked(Shown(Mem, ArgNames), old.files)
  <2>1. Members(old.arfile) = Mem /\ Members(old.arfile)' = Mem
    BY DEF Mem
  <2> QED BY <1>1, <2>1 DEF EditsList
<1>3. ShownBy(Len(Mem)) = Shown(Mem, ArgNames)
  BY <1>2, ShownAll
<1>4. (cmd.key \in {"t", "p"} => out = Shown(Mem, ArgNames))
      /\ (cmd.key = "x" => files = Unpacked(Shown(Mem, ArgNames), old.files))
  BY <1>2, <1>3 DEF Gave
<1> QED BY <1>1, <1>2, <1>4

LEMMA StepLeftover == ASSUME Inv, Leftover PROVE Inv'
<1>1. pc = "check" /\ pc # "end" /\ UNCHANGED <<files, tmps, argv, out, n, cur>>
  BY DEF Leftover
<1>2. buf = << >> /\ (Sane => arfile = Edited /\ argv = Final /\ Gave(Len(Mem)))
  BY <1>1 DEF Inv, Closing
<1>3. TypeOK /\ cmd \in Commands /\ argv \in [DOMAIN cmd.argv -> Paths \cup {NULL}]
  BY Kinds
<1>4. /\ DOMAIN cmd.argv = Args /\ DOMAIN ArgNames = Args /\ DOMAIN argv = Args
      /\ \A i \in Args : cmd.argv[i] # NULL
  BY <1>3, CommandFacts
<1>5. CASE (\E i \in DOMAIN argv : argv[i] # NULL) /\ error /\ UNCHANGED faults
  <2>1. exit(1)
    BY <1>5 DEF error
  <2>2. cmd' = cmd /\ old' = old /\ arfile' = arfile /\ status' = 1
    BY <1>2, <2>1 DEF exit, Gone
  <2>3. ASSUME Sane PROVE ~(cmd.key \in {"r", "q"} \/ AllFound(Mem, ArgNames))
    <3>1. PICK i \in Args : argv[i] # NULL
      BY <1>4, <1>5
    <3>2. PICK U : U = IF cmd.key \in {"r", "q"} THEN DOMAIN cmd.argv ELSE Used(Mem, ArgNames)
      OBVIOUS
    <3>3. i \notin U
      BY <1>2, <1>4, <2>3, <3>1, <3>2 DEF Final, Crossed
    <3> QED BY <1>4, <3>2, <3>3 DEF AllFound
  <2>4. Sane => /\ arfile = Edited /\ Gave(Len(Mem))
                /\ status' = IF cmd.key \in {"r", "q"} \/ AllFound(Mem, ArgNames) THEN 0 ELSE 1
    BY <1>2, <2>2, <2>3
  <2>5. EditsList'
    BY <1>1, <1>3, <2>2, <2>4, EditsEnd
  <2>6. /\ argv' \in [DOMAIN cmd.argv -> Paths \cup {NULL}] /\ files' \in [Paths -> {NoFile} \cup File]
        /\ UNCHANGED <<tmps, n, cur>> /\ faults' \in {faults, faults + 1} /\ 1 \in {0, 1}
    BY <1>1, <1>5, Kinds
  <2> QED BY <1>1, <2>1, <2>5, <2>6, ExitEnds
<1>6. CASE /\ \A i \in DOMAIN argv : argv[i] = NULL
           /\ pc' = "exit"
           /\ UNCHANGED <<arfile, buf, names, cmd, status, at, old, runs, faults>>
  <2>1. n' \in Nat /\ buf' \in Seq(Item) /\ (arfile' = NoFile \/ Store(arfile'))
    BY <1>1, <1>6, Kinds
  <2>2. TypeOK' /\ (~Clean' => faults' > old'.faults)
    BY <1>1, <1>6, <2>1, Quiet
  <2>3. ASSUME Sane PROVE cmd.key \in {"r", "q"} \/ AllFound(Mem, ArgNames)
    <3>1. ASSUME cmd.key \notin {"r", "q"} PROVE AllFound(Mem, ArgNames)
      <4>1. argv = Crossed(Used(Mem, ArgNames))
        BY <1>2, <2>3, <3>1 DEF Final
      <4>2. \A i \in Args : i \in Used(Mem, ArgNames)
        BY <1>4, <1>6, <4>1 DEF Crossed
      <4>3. Used(Mem, ArgNames) \subseteq DOMAIN ArgNames
        BY HitIs
      <4> QED BY <1>4, <4>2, <4>3 DEF AllFound
    <3> QED BY <3>1
  <2>4. Sane' = Sane /\ Edited' = Edited /\ Mem' = Mem /\ ArgNames' = ArgNames
    BY <1>6, Rigid
  <2>5. Gave(Len(Mem)) => Gave(Len(Mem))'
    <3>1. PICK s : s = ShownBy(Len(Mem))
      OBVIOUS
    <3>2. ShownBy(Len(Mem))' = s
      BY <1>6, <2>4, <3>1, Rigid
    <3> QED BY <1>1, <1>6, <3>1, <3>2 DEF Gave
  <2>6. Closing'
    BY <1>2, <1>6, <2>3, <2>4, <2>5 DEF Closing
  <2>7. pc' \in Places \ {"end"}
    BY <1>6 DEF Places
  <2> QED BY <1>6, <2>2, <2>6, <2>7, GoesOn
<1>7. CASE Editing /\ Fault /\ error
  BY <1>1, <1>7, FaultStops, Kinds
<1> QED BY <1>5, <1>6, <1>7 DEF Leftover

LEMMA StepExit == ASSUME Inv, Exit PROVE Inv'
<1>1. pc = "exit" /\ pc # "end" /\ UNCHANGED <<files, tmps, argv, out, n, cur>>
  BY DEF Exit
<1>2. /\ buf = << >>
      /\ Sane => arfile = Edited /\ Gave(Len(Mem)) /\ (cmd.key \in {"r", "q"} \/ AllFound(Mem, ArgNames))
  BY <1>1 DEF Inv, Closing
<1>3. CASE exit(0) /\ UNCHANGED faults
  <2>1. cmd' = cmd /\ old' = old /\ arfile' = arfile /\ status' = 0
    BY <1>2, <1>3 DEF exit, Gone
  <2>2. Sane => /\ arfile = Edited /\ Gave(Len(Mem))
                /\ status' = IF cmd.key \in {"r", "q"} \/ AllFound(Mem, ArgNames) THEN 0 ELSE 1
    BY <1>2, <2>1
  <2>3. EditsList'
    BY <1>1, <2>1, <2>2, EditsEnd, Kinds
  <2>4. /\ argv' \in [DOMAIN cmd.argv -> Paths \cup {NULL}] /\ files' \in [Paths -> {NoFile} \cup File]
        /\ UNCHANGED <<tmps, n, cur>> /\ faults' \in {faults, faults + 1} /\ 0 \in {0, 1}
    BY <1>1, <1>3, Kinds
  <2> QED BY <1>1, <1>3, <2>3, <2>4, ExitEnds
<1>4. CASE error /\ Fault
  BY <1>1, <1>4, FaultStops, Kinds
<1> QED BY <1>1, <1>3, <1>4 DEF Exit

LEMMA Stepsigfun == ASSUME Inv, sigfun PROVE Inv'
<1>1. /\ pc # "end" /\ Fault /\ Gone(1) /\ UNCHANGED <<files, tmps, argv, out, n, cur>>
      /\ arfile' \in IF buf = << >> THEN {arfile} ELSE Partial(arfile, buf)
  BY DEF sigfun
<1>2. cmd' = cmd /\ old' = old /\ status' = 1 /\ faults' = faults + 1
  BY <1>1 DEF Gone, Fault
<1>3. /\ arfile' = NoFile \/ Store(arfile')
      /\ pc \notin {"magic", "append", "merging"} => arfile' = arfile
      /\ pc = "append" => \E v \in Seq(Item) : arfile' = arfile \o v
  BY <1>1, ArchiveLeft
<1>4. EditsList'
  BY <1>2, FaultEnd, Kinds
<1>5. /\ argv' \in [DOMAIN cmd.argv -> Paths \cup {NULL}]
      /\ files' \in [Paths -> {NoFile} \cup File]
      /\ faults' \in {faults, faults + 1} /\ UNCHANGED <<tmps, n, cur>> /\ 1 \in {0, 1}
  BY <1>1, <1>2, Kinds
<1> QED BY <1>1, <1>3, <1>4, <1>5, Ends

LEMMA EmptyIs == Empty \in [0 .. 2 -> Temp] /\ \A t \in 0 .. 2 : ~Empty[t].err /\ Empty[t].items = << >>
<1>1. [items |-> << >>, err |-> FALSE] \in Temp
  BY DEF Temp
<1> QED BY <1>1 DEF Empty

\* The start of a run.
Begins ==
    /\ cmd \in Commands /\ argv = cmd.argv /\ tmps = Empty /\ out = << >> /\ buf = << >> /\ pc = "start" /\ n = 1
    /\ cur = BEFORE /\ files = old.files /\ arfile = old.arfile /\ faults = old.faults /\ faults \in Nat
    /\ files \in [Paths -> {NoFile} \cup File] /\ (arfile = NoFile \/ Store(arfile))

LEMMA Starts == Begins => Inv
<1> SUFFICES ASSUME Begins PROVE Inv
  OBVIOUS
<1>0. /\ cmd \in Commands /\ argv = cmd.argv /\ tmps = Empty /\ out = << >> /\ buf = << >> /\ pc = "start" /\ n = 1
      /\ cur = BEFORE /\ files = old.files /\ arfile = old.arfile /\ faults = old.faults /\ faults \in Nat
      /\ files \in [Paths -> {NoFile} \cup File] /\ (arfile = NoFile \/ Store(arfile))
  BY DEF Begins
<1>1. TypeOK
  <2>1. argv \in [DOMAIN cmd.argv -> Paths \cup {NULL}]
    <3>1. DOMAIN cmd.argv = Args /\ \A i \in Args : cmd.argv[i] \in Paths
      BY <1>0, CommandFacts
    <3>2. cmd.argv = [i \in DOMAIN cmd.argv |-> cmd.argv[i]]
      BY <1>0, CommandFacts, LenProperties
    <3> QED BY <1>0, <3>1, <3>2
  <2>2. tmps \in [0 .. 2 -> [items : Seq(Entry), err : BOOLEAN]] /\ << >> \in Seq(Item)
    BY <1>0, EmptyIs DEF Temp
  <2>3. OldType
    BY <1>0 DEF OldType
  <2> QED BY <1>0, <2>1, <2>2, <2>3 DEF TypeOK
<1>2. Clean
  BY <1>0, EmptyIs DEF Clean
<1>3. Opening
  BY <1>0 DEF Opening, Fresh
<1>4. Running /\ Adding /\ Rewriting /\ Closing
  BY <1>0 DEF Running, Adding, Rewriting, Closing
<1>5. EditsList /\ FailsSafe
  BY <1>0 DEF EditsList, FailsSafe
<1>6. pc \in Places
  BY <1>0 DEF Places
<1> QED BY <1>1, <1>2, <1>3, <1>4, <1>5, <1>6 DEF Inv

LEMMA StepAgain == ASSUME Inv, Again PROVE Inv'
<1>1. /\ pc = "end" /\ argv' = cmd.argv /\ tmps' = Empty /\ out' = <<>>
      /\ pc' = "start" /\ n' = 1 /\ cur' = BEFORE
      /\ old' = [arfile |-> arfile, files |-> files, status |-> status, faults |-> faults]
      /\ UNCHANGED <<arfile, buf, files, names, cmd, faults>>
  BY DEF Again
<1>2. buf = << >>
  BY <1>1 DEF Inv, Closing
<1>3. /\ cmd' \in Commands /\ faults' \in Nat
      /\ files' \in [Paths -> {NoFile} \cup File] /\ (arfile' = NoFile \/ Store(arfile'))
  BY <1>1, Kinds
<1>4. argv' = cmd'.argv /\ buf' = << >> /\ files' = old'.files /\ arfile' = old'.arfile /\ faults' = old'.faults
  BY <1>1, <1>2
<1>5. Begins'
  BY <1>1, <1>3, <1>4 DEF Begins
<1>6. Begins' => Inv'
  BY Starts, PTL
<1> QED BY <1>5, <1>6

LEMMA InitInv == Init => Inv
<1>1. SUFFICES ASSUME Init PROVE Inv
  OBVIOUS
<1>2. /\ cmd \in Commands /\ argv = cmd.argv /\ tmps = Empty /\ out = << >> /\ buf = << >> /\ pc = "start" /\ n = 1
      /\ cur = BEFORE /\ files = old.files /\ arfile = old.arfile /\ faults = old.faults /\ faults \in Nat
  BY <1>1 DEF Init
<1>3. files \in [Paths -> {NoFile} \cup File] /\ (arfile = NoFile \/ Store(arfile))
  BY <1>1, StoreAssumption, DirectoryAssumption DEF Init
<1> QED BY <1>2, <1>3, Starts DEF Begins

LEMMA Stutters == ASSUME Inv, UNCHANGED vars PROVE Inv'
<1>1. /\ UNCHANGED <<arfile, buf, files, tmps, names, cmd, argv, out, pc, n, cur, status, at, old, runs, faults>>
      /\ cmd' = cmd /\ old' = old
  BY DEF vars
<1>2. /\ Mem' = Mem /\ ArgNames' = ArgNames /\ ArgMembers' = ArgMembers /\ HitSet' = HitSet
      /\ Base' = Base /\ Sane' = Sane /\ Edited' = Edited /\ Change' = Change
      /\ Editing' = Editing /\ Final' = Final
  BY <1>1, Rigid
<1>3. TypeOK'
  BY <1>1, TypeKept, Kinds
<1>4. Clean' = Clean /\ Fresh' = Fresh /\ Opened' = Opened /\ Kept' = Kept /\ Joined' = Joined /\ Written' = Written
  BY <1>1, <1>2 DEF Clean, Fresh, Opened, Kept, Joined, Written
<1>5. Opening'
  BY <1>1, <1>2, <1>4 DEF Inv, Opening
<1>6. Running'
  <2>1. PICK k, s, p : k = n - 2 /\ s = Stay(k) /\ p = Mark(k)
    OBVIOUS
  <2>2. CASE pc = "run"
    <3>1. Opened /\ buf = << >> /\ n >= 2 /\ n \in Nat /\ cmd.key # "q" /\ Kept
      BY <2>2, Reading
    <3>2. k \in Nat /\ n' = k + 2
      BY <1>1, <2>1, <3>1
    <3>3. Sane => k <= Len(Mem) /\ argv = Crossed(UsedBy(k)) /\ Gave(k) /\ (Editing => Sorted(k))
      BY <2>1, <2>2 DEF Inv, Running
    <3>4. Split(s, p)' = Split(s, p)
      BY <1>1 DEF Split
    <3>5. Sane => /\ k <= Len(Mem) /\ argv' = Crossed(UsedBy(k))
                  /\ cmd.key \in {"t", "p"} => out' = ShownBy(k)
                  /\ cmd.key = "x" => files' = Unpacked(ShownBy(k), old.files)
                  /\ Editing /\ Clean' =>
                        /\ Split(s, p)'
                        /\ tmps'[INDOT].items = IF cmd.key = "m" THEN At(Mem, (1 .. k) \cap HitSet) ELSE << >>
      BY <1>1, <1>4, <2>1, <3>3, <3>4 DEF Gave, Sorted
    <3>6. arfile' = arfile /\ buf' = << >> /\ (cmd.key # "x" => files' = old.files)
      BY <1>1, <3>1 DEF Kept
    <3> QED BY <1>1, <2>1, <3>1, <3>2, <3>5, <3>6, RunningIs
  <2>3. CASE pc # "run"
    BY <1>1, <2>3 DEF Running
  <2> QED BY <2>2, <2>3
<1>7. Adding'
  <2>1. PICK s, p, U, V, X : /\ s = Stay(Len(Mem)) /\ p = Mark(Len(Mem)) /\ U = Crossed(Used(Mem, ArgNames) \cup (1 .. n - 1))
                             /\ V = At(ArgMembers, (1 .. n - 1) \ Used(Mem, ArgNames)) /\ X = Crossed(1 .. n - 1)
    OBVIOUS
  <2>2. /\ Stay(Len(Mem))' = s /\ Mark(Len(Mem))' = p
        /\ Crossed(Used(Mem, ArgNames) \cup (1 .. n - 1))' = U
        /\ At(ArgMembers, (1 .. n - 1) \ Used(Mem, ArgNames))' = V
        /\ Crossed(1 .. n - 1)' = X
    <3>1. Stay(Len(Mem))' = s /\ Mark(Len(Mem))' = p
      BY <1>1, <1>2, <2>1, Rigid
    <3>2. /\ Crossed(Used(Mem, ArgNames) \cup (1 .. n - 1))' = U
          /\ At(ArgMembers, (1 .. n - 1) \ Used(Mem, ArgNames))' = V
          /\ Crossed(1 .. n - 1)' = X
      BY <1>1, <1>2, <2>1 DEF Crossed
    <3> QED BY <3>1, <3>2
  <2>3. Split(Stay(Len(Mem)), Mark(Len(Mem)))' = Split(s, p)
    BY <1>1, <2>2 DEF Split
  <2>4. CASE pc = "insert"
    <3>1. /\ Opened /\ buf = << >> /\ cmd.key = "r" /\ Kept /\ n \in 1 .. Len(cmd.argv) + 1
          /\ Sane => argv = U /\ (Clean => Split(s, p) /\ tmps[INDOT].items = V)
      BY <2>1, <2>4 DEF Inv, Adding
    <3> QED BY <1>1, <1>2, <1>4, <2>2, <2>3, <2>4, <3>1 DEF Adding
  <2>5. CASE pc = "append"
    <3>1. /\ Opened /\ cmd.key = "q" /\ Kept /\ n \in 1 .. Len(cmd.argv) + 1
          /\ buf = SubSeq(ArgMembers, 1, n - 1) /\ argv = X
          /\ \A i \in 1 .. n - 1 : old.files[cmd.argv[i]] # NoFile
      BY <2>1, <2>5 DEF Inv, Adding
    <3> QED BY <1>1, <1>2, <1>4, <2>2, <2>5, <3>1 DEF Adding
  <2> QED BY <1>1, <2>4, <2>5 DEF Adding
<1>8. Rewriting'
  <2>1. Merging' = Merging
    BY <1>1, <1>2, <1>4 DEF Merging
  <2> QED BY <1>1, <1>2, <1>4, <2>1 DEF Inv, Rewriting
<1>9. Closing'
  <2>1. PICK s : s = ShownBy(Len(Mem))
    OBVIOUS
  <2>2. ShownBy(Len(Mem))' = s
    BY <1>1, <1>2, <2>1, Rigid
  <2>3. Gave(Len(Mem))' = Gave(Len(Mem))
    BY <1>1, <2>1, <2>2 DEF Gave
  <2> QED BY <1>1, <1>2, <2>3 DEF Inv, Closing
<1>10. EditsList'
  <2>1. Members(old.arfile)' = Members(old.arfile)
    BY <1>1
  <2> QED BY <1>1, <1>2, <2>1 DEF Inv, EditsList
<1>11. FailsSafe'
  BY <1>1, <1>2 DEF Inv, FailsSafe
<1> QED BY <1>1, <1>3, <1>4, <1>5, <1>6, <1>7, <1>8, <1>9, <1>10, <1>11, Kinds DEF Inv

-----------------------------------------------------------------------------
(* What every run does.                                                    *)

LEMMA NextInv == ASSUME Inv, Next PROVE Inv'
<1>1. \/ checkfnames \/ openar \/ FlushMagic \/ ar \/ opentmp
      \/ Member \/ Corrupted \/ ReadError \/ EndRun
      \/ insert \/ append \/ CloseAppended
      \/ Reopen \/ merge \/ CloseMerged \/ Leftover \/ Exit
      \/ sigfun \/ Again \/ UNCHANGED vars
  BY DEF Next, Stopped
<1>2. CASE checkfnames \/ openar \/ FlushMagic \/ ar \/ opentmp
  BY <1>2, StepCheckfnames, StepOpenar, StepFlushMagic, Stepar, Stepopentmp
<1>3. CASE Member \/ Corrupted \/ ReadError \/ EndRun
  BY <1>3, StepMember, StepCorrupted, StepReadError, StepEndRun
<1>4. CASE insert \/ append \/ CloseAppended
  BY <1>4, Stepinsert, Stepappend, StepCloseAppended
<1>5. CASE Reopen \/ merge \/ CloseMerged \/ Leftover \/ Exit
  BY <1>5, StepReopen, Stepmerge, StepCloseMerged, StepLeftover, StepExit
<1>6. CASE sigfun \/ Again \/ UNCHANGED vars
  BY <1>6, Stepsigfun, StepAgain, Stutters
<1> QED BY <1>1, <1>2, <1>3, <1>4, <1>5, <1>6

LEMMA InvAlways == Spec => []Inv
<1>1. Inv /\ UNCHANGED vars => Inv'
  BY Stutters
<1>2. Inv /\ Next => Inv'
  BY NextInv
<1>3. Inv /\ [Next]_vars => Inv'
  BY <1>1, <1>2
<1> QED BY InitInv, <1>3, PTL DEF Spec

\* A run that succeeds, and every run nothing fails in, does to the list of
\* members what the command line says; the status is 0 exactly when every
\* operand was found where one is needed.  BEFORE, INDOT and AFTER hold the
\* pieces of the edited list at every turn of run()'s loop, and merge() puts
\* them together.
THEOREM MembersEdited == Spec => []EditsList
<1>1. Inv => EditsList
  BY DEF Inv
<1> QED BY <1>1, InvAlways, PTL

\* A run that fails anywhere but inside merge() leaves the archive as it was,
\* behind it what append() had got to, or all of it edited, and none of
\* ar.tmp1, ar.tmp2 and ar.tmp3.
THEOREM FailureIsSafe == Spec => []FailsSafe
<1>1. Inv => FailsSafe
  BY DEF Inv
<1> QED BY <1>1, InvAlways, PTL

-----------------------------------------------------------------------------
(* ar r given again.                                                       *)

LEMMA KnownAppend ==
    ASSUME NEW w \in Seq(Entry), NEW e \in Entry, NEW t, t = Append(w, e), NEW x
    PROVE  /\ Lacks(w, x) /\ e.name # x => Lacks(t, x)
           /\ ~Lacks(w, x) => ~Lacks(t, x)
           /\ e.name = x => ~Lacks(t, x)
           /\ \A g, u : Known(w, x, g, u) => Known(t, x, g, u)
           /\ \A g, u : Lacks(w, x) /\ e.name = x /\ (e = g \/ (u /\ ~(g.date > e.date))) => Known(t, x, g, u)
<1>1. PICK l : l = Len(w)
  OBVIOUS
<1>2. /\ l \in Nat /\ Len(t) = l + 1 /\ t \in Seq(Entry)
      /\ \A j \in 1 .. l : t[j] = w[j]
      /\ t[l + 1] = e
  BY <1>1, AppendProperties, LenProperties
<1>3. 1 .. l + 1 = (1 .. l) \cup {l + 1} /\ (l + 1) - 1 = l
  BY <1>2
<1>4. Lacks(w, x) /\ e.name # x => Lacks(t, x)
  BY <1>1, <1>2, <1>3 DEF Lacks
<1>5. ~Lacks(w, x) => ~Lacks(t, x)
  BY <1>1, <1>2, <1>3 DEF Lacks
<1>6. e.name = x => ~Lacks(t, x)
  BY <1>2, <1>3 DEF Lacks
<1>7. ASSUME NEW g, NEW u, Known(w, x, g, u) PROVE Known(t, x, g, u)
  <2>1. PICK p \in 1 .. l : /\ w[p].name = x /\ \A q \in 1 .. p - 1 : w[q].name # x
                            /\ w[p] = g \/ (u /\ ~(g.date > w[p].date))
    BY <1>1, <1>7 DEF Known
  <2>2. p \in 1 .. Len(t) /\ t[p] = w[p] /\ \A q \in 1 .. p - 1 : t[q] = w[q]
    BY <1>2
  <2>3. t[p].name = x /\ \A q \in 1 .. p - 1 : t[q].name # x
    BY <2>1, <2>2
  <2>4. t[p] = g \/ (u /\ ~(g.date > t[p].date))
    BY <2>1, <2>2
  <2> QED BY <2>2, <2>3, <2>4 DEF Known
<1>8. ASSUME NEW g, NEW u, Lacks(w, x), e.name = x, e = g \/ (u /\ ~(g.date > e.date)) PROVE Known(t, x, g, u)
  <2>1. PICK p : p = l + 1
    OBVIOUS
  <2>2. p \in 1 .. Len(t) /\ t[p] = e /\ \A q \in 1 .. p - 1 : q \in 1 .. l /\ t[q] = w[q]
    BY <1>2, <2>1
  <2>3. t[p].name = x /\ \A q \in 1 .. p - 1 : t[q].name # x
    BY <1>1, <1>8, <2>2 DEF Lacks
  <2>4. t[p] = g \/ (u /\ ~(g.date > t[p].date))
    BY <1>8, <2>2
  <2> QED BY <2>2, <2>3, <2>4 DEF Known
<1> QED BY <1>4, <1>5, <1>6, <1>7, <1>8

LEMMA KnownConcat ==
    ASSUME NEW w \in Seq(Entry), NEW v \in Seq(Entry), NEW c, c = w \o v, NEW x
    PROVE  /\ Lacks(w, x) /\ Lacks(v, x) => Lacks(c, x)
           /\ \A g, u : Known(w, x, g, u) => Known(c, x, g, u)
           /\ \A g, u : Lacks(w, x) /\ Known(v, x, g, u) => Known(c, x, g, u)
<1>1. PICK l, k : l = Len(w) /\ k = Len(v)
  OBVIOUS
<1>2. /\ l \in Nat /\ k \in Nat /\ Len(c) = l + k
      /\ \A i \in 1 .. l + k : c[i] = IF i <= l THEN w[i] ELSE v[i - l]
  BY <1>1, ConcatProperties, LenProperties
<1>3. (\A i \in 1 .. l : c[i] = w[i]) /\ \A i \in 1 .. k : c[l + i] = v[i] /\ l + i \in 1 .. l + k
  <2>1. ASSUME NEW i \in 1 .. l PROVE c[i] = w[i]
    BY <1>2
  <2>2. ASSUME NEW i \in 1 .. k PROVE c[l + i] = v[i] /\ l + i \in 1 .. l + k
    <3>1. l + i \in 1 .. l + k /\ ~(l + i <= l) /\ (l + i) - l = i
      BY <1>2
    <3> QED BY <1>2, <3>1
  <2> QED BY <2>1, <2>2
<1>4. ASSUME Lacks(w, x), Lacks(v, x) PROVE Lacks(c, x)
  <2>1. \A i \in 1 .. l : w[i].name # x
    BY <1>1, <1>4 DEF Lacks
  <2>2. \A i \in 1 .. k : v[i].name # x
    BY <1>1, <1>4 DEF Lacks
  <2>3. ASSUME NEW i \in 1 .. l + k PROVE c[i].name # x
    <3>1. CASE i <= l
      BY <1>2, <2>1, <3>1
    <3>2. CASE ~(i <= l)
      <4>1. i - l \in 1 .. k
        BY <1>2, <3>2
      <4> QED BY <1>2, <2>2, <3>2, <4>1
    <3> QED BY <3>1, <3>2
  <2> QED BY <1>2, <2>3 DEF Lacks
<1>5. ASSUME NEW g, NEW u, Known(w, x, g, u) PROVE Known(c, x, g, u)
  <2>1. PICK p \in 1 .. l : /\ w[p].name = x /\ \A q \in 1 .. p - 1 : w[q].name # x
                            /\ w[p] = g \/ (u /\ ~(g.date > w[p].date))
    BY <1>1, <1>5 DEF Known
  <2>2. p \in 1 .. Len(c) /\ c[p] = w[p] /\ \A q \in 1 .. p - 1 : c[q] = w[q]
    BY <1>2, <1>3
  <2>3. c[p].name = x /\ \A q \in 1 .. p - 1 : c[q].name # x
    BY <2>1, <2>2
  <2>4. c[p] = g \/ (u /\ ~(g.date > c[p].date))
    BY <2>1, <2>2
  <2> QED BY <2>2, <2>3, <2>4 DEF Known
<1>6. ASSUME NEW g, NEW u, Lacks(w, x), Known(v, x, g, u) PROVE Known(c, x, g, u)
  <2>1. PICK p \in 1 .. k : /\ v[p].name = x /\ \A q \in 1 .. p - 1 : v[q].name # x
                            /\ v[p] = g \/ (u /\ ~(g.date > v[p].date))
    BY <1>1, <1>6 DEF Known
  <2>2. PICK r : r = l + p
    OBVIOUS
  <2>3. r \in 1 .. Len(c) /\ c[r] = v[p]
    BY <1>2, <1>3, <2>2
  <2>4. ASSUME NEW q \in 1 .. r - 1 PROVE c[q].name # x
    <3>1. CASE q <= l
      <4>1. q \in 1 .. l
        BY <1>2, <2>2, <3>1
      <4> QED BY <1>1, <1>3, <1>6, <4>1 DEF Lacks
    <3>2. CASE ~(q <= l)
      <4>1. q - l \in 1 .. p - 1 /\ q \in 1 .. l + k
        BY <1>2, <2>2, <3>2
      <4>2. c[q] = v[q - l]
        BY <1>2, <3>2, <4>1
      <4> QED BY <2>1, <4>1, <4>2
    <3> QED BY <3>1, <3>2
  <2>5. c[r].name = x /\ (c[r] = g \/ (u /\ ~(g.date > c[r].date)))
    BY <2>1, <2>3
  <2> QED BY <2>3, <2>4, <2>5 DEF Known
<1> QED BY <1>4, <1>5, <1>6

\* The first of a name is the first of its rank.
LEMMA CountFirst ==
    ASSUME NEW s, NEW p \in Nat \ {0}, \A q \in 1 .. p - 1 : s[q] # s[p]
    PROVE  Count(s, p, s[p]) = 1
<1>1. {j \in 1 .. p : s[j] = s[p]} = {p}
  <2>1. ASSUME NEW j \in 1 .. p, s[j] = s[p] PROVE j = p
    <3>1. j \notin 1 .. p - 1
      BY <2>1
    <3> QED BY <3>1
  <2> QED BY <2>1
<1> QED BY <1>1, FS_Singleton DEF Count

LEMMA SameAgain ==
    ASSUME TypeOK, Sane, cmd.key = "r", IsInjective(ArgNames), AllKnown(old.arfile)
    PROVE  Edited = old.arfile
<1>1. PICK w, a, g, u, L, A : w = Mem /\ a = ArgNames /\ g = ArgMembers /\ u = cmd.u /\ L = Len(Mem) /\ A = Len(cmd.argv)
  OBVIOUS
<1>2. L \in Nat /\ w \in Seq(Entry) /\ DOMAIN w = 1 .. L /\ Len(w) = L /\ Base = <<Magic>> \o w
  BY <1>1, SaneFacts
<1>3. /\ A \in Nat /\ DOMAIN cmd.argv = 1 .. A /\ DOMAIN a = 1 .. A /\ DOMAIN g = 1 .. A /\ cmd.b \in BOOLEAN
      /\ \A i \in 1 .. A : g[i] \in Entry
  BY <1>1, CommandFacts, SaneFacts DEF Args, TypeOK
<1>4. \A i \in 1 .. A : \A j \in 1 .. A : a[i] = a[j] => i = j
  BY <1>1, <1>3 DEF IsInjective
<1>5. old.arfile # NoFile /\ \A i \in 1 .. A : Known(w, a[i], g[i], u)
  BY <1>1, <1>3 DEF AllKnown, Mem, Members
<1>6. ASSUME NEW i \in 1 .. A
      PROVE  \E p \in 1 .. L : <<p, i>> \in Pairs(w, a) /\ (w[p] = g[i] \/ (u /\ ~(g[i].date > w[p].date)))
  <2>1. PICK p \in 1 .. L : /\ w[p].name = a[i] /\ \A q \in 1 .. p - 1 : w[q].name # a[i]
                            /\ w[p] = g[i] \/ (u /\ ~(g[i].date > w[p].date))
    BY <1>2, <1>5 DEF Known
  <2>2. PICK m : m = NamesOf(w)
    OBVIOUS
  <2>3. \A q \in 1 .. L : m[q] = w[q].name
    BY <1>2, <2>2 DEF NamesOf
  <2>4. p \in Nat \ {0} /\ i \in Nat \ {0}
    BY <1>2, <1>3
  <2>5. m[p] = a[i] /\ \A q \in 1 .. p - 1 : m[q] # m[p]
    <3>1. \A q \in 1 .. p - 1 : q \in 1 .. L
      BY <1>2
    <3> QED BY <2>1, <2>3, <3>1
  <2>6. \A q \in 1 .. i - 1 : a[q] # a[i]
    <3>1. \A q \in 1 .. i - 1 : q \in 1 .. A /\ q # i
      BY <1>3
    <3> QED BY <1>4, <3>1
  <2>7. Count(m, p, m[p]) = 1
    BY <2>4, <2>5, CountFirst
  <2>8. Count(a, i, a[i]) = 1
    BY <2>4, <2>6, CountFirst
  <2>9. <<p, i>> \in Pairs(w, a)
    BY <1>2, <1>3, <2>1, <2>2, <2>5, <2>7, <2>8, PairIs
  <2> QED BY <2>1, <2>9
<1>7. Used(w, a) = DOMAIN a
  <2>1. \A i \in 1 .. A : i \in Used(w, a)
    BY <1>2, <1>6, HitIs
  <2>2. Used(w, a) \subseteq DOMAIN a
    BY HitIs
  <2> QED BY <1>3, <2>1, <2>2
<1>8. PICK R : R = Renewed(w, a, g, u)
  OBVIOUS
<1>9. /\ R \in Seq(Entry) /\ Len(R) = L
      /\ \A q \in 1 .. L : R[q] = IF q \in Stale(w, a, g, u) THEN g[Partner(w, a, q)] ELSE w[q]
  <2>1. R = Renewed(Mem, ArgNames, ArgMembers, cmd.u)
    BY <1>1, <1>8
  <2>2. /\ R \in Seq(Entry) /\ Len(R) = Len(Mem)
        /\ \A i \in 1 .. Len(Mem) :
              R[i] = (IF i \in StaleSet THEN ArgMembers[Partner(Mem, ArgNames, i)] ELSE Mem[i])
    BY <2>1, NewList
  <2> QED BY <1>1, <2>2 DEF StaleSet
<1>10. ASSUME NEW q \in 1 .. L PROVE R[q] = w[q]
  <2>1. CASE q \notin Stale(w, a, g, u)
    BY <1>9, <2>1
  <2>2. CASE q \in Stale(w, a, g, u)
    <3>1. q \in Hits(w, a) /\ (~u \/ g[Partner(w, a, q)].date > w[q].date)
      BY <2>2 DEF Stale
    <3>2. PICK i \in 1 .. A : <<q, i>> \in Pairs(w, a)
      BY <1>3, <3>1, HitIs
    <3>3. Partner(w, a, q) = i
      BY <1>2, <1>3, <3>2, PartnerIs
    <3>4. PICK p \in 1 .. L : <<p, i>> \in Pairs(w, a) /\ (w[p] = g[i] \/ (u /\ ~(g[i].date > w[p].date)))
      BY <1>6
    <3>5. p = q
      BY <1>2, <1>3, <3>2, <3>4, PairsUnique
    <3>6. w[q] = g[i]
      BY <3>1, <3>3, <3>4, <3>5
    <3> QED BY <1>9, <2>2, <3>3, <3>6
  <2> QED BY <2>1, <2>2
<1>11. R = w
  BY <1>2, <1>9, <1>10, SeqEqual
<1>12. Change = Beside(Renewed(Mem, ArgNames, ArgMembers, cmd.u),
                       At(ArgMembers, DOMAIN ArgNames \ Used(Mem, ArgNames)),
                       Anchor(Mem, DOMAIN Mem \ StaleSet, cmd.pos), cmd.b)
  BY EditIs
<1>13. DOMAIN a \ Used(w, a) = {} /\ At(g, {}) = << >>
  BY <1>7, AtEmpty
<1>14. PICK p, I : I = DOMAIN Mem \ StaleSet /\ p = Anchor(Mem, I, cmd.pos)
  OBVIOUS
<1>15. p \in 0 .. L
  <2>1. I \subseteq 1 .. L
    BY <1>1, <1>2, <1>14
  <2> QED BY <1>2, <1>14, <2>1, AnchorIs
<1>16. Change = Beside(w, << >>, p, cmd.b)
  BY <1>1, <1>8, <1>11, <1>12, <1>13, <1>14
<1>17. Beside(w, << >>, p, cmd.b) = w
  <2>1. p \in 0 .. Len(w)
    BY <1>2, <1>15
  <2> QED BY <1>2, <1>3, <2>1, BesideNone
<1> QED BY <1>2, <1>5, <1>16, <1>17, EditedIs DEF Base

\* What is to be shown of a step that does not begin a run.
LEMMA AgainGoes ==
    ASSUME RInv, cmd' = cmd, old' = old,
           cmd.key = "r" /\ IsInjective(ArgNames) =>
              /\ pc' \in {"run", "insert", "merge", "merging"} => Collected'
              /\ pc' = "run" => (Clean' => tmps'[INDOT].items = << >>)
              /\ pc' = "insert" => \A i \in DOMAIN cmd.argv : i < n' => argv'[i] = NULL
              /\ pc' \in {"merge", "merging"} => \A i \in DOMAIN cmd.argv : argv'[i] = NULL
              /\ pc' \in {"check", "exit"} => AllKnown(arfile') /\ files' = old.files
              /\ pc' = "end" /\ status' = 0 => AllKnown(arfile') /\ files' = old.files
    PROVE  RInv'
<1>1. ArgNames' = ArgNames /\ ArgMembers' = ArgMembers
  BY Rigid
<1>2. \A f : AllKnown(f)' = AllKnown(f)
  BY <1>1 DEF AllKnown
<1>3. AllKnown(arfile)' = AllKnown(arfile') /\ AllKnown(old.arfile)' = AllKnown(old.arfile)
  BY <1>1 DEF AllKnown
<1>4. ASSUME cmd.key = "r" /\ IsInjective(ArgNames)
      PROVE  /\ old'.status = 0 => AllKnown(old.arfile)'
             /\ pc' \in {"run", "insert", "merge", "merging"} => Collected'
             /\ pc' = "run" => (Clean' => tmps'[INDOT].items = << >>)
             /\ pc' = "insert" => \A i \in DOMAIN cmd'.argv : i < n' => argv'[i] = NULL
             /\ pc' \in {"merge", "merging"} => \A i \in DOMAIN cmd'.argv : argv'[i] = NULL
             /\ pc' \in {"check", "exit"} => AllKnown(arfile)' /\ files' = old'.files
             /\ pc' = "end" /\ status' = 0 => AllKnown(arfile)' /\ files' = old'.files
  <2>1. old'.status = 0 => AllKnown(old.arfile)'
    BY <1>3, <1>4 DEF RInv
  <2> QED BY <1>3, <1>4, <2>1
<1>5. cmd'.key = "r" /\ IsInjective(ArgNames)' <=> cmd.key = "r" /\ IsInjective(ArgNames)
  BY <1>1
<1> QED BY <1>4, <1>5 DEF RInv

LEMMA AgainStops ==
    ASSUME RInv, cmd' = cmd, old' = old, pc' = "end", status' = 1
    PROVE  RInv'
BY AgainGoes

LEMMA AgainOpens ==
    ASSUME RInv, cmd' = cmd, old' = old, pc' \in {"start", "open", "magic", "ar", "tmps", "append"}
    PROVE  RInv'
BY AgainGoes

\* Nothing that was collected changes.
LEMMA SameCollected ==
    ASSUME Collected, UNCHANGED <<tmps, cmd, argv, cur, old>>
    PROVE  Collected'
<1>1. ArgNames' = ArgNames /\ ArgMembers' = ArgMembers
  BY Rigid
<1>2. \A t, i : Has(t, i)' = Has(t, i)
  BY <1>1 DEF Has
<1>3. \A i : Sought(i)' = Sought(i)
  BY <1>1, <1>2 DEF Sought
<1>4. Clean' = Clean
  BY DEF Clean
<1> QED BY <1>3, <1>4 DEF Collected

\* A member goes to temporary y: what that is to the operand i.
LEMMA OneCollected ==
    ASSUME TypeOK, UNCHANGED <<cmd, old>>, NEW y \in 0 .. 2, NEW e \in Entry,
           tmps'[y].items = Append(tmps[y].items, e),
           \A t \in 0 .. 2 : t # y => tmps'[t] = tmps[t],
           NEW i \in DOMAIN cmd.argv, Sought(i)
    PROVE  /\ /\ argv'[i] = argv[i]
              /\ argv[i] # NULL => e.name # ArgNames[i]
              /\ argv[i] = NULL /\ e.name = ArgNames[i] => \A t \in 0 .. 2 : Has(t, i) => ~(y < t)
              => Sought(i)'
           /\ /\ argv[i] # NULL /\ argv'[i] = NULL /\ e.name = ArgNames[i]
              /\ e = ArgMembers[i] \/ (cmd.u /\ ~(ArgMembers[i].date > e.date))
              /\ y = AFTER /\ ArgNames[i] = cmd.pos => cmd.b
              => Sought(i)'
<1>1. PICK x, g, u : x = ArgNames[i] /\ g = ArgMembers[i] /\ u = cmd.u
  OBVIOUS
<1>2. ArgNames' = ArgNames /\ ArgMembers' = ArgMembers
  BY Rigid
<1>3. \A t \in 0 .. 2 : tmps[t].items \in Seq(Entry)
  BY DEF TypeOK
<1>4. PICK w, v : w = tmps[y].items /\ v = tmps'[y].items
  OBVIOUS
<1>5. w \in Seq(Entry) /\ v = Append(w, e)
  BY <1>3, <1>4
<1>6. /\ Lacks(w, x) /\ e.name # x => Lacks(v, x)
      /\ Known(w, x, g, u) => Known(v, x, g, u)
      /\ Lacks(w, x) /\ e.name = x /\ (e = g \/ (u /\ ~(g.date > e.date))) => Known(v, x, g, u)
  BY <1>5, KnownAppend
<1>7. \A t \in 0 .. 2 : t # y => tmps'[t].items = tmps[t].items
  OBVIOUS
<1>8. ASSUME e.name # x, NEW t \in 0 .. 2, Lacks(tmps[t].items, x) PROVE Lacks(tmps'[t].items, x)
  <2>1. CASE t = y
    BY <1>4, <1>6, <1>8, <2>1
  <2>2. CASE t # y
    BY <1>7, <1>8, <2>2
  <2> QED BY <2>1, <2>2
<1>9. \A t \in 0 .. 2 : Known(tmps[t].items, x, g, u) => Known(tmps'[t].items, x, g, u)
  <2> SUFFICES ASSUME NEW t \in 0 .. 2, Known(tmps[t].items, x, g, u) PROVE Known(tmps'[t].items, x, g, u)
    OBVIOUS
  <2>1. CASE t = y
    BY <1>4, <1>6, <2>1
  <2>2. CASE t # y
    BY <1>7, <2>2
  <2> QED BY <2>1, <2>2
<1>10. ASSUME argv'[i] = argv[i], argv[i] # NULL => e.name # x,
              argv[i] = NULL /\ e.name = x => \A t \in 0 .. 2 : Has(t, i) => ~(y < t)
       PROVE  Sought(i)'
  <2>1. CASE argv[i] # NULL
    <3>1. \A t \in 0 .. 2 : Lacks(tmps[t].items, x)
      BY <1>1, <2>1 DEF Sought
    <3>2. \A t \in 0 .. 2 : Lacks(tmps'[t].items, x)
      BY <1>8, <1>10, <2>1, <3>1
    <3> QED BY <1>1, <1>2, <1>10, <2>1, <3>2 DEF Sought
  <2>2. CASE argv[i] = NULL
    <3>1. PICK t \in 0 .. 2 : Has(t, i)
      BY <2>2 DEF Sought
    <3>2. /\ Known(tmps[t].items, x, g, u)
          /\ \A z \in 0 .. 2 : z < t => Lacks(tmps[z].items, x)
          /\ t = AFTER /\ x = cmd.pos => cmd.b
      BY <1>1, <3>1 DEF Has
    <3>3. Known(tmps'[t].items, x, g, u)
      BY <1>9, <3>2
    <3>4. ASSUME NEW z \in 0 .. 2, z < t PROVE Lacks(tmps'[z].items, x)
      <4>1. CASE e.name # x
        BY <1>8, <3>2, <3>4, <4>1
      <4>2. CASE e.name = x
        <5>1. z # y
          BY <1>10, <2>2, <3>1, <3>4, <4>2
        <5> QED BY <1>7, <3>2, <3>4, <5>1
      <4> QED BY <4>1, <4>2
    <3>5. Has(t, i)'
      BY <1>1, <1>2, <3>2, <3>3, <3>4 DEF Has
    <3> QED BY <1>10, <2>2, <3>5 DEF Sought
  <2> QED BY <2>1, <2>2
<1>11. ASSUME argv[i] # NULL, argv'[i] = NULL, e.name = x,
              e = g \/ (u /\ ~(g.date > e.date)), y = AFTER /\ x = cmd.pos => cmd.b
       PROVE  Sought(i)'
  <2>1. \A t \in 0 .. 2 : Lacks(tmps[t].items, x)
    BY <1>1, <1>11 DEF Sought
  <2>2. Known(tmps'[y].items, x, g, u)
    BY <1>4, <1>6, <1>11, <2>1
  <2>3. \A z \in 0 .. 2 : z < y => Lacks(tmps'[z].items, x)
    BY <1>7, <2>1
  <2>4. Has(y, i)'
    BY <1>1, <1>2, <1>11, <2>2, <2>3 DEF Has
  <2> QED BY <1>11, <2>4 DEF Sought
<1> QED BY <1>1, <1>10, <1>11

\* posname, once collected, stays.
LEMMA PosCollected ==
    ASSUME TypeOK, NEW y \in 0 .. 2, NEW e \in Entry, NEW x,
           tmps'[y].items = Append(tmps[y].items, e),
           \A t \in 0 .. 2 : t # y => tmps'[t] = tmps[t]
    PROVE  /\ \A t \in 0 .. 2 : ~Lacks(tmps[t].items, x) => ~Lacks(tmps'[t].items, x)
           /\ e.name = x => ~Lacks(tmps'[y].items, x)
<1>1. PICK w, v : w = tmps[y].items /\ v = tmps'[y].items
  OBVIOUS
<1>2. w \in Seq(Entry) /\ v = Append(w, e)
  BY <1>1 DEF TypeOK
<1>3. /\ ~Lacks(w, x) => ~Lacks(v, x)
      /\ e.name = x => ~Lacks(v, x)
  BY <1>2, KnownAppend
<1>4. ASSUME NEW t \in 0 .. 2, ~Lacks(tmps[t].items, x) PROVE ~Lacks(tmps'[t].items, x)
  <2>1. CASE t = y
    BY <1>1, <1>3, <1>4, <2>1
  <2>2. CASE t # y
    BY <1>4, <2>2
  <2> QED BY <2>1, <2>2
<1> QED BY <1>1, <1>3, <1>4

\* copy() of a member that stays: no operand named it, or the one that did
\* is no newer.
LEMMA PlacedAgain ==
    ASSUME TypeOK, Collected, Clean', UNCHANGED <<cmd, old>>,
           NEW e \in Entry, Place(e), tmps[INDOT].items = << >>,
           \A i \in DOMAIN cmd.argv : argv'[i] \in {NULL, cmd.argv[i]},
           \A i \in DOMAIN cmd.argv :
              \/ argv'[i] = argv[i] /\ (argv[i] # NULL => e.name # ArgNames[i])
              \/ /\ argv[i] # NULL /\ argv'[i] = NULL /\ e.name = ArgNames[i]
                 /\ cmd.u /\ ~(ArgMembers[i].date > e.date)
    PROVE  Collected' /\ tmps'[INDOT].items = << >>
<1>1. PICK y : y = IF cmd.pos = e.name THEN IF cmd.b THEN AFTER ELSE BEFORE ELSE cur
  OBVIOUS
<1>2. /\ tmps \in [0 .. 2 -> Temp] /\ faults \in Nat /\ cur \in {BEFORE, AFTER}
      /\ BEFORE = 0 /\ INDOT = 1 /\ AFTER = 2
  BY DEF TypeOK, Temp, BEFORE, INDOT, AFTER
<1>3. y \in {BEFORE, AFTER} /\ y \in 0 .. 2
  BY <1>1, <1>2
<1>4. Put(y, e) /\ cur' = IF cmd.pos = e.name THEN AFTER ELSE cur
  BY <1>1 DEF Place
<1>5. /\ Clean
      /\ tmps'[y].items = Append(tmps[y].items, e)
      /\ \A t \in 0 .. 2 : t # y => tmps'[t] = tmps[t]
  BY <1>2, <1>3, <1>4, PutIs
<1>6. tmps'[INDOT].items = << >>
  <2>1. INDOT \in 0 .. 2 /\ INDOT # y
    BY <1>2, <1>3
  <2> QED BY <1>5, <2>1
<1>7. \A x, g, u : ~Known(<< >>, x, g, u)
  BY DEF Known
<1>8. IF cur = AFTER THEN \E t \in {BEFORE, AFTER} : ~Lacks(tmps[t].items, cmd.pos)
      ELSE tmps[AFTER].items = << >>
  BY <1>5 DEF Collected
<1>9. ASSUME NEW i \in DOMAIN cmd.argv PROVE Sought(i)'
  <2>1. Sought(i)
    BY <1>5 DEF Collected
  <2>2. CASE argv'[i] = argv[i] /\ (argv[i] # NULL => e.name # ArgNames[i])
    <3>1. ASSUME argv[i] = NULL, e.name = ArgNames[i], NEW t \in 0 .. 2, Has(t, i), y < t
          PROVE  FALSE
      <4>1. /\ Known(tmps[t].items, ArgNames[i], ArgMembers[i], cmd.u)
            /\ t = AFTER /\ ArgNames[i] = cmd.pos => cmd.b
        BY <3>1 DEF Has
      <4>2. tmps[t].items # << >>
        BY <1>7, <4>1
      <4>3. t = AFTER /\ y = BEFORE
        BY <1>2, <1>3, <3>1, <4>2
      <4>4. CASE cmd.pos = e.name
        BY <1>1, <1>2, <3>1, <4>1, <4>3, <4>4
      <4>5. CASE cmd.pos # e.name
        BY <1>1, <1>2, <1>8, <4>2, <4>3, <4>5
      <4> QED BY <4>4, <4>5
    <3>2. argv[i] = NULL /\ e.name = ArgNames[i] => \A t \in 0 .. 2 : Has(t, i) => ~(y < t)
      BY <3>1
    <3> QED BY <1>3, <1>5, <2>1, <2>2, <3>2, OneCollected
  <2>3. CASE /\ argv[i] # NULL /\ argv'[i] = NULL /\ e.name = ArgNames[i]
             /\ cmd.u /\ ~(ArgMembers[i].date > e.date)
    <3>1. y = AFTER /\ ArgNames[i] = cmd.pos => cmd.b
      BY <1>1, <1>2, <2>3
    <3> QED BY <1>3, <1>5, <2>1, <2>3, <3>1, OneCollected
  <2> QED BY <2>2, <2>3
<1>10. /\ \A t \in 0 .. 2 : ~Lacks(tmps[t].items, cmd.pos) => ~Lacks(tmps'[t].items, cmd.pos)
       /\ e.name = cmd.pos => ~Lacks(tmps'[y].items, cmd.pos)
  BY <1>3, <1>5, PosCollected
<1>11. IF cur' = AFTER THEN \E t \in {BEFORE, AFTER} : ~Lacks(tmps'[t].items, cmd.pos)
       ELSE tmps'[AFTER].items = << >>
  <2>1. CASE cmd.pos = e.name
    BY <1>3, <1>4, <1>10, <2>1
  <2>2. CASE cmd.pos # e.name /\ cur = AFTER
    BY <1>2, <1>4, <1>8, <1>10, <2>2
  <2>3. CASE cmd.pos # e.name /\ cur # AFTER
    <3>1. y # AFTER /\ cur' # AFTER /\ AFTER \in 0 .. 2
      BY <1>1, <1>2, <1>4, <2>3
    <3> QED BY <1>5, <1>8, <2>3, <3>1
  <2> QED BY <2>1, <2>2, <2>3
<1> QED BY <1>6, <1>9, <1>11 DEF Collected, BEFORE, AFTER

\* archive() of the operand j, in the place of the member of its name or
\* between the others.
LEMMA ReplacedAgain ==
    ASSUME TypeOK, Collected, Clean', UNCHANGED <<cmd, old, cur>>,
           NEW e \in Entry, NEW y \in {cur, INDOT}, Put(y, e),
           IsInjective(ArgNames), NEW j \in DOMAIN cmd.argv, argv[j] # NULL, e = ArgMembers[j],
           e.name = ArgNames[j], argv'[j] = NULL, \A i \in DOMAIN cmd.argv : i # j => argv'[i] = argv[i]
    PROVE  Collected' /\ (y # INDOT => tmps'[INDOT] = tmps[INDOT])
<1>1. /\ tmps \in [0 .. 2 -> Temp] /\ faults \in Nat /\ cur \in {BEFORE, AFTER}
      /\ BEFORE = 0 /\ INDOT = 1 /\ AFTER = 2 /\ y \in 0 .. 2 /\ cmd \in Commands
  BY DEF TypeOK, Temp, BEFORE, INDOT, AFTER
<1>2. /\ Clean
      /\ tmps'[y].items = Append(tmps[y].items, e)
      /\ \A t \in 0 .. 2 : t # y => tmps'[t] = tmps[t]
  BY <1>1, PutIs
<1>3. /\ \A i \in DOMAIN cmd.argv : argv[i] \in {NULL, cmd.argv[i]}
      /\ \A i \in DOMAIN cmd.argv : Sought(i)
      /\ IF cur = AFTER THEN \E t \in {BEFORE, AFTER} : ~Lacks(tmps[t].items, cmd.pos)
         ELSE tmps[AFTER].items = << >>
  BY <1>2 DEF Collected
<1>4. ASSUME NEW i \in DOMAIN cmd.argv PROVE Sought(i)' /\ argv'[i] \in {NULL, cmd.argv[i]}
  <2>1. Sought(i) /\ argv[i] \in {NULL, cmd.argv[i]}
    BY <1>3
  <2>2. CASE i = j
    <3>1. ASSUME y = AFTER, ArgNames[i] = cmd.pos PROVE FALSE
      <4>1. \A t \in 0 .. 2 : Lacks(tmps[t].items, cmd.pos)
        BY <2>1, <2>2, <3>1 DEF Sought
      <4>2. cur = AFTER
        BY <1>1, <3>1
      <4> QED BY <1>1, <1>3, <4>1, <4>2
    <3>2. y = AFTER /\ ArgNames[i] = cmd.pos => cmd.b
      BY <3>1
    <3>3. Sought(i)'
      BY <1>1, <1>2, <2>1, <2>2, <3>2, OneCollected
    <3> QED BY <2>2, <3>3
  <2>3. CASE i # j
    <3>1. DOMAIN ArgNames = DOMAIN cmd.argv
      BY <1>1, CommandFacts
    <3>2. e.name # ArgNames[i]
      BY <2>3, <3>1 DEF IsInjective
    <3>3. Sought(i)'
      BY <1>1, <1>2, <2>1, <2>3, <3>2, OneCollected
    <3> QED BY <2>1, <2>3, <3>3
  <2> QED BY <2>2, <2>3
<1>5. \A t \in 0 .. 2 : ~Lacks(tmps[t].items, cmd.pos) => ~Lacks(tmps'[t].items, cmd.pos)
  BY <1>1, <1>2, PosCollected
<1>6. IF cur' = AFTER THEN \E t \in {BEFORE, AFTER} : ~Lacks(tmps'[t].items, cmd.pos)
      ELSE tmps'[AFTER].items = << >>
  <2>1. CASE cur = AFTER
    BY <1>1, <1>3, <1>5, <2>1
  <2>2. CASE cur # AFTER
    <3>1. y # AFTER /\ AFTER \in 0 .. 2
      BY <1>1, <2>2
    <3> QED BY <1>2, <1>3, <2>2, <3>1
  <2> QED BY <2>1, <2>2
<1>7. y # INDOT => tmps'[INDOT] = tmps[INDOT]
  BY <1>1, <1>2
<1> QED BY <1>4, <1>6, <1>7 DEF Collected

\* Runs of other keys, or with two operands of one name.
LEMMA OthersGo ==
    ASSUME RInv, cmd' = cmd, old' = old, ~(cmd.key = "r" /\ IsInjective(ArgNames))
    PROVE  RInv'
BY AgainGoes

\* A turn of run()'s loop, or of insert().
LEMMA Unclean ==
    ASSUME ~Clean', cmd' = cmd, \A i \in DOMAIN cmd.argv : argv'[i] \in {NULL, cmd.argv[i]}
    PROVE  Collected'
BY DEF Collected

LEMMA Againupdate ==
    ASSUME Inv, RInv, pc = "run", ~AtEnd, ~Misplaced, cmd.key = "r", update(arfile[n])
    PROVE  RInv'
<1>1. PICK m, x : m = arfile[n] /\ x = m.name
  OBVIOUS
<1>2. m \in Entry /\ Kept
  BY <1>1, Reading
<1>3. /\ TypeOK /\ tmps \in [0 .. 2 -> Temp] /\ faults \in Nat /\ cmd \in Commands /\ cur \in {BEFORE, AFTER}
      /\ argv \in [DOMAIN cmd.argv -> Paths \cup {NULL}]
  BY Kinds
<1>4. files = old.files
  BY <1>2 DEF Kept
<1>5. CASE error /\ cmd' = cmd /\ old' = old
  <2>1. pc' = "end" /\ status' = 1
    BY <1>5 DEF error, exit, Gone
  <2> QED BY <1>5, <2>1, AgainStops
<1>6. CASE Advance /\ ~IsInjective(ArgNames)
  BY <1>6, OthersGo DEF Advance
<1>7. ASSUME Advance, IsInjective(ArgNames), Collected',
             Clean' => tmps'[INDOT].items = << >>
      PROVE  RInv'
  <2>1. pc' = "run" /\ cmd' = cmd /\ old' = old
    BY <1>7 DEF Advance
  <2> QED BY <1>7, <2>1, AgainGoes
<1>8. ASSUME IsInjective(ArgNames)
      PROVE  /\ Collected /\ (Clean => tmps[INDOT].items = << >>)
             /\ \A i \in DOMAIN cmd.argv : argv[i] \in {NULL, cmd.argv[i]}
             /\ \A i \in DOMAIN cmd.argv : ArgNames[i] = canonical(cmd.argv[i])
             /\ DOMAIN ArgNames = DOMAIN cmd.argv
  <2>1. Collected /\ (Clean => tmps[INDOT].items = << >>)
    BY <1>8 DEF RInv
  <2>2. \A i \in DOMAIN cmd.argv : argv[i] \in {NULL, cmd.argv[i]}
    BY <2>1 DEF Collected
  <2> QED BY <1>3, <2>1, <2>2, CommandFacts
<1>9. ASSUME IsInjective(ArgNames), Advance, Place(m), \A i \in DOMAIN cmd.argv : argv'[i] \in {NULL, cmd.argv[i]},
           \A i \in DOMAIN cmd.argv :
              \/ argv'[i] = argv[i] /\ (argv[i] # NULL => x # ArgNames[i])
              \/ /\ argv[i] # NULL /\ argv'[i] = NULL /\ x = ArgNames[i]
                 /\ cmd.u /\ ~(ArgMembers[i].date > m.date)
      PROVE  RInv'
  <2>1. cmd' = cmd /\ old' = old
    BY <1>9 DEF Advance
  <2>2. ASSUME Clean' PROVE Collected' /\ tmps'[INDOT].items = << >>
    <3>1. Clean
      BY <1>2, <1>3, <1>9, <2>2, PutIs DEF Place, BEFORE, AFTER
    <3>2. Collected /\ tmps[INDOT].items = << >>
      BY <1>8, <1>9, <3>1
    <3> QED BY <1>1, <1>2, <1>3, <1>9, <2>1, <2>2, <3>2, PlacedAgain
  <2>3. Collected'
    BY <1>9, <2>1, <2>2, Unclean
  <2> QED BY <1>7, <1>9, <2>2, <2>3
<1>10. CASE Named(x) = {}
  <2>1. Place(m) /\ Advance /\ argv' = argv
    BY <1>1, <1>10 DEF update
  <2>2. ASSUME IsInjective(ArgNames), NEW i \in DOMAIN cmd.argv
        PROVE  /\ argv'[i] \in {NULL, cmd.argv[i]}
               /\ argv'[i] = argv[i] /\ (argv[i] # NULL => x # ArgNames[i])
    <3>1. i \in DOMAIN argv /\ ArgNames[i] = canonical(cmd.argv[i]) /\ argv[i] \in {NULL, cmd.argv[i]}
      BY <1>3, <1>8, <2>2
    <3>2. argv[i] = NULL \/ canonical(argv[i]) # x
      BY <1>10, <3>1 DEF Named
    <3> QED BY <2>1, <3>1, <3>2
  <2> QED BY <1>6, <1>9, <2>1, <2>2
<1>11. CASE Named(x) # {}
  <2>1. PICK j, path : j = inlist(x) /\ path = argv[j]
    OBVIOUS
  <2>2. Take(x) /\ path \in Paths /\ j \in Named(x) /\ j \in DOMAIN argv
    BY <1>1, <1>3, <1>11, <2>1, InList DEF update
  <2>3. /\ j \in DOMAIN cmd.argv /\ argv[j] # NULL /\ canonical(path) = x
        /\ argv'[j] = NULL /\ \A i \in DOMAIN cmd.argv : i # j => argv'[i] = argv[i]
    BY <1>3, <2>1, <2>2 DEF Named, Take
  <2>4. ASSUME IsInjective(ArgNames)
        PROVE  /\ ArgNames[j] = x /\ path = cmd.argv[j]
               /\ \A i \in DOMAIN cmd.argv : i # j => x # ArgNames[i]
               /\ \A i \in DOMAIN cmd.argv : argv'[i] \in {NULL, cmd.argv[i]}
               /\ files[path] # NoFile => archive(path) = ArgMembers[j] /\ ArgMembers[j].date = files[path].date
                                          /\ archive(path).name = x
    <3>1. path = cmd.argv[j] /\ ArgNames[j] = x
      BY <1>8, <2>1, <2>3, <2>4
    <3>2. \A i \in DOMAIN cmd.argv : i # j => x # ArgNames[i]
      BY <1>8, <2>3, <2>4, <3>1 DEF IsInjective
    <3>3. \A i \in DOMAIN cmd.argv : argv'[i] \in {NULL, cmd.argv[i]}
      BY <1>8, <2>3, <2>4
    <3>4. j \in Args
      BY <1>3, <2>3, CommandFacts
    <3>5. files[path] # NoFile => archive(path) = ArgMembers[j]
      BY <1>3, <1>4, <3>1, <3>4, ArgFacts
    <3>6. archive(path).date = files[path].date /\ archive(path).name = x
      BY <2>3 DEF archive
    <3> QED BY <3>1, <3>2, <3>3, <3>5, <3>6
  <2>5. CASE files[path] = NoFile /\ error
    <3>1. cmd' = cmd /\ old' = old
      BY <2>5 DEF error, exit, Gone
    <3> QED BY <1>5, <2>5, <3>1
  <2>6. CASE files[path] # NoFile /\ cmd.u /\ ~older(m, path) /\ Place(m) /\ Advance
    <3>1. ASSUME IsInjective(ArgNames) PROVE RInv'
      <4>1. ~(ArgMembers[j].date > m.date)
        BY <2>4, <2>6, <3>1 DEF older
      <4>2. ASSUME NEW i \in DOMAIN cmd.argv
            PROVE  \/ argv'[i] = argv[i] /\ (argv[i] # NULL => x # ArgNames[i])
                   \/ /\ argv[i] # NULL /\ argv'[i] = NULL /\ x = ArgNames[i]
                      /\ cmd.u /\ ~(ArgMembers[i].date > m.date)
        BY <2>3, <2>4, <2>6, <3>1, <4>1
      <4> QED BY <1>9, <2>4, <2>6, <3>1, <4>2
    <3> QED BY <1>6, <2>6, <3>1
  <2>7. CASE /\ files[path] # NoFile
             /\ ~cmd.u \/ older(m, path)
             /\ Put(cur, archive(path)) /\ Advance
             /\ cur' = cur
    <3>1. PICK e : e = archive(path)
      OBVIOUS
    <3>2. e \in Entry /\ Put(cur, e) /\ cur \in 0 .. 2 /\ cmd' = cmd /\ old' = old /\ cur # INDOT
      BY <1>3, <2>2, <2>7, <3>1, FileFacts DEF BEFORE, AFTER, INDOT, Advance
    <3>3. ASSUME IsInjective(ArgNames) PROVE RInv'
      <4>1. e = ArgMembers[j] /\ e.name = ArgNames[j]
        BY <2>4, <2>7, <3>1, <3>3
      <4>2. ASSUME Clean' PROVE Collected' /\ tmps'[INDOT].items = << >>
        <5>1. Clean
          BY <1>3, <3>2, <4>2, PutIs
        <5>2. Collected /\ tmps[INDOT].items = << >>
          BY <1>8, <3>3, <5>1
        <5>3. cur \in {cur, INDOT} /\ UNCHANGED <<cmd, old, cur>>
          BY <2>7, <3>2
        <5>4. Collected' /\ (cur # INDOT => tmps'[INDOT] = tmps[INDOT])
          BY <1>3, <2>3, <3>2, <3>3, <4>1, <4>2, <5>2, <5>3, ReplacedAgain
        <5> QED BY <3>2, <5>2, <5>4
      <4>3. Collected'
        BY <2>4, <3>2, <3>3, <4>2, Unclean
      <4> QED BY <1>7, <2>7, <3>3, <4>2, <4>3
    <3> QED BY <1>6, <2>7, <3>3
  <2> QED BY <1>1, <1>11, <2>1, <2>5, <2>6, <2>7 DEF update
<1> QED BY <1>10, <1>11

LEMMA AgainMember == ASSUME Inv, RInv, Member PROVE RInv'
<1>1. pc = "run" /\ ~AtEnd /\ ~Misplaced
  BY DEF Member
<1>2. CASE cmd.key = "r" /\ update(arfile[n])
  BY <1>1, <1>2, Againupdate
<1>3. CASE cmd.key = "m" /\ move(arfile[n])
  <2>1. cmd' = cmd /\ old' = old
    BY <1>3 DEF move, Advance
  <2> QED BY <1>3, <2>1, OthersGo
<1>4. CASE cmd.key = "d" /\ del(arfile[n])
  <2>1. cmd' = cmd /\ old' = old
    BY <1>4 DEF del, Advance
  <2> QED BY <1>4, <2>1, OthersGo
<1>5. CASE cmd.key \in {"t", "p"} /\ list(arfile[n])
  <2>1. cmd' = cmd /\ old' = old
    BY <1>5 DEF list, Advance
  <2> QED BY <1>5, <2>1, OthersGo
<1>6. CASE cmd.key = "x" /\ extract(arfile[n])
  <2>1. cmd' = cmd /\ old' = old
    BY <1>6 DEF extract, Advance, error, exit, Gone
  <2> QED BY <1>6, <2>1, OthersGo
<1> QED BY <1>2, <1>3, <1>4, <1>5, <1>6 DEF Member

\* A run that error() or a signal ends.
LEMMA AgainErrors ==
    ASSUME RInv, error \/ Gone(1)
    PROVE  RInv'
<1>1. cmd' = cmd /\ old' = old /\ pc' = "end" /\ status' = 1
  BY DEF error, exit, Gone
<1> QED BY <1>1, AgainStops

LEMMA AgainOpening ==
    ASSUME Inv, RInv, checkfnames \/ openar \/ FlushMagic
    PROVE  RInv'
<1>1. CASE checkfnames
  <2>1. error \/ (pc' = "open" /\ cmd' = cmd /\ old' = old)
    BY <1>1 DEF checkfnames
  <2> QED BY <2>1, AgainErrors, AgainOpens
<1>2. CASE openar
  <2>1. error \/ (pc' \in {"magic", "ar"} /\ cmd' = cmd /\ old' = old)
    BY <1>2 DEF openar
  <2> QED BY <2>1, AgainErrors, AgainOpens
<1>3. CASE FlushMagic
  <2>1. Gone(1) \/ (pc' = "ar" /\ cmd' = cmd /\ old' = old)
    BY <1>3 DEF FlushMagic, Flush
  <2> QED BY <2>1, AgainErrors, AgainOpens
<1> QED BY <1>1, <1>2, <1>3

LEMMA Againar == ASSUME Inv, RInv, ar PROVE RInv'
<1>1. /\ pc = "ar" /\ Fresh /\ Opened /\ UNCHANGED <<arfile, files, tmps, argv, cur>>
      /\ cmd' = cmd /\ old' = old
  BY DEF ar, Inv, Opening
<1>2. CASE argv = << >> /\ pc' = "exit"
  <2>1. argv = cmd.argv /\ files = old.files
    BY <1>1 DEF Fresh
  <2>2. arfile # NoFile
    BY <1>1, OpenedFacts, Kinds
  <2>3. DOMAIN cmd.argv = {}
    BY <1>2, <2>1
  <2>4. AllKnown(arfile')
    BY <1>1, <2>2, <2>3 DEF AllKnown
  <2> QED BY <1>1, <1>2, <2>1, <2>4, AgainGoes
<1>3. CASE pc' \in {"tmps", "append"}
  BY <1>1, <1>3, AgainOpens
<1>4. CASE cmd.key \in {"t", "p", "x"}
  BY <1>1, <1>4, OthersGo
<1> QED BY <1>2, <1>3, <1>4 DEF ar

LEMMA Againopentmp == ASSUME Inv, RInv, opentmp PROVE RInv'
<1>1. pc = "tmps" /\ Fresh
  BY DEF Inv, Opening, opentmp
<1>2. CASE error
  BY <1>2, AgainErrors
<1>3. CASE pc' = pc /\ cmd' = cmd /\ old' = old
  BY <1>1, <1>3, AgainOpens
<1>4. CASE pc' = "run" /\ cmd' = cmd /\ old' = old /\ UNCHANGED <<tmps, argv, cur>>
  <2>1. argv' = cmd.argv /\ tmps' = Empty /\ cur' = BEFORE
    BY <1>1, <1>4 DEF Fresh
  <2>2. /\ \A t \in 0 .. 2 : tmps'[t].items = << >>
        /\ BEFORE \in 0 .. 2 /\ INDOT \in 0 .. 2 /\ AFTER \in 0 .. 2 /\ BEFORE # AFTER
    BY <2>1, EmptyIs DEF BEFORE, INDOT, AFTER
  <2>3. \A x : Lacks(<< >>, x)
    BY DEF Lacks
  <2>4. \A i \in DOMAIN cmd.argv : cmd.argv[i] # NULL
    BY Kinds, CommandFacts
  <2>5. ASSUME NEW i \in DOMAIN cmd.argv PROVE Sought(i)'
    <3>1. argv'[i] # NULL
      BY <2>1, <2>4
    <3>2. \A t \in 0 .. 2 : Lacks(tmps'[t].items, ArgNames'[i])
      BY <2>2, <2>3
    <3> QED BY <3>1, <3>2 DEF Sought
  <2>6. Collected'
    BY <1>4, <2>1, <2>2, <2>5 DEF Collected
  <2>7. tmps'[INDOT].items = << >>
    BY <2>2
  <2> QED BY <1>4, <2>6, <2>7, AgainGoes
<1> QED BY <1>2, <1>3, <1>4 DEF opentmp

LEMMA AgainReads ==
    ASSUME Inv, RInv, Corrupted \/ ReadError \/ EndRun
    PROVE  RInv'
<1>1. CASE ReadError
  BY <1>1, AgainErrors DEF ReadError
<1>2. CASE ~(cmd.key = "r" /\ IsInjective(ArgNames)) /\ cmd' = cmd /\ old' = old
  BY <1>2, OthersGo
<1>3. ASSUME cmd.key = "r", IsInjective(ArgNames), pc = "run", UNCHANGED <<tmps, cmd, argv, cur, old>>,
             pc' = "run" \/ (pc' = "insert" /\ n' = 1)
      PROVE  RInv'
  <2>1. Collected /\ (Clean => tmps[INDOT].items = << >>)
    BY <1>3 DEF RInv
  <2>2. Collected' /\ Clean' = Clean
    BY <1>3, <2>1, SameCollected DEF Clean
  <2>3. \A i \in DOMAIN cmd.argv : ~(i < 1)
    BY Kinds, CommandFacts DEF Args
  <2> QED BY <1>3, <2>1, <2>2, <2>3, AgainGoes
<1>4. CASE Corrupted
  <2>1. pc = "run" /\ UNCHANGED <<tmps, argv, cur>>
    BY <1>4 DEF Corrupted
  <2>2. error \/ (pc' = pc /\ cmd' = cmd /\ old' = old)
    BY <1>4 DEF Corrupted
  <2>3. CASE error
    BY <2>3, AgainErrors
  <2>4. CASE pc' = pc /\ cmd' = cmd /\ old' = old
    BY <1>2, <1>3, <2>1, <2>4
  <2> QED BY <2>2, <2>3, <2>4
<1>5. CASE EndRun
  <2>1. pc = "run" /\ UNCHANGED <<tmps, argv, cur, cmd, old>> /\ n' = 1
    BY <1>5 DEF EndRun
  <2>2. cmd.key = "r" => pc' = "insert"
    BY <1>5 DEF EndRun
  <2> QED BY <1>2, <1>3, <2>1, <2>2
<1> QED BY <1>1, <1>4, <1>5

LEMMA Againinsert == ASSUME Inv, RInv, insert PROVE RInv'
<1>1. pc = "insert" /\ UNCHANGED <<files, out, cur>>
  BY DEF insert
<1>2. /\ cmd.key = "r" /\ files = old.files /\ n \in Nat /\ n \in 1 .. Len(cmd.argv) + 1
      /\ Len(cmd.argv) \in Nat /\ Len(argv) = Len(cmd.argv) /\ DOMAIN argv = Args
  BY <1>1, Inserting
<1>3. /\ TypeOK /\ tmps \in [0 .. 2 -> Temp] /\ faults \in Nat /\ cmd \in Commands
      /\ argv \in [DOMAIN cmd.argv -> Paths \cup {NULL}] /\ DOMAIN cmd.argv = Args
  BY Kinds, CommandFacts
<1>4. CASE error
  BY <1>4, AgainErrors
<1>5. CASE cmd' = cmd /\ old' = old /\ ~IsInjective(ArgNames)
  BY <1>5, OthersGo
<1>6. ASSUME IsInjective(ArgNames)
      PROVE  /\ Collected
             /\ \A i \in DOMAIN cmd.argv : i < n => argv[i] = NULL
             /\ \A i \in DOMAIN cmd.argv : argv[i] \in {NULL, cmd.argv[i]} /\ ArgNames[i] = canonical(cmd.argv[i])
  <2>1. Collected /\ \A i \in DOMAIN cmd.argv : i < n => argv[i] = NULL
    BY <1>1, <1>2, <1>6 DEF RInv
  <2>2. \A i \in DOMAIN cmd.argv : argv[i] \in {NULL, cmd.argv[i]}
    BY <2>1 DEF Collected
  <2> QED BY <1>3, <2>1, <2>2, CommandFacts
<1>7. CASE n > Len(argv) /\ pc' = "merge" /\ UNCHANGED <<tmps, cmd, argv, old>>
  <2>1. ASSUME IsInjective(ArgNames) PROVE Collected' /\ \A i \in DOMAIN cmd.argv : argv'[i] = NULL
    <3>1. Collected'
      BY <1>1, <1>6, <1>7, <2>1, SameCollected
    <3>2. \A i \in DOMAIN cmd.argv : i < n
      BY <1>2, <1>3, <1>7 DEF Args
    <3> QED BY <1>6, <1>7, <2>1, <3>1, <3>2
  <2> QED BY <1>7, <2>1, AgainGoes
<1>8. ASSUME Advance, IsInjective(ArgNames), n <= Len(argv), Collected', argv'[n] = NULL,
             \A i \in DOMAIN cmd.argv : i # n => argv'[i] = argv[i]
      PROVE  RInv'
  <2>1. pc' = "insert" /\ n' = n + 1 /\ cmd' = cmd /\ old' = old
    BY <1>1, <1>8 DEF Advance
  <2>2. \A i \in DOMAIN cmd.argv : i < n' => i < n \/ i = n
    BY <1>2, <1>3, <2>1 DEF Args
  <2>3. \A i \in DOMAIN cmd.argv : i < n' => argv'[i] = NULL
    BY <1>6, <1>8, <2>2
  <2> QED BY <1>8, <2>1, <2>3, AgainGoes
<1>9. CASE n <= Len(argv) /\ argv[n] = NULL /\ Advance /\ UNCHANGED <<tmps, argv, faults>>
  <2>1. cmd' = cmd /\ old' = old
    BY <1>9 DEF Advance
  <2>2. ASSUME IsInjective(ArgNames) PROVE Collected'
    BY <1>1, <1>6, <1>9, <2>1, <2>2, SameCollected
  <2> QED BY <1>5, <1>8, <1>9, <2>1, <2>2
<1>10. CASE /\ n <= Len(argv) /\ argv[n] # NULL /\ files[argv[n]] # NoFile
            /\ Put(INDOT, archive(argv[n]))
            /\ argv' = [argv EXCEPT ![n] = NULL]
            /\ Advance
  <2>1. PICK path, e : path = argv[n] /\ e = archive(path)
    OBVIOUS
  <2>2. cmd' = cmd /\ old' = old /\ cur' = cur
    BY <1>1, <1>10 DEF Advance
  <2>3. n \in Args /\ path \in Paths /\ n \in DOMAIN cmd.argv
    BY <1>2, <1>3, <1>10, <2>1 DEF Args
  <2>4. e \in Entry /\ Put(INDOT, e) /\ INDOT \in 0 .. 2 /\ e.name = canonical(path)
    BY <1>3, <1>10, <2>1, <2>3, FileFacts DEF INDOT
  <2>5. argv'[n] = NULL /\ \A i \in DOMAIN cmd.argv : i # n => argv'[i] = argv[i]
    BY <1>3, <1>10, <2>3
  <2>6. ASSUME IsInjective(ArgNames) PROVE Collected'
    <3>1. path = cmd.argv[n] /\ ArgNames[n] = e.name
      BY <1>6, <1>10, <2>1, <2>3, <2>4, <2>6
    <3>2. e = ArgMembers[n]
      BY <1>2, <1>3, <1>10, <2>1, <2>3, <3>1, ArgFacts
    <3>3. CASE Clean'
      <4>1. INDOT \in {cur, INDOT} /\ Collected /\ argv[n] # NULL
        BY <1>6, <1>10, <2>6
      <4> QED BY <1>3, <2>2, <2>3, <2>4, <2>5, <2>6, <3>1, <3>2, <3>3, <4>1, ReplacedAgain
    <3>4. CASE ~Clean'
      <4>1. \A i \in DOMAIN cmd.argv : argv'[i] \in {NULL, cmd.argv[i]}
        BY <1>6, <2>5, <2>6
      <4> QED BY <2>2, <3>4, <4>1, Unclean
    <3> QED BY <3>3, <3>4
  <2> QED BY <1>5, <1>8, <1>10, <2>2, <2>5, <2>6
<1> QED BY <1>4, <1>7, <1>9, <1>10 DEF insert

LEMMA AgainAppends ==
    ASSUME Inv, RInv, append \/ CloseAppended
    PROVE  RInv'
<1>1. pc = "append"
  BY DEF append, CloseAppended
<1>2. cmd.key = "q"
  BY <1>1 DEF Inv, Adding
<1>3. cmd' = cmd /\ old' = old
  BY DEF append, CloseAppended, Flush, error, exit, Gone
<1> QED BY <1>2, <1>3, OthersGo

LEMMA AgainMerges ==
    ASSUME Inv, RInv, Reopen \/ merge
    PROVE  RInv'
<1>1. CASE error \/ Gone(1)
  BY <1>1, AgainErrors
<1>2. CASE pc \in {"merge", "merging"} /\ pc' = "merging" /\ UNCHANGED <<tmps, cmd, argv, cur, old>>
  <2>1. ASSUME cmd.key = "r", IsInjective(ArgNames)
        PROVE  Collected' /\ \A i \in DOMAIN cmd.argv : argv'[i] = NULL
    <3>1. Collected /\ \A i \in DOMAIN cmd.argv : argv[i] = NULL
      BY <1>2, <2>1 DEF RInv
    <3> QED BY <1>2, <3>1, SameCollected
  <2> QED BY <1>2, <2>1, AgainGoes
<1> QED BY <1>1, <1>2 DEF Reopen, merge

LEMMA AgainCloseMerged == ASSUME Inv, RInv, CloseMerged PROVE RInv'
<1>1. pc = "merging" /\ n > AFTER /\ Flush("check") /\ UNCHANGED <<files, tmps, argv, out, n, cur>>
  BY DEF CloseMerged
<1>2. /\ Kept /\ n \in 0 .. 3 /\ arfile = << >> /\ buf = Written
      /\ \A t \in 0 .. 2 : t < n => ~tmps[t].err
  BY <1>1 DEF Inv, Rewriting
<1>3. tmps \in [0 .. 2 -> Temp] /\ n = 3 /\ buf \in Seq(Item)
  BY <1>1, <1>2, Kinds DEF AFTER
<1>4. CASE Gone(1)
  BY <1>4, AgainErrors
<1>5. CASE arfile' = arfile \o buf /\ pc' = "check" /\ cmd' = cmd /\ old' = old
  <2>1. Clean
    BY <1>2, <1>3 DEF Clean
  <2>2. buf = <<Magic>> \o Joined /\ Joined \in Seq(Entry) /\ arfile' = buf
    <3>1. buf = <<Magic>> \o tmps[BEFORE].items \o tmps[INDOT].items \o tmps[AFTER].items
      BY <1>2, <1>3 DEF Written
    <3>2. << >> \o buf = buf
      BY <1>3, ConcatEmptySeq
    <3> QED BY <1>2, <1>3, <1>5, <3>1, <3>2, Together
  <2>3. Tail(arfile') = Joined
    <3>1. PICK w, m : w = Joined /\ m = Magic
      OBVIOUS
    <3>2. w \in Seq(Item) /\ m \in Item
      BY <2>2, <3>1, ItemFacts, SeqMonotonic
    <3>3. Tail(<<m>> \o w) = w
      BY <3>2
    <3> QED BY <2>2, <3>1, <3>3
  <2>4. arfile' # NoFile
    BY <1>3, <2>2, StoreAssumption DEF Item
  <2>5. ASSUME cmd.key = "r", IsInjective(ArgNames) PROVE AllKnown(arfile') /\ files' = old.files
    <3>1. Collected /\ \A i \in DOMAIN cmd.argv : argv[i] = NULL
      BY <1>1, <2>5 DEF RInv
    <3>2. files' = old.files
      BY <1>1, <1>2, <2>5 DEF Kept
    <3>3. PICK a, b, c : a = tmps[BEFORE].items /\ b = tmps[INDOT].items /\ c = tmps[AFTER].items
      OBVIOUS
    <3>4. a \in Seq(Entry) /\ b \in Seq(Entry) /\ c \in Seq(Entry) /\ a \o b \in Seq(Entry)
      BY <1>3, <3>3, Together
    <3>5. ASSUME NEW i \in DOMAIN cmd.argv
          PROVE  Known(Joined, ArgNames[i], ArgMembers[i], cmd.u)
      <4>1. PICK x, g, u, d : x = ArgNames[i] /\ g = ArgMembers[i] /\ u = cmd.u /\ d = a \o b
        OBVIOUS
      <4>2. PICK t \in 0 .. 2 : Has(t, i)
        BY <2>1, <3>1 DEF Collected, Sought
      <4>3. Known(tmps[t].items, x, g, u) /\ \A z \in 0 .. 2 : z < t => Lacks(tmps[z].items, x)
        BY <4>1, <4>2 DEF Has
      <4>4. d \in Seq(Entry) /\ Joined = d \o c
        BY <3>3, <3>4, <4>1 DEF Joined
      <4>5. /\ Lacks(a, x) /\ Lacks(b, x) => Lacks(d, x)
            /\ Known(a, x, g, u) => Known(d, x, g, u)
            /\ Lacks(a, x) /\ Known(b, x, g, u) => Known(d, x, g, u)
        BY <3>4, <4>1, KnownConcat
      <4>6. /\ Known(d, x, g, u) => Known(Joined, x, g, u)
            /\ Lacks(d, x) /\ Known(c, x, g, u) => Known(Joined, x, g, u)
        <5>1. PICK v : v = Joined
          OBVIOUS
        <5>2. d \in Seq(Entry) /\ c \in Seq(Entry) /\ v = d \o c
          BY <3>4, <4>4, <5>1
        <5>3. /\ \A h, k : Known(d, x, h, k) => Known(v, x, h, k)
              /\ \A h, k : Lacks(d, x) /\ Known(c, x, h, k) => Known(v, x, h, k)
          BY <5>2, KnownConcat, Zenon
        <5> QED BY <5>1, <5>3
      <4>7. a = tmps[0].items /\ b = tmps[1].items /\ c = tmps[2].items
        BY <3>3 DEF BEFORE, INDOT, AFTER
      <4>8. CASE t = 0
        BY <4>1, <4>3, <4>5, <4>6, <4>7, <4>8
      <4>9. CASE t = 1
        BY <4>1, <4>3, <4>5, <4>6, <4>7, <4>9
      <4>10. CASE t = 2
        BY <4>1, <4>3, <4>5, <4>6, <4>7, <4>10
      <4> QED BY <4>8, <4>9, <4>10
    <3> QED BY <2>3, <2>4, <3>2, <3>5 DEF AllKnown
  <2> QED BY <1>5, <2>5, AgainGoes
<1> QED BY <1>1, <1>4, <1>5 DEF Flush

LEMMA AgainEnds ==
    ASSUME Inv, RInv, Leftover \/ Exit \/ sigfun
    PROVE  RInv'
<1>1. CASE error \/ Gone(1)
  BY <1>1, AgainErrors
<1>2. CASE Leftover /\ pc' = "exit" /\ UNCHANGED <<arfile, cmd, old, files>>
  <2>1. cmd.key = "r" /\ IsInjective(ArgNames) => AllKnown(arfile) /\ files = old.files
    BY <1>2 DEF RInv, Leftover
  <2> QED BY <1>2, <2>1, AgainGoes
<1>3. CASE Exit /\ exit(0)
  <2>1. pc = "exit" /\ buf = << >> /\ files' = files
    BY <1>3 DEF Exit, Inv, Closing
  <2>2. arfile' = arfile /\ cmd' = cmd /\ old' = old /\ pc' = "end"
    BY <1>3, <2>1 DEF exit, Gone
  <2>3. cmd.key = "r" /\ IsInjective(ArgNames) => AllKnown(arfile) /\ files = old.files
    BY <2>1 DEF RInv
  <2> QED BY <2>1, <2>2, <2>3, AgainGoes
<1> QED BY <1>1, <1>2, <1>3 DEF Leftover, Exit, sigfun

\* The run before was one of the same command line.
LEMMA AgainAgain == ASSUME Inv, RInv, Again PROVE RInv'
<1>1. /\ pc = "end" /\ pc' = "start" /\ cmd' = cmd
      /\ old'.arfile = arfile /\ old'.files = files /\ old'.status = status
  BY DEF Again
<1>2. ArgNames' = ArgNames
  BY <1>1 DEF ArgNames
<1>3. ASSUME cmd.key = "r", IsInjective(ArgNames), status = 0
      PROVE  AllKnown(old.arfile)'
  <2>1. AllKnown(arfile) /\ files = old.files
    BY <1>1, <1>3 DEF RInv
  <2>2. ArgMembers' = ArgMembers
    BY <1>1, <1>2, <2>1 DEF ArgMembers
  <2> QED BY <1>1, <1>2, <2>1, <2>2 DEF AllKnown
<1> QED BY <1>1, <1>2, <1>3 DEF RInv

LEMMA AgainInit == Init => RInv
<1> SUFFICES ASSUME Init PROVE RInv
  OBVIOUS
<1>1. old.status = NULL /\ pc = "start" /\ NULL # 0
  BY CommandAssumption DEF Init
<1> QED BY <1>1 DEF RInv

LEMMA AgainStutters == ASSUME RInv, UNCHANGED vars PROVE RInv'
<1>1. UNCHANGED <<arfile, files, tmps, cmd, argv, pc, n, cur, status, old>>
  BY DEF vars
<1>2. ASSUME cmd.key = "r", IsInjective(ArgNames)
      PROVE  /\ pc' \in {"run", "insert", "merge", "merging"} => Collected'
             /\ pc' = "run" => (Clean' => tmps'[INDOT].items = << >>)
             /\ pc' = "insert" => \A i \in DOMAIN cmd.argv : i < n' => argv'[i] = NULL
             /\ pc' \in {"merge", "merging"} => \A i \in DOMAIN cmd.argv : argv'[i] = NULL
             /\ pc' \in {"check", "exit"} => AllKnown(arfile') /\ files' = old.files
             /\ pc' = "end" /\ status' = 0 => AllKnown(arfile') /\ files' = old.files
  <2>1. /\ pc \in {"run", "insert", "merge", "merging"} => Collected
        /\ pc = "run" => (Clean => tmps[INDOT].items = << >>)
        /\ pc = "insert" => \A i \in DOMAIN cmd.argv : i < n => argv[i] = NULL
        /\ pc \in {"merge", "merging"} => \A i \in DOMAIN cmd.argv : argv[i] = NULL
        /\ pc \in {"check", "exit"} => AllKnown(arfile) /\ files = old.files
        /\ pc = "end" /\ status = 0 => AllKnown(arfile) /\ files = old.files
    BY <1>2 DEF RInv
  <2>2. Clean' = Clean
    BY <1>1 DEF Clean
  <2>3. Collected => Collected'
    BY <1>1, SameCollected
  <2> QED BY <1>1, <2>1, <2>2, <2>3
<1> QED BY <1>1, <1>2, AgainGoes

LEMMA NextAgain == ASSUME Inv, RInv, Next PROVE RInv'
<1>1. \/ checkfnames \/ openar \/ FlushMagic \/ ar \/ opentmp
      \/ Member \/ Corrupted \/ ReadError \/ EndRun
      \/ insert \/ append \/ CloseAppended
      \/ Reopen \/ merge \/ CloseMerged \/ Leftover \/ Exit
      \/ sigfun \/ Again \/ UNCHANGED vars
  BY DEF Next, Stopped
<1>2. CASE checkfnames \/ openar \/ FlushMagic \/ ar \/ opentmp
  BY <1>2, AgainOpening, Againar, Againopentmp
<1>3. CASE Member \/ Corrupted \/ ReadError \/ EndRun
  BY <1>3, AgainMember, AgainReads
<1>4. CASE insert \/ append \/ CloseAppended
  BY <1>4, Againinsert, AgainAppends
<1>5. CASE Reopen \/ merge \/ CloseMerged \/ Leftover \/ Exit \/ sigfun
  BY <1>5, AgainMerges, AgainCloseMerged, AgainEnds
<1>6. CASE Again \/ UNCHANGED vars
  BY <1>6, AgainAgain, AgainStutters
<1> QED BY <1>1, <1>2, <1>3, <1>4, <1>5, <1>6

\* ar r given again after it succeeded changes nothing when its operands have
\* different names.  What the first run leaves has, for every operand, what r
\* would put there as the first member of its name, wherever update() and
\* insert() put it; so the second run replaces members by what they are,
\* inserts none, and the edited list is the list it read.
THEOREM GivenAgain == Spec => []Repeatable
<1>1. Inv /\ RInv /\ UNCHANGED vars => RInv'
  BY AgainStutters
<1>2. Inv /\ RInv /\ Next => RInv'
  BY NextAgain
<1>3. Inv /\ RInv /\ [Next]_vars => RInv'
  BY <1>1, <1>2
<1>4. Spec => []RInv
  BY AgainInit, InvAlways, <1>3, PTL DEF Spec
<1>5. Inv /\ RInv => Repeatable
  <2> SUFFICES ASSUME Inv, RInv, pc = "end", cmd.key = "r", status = 0, old.status = 0,
                      Sane, IsInjective(ArgNames)
               PROVE  arfile = old.arfile
    BY DEF Repeatable
  <2>1. arfile = Edited
    BY DEF Inv, EditsList
  <2>2. TypeOK
    BY Kinds
  <2>3. AllKnown(old.arfile)
    BY DEF RInv
  <2> QED BY <2>1, <2>2, <2>3, SameAgain
<1> QED BY <1>4, <1>5, InvAlways, PTL

=============================================================================
