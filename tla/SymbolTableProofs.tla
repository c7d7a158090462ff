-------------------------- MODULE SymbolTableProofs --------------------------
(***************************************************************************)
(* Proofs about the symbol table of cc1, for every set of names, every     *)
(* hash function, any number of symbols and contexts, and every program    *)
(* without the four features that SymbolTable names.                       *)
(***************************************************************************)
EXTENDS MCSymbolTable, SequenceTheorems, WellFoundedInduction, TLAPS

-----------------------------------------------------------------------------
(* The inductive invariant.                                                *)

Plain == Features = {}

Place == {"sym", "lbl"} \X Range(Bucket)
SymbolRecord == [name : Name \cup {NoName}, ns : Namespace, ctx : Nat,
                 declared : BOOLEAN, const : BOOLEAN]
Declarand == [kind : {"dcl", "enum"}, sym : Ptr, ctx : Nat]

(* A table: the symbols S, the lists H and L, the collision lists T and    *)
(* the context c.                                                          *)

LinkedIn(T, s) == \E h \in Place : s \in Range(T[h])

TableTypes(S, H, L, T, c) ==
    /\ S \in [DOMAIN S -> SymbolRecord] /\ DOMAIN S \subseteq Ptr
    /\ H \in Seq(Ptr) /\ L \in Seq(Ptr) /\ T \in [Place -> Seq(Ptr)] /\ c \in Nat

\* head and labels share the live symbols; leaving a context empties the front
\* of head.
Lists(S, H, L, c) ==
    /\ Range(H) \cup Range(L) = DOMAIN S
    /\ \A s \in Range(L) : S[s].ns = "LABEL"
    /\ \A s \in Range(H) : S[s].ns # "LABEL" /\ S[s].ctx <= c
    /\ \A s \in Ptr : ~Before(H, s, s) /\ ~Before(L, s, s)
    /\ \A s, t \in Ptr : Before(H, s, t) => S[t].ctx <= S[s].ctx
    /\ \A s \in DOMAIN S : S[s].const => S[s].ns = "IDEN"

\* The collision lists hold the right symbols in the order of head or labels.
Collisions(S, H, L, T) ==
    \A h \in Place :
        /\ \A s \in Range(T[h]) :
              s \in DOMAIN S /\ S[s].name \in Name /\ hash(S[s].name, S[s].ns) = h
        /\ \A j, k \in DOMAIN T[h] : j < k => Before(H, T[h][j], T[h][k]) \/ Before(L, T[h][j], T[h][k])

\* A scope declares a name once, and a function a label.
Once(S, T) ==
    \A s, t \in DOMAIN S :
        LinkedIn(T, s) /\ LinkedIn(T, t) /\ s # t /\ S[s].ns = S[t].ns /\ S[s].name = S[t].name =>
            S[s].ns # "LABEL" /\ S[s].ctx # S[t].ctx

TableOK(S, H, L, T, c) ==
    TableTypes(S, H, L, T, c) /\ Lists(S, H, L, c) /\ Collisions(S, H, L, T) /\ Once(S, T)

\* A symbol that is in no collision list, and nothing in front of it is.
Fresh(H, L, T, s) ==
    ~LinkedIn(T, s) /\ \A x \in Ptr : Before(H, x, s) \/ Before(L, x, s) => ~LinkedIn(T, x)

\* s is what its name means, in context c.
Means(S, H, L, T, s, c) ==
    /\ s \in DOMAIN S /\ S[s].name \in Name
    /\ LinkedIn(T, s) \/ (S[s].ctx = c /\ Fresh(H, L, T, s))
    /\ \A t \in DOMAIN S \ {s} :
          LinkedIn(T, t) /\ S[t].ns = S[s].ns /\ S[t].name = S[s].name =>
              LinkedIn(T, s) /\ S[t].ctx < S[s].ctx

(* The parser.                                                             *)

ParserTypes ==
    /\ curctx <= NR_BLOCK + 1 /\ (Running => curctx <= NR_BLOCK)
    /\ tok = Punct \/ tok \in [kind : {"iden", "const"}, sym : Ptr]
    /\ open \in Seq(Declarand)
    /\ stopped \in {"running", "error"}

\* What is linked is declared, or is being declared.
Pending ==
    \A s \in Live : /\ sym[s].declared => LinkedIn(htab, s)
                    /\ LinkedIn(htab, s) /\ ~sym[s].declared =>
                          \E j \in DOMAIN open : open[j].kind = "dcl" /\ open[j].sym = s

Unfinished ==
    \A j \in DOMAIN open :
        /\ open[j].ctx <= curctx /\ open[j].sym \in Live /\ sym[open[j].sym].ns = "IDEN"
        /\ sym[open[j].sym].ctx <= open[j].ctx
        /\ open[j].kind = "dcl" => LinkedIn(htab, open[j].sym)
        /\ open[j].kind = "enum" =>
              j = Len(open) /\ Means(sym, head, labels, htab, open[j].sym, open[j].ctx)

Token ==
    /\ tok.kind = "const" => tok.sym \in Live /\ sym[tok.sym].ns = "IDEN"
    /\ tok.kind = "iden" => Means(sym, head, labels, htab, tok.sym, curctx)

Inv ==
    /\ TableOK(sym, head, labels, htab, curctx)
    /\ ParserTypes /\ Pending /\ Unfinished /\ Token

-----------------------------------------------------------------------------
(* Induction and lists.                                                    *)

LEMMA Least == ASSUME NEW S, S \subseteq Nat, S # {} PROVE \E x \in S : \A y \in S : x <= y
<1> DEFINE R == OpToRel(<, Nat)
<1>1. IsWellFoundedOn(R, Nat)
  BY NatLessThanWellFounded
<1>2. \A x, y \in Nat : <<y, x>> \in R <=> y < x
  BY DEF OpToRel
<1> HIDE DEF R
<1>3. PICK x \in S : \A y \in S : ~(<<y, x>> \in R)
  BY <1>1, WFMin
<1>4. ASSUME NEW y \in S PROVE x <= y
  <2>1. x \in Nat /\ y \in Nat /\ ~(<<y, x>> \in R)
    BY <1>3
  <2>2. ~(y < x)
    BY <1>2, <2>1
  <2> QED BY <2>1, <2>2
<1> QED BY <1>4

\* Induction up to n, for a property that is given as a set.
LEMMA Induction ==
    ASSUME NEW S, NEW n \in Nat, 0 \in S, \A m \in 0 .. n - 1 : m \in S => m + 1 \in S
    PROVE  0 .. n \subseteq S
<1> DEFINE B == {m \in 0 .. n : m \notin S}
<1> SUFFICES ASSUME B # {} PROVE FALSE
  OBVIOUS
<1>1. B \subseteq Nat
  OBVIOUS
<1>2. PICK m \in B : \A y \in B : m <= y
  <2> HIDE DEF B
  <2> QED BY <1>1, Least
<1>3. m # 0 /\ m - 1 \in 0 .. n - 1 /\ m - 1 \in S
  BY <1>2
<1> QED BY <1>2, <1>3

LEMMA SeqRange ==
    ASSUME NEW T, NEW L \in Seq(T)
    PROVE  /\ Len(L) \in Nat /\ DOMAIN L = 1 .. Len(L) /\ Range(L) \subseteq T
           /\ \A s : s \in Range(L) <=> \E j \in 1 .. Len(L) : L[j] = s
<1>1. Len(L) \in Nat /\ DOMAIN L = 1 .. Len(L) /\ \A j \in 1 .. Len(L) : L[j] \in T
  BY LenProperties, ElementOfSeq
<1> QED BY <1>1 DEF Range

\* A list with a new first element.
LEMMA ConsFacts ==
    ASSUME NEW T, NEW L \in Seq(T), NEW a \in T
    PROVE  /\ <<a>> \o L \in Seq(T) /\ Len(<<a>> \o L) = Len(L) + 1
           /\ (<<a>> \o L)[1] = a /\ \A j \in 1 .. Len(L) : (<<a>> \o L)[j + 1] = L[j]
           /\ Range(<<a>> \o L) = {a} \cup Range(L)
           /\ \A s, t : Before(<<a>> \o L, s, t) <=> (s = a /\ t \in Range(L)) \/ Before(L, s, t)
<1> DEFINE M == <<a>> \o L
<1>1. <<a>> \in Seq(T) /\ Len(<<a>>) = 1 /\ <<a>>[1] = a
  OBVIOUS
<1>2. M \in Seq(T) /\ Len(M) = Len(L) + 1 /\ Len(L) \in Nat
  BY <1>1, ConcatProperties, LenProperties
<1>3. M[1] = a /\ \A j \in 1 .. Len(L) : M[j + 1] = L[j]
  BY <1>1, <1>2, ConcatProperties
<1> HIDE DEF M
<1>4. DOMAIN M = 1 .. Len(L) + 1 /\ DOMAIN L = 1 .. Len(L)
  BY <1>2, LenProperties
<1>5. \A k \in DOMAIN M : k = 1 \/ (k - 1 \in DOMAIN L /\ M[k] = L[k - 1])
  <2> TAKE k \in DOMAIN M
  <2>1. k # 1 => k - 1 \in 1 .. Len(L) /\ (k - 1) + 1 = k
    BY <1>2, <1>4
  <2> QED BY <1>3, <1>4, <2>1
<1>6. \A j \in DOMAIN L : j + 1 \in DOMAIN M /\ M[j + 1] = L[j] /\ 1 < j + 1
  BY <1>2, <1>3, <1>4
<1>7. 1 \in DOMAIN M
  BY <1>2, <1>4
<1>8. Range(M) = {a} \cup Range(L)
  <2>1. ASSUME NEW s \in Range(M) PROVE s = a \/ s \in Range(L)
    BY <1>3, <1>5 DEF Range
  <2>2. a \in Range(M) /\ Range(L) \subseteq Range(M)
    BY <1>3, <1>6, <1>7 DEF Range
  <2> QED BY <2>1, <2>2
<1>9. ASSUME NEW s, NEW t, Before(M, s, t) PROVE (s = a /\ t \in Range(L)) \/ Before(L, s, t)
  <2>1. PICK j \in DOMAIN M, k \in DOMAIN M : j < k /\ M[j] = s /\ M[k] = t
    BY <1>9 DEF Before
  <2>2. k - 1 \in DOMAIN L /\ t = L[k - 1]
    BY <1>4, <1>5, <2>1
  <2>3. CASE j = 1
    BY <1>3, <2>1, <2>2, <2>3 DEF Range
  <2>4. CASE j # 1
    <3>1. j - 1 \in DOMAIN L /\ s = L[j - 1] /\ j - 1 < k - 1
      BY <1>4, <1>5, <2>1, <2>4
    <3> QED BY <2>2, <3>1 DEF Before
  <2> QED BY <2>3, <2>4
<1>10. ASSUME NEW s, NEW t, Before(L, s, t) PROVE Before(M, s, t)
  <2>1. PICK j \in DOMAIN L, k \in DOMAIN L : j < k /\ L[j] = s /\ L[k] = t
    BY <1>10 DEF Before
  <2>2. j + 1 < k + 1
    BY <1>4, <2>1
  <2> QED BY <1>6, <2>1, <2>2 DEF Before
<1>11. ASSUME NEW t \in Range(L) PROVE Before(M, a, t)
  <2>1. PICK k \in DOMAIN L : L[k] = t
    BY <1>11 DEF Range
  <2> QED BY <1>3, <1>6, <1>7, <2>1 DEF Before
<1> QED BY <1>2, <1>3, <1>8, <1>9, <1>10, <1>11 DEF M

\* A list without its first c elements.
LEMMA DropFacts ==
    ASSUME NEW T, NEW L \in Seq(T), NEW c \in 0 .. Len(L)
    PROVE  LET M == SubSeq(L, c + 1, Len(L))
           IN  /\ M \in Seq(T) /\ Len(M) = Len(L) - c /\ \A j \in 1 .. Len(L) - c : M[j] = L[j + c]
               /\ \A s : s \in Range(M) <=> \E k \in c + 1 .. Len(L) : L[k] = s
<1> DEFINE M == SubSeq(L, c + 1, Len(L))
<1>1. Len(L) \in Nat /\ DOMAIN L = 1 .. Len(L) /\ c \in Nat /\ c <= Len(L)
  BY SeqRange
<1>2. M = [j \in 1 .. Len(L) - c |-> L[j + c]]
  <2>1. M = [j \in 1 .. (1 + Len(L)) - (c + 1) |-> L[j + (c + 1) - 1]]
    BY DEF SubSeq
  <2>2. (1 + Len(L)) - (c + 1) = Len(L) - c /\ \A j \in 1 .. Len(L) - c : j + (c + 1) - 1 = j + c
    BY <1>1
  <2> QED BY <2>1, <2>2
<1>3. Len(L) - c \in Nat /\ \A j \in 1 .. Len(L) - c : L[j + c] \in T /\ j + c \in c + 1 .. Len(L)
  BY <1>1, SeqRange
<1>4. M \in Seq(T) /\ Len(M) = Len(L) - c /\ DOMAIN M = 1 .. Len(L) - c
  <2> DEFINE n == Len(L) - c
  <2> HIDE DEF n, M
  <2>1. n \in Nat /\ DOMAIN M = 1 .. n /\ M \in [1 .. n -> T]
    BY <1>2, <1>3 DEF n
  <2> QED BY <2>1, SeqDef DEF n
<1>5. ASSUME NEW s, NEW k \in c + 1 .. Len(L), L[k] = s PROVE s \in Range(M)
  <2>1. k - c \in 1 .. Len(L) - c /\ (k - c) + c = k
    BY <1>1
  <2>2. M[k - c] = s
    BY <1>2, <1>5, <2>1
  <2> HIDE DEF M
  <2> QED BY <1>4, <2>1, <2>2 DEF Range
<1>6. ASSUME NEW s \in Range(M) PROVE \E k \in c + 1 .. Len(L) : L[k] = s
  <2>1. PICK j \in 1 .. Len(L) - c : M[j] = s
    <3> HIDE DEF M
    <3> QED BY <1>4 DEF Range
  <2> QED BY <1>2, <1>3, <2>1
<1>7. \A j \in 1 .. Len(L) - c : M[j] = L[j + c]
  BY <1>2
<1> QED BY <1>4, <1>5, <1>6, <1>7

LEMMA Dropped ==
    ASSUME NEW T, NEW L \in Seq(T), NEW c \in 0 .. Len(L), NEW M, M = SubSeq(L, c + 1, Len(L))
    PROVE  /\ M \in Seq(T) /\ Len(M) = Len(L) - c /\ DOMAIN M = 1 .. Len(L) - c
           /\ \A j \in 1 .. Len(L) - c : M[j] = L[j + c]
           /\ \A s : s \in Range(M) <=> \E k \in c + 1 .. Len(L) : L[k] = s
<1>1. LET N == SubSeq(L, c + 1, Len(L))
      IN  /\ N \in Seq(T) /\ Len(N) = Len(L) - c /\ \A j \in 1 .. Len(L) - c : N[j] = L[j + c]
          /\ \A s : s \in Range(N) <=> \E k \in c + 1 .. Len(L) : L[k] = s
  BY DropFacts
<1>2. M \in Seq(T) /\ Len(M) = Len(L) - c /\ \A j \in 1 .. Len(L) - c : M[j] = L[j + c]
  BY <1>1
<1>3. \A s : s \in Range(M) <=> \E k \in c + 1 .. Len(L) : L[k] = s
  BY <1>1
<1>4. DOMAIN M = 1 .. Len(L) - c
  BY <1>2, LenProperties
<1> QED BY <1>2, <1>3, <1>4

LEMMA DroppedRange ==
    ASSUME NEW T, NEW L \in Seq(T), NEW c \in 0 .. Len(L), NEW M, M = SubSeq(L, c + 1, Len(L))
    PROVE  Range(M) = {L[k] : k \in c + 1 .. Len(L)}
<1>1. LET N == SubSeq(L, c + 1, Len(L))
      IN  /\ N \in Seq(T) /\ Len(N) = Len(L) - c /\ \A j \in 1 .. Len(L) - c : N[j] = L[j + c]
          /\ \A s : s \in Range(N) <=> \E k \in c + 1 .. Len(L) : L[k] = s
  BY DropFacts
<1>2. \A s : s \in Range(M) <=> \E k \in c + 1 .. Len(L) : L[k] = s
  BY <1>1
<1> QED BY <1>2

\* The first n elements of a list.
LEMMA TakeFacts ==
    ASSUME NEW T, NEW L \in Seq(T), NEW n \in 0 .. Len(L)
    PROVE  LET M == SubSeq(L, 1, n)
           IN  M \in Seq(T) /\ Len(M) = n /\ \A j \in 1 .. n : M[j] = L[j]
<1>1. Len(L) \in Nat /\ n \in Nat /\ n <= Len(L) /\ \A j \in 1 .. n : L[j] \in T
  BY ElementOfSeq, LenProperties
<1>2. /\ SubSeq(L, 1, n) \in Seq(T) /\ Len(SubSeq(L, 1, n)) = IF 1 <= n THEN n - 1 + 1 ELSE 0
      /\ \A j \in 1 .. n - 1 + 1 : SubSeq(L, 1, n)[j] = L[1 + j - 1]
  BY <1>1, SubSeqProperties
<1>3. (IF 1 <= n THEN n - 1 + 1 ELSE 0) = n /\ n - 1 + 1 = n /\ \A j \in 1 .. n : 1 + j - 1 = j
  BY <1>1
<1> QED BY <1>2, <1>3

\* Two elements of a list are in one order or the other.
LEMMA Ordered ==
    ASSUME NEW T, NEW L \in Seq(T), NEW s \in Range(L), NEW t \in Range(L), s # t
    PROVE  Before(L, s, t) \/ Before(L, t, s)
<1>1. PICK j \in DOMAIN L, k \in DOMAIN L : L[j] = s /\ L[k] = t
  BY DEF Range
<1>2. j \in Nat /\ k \in Nat /\ j # k
  BY <1>1, SeqRange
<1> QED BY <1>1, <1>2 DEF Before

LEMMA BeforeRange ==
    ASSUME NEW L, NEW s, NEW t, Before(L, s, t)
    PROVE  s \in Range(L) /\ t \in Range(L)
  BY DEF Before, Range

LEMMA HashType ==
    ASSUME NEW name \in Name, NEW ns \in Namespace
    PROVE  hash(name, ns) \in Place
<1>1. Table(ns) \in {"sym", "lbl"}
  BY DEF Table
<1>2. Bucket[name] \in Range(Bucket)
  BY NameAssumption DEF Range
<1> QED BY <1>1, <1>2 DEF hash, Place

-----------------------------------------------------------------------------
(* Steps of the table.                                                     *)

\* newsym(): t is put in front of head or labels, with
\* the fields of r.
LEMMA Allocate ==
    ASSUME NEW S, NEW H, NEW L, NEW T, NEW c, TableOK(S, H, L, T, c),
           NEW t \in Ptr, t \notin DOMAIN S,
           NEW r \in SymbolRecord, r.ctx = c, r.const => r.ns = "IDEN",
           NEW S2, NEW H2, NEW L2, S2 = Put(S, t, r),
           IF r.ns = "LABEL" THEN L2 = <<t>> \o L /\ H2 = H ELSE H2 = <<t>> \o H /\ L2 = L
    PROVE  /\ TableOK(S2, H2, L2, T, c) /\ Fresh(H2, L2, T, t)
           /\ \A s, d : Means(S, H, L, T, s, d) => Means(S2, H2, L2, T, s, d)
<1>1. TableTypes(S, H, L, T, c) /\ Lists(S, H, L, c) /\ Collisions(S, H, L, T) /\ Once(S, T)
  BY DEF TableOK
<1>2. /\ S \in [DOMAIN S -> SymbolRecord] /\ DOMAIN S \subseteq Ptr
      /\ H \in Seq(Ptr) /\ L \in Seq(Ptr) /\ T \in [Place -> Seq(Ptr)] /\ c \in Nat
  BY <1>1 DEF TableTypes
<1>3. /\ DOMAIN S2 = DOMAIN S \cup {t} /\ S2[t] = r
      /\ \A s \in DOMAIN S : s # t /\ S2[s] = S[s]
  BY DEF Put
<1>4. S2 \in [DOMAIN S2 -> SymbolRecord]
  BY <1>2, <1>3 DEF Put
<1>5. /\ H2 \in Seq(Ptr) /\ L2 \in Seq(Ptr)
      /\ Range(H2) = (IF r.ns = "LABEL" THEN {} ELSE {t}) \cup Range(H)
      /\ Range(L2) = (IF r.ns = "LABEL" THEN {t} ELSE {}) \cup Range(L)
      /\ \A s, u : Before(H2, s, u) <=> (r.ns # "LABEL" /\ s = t /\ u \in Range(H)) \/ Before(H, s, u)
      /\ \A s, u : Before(L2, s, u) <=> (r.ns = "LABEL" /\ s = t /\ u \in Range(L)) \/ Before(L, s, u)
  <2>1. CASE r.ns = "LABEL"
    <3>1. L2 = <<t>> \o L /\ H2 = H
      BY <2>1
    <3>2. /\ L2 \in Seq(Ptr) /\ Range(L2) = {t} \cup Range(L)
          /\ \A s, u : Before(L2, s, u) <=> (s = t /\ u \in Range(L)) \/ Before(L, s, u)
      BY <1>2, <3>1, ConsFacts
    <3> QED BY <1>2, <2>1, <3>1, <3>2
  <2>2. CASE r.ns # "LABEL"
    <3>1. H2 = <<t>> \o H /\ L2 = L
      BY <2>2
    <3>2. /\ H2 \in Seq(Ptr) /\ Range(H2) = {t} \cup Range(H)
          /\ \A s, u : Before(H2, s, u) <=> (s = t /\ u \in Range(H)) \/ Before(H, s, u)
      BY <1>2, <3>1, ConsFacts
    <3> QED BY <1>2, <2>2, <3>1, <3>2
  <2> QED BY <2>1, <2>2
<1>6. TableTypes(S2, H2, L2, T, c)
  BY <1>2, <1>3, <1>4, <1>5 DEF TableTypes
<1>7. /\ Range(H) \cup Range(L) = DOMAIN S
      /\ \A s \in Range(L) : S[s].ns = "LABEL"
      /\ \A s \in Range(H) : S[s].ns # "LABEL" /\ S[s].ctx <= c
      /\ \A s \in Ptr : ~Before(H, s, s) /\ ~Before(L, s, s)
      /\ \A s, u \in Ptr : Before(H, s, u) => S[u].ctx <= S[s].ctx
      /\ \A s \in DOMAIN S : S[s].const => S[s].ns = "IDEN"
  BY <1>1 DEF Lists
<1>8. ~LinkedIn(T, t)
  BY <1>1 DEF Collisions, LinkedIn
<1>9. Lists(S2, H2, L2, c)
  <2>1. Range(H2) \cup Range(L2) = DOMAIN S2
    BY <1>3, <1>5, <1>7
  <2>2. \A s \in Range(L2) : S2[s].ns = "LABEL"
    BY <1>3, <1>5, <1>7
  <2>3. \A s \in Range(H2) : S2[s].ns # "LABEL" /\ S2[s].ctx <= c
    BY <1>2, <1>3, <1>5, <1>7
  <2>4. \A s \in Ptr : ~Before(H2, s, s) /\ ~Before(L2, s, s)
    BY <1>5, <1>7
  <2>5. ASSUME NEW s \in Ptr, NEW u \in Ptr, Before(H2, s, u) PROVE S2[u].ctx <= S2[s].ctx
    <3>1. CASE s = t /\ u \in Range(H)
      BY <1>3, <1>7, <3>1
    <3>2. CASE Before(H, s, u)
      <4>1. s \in DOMAIN S /\ u \in DOMAIN S
        BY <1>7, <3>2, BeforeRange
      <4> QED BY <1>3, <1>7, <3>2, <4>1
    <3> QED BY <1>5, <2>5, <3>1, <3>2
  <2>6. \A s \in DOMAIN S2 : S2[s].const => S2[s].ns = "IDEN"
    BY <1>3, <1>7
  <2> QED BY <2>1, <2>2, <2>3, <2>4, <2>5, <2>6 DEF Lists
<1>10. Collisions(S2, H2, L2, T)
  <2> SUFFICES ASSUME NEW h \in Place
               PROVE  /\ \A s \in Range(T[h]) : s \in DOMAIN S2 /\ S2[s].name \in Name
                                                /\ hash(S2[s].name, S2[s].ns) = h
                      /\ \A j, k \in DOMAIN T[h] : j < k =>
                            Before(H2, T[h][j], T[h][k]) \/ Before(L2, T[h][j], T[h][k])
    BY DEF Collisions
  <2>1. \A s \in Range(T[h]) : s \in DOMAIN S /\ S[s].name \in Name /\ hash(S[s].name, S[s].ns) = h
    BY <1>1 DEF Collisions
  <2>2. \A j, k \in DOMAIN T[h] : j < k => Before(H, T[h][j], T[h][k]) \/ Before(L, T[h][j], T[h][k])
    BY <1>1 DEF Collisions
  <2> QED BY <1>3, <1>5, <2>1, <2>2
<1>11. Once(S2, T)
  BY <1>1, <1>3, <1>8 DEF Once
<1>12. Fresh(H2, L2, T, t)
  <2>1. ASSUME NEW x, Before(H2, x, t) \/ Before(L2, x, t) PROVE FALSE
    <3>1. Before(H, x, t) \/ Before(L, x, t) \/ t \in Range(H) \cup Range(L)
      BY <1>5, <2>1
    <3> QED BY <1>7, <3>1, BeforeRange
  <2> QED BY <1>8, <2>1 DEF Fresh
<1>13. ASSUME NEW s, NEW d, Means(S, H, L, T, s, d) PROVE Means(S2, H2, L2, T, s, d)
  <2>1. /\ s \in DOMAIN S /\ S[s].name \in Name
        /\ LinkedIn(T, s) \/ (S[s].ctx = d /\ Fresh(H, L, T, s))
        /\ \A u \in DOMAIN S \ {s} : LinkedIn(T, u) /\ S[u].ns = S[s].ns /\ S[u].name = S[s].name =>
              LinkedIn(T, s) /\ S[u].ctx < S[s].ctx
    BY <1>13 DEF Means
  <2>2. Fresh(H, L, T, s) => Fresh(H2, L2, T, s)
    BY <1>5, <1>8 DEF Fresh
  <2> QED BY <1>3, <1>8, <2>1, <2>2 DEF Means
<1> QED BY <1>6, <1>9, <1>10, <1>11, <1>12, <1>13 DEF TableOK

\* the collision lists T with t in front of that of h
InFront(T, h, t) == [T EXCEPT ![h] = <<t>> \o @]

\* linkhash(): t, which is in no collision list, is put in front of its list; the
\* flags of the symbols may change.
LEMMA Link ==
    ASSUME NEW S, NEW H, NEW L, NEW T, NEW c, TableOK(S, H, L, T, c),
           NEW t \in DOMAIN S, S[t].name \in Name, Fresh(H, L, T, t),
           \A u \in DOMAIN S : LinkedIn(T, u) /\ S[u].ns = S[t].ns /\ S[u].name = S[t].name =>
               S[t].ns # "LABEL" /\ S[u].ctx # S[t].ctx,
           NEW T2, T2 = InFront(T, hash(S[t].name, S[t].ns), t)
    PROVE  /\ TableOK(S, H, L, T2, c)
           /\ \A s : LinkedIn(T2, s) <=> LinkedIn(T, s) \/ s = t
<1> DEFINE g == hash(S[t].name, S[t].ns)
<1>1. TableTypes(S, H, L, T, c) /\ Lists(S, H, L, c) /\ Collisions(S, H, L, T) /\ Once(S, T)
  BY DEF TableOK
<1>2. /\ S \in [DOMAIN S -> SymbolRecord] /\ DOMAIN S \subseteq Ptr
      /\ H \in Seq(Ptr) /\ L \in Seq(Ptr) /\ T \in [Place -> Seq(Ptr)] /\ c \in Nat
  BY <1>1 DEF TableTypes
<1>3. t \in Ptr /\ S[t].ns \in Namespace /\ \A s \in DOMAIN S : S[s].ns \in Namespace
  BY <1>2 DEF SymbolRecord
<1>4. g \in Place
  BY <1>3, HashType
<1>5. T2 = [T EXCEPT ![g] = <<t>> \o @]
  BY DEF InFront
<1>6. \A s \in DOMAIN S : hash(S[s].name, S[s].ns) = g => (S[s].ns = "LABEL" <=> S[t].ns = "LABEL")
  BY DEF hash, Table
<1>7. \A s \in Range(T[g]) : s \in DOMAIN S /\ S[s].name \in Name /\ hash(S[s].name, S[s].ns) = g
  BY <1>1, <1>4 DEF Collisions
<1>8. hash(S[t].name, S[t].ns) = g
  OBVIOUS
<1> HIDE DEF g
<1>9. T[g] \in Seq(Ptr) /\ T2[g] = <<t>> \o T[g] /\ \A h \in Place \ {g} : T2[h] = T[h]
  BY <1>2, <1>4, <1>5
<1>10. /\ T2[g] \in Seq(Ptr) /\ Len(T2[g]) = Len(T[g]) + 1 /\ Range(T2[g]) = {t} \cup Range(T[g])
       /\ T2[g][1] = t /\ \A j \in 1 .. Len(T[g]) : T2[g][j + 1] = T[g][j]
  BY <1>3, <1>9, ConsFacts
<1>11. T2 \in [Place -> Seq(Ptr)]
  BY <1>2, <1>4, <1>5, <1>9, <1>10
<1>12. \A s : LinkedIn(T2, s) <=> LinkedIn(T, s) \/ s = t
  BY <1>4, <1>9, <1>10 DEF LinkedIn
<1>13. ~LinkedIn(T, t) /\ \A x \in Ptr : Before(H, x, t) \/ Before(L, x, t) => ~LinkedIn(T, x)
  BY DEF Fresh
<1>14. ASSUME NEW x \in Range(T[g]) PROVE Before(H, t, x) \/ Before(L, t, x)
  <2>1. x \in DOMAIN S /\ LinkedIn(T, x) /\ x # t /\ x \in Ptr
    BY <1>2, <1>4, <1>7, <1>13 DEF LinkedIn
  <2>2. (x \in Range(H) /\ t \in Range(H)) \/ (x \in Range(L) /\ t \in Range(L))
    BY <1>1, <1>6, <1>7, <1>8, <2>1 DEF Lists
  <2>3. Before(H, t, x) \/ Before(H, x, t) \/ Before(L, t, x) \/ Before(L, x, t)
    BY <1>2, <2>1, <2>2, Ordered
  <2> QED BY <1>13, <2>1, <2>3
<1>15. ASSUME NEW h \in Place
       PROVE  /\ \A s \in Range(T2[h]) : s \in DOMAIN S /\ S[s].name \in Name
                                         /\ hash(S[s].name, S[s].ns) = h
              /\ \A j, k \in DOMAIN T2[h] : j < k =>
                    Before(H, T2[h][j], T2[h][k]) \/ Before(L, T2[h][j], T2[h][k])
  <2>1. \A s \in Range(T[h]) : s \in DOMAIN S /\ S[s].name \in Name /\ hash(S[s].name, S[s].ns) = h
    BY <1>1 DEF Collisions
  <2>2. \A j, k \in DOMAIN T[h] : j < k => Before(H, T[h][j], T[h][k]) \/ Before(L, T[h][j], T[h][k])
    BY <1>1 DEF Collisions
  <2>3. CASE h # g
    BY <1>9, <2>1, <2>2, <2>3
  <2>4. CASE h = g
    <3>1. \A s \in Range(T2[h]) : s \in DOMAIN S /\ S[s].name \in Name /\ hash(S[s].name, S[s].ns) = h
      BY <1>8, <1>10, <2>1, <2>4
    <3>2. DOMAIN T2[g] = 1 .. Len(T[g]) + 1 /\ DOMAIN T[g] = 1 .. Len(T[g]) /\ Len(T[g]) \in Nat
      BY <1>9, <1>10, SeqRange
    <3>3. ASSUME NEW j \in DOMAIN T2[g], NEW k \in DOMAIN T2[g], j < k
          PROVE  Before(H, T2[g][j], T2[g][k]) \/ Before(L, T2[g][j], T2[g][k])
      <4>1. k - 1 \in DOMAIN T[g] /\ k - 1 \in 1 .. Len(T[g]) /\ (k - 1) + 1 = k
        BY <3>2, <3>3
      <4>2. T2[g][k] = T[g][k - 1]
        BY <1>10, <4>1
      <4>3. CASE j = 1
        <5>1. T[g][k - 1] \in Range(T[g])
          BY <4>1 DEF Range
        <5> QED BY <1>10, <1>14, <4>2, <4>3, <5>1
      <4>4. CASE j # 1
        <5>1. j - 1 \in DOMAIN T[g] /\ j - 1 \in 1 .. Len(T[g]) /\ (j - 1) + 1 = j /\ j - 1 < k - 1
          BY <3>2, <3>3, <4>4
        <5>2. T2[g][j] = T[g][j - 1]
          BY <1>10, <5>1
        <5> QED BY <2>2, <2>4, <4>1, <4>2, <5>1, <5>2
      <4> QED BY <4>3, <4>4
    <3> QED BY <2>4, <3>1, <3>3
  <2> QED BY <2>3, <2>4
<1>16. Collisions(S, H, L, T2)
  BY <1>15 DEF Collisions
<1>17. Once(S, T2)
  <2> SUFFICES ASSUME NEW s \in DOMAIN S, NEW u \in DOMAIN S, LinkedIn(T2, s), LinkedIn(T2, u), s # u,
                      S[s].ns = S[u].ns, S[s].name = S[u].name
               PROVE  S[s].ns # "LABEL" /\ S[s].ctx # S[u].ctx
    BY DEF Once
  <2>1. CASE s # t /\ u # t
    BY <1>1, <1>12, <2>1 DEF Once
  <2>2. CASE s = t
    BY <1>12, <2>2
  <2>3. CASE u = t
    BY <1>12, <2>3
  <2> QED BY <2>1, <2>2, <2>3
<1>18. TableTypes(S, H, L, T2, c)
  BY <1>2, <1>11 DEF TableTypes
<1> QED BY <1>1, <1>12, <1>16, <1>17, <1>18 DEF TableOK

\* A change of the flags of symbols.
LEMMA Flags ==
    ASSUME NEW S, NEW H, NEW L, NEW T, NEW c, TableOK(S, H, L, T, c),
           NEW S2 \in [DOMAIN S -> SymbolRecord],
           \A s \in DOMAIN S : /\ S2[s].name = S[s].name /\ S2[s].ns = S[s].ns /\ S2[s].ctx = S[s].ctx
                               /\ S2[s].const => S2[s].ns = "IDEN"
    PROVE  /\ TableOK(S2, H, L, T, c)
           /\ \A s, d : Means(S, H, L, T, s, d) => Means(S2, H, L, T, s, d)
<1>1. TableTypes(S, H, L, T, c) /\ Lists(S, H, L, c) /\ Collisions(S, H, L, T) /\ Once(S, T)
  BY DEF TableOK
<1>2. DOMAIN S2 = DOMAIN S
  OBVIOUS
<1>3. TableTypes(S2, H, L, T, c)
  BY <1>1, <1>2 DEF TableTypes
<1>4. Lists(S2, H, L, c)
  <2>1. \A s, t : Before(H, s, t) => s \in DOMAIN S /\ t \in DOMAIN S
    BY <1>1, BeforeRange DEF Lists
  <2>2. Range(H) \subseteq DOMAIN S /\ Range(L) \subseteq DOMAIN S
    BY <1>1 DEF Lists
  <2> QED BY <1>1, <1>2, <2>1, <2>2 DEF Lists
<1>5. Collisions(S2, H, L, T)
  BY <1>1, <1>2 DEF Collisions
<1>6. Once(S2, T)
  BY <1>1, <1>2 DEF Once
<1>7. \A s, d : Means(S, H, L, T, s, d) => Means(S2, H, L, T, s, d)
  BY <1>2 DEF Means
<1> QED BY <1>3, <1>4, <1>5, <1>6, <1>7 DEF TableOK

-----------------------------------------------------------------------------
(* lookup().                                                               *)

\* The first match of the collision list.
LEMMA FindFirst ==
    ASSUME NEW tab, NEW ns, NEW name, NEW list \in Seq(Ptr), tab[hash(name, ns)] = list
    PROVE  \/ /\ Find(tab, ns, name) = NULL
              /\ \A j \in 1 .. Len(list) : ~(sym[list[j]].name = name /\ sym[list[j]].ns = ns)
           \/ \E j \in 1 .. Len(list) :
                 /\ Find(tab, ns, name) = list[j] /\ sym[list[j]].name = name /\ sym[list[j]].ns = ns
                 /\ \A i \in 1 .. Len(list) :
                       sym[list[i]].name = name /\ sym[list[i]].ns = ns => j <= i
<1> DEFINE I == {i \in 1 .. Len(list) : sym[list[i]].name = name /\ sym[list[i]].ns = ns}
           at == IF I # {} THEN Min(I) ELSE 0
<1>1. Find(tab, ns, name) = IF at = 0 THEN NULL ELSE list[at]
  BY DEF Find, SelectInSeq
<1>2. CASE I = {}
  BY <1>1, <1>2
<1>3. CASE I # {}
  <2>1. I \subseteq Nat
    BY SeqRange
  <2>2. Min(I) \in I /\ \A y \in I : Min(I) <= y
    <3> HIDE DEF I
    <3>1. \E x \in I : \A y \in I : x <= y
      BY <1>3, <2>1, Least
    <3> QED BY <3>1 DEF Min
  <2>3. at = Min(I) /\ at # 0
    BY <1>3, <2>2
  <2> QED BY <1>1, <2>2, <2>3
<1> QED BY <1>2, <1>3

\* What lookup() finds in a table is the innermost of the linked symbols.
LEMMA FindFacts ==
    ASSUME NEW S, NEW H, NEW L, NEW T, NEW c, TableOK(S, H, L, T, c),
           NEW ns \in Namespace, NEW name \in Name,
           \A s \in DOMAIN S : S[s].name = sym[s].name /\ S[s].ns = sym[s].ns,
           NEW f, f = Find(T, ns, name)
    PROVE  \/ /\ f = NULL
              /\ \A t \in DOMAIN S : LinkedIn(T, t) => ~(S[t].ns = ns /\ S[t].name = name)
           \/ /\ f \in DOMAIN S /\ LinkedIn(T, f) /\ S[f].ns = ns /\ S[f].name = name
              /\ \A d : Means(S, H, L, T, f, d)
<1> DEFINE g == hash(name, ns)
           list == T[g]
<1>1. TableTypes(S, H, L, T, c) /\ Lists(S, H, L, c) /\ Collisions(S, H, L, T) /\ Once(S, T)
  BY DEF TableOK
<1>2. /\ S \in [DOMAIN S -> SymbolRecord] /\ DOMAIN S \subseteq Ptr
      /\ H \in Seq(Ptr) /\ L \in Seq(Ptr) /\ T \in [Place -> Seq(Ptr)] /\ c \in Nat
  BY <1>1 DEF TableTypes
<1>3. g \in Place
  BY HashType
<1>4. list \in Seq(Ptr)
  BY <1>2, <1>3
<1>5. /\ \A s \in Range(list) : s \in DOMAIN S
      /\ \A j, k \in DOMAIN list : j < k => Before(H, list[j], list[k]) \/ Before(L, list[j], list[k])
  BY <1>1, <1>3 DEF Collisions
<1>6. ASSUME NEW t \in DOMAIN S, LinkedIn(T, t), S[t].ns = ns, S[t].name = name
      PROVE  \E j \in 1 .. Len(list) : list[j] = t
  <2>1. PICK h \in Place : t \in Range(T[h])
    BY <1>6 DEF LinkedIn
  <2>2. h = g
    BY <1>1, <1>6, <2>1 DEF Collisions
  <2>3. t \in Range(list)
    BY <2>1, <2>2
  <2> HIDE DEF list
  <2> QED BY <1>4, <2>3, SeqRange
<1>7. \/ /\ f = NULL
         /\ \A j \in 1 .. Len(list) : ~(sym[list[j]].name = name /\ sym[list[j]].ns = ns)
      \/ \E j \in 1 .. Len(list) :
            /\ f = list[j] /\ sym[list[j]].name = name /\ sym[list[j]].ns = ns
            /\ \A i \in 1 .. Len(list) : sym[list[i]].name = name /\ sym[list[i]].ns = ns => j <= i
  <2>1. T[hash(name, ns)] = list
    OBVIOUS
  <2> HIDE DEF list
  <2> QED BY <1>4, <2>1, FindFirst
<1>8. \A h \in Place : \A s : s \in Range(T[h]) => LinkedIn(T, s)
  BY DEF LinkedIn
<1>9. \A s \in Range(list) : LinkedIn(T, s)
  BY <1>3, <1>8
<1> HIDE DEF list
<1>10. DOMAIN list = 1 .. Len(list) /\ Len(list) \in Nat /\ \A j \in 1 .. Len(list) : list[j] \in Range(list)
  BY <1>4, SeqRange DEF Range
<1>11. CASE f = NULL /\ \A j \in 1 .. Len(list) : ~(sym[list[j]].name = name /\ sym[list[j]].ns = ns)
  BY <1>6, <1>11
<1>12. ASSUME NEW j \in 1 .. Len(list), f = list[j], sym[list[j]].name = name, sym[list[j]].ns = ns,
              \A i \in 1 .. Len(list) : sym[list[i]].name = name /\ sym[list[i]].ns = ns => j <= i
       PROVE  /\ f \in DOMAIN S /\ LinkedIn(T, f) /\ S[f].ns = ns /\ S[f].name = name
              /\ \A d : Means(S, H, L, T, f, d)
  <2>1. f \in DOMAIN S /\ LinkedIn(T, f) /\ S[f].ns = ns /\ S[f].name = name
    BY <1>5, <1>9, <1>10, <1>12
  <2>2. ASSUME NEW t \in DOMAIN S \ {f}, LinkedIn(T, t), S[t].ns = ns, S[t].name = name
        PROVE  S[t].ctx < S[f].ctx
    <3>1. PICK k \in 1 .. Len(list) : list[k] = t
      BY <1>6, <2>2
    <3>2. sym[t].name = name /\ sym[t].ns = ns
      BY <2>2
    <3>3. j < k
      BY <1>10, <1>12, <2>2, <3>1, <3>2
    <3>4. Before(H, f, t) \/ Before(L, f, t)
      BY <1>5, <1>10, <1>12, <3>1, <3>3
    <3>5. S[f].ns # "LABEL" /\ S[f].ctx # S[t].ctx
      BY <1>1, <2>1, <2>2 DEF Once
    <3>6. f \notin Range(L)
      BY <1>1, <3>5 DEF Lists
    <3>7. Before(H, f, t)
      BY <3>4, <3>6, BeforeRange
    <3>8. S[t].ctx <= S[f].ctx
      BY <1>1, <1>2, <2>1, <2>2, <3>7 DEF Lists
    <3>9. S[t].ctx \in Nat /\ S[f].ctx \in Nat
      BY <1>2, <2>1, <2>2 DEF SymbolRecord
    <3> QED BY <3>5, <3>8, <3>9
  <2> QED BY <2>1, <2>2 DEF Means
<1> QED BY <1>7, <1>11, <1>12

-----------------------------------------------------------------------------
(* popctx().                                                               *)

\* The loop over head stops behind the symbols of the context.
LEMMA DoomedFacts ==
    ASSUME TableOK(sym, head, labels, htab, curctx)
    PROVE  \E p \in 0 .. Len(head) :
              /\ Doomed \in Seq(Ptr) /\ Len(Doomed) = p /\ \A j \in 1 .. p : Doomed[j] = head[j]
              /\ \A j \in 1 .. Len(head) : j <= p <=> sym[head[j]].ctx = curctx
<1> DEFINE I == {i \in 1 .. Len(head) : sym[head[i]].ctx # curctx}
           keep == IF I # {} THEN Min(I) ELSE 0
<1>1. Doomed = IF keep = 0 THEN head ELSE SubSeq(head, 1, keep - 1)
  BY DEF Doomed, SelectInSeq
<1>2. head \in Seq(Ptr) /\ Len(head) \in Nat /\ DOMAIN head = 1 .. Len(head) /\ curctx \in Nat
  BY SeqRange DEF TableOK, TableTypes
<1>3. CASE I = {}
  <2>1. Doomed = head
    BY <1>1, <1>3
  <2>2. \A j \in 1 .. Len(head) : j <= Len(head) /\ sym[head[j]].ctx = curctx
    BY <1>2, <1>3
  <2> HIDE DEF I
  <2>3. Len(head) \in 0 .. Len(head) /\ Doomed \in Seq(Ptr) /\ Len(Doomed) = Len(head)
    BY <1>2, <2>1
  <2>4. \A j \in 1 .. Len(head) : Doomed[j] = head[j]
    BY <2>1
  <2> WITNESS Len(head) \in 0 .. Len(head)
  <2> QED BY <2>2, <2>3, <2>4
<1>4. CASE I # {}
  <2>1. I \subseteq Nat
    BY <1>2
  <2>2. Min(I) \in I /\ \A y \in I : Min(I) <= y
    <3> HIDE DEF I
    <3>1. \E x \in I : \A y \in I : x <= y
      BY <1>4, <2>1, Least
    <3> QED BY <3>1 DEF Min
  <2>3. keep = Min(I)
    BY <1>4
  <2>4. /\ keep \in 1 .. Len(head) /\ sym[head[keep]].ctx # curctx
        /\ \A j \in 1 .. Len(head) : sym[head[j]].ctx # curctx => keep <= j
    BY <2>2, <2>3
  <2> HIDE DEF keep, I
  <2>5. Doomed = SubSeq(head, 1, keep - 1) /\ keep - 1 \in 0 .. Len(head)
    BY <1>1, <1>2, <2>4
  <2>6. \A n \in 0 .. Len(head) : LET M == SubSeq(head, 1, n)
                                   IN  M \in Seq(Ptr) /\ Len(M) = n /\ \A j \in 1 .. n : M[j] = head[j]
    BY <1>2, TakeFacts
  <2>7. Doomed \in Seq(Ptr) /\ Len(Doomed) = keep - 1 /\ \A j \in 1 .. keep - 1 : Doomed[j] = head[j]
    BY <2>5, <2>6
  <2>8. ASSUME NEW j \in 1 .. Len(head) PROVE j <= keep - 1 <=> sym[head[j]].ctx = curctx
    <3>1. CASE j <= keep - 1
      BY <1>2, <2>4, <3>1
    <3>2. CASE j = keep
      BY <1>2, <2>4, <3>2
    <3>3. CASE j > keep
      <4>1. Before(head, head[keep], head[j])
        BY <1>2, <2>4, <3>3 DEF Before
      <4>2. head[keep] \in Ptr /\ head[j] \in Ptr /\ head[keep] \in Range(head) /\ head[j] \in Range(head)
        BY <1>2, <2>4 DEF Range
      <4>3. sym[head[j]].ctx <= sym[head[keep]].ctx /\ sym[head[keep]].ctx <= curctx
        BY <4>1, <4>2 DEF TableOK, Lists
      <4>4. sym[head[keep]].ctx \in Nat /\ sym[head[j]].ctx \in Nat
        BY <4>2 DEF TableOK, Lists, TableTypes, SymbolRecord
      <4> QED BY <1>2, <2>4, <3>3, <4>3, <4>4
    <3> QED BY <1>2, <2>4, <3>1, <3>2, <3>3
  <2> QED BY <2>5, <2>7, <2>8
<1> QED BY <1>3, <1>4
\* The symbols that popctx() frees, in the order in which it frees them.
Dead == Doomed \o DoomedLabels

LEMMA DeadFacts ==
    ASSUME TableOK(sym, head, labels, htab, curctx), curctx > 0
    PROVE  /\ Dead \in Seq(Ptr)
           /\ \A s : s \in Range(Dead) <=> \/ s \in Range(head) /\ sym[s].ctx = curctx
                                           \/ curctx = 1 /\ s \in Range(labels)
           /\ \A m, n \in 1 .. Len(Dead) : m < n => Dead[m] # Dead[n]
           /\ \A m \in 1 .. Len(Dead) : \A x :
                 Before(head, x, Dead[m]) \/ Before(labels, x, Dead[m]) => \E n \in 1 .. m - 1 : Dead[n] = x
<1> DEFINE Q == DoomedLabels
<1>1. PICK p \in 0 .. Len(head) :
         /\ Doomed \in Seq(Ptr) /\ Len(Doomed) = p /\ \A j \in 1 .. p : Doomed[j] = head[j]
         /\ \A j \in 1 .. Len(head) : j <= p <=> sym[head[j]].ctx = curctx
  BY DoomedFacts
<1>2. /\ head \in Seq(Ptr) /\ Len(head) \in Nat /\ DOMAIN head = 1 .. Len(head)
      /\ labels \in Seq(Ptr) /\ Len(labels) \in Nat /\ DOMAIN labels = 1 .. Len(labels)
      /\ curctx \in Nat
  BY SeqRange DEF TableOK, TableTypes
<1>3. /\ Q \in Seq(Ptr) /\ Len(Q) \in Nat /\ (curctx = 1 => Q = labels) /\ (curctx # 1 => Len(Q) = 0)
  BY <1>2 DEF DoomedLabels, GLOBALCTX
<1>4. \A j \in 1 .. Len(Q) : curctx = 1 /\ j \in 1 .. Len(labels) /\ Q[j] = labels[j]
  BY <1>3
<1>5. /\ Dead \in Seq(Ptr) /\ Len(Dead) = p + Len(Q)
      /\ \A i \in 1 .. p + Len(Q) : Dead[i] = IF i <= p THEN Doomed[i] ELSE Q[i - p]
  <2>1. Dead = Doomed \o Q
    BY DEF Dead
  <2> HIDE DEF Q
  <2> QED BY <1>1, <1>3, <2>1, ConcatProperties
<1> HIDE DEF Q
<1>6. p \in Nat /\ p <= Len(head)
  BY <1>2
<1>7. \A i \in 1 .. Len(Dead) : i <= p => i \in 1 .. p /\ i \in 1 .. Len(head) /\ Dead[i] = head[i]
  BY <1>1, <1>2, <1>3, <1>5, <1>6
<1>8. \A i \in 1 .. Len(Dead) : ~(i <= p) => /\ i - p \in 1 .. Len(Q) /\ i - p \in 1 .. Len(labels)
                                            /\ Dead[i] = labels[i - p] /\ curctx = 1
  <2> TAKE i \in 1 .. Len(Dead)
  <2>1. ~(i <= p) => i - p \in 1 .. Len(Q) /\ Dead[i] = Q[i - p]
    BY <1>2, <1>3, <1>5, <1>6
  <2> QED BY <1>4, <2>1
<1>9. \A j \in 1 .. p : j \in 1 .. Len(Dead) /\ Dead[j] = head[j]
  BY <1>1, <1>2, <1>3, <1>5, <1>6
<1>10. \A j \in 1 .. Len(labels) : curctx = 1 => p + j \in 1 .. Len(Dead) /\ Dead[p + j] = labels[j]
  <2> SUFFICES ASSUME NEW j \in 1 .. Len(labels), curctx = 1
               PROVE  p + j \in 1 .. Len(Dead) /\ Dead[p + j] = labels[j]
    OBVIOUS
  <2>1. p + j \in 1 .. p + Len(Q) /\ ~(p + j <= p) /\ (p + j) - p = j
    BY <1>2, <1>3, <1>6
  <2> QED BY <1>3, <1>5, <2>1
<1>11. /\ \A s : s \in Range(head) <=> \E j \in 1 .. Len(head) : head[j] = s
       /\ \A s : s \in Range(labels) <=> \E j \in 1 .. Len(labels) : labels[j] = s
       /\ \A s : s \in Range(Dead) <=> \E j \in 1 .. Len(Dead) : Dead[j] = s
       /\ Len(Dead) \in Nat
  BY <1>2, <1>5, SeqRange
<1>12. /\ \A s \in Range(labels) : s \in Ptr /\ sym[s].ns = "LABEL"
       /\ \A s \in Range(head) : s \in Ptr /\ sym[s].ns # "LABEL"
       /\ \A s \in Ptr : ~Before(head, s, s) /\ ~Before(labels, s, s)
  BY <1>2, SeqRange DEF TableOK, Lists
<1>13. ASSUME NEW s PROVE s \in Range(Dead) <=> \/ s \in Range(head) /\ sym[s].ctx = curctx
                                                \/ curctx = 1 /\ s \in Range(labels)
  <2>1. ASSUME s \in Range(Dead)
        PROVE  (s \in Range(head) /\ sym[s].ctx = curctx) \/ (curctx = 1 /\ s \in Range(labels))
    <3>1. PICK i \in 1 .. Len(Dead) : Dead[i] = s
      BY <1>11, <2>1
    <3>2. CASE i <= p
      BY <1>1, <1>7, <1>11, <3>1, <3>2
    <3>3. CASE ~(i <= p)
      BY <1>8, <1>11, <3>1, <3>3
    <3> QED BY <3>2, <3>3
  <2>2. ASSUME s \in Range(head), sym[s].ctx = curctx PROVE s \in Range(Dead)
    <3>1. PICK j \in 1 .. Len(head) : head[j] = s
      BY <1>11, <2>2
    <3>2. j \in 1 .. p
      BY <1>1, <1>2, <1>6, <2>2, <3>1
    <3> QED BY <1>9, <1>11, <3>1, <3>2
  <2>3. ASSUME curctx = 1, s \in Range(labels) PROVE s \in Range(Dead)
    BY <1>10, <1>11, <2>3
  <2> QED BY <2>1, <2>2, <2>3
<1>14. ASSUME NEW m \in 1 .. Len(Dead), NEW n \in 1 .. Len(Dead), m < n, Dead[m] = Dead[n] PROVE FALSE
  <2>1. CASE n <= p
    <3>1. m <= p
      BY <1>6, <1>11, <1>14, <2>1
    <3>2. Before(head, Dead[m], Dead[m]) /\ Dead[m] \in Range(head)
      BY <1>2, <1>7, <1>14, <2>1, <3>1 DEF Before, Range
    <3> QED BY <1>12, <3>2
  <2>2. CASE ~(n <= p) /\ m <= p
    BY <1>7, <1>8, <1>11, <1>12, <1>14, <2>2
  <2>3. CASE ~(n <= p) /\ ~(m <= p)
    <3>1. m - p < n - p
      BY <1>6, <1>11, <1>14
    <3>2. Before(labels, Dead[m], Dead[m]) /\ Dead[m] \in Range(labels)
      BY <1>2, <1>8, <1>14, <2>3, <3>1 DEF Before, Range
    <3> QED BY <1>12, <3>2
  <2> QED BY <2>1, <2>2, <2>3
<1>15. ASSUME NEW m \in 1 .. Len(Dead), NEW x, Before(head, x, Dead[m])
       PROVE  \E n \in 1 .. m - 1 : Dead[n] = x
  <2>1. PICK j \in 1 .. Len(head), k \in 1 .. Len(head) : j < k /\ head[j] = x /\ head[k] = Dead[m]
    BY <1>2, <1>15 DEF Before
  <2>2. m <= p
    BY <1>8, <1>11, <1>12, <2>1
  <2>3. k = m
    <3>1. ~(k < m) /\ ~(m < k)
      BY <1>2, <1>7, <1>11, <1>12, <2>1, <2>2 DEF Before
    <3> QED BY <1>2, <1>11, <3>1
  <2>4. j \in 1 .. m - 1 /\ j \in 1 .. p
    BY <1>2, <1>6, <1>11, <2>1, <2>2, <2>3
  <2> QED BY <1>9, <2>1, <2>4
<1>16. ASSUME NEW m \in 1 .. Len(Dead), NEW x, Before(labels, x, Dead[m])
       PROVE  \E n \in 1 .. m - 1 : Dead[n] = x
  <2>1. PICK j \in 1 .. Len(labels), k \in 1 .. Len(labels) : j < k /\ labels[j] = x /\ labels[k] = Dead[m]
    BY <1>2, <1>16 DEF Before
  <2>2. ~(m <= p)
    BY <1>7, <1>11, <1>12, <2>1
  <2>3. m - p \in 1 .. Len(labels) /\ Dead[m] = labels[m - p] /\ curctx = 1
    BY <1>8, <2>2
  <2>4. k = m - p
    <3>1. ~(k < m - p) /\ ~(m - p < k)
      BY <1>2, <1>11, <1>12, <2>1, <2>3 DEF Before
    <3> QED BY <1>2, <1>6, <1>11, <2>3, <3>1
  <2>5. p + j \in 1 .. m - 1
    BY <1>2, <1>6, <1>11, <2>1, <2>4
  <2> QED BY <1>10, <2>1, <2>3, <2>5
<1> QED BY <1>5, <1>13, <1>14, <1>15, <1>16
\* The recursive function of Unlinked exists, so that it is what it says.
LEMMA UnlinkedSteps ==
    ASSUME NEW D, NEW N \in Nat, Len(D) = N
    PROVE  \E g : /\ g[0] = [tab |-> htab, ok |-> TRUE]
                  /\ \A n \in 1 .. N : g[n] = unlinkhash(g[n - 1], D[n])
                  /\ Unlinked(D) = g[N]
<1> DEFINE A == [tab |-> htab, ok |-> TRUE]
           P(g, m) == /\ g = [x \in 0 .. m |-> g[x]] /\ g[0] = A
                      /\ \A n \in 1 .. m : g[n] = unlinkhash(g[n - 1], D[n])
           R == {m \in 0 .. N : \E g : P(g, m)}
<1> HIDE DEF A
<1>1. 0 \in R
  <2> DEFINE g == [x \in 0 .. 0 |-> A]
  <2>1. 0 \in 0 .. N /\ 0 \in 0 .. 0
    OBVIOUS
  <2>2. g[0] = A /\ g = [x \in 0 .. 0 |-> g[x]]
    OBVIOUS
  <2>3. P(g, 0)
    BY <2>2
  <2> HIDE DEF P
  <2> QED BY <2>1, <2>3
<1>2. ASSUME NEW m \in 0 .. N - 1, m \in R PROVE m + 1 \in R
  <2>1. PICK g : P(g, m)
    BY <1>2
  <2> DEFINE w == unlinkhash(g[m], D[m + 1])
             f == [x \in 0 .. m + 1 |-> IF x = m + 1 THEN w ELSE g[x]]
  <2>2. m \in Nat /\ m + 1 \in 0 .. N /\ m + 1 \in 0 .. m + 1 /\ 0 \in 0 .. m + 1 /\ 0 # m + 1
    OBVIOUS
  <2>3. \A x \in 0 .. m : x \in 0 .. m + 1 /\ x # m + 1
    BY <2>2
  <2> HIDE DEF w
  <2>4. f[m + 1] = w /\ f[0] = g[0] /\ \A x \in 0 .. m : f[x] = g[x]
    BY <2>2, <2>3
  <2>5. f = [x \in 0 .. m + 1 |-> f[x]]
    OBVIOUS
  <2> HIDE DEF f
  <2>6. ASSUME NEW n \in 1 .. m + 1 PROVE f[n] = unlinkhash(f[n - 1], D[n])
    <3>1. CASE n = m + 1
      <4>1. n - 1 = m /\ m \in 0 .. m
        BY <2>2, <3>1
      <4> QED BY <2>4, <3>1, <4>1 DEF w
    <3>2. CASE n # m + 1
      <4>1. n \in 1 .. m /\ n \in 0 .. m /\ n - 1 \in 0 .. m
        BY <2>2, <3>2
      <4> QED BY <2>1, <2>4, <4>1
    <3> QED BY <3>1, <3>2
  <2>7. P(f, m + 1)
    BY <2>1, <2>4, <2>5, <2>6
  <2> HIDE DEF P
  <2> QED BY <2>2, <2>7
<1>3. N \in R
  <2> HIDE DEF R
  <2>1. 0 .. N \subseteq R
    BY <1>1, <1>2, Induction
  <2> QED BY <2>1
<1>4. PICK g : P(g, N)
  BY <1>3
<1> DEFINE F(h) == [n \in 0 .. N |-> IF n = 0 THEN A ELSE unlinkhash(h[n - 1], D[n])]
           st == CHOOSE h : h = F(h)
<1>5. Unlinked(D) = st[N]
  BY DEF Unlinked, A
<1>6. g = F(g)
  <2>1. \A n \in 0 .. N : n # 0 => n \in 1 .. N
    OBVIOUS
  <2>2. \A n \in 0 .. N : g[n] = IF n = 0 THEN A ELSE unlinkhash(g[n - 1], D[n])
    BY <1>4, <2>1
  <2> QED BY <1>4, <2>2
<1>7. st = F(st)
  <2> HIDE DEF F
  <2> QED BY <1>6
<1> HIDE DEF st
<1>8. st[0] = A
  BY <1>7
<1>9. \A n \in 1 .. N : st[n] = unlinkhash(st[n - 1], D[n])
  <2>1. \A n \in 1 .. N : n \in 0 .. N /\ n # 0
    OBVIOUS
  <2> QED BY <1>7, <2>1
<1> QED BY <1>5, <1>8, <1>9 DEF A
\* The collision list of h behind the first n symbols of Dead: the rest of the
\* list behind those of them that it held.
Swept(list, h, n) ==
    \E k \in 0 .. Len(htab[h]) :
        /\ list = SubSeq(htab[h], k + 1, Len(htab[h]))
        /\ \A i \in 1 .. Len(htab[h]) : i <= k <=> \E m \in 1 .. n : Dead[m] = htab[h][i]

LEMMA Whole ==
    ASSUME NEW T, NEW L \in Seq(T)
    PROVE  SubSeq(L, 1, Len(L)) = L
<1>1. Len(L) \in Nat /\ Len(L) \in 0 .. Len(L)
  BY LenProperties
<1>2. LET M == SubSeq(L, 1, Len(L))
      IN  M \in Seq(T) /\ Len(M) = Len(L) /\ \A j \in 1 .. Len(L) : M[j] = L[j]
  BY <1>1, TakeFacts
<1> QED BY <1>2, SeqEqual

\* The assertion of unlinkhash() holds: each symbol is the first of its list.
LEMMA Sweep ==
    ASSUME TableOK(sym, head, labels, htab, curctx), curctx > 0,
           \A s \in Range(Dead) : sym[s].declared <=> LinkedIn(htab, s)
    PROVE  /\ Unlinked(Dead).ok = TRUE /\ Unlinked(Dead).tab \in [Place -> Seq(Ptr)]
           /\ \A h \in Place : Swept(Unlinked(Dead).tab[h], h, Len(Dead))
<1> DEFINE N == Len(Dead)
           W == [tab : [Place -> Seq(Ptr)], ok : BOOLEAN]
<1>1. /\ Dead \in Seq(Ptr) /\ N \in Nat
      /\ \A s : s \in Range(Dead) <=> \/ s \in Range(head) /\ sym[s].ctx = curctx
                                      \/ curctx = 1 /\ s \in Range(labels)
      /\ \A m, n \in 1 .. N : m < n => Dead[m] # Dead[n]
      /\ \A m \in 1 .. N : \A x :
            Before(head, x, Dead[m]) \/ Before(labels, x, Dead[m]) => \E n \in 1 .. m - 1 : Dead[n] = x
  BY DeadFacts, LenProperties
<1>2. \A n \in 1 .. N : Dead[n] \in Range(Dead) /\ Dead[n] \in Ptr
  BY <1>1, SeqRange, ElementOfSeq
<1>3. PICK g : /\ g[0] = [tab |-> htab, ok |-> TRUE]
               /\ \A n \in 1 .. N : g[n] = unlinkhash(g[n - 1], Dead[n])
               /\ Unlinked(Dead) = g[N]
  BY <1>1, UnlinkedSteps
<1>4. htab \in [Place -> Seq(Ptr)] /\ \A h \in Place : htab[h] \in Seq(Ptr) /\ Len(htab[h]) \in Nat
  BY LenProperties DEF TableOK, TableTypes
<1>5. /\ \A h \in Place : /\ \A s \in Range(htab[h]) : /\ s \in Live /\ sym[s].name \in Name
                                                       /\ hash(sym[s].name, sym[s].ns) = h
                          /\ \A j, k \in DOMAIN htab[h] : j < k =>
                                \/ Before(head, htab[h][j], htab[h][k])
                                \/ Before(labels, htab[h][j], htab[h][k])
      /\ Range(head) \cup Range(labels) = Live /\ \A s \in Live : sym[s].ns \in Namespace
  BY DEF TableOK, Collisions, Lists, TableTypes, SymbolRecord, Live
<1> DEFINE R == {n \in 0 .. N : g[n] \in W /\ g[n].ok = TRUE /\ \A h \in Place : Swept(g[n].tab[h], h, n)}
<1>6. 0 \in R
  <2>1. g[0].tab = htab /\ g[0].ok = TRUE
    BY <1>3
  <2>2. g[0] \in W
    BY <1>3, <1>4
  <2>3. ASSUME NEW h \in Place PROVE Swept(htab[h], h, 0)
    <3>1. htab[h] = SubSeq(htab[h], 0 + 1, Len(htab[h]))
      BY <1>4, Whole
    <3>2. 0 \in 0 .. Len(htab[h])
      BY <1>4
    <3>3. \A i \in 1 .. Len(htab[h]) : i <= 0 <=> \E m \in 1 .. 0 : Dead[m] = htab[h][i]
      BY <1>4
    <3> QED BY <3>1, <3>2, <3>3 DEF Swept
  <2> QED BY <1>1, <2>1, <2>2, <2>3
<1>7. ASSUME NEW n \in 0 .. N - 1, n \in R PROVE n + 1 \in R
  <2> DEFINE s == Dead[n + 1]
             tb == g[n].tab
  <2>1. n \in Nat /\ n + 1 \in 1 .. N /\ (n + 1) - 1 = n /\ n + 1 \in 0 .. N
    BY <1>1
  <2>2. g[n] \in W /\ g[n].ok = TRUE /\ \A h \in Place : Swept(tb[h], h, n)
    BY <1>7
  <2>3. tb \in [Place -> Seq(Ptr)]
    BY <2>2
  <2>4. g[n + 1] = unlinkhash(g[n], s)
    <3>1. g[n + 1] = unlinkhash(g[(n + 1) - 1], Dead[n + 1])
      BY <1>3, <2>1
    <3> QED BY <2>1, <3>1
  <2>5. s \in Range(Dead) /\ s \in Live /\ s \in Ptr
    BY <1>1, <1>2, <1>5, <2>1
  <2>6. \A m \in 1 .. n : Dead[m] # s
    BY <1>1, <2>1
  <2>7. \A x : (\E m \in 1 .. n + 1 : Dead[m] = x) <=> (\E m \in 1 .. n : Dead[m] = x) \/ x = s
    <3>1. \A m \in 1 .. n + 1 : m \in 1 .. n \/ m = n + 1
      BY <2>1
    <3>2. \A m \in 1 .. n : m \in 1 .. n + 1
      BY <2>1
    <3>3. n + 1 \in 1 .. n + 1
      BY <2>1
    <3> QED BY <3>1, <3>2, <3>3
  <2>8. ASSUME NEW h \in Place, s \notin Range(htab[h]) PROVE Swept(tb[h], h, n + 1)
    <3>1. PICK k \in 0 .. Len(htab[h]) :
             /\ tb[h] = SubSeq(htab[h], k + 1, Len(htab[h]))
             /\ \A i \in 1 .. Len(htab[h]) : i <= k <=> \E m \in 1 .. n : Dead[m] = htab[h][i]
      BY <2>2 DEF Swept
    <3>2. \A i \in 1 .. Len(htab[h]) : htab[h][i] # s
      BY <1>4, <2>8, SeqRange
    <3> HIDE DEF s, tb
    <3>3. \A i \in 1 .. Len(htab[h]) : i <= k <=> \E m \in 1 .. n + 1 : Dead[m] = htab[h][i]
      BY <2>7, <3>1, <3>2
    <3> QED BY <3>1, <3>3 DEF Swept
  <2>9. CASE ~sym[s].declared
    <3>1. g[n + 1] = g[n]
      BY <2>4, <2>9 DEF unlinkhash
    <3>2. \A h \in Place : s \notin Range(htab[h])
      BY <2>5, <2>9 DEF LinkedIn
    <3> QED BY <2>1, <2>2, <2>8, <3>1, <3>2
  <2>10. CASE sym[s].declared
    <3> DEFINE q == hash(sym[s].name, sym[s].ns)
    <3>1. PICK h \in Place : s \in Range(htab[h])
      BY <2>5, <2>10 DEF LinkedIn
    <3>2. h = q
      BY <1>5, <3>1
    <3>3. \A o \in Place : o # h => s \notin Range(htab[o])
      BY <1>5, <3>2
    <3>4. PICK k \in 0 .. Len(htab[h]) :
             /\ tb[h] = SubSeq(htab[h], k + 1, Len(htab[h]))
             /\ \A i \in 1 .. Len(htab[h]) : i <= k <=> \E m \in 1 .. n : Dead[m] = htab[h][i]
      BY <2>2 DEF Swept
    <3>5. PICK i \in 1 .. Len(htab[h]) : htab[h][i] = s
      BY <1>4, <3>1, SeqRange
    <3>6. ~(i <= k)
      BY <2>6, <3>4, <3>5
    <3>7. k \in Nat /\ i \in Nat /\ k + 1 \in 1 .. Len(htab[h]) /\ Len(htab[h]) \in k + 1 .. Len(htab[h])
      BY <1>4, <3>5, <3>6
    <3> HIDE DEF s, tb, q
    <3>8. k + 1 = i
      <4> SUFFICES ASSUME k + 1 # i PROVE FALSE
        OBVIOUS
      <4>1. k + 1 < i
        BY <1>4, <3>6, <3>7
      <4>2. DOMAIN htab[h] = 1 .. Len(htab[h])
        BY <1>4, SeqRange
      <4>3. Before(head, htab[h][k + 1], s) \/ Before(labels, htab[h][k + 1], s)
        BY <1>5, <3>5, <3>7, <4>1, <4>2
      <4>4. PICK m \in 1 .. (n + 1) - 1 : Dead[m] = htab[h][k + 1]
        BY <1>1, <2>1, <4>3 DEF s
      <4>5. m \in 1 .. n
        BY <2>1
      <4>6. k + 1 <= k
        BY <3>4, <3>7, <4>4, <4>5
      <4> QED BY <3>7, <4>6
    <3>9. Head(tb[h]) = htab[h][k + 1] /\ Tail(tb[h]) = SubSeq(htab[h], (k + 1) + 1, Len(htab[h]))
      BY <1>4, <3>4, <3>7, HeadTailOfSubSeq
    <3>10. tb[h] \in Seq(Ptr) /\ tb[h] # << >>
      <4>1. Len(tb[h]) = Len(htab[h]) - k
        BY <1>4, <3>4, DropFacts
      <4>2. Len(tb[h]) # 0
        BY <1>4, <3>7, <4>1
      <4> QED BY <2>3, <4>2, EmptySeq
    <3>11. g[n + 1] = [g[n] EXCEPT !.tab = [tb EXCEPT ![h] = Tail(tb[h])]]
      <4>1. g[n + 1] = [g[n] EXCEPT !.tab[h] = Tail(@)]
        BY <2>4, <2>10, <3>2, <3>5, <3>8, <3>9, <3>10 DEF unlinkhash, q, tb
      <4> QED BY <4>1 DEF tb
    <3>12. Tail(tb[h]) \in Seq(Ptr)
      BY <3>10, HeadTailProperties
    <3>13. [tb EXCEPT ![h] = Tail(tb[h])] \in [Place -> Seq(Ptr)]
      BY <2>3, <3>12
    <3>14. /\ g[n + 1] \in W /\ g[n + 1].ok = TRUE /\ g[n + 1].tab = [tb EXCEPT ![h] = Tail(tb[h])]
      <4> DEFINE t2 == [tb EXCEPT ![h] = Tail(tb[h])]
      <4>1. t2 \in [Place -> Seq(Ptr)] /\ g[n + 1] = [g[n] EXCEPT !.tab = t2]
        BY <3>11, <3>13
      <4> HIDE DEF t2
      <4>2. g[n + 1] \in W /\ g[n + 1].ok = TRUE /\ g[n + 1].tab = t2
        BY <2>2, <4>1
      <4> QED BY <4>2 DEF t2
    <3>15. ASSUME NEW o \in Place PROVE Swept(g[n + 1].tab[o], o, n + 1)
      <4>1. CASE o # h
        <5>1. g[n + 1].tab[o] = tb[o]
          BY <2>3, <3>14, <4>1
        <5> QED BY <2>8, <3>3, <4>1, <5>1
      <4>2. CASE o = h
        <5>1. g[n + 1].tab[h] = SubSeq(htab[h], (k + 1) + 1, Len(htab[h]))
          BY <2>3, <3>9, <3>14
        <5>2. ASSUME NEW z \in 1 .. Len(htab[h])
              PROVE  z <= k + 1 <=> \E m \in 1 .. n + 1 : Dead[m] = htab[h][z]
          <6>1. CASE z = k + 1
            <7>1. htab[h][z] = s
              BY <3>5, <3>8, <6>1
            <7>2. \E m \in 1 .. n + 1 : Dead[m] = htab[h][z]
              BY <2>7, <7>1
            <7>3. z <= k + 1
              BY <3>7, <6>1
            <7> QED BY <7>2, <7>3
          <6>2. CASE z # k + 1
            <7>1. z <= k + 1 <=> z <= k
              BY <1>4, <3>7, <6>2
            <7>2. htab[h][z] # s
              <8> SUFFICES ASSUME htab[h][z] = s PROVE FALSE
                OBVIOUS
              <8>1. DOMAIN htab[h] = 1 .. Len(htab[h]) /\ (z < i \/ i < z)
                BY <1>4, <3>7, <3>8, <6>2, SeqRange
              <8>2. Before(head, s, s) \/ Before(labels, s, s)
                BY <1>5, <3>5, <8>1
              <8> QED BY <2>5, <8>2 DEF TableOK, Lists
            <7> QED BY <2>7, <3>4, <7>1, <7>2
          <6> QED BY <6>1, <6>2
        <5>3. k + 1 \in 0 .. Len(htab[h])
          BY <1>4, <3>7
        <5> QED BY <4>2, <5>1, <5>2, <5>3 DEF Swept
      <4> QED BY <4>1, <4>2
    <3> QED BY <2>1, <3>14, <3>15
  <2> QED BY <2>9, <2>10
<1>8. N \in R
  <2> HIDE DEF R, N
  <2>1. 0 .. N \subseteq R
    BY <1>1, <1>6, <1>7, Induction
  <2> QED BY <1>1, <2>1
<1>9. g[N] \in W
  BY <1>8
<1> QED BY <1>3, <1>8, <1>9
(* popctx(): D are the symbols of context c, the first p of the list H     *)
(* and, behind a function, the labels; S2, H2, L2 and T2 is the table      *)
(* without them.                                                           *)
Belong(S, H, L, c, D, p) ==
    /\ \A s : s \in D <=> (s \in Range(H) /\ S[s].ctx = c) \/ (c = 1 /\ s \in Range(L))
    /\ p \in 0 .. Len(H) /\ \A j \in 1 .. Len(H) : j <= p <=> S[H[j]].ctx = c
Without(S, H, L, T, c, D, p, S2, H2, L2, T2) ==
    /\ S2 = [s \in DOMAIN S \ D |-> S[s]]
    /\ H2 = SubSeq(H, p + 1, Len(H)) /\ L2 = IF c = 1 THEN << >> ELSE L
    /\ T2 \in [Place -> Seq(Ptr)]
    /\ \A h \in Place : \E k \in 0 .. Len(T[h]) :
          /\ T2[h] = SubSeq(T[h], k + 1, Len(T[h]))
          /\ \A i \in 1 .. Len(T[h]) : i <= k <=> T[h][i] \in D

LEMMA Pop ==
    ASSUME NEW S, NEW H, NEW L, NEW T, NEW c, TableOK(S, H, L, T, c), c > 0,
           NEW D, NEW p, Belong(S, H, L, c, D, p),
           NEW S2, NEW H2, NEW L2, NEW T2, Without(S, H, L, T, c, D, p, S2, H2, L2, T2)
    PROVE  /\ TableOK(S2, H2, L2, T2, c - 1)
           /\ \A s : LinkedIn(T2, s) <=> LinkedIn(T, s) /\ s \notin D
           /\ \A s, d : Means(S, H, L, T, s, d) /\ s \notin D => Means(S2, H2, L2, T2, s, d)
<1>0. /\ \A s : s \in D <=> (s \in Range(H) /\ S[s].ctx = c) \/ (c = 1 /\ s \in Range(L))
      /\ p \in 0 .. Len(H) /\ \A j \in 1 .. Len(H) : j <= p <=> S[H[j]].ctx = c
      /\ S2 = [s \in DOMAIN S \ D |-> S[s]]
      /\ H2 = SubSeq(H, p + 1, Len(H)) /\ L2 = IF c = 1 THEN << >> ELSE L
      /\ T2 \in [Place -> Seq(Ptr)]
      /\ \A h \in Place : \E k \in 0 .. Len(T[h]) :
            /\ T2[h] = SubSeq(T[h], k + 1, Len(T[h]))
            /\ \A i \in 1 .. Len(T[h]) : i <= k <=> T[h][i] \in D
  BY DEF Belong, Without
<1> USE <1>0
<1>1. TableTypes(S, H, L, T, c) /\ Lists(S, H, L, c) /\ Collisions(S, H, L, T) /\ Once(S, T)
  BY DEF TableOK
<1>2. /\ S \in [DOMAIN S -> SymbolRecord] /\ DOMAIN S \subseteq Ptr
      /\ H \in Seq(Ptr) /\ L \in Seq(Ptr) /\ T \in [Place -> Seq(Ptr)] /\ c \in Nat
  BY <1>1 DEF TableTypes
<1>3. /\ Range(H) \cup Range(L) = DOMAIN S
      /\ \A s \in Range(L) : S[s].ns = "LABEL"
      /\ \A s \in Range(H) : S[s].ns # "LABEL" /\ S[s].ctx <= c
      /\ \A s \in Ptr : ~Before(H, s, s) /\ ~Before(L, s, s)
      /\ \A s, u \in Ptr : Before(H, s, u) => S[u].ctx <= S[s].ctx
      /\ \A s \in DOMAIN S : S[s].const => S[s].ns = "IDEN"
  BY <1>1 DEF Lists
<1>4. /\ \A s : s \in Range(H) <=> \E j \in 1 .. Len(H) : H[j] = s
      /\ Len(H) \in Nat /\ DOMAIN H = 1 .. Len(H) /\ p \in Nat /\ p <= Len(H)
  BY <1>2, SeqRange
<1>5. /\ H2 \in Seq(Ptr) /\ Len(H2) = Len(H) - p /\ \A j \in 1 .. Len(H) - p : H2[j] = H[j + p]
      /\ \A s : s \in Range(H2) <=> \E k \in p + 1 .. Len(H) : H[k] = s
  <2>1. H2 \in Seq(Ptr) /\ Len(H2) = Len(H) - p /\ \A j \in 1 .. Len(H) - p : H2[j] = H[j + p]
    BY <1>2, Dropped
  <2>2. \A s : s \in Range(H2) <=> \E k \in p + 1 .. Len(H) : H[k] = s
    <3>1. H \in Seq(Ptr) /\ H2 = SubSeq(H, p + 1, Len(H)) /\ p \in 0 .. Len(H)
      BY <1>2
    <3>2. \A q \in 0 .. Len(H) : Range(SubSeq(H, q + 1, Len(H))) = {H[k] : k \in q + 1 .. Len(H)}
      BY <3>1, DroppedRange
    <3>3. Range(H2) = {H[k] : k \in p + 1 .. Len(H)}
      BY <3>1, <3>2
    <3> QED BY <3>3
  <2> QED BY <2>1, <2>2
<1>6. DOMAIN H2 = 1 .. Len(H) - p
  BY <1>2, Dropped
<1>7. \A s \in Range(H) : s \in D <=> S[s].ctx = c
  BY <1>2, <1>3
<1>8. \A s : s \in Range(H2) <=> s \in Range(H) /\ s \notin D
  <2> TAKE s
  <2>1. ASSUME s \in Range(H2) PROVE s \in Range(H) /\ s \notin D
    <3>1. PICK k \in p + 1 .. Len(H) : H[k] = s
      BY <1>5, <2>1
    <3>2. k \in 1 .. Len(H) /\ ~(k <= p)
      BY <1>4
    <3> QED BY <1>4, <1>7, <3>1, <3>2
  <2>2. ASSUME s \in Range(H), s \notin D PROVE s \in Range(H2)
    <3>1. PICK k \in 1 .. Len(H) : H[k] = s
      BY <1>4, <2>2
    <3>2. ~(k <= p)
      BY <1>7, <2>2, <3>1
    <3>3. k \in p + 1 .. Len(H)
      BY <1>4, <3>2
    <3> QED BY <1>5, <3>1, <3>3
  <2> QED BY <2>1, <2>2
<1>9. \A s, u : Before(H2, s, u) => Before(H, s, u)
  <2> SUFFICES ASSUME NEW s, NEW u, Before(H2, s, u) PROVE Before(H, s, u)
    OBVIOUS
  <2>1. PICK j \in 1 .. Len(H) - p, k \in 1 .. Len(H) - p : j < k /\ H2[j] = s /\ H2[k] = u
    <3>1. PICK j \in DOMAIN H2, k \in DOMAIN H2 : j < k /\ H2[j] = s /\ H2[k] = u
      BY DEF Before
    <3> QED BY <1>6, <3>1
  <2>2. j + p \in 1 .. Len(H) /\ k + p \in 1 .. Len(H) /\ j + p < k + p
    BY <1>4, <2>1
  <2>3. H[j + p] = s /\ H[k + p] = u
    BY <1>5, <2>1
  <2> QED BY <1>4, <2>2, <2>3 DEF Before
<1>10. \A s, u : Before(H, s, u) /\ s \notin D => Before(H2, s, u)
  <2> SUFFICES ASSUME NEW s, NEW u, Before(H, s, u), s \notin D PROVE Before(H2, s, u)
    OBVIOUS
  <2>1. PICK j \in 1 .. Len(H), k \in 1 .. Len(H) : j < k /\ H[j] = s /\ H[k] = u
    BY <1>4 DEF Before
  <2>2. ~(j <= p)
    BY <1>4, <1>7, <2>1
  <2>3. /\ j - p \in 1 .. Len(H) - p /\ k - p \in 1 .. Len(H) - p /\ j - p < k - p
        /\ (j - p) + p = j /\ (k - p) + p = k
    BY <1>4, <2>1, <2>2
  <2>4. H2[j - p] = s /\ H2[k - p] = u
    BY <1>5, <2>1, <2>3
  <2> QED BY <1>6, <2>3, <2>4 DEF Before
<1>11. /\ L2 \in Seq(Ptr) /\ \A s : s \in Range(L2) <=> s \in Range(L) /\ s \notin D
       /\ \A s, u : Before(L2, s, u) => Before(L, s, u)
       /\ \A s, u : Before(L, s, u) /\ s \notin D => Before(L2, s, u)
  <2>1. CASE c = 1
    <3>1. L2 = << >>
      BY <2>1
    <3>2. L2 \in Seq(Ptr) /\ Len(L2) = 0
      BY <3>1, EmptySeq
    <3>3. Range(L2) = {}
      <4>1. \A s : s \in Range(L2) <=> \E j \in 1 .. Len(L2) : L2[j] = s
        BY <3>2, SeqRange
      <4>2. \A j \in 1 .. 0 : FALSE
        OBVIOUS
      <4> QED BY <3>2, <4>1, <4>2
    <3>4. \A s, u : Before(L, s, u) => s \in Range(L)
      BY BeforeRange
    <3>5. \A s, u : ~Before(L2, s, u)
      BY <3>3, BeforeRange
    <3> QED BY <2>1, <3>2, <3>3, <3>4, <3>5
  <2>2. CASE c # 1
    <3>1. L2 = L
      BY <2>2
    <3>2. \A s \in Range(L) : s \notin D
      BY <1>3, <2>2
    <3> QED BY <1>2, <3>1, <3>2
  <2> QED BY <2>1, <2>2
<1>12. DOMAIN S2 = DOMAIN S \ D /\ \A s \in DOMAIN S \ D : S2[s] = S[s]
  OBVIOUS
<1>13. c - 1 \in Nat /\ S2 \in [DOMAIN S2 -> SymbolRecord] /\ DOMAIN S2 \subseteq Ptr
  BY <1>2, <1>12
<1>14. TableTypes(S2, H2, L2, T2, c - 1)
  BY <1>5, <1>11, <1>13 DEF TableTypes
<1>15. Lists(S2, H2, L2, c - 1)
  <2>1. Range(H2) \cup Range(L2) = DOMAIN S2
    BY <1>3, <1>8, <1>11, <1>12
  <2>2. \A s \in Range(L2) : S2[s].ns = "LABEL"
    BY <1>3, <1>11, <1>12
  <2>3. ASSUME NEW s \in Range(H2) PROVE S2[s].ns # "LABEL" /\ S2[s].ctx <= c - 1
    <3>1. s \in Range(H) /\ s \in DOMAIN S /\ s \notin D /\ S2[s] = S[s]
      BY <1>3, <1>8, <1>12
    <3>2. S[s].ctx \in Nat /\ S[s].ctx # c /\ S[s].ctx <= c
      BY <1>2, <1>3, <1>7, <3>1 DEF SymbolRecord
    <3> QED BY <1>2, <1>3, <3>1, <3>2
  <2>4. \A s \in Ptr : ~Before(H2, s, s) /\ ~Before(L2, s, s)
    BY <1>3, <1>9, <1>11
  <2>5. \A s, u \in Ptr : Before(H2, s, u) => S2[u].ctx <= S2[s].ctx
    BY <1>3, <1>8, <1>9, <1>12, BeforeRange
  <2>6. \A s \in DOMAIN S2 : S2[s].const => S2[s].ns = "IDEN"
    BY <1>3, <1>12
  <2> QED BY <2>1, <2>2, <2>3, <2>4, <2>5, <2>6 DEF Lists
<1>16. ASSUME NEW h \in Place
       PROVE  /\ \A s : s \in Range(T2[h]) <=> s \in Range(T[h]) /\ s \notin D
              /\ \A j, k \in DOMAIN T2[h] : j < k =>
                    Before(H2, T2[h][j], T2[h][k]) \/ Before(L2, T2[h][j], T2[h][k])
  <2>1. PICK k \in 0 .. Len(T[h]) : /\ T2[h] = SubSeq(T[h], k + 1, Len(T[h]))
                                    /\ \A i \in 1 .. Len(T[h]) : i <= k <=> T[h][i] \in D
    OBVIOUS
  <2>2. T[h] \in Seq(Ptr) /\ Len(T[h]) \in Nat /\ DOMAIN T[h] = 1 .. Len(T[h])
    BY <1>2, SeqRange
  <2>3. /\ T2[h] \in Seq(Ptr) /\ Len(T2[h]) = Len(T[h]) - k
        /\ \A j \in 1 .. Len(T[h]) - k : T2[h][j] = T[h][j + k]
        /\ \A s : s \in Range(T2[h]) <=> \E i \in k + 1 .. Len(T[h]) : T[h][i] = s
    <3>1. /\ T2[h] \in Seq(Ptr) /\ Len(T2[h]) = Len(T[h]) - k
          /\ \A j \in 1 .. Len(T[h]) - k : T2[h][j] = T[h][j + k]
      BY <2>1, <2>2, Dropped
    <3>2. \A s : s \in Range(T2[h]) <=> \E i \in k + 1 .. Len(T[h]) : T[h][i] = s
      <4>1. Range(T2[h]) = {T[h][i] : i \in k + 1 .. Len(T[h])}
        BY <2>1, <2>2, DroppedRange
      <4> QED BY <4>1
    <3> QED BY <3>1, <3>2
  <2>4. DOMAIN T2[h] = 1 .. Len(T[h]) - k
    BY <2>1, <2>2, Dropped
  <2>5. \A i \in 1 .. Len(T[h]) : i \in k + 1 .. Len(T[h]) <=> T[h][i] \notin D
    BY <2>1, <2>2
  <2>6. \A i \in k + 1 .. Len(T[h]) : i \in 1 .. Len(T[h])
    BY <2>2
  <2>7. \A s : s \in Range(T[h]) <=> \E i \in 1 .. Len(T[h]) : T[h][i] = s
    BY <2>2, SeqRange
  <2>8. \A s : s \in Range(T2[h]) <=> s \in Range(T[h]) /\ s \notin D
    <3> TAKE s
    <3>1. ASSUME s \in Range(T2[h]) PROVE s \in Range(T[h]) /\ s \notin D
      <4>1. PICK i \in k + 1 .. Len(T[h]) : T[h][i] = s
        BY <2>3, <3>1
      <4> QED BY <2>5, <2>6, <2>7, <4>1
    <3>2. ASSUME s \in Range(T[h]), s \notin D PROVE s \in Range(T2[h])
      <4>1. PICK i \in 1 .. Len(T[h]) : T[h][i] = s
        BY <2>7, <3>2
      <4>2. i \in k + 1 .. Len(T[h])
        BY <2>5, <3>2, <4>1
      <4> QED BY <2>3, <4>1, <4>2
    <3> QED BY <3>1, <3>2
  <2>9. ASSUME NEW i \in DOMAIN T2[h], NEW j \in DOMAIN T2[h], i < j
        PROVE  Before(H2, T2[h][i], T2[h][j]) \/ Before(L2, T2[h][i], T2[h][j])
    <3>1. /\ i + k \in 1 .. Len(T[h]) /\ j + k \in 1 .. Len(T[h]) /\ i + k < j + k
          /\ i + k \in k + 1 .. Len(T[h])
      <4>1. i \in 1 .. Len(T[h]) - k /\ j \in 1 .. Len(T[h]) - k /\ k \in Nat
        BY <2>2, <2>4
      <4> DEFINE n == Len(T[h])
      <4>2. n \in Nat /\ i \in 1 .. n - k /\ j \in 1 .. n - k
        BY <2>2, <4>1
      <4> HIDE DEF n
      <4>3. i + k \in 1 .. n /\ j + k \in 1 .. n /\ i + k < j + k /\ i + k \in k + 1 .. n
        BY <2>9, <4>1, <4>2
      <4> QED BY <4>3 DEF n
    <3>2. T2[h][i] = T[h][i + k] /\ T2[h][j] = T[h][j + k] /\ T[h][i + k] \notin D
      BY <2>3, <2>4, <2>5, <3>1
    <3>3. Before(H, T[h][i + k], T[h][j + k]) \/ Before(L, T[h][i + k], T[h][j + k])
      BY <1>1, <2>2, <3>1 DEF Collisions
    <3> QED BY <1>10, <1>11, <3>2, <3>3
  <2> QED BY <2>8, <2>9
<1>17. \A s : LinkedIn(T2, s) <=> LinkedIn(T, s) /\ s \notin D
  BY <1>16 DEF LinkedIn
<1>18. Collisions(S2, H2, L2, T2)
  BY <1>1, <1>12, <1>16 DEF Collisions
<1>19. Once(S2, T2)
  BY <1>1, <1>12, <1>17 DEF Once
<1>20. ASSUME NEW s, NEW d, Means(S, H, L, T, s, d), s \notin D PROVE Means(S2, H2, L2, T2, s, d)
  <2>1. /\ s \in DOMAIN S /\ S[s].name \in Name
        /\ LinkedIn(T, s) \/ (S[s].ctx = d /\ Fresh(H, L, T, s))
        /\ \A u \in DOMAIN S \ {s} : LinkedIn(T, u) /\ S[u].ns = S[s].ns /\ S[u].name = S[s].name =>
              LinkedIn(T, s) /\ S[u].ctx < S[s].ctx
    BY <1>20 DEF Means
  <2>2. Fresh(H, L, T, s) => Fresh(H2, L2, T2, s)
    BY <1>9, <1>11, <1>17 DEF Fresh
  <2> QED BY <1>12, <1>17, <1>20, <2>1, <2>2 DEF Means
<1> QED BY <1>14, <1>15, <1>17, <1>18, <1>19, <1>20 DEF TableOK
-----------------------------------------------------------------------------
(* install() and its callers.                                              *)

\* r with the flags of its declaration
Mark(r, declared, const) == [r EXCEPT !.declared = declared, !.const = const]

LEMMA Marked ==
    ASSUME NEW r \in SymbolRecord, NEW declared \in BOOLEAN, NEW const \in BOOLEAN,
           NEW q, q = Mark(r, declared, const)
    PROVE  /\ q \in SymbolRecord /\ q.name = r.name /\ q.ns = r.ns /\ q.ctx = r.ctx
           /\ q.declared = declared /\ q.const = const
<1>1. q.name = r.name /\ q.ns = r.ns /\ q.ctx = r.ctx /\ q.declared = declared /\ q.const = const
  BY DEF SymbolRecord, Mark
<1>2. q \in SymbolRecord
  BY DEF SymbolRecord, Mark
<1> QED BY <1>1, <1>2

\* The symbols S1 and the lists H1 and L1 are those of the state, or have t in
\* addition.
LEMMA Linking ==
    ASSUME NEW S1, NEW H1, NEW L1, TableOK(S1, H1, L1, htab, curctx), Running,
           NEW t \in Ptr, NEW r, DOMAIN S1 = Live \cup {t}, S1[t] = r, \A x \in Live \ {t} : S1[x] = sym[x],
           r.name \in Name, Fresh(H1, L1, htab, t),
           \A u \in DOMAIN S1 : LinkedIn(htab, u) /\ S1[u].ns = r.ns /\ S1[u].name = r.name =>
               r.ns # "LABEL" /\ S1[u].ctx # r.ctx,
           NEW declared \in BOOLEAN, NEW const \in BOOLEAN, const => r.ns = "IDEN",
           linkhash(t, r, declared, const)
    PROVE  /\ TableOK(sym', H1, L1, htab', curctx) /\ stopped' = stopped
           /\ DOMAIN sym' = Live \cup {t} /\ \A x \in Live \ {t} : sym'[x] = sym[x]
           /\ sym'[t].ns = r.ns /\ sym'[t].name = r.name /\ sym'[t].ctx = r.ctx
           /\ sym'[t].declared = declared
           /\ \A x : LinkedIn(htab', x) <=> LinkedIn(htab, x) \/ x = t
           /\ r.ns = "LABEL" => \A x, d : Means(S1, H1, L1, htab, x, d) /\ S1[x].ns # "LABEL" =>
                                             Means(sym', H1, L1, htab', x, d)
<1> DEFINE q == Mark(r, declared, const)
           T2 == InFront(htab, hash(r.name, r.ns), t)
<1>1. S1 \in [DOMAIN S1 -> SymbolRecord] /\ r \in SymbolRecord
  BY DEF TableOK, TableTypes
<1>2. /\ q \in SymbolRecord /\ q.name = r.name /\ q.ns = r.ns /\ q.ctx = r.ctx
      /\ q.declared = declared /\ q.const = const
  <2>1. q = Mark(r, declared, const)
    OBVIOUS
  <2> HIDE DEF q
  <2> QED BY <1>1, <2>1, Marked
<1>3. /\ stopped' = IF t \in Range(htab[hash(r.name, r.ns)]) THEN "cycle" ELSE stopped
      /\ htab' = T2 /\ sym' = Put(sym, t, q)
  BY DEF linkhash, LinkFirst, Mark, InFront
<1>4. hash(r.name, r.ns) \in Place
  BY <1>1, HashType DEF SymbolRecord
<1>5. stopped' = stopped
  BY <1>3, <1>4 DEF Fresh, LinkedIn
<1>6. DOMAIN sym' = Live \cup {t} /\ sym'[t] = q /\ \A x \in Live \ {t} : sym'[x] = sym[x]
  BY <1>3 DEF Put, Live
<1> HIDE DEF q
<1>7. TableOK(S1, H1, L1, T2, curctx) /\ \A x : LinkedIn(T2, x) <=> LinkedIn(htab, x) \/ x = t
  <2>1. t \in DOMAIN S1 /\ S1[t].name \in Name /\ T2 = InFront(htab, hash(S1[t].name, S1[t].ns), t)
    OBVIOUS
  <2>2. \A u \in DOMAIN S1 : LinkedIn(htab, u) /\ S1[u].ns = S1[t].ns /\ S1[u].name = S1[t].name =>
            S1[t].ns # "LABEL" /\ S1[u].ctx # S1[t].ctx
    OBVIOUS
  <2> HIDE DEF T2
  <2>3. TableOK(S1, H1, L1, htab, curctx) /\ Fresh(H1, L1, htab, t)
    OBVIOUS
  <2> QED BY <2>1, <2>2, <2>3, Link
<1> HIDE DEF T2
<1>8. \A x \in DOMAIN S1 : S1[x].const => S1[x].ns = "IDEN"
  BY DEF TableOK, Lists
<1>9. sym' \in [DOMAIN S1 -> SymbolRecord]
  <2>1. sym' = [x \in DOMAIN S1 |-> sym'[x]]
    BY <1>3 DEF Put, Live
  <2>2. \A x \in DOMAIN S1 : sym'[x] \in SymbolRecord
    BY <1>1, <1>2, <1>6
  <2> QED BY <2>1, <2>2
<1>10. ASSUME NEW x \in DOMAIN S1
       PROVE  /\ sym'[x].name = S1[x].name /\ sym'[x].ns = S1[x].ns /\ sym'[x].ctx = S1[x].ctx
              /\ sym'[x].const => sym'[x].ns = "IDEN"
  <2>1. CASE x = t
    BY <1>2, <1>6, <2>1
  <2>2. CASE x # t
    BY <1>6, <1>8, <2>2
  <2> QED BY <2>1, <2>2
<1>11. /\ TableOK(sym', H1, L1, T2, curctx)
       /\ \A x, d : Means(S1, H1, L1, T2, x, d) => Means(sym', H1, L1, T2, x, d)
  BY <1>7, <1>9, <1>10, Flags
<1>12. ASSUME r.ns = "LABEL", NEW x, NEW d, Means(S1, H1, L1, htab, x, d), S1[x].ns # "LABEL"
       PROVE  Means(S1, H1, L1, T2, x, d)
  <2>1. /\ x \in DOMAIN S1 /\ S1[x].name \in Name
        /\ LinkedIn(htab, x) \/ (S1[x].ctx = d /\ Fresh(H1, L1, htab, x))
        /\ \A u \in DOMAIN S1 \ {x} : LinkedIn(htab, u) /\ S1[u].ns = S1[x].ns /\ S1[u].name = S1[x].name =>
              LinkedIn(htab, x) /\ S1[u].ctx < S1[x].ctx
    BY <1>12 DEF Means
  <2>2. x \notin Range(L1) /\ t \notin Range(H1)
    BY <1>12 DEF TableOK, Lists
  <2>3. Fresh(H1, L1, htab, x) => Fresh(H1, L1, T2, x)
    BY <1>7, <1>12, <2>2, BeforeRange DEF Fresh
  <2> QED BY <1>7, <1>12, <2>1, <2>3 DEF Means
<1> QED BY <1>2, <1>3, <1>5, <1>6, <1>7, <1>11, <1>12

\* A new symbol that is linked at once.
LEMMA NewLinked ==
    ASSUME TableOK(sym, head, labels, htab, curctx), Running,
           NEW t \in Free, NEW ns \in Namespace, NEW name \in Name,
           \A u \in Live : LinkedIn(htab, u) /\ sym[u].ns = ns /\ sym[u].name = name =>
               ns # "LABEL" /\ sym[u].ctx # curctx,
           NEW declared \in BOOLEAN, NEW const \in BOOLEAN, const => ns = "IDEN",
           linkhash(t, Symbol(ns, name, curctx), declared, const), Enlist(t, ns)
    PROVE  /\ TableOK(sym', head', labels', htab', curctx) /\ stopped' = stopped
           /\ t \in Ptr /\ t \notin Live /\ ~LinkedIn(htab, t)
           /\ DOMAIN sym' = Live \cup {t} /\ \A x \in Live \ {t} : sym'[x] = sym[x]
           /\ sym'[t].ns = ns /\ sym'[t].name = name /\ sym'[t].ctx = curctx /\ sym'[t].declared = declared
           /\ \A x : LinkedIn(htab', x) <=> LinkedIn(htab, x) \/ x = t
           /\ ns = "LABEL" => \A x, d : Means(sym, head, labels, htab, x, d) /\ sym[x].ns # "LABEL" =>
                                           Means(sym', head', labels', htab', x, d)
<1> DEFINE r == Symbol(ns, name, curctx)
           S1 == Put(sym, t, r)
<1>1. curctx \in Nat /\ t \in Ptr /\ t \notin Live
  BY DEF TableOK, TableTypes, Free
<1>2. r \in SymbolRecord /\ r.ns = ns /\ r.name = name /\ r.ctx = curctx /\ r.const = FALSE
  BY <1>1 DEF Symbol, SymbolRecord
<1>3. linkhash(t, r, declared, const)
  OBVIOUS
<1>4. S1 = Put(sym, t, r) /\ DOMAIN S1 = Live \cup {t} /\ S1[t] = r /\ \A x \in Live \ {t} : S1[x] = sym[x]
  BY DEF Put, Live
<1> HIDE DEF r, S1
<1>5. IF r.ns = "LABEL" THEN labels' = <<t>> \o labels /\ head' = head
      ELSE head' = <<t>> \o head /\ labels' = labels
  BY <1>2 DEF Enlist
<1>6. /\ TableOK(S1, head', labels', htab, curctx) /\ Fresh(head', labels', htab, t)
      /\ \A s, d : Means(sym, head, labels, htab, s, d) => Means(S1, head', labels', htab, s, d)
  BY <1>1, <1>2, <1>4, <1>5, Allocate DEF Live
<1>7. ~LinkedIn(htab, t)
  BY <1>6 DEF Fresh
<1>8. \A u \in DOMAIN S1 : LinkedIn(htab, u) /\ S1[u].ns = r.ns /\ S1[u].name = r.name =>
          r.ns # "LABEL" /\ S1[u].ctx # r.ctx
  BY <1>2, <1>4, <1>7
<1>9. /\ TableOK(sym', head', labels', htab', curctx) /\ stopped' = stopped
      /\ DOMAIN sym' = Live \cup {t} /\ \A x \in Live \ {t} : sym'[x] = sym[x]
      /\ sym'[t].ns = r.ns /\ sym'[t].name = r.name /\ sym'[t].ctx = r.ctx
      /\ sym'[t].declared = declared
      /\ \A x : LinkedIn(htab', x) <=> LinkedIn(htab, x) \/ x = t
      /\ r.ns = "LABEL" => \A x, d : Means(S1, head', labels', htab, x, d) /\ S1[x].ns # "LABEL" =>
                                        Means(sym', head', labels', htab', x, d)
  BY <1>1, <1>2, <1>3, <1>4, <1>6, <1>8, Linking
<1>10. \A x, d : Means(sym, head, labels, htab, x, d) => x \in Live /\ x # t /\ S1[x] = sym[x]
  BY <1>1, <1>4 DEF Means, Live
<1> QED BY <1>1, <1>2, <1>6, <1>7, <1>9, <1>10
\* What an install() comes to: t is linked, and declares name in the context.
Installs(ns, name, t, declared) ==
    /\ TableOK(sym', head', labels', htab', curctx) /\ stopped' = stopped
    /\ ns \in Namespace /\ name \in Name /\ t \in Ptr /\ ~LinkedIn(htab, t)
    /\ DOMAIN sym' = Live \cup {t} /\ \A x \in Live \ {t} : sym'[x] = sym[x]
    /\ \A x \in Live : sym'[x].ns = sym[x].ns /\ sym'[x].name = sym[x].name /\ sym'[x].ctx = sym[x].ctx
    /\ sym'[t].ns = ns /\ sym'[t].name = name /\ sym'[t].ctx = curctx /\ sym'[t].declared = declared
    /\ \A x : LinkedIn(htab', x) <=> LinkedIn(htab, x) \/ x = t
    /\ ns = "LABEL" => \A x, d : Means(sym, head, labels, htab, x, d) /\ sym[x].ns # "LABEL" =>
                                    Means(sym', head', labels', htab', x, d)
    /\ \A u \in Live : LinkedIn(htab, u) /\ sym[u].ns = ns /\ sym[u].name = name => sym[u].ctx # curctx

LEMMA LinkedSame ==
    ASSUME TableOK(sym, head, labels, htab, curctx), NEW s
    PROVE  Linked(s) <=> LinkedIn(htab, s)
<1>1. DOMAIN htab = Place
  BY DEF TableOK, TableTypes
<1> QED BY <1>1 DEF Linked, LinkedIn

LEMMA NewInstalled ==
    ASSUME TableOK(sym, head, labels, htab, curctx), Running,
           NEW t \in Free, NEW ns \in Namespace, NEW name \in Name,
           \A u \in Live : LinkedIn(htab, u) /\ sym[u].ns = ns /\ sym[u].name = name =>
               ns # "LABEL" /\ sym[u].ctx # curctx,
           NEW declared \in BOOLEAN, NEW const \in BOOLEAN, const => ns = "IDEN",
           linkhash(t, Symbol(ns, name, curctx), declared, const), Enlist(t, ns)
    PROVE  Installs(ns, name, t, declared)
<1>1. /\ TableOK(sym', head', labels', htab', curctx) /\ stopped' = stopped
      /\ t \in Ptr /\ t \notin Live /\ ~LinkedIn(htab, t)
      /\ DOMAIN sym' = Live \cup {t} /\ \A x \in Live \ {t} : sym'[x] = sym[x]
      /\ sym'[t].ns = ns /\ sym'[t].name = name /\ sym'[t].ctx = curctx /\ sym'[t].declared = declared
      /\ \A x : LinkedIn(htab', x) <=> LinkedIn(htab, x) \/ x = t
      /\ ns = "LABEL" => \A x, d : Means(sym, head, labels, htab, x, d) /\ sym[x].ns # "LABEL" =>
                                      Means(sym', head', labels', htab', x, d)
  BY NewLinked
<1> QED BY <1>1 DEF Installs

\* install() for the symbol of a name that means s.
LEMMA Installed ==
    ASSUME Inv, Plain, Running, NEW s, Means(sym, head, labels, htab, s, curctx),
           NEW ns, ns = sym[s].ns, ns = "LABEL" => ~sym[s].declared,
           NEW t, NEW declared \in BOOLEAN, NEW const \in BOOLEAN, const => ns = "IDEN",
           Install(ns, s, t, declared, const)
    PROVE  Installs(ns, sym[s].name, t, declared)
<1> DEFINE name == sym[s].name
<1>1. TableOK(sym, head, labels, htab, curctx) /\ Pending /\ Unfinished
  BY DEF Inv
<1>2. /\ s \in Live /\ name \in Name
      /\ LinkedIn(htab, s) \/ (sym[s].ctx = curctx /\ Fresh(head, labels, htab, s))
      /\ \A u \in Live \ {s} : LinkedIn(htab, u) /\ sym[u].ns = sym[s].ns /\ sym[u].name = sym[s].name =>
            LinkedIn(htab, s) /\ sym[u].ctx < sym[s].ctx
  BY DEF Means, Live
<1>3. /\ sym \in [Live -> SymbolRecord] /\ Live \subseteq Ptr /\ curctx \in Nat
      /\ \A u \in Live : sym[u].ns \in Namespace /\ sym[u].ctx \in Nat
  BY <1>1 DEF TableOK, TableTypes, SymbolRecord, Live
<1>4. /\ ~(sym[s].declared /\ sym[s].ctx = curctx)
      /\ Unused(s) => ~LinkedIn(htab, s)
  BY <1>1, LinkedSame DEF Install, AlreadyHere, Plain
<1>5. sym[s].declared => LinkedIn(htab, s)
  BY <1>1, <1>2 DEF Pending
<1>6. CASE Unused(s)
  <2>1. t = s /\ linkhash(t, sym[s], declared, const) /\ head' = head /\ labels' = labels
    BY <1>6 DEF Install
  <2>2. ~LinkedIn(htab, s) /\ sym[s].ctx = curctx /\ Fresh(head, labels, htab, s)
    BY <1>2, <1>4, <1>6
  <2>3. \A u \in Live : LinkedIn(htab, u) /\ sym[u].ns = sym[s].ns /\ sym[u].name = sym[s].name => FALSE
    BY <1>2, <2>2
  <2>4. PICK S1 : S1 = sym
    OBVIOUS
  <2>5. PICK r : r = sym[s]
    OBVIOUS
  <2>6. /\ DOMAIN S1 = Live \cup {s} /\ s \in Ptr /\ S1[s] = r /\ \A x \in Live \ {s} : S1[x] = sym[x]
        /\ r.name \in Name /\ linkhash(s, r, declared, const) /\ (const => r.ns = "IDEN")
    BY <1>2, <1>3, <2>1, <2>4, <2>5 DEF Live
  <2>7. \A u \in DOMAIN S1 : LinkedIn(htab, u) /\ S1[u].ns = r.ns /\ S1[u].name = r.name =>
               r.ns # "LABEL" /\ S1[u].ctx # r.ctx
    BY <2>3, <2>4, <2>5 DEF Live
  <2>8. r.ns = ns /\ r.name = name /\ r.ctx = curctx
    BY <2>2, <2>5
  <2>9. TableOK(S1, head, labels, htab, curctx)
    BY <1>1, <2>4
  <2>10. /\ TableOK(sym', head, labels, htab', curctx) /\ stopped' = stopped
         /\ DOMAIN sym' = Live \cup {s} /\ \A x \in Live \ {s} : sym'[x] = sym[x]
         /\ sym'[s].ns = r.ns /\ sym'[s].name = r.name /\ sym'[s].ctx = r.ctx
         /\ sym'[s].declared = declared
         /\ \A x : LinkedIn(htab', x) <=> LinkedIn(htab, x) \/ x = s
         /\ r.ns = "LABEL" => \A x, d : Means(S1, head, labels, htab, x, d) /\ S1[x].ns # "LABEL" =>
                                           Means(sym', head, labels, htab', x, d)
    BY <2>2, <2>6, <2>7, <2>9, Linking
  <2> QED BY <1>2, <1>3, <2>1, <2>2, <2>3, <2>4, <2>6, <2>8, <2>10 DEF Installs
<1>7. CASE ~Unused(s)
  <2>1. t \in Free /\ linkhash(t, Symbol(ns, name, curctx), declared, const) /\ Enlist(t, ns)
    BY <1>7 DEF Install
  <2>2. LinkedIn(htab, s)
    BY <1>2, <1>5, <1>7 DEF Unused
  <2>3. ns # "LABEL"
    <3> SUFFICES ASSUME ns = "LABEL" PROVE FALSE
      OBVIOUS
    <3>1. \E j \in DOMAIN open : open[j].kind = "dcl" /\ open[j].sym = s
      BY <1>1, <1>2, <2>2 DEF Pending
    <3> QED BY <1>1, <3>1 DEF Unfinished
  <2>4. sym[s].ctx < curctx
    <3>1. sym[s].ctx # curctx
      BY <1>4, <1>7 DEF Unused
    <3>2. sym[s].ctx <= curctx
      BY <1>1, <1>2, <2>3 DEF TableOK, Lists, Live
    <3> QED BY <1>2, <1>3, <3>1, <3>2
  <2>5. \A u \in Live : LinkedIn(htab, u) /\ sym[u].ns = ns /\ sym[u].name = name =>
            ns # "LABEL" /\ sym[u].ctx # curctx
    <3> SUFFICES ASSUME NEW u \in Live, LinkedIn(htab, u), sym[u].ns = ns, sym[u].name = name
                 PROVE  sym[u].ctx # curctx
      BY <2>3
    <3>1. u = s \/ sym[u].ctx < sym[s].ctx
      BY <1>2
    <3> QED BY <1>2, <1>3, <2>4, <3>1
  <2>6. ns \in Namespace
    BY <1>2, <1>3
  <2> HIDE DEF name
  <2>7. Installs(ns, name, t, declared)
    BY <1>1, <1>2, <2>1, <2>5, <2>6, NewInstalled
  <2> QED BY <2>7 DEF name
<1> QED BY <1>6, <1>7
\* What a caller of install() may do to open: no declarator is lost, and an
\* enumerator stays only beside a label.
OpenAfter(ns, t, declared) ==
    /\ open' \in Seq(Declarand)
    /\ \A j \in DOMAIN open' :
          \/ \E k \in DOMAIN open : /\ open'[j] = open[k]
                                    /\ open[k].kind = "enum" => ns = "LABEL" /\ j = Len(open')
          \/ ns = "IDEN" /\ open'[j] = [kind |-> "dcl", sym |-> t, ctx |-> curctx]
    /\ \A k \in DOMAIN open : open[k].kind = "dcl" => \E j \in DOMAIN open' : open'[j] = open[k]
    /\ declared \/ \E j \in DOMAIN open' : open'[j].kind = "dcl" /\ open'[j].sym = t

LEMMA AfterInstall ==
    ASSUME Inv, Running, NEW ns, NEW name, NEW t, NEW declared \in BOOLEAN,
           Installs(ns, name, t, declared), OpenAfter(ns, t, declared), curctx' = curctx, tok' = Punct
    PROVE  Inv'
<1>1. TableOK(sym, head, labels, htab, curctx) /\ ParserTypes /\ Pending /\ Unfinished
  BY DEF Inv
<1>2. /\ TableOK(sym', head', labels', htab', curctx) /\ stopped' = stopped
      /\ t \in Ptr /\ ~LinkedIn(htab, t)
      /\ DOMAIN sym' = Live \cup {t} /\ \A x \in Live \ {t} : sym'[x] = sym[x]
      /\ \A x \in Live : sym'[x].ns = sym[x].ns /\ sym'[x].name = sym[x].name /\ sym'[x].ctx = sym[x].ctx
      /\ sym'[t].ns = ns /\ sym'[t].ctx = curctx /\ sym'[t].declared = declared
      /\ \A x : LinkedIn(htab', x) <=> LinkedIn(htab, x) \/ x = t
      /\ ns = "LABEL" => \A x, d : Means(sym, head, labels, htab, x, d) /\ sym[x].ns # "LABEL" =>
                                      Means(sym', head', labels', htab', x, d)
  BY DEF Installs
<1>3. TableOK(sym', head', labels', htab', curctx')
  BY <1>2
<1>4. ParserTypes'
  BY <1>1, <1>2 DEF ParserTypes, Running, OpenAfter
<1>5. Token'
  BY DEF Token, Punct
<1>6. Pending'
  <2> SUFFICES ASSUME NEW s \in Live'
               PROVE  /\ sym'[s].declared => LinkedIn(htab', s)
                      /\ LinkedIn(htab', s) /\ ~sym'[s].declared =>
                            \E j \in DOMAIN open' : open'[j].kind = "dcl" /\ open'[j].sym = s
    BY DEF Pending
  <2>1. CASE s = t
    BY <1>2, <2>1 DEF OpenAfter
  <2>2. CASE s # t
    <3>1. s \in Live /\ sym'[s] = sym[s] /\ (LinkedIn(htab', s) <=> LinkedIn(htab, s))
      BY <1>2, <2>2 DEF Live
    <3>2. sym[s].declared => LinkedIn(htab, s)
      BY <1>1, <3>1 DEF Pending
    <3>3. ASSUME LinkedIn(htab, s), ~sym[s].declared
          PROVE  \E j \in DOMAIN open' : open'[j].kind = "dcl" /\ open'[j].sym = s
      <4>1. PICK k \in DOMAIN open : open[k].kind = "dcl" /\ open[k].sym = s
        BY <1>1, <3>1, <3>3 DEF Pending
      <4> QED BY <4>1 DEF OpenAfter
    <3> QED BY <3>1, <3>2, <3>3
  <2> QED BY <2>1, <2>2
<1>7. Unfinished'
  <2> SUFFICES ASSUME NEW j \in DOMAIN open'
               PROVE  /\ open'[j].ctx <= curctx' /\ open'[j].sym \in Live' /\ sym'[open'[j].sym].ns = "IDEN"
                      /\ sym'[open'[j].sym].ctx <= open'[j].ctx
                      /\ open'[j].kind = "dcl" => LinkedIn(htab', open'[j].sym)
                      /\ open'[j].kind = "enum" =>
                            /\ j = Len(open')
                            /\ Means(sym', head', labels', htab', open'[j].sym, open'[j].ctx)
    BY DEF Unfinished
  <2>1. ASSUME NEW k \in DOMAIN open, open'[j] = open[k],
               open[k].kind = "enum" => ns = "LABEL" /\ j = Len(open')
        PROVE  /\ open'[j].ctx <= curctx' /\ open'[j].sym \in Live' /\ sym'[open'[j].sym].ns = "IDEN"
               /\ sym'[open'[j].sym].ctx <= open'[j].ctx
               /\ open'[j].kind = "dcl" => LinkedIn(htab', open'[j].sym)
               /\ open'[j].kind = "enum" =>
                     /\ j = Len(open')
                     /\ Means(sym', head', labels', htab', open'[j].sym, open'[j].ctx)
    <3>1. /\ open[k].ctx <= curctx /\ open[k].sym \in Live /\ sym[open[k].sym].ns = "IDEN"
          /\ sym[open[k].sym].ctx <= open[k].ctx
          /\ open[k].kind = "dcl" => LinkedIn(htab, open[k].sym)
          /\ open[k].kind = "enum" => Means(sym, head, labels, htab, open[k].sym, open[k].ctx)
      BY <1>1 DEF Unfinished
    <3>2. open[k].sym \in Live' /\ sym'[open[k].sym].ns = "IDEN" /\ sym'[open[k].sym].ctx = sym[open[k].sym].ctx
      BY <1>2, <3>1 DEF Live
    <3>3. open[k].kind = "enum" => Means(sym', head', labels', htab', open[k].sym, open[k].ctx)
      BY <1>2, <2>1, <3>1
    <3> QED BY <1>2, <2>1, <3>1, <3>2, <3>3
  <2>2. ASSUME ns = "IDEN", open'[j] = [kind |-> "dcl", sym |-> t, ctx |-> curctx]
        PROVE  /\ open'[j].ctx <= curctx' /\ open'[j].sym \in Live' /\ sym'[open'[j].sym].ns = "IDEN"
               /\ sym'[open'[j].sym].ctx <= open'[j].ctx
               /\ open'[j].kind = "dcl" => LinkedIn(htab', open'[j].sym)
               /\ open'[j].kind # "enum"
    <3>1. open'[j].kind = "dcl" /\ open'[j].sym = t /\ open'[j].ctx = curctx
      BY <2>2
    <3>2. curctx \in Nat
      BY <1>1 DEF TableOK, TableTypes
    <3> QED BY <1>2, <2>2, <3>1, <3>2 DEF Live
  <2> QED BY <2>1, <2>2 DEF OpenAfter
<1> QED BY <1>3, <1>4, <1>5, <1>6, <1>7 DEF Inv

\* The three ways in which a caller of install() leaves open.
LEMMA OpenSame ==
    ASSUME Inv, Running, NEW ns, NEW name, NEW t, Installs(ns, name, t, TRUE),
           ns # "LABEL" => ~InEnum, curctx' = curctx, tok' = Punct, open' = open
    PROVE  Inv'
<1>1. open \in Seq(Declarand)
  BY DEF Inv, ParserTypes
<1>2. \A k \in DOMAIN open : open[k].kind = "enum" => ns = "LABEL" /\ k = Len(open)
  BY DEF InEnum, Inv, Unfinished
<1>3. \A j \in DOMAIN open' :
         \E k \in DOMAIN open : /\ open'[j] = open[k]
                                /\ open[k].kind = "enum" => ns = "LABEL" /\ j = Len(open')
  BY <1>2
<1>4. OpenAfter(ns, t, TRUE)
  BY <1>1, <1>3 DEF OpenAfter
<1> QED BY <1>4, AfterInstall

LEMMA OpenMore ==
    ASSUME Inv, Running, NEW name, NEW t, NEW declared \in BOOLEAN,
           Installs("IDEN", name, t, declared), ~InEnum, curctx' = curctx, tok' = Punct,
           open' = Append(open, [kind |-> "dcl", sym |-> t, ctx |-> curctx])
    PROVE  Inv'
<1> DEFINE e == [kind |-> "dcl", sym |-> t, ctx |-> curctx]
<1>1. open \in Seq(Declarand) /\ DOMAIN open = 1 .. Len(open) /\ Len(open) \in Nat
  BY SeqRange DEF Inv, ParserTypes
<1>2. e \in Declarand /\ e.kind = "dcl" /\ e.sym = t
  BY DEF Inv, TableOK, TableTypes, Installs, Declarand
<1>3. open' = Append(open, e)
  OBVIOUS
<1>4. e = [kind |-> "dcl", sym |-> t, ctx |-> curctx]
  OBVIOUS
<1> HIDE DEF e
<1>5. /\ open' \in Seq(Declarand) /\ Len(open') = Len(open) + 1
      /\ \A i \in 1 .. Len(open) : open'[i] = open[i]
      /\ open'[Len(open) + 1] = e
  BY <1>1, <1>2, <1>3, AppendProperties
<1>6. DOMAIN open' = 1 .. Len(open) + 1
  BY <1>5, LenProperties
<1>7. \A k \in DOMAIN open : open[k].kind # "enum"
  BY DEF InEnum
<1>8. ASSUME NEW j \in DOMAIN open' PROVE j \in DOMAIN open \/ j = Len(open) + 1
  BY <1>1, <1>6
<1>9. \A j \in DOMAIN open' :
         \/ \E k \in DOMAIN open : /\ open'[j] = open[k]
                                   /\ open[k].kind = "enum" => "IDEN" = "LABEL" /\ j = Len(open')
         \/ "IDEN" = "IDEN" /\ open'[j] = [kind |-> "dcl", sym |-> t, ctx |-> curctx]
  BY <1>1, <1>4, <1>5, <1>7, <1>8
<1>10. \A k \in DOMAIN open : k \in DOMAIN open' /\ open'[k] = open[k]
  BY <1>1, <1>5, <1>6
<1>11. Len(open) + 1 \in DOMAIN open'
  BY <1>1, <1>6
<1>12. \E j \in DOMAIN open' : open'[j].kind = "dcl" /\ open'[j].sym = t
  BY <1>2, <1>5, <1>11
<1> QED
  <2>1. \A k \in DOMAIN open : open[k].kind = "dcl" => \E j \in DOMAIN open' : open'[j] = open[k]
    BY <1>10
  <2>2. OpenAfter("IDEN", t, declared)
    BY <1>5, <1>9, <1>12, <2>1 DEF OpenAfter
  <2> QED BY <2>2, AfterInstall

\* open without its last entry
LEMMA OpenFront ==
    ASSUME NEW o \in Seq(Declarand), o # << >>
    PROVE  /\ Front(o) \in Seq(Declarand) /\ Len(o) \in DOMAIN o /\ Len(Front(o)) = Len(o) - 1
           /\ \A j \in DOMAIN Front(o) : j \in DOMAIN o /\ j # Len(o) /\ Front(o)[j] = o[j]
           /\ \A j \in DOMAIN o : j # Len(o) => j \in DOMAIN Front(o)
<1>1. Len(o) \in Nat \ {0} /\ DOMAIN o = 1 .. Len(o)
  BY EmptySeq, LenProperties
<1> DEFINE m == Len(o)
           n == m - 1
           M == SubSeq(o, 1, n)
<1>8. m \in Nat \ {0} /\ m = Len(o)
  BY <1>1
<1> HIDE DEF m
<1>2. n \in 0 .. m /\ n \in Nat /\ m = n + 1
  BY <1>8
<1> HIDE DEF n
<1>3. M \in Seq(Declarand) /\ Len(M) = n /\ \A j \in 1 .. n : M[j] = o[j]
  BY <1>2, <1>8, TakeFacts
<1>4. Front(o) = M
  BY DEF Front, n, m
<1> HIDE DEF M
<1>5. DOMAIN M = 1 .. n
  BY <1>3, LenProperties
<1>6. (\A j \in 1 .. n : j \in 1 .. m /\ j # m) /\ \A j \in 1 .. m : j # m => j \in 1 .. n
  BY <1>2
<1>7. n = m - 1 /\ m \in 1 .. m
  BY <1>2
<1> QED BY <1>1, <1>8, <1>3, <1>4, <1>5, <1>6, <1>7
-----------------------------------------------------------------------------
(* Every action keeps the invariant.                                       *)

\* A step that leaves the table alone and only uses or skips the token.
LEMMA TokenUsed ==
    ASSUME Inv, tok' = Punct, UNCHANGED <<sym, head, labels, htab, curctx, open, stopped>>
    PROVE  Inv'
<1>1. TableOK(sym', head', labels', htab', curctx')
  BY DEF Inv
<1>2. ParserTypes'
  BY DEF Inv, ParserTypes, Running
<1>3. Pending'
  BY DEF Inv, Pending, Live
<1>4. Unfinished'
  BY DEF Inv, Unfinished, Live
<1>5. Token'
  BY DEF Token, Punct
<1> QED BY <1>1, <1>2, <1>3, <1>4, <1>5 DEF Inv

\* lookup() makes a symbol that is not declared.
LEMMA Allocated ==
    ASSUME Inv, NEW t \in Free, NEW ns \in Namespace, NEW name \in Name \cup {NoName},
           sym' = Put(sym, t, Symbol(ns, name, curctx)), Enlist(t, ns),
           UNCHANGED <<htab, curctx, open, stopped>>
    PROVE  /\ TableOK(sym', head', labels', htab', curctx') /\ Pending' /\ Unfinished'
           /\ Fresh(head', labels', htab', t) /\ ~LinkedIn(htab, t) /\ t \in Ptr
           /\ Live' = Live \cup {t} /\ t \notin Live /\ \A x \in Live : sym'[x] = sym[x]
           /\ sym'[t].ns = ns /\ sym'[t].name = name /\ sym'[t].ctx = curctx
<1> DEFINE r == Symbol(ns, name, curctx)
<1>1. /\ TableOK(sym, head, labels, htab, curctx) /\ Pending /\ Unfinished
      /\ curctx \in Nat /\ t \in Ptr /\ t \notin Live
  BY DEF Inv, TableOK, TableTypes, Free
<1>2. r \in SymbolRecord /\ r.ns = ns /\ r.name = name /\ r.ctx = curctx /\ r.const = FALSE /\ r.declared = FALSE
  BY <1>1 DEF Symbol, SymbolRecord
<1>3. sym' = Put(sym, t, r)
  OBVIOUS
<1> HIDE DEF r
<1>4. IF r.ns = "LABEL" THEN labels' = <<t>> \o labels /\ head' = head
      ELSE head' = <<t>> \o head /\ labels' = labels
  BY <1>2 DEF Enlist
<1>5. /\ TableOK(sym', head', labels', htab, curctx) /\ Fresh(head', labels', htab, t)
      /\ \A s, d : Means(sym, head, labels, htab, s, d) => Means(sym', head', labels', htab, s, d)
  BY <1>1, <1>2, <1>3, <1>4, Allocate DEF Live
<1>6. Live' = Live \cup {t} /\ sym'[t] = r /\ \A x \in Live : sym'[x] = sym[x]
  BY <1>1, <1>3 DEF Put, Live
<1>7. ~LinkedIn(htab, t)
  BY <1>5 DEF Fresh
<1>8. Pending'
  BY <1>1, <1>2, <1>6, <1>7 DEF Pending
<1>9. Unfinished'
  BY <1>1, <1>5, <1>6 DEF Unfinished
<1> QED BY <1>1, <1>2, <1>5, <1>6, <1>7, <1>8, <1>9

LEMMA LexNameStep ==
    ASSUME Inv, NEW ns \in Namespace, NEW name \in Name, LexName(ns, name)
    PROVE  Inv'
<1> DEFINE s == Find(htab, ns, name)
<1>1. TableOK(sym, head, labels, htab, curctx) /\ ParserTypes /\ Pending /\ Unfinished
  BY DEF Inv
<1>2. UNCHANGED <<htab, curctx, open, stopped>>
  BY DEF LexName
<1>3. \/ s = NULL /\ \A t \in Live : LinkedIn(htab, t) => ~(sym[t].ns = ns /\ sym[t].name = name)
      \/ /\ s \in Live /\ LinkedIn(htab, s) /\ sym[s].ns = ns /\ sym[s].name = name
         /\ \A d : Means(sym, head, labels, htab, s, d)
  <2>1. s = Find(htab, ns, name)
    OBVIOUS
  <2> HIDE DEF s
  <2>2. \A x \in DOMAIN sym : sym[x].name = sym[x].name /\ sym[x].ns = sym[x].ns
    OBVIOUS
  <2> QED BY <1>1, <2>1, <2>2, FindFacts DEF Live
<1>4. Live \subseteq Ptr
  BY <1>1 DEF TableOK, TableTypes, Live
<1>5. CASE s # NULL
  <2>1. /\ tok' = [kind |-> IF sym[s].const THEN "const" ELSE "iden", sym |-> s]
        /\ UNCHANGED <<sym, head, labels>>
    BY <1>5 DEF LexName
  <2> HIDE DEF s
  <2>2. s \in Live /\ s \in Ptr /\ Means(sym, head, labels, htab, s, curctx)
    BY <1>3, <1>4, <1>5
  <2>3. tok' \in [kind : {"iden", "const"}, sym : Ptr] /\ tok'.sym = s
    BY <2>1, <2>2
  <2>4. tok'.kind = "const" => sym[s].const
    BY <2>1
  <2>5. sym[s].const => sym[s].ns = "IDEN"
    BY <1>1, <2>2 DEF TableOK, Lists, Live
  <2>6. ParserTypes'
    BY <1>1, <1>2, <2>3 DEF ParserTypes, Running
  <2>7. Token'
    BY <1>2, <2>1, <2>2, <2>3, <2>4, <2>5 DEF Token, Live
  <2>8. TableOK(sym', head', labels', htab', curctx')
    BY <1>1, <1>2, <2>1
  <2>9. Pending' /\ Unfinished'
    BY <1>1, <1>2, <2>1 DEF Pending, Unfinished, Live
  <2> QED BY <2>6, <2>7, <2>8, <2>9 DEF Inv
<1>6. CASE s = NULL
  <2>1. PICK t \in Free : /\ tok' = [kind |-> "iden", sym |-> t]
                          /\ sym' = Put(sym, t, Symbol(ns, name, curctx)) /\ Enlist(t, ns)
    BY <1>6 DEF LexName
  <2>2. \A u \in Live : LinkedIn(htab, u) => ~(sym[u].ns = ns /\ sym[u].name = name)
    BY <1>3, <1>4, <1>6, BoundAssumption
  <2> HIDE DEF s
  <2>3. /\ TableOK(sym', head', labels', htab', curctx') /\ Pending' /\ Unfinished'
        /\ Fresh(head', labels', htab', t) /\ ~LinkedIn(htab, t) /\ t \in Ptr
        /\ Live' = Live \cup {t} /\ t \notin Live /\ \A x \in Live : sym'[x] = sym[x]
        /\ sym'[t].ns = ns /\ sym'[t].name = name /\ sym'[t].ctx = curctx
    BY <1>2, <2>1, Allocated
  <2>4. tok' \in [kind : {"iden", "const"}, sym : Ptr] /\ tok'.sym = t /\ tok'.kind = "iden"
    BY <2>1, <2>3
  <2>5. Means(sym', head', labels', htab', t, curctx')
    BY <1>2, <2>2, <2>3 DEF Means, Live
  <2>6. ParserTypes'
    BY <1>1, <1>2, <2>4 DEF ParserTypes, Running
  <2>7. Token'
    BY <2>4, <2>5 DEF Token
  <2> QED BY <2>3, <2>6, <2>7 DEF Inv
<1> QED BY <1>5, <1>6

LEMMA LexLiteralStep ==
    ASSUME Inv, LexLiteral
    PROVE  Inv'
<1>1. ParserTypes
  BY DEF Inv
<1>2. UNCHANGED <<htab, curctx, open, stopped>>
  BY DEF LexLiteral
<1>3. PICK t \in Free : /\ tok' = [kind |-> "const", sym |-> t]
                        /\ sym' = Put(sym, t, Symbol("IDEN", NoName, curctx)) /\ Enlist(t, "IDEN")
  BY DEF LexLiteral
<1>4. PICK ns \in Namespace : ns = "IDEN"
  BY DEF Namespace
<1>5. PICK name \in Name \cup {NoName} : name = NoName
  OBVIOUS
<1>6. /\ TableOK(sym', head', labels', htab', curctx') /\ Pending' /\ Unfinished'
      /\ t \in Ptr /\ Live' = Live \cup {t} /\ sym'[t].ns = ns
  BY <1>2, <1>3, <1>4, <1>5, Allocated
<1>7. tok' \in [kind : {"iden", "const"}, sym : Ptr] /\ tok'.sym = t /\ tok'.kind = "const"
  BY <1>3, <1>6
<1>8. ParserTypes'
  BY <1>1, <1>2, <1>7 DEF ParserTypes, Running
<1>9. Token'
  BY <1>4, <1>6, <1>7 DEF Token
<1> QED BY <1>6, <1>8, <1>9 DEF Inv
\* A step that installs a symbol at most.
InstallStep ==
    /\ curctx' = curctx
    /\ UNCHANGED <<sym, htab>> \/ \E ns, name, t, declared : Installs(ns, name, t, declared)

LEMMA TokenMeans ==
    ASSUME Inv, Running, NEW ns, Iden(ns)
    PROVE  /\ Means(sym, head, labels, htab, tok.sym, curctx) /\ tok.sym \in Live
           /\ ns = sym[tok.sym].ns /\ ns \in Namespace /\ sym[tok.sym].name \in Name
<1>1. tok.kind = "iden" /\ ns = sym[tok.sym].ns
  BY DEF Iden
<1>2. Means(sym, head, labels, htab, tok.sym, curctx)
  BY <1>1 DEF Inv, Token
<1>3. tok.sym \in Live /\ sym[tok.sym].name \in Name
  BY <1>2 DEF Means, Live
<1>4. sym[tok.sym].ns \in Namespace
  BY <1>3 DEF Inv, TableOK, TableTypes, SymbolRecord, Live
<1> QED BY <1>1, <1>2, <1>3, <1>4

LEMMA directdclStep ==
    ASSUME Inv, Plain, directdcl
    PROVE  Inv' /\ InstallStep
<1>1. Running /\ Iden("IDEN") /\ ~InEnum /\ tok' = Punct /\ curctx' = curctx
  BY DEF directdcl, Allowed, Plain
<1>2. PICK t \in Ptr : /\ Install("IDEN", tok.sym, t, FALSE, FALSE)
                       /\ open' = Append(open, [kind |-> "dcl", sym |-> t, ctx |-> curctx])
  BY DEF directdcl
<1>3. /\ Means(sym, head, labels, htab, tok.sym, curctx) /\ "IDEN" = sym[tok.sym].ns
  BY <1>1, TokenMeans
<1>4. Installs("IDEN", sym[tok.sym].name, t, FALSE)
  BY <1>1, <1>2, <1>3, Installed
<1>5. Inv'
  BY <1>1, <1>2, <1>4, OpenMore
<1> QED BY <1>1, <1>4, <1>5 DEF InstallStep

LEMMA InstallNowStep ==
    ASSUME Inv, Plain, InstallNow
    PROVE  Inv' /\ InstallStep
<1>1. Running /\ Iden("IDEN") /\ ~InEnum /\ tok' = Punct /\ curctx' = curctx /\ open' = open
  BY DEF InstallNow, Allowed, Plain
<1>2. PICK t \in Ptr : Install("IDEN", tok.sym, t, TRUE, FALSE)
  BY DEF InstallNow
<1>3. /\ Means(sym, head, labels, htab, tok.sym, curctx) /\ "IDEN" = sym[tok.sym].ns
  BY <1>1, TokenMeans
<1>4. Installs("IDEN", sym[tok.sym].name, t, TRUE)
  BY <1>1, <1>2, <1>3, Installed
<1>5. Inv'
  BY <1>1, <1>4, OpenSame
<1> QED BY <1>1, <1>4, <1>5 DEF InstallStep

\* newtag() and Goto(): a tag or a label that is not declared
LEMMA FirstUse ==
    ASSUME Inv, Plain, Running, NEW ns \in {"TAG", "LABEL"}, Iden(ns), ns # "LABEL" => ~InEnum,
           tok' = Punct, UNCHANGED <<curctx, open>>,
           IF sym[tok.sym].declared THEN UNCHANGED <<sym, head, labels, htab, stopped>>
           ELSE \E t \in Ptr : Install(ns, tok.sym, t, TRUE, FALSE)
    PROVE  Inv' /\ InstallStep
<1>1. CASE sym[tok.sym].declared
  BY <1>1, TokenUsed DEF InstallStep
<1>2. CASE ~sym[tok.sym].declared
  <2>1. PICK t \in Ptr : Install(ns, tok.sym, t, TRUE, FALSE)
    BY <1>2
  <2>2. Means(sym, head, labels, htab, tok.sym, curctx) /\ ns = sym[tok.sym].ns
    BY TokenMeans
  <2>3. Installs(ns, sym[tok.sym].name, t, TRUE)
    BY <1>2, <2>1, <2>2, Installed
  <2>4. Inv'
    BY <2>3, OpenSame
  <2> QED BY <2>3, <2>4 DEF InstallStep
<1> QED BY <1>1, <1>2

LEMMA newtagStep ==
    ASSUME Inv, Plain, newtag
    PROVE  Inv' /\ InstallStep
<1>1. /\ Running /\ Iden("TAG") /\ ~InEnum /\ tok' = Punct /\ UNCHANGED <<curctx, open>>
      /\ IF sym[tok.sym].declared THEN UNCHANGED <<sym, head, labels, htab, stopped>>
         ELSE \E t \in Ptr : Install("TAG", tok.sym, t, TRUE, FALSE)
  BY DEF newtag, Allowed, Plain
<1> QED BY <1>1, FirstUse

LEMMA GotoStep ==
    ASSUME Inv, Plain, Goto
    PROVE  Inv' /\ InstallStep
<1>1. /\ Running /\ Iden("LABEL") /\ tok' = Punct /\ UNCHANGED <<curctx, open>>
      /\ IF sym[tok.sym].declared THEN UNCHANGED <<sym, head, labels, htab, stopped>>
         ELSE \E t \in Ptr : Install("LABEL", tok.sym, t, TRUE, FALSE)
  BY DEF Goto
<1> QED BY <1>1, FirstUse

LEMMA labelStep ==
    ASSUME Inv, Plain, label
    PROVE  Inv' /\ InstallStep
<1> DEFINE name == sym[tok.sym].name
           f == Find(htab, "LABEL", name)
<1>1. Running /\ Iden("IDEN") /\ tok' = Punct /\ UNCHANGED <<curctx, open>>
  BY DEF label
<1>2. TableOK(sym, head, labels, htab, curctx) /\ name \in Name /\ "LABEL" \in Namespace
  BY <1>1, TokenMeans DEF Inv, Namespace
<1>3. CASE f # NULL
  <2>1. UNCHANGED <<sym, head, labels, htab, stopped>>
    BY <1>3 DEF label
  <2> QED BY <1>1, <2>1, TokenUsed DEF InstallStep
<1>4. CASE f = NULL
  <2>1. PICK t \in Free : linkhash(t, Symbol("LABEL", name, curctx), TRUE, FALSE) /\ Enlist(t, "LABEL")
    BY <1>4 DEF label
  <2>2. f = Find(htab, "LABEL", name)
    OBVIOUS
  <2> HIDE DEF f, name
  <2>3. \A x \in DOMAIN sym : sym[x].name = sym[x].name /\ sym[x].ns = sym[x].ns
    OBVIOUS
  <2>4. \/ f = NULL /\ \A t_1 \in DOMAIN sym : LinkedIn(htab, t_1) => ~(sym[t_1].ns = "LABEL" /\ sym[t_1].name = name)
        \/ f \in DOMAIN sym
    BY <1>2, <2>2, <2>3, FindFacts
  <2>5. DOMAIN sym \subseteq Ptr
    BY <1>2 DEF TableOK, TableTypes
  <2>6. \A u \in Live : LinkedIn(htab, u) /\ sym[u].ns = "LABEL" /\ sym[u].name = name => FALSE
    BY <1>4, <2>4, <2>5, BoundAssumption DEF Live
  <2>7. Installs("LABEL", name, t, TRUE)
    BY <1>1, <1>2, <2>1, <2>6, NewInstalled
  <2>8. Inv'
    BY <1>1, <2>7, OpenSame
  <2> QED BY <1>1, <2>7, <2>8 DEF InstallStep
<1> QED BY <1>3, <1>4

LEMMA EnumeratorStep ==
    ASSUME Inv, Plain, Enumerator
    PROVE  Inv' /\ InstallStep
<1> DEFINE n == Len(open)
           s == open[n].sym
<1>1. /\ Running /\ tok = Punct /\ tok' = Punct /\ curctx' = curctx /\ open # << >> /\ open' = Front(open)
      /\ open[n].kind = "enum" /\ open[n].ctx = curctx
  BY DEF Enumerator, Last
<1>2. IF AlreadyHere("IDEN", s) THEN UNCHANGED <<sym, head, labels, htab, stopped>>
      ELSE \E t \in Ptr : Install("IDEN", s, t, TRUE, TRUE)
  BY DEF Enumerator, Last
<1>3. /\ TableOK(sym, head, labels, htab, curctx) /\ ParserTypes /\ Pending /\ Unfinished
      /\ open \in Seq(Declarand)
  BY DEF Inv, ParserTypes
<1>4. /\ Front(open) \in Seq(Declarand) /\ n \in DOMAIN open /\ Len(Front(open)) = n - 1
      /\ \A j \in DOMAIN Front(open) : j \in DOMAIN open /\ j # n /\ Front(open)[j] = open[j]
      /\ \A j \in DOMAIN open : j # n => j \in DOMAIN Front(open)
  BY <1>1, <1>3, OpenFront
<1>5. s \in Live /\ "IDEN" = sym[s].ns /\ Means(sym, head, labels, htab, s, curctx)
  BY <1>1, <1>3, <1>4 DEF Unfinished
<1>6. \A j \in DOMAIN open : j # n => open[j].kind # "enum"
  BY <1>3 DEF Unfinished
<1> HIDE DEF n, s
<1>7. CASE AlreadyHere("IDEN", s)
  <2>1. UNCHANGED <<sym, head, labels, htab, stopped>>
    BY <1>2, <1>7
  <2>2. TableOK(sym', head', labels', htab', curctx')
    BY <1>1, <1>3, <2>1
  <2>3. ParserTypes'
    BY <1>1, <1>3, <1>4, <2>1 DEF ParserTypes, Running
  <2>4. Pending'
    BY <1>1, <1>3, <1>4, <2>1 DEF Pending, Live
  <2>5. Unfinished'
    BY <1>1, <1>3, <1>4, <1>6, <2>1 DEF Unfinished, Live
  <2>6. Token'
    BY <1>1 DEF Token, Punct
  <2> QED BY <1>1, <2>1, <2>2, <2>3, <2>4, <2>5, <2>6 DEF Inv, InstallStep
<1>8. CASE ~AlreadyHere("IDEN", s)
  <2>1. PICK t \in Ptr : Install("IDEN", s, t, TRUE, TRUE)
    BY <1>2, <1>8
  <2>2. Installs("IDEN", sym[s].name, t, TRUE)
    BY <1>1, <1>5, <2>1, Installed
  <2>3. OpenAfter("IDEN", t, TRUE)
    BY <1>1, <1>4, <1>6 DEF OpenAfter
  <2>4. Inv'
    BY <1>1, <2>2, <2>3, AfterInstall
  <2> QED BY <1>1, <2>2, <2>4 DEF InstallStep
<1> QED BY <1>7, <1>8
\* A step that leaves the scopes alone.
QuietStep ==
    /\ curctx' = curctx /\ Live \subseteq Live' /\ \A x : LinkedIn(htab', x) <=> LinkedIn(htab, x)
    /\ \A x \in Live : sym'[x].ns = sym[x].ns /\ sym'[x].name = sym[x].name /\ sym'[x].ctx = sym[x].ctx

LEMMA DeclaredStep ==
    ASSUME Inv, Plain, Declared
    PROVE  Inv' /\ QuietStep
<1> DEFINE n == Len(open)
           s == open[n].sym
<1>1. /\ open # << >> /\ open[n].kind = "dcl" /\ open' = Front(open)
      /\ UNCHANGED <<head, labels, htab, curctx, tok, stopped>>
      /\ \E ok \in Outcomes : sym' = [sym EXCEPT ![s].declared = @ \/ ok]
  BY DEF Declared, Last
<1>2. Outcomes = {TRUE}
  BY DEF Outcomes, Plain
<1>3. sym' = [sym EXCEPT ![s].declared = @ \/ TRUE]
  BY <1>1, <1>2
<1>4. /\ TableOK(sym, head, labels, htab, curctx) /\ ParserTypes /\ Pending /\ Unfinished /\ Token
      /\ open \in Seq(Declarand)
  BY DEF Inv, ParserTypes
<1>5. /\ Front(open) \in Seq(Declarand) /\ n \in DOMAIN open /\ Len(Front(open)) = n - 1
      /\ \A j \in DOMAIN Front(open) : j \in DOMAIN open /\ j # n /\ Front(open)[j] = open[j]
      /\ \A j \in DOMAIN open : j # n => j \in DOMAIN Front(open)
  BY <1>1, <1>4, OpenFront
<1>6. s \in Live /\ LinkedIn(htab, s)
  BY <1>1, <1>4, <1>5 DEF Unfinished
<1>7. \A j \in DOMAIN open : j # n => open[j].kind # "enum"
  BY <1>4 DEF Unfinished
<1>8. sym \in [Live -> SymbolRecord]
  BY <1>4 DEF TableOK, TableTypes, Live
<1>9. \A j \in DOMAIN open : j # n => j \in DOMAIN open' /\ open'[j] = open[j]
  BY <1>1, <1>5
<1>10. \A j \in DOMAIN open : open[j].kind = "dcl" => j # n \/ open[j].sym = s
  OBVIOUS
<1> HIDE DEF n, s
<1>11. sym' = [sym EXCEPT ![s] = [sym[s] EXCEPT !.declared = TRUE]]
  BY <1>3
<1> DEFINE q == [sym[s] EXCEPT !.declared = TRUE]
<1>12. q \in SymbolRecord /\ q.ns = sym[s].ns /\ q.name = sym[s].name /\ q.ctx = sym[s].ctx
       /\ q.const = sym[s].const /\ q.declared = TRUE
  <2>1. sym[s] \in SymbolRecord
    BY <1>6, <1>8
  <2> QED BY <2>1 DEF SymbolRecord
<1> HIDE DEF q
<1>13. sym' = [sym EXCEPT ![s] = q]
  BY <1>11 DEF q
<1>14. /\ sym' \in [Live -> SymbolRecord] /\ Live' = Live /\ sym'[s] = q
       /\ \A x \in Live \ {s} : sym'[x] = sym[x]
  BY <1>6, <1>8, <1>12, <1>13 DEF Live
<1>15. \A x \in Live : sym[x].const => sym[x].ns = "IDEN"
  BY <1>4 DEF TableOK, Lists, Live
<1>16. \A x \in Live : /\ sym'[x].name = sym[x].name /\ sym'[x].ns = sym[x].ns /\ sym'[x].ctx = sym[x].ctx
                       /\ sym'[x].const => sym'[x].ns = "IDEN"
  BY <1>12, <1>14, <1>15
<1>17. /\ TableOK(sym', head, labels, htab, curctx)
       /\ \A x, d : Means(sym, head, labels, htab, x, d) => Means(sym', head, labels, htab, x, d)
  BY <1>4, <1>14, <1>16, Flags DEF Live
<1>18. TableOK(sym', head', labels', htab', curctx')
  BY <1>1, <1>17
<1>19. ParserTypes'
  BY <1>1, <1>4, <1>5 DEF ParserTypes, Running
<1>20. Pending'
  <2> SUFFICES ASSUME NEW x \in Live
               PROVE  /\ sym'[x].declared => LinkedIn(htab, x)
                      /\ LinkedIn(htab, x) /\ ~sym'[x].declared =>
                            \E j \in DOMAIN open' : open'[j].kind = "dcl" /\ open'[j].sym = x
    BY <1>1, <1>14 DEF Pending
  <2>1. CASE x = s
    BY <1>6, <1>12, <1>14, <2>1
  <2>2. CASE x # s
    BY <1>4, <1>9, <1>10, <1>14, <2>2 DEF Pending
  <2> QED BY <2>1, <2>2
<1>21. Unfinished'
  BY <1>1, <1>4, <1>5, <1>7, <1>14, <1>16, <1>17 DEF Unfinished
<1>22. Token'
  BY <1>1, <1>4, <1>14, <1>16, <1>17 DEF Token
<1>23. QuietStep
  BY <1>1, <1>14, <1>16 DEF QuietStep
<1> QED BY <1>18, <1>19, <1>20, <1>21, <1>22, <1>23 DEF Inv

LEMMA EnumNameStep ==
    ASSUME Inv, Plain, EnumName
    PROVE  Inv'
<1> DEFINE e == [kind |-> "enum", sym |-> tok.sym, ctx |-> curctx]
<1>1. /\ Running /\ Iden("IDEN") /\ ~InEnum /\ tok' = Punct /\ open' = Append(open, e)
      /\ UNCHANGED <<sym, head, labels, htab, curctx, stopped>>
  BY DEF EnumName, Allowed, Plain
<1>2. /\ TableOK(sym, head, labels, htab, curctx) /\ ParserTypes /\ Pending /\ Unfinished
      /\ open \in Seq(Declarand) /\ DOMAIN open = 1 .. Len(open) /\ Len(open) \in Nat
      /\ curctx \in Nat /\ Live \subseteq Ptr
  BY SeqRange DEF Inv, ParserTypes, TableOK, TableTypes, Live
<1>3. /\ Means(sym, head, labels, htab, tok.sym, curctx) /\ tok.sym \in Live /\ "IDEN" = sym[tok.sym].ns
  BY <1>1, TokenMeans
<1>4. sym[tok.sym].ctx <= curctx
  BY <1>2, <1>3 DEF TableOK, Lists, Live
<1>5. e \in Declarand /\ e.kind = "enum" /\ e.sym = tok.sym /\ e.ctx = curctx
  BY <1>2, <1>3 DEF Declarand
<1> HIDE DEF e
<1>6. /\ open' \in Seq(Declarand) /\ Len(open') = Len(open) + 1
      /\ \A i \in 1 .. Len(open) : open'[i] = open[i]
      /\ open'[Len(open) + 1] = e
  BY <1>1, <1>2, <1>5, AppendProperties
<1>7. DOMAIN open' = 1 .. Len(open) + 1
  BY <1>6, LenProperties
<1>8. \A k \in DOMAIN open : open[k].kind # "enum"
  BY <1>1 DEF InEnum
<1>9. \A j \in DOMAIN open' : (j \in DOMAIN open /\ open'[j] = open[j]) \/ (j = Len(open') /\ open'[j] = e)
  BY <1>2, <1>6, <1>7
<1>10. \A k \in DOMAIN open : k \in DOMAIN open' /\ open'[k] = open[k]
  BY <1>2, <1>6, <1>7
<1>11. TableOK(sym', head', labels', htab', curctx')
  BY <1>1, <1>2
<1>12. ParserTypes'
  BY <1>1, <1>2, <1>6 DEF ParserTypes, Running
<1>13. Pending'
  BY <1>1, <1>2, <1>10 DEF Pending, Live
<1>14. Unfinished'
  <2> SUFFICES ASSUME NEW j \in DOMAIN open'
               PROVE  /\ open'[j].ctx <= curctx /\ open'[j].sym \in Live /\ sym[open'[j].sym].ns = "IDEN"
                      /\ sym[open'[j].sym].ctx <= open'[j].ctx
                      /\ open'[j].kind = "dcl" => LinkedIn(htab, open'[j].sym)
                      /\ open'[j].kind = "enum" =>
                            /\ j = Len(open')
                            /\ Means(sym, head, labels, htab, open'[j].sym, open'[j].ctx)
    BY <1>1 DEF Unfinished, Live
  <2>1. CASE j \in DOMAIN open /\ open'[j] = open[j]
    BY <1>2, <1>8, <2>1 DEF Unfinished
  <2>2. CASE j = Len(open') /\ open'[j] = e
    BY <1>2, <1>3, <1>4, <1>5, <2>2
  <2> QED BY <1>9, <2>1, <2>2
<1>15. Token'
  BY <1>1 DEF Token, Punct
<1> QED BY <1>11, <1>12, <1>13, <1>14, <1>15 DEF Inv

LEMMA pushctxStep ==
    ASSUME Inv, pushctx
    PROVE  Inv' /\ curctx < NR_BLOCK + 1
<1>1. /\ Running /\ tok = Punct /\ curctx' = curctx + 1 /\ stopped' = (IF TooMany THEN "error" ELSE stopped)
      /\ UNCHANGED <<sym, head, labels, htab, tok, open>>
  BY DEF pushctx
<1>2. TableOK(sym, head, labels, htab, curctx) /\ ParserTypes /\ Pending /\ Unfinished
  BY DEF Inv
<1>3. curctx \in Nat /\ curctx <= NR_BLOCK /\ NR_BLOCK \in Nat
  BY <1>1, <1>2, BoundAssumption DEF TableOK, TableTypes, ParserTypes
<1>4. TableOK(sym, head, labels, htab, curctx + 1)
  <2>1. TableTypes(sym, head, labels, htab, curctx + 1)
    BY <1>2, <1>3 DEF TableOK, TableTypes
  <2>2. \A s \in Range(head) : sym[s].ctx <= curctx + 1
    <3> TAKE s \in Range(head)
    <3>1. sym[s].ctx <= curctx /\ s \in Live
      BY <1>2 DEF TableOK, Lists, Live
    <3>2. sym[s].ctx \in Nat
      BY <1>2, <3>1 DEF TableOK, TableTypes, SymbolRecord, Live
    <3> QED BY <1>3, <3>1, <3>2
  <2>3. Lists(sym, head, labels, curctx + 1)
    BY <1>2, <2>2 DEF TableOK, Lists
  <2> QED BY <1>2, <2>1, <2>3 DEF TableOK
<1>5. TableOK(sym', head', labels', htab', curctx')
  BY <1>1, <1>4
<1>6. ParserTypes'
  <2>1. curctx + 1 <= NR_BLOCK + 1 /\ (~TooMany => curctx + 1 <= NR_BLOCK)
    BY <1>3 DEF TooMany
  <2> QED BY <1>1, <1>2, <2>1 DEF ParserTypes, Running
<1>7. Pending'
  BY <1>1, <1>2 DEF Pending, Live
<1>8. Unfinished'
  <2>1. \A j \in DOMAIN open : open[j].ctx <= curctx + 1
    <3> TAKE j \in DOMAIN open
    <3>1. open[j].ctx <= curctx
      BY <1>2 DEF Unfinished
    <3>2. open \in Seq(Declarand) /\ j \in 1 .. Len(open)
      BY <1>2, LenProperties DEF ParserTypes
    <3>3. open[j] \in Declarand
      BY <3>2, ElementOfSeq
    <3>4. open[j].ctx \in Nat
      BY <3>3 DEF Declarand
    <3> QED BY <1>3, <3>1, <3>4
  <2> QED BY <1>1, <1>2, <2>1 DEF Unfinished, Live
<1>9. Token'
  BY <1>1 DEF Token, Punct
<1> QED BY <1>3, <1>5, <1>6, <1>7, <1>8, <1>9 DEF Inv
LEMMA PopState ==
    ASSUME TableOK(sym, head, labels, htab, curctx), curctx > 0,
           NEW D, NEW p, Belong(sym, head, labels, curctx, D, p),
           NEW S, NEW H, NEW L, NEW T, Without(sym, head, labels, htab, curctx, D, p, S, H, L, T)
    PROVE  /\ TableOK(S, H, L, T, curctx - 1)
           /\ \A s : LinkedIn(T, s) <=> LinkedIn(htab, s) /\ s \notin D
           /\ \A s, d : Means(sym, head, labels, htab, s, d) /\ s \notin D => Means(S, H, L, T, s, d)
  BY Pop

\* A step that leaves a scope: the symbols of Dead are gone, a new one is not linked.
PopStep ==
    /\ curctx > 0 /\ curctx' = curctx - 1
    /\ \A x : LinkedIn(htab', x) <=> LinkedIn(htab, x) /\ x \notin Range(Dead)
    /\ \A x \in Live \ Range(Dead) : x \in Live' /\ sym'[x] = sym[x]

\* The table behind the loops of popctx().
Remains(S, H, L, T) ==
    /\ S = [s \in Live \ Range(Dead) |-> sym[s]]
    /\ H = SubSeq(head, Len(Doomed) + 1, Len(head))
    /\ L = (IF DoomedLabels = << >> THEN labels ELSE << >>)
    /\ T = Unlinked(Dead).tab

LEMMA Popped ==
    ASSUME Inv, curctx > 0, \A j \in DOMAIN open : open[j].ctx < curctx,
           NEW S, NEW H, NEW L, NEW T, Remains(S, H, L, T)
    PROVE  /\ Unlinked(Dead).ok = TRUE
           /\ TableOK(S, H, L, T, curctx - 1)
           /\ \A s : LinkedIn(T, s) <=> LinkedIn(htab, s) /\ s \notin Range(Dead)
           /\ \A s, d : Means(sym, head, labels, htab, s, d) /\ s \notin Range(Dead) => Means(S, H, L, T, s, d)
           /\ \A s : s \in Range(Dead) <=> \/ s \in Range(head) /\ sym[s].ctx = curctx
                                           \/ curctx = 1 /\ s \in Range(labels)
<1> DEFINE D == Range(Dead)
<1>1. TableOK(sym, head, labels, htab, curctx) /\ ParserTypes /\ Pending /\ Unfinished
  BY DEF Inv
<1>2. \A s : s \in D <=> (s \in Range(head) /\ sym[s].ctx = curctx) \/ (curctx = 1 /\ s \in Range(labels))
  BY <1>1, DeadFacts
<1>3. /\ Range(head) \cup Range(labels) = Live /\ \A s \in Range(labels) : sym[s].ns = "LABEL"
      /\ \A h \in Place : Len(htab[h]) \in Nat
      /\ curctx \in Nat /\ \A s \in Live : sym[s].ctx \in Nat
  <2>1. /\ Range(head) \cup Range(labels) = Live /\ \A s \in Range(labels) : sym[s].ns = "LABEL"
        /\ htab \in [Place -> Seq(Ptr)] /\ curctx \in Nat /\ sym \in [Live -> SymbolRecord]
    BY <1>1 DEF TableOK, TableTypes, Lists, Live
  <2>2. \A s \in Live : sym[s].ctx \in Nat
    BY <2>1 DEF SymbolRecord
  <2> QED BY <2>1, <2>2, LenProperties
<1>4. ASSUME NEW j \in DOMAIN open PROVE open[j].ctx \in Nat
  <2>1. open \in Seq(Declarand) /\ j \in 1 .. Len(open)
    BY <1>1, LenProperties DEF ParserTypes
  <2>2. open[j] \in Declarand
    BY <2>1, ElementOfSeq
  <2> QED BY <2>2 DEF Declarand
<1>5. \A s \in D : sym[s].declared <=> LinkedIn(htab, s)
  <2> SUFFICES ASSUME NEW s \in D, LinkedIn(htab, s), ~sym[s].declared PROVE FALSE
    BY <1>1, <1>2, <1>3 DEF Pending
  <2>1. s \in Live
    BY <1>2, <1>3
  <2>2. PICK j \in DOMAIN open : open[j].kind = "dcl" /\ open[j].sym = s
    BY <1>1, <2>1 DEF Pending
  <2>3. sym[s].ns = "IDEN" /\ sym[s].ctx <= open[j].ctx /\ open[j].ctx < curctx
    BY <1>1, <2>2 DEF Unfinished
  <2>4. sym[s].ctx = curctx
    BY <1>2, <1>3, <2>3
  <2> QED BY <1>3, <1>4, <2>1, <2>3, <2>4
<1>6. /\ Unlinked(Dead).ok = TRUE /\ Unlinked(Dead).tab \in [Place -> Seq(Ptr)]
      /\ \A h \in Place : Swept(Unlinked(Dead).tab[h], h, Len(Dead))
  BY <1>1, <1>5, Sweep
<1>7. ASSUME NEW h \in Place
      PROVE  \E k \in 0 .. Len(htab[h]) : /\ T[h] = SubSeq(htab[h], k + 1, Len(htab[h]))
                                          /\ \A i \in 1 .. Len(htab[h]) : i <= k <=> htab[h][i] \in D
  <2>1. PICK k \in 0 .. Len(htab[h]) :
           /\ T[h] = SubSeq(htab[h], k + 1, Len(htab[h]))
           /\ \A i \in 1 .. Len(htab[h]) : i <= k <=> \E m \in 1 .. Len(Dead) : Dead[m] = htab[h][i]
    BY <1>6 DEF Swept, Remains
  <2>2. \A s : s \in D <=> \E m \in 1 .. Len(Dead) : Dead[m] = s
    BY <1>1, DeadFacts, SeqRange
  <2> HIDE DEF D
  <2>3. \A i \in 1 .. Len(htab[h]) : i <= k <=> htab[h][i] \in D
    BY <2>1, <2>2
  <2> QED BY <2>1, <2>3
<1>8. PICK p \in 0 .. Len(head) :
         /\ Doomed \in Seq(Ptr) /\ Len(Doomed) = p /\ \A j \in 1 .. p : Doomed[j] = head[j]
         /\ \A j \in 1 .. Len(head) : j <= p <=> sym[head[j]].ctx = curctx
  BY <1>1, DoomedFacts
<1>9. H = SubSeq(head, p + 1, Len(head))
  BY <1>8 DEF Remains
<1>10. L = IF curctx = 1 THEN << >> ELSE labels
  <2>1. DoomedLabels = IF curctx = 1 THEN labels ELSE << >>
    BY <1>3 DEF DoomedLabels, GLOBALCTX
  <2> QED BY <2>1 DEF Remains
<1>11. S = [s \in DOMAIN sym \ D |-> sym[s]]
  BY DEF Live, Remains
<1>12. T \in [Place -> Seq(Ptr)]
  BY <1>6 DEF Remains
<1>13. PICK DD : DD = D
  OBVIOUS
<1>14. Belong(sym, head, labels, curctx, DD, p)
  BY <1>2, <1>8, <1>13 DEF Belong
<1>17. Without(sym, head, labels, htab, curctx, DD, p, S, H, L, T)
  <2>1. S = [s \in DOMAIN sym \ DD |-> sym[s]]
    BY <1>11, <1>13
  <2>2. \A h \in Place : \E k \in 0 .. Len(htab[h]) :
             /\ T[h] = SubSeq(htab[h], k + 1, Len(htab[h]))
             /\ \A i \in 1 .. Len(htab[h]) : i <= k <=> htab[h][i] \in DD
    BY <1>7, <1>13
  <2> HIDE DEF D
  <2> QED BY <1>9, <1>10, <1>12, <2>1, <2>2 DEF Without
<1> HIDE DEF D
<1>15. /\ TableOK(S, H, L, T, curctx - 1)
       /\ \A s : LinkedIn(T, s) <=> LinkedIn(htab, s) /\ s \notin DD
       /\ \A s, d : Means(sym, head, labels, htab, s, d) /\ s \notin DD => Means(S, H, L, T, s, d)
  BY <1>1, <1>14, <1>17, PopState
<1>16. DD = Range(Dead)
  BY <1>13 DEF D
<1> QED BY <1>2, <1>6, <1>13, <1>15, <1>16
LEMMA popctxStep ==
    ASSUME Inv, Plain, popctx
    PROVE  Inv' /\ PopStep
<1> DEFINE old == sym[tok.sym]
<1>1. \E S, H, L, T : Remains(S, H, L, T)
  BY DEF Remains
<1>2. PICK S, H, L, T : Remains(S, H, L, T)
  BY <1>1
<1>3. PICK f : f = Find(T, old.ns, old.name)
  OBVIOUS
<1>4. /\ Running /\ curctx > 0 /\ ~Iden("LABEL") /\ open' = open /\ curctx' = curctx - 1
      /\ \A j \in DOMAIN open : open[j].ctx < curctx
      /\ tok.kind = "const" => sym[tok.sym].ctx # curctx
  BY DEF popctx, GLOBALCTX, Plain
<1>5. stopped' = (IF Unlinked(Dead).ok THEN stopped ELSE "assert") /\ htab' = T /\ labels' = L
  BY <1>2 DEF popctx, Remains, Dead
<1>6. IF Dangling /\ f = NULL
      THEN sym' = Put(S, tok.sym, Relooked(old)) /\ head' = <<tok.sym>> \o H /\ tok' = tok
      ELSE sym' = S /\ head' = H /\ tok' = IF Dangling THEN [kind |-> "iden", sym |-> f] ELSE tok
  BY <1>2, <1>3 DEF popctx, Remains, Dead
<1>7. /\ Unlinked(Dead).ok = TRUE
      /\ TableOK(S, H, L, T, curctx - 1)
      /\ \A s : LinkedIn(T, s) <=> LinkedIn(htab, s) /\ s \notin Range(Dead)
      /\ \A s, d : Means(sym, head, labels, htab, s, d) /\ s \notin Range(Dead) => Means(S, H, L, T, s, d)
      /\ \A s : s \in Range(Dead) <=> \/ s \in Range(head) /\ sym[s].ctx = curctx
                                      \/ curctx = 1 /\ s \in Range(labels)
  BY <1>2, <1>4, Popped
<1>8. DOMAIN S = Live \ Range(Dead) /\ \A s \in Live \ Range(Dead) : S[s] = sym[s]
  BY <1>2 DEF Remains
<1>9. /\ TableOK(sym, head, labels, htab, curctx) /\ ParserTypes /\ Pending /\ Unfinished /\ Token
      /\ curctx \in Nat /\ Live \subseteq Ptr
      /\ Range(head) \cup Range(labels) = Live /\ \A s \in Range(labels) : sym[s].ns = "LABEL"
      /\ \A s \in Live : sym[s].ctx \in Nat /\ sym[s].ns \in Namespace
  <2>1. /\ TableOK(sym, head, labels, htab, curctx) /\ ParserTypes /\ Pending /\ Unfinished /\ Token
    BY DEF Inv
  <2>2. sym \in [Live -> SymbolRecord] /\ curctx \in Nat /\ Live \subseteq Ptr
    BY <2>1 DEF TableOK, TableTypes, Live
  <2>3. Range(head) \cup Range(labels) = Live /\ \A s \in Range(labels) : sym[s].ns = "LABEL"
    BY <2>1 DEF TableOK, Lists, Live
  <2> QED BY <2>1, <2>2, <2>3 DEF SymbolRecord
<1>10. stopped' = stopped
  BY <1>5, <1>7
<1>11. ASSUME NEW j \in DOMAIN open PROVE open[j].sym \in Live \ Range(Dead)
  <2>1. open \in Seq(Declarand) /\ j \in 1 .. Len(open)
    BY <1>9, LenProperties DEF ParserTypes
  <2>2. open[j] \in Declarand
    BY <2>1, ElementOfSeq
  <2>3. open[j].ctx \in Nat
    BY <2>2 DEF Declarand
  <2>4. /\ open[j].sym \in Live /\ sym[open[j].sym].ns = "IDEN"
        /\ sym[open[j].sym].ctx <= open[j].ctx /\ open[j].ctx < curctx
    BY <1>4, <1>9 DEF Unfinished
  <2>5. sym[open[j].sym].ctx # curctx
    BY <1>9, <2>3, <2>4
  <2> QED BY <1>7, <1>9, <2>4, <2>5
<1>12. ASSUME NEW j \in DOMAIN open PROVE open[j].ctx <= curctx - 1
  <2>1. open \in Seq(Declarand) /\ j \in 1 .. Len(open)
    BY <1>9, LenProperties DEF ParserTypes
  <2>2. open[j] \in Declarand
    BY <2>1, ElementOfSeq
  <2>3. open[j].ctx \in Nat /\ open[j].ctx < curctx
    BY <1>4, <2>2 DEF Declarand
  <2> QED BY <1>9, <2>3
<1>13. ParserTypes' <=> tok' = Punct \/ tok' \in [kind : {"iden", "const"}, sym : Ptr]
  <2>1. curctx - 1 <= NR_BLOCK + 1 /\ (Running => curctx - 1 <= NR_BLOCK)
    <3>1. curctx <= NR_BLOCK + 1 /\ (Running => curctx <= NR_BLOCK) /\ NR_BLOCK \in Nat
      BY <1>9, BoundAssumption DEF ParserTypes
    <3> QED BY <1>9, <3>1
  <2> QED BY <1>4, <1>9, <1>10, <2>1 DEF ParserTypes, Running
\* the rest of the invariant, once the table behind the step is known
<1>14. ASSUME TableOK(sym', head', labels', htab', curctx'), Live \ Range(Dead) \subseteq Live',
              \A x \in Live \ Range(Dead) : sym'[x] = sym[x],
              \A x \in Live' \ (Live \ Range(Dead)) : ~sym'[x].declared /\ ~LinkedIn(T, x),
              \A x, d : Means(S, H, L, T, x, d) => Means(sym', head', labels', htab', x, d),
              tok' = Punct \/ tok' \in [kind : {"iden", "const"}, sym : Ptr], Token'
       PROVE  Inv' /\ PopStep
  <2>1. Pending'
    <3> SUFFICES ASSUME NEW x \in Live'
                 PROVE  /\ sym'[x].declared => LinkedIn(T, x)
                        /\ LinkedIn(T, x) /\ ~sym'[x].declared =>
                              \E j \in DOMAIN open : open[j].kind = "dcl" /\ open[j].sym = x
      BY <1>4, <1>5 DEF Pending
    <3> QED BY <1>7, <1>9, <1>14 DEF Pending
  <2>2. Unfinished'
    <3> SUFFICES ASSUME NEW j \in DOMAIN open
                 PROVE  /\ open[j].ctx <= curctx - 1 /\ open[j].sym \in Live' /\ sym'[open[j].sym].ns = "IDEN"
                        /\ sym'[open[j].sym].ctx <= open[j].ctx
                        /\ open[j].kind = "dcl" => LinkedIn(T, open[j].sym)
                        /\ open[j].kind = "enum" =>
                              /\ j = Len(open)
                              /\ Means(sym', head', labels', htab', open[j].sym, open[j].ctx)
      BY <1>4, <1>5 DEF Unfinished
    <3>1. open[j].sym \in Live \ Range(Dead) /\ open[j].ctx <= curctx - 1
      BY <1>11, <1>12
    <3>2. open[j].sym \in Live' /\ sym'[open[j].sym] = sym[open[j].sym]
      BY <1>14, <3>1
    <3>3. /\ sym[open[j].sym].ns = "IDEN" /\ sym[open[j].sym].ctx <= open[j].ctx
          /\ open[j].kind = "dcl" => LinkedIn(htab, open[j].sym)
          /\ open[j].kind = "enum" =>
                j = Len(open) /\ Means(sym, head, labels, htab, open[j].sym, open[j].ctx)
      BY <1>9 DEF Unfinished
    <3> QED BY <1>7, <1>14, <3>1, <3>2, <3>3
  <2>3. PopStep
    BY <1>4, <1>5, <1>7, <1>14 DEF PopStep
  <2> QED BY <1>13, <1>14, <2>1, <2>2, <2>3 DEF Inv
<1>15. CASE Dangling
  <2>1. tok.kind = "iden" /\ old.ctx = curctx
    BY <1>15 DEF Dangling
  <2>2. tok.sym \in Live /\ old.name \in Name /\ old.ns \in Namespace /\ old.ns # "LABEL"
    BY <1>4, <1>9, <2>1 DEF Token, Means, Iden, Live
  <2>3. tok.sym \in Range(Dead) /\ tok.sym \notin DOMAIN S /\ tok.sym \in Ptr
    BY <1>7, <1>8, <1>9, <2>1, <2>2
  <2>4. \A s \in DOMAIN S : S[s].name = sym[s].name /\ S[s].ns = sym[s].ns
    BY <1>8
  <2>5. PICK ns \in Namespace, name \in Name : ns = old.ns /\ name = old.name
    BY <2>2
  <2>6. f = Find(T, ns, name)
    BY <1>3, <2>5
  <2> HIDE DEF old
  <2>7. \/ /\ f = NULL
           /\ \A x \in DOMAIN S : LinkedIn(T, x) => ~(S[x].ns = ns /\ S[x].name = name)
        \/ f \in DOMAIN S /\ \A d : Means(S, H, L, T, f, d)
    BY <1>7, <2>4, <2>6, FindFacts
  <2>8. CASE f # NULL
    <3>1. sym' = S /\ head' = H /\ tok' = [kind |-> "iden", sym |-> f]
      BY <1>6, <1>15, <2>8
    <3>2. f \in DOMAIN S /\ Means(S, H, L, T, f, curctx - 1) /\ f \in Ptr
      BY <1>8, <1>9, <2>7, <2>8
    <3>3. tok' \in [kind : {"iden", "const"}, sym : Ptr] /\ tok'.kind = "iden" /\ tok'.sym = f
      BY <3>1, <3>2
    <3>4. Token'
      BY <1>4, <1>5, <3>1, <3>2, <3>3 DEF Token
    <3>5. TableOK(sym', head', labels', htab', curctx')
      BY <1>4, <1>5, <1>7, <3>1
    <3>6. Live' = Live \ Range(Dead) /\ \A x \in Live \ Range(Dead) : sym'[x] = sym[x]
      BY <1>8, <3>1 DEF Live
    <3>7. \A x, d : Means(S, H, L, T, x, d) => Means(sym', head', labels', htab', x, d)
      BY <1>5, <3>1
    <3> QED BY <1>14, <3>3, <3>4, <3>5, <3>6, <3>7
  <2>9. CASE f = NULL
    <3> DEFINE t == tok.sym
               r == Symbol(ns, name, curctx - 1)
    <3>1. sym' = Put(S, t, r) /\ head' = <<t>> \o H /\ tok' = tok
      BY <1>6, <1>15, <2>5, <2>9 DEF Relooked
    <3>2. \A x \in DOMAIN S : LinkedIn(T, x) => ~(S[x].ns = ns /\ S[x].name = name)
      BY <1>8, <1>9, <2>7, <2>9, BoundAssumption
    <3>3. /\ r \in SymbolRecord /\ r.ns = ns /\ r.name = name /\ r.ctx = curctx - 1
          /\ r.const = FALSE /\ r.declared = FALSE
      BY <1>4, <1>9 DEF Symbol, SymbolRecord
    <3>4. t \in Ptr /\ t \notin DOMAIN S /\ r.ns # "LABEL"
      BY <2>2, <2>3, <2>5, <3>3
    <3> HIDE DEF t, r
    <3>5. IF r.ns = "LABEL" THEN labels' = <<t>> \o L /\ head' = H ELSE head' = <<t>> \o H /\ labels' = L
      BY <1>5, <3>1, <3>4
    <3>6. PICK c : c = curctx - 1
      OBVIOUS
    <3>7. TableOK(S, H, L, T, c) /\ r.ctx = c
      BY <1>7, <3>3, <3>6
    <3>8. /\ TableOK(sym', head', labels', T, c) /\ Fresh(head', labels', T, t)
          /\ \A s, d : Means(S, H, L, T, s, d) => Means(sym', head', labels', T, s, d)
      BY <3>1, <3>3, <3>4, <3>5, <3>7, Allocate
    <3>9. Live' = DOMAIN S \cup {t} /\ sym'[t] = r /\ \A x \in DOMAIN S : sym'[x] = S[x]
      BY <3>1, <3>4 DEF Put, Live
    <3>10. ~LinkedIn(T, t)
      BY <3>8 DEF Fresh
    <3>11. Means(sym', head', labels', T, t, c)
      BY <3>2, <3>3, <3>6, <3>8, <3>9, <3>10 DEF Means, Live
    <3>12. tok'.kind = "iden" /\ tok'.sym = t /\ tok' \in [kind : {"iden", "const"}, sym : Ptr]
      <4>1. tok \in [kind : {"iden", "const"}, sym : Ptr]
        BY <1>9, <2>1 DEF ParserTypes, Punct
      <4> QED BY <2>1, <3>1, <4>1 DEF t
    <3>13. Token'
      BY <1>4, <1>5, <3>6, <3>11, <3>12 DEF Token
    <3>14. TableOK(sym', head', labels', htab', curctx')
      BY <1>4, <1>5, <3>6, <3>8
    <3>15. \A x, d : Means(S, H, L, T, x, d) => Means(sym', head', labels', htab', x, d)
      BY <1>5, <3>8
    <3>16. /\ Live \ Range(Dead) \subseteq Live' /\ \A x \in Live \ Range(Dead) : sym'[x] = sym[x]
           /\ \A x \in Live' \ (Live \ Range(Dead)) : ~sym'[x].declared /\ ~LinkedIn(T, x)
      BY <1>8, <3>3, <3>9, <3>10
    <3> QED BY <1>14, <3>12, <3>13, <3>14, <3>15, <3>16
  <2> QED BY <2>8, <2>9
<1>16. CASE ~Dangling
  <2>1. sym' = S /\ head' = H /\ tok' = tok
    BY <1>6, <1>16
  <2>2. TableOK(sym', head', labels', htab', curctx')
    BY <1>4, <1>5, <1>7, <2>1
  <2>3. Live' = Live \ Range(Dead) /\ \A x \in Live \ Range(Dead) : sym'[x] = sym[x]
    BY <1>8, <2>1 DEF Live
  <2>4. \A x, d : Means(S, H, L, T, x, d) => Means(sym', head', labels', htab', x, d)
    BY <1>5, <2>1
  <2>5. ASSUME tok.kind = "const" PROVE tok.sym \in Live' /\ sym'[tok.sym].ns = "IDEN"
    <3>1. tok.sym \in Live /\ sym[tok.sym].ns = "IDEN" /\ sym[tok.sym].ctx # curctx
      BY <1>4, <1>9, <2>5 DEF Token
    <3>2. tok.sym \notin Range(Dead)
      BY <1>7, <1>9, <3>1
    <3> QED BY <2>3, <3>1, <3>2
  <2>6. ASSUME tok.kind = "iden" PROVE Means(sym', head', labels', htab', tok.sym, curctx')
    <3>1. Means(sym, head, labels, htab, tok.sym, curctx) /\ sym[tok.sym].ctx # curctx
      BY <1>9, <1>16, <2>6 DEF Token, Dangling
    <3>2. tok.sym \in Live /\ sym[tok.sym].ns # "LABEL" /\ LinkedIn(htab, tok.sym)
      BY <1>4, <2>6, <3>1 DEF Means, Live, Iden
    <3>3. tok.sym \notin Range(Dead) /\ LinkedIn(T, tok.sym)
      BY <1>7, <1>9, <3>1, <3>2
    <3>4. Means(sym', head', labels', htab', tok.sym, curctx)
      BY <1>7, <2>4, <3>1, <3>3
    <3> QED BY <1>5, <3>3, <3>4 DEF Means
  <2>7. Token'
    BY <2>1, <2>5, <2>6 DEF Token
  <2>8. tok' = Punct \/ tok' \in [kind : {"iden", "const"}, sym : Ptr]
    BY <1>9, <2>1 DEF ParserTypes
  <2> QED BY <1>14, <2>2, <2>3, <2>4, <2>7, <2>8
<1> QED BY <1>15, <1>16
-----------------------------------------------------------------------------
(* The theorems about the lists and about lookup().                        *)

LEMMA InitInv == ASSUME Init PROVE Inv
<1>1. /\ sym = << >> /\ head = << >> /\ labels = << >> /\ htab = [h \in Place |-> << >>] /\ curctx = 0
      /\ tok = Punct /\ open = << >> /\ stopped = "running"
  BY DEF Init, GLOBALCTX, Place
<1>2. /\ << >> \in Seq(Ptr) /\ << >> \in Seq(Declarand) /\ DOMAIN << >> = {}
  BY EmptySeq
<1>3. DOMAIN sym = {} /\ DOMAIN head = {} /\ DOMAIN labels = {} /\ DOMAIN open = {} /\ Live = {}
  BY <1>1, <1>2 DEF Live
<1>4. Range(head) = {} /\ Range(labels) = {} /\ \A h \in Place : Range(htab[h]) = {}
  BY <1>1, <1>2, <1>3 DEF Range
<1>5. TableTypes(sym, head, labels, htab, curctx)
  <2>1. sym \in [DOMAIN sym -> SymbolRecord] /\ DOMAIN sym \subseteq Ptr
    BY <1>1, <1>3
  <2>2. htab \in [Place -> Seq(Ptr)]
    BY <1>1, <1>2
  <2> QED BY <1>1, <1>2, <2>1, <2>2 DEF TableTypes
<1>6. Lists(sym, head, labels, curctx)
  <2>1. \A s, t : ~Before(head, s, t) /\ ~Before(labels, s, t)
    BY <1>3 DEF Before
  <2> QED BY <1>3, <1>4, <2>1 DEF Lists
<1>7. Collisions(sym, head, labels, htab) /\ Once(sym, htab)
  <2>1. \A h \in Place : DOMAIN htab[h] = {}
    BY <1>1, <1>2
  <2> QED BY <1>3, <1>4, <2>1 DEF Collisions, Once
<1>8. ParserTypes
  BY <1>1, <1>2, BoundAssumption DEF ParserTypes, Running
<1>9. Pending /\ Unfinished
  BY <1>3 DEF Pending, Unfinished
<1>10. Token
  BY <1>1 DEF Token, Punct
<1> QED BY <1>5, <1>6, <1>7, <1>8, <1>9, <1>10 DEF Inv, TableOK

LEMMA StepInv == ASSUME Inv, Plain, [Next]_vars PROVE Inv'
<1>1. ASSUME UNCHANGED vars PROVE Inv'
  <2>1. /\ sym' = sym /\ head' = head /\ labels' = labels /\ htab' = htab /\ curctx' = curctx
        /\ tok' = tok /\ open' = open /\ stopped' = stopped
    BY <1>1 DEF vars
  <2> QED BY <2>1 DEF Inv, ParserTypes, Pending, Unfinished, Token, Running, Live
<1>2. ASSUME NEW ns \in Namespace, NEW name \in Name, LexName(ns, name) PROVE Inv'
  BY <1>2, LexNameStep
<1>3. CASE LexLiteral
  BY <1>3, LexLiteralStep
<1>4. CASE LexPunct \/ Redeclare
  BY <1>4, TokenUsed DEF LexPunct, Redeclare
<1>5. CASE directdcl
  BY <1>5, directdclStep
<1>6. CASE Declared
  BY <1>6, DeclaredStep
<1>7. CASE InstallNow
  BY <1>7, InstallNowStep
<1>8. CASE newtag
  BY <1>8, newtagStep
<1>9. CASE EnumName
  BY <1>9, EnumNameStep
<1>10. CASE Enumerator
  BY <1>10, EnumeratorStep
<1>11. CASE Goto
  BY <1>11, GotoStep
<1>12. CASE label
  BY <1>12, labelStep
<1>13. CASE pushctx
  BY <1>13, pushctxStep
<1>14. CASE popctx
  BY <1>14, popctxStep
<1> QED BY <1>1, <1>2, <1>3, <1>4, <1>5, <1>6, <1>7, <1>8, <1>9, <1>10, <1>11, <1>12, <1>13, <1>14 DEF Next

LEMMA InvLists == ASSUME Inv PROVE ListsOrdered
<1>1. TableOK(sym, head, labels, htab, curctx) /\ stopped \in {"running", "error"}
  BY DEF Inv, ParserTypes
<1>2. /\ head \in Seq(Ptr) /\ labels \in Seq(Ptr) /\ htab \in [Place -> Seq(Ptr)] /\ curctx \in Nat
      /\ sym \in [Live -> SymbolRecord] /\ Live \subseteq Ptr /\ DOMAIN htab = Place
  BY <1>1 DEF TableOK, TableTypes, Live
<1>3. /\ Range(head) \cup Range(labels) = Live
      /\ \A s \in Range(labels) : sym[s].ns = "LABEL"
      /\ \A s \in Range(head) : sym[s].ns # "LABEL" /\ sym[s].ctx <= curctx
      /\ \A s \in Ptr : ~Before(head, s, s) /\ ~Before(labels, s, s)
      /\ \A s, t \in Ptr : Before(head, s, t) => sym[t].ctx <= sym[s].ctx
  BY <1>1 DEF TableOK, Lists, Live
<1>4. ASSUME NEW list \in Seq(Ptr), \A s \in Ptr : ~Before(list, s, s) PROVE IsInjective(list)
  <2> SUFFICES ASSUME NEW a \in DOMAIN list, NEW b \in DOMAIN list, list[a] = list[b], a # b PROVE FALSE
    BY DEF IsInjective
  <2>1. a \in Nat /\ b \in Nat /\ list[a] \in Ptr
    BY SeqRange, ElementOfSeq
  <2>2. Before(list, list[a], list[a])
    BY <2>1 DEF Before
  <2> QED BY <1>4, <2>1, <2>2
<1>5. ASSUME NEW j \in DOMAIN head
      PROVE  sym[head[j]].ctx <= IF j = 1 THEN curctx ELSE sym[head[j - 1]].ctx
  <2>1. DOMAIN head = 1 .. Len(head) /\ Len(head) \in Nat
    BY <1>2, SeqRange
  <2>2. CASE j = 1
    BY <1>3, <2>2 DEF Range
  <2>3. CASE j # 1
    <3>1. j - 1 \in DOMAIN head /\ j - 1 < j
      BY <2>1, <2>3
    <3>2. Before(head, head[j - 1], head[j]) /\ head[j - 1] \in Ptr /\ head[j] \in Ptr
      BY <1>2, <2>1, <3>1, ElementOfSeq DEF Before
    <3> QED BY <1>3, <2>3, <3>2
  <2> QED BY <2>2, <2>3
<1>6. ASSUME NEW h \in Place
      PROVE  /\ Range(htab[h]) \subseteq Range(IF h[1] = "lbl" THEN labels ELSE head)
             /\ \A j, k \in DOMAIN htab[h] :
                   j < k => Before(IF h[1] = "lbl" THEN labels ELSE head, htab[h][j], htab[h][k])
  <2>1. \A s \in Range(htab[h]) : s \in Live /\ hash(sym[s].name, sym[s].ns) = h
    BY <1>1 DEF TableOK, Collisions, Live
  <2>2. \A j, k \in DOMAIN htab[h] : j < k =>
            Before(head, htab[h][j], htab[h][k]) \/ Before(labels, htab[h][j], htab[h][k])
    BY <1>1 DEF TableOK, Collisions
  <2>3. \A s \in Range(htab[h]) : sym[s].ns = "LABEL" <=> h[1] = "lbl"
    BY <2>1 DEF hash, Table
  <2>4. \A j \in DOMAIN htab[h] : htab[h][j] \in Range(htab[h])
    BY DEF Range
  <2>5. CASE h[1] = "lbl"
    <3>1. \A s \in Range(htab[h]) : s \in Range(labels) /\ s \notin Range(head)
      BY <1>3, <2>1, <2>3, <2>5
    <3>2. \A j, k \in DOMAIN htab[h] : j < k => Before(labels, htab[h][j], htab[h][k])
      BY <2>2, <2>4, <3>1, BeforeRange
    <3> QED BY <2>5, <3>1, <3>2
  <2>6. CASE h[1] # "lbl"
    <3>1. \A s \in Range(htab[h]) : s \in Range(head) /\ s \notin Range(labels)
      BY <1>3, <2>1, <2>3, <2>6
    <3>2. \A j, k \in DOMAIN htab[h] : j < k => Before(head, htab[h][j], htab[h][k])
      BY <2>2, <2>4, <3>1, BeforeRange
    <3> QED BY <2>6, <3>1, <3>2
  <2> QED BY <2>5, <2>6
<1>7. IsInjective(head) /\ IsInjective(labels)
  BY <1>2, <1>3, <1>4
<1> QED BY <1>1, <1>2, <1>3, <1>5, <1>6, <1>7 DEF ListsOrdered

\* What lookup() finds in the state.
LEMMA FindNow ==
    ASSUME Inv, NEW ns \in Namespace, NEW name \in Name, NEW f, f = Find(htab, ns, name)
    PROVE  \/ f = NULL /\ \A t \in Live : LinkedIn(htab, t) => ~(sym[t].ns = ns /\ sym[t].name = name)
           \/ /\ f \in Live /\ f # NULL /\ LinkedIn(htab, f) /\ sym[f].ns = ns /\ sym[f].name = name
              /\ \A t \in Live \ {f} : LinkedIn(htab, t) /\ sym[t].ns = ns /\ sym[t].name = name =>
                    sym[t].ctx < sym[f].ctx
<1>1. TableOK(sym, head, labels, htab, curctx) /\ Live \subseteq Ptr
  BY DEF Inv, TableOK, TableTypes, Live
<1>2. \A x \in DOMAIN sym : sym[x].name = sym[x].name /\ sym[x].ns = sym[x].ns
  OBVIOUS
<1>3. \/ f = NULL /\ \A t \in DOMAIN sym : LinkedIn(htab, t) => ~(sym[t].ns = ns /\ sym[t].name = name)
      \/ /\ f \in DOMAIN sym /\ LinkedIn(htab, f) /\ sym[f].ns = ns /\ sym[f].name = name
         /\ \A d : Means(sym, head, labels, htab, f, d)
  BY <1>1, <1>2, FindFacts
<1>4. f \in Live => f # NULL
  BY <1>1, BoundAssumption
<1> QED BY <1>3, <1>4 DEF Means, Live

LEMMA InvInnermost == ASSUME Inv PROVE Innermost
<1> SUFFICES ASSUME NEW ns \in {"IDEN", "TAG"}, NEW name \in Name, NEW f, f = Find(htab, ns, name)
             PROVE  IF Visible(ns, name) = {} THEN f = NULL
                    ELSE f \in Visible(ns, name) /\ \A t \in Visible(ns, name) \ {f} : sym[t].ctx < sym[f].ctx
  BY DEF Innermost
<1>1. ns \in Namespace
  BY DEF Namespace
<1>2. \A s : s \in Visible(ns, name) <=> s \in Live /\ LinkedIn(htab, s) /\ sym[s].ns = ns /\ sym[s].name = name
  BY LinkedSame DEF Visible, Inv
<1>3. \/ f = NULL /\ \A t \in Live : LinkedIn(htab, t) => ~(sym[t].ns = ns /\ sym[t].name = name)
      \/ /\ f \in Live /\ f # NULL /\ LinkedIn(htab, f) /\ sym[f].ns = ns /\ sym[f].name = name
         /\ \A t \in Live \ {f} : LinkedIn(htab, t) /\ sym[t].ns = ns /\ sym[t].name = name =>
               sym[t].ctx < sym[f].ctx
  BY <1>1, FindNow
<1> QED BY <1>2, <1>3

LEMMA InvToken == ASSUME Inv PROVE TokenCurrent
<1>1. Token /\ ParserTypes /\ TableOK(sym, head, labels, htab, curctx)
  BY DEF Inv
<1>2. tok.kind # "punct" => tok.kind = "const" \/ tok.kind = "iden"
  BY <1>1 DEF ParserTypes, Punct
<1>3. tok.kind # "punct" => tok.sym \in Live
  BY <1>1, <1>2 DEF Token, Means, Live
<1>4. ASSUME tok.kind = "iden", NEW s, s = sym[tok.sym], NEW f, f = Find(htab, s.ns, s.name)
      PROVE  IF f = NULL THEN s.ctx = curctx ELSE tok.sym = f
  <2>1. Means(sym, head, labels, htab, tok.sym, curctx)
    BY <1>1, <1>4 DEF Token
  <2>2. /\ tok.sym \in Live /\ s.name \in Name
        /\ LinkedIn(htab, tok.sym) \/ s.ctx = curctx
        /\ \A t \in Live \ {tok.sym} : LinkedIn(htab, t) /\ sym[t].ns = s.ns /\ sym[t].name = s.name =>
              LinkedIn(htab, tok.sym) /\ sym[t].ctx < s.ctx
    BY <1>4, <2>1 DEF Means, Live
  <2>3. s.ns \in Namespace /\ \A t \in Live : sym[t].ctx \in Nat
    BY <1>1, <1>4, <2>2 DEF TableOK, TableTypes, SymbolRecord, Live
  <2>4. PICK ns \in Namespace, name \in Name : ns = s.ns /\ name = s.name
    BY <2>2, <2>3
  <2>5. \/ f = NULL /\ \A t \in Live : LinkedIn(htab, t) => ~(sym[t].ns = ns /\ sym[t].name = name)
        \/ /\ f \in Live /\ f # NULL /\ LinkedIn(htab, f) /\ sym[f].ns = ns /\ sym[f].name = name
           /\ \A t \in Live \ {f} : LinkedIn(htab, t) /\ sym[t].ns = ns /\ sym[t].name = name =>
                 sym[t].ctx < sym[f].ctx
    BY <1>4, <2>4, FindNow
  <2>6. CASE f = NULL
    BY <1>4, <2>2, <2>4, <2>5, <2>6
  <2>7. CASE f # NULL
    <3> SUFFICES ASSUME tok.sym # f PROVE FALSE
      BY <2>7
    <3>1. sym[f].ctx < s.ctx /\ LinkedIn(htab, tok.sym)
      BY <2>2, <2>4, <2>5, <2>7
    <3>2. s.ctx < sym[f].ctx
      BY <1>4, <2>2, <2>4, <2>5, <2>7, <3>1
    <3>3. s.ctx \in Nat /\ sym[f].ctx \in Nat
      BY <1>4, <2>2, <2>3, <2>5, <2>7
    <3> QED BY <3>1, <3>2, <3>3
  <2> QED BY <2>6, <2>7
<1> QED BY <1>3, <1>4 DEF TokenCurrent

(***************************************************************************)
(* What popctx() relies on, "sym is always the head of the collision       *)
(* list" (symbol.c:171): whatever declarators, tags, enumerators and       *)
(* labels are parsed in whatever nesting, the lists stay ordered as        *)
(* allocated, so the assertion of unlinkhash() never fails and no list     *)
(* becomes circular.                                                       *)
(***************************************************************************)
THEOREM TableOrdered == ASSUME Plain PROVE Spec => []ListsOrdered
<1>1. Init => Inv
  BY InitInv
<1>2. Inv /\ [Next]_vars => Inv'
  BY StepInv
<1>3. Inv => ListsOrdered
  BY InvLists
<1> QED BY <1>1, <1>2, <1>3, PTL DEF Spec

(***************************************************************************)
(* lookup() (symbol.c) finds the declaration of the innermost scope, and   *)
(* nothing when the name has none, although a collision list mixes names,  *)
(* contexts and namespaces.                                                *)
(***************************************************************************)
THEOREM LookupInnermost == ASSUME Plain PROVE Spec => []Innermost
<1>1. Init => Inv
  BY InitInv
<1>2. Inv /\ [Next]_vars => Inv'
  BY StepInv
<1>3. Inv => Innermost
  BY InvInnermost
<1> QED BY <1>1, <1>2, <1>3, PTL DEF Spec

(***************************************************************************)
(* The token the lexer reads ahead of the parser refers to a live symbol,  *)
(* the one its name means now, also behind the end of the context in which *)
(* it was read (popctx(), symbol.c:155).                                   *)
(***************************************************************************)
THEOREM TokenIsCurrent == ASSUME Plain PROVE Spec => []TokenCurrent
<1>1. Init => Inv
  BY InitInv
<1>2. Inv /\ [Next]_vars => Inv'
  BY StepInv
<1>3. Inv => TokenCurrent
  BY InvToken
<1> QED BY <1>1, <1>2, <1>3, PTL DEF Spec
-----------------------------------------------------------------------------
(* The refinement of Scopes.                                               *)

\* The declarations of context l of a table.
ScopeIn(S, T, l) ==
    {<<S[s].ns, S[s].name>> : s \in {u \in DOMAIN S : LinkedIn(T, u) /\ S[u].ctx = l /\ S[u].ns # "LABEL"}}

scopes == [l \in 0 .. NR_BLOCK + 1 |-> ScopeOf(l)]

LEMMA ScopesNow ==
    ASSUME Inv
    PROVE  scopes = [l \in 0 .. NR_BLOCK + 1 |-> ScopeIn(sym, htab, l)]
<1>1. TableOK(sym, head, labels, htab, curctx)
  BY DEF Inv
<1>2. \A u : Linked(u) <=> LinkedIn(htab, u)
  BY <1>1, LinkedSame
<1>3. \A l : ScopeOf(l) = ScopeIn(sym, htab, l)
  BY <1>2 DEF ScopeOf, ScopeIn, Live
<1> QED BY <1>3 DEF scopes

LEMMA ScopesNext ==
    ASSUME Inv'
    PROVE  scopes' = [l \in 0 .. NR_BLOCK + 1 |-> ScopeIn(sym', htab', l)]
<1>1. DOMAIN htab' = Place
  BY DEF Inv, TableOK, TableTypes
<1>2. \A u : Linked(u)' <=> LinkedIn(htab', u)
  BY <1>1 DEF Linked, LinkedIn
<1>3. \A l : ScopeOf(l)' = ScopeIn(sym', htab', l)
  BY <1>2 DEF ScopeOf, ScopeIn, Live
<1> QED BY <1>3 DEF scopes

LEMMA LinkedLive ==
    ASSUME Inv, NEW s, LinkedIn(htab, s)
    PROVE  s \in Live
  BY DEF Inv, TableOK, Collisions, LinkedIn, Live

LEMMA QuietScopes ==
    ASSUME Inv, Inv', QuietStep
    PROVE  curctx' = curctx /\ scopes' = scopes
<1>1. ASSUME NEW l PROVE ScopeIn(sym', htab', l) = ScopeIn(sym, htab, l)
  <2> DEFINE P == {u \in DOMAIN sym : LinkedIn(htab, u) /\ sym[u].ctx = l /\ sym[u].ns # "LABEL"}
             Q == {u \in DOMAIN sym' : LinkedIn(htab', u) /\ sym'[u].ctx = l /\ sym'[u].ns # "LABEL"}
  <2>1. \A u : LinkedIn(htab, u) => u \in DOMAIN sym
    BY LinkedLive DEF Live
  <2>2. P = Q
    BY <2>1 DEF QuietStep, Live
  <2>3. \A u \in P : <<sym'[u].ns, sym'[u].name>> = <<sym[u].ns, sym[u].name>>
    BY DEF QuietStep, Live
  <2> QED BY <2>2, <2>3 DEF ScopeIn
<1>2. scopes' = scopes
  BY <1>1, ScopesNow, ScopesNext
<1> QED BY <1>2 DEF QuietStep

LEMMA InstallScopes ==
    ASSUME Inv, Inv', curctx' = curctx, NEW ns, NEW name, NEW t, NEW declared, Installs(ns, name, t, declared)
    PROVE  [Blocks!Next]_<<curctx, scopes>>
<1>1. /\ ns \in Namespace /\ name \in Name /\ t \in Ptr /\ ~LinkedIn(htab, t)
      /\ DOMAIN sym' = Live \cup {t}
      /\ \A x \in Live : sym'[x].ns = sym[x].ns /\ sym'[x].name = sym[x].name /\ sym'[x].ctx = sym[x].ctx
      /\ sym'[t].ns = ns /\ sym'[t].name = name /\ sym'[t].ctx = curctx
      /\ \A x : LinkedIn(htab', x) <=> LinkedIn(htab, x) \/ x = t
      /\ \A u \in Live : LinkedIn(htab, u) /\ sym[u].ns = ns /\ sym[u].name = name => sym[u].ctx # curctx
  BY DEF Installs
<1>2. \A u : LinkedIn(htab, u) => u \in Live
  BY LinkedLive
<1> DEFINE P(l) == {u \in DOMAIN sym : LinkedIn(htab, u) /\ sym[u].ctx = l /\ sym[u].ns # "LABEL"}
           Q(l) == {u \in DOMAIN sym' : LinkedIn(htab', u) /\ sym'[u].ctx = l /\ sym'[u].ns # "LABEL"}
<1>3. ASSUME NEW l PROVE Q(l) = P(l) \cup (IF l = curctx /\ ns # "LABEL" THEN {t} ELSE {})
  BY <1>1, <1>2 DEF Live
<1>4. ASSUME NEW l, NEW u \in P(l) PROVE <<sym'[u].ns, sym'[u].name>> = <<sym[u].ns, sym[u].name>>
  BY <1>1 DEF Live
<1>5. \A l : ScopeIn(sym, htab, l) = {<<sym[s].ns, sym[s].name>> : s \in P(l)}
  BY DEF ScopeIn
<1>6. \A l : ScopeIn(sym', htab', l) = {<<sym'[s].ns, sym'[s].name>> : s \in Q(l)}
  BY DEF ScopeIn
<1> HIDE DEF P, Q
<1>7. CASE ns = "LABEL"
  <2>1. ASSUME NEW l PROVE ScopeIn(sym', htab', l) = ScopeIn(sym, htab, l)
    <3>1. Q(l) = P(l)
      BY <1>3, <1>7
    <3>2. \A u \in P(l) : <<sym'[u].ns, sym'[u].name>> = <<sym[u].ns, sym[u].name>>
      BY <1>4
    <3>3. ScopeIn(sym', htab', l) = {<<sym'[s].ns, sym'[s].name>> : s \in P(l)}
      BY <1>6, <3>1
    <3>4. ScopeIn(sym, htab, l) = {<<sym[s].ns, sym[s].name>> : s \in P(l)}
      BY <1>5
    <3> QED BY <3>2, <3>3, <3>4
  <2>2. scopes' = scopes
    BY <2>1, ScopesNow, ScopesNext
  <2> QED BY <2>2
<1>8. CASE ns # "LABEL"
  <2> DEFINE d == <<ns, name>>
  <2>1. ASSUME NEW l, l # curctx PROVE ScopeIn(sym', htab', l) = ScopeIn(sym, htab, l)
    <3>1. Q(l) = P(l)
      BY <1>3, <2>1
    <3>2. \A u \in P(l) : <<sym'[u].ns, sym'[u].name>> = <<sym[u].ns, sym[u].name>>
      BY <1>4
    <3>3. ScopeIn(sym', htab', l) = {<<sym'[s].ns, sym'[s].name>> : s \in P(l)}
      BY <1>6, <3>1
    <3>4. ScopeIn(sym, htab, l) = {<<sym[s].ns, sym[s].name>> : s \in P(l)}
      BY <1>5
    <3> QED BY <3>2, <3>3, <3>4
  <2>2. ScopeIn(sym', htab', curctx) = ScopeIn(sym, htab, curctx) \cup {d}
    <3>1. Q(curctx) = P(curctx) \cup {t}
      BY <1>3, <1>8
    <3>2. <<sym'[t].ns, sym'[t].name>> = d
      BY <1>1
    <3> HIDE DEF d
    <3> QED BY <1>4, <1>5, <1>6, <3>1, <3>2
  <2>3. curctx \in 0 .. NR_BLOCK + 1
    BY BoundAssumption DEF Inv, TableOK, TableTypes, ParserTypes
  <2>4. d \in {"IDEN", "TAG"} \X Name
    BY <1>1, <1>8 DEF Namespace
  <2>5. d \notin ScopeIn(sym, htab, curctx)
    BY <1>1 DEF ScopeIn, Live
  <2> HIDE DEF d
  <2>6. scopes[curctx] = ScopeIn(sym, htab, curctx)
    BY <2>3, ScopesNow
  <2>7. scopes' = [scopes EXCEPT ![curctx] = @ \cup {d}]
    BY <2>1, <2>2, <2>3, ScopesNow, ScopesNext
  <2>8. d \in ({"IDEN", "TAG"} \X Name) \ scopes[curctx]
    BY <2>4, <2>5, <2>6
  <2>9. Blocks!Declare
    BY <2>7, <2>8 DEF Blocks!Declare, scopes
  <2> QED BY <2>9 DEF Blocks!Next
<1> QED BY <1>7, <1>8

LEMMA PopScopes ==
    ASSUME Inv, Inv', PopStep
    PROVE  Blocks!Leave
<1>1. TableOK(sym, head, labels, htab, curctx)
  BY DEF Inv
<1>2. /\ curctx > 0 /\ curctx' = curctx - 1
      /\ \A x : LinkedIn(htab', x) <=> LinkedIn(htab, x) /\ x \notin Range(Dead)
      /\ \A x \in Live \ Range(Dead) : x \in Live' /\ sym'[x] = sym[x]
  BY DEF PopStep
<1>3. \A s : s \in Range(Dead) <=> \/ s \in Range(head) /\ sym[s].ctx = curctx
                                   \/ curctx = 1 /\ s \in Range(labels)
  BY <1>1, <1>2, DeadFacts
<1>4. /\ Range(head) \cup Range(labels) = Live /\ \A s \in Range(labels) : sym[s].ns = "LABEL"
  BY <1>1 DEF TableOK, Lists, Live
<1>5. \A u : LinkedIn(htab, u) => u \in Live
  BY LinkedLive
<1>6. \A u \in Live : sym[u].ns # "LABEL" => (u \in Range(Dead) <=> sym[u].ctx = curctx)
  BY <1>3, <1>4
<1>7. \A u : LinkedIn(htab', u) => u \in Live /\ u \in Live' /\ sym'[u] = sym[u]
  BY <1>2, <1>5
<1>8. ASSUME NEW l PROVE ScopeIn(sym', htab', l) = IF l = curctx THEN {} ELSE ScopeIn(sym, htab, l)
  <2> DEFINE P == {u \in DOMAIN sym : LinkedIn(htab, u) /\ sym[u].ctx = l /\ sym[u].ns # "LABEL"}
             Q == {u \in DOMAIN sym' : LinkedIn(htab', u) /\ sym'[u].ctx = l /\ sym'[u].ns # "LABEL"}
  <2>1. CASE l = curctx
    <3>1. Q = {}
      BY <1>2, <1>6, <1>7, <2>1
    <3> QED BY <2>1, <3>1 DEF ScopeIn
  <2>2. CASE l # curctx
    <3>1. P = Q
      BY <1>2, <1>5, <1>6, <1>7, <2>2 DEF Live
    <3>2. \A u \in P : <<sym'[u].ns, sym'[u].name>> = <<sym[u].ns, sym[u].name>>
      BY <1>7, <3>1
    <3> QED BY <2>2, <3>1, <3>2 DEF ScopeIn
  <2> QED BY <2>1, <2>2
<1>9. curctx \in 0 .. NR_BLOCK + 1
  BY BoundAssumption DEF Inv, TableOK, TableTypes, ParserTypes
<1>10. scopes' = [scopes EXCEPT ![curctx] = {}]
  BY <1>8, <1>9, ScopesNow, ScopesNext
<1> QED BY <1>2, <1>10 DEF Blocks!Leave, scopes

LEMMA LexQuiet ==
    ASSUME Inv, NEW ns \in Namespace, NEW name, LexName(ns, name) \/ LexLiteral
    PROVE  QuietStep
<1>1. htab' = htab /\ curctx' = curctx
  BY DEF LexName, LexLiteral
<1>2. sym' = sym \/ \E t \in Free : \E r : sym' = Put(sym, t, r)
  BY DEF LexName, LexLiteral
<1>3. CASE sym' = sym
  BY <1>1, <1>3 DEF QuietStep, Live
<1>4. ASSUME NEW t \in Free, NEW r, sym' = Put(sym, t, r) PROVE QuietStep
  <2>1. t \notin Live
    BY DEF Free
  <2>2. Live \subseteq Live' /\ \A x \in Live : sym'[x] = sym[x]
    BY <1>4, <2>1 DEF Put, Live
  <2> QED BY <1>1, <2>2 DEF QuietStep
<1> QED BY <1>2, <1>3, <1>4

LEMMA StepScopes == ASSUME Inv, Plain, [Next]_vars PROVE [Blocks!Next]_<<curctx, scopes>>
<1>1. Inv'
  BY StepInv
<1>2. ASSUME QuietStep PROVE [Blocks!Next]_<<curctx, scopes>>
  BY <1>1, <1>2, QuietScopes
<1>3. ASSUME curctx' = curctx, sym' = sym, htab' = htab PROVE [Blocks!Next]_<<curctx, scopes>>
  <2>1. QuietStep
    BY <1>3 DEF QuietStep, Live
  <2> QED BY <1>2, <2>1
<1>4. ASSUME InstallStep PROVE [Blocks!Next]_<<curctx, scopes>>
  <2>1. curctx' = curctx
    BY <1>4 DEF InstallStep
  <2>2. CASE UNCHANGED <<sym, htab>>
    BY <1>3, <2>1, <2>2
  <2>3. ASSUME NEW ns, NEW name, NEW t, NEW declared, Installs(ns, name, t, declared)
        PROVE  [Blocks!Next]_<<curctx, scopes>>
    BY <1>1, <2>1, <2>3, InstallScopes
  <2> QED BY <1>4, <2>2, <2>3 DEF InstallStep
<1>5. CASE UNCHANGED vars
  BY <1>3, <1>5 DEF vars
<1>6. ASSUME NEW ns \in Namespace, NEW name \in Name, LexName(ns, name) PROVE [Blocks!Next]_<<curctx, scopes>>
  <2>1. QuietStep
    BY <1>6, LexQuiet
  <2> QED BY <1>2, <2>1
<1>7. CASE LexLiteral
  <2>1. \E ns \in Namespace : TRUE
    BY DEF Namespace
  <2>2. QuietStep
    BY <1>7, <2>1, LexQuiet
  <2> QED BY <1>2, <2>2
<1>8. CASE LexPunct \/ Redeclare \/ EnumName
  BY <1>3, <1>8 DEF LexPunct, Redeclare, EnumName
<1>9. CASE directdcl \/ InstallNow \/ newtag \/ Enumerator \/ Goto \/ label
  <2>1. InstallStep
    BY <1>9, directdclStep, InstallNowStep, newtagStep, EnumeratorStep, GotoStep, labelStep
  <2> QED BY <1>4, <2>1
<1>10. CASE Declared
  <2>1. QuietStep
    BY <1>10, DeclaredStep
  <2> QED BY <1>2, <2>1
<1>11. CASE pushctx
  <2>1. curctx < NR_BLOCK + 1
    BY <1>11, pushctxStep
  <2>2. curctx' = curctx + 1 /\ sym' = sym /\ htab' = htab
    BY <1>11 DEF pushctx
  <2>3. scopes' = scopes
    BY <1>1, <2>2, ScopesNow, ScopesNext
  <2>4. Blocks!Enter
    BY <2>1, <2>2, <2>3 DEF Blocks!Enter, scopes
  <2> QED BY <2>4 DEF Blocks!Next
<1>12. CASE popctx
  <2>1. PopStep
    BY <1>12, popctxStep
  <2>2. Blocks!Leave
    BY <1>1, <2>1, PopScopes
  <2> QED BY <2>2 DEF Blocks!Next
<1> QED BY <1>5, <1>6, <1>7, <1>8, <1>9, <1>10, <1>11, <1>12 DEF Next

(***************************************************************************)
(* The table implements the block structure of C (module Scopes): install()*)
(* adds a declaration to the innermost scope and none twice, pushctx()     *)
(* opens a scope, popctx() forgets the declarations of the innermost scope *)
(* and nothing else, and no other step of the lexer or the parser changes  *)
(* what is declared.                                                       *)
(***************************************************************************)
THEOREM TableImplementsScopes == ASSUME Plain PROVE Spec => ImplementsScopes
<1>1. Init => Inv /\ Blocks!Init
  <2> SUFFICES ASSUME Init PROVE Inv /\ Blocks!Init
    OBVIOUS
  <2>1. Inv
    BY InitInv
  <2>2. DOMAIN sym = {} /\ curctx = 0
    BY EmptySeq DEF Init, GLOBALCTX
  <2>3. \A l : ScopeIn(sym, htab, l) = {}
    BY <2>2 DEF ScopeIn
  <2>4. scopes = [l \in 0 .. NR_BLOCK + 1 |-> {}]
    BY <2>1, <2>3, ScopesNow
  <2> QED BY <2>1, <2>2, <2>4 DEF Blocks!Init, scopes
<1>2. Inv /\ [Next]_vars => Inv' /\ [Blocks!Next]_<<curctx, scopes>>
  BY StepInv, StepScopes
<1> QED BY <1>1, <1>2, PTL DEF Spec, ImplementsScopes, Blocks!Spec, scopes

=============================================================================
