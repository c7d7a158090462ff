------------------------------- MODULE CTypes -------------------------------
(***************************************************************************)
(* The types of cc1 (cc1/types.c), the tables that give every target its   *)
(* basic types (cc1/<arch>.c, selected by cc1/arch.c), the arithmetic of   *)
(* the compiler on constants of a given size, and the types of cc2         *)
(* (cc2/target/<arch>/types.c).                                            *)
(*                                                                         *)
(* A type is a record.  cc1 interns types and compares pointers; here two  *)
(* types are the same when the records are equal, and `id` keeps apart     *)
(* the tables' entries that share every other field (long and long long).  *)
(*                                                                         *)
(* BITS is the number of bits of a byte: 8 in the code, smaller in a model *)
(* so that every value of the widest integer fits the numbers of TLC.      *)
(* Sizes, masks and limits are computed from it as the code computes them  *)
(* from 8.                                                                 *)
(***************************************************************************)
EXTENDS Integers, Sequences, FiniteSets, SequencesExt

CONSTANTS BITS, ARCH

Archs == {"amd64-sysv", "arm64-sysv", "i386-sysv", "z80-scc"}

ASSUME BitsAssumption == BITS \in Nat \ {0}
ASSUME ArchAssumption == ARCH \in Archs

-----------------------------------------------------------------------------
(* Words.  A constant is kept as its bit pattern in TINT, TUINT: 8 bytes.  *)

Pow2(n) == 2^n
Mask(bytes) == Pow2(bytes * BITS)           \* ones(bytes) + 1
WORD == 8
Trunc(n, bytes) == n % Mask(bytes)
\* The value of a pattern read as a signed number of that many bytes.
Signed(u, bytes) == IF u >= Mask(bytes) \div 2 THEN u - Mask(bytes) ELSE u
AsInt(u) == Signed(u, WORD)
Word(n) == Trunc(n, WORD)

\* Products of two words, without leaving the numbers TLC has.
MulMod(a, b, m) ==
    LET h == Pow2(BITS * 4)
    IN  (a * (b % h) + (((a * (b \div h)) % m) * h)) % m

\* The quotient and the remainder of C: they truncate towards zero.
CDiv(a, b) == LET q == (IF a < 0 THEN -a ELSE a) \div (IF b < 0 THEN -b ELSE b)
              IN  IF (a < 0) = (b < 0) THEN q ELSE -q
CMod(a, b) == a - b * CDiv(a, b)

BitOp(f(_, _), a, b) ==
    LET bit(n, i) == (n \div Pow2(i)) % 2
        sum[i \in 0..(WORD * BITS)] ==
            IF i = 0 THEN 0
            ELSE sum[i - 1] + Pow2(i - 1) * f(bit(a, i - 1), bit(b, i - 1))
    IN  sum[WORD * BITS]

And2(a, b) == a * b
Or2(a, b) == IF a + b = 0 THEN 0 ELSE 1
Xor2(a, b) == (a + b) % 2

-----------------------------------------------------------------------------
(* The types.                                                              *)

NoType == [op |-> "NONE", id |-> "", letter |-> "", size |-> 0, align |-> 0,
           rank |-> 0, elem |-> 0, props |-> {}, base |-> <<>>, parts |-> <<>>]

MkInt(id, letter, size, align, rank, sgn) ==
    [NoType EXCEPT !.op = "INT", !.id = id, !.letter = letter, !.size = size,
                   !.align = align, !.rank = rank,
                   !.props = {"DEFINED", "INTEGER", "ARITH"}
                             \cup (IF sgn THEN {"SIGNED"} ELSE {})]

MkFloat(id, letter, size, align, rank) ==
    [NoType EXCEPT !.op = "FLOAT", !.id = id, !.letter = letter,
                   !.size = size, !.align = align, !.rank = rank,
                   !.props = {"DEFINED", "ARITH"}]

voidtype == [NoType EXCEPT !.op = "VOID", !.id = "void", !.letter = "0"]
ellipsistype == [NoType EXCEPT !.op = "ELLIPSIS", !.id = "...",
                               !.letter = "E", !.props = {"DEFINED"}]

\* What the two 64 bit targets share.
Sysv64 ==
    [bool |-> MkInt("bool", "B", 1, 1, 0, FALSE),
     schar |-> MkInt("schar", "C", 1, 1, 1, TRUE),
     uchar |-> MkInt("uchar", "K", 1, 1, 1, FALSE),
     char |-> MkInt("char", "C", 1, 1, 1, TRUE),
     ushort |-> MkInt("ushort", "N", 2, 2, 2, FALSE),
     short |-> MkInt("short", "I", 2, 2, 2, TRUE),
     uint |-> MkInt("uint", "Z", 4, 4, 3, FALSE),
     int |-> MkInt("int", "W", 4, 4, 3, TRUE),
     long |-> MkInt("long", "Q", 8, 8, 4, TRUE),
     ulong |-> MkInt("ulong", "O", 8, 8, 4, FALSE),
     ullong |-> MkInt("ullong", "O", 8, 8, 5, FALSE),
     llong |-> MkInt("llong", "Q", 8, 8, 5, TRUE),
     float |-> MkFloat("float", "J", 4, 4, 6),
     double |-> MkFloat("double", "D", 8, 8, 7),
     ldouble |-> MkFloat("ldouble", "H", 16, 16, 8),
     sizet |-> MkInt("sizet", "O", 8, 8, 3, FALSE),
     pdiff |-> MkInt("pdiff", "Q", 8, 8, 4, TRUE),
     wchar |-> MkInt("wchar", "Z", 4, 4, 3, TRUE),
     pvoid |-> [size |-> 8, align |-> 8]]

amd64_sysv == Sysv64
arm64_sysv == Sysv64

i386_sysv ==
    [Sysv64 EXCEPT
        !.long = MkInt("long", "W", 4, 4, 4, TRUE),
        !.ulong = MkInt("ulong", "Z", 4, 4, 4, FALSE),
        !.double = MkFloat("double", "D", 8, 4, 7),
        !.ldouble = MkFloat("ldouble", "H", 12, 4, 8),
        !.sizet = MkInt("sizet", "Z", 4, 4, 3, FALSE),
        !.pdiff = MkInt("pdiff", "W", 4, 4, 3, TRUE)]

z80_scc ==
    [Sysv64 EXCEPT
        !.char = MkInt("char", "C", 1, 1, 1, FALSE),
        !.uint = MkInt("uint", "N", 2, 1, 3, FALSE),
        !.int = MkInt("int", "I", 2, 1, 3, TRUE),
        !.long = MkInt("long", "W", 4, 1, 4, TRUE),
        !.ulong = MkInt("ulong", "Z", 4, 1, 4, FALSE),
        !.float = MkFloat("float", "J", 4, 1, 6),
        !.double = MkFloat("double", "D", 8, 1, 7),
        !.ldouble = MkFloat("ldouble", "H", 16, 1, 8),
        !.sizet = MkInt("sizet", "N", 2, 1, 3, FALSE),
        !.pdiff = MkInt("pdiff", "I", 2, 1, 2, TRUE),
        !.wchar = MkInt("wchar", "N", 2, 1, 3, TRUE)]

getarch == CASE ARCH = "amd64-sysv" -> amd64_sysv
             [] ARCH = "arm64-sysv" -> arm64_sysv
             [] ARCH = "i386-sysv" -> i386_sysv
             [] ARCH = "z80-scc" -> z80_scc

inttype == getarch.int
uinttype == getarch.uint
chartype == getarch.char
sizettype == getarch.sizet
pdifftype == getarch.pdiff

IsInteger(tp) == "INTEGER" \in tp.props
IsArith(tp) == "ARITH" \in tp.props
IsSigned(tp) == "SIGNED" \in tp.props
IsDefined(tp) == "DEFINED" \in tp.props
Base(tp) == tp.base[1]

\* getlimits(): by signedness and size.
MaxOf(tp) == IF IsSigned(tp) THEN Mask(tp.size) \div 2 - 1
             ELSE Mask(tp.size) - 1
MinOf(tp) == IF IsSigned(tp) THEN -(Mask(tp.size) \div 2) ELSE 0
\* lim->max.i, an unsigned pattern copied to a TINT or compared as unsigned.
MaxWord(tp) == Word(MaxOf(tp))

\* ctype(): the words of a declaration specifier -> the type, NoType = error.
ctype(type, sign, size) ==
    LET a == getarch
    IN  CASE type = "CHAR" ->
               IF size /= "" THEN NoType
               ELSE CASE sign = "" -> a.char
                      [] sign = "SIGNED" -> a.schar
                      [] OTHER -> a.uchar
          [] type = "VOID" -> IF size /= "" \/ sign /= "" THEN NoType
                              ELSE voidtype
          [] type = "BOOL" -> IF size /= "" \/ sign /= "" THEN NoType
                              ELSE a.bool
          [] type \in {"", "INT"} ->
               LET u == sign = "UNSIGNED"
               IN  CASE size = "" -> (IF u THEN a.uint ELSE a.int)
                     [] size = "SHORT" -> (IF u THEN a.ushort ELSE a.short)
                     [] size = "LONG" -> (IF u THEN a.ulong ELSE a.long)
                     [] OTHER -> (IF u THEN a.ullong ELSE a.llong)
          [] type \in {"DOUBLE", "FLOAT"} ->
               IF sign /= "" \/ size = "LLONG" THEN NoType
               ELSE IF type = "DOUBLE"
                    THEN (IF size = "LONG" THEN a.ldouble ELSE a.double)
                    ELSE CASE size = "" -> a.float
                           [] size = "LONG" -> a.double
                           [] OTHER -> NoType

-----------------------------------------------------------------------------
(* Derived types: mktype() and typesize().                                 *)

AlignUp(n, a) == ((n + a - 1) \div a) * a

pvoidtype ==
    [NoType EXCEPT !.op = "PTR", !.letter = "P", !.props = {"DEFINED"},
                   !.size = getarch.pvoid.size, !.align = getarch.pvoid.align,
                   !.base = <<voidtype>>]

Ptr(tp) == [pvoidtype EXCEPT !.base = <<tp>>]

\* n = 0 is an array of unknown size.
Ary(tp, n) ==
    [NoType EXCEPT !.op = "ARY", !.letter = "V", !.elem = n,
                   !.props = IF n /= 0 THEN {"DEFINED"} ELSE {},
                   !.base = <<tp>>, !.size = n * tp.size, !.align = tp.align]

\* pars is the sequence of the parameters' types; an empty one with no
\* prototype is a K&R function.
Ftn(tp, pars, kr) ==
    [NoType EXCEPT !.op = "FTN", !.letter = "F", !.elem = Len(pars),
                   !.props = {"DEFINED"}
                       \cup (IF kr THEN {"K_R"} ELSE {})
                       \cup (IF pars /= <<>> /\ Last(pars) = ellipsistype
                             THEN {"ELLIPSIS"} ELSE {}),
                   !.base = <<tp>>, !.parts = pars]

\* Where typesize() puts the fields of a struct: every offset, and the end.
Layout(op, types) ==
    LET at[i \in 0..Len(types)] ==      \* <<offset of field i, end of it>>
            IF i = 0 THEN <<0, 0>>
            ELSE LET o == IF op = "STRUCT"
                          THEN AlignUp(at[i - 1][2], types[i].align) ELSE 0
                 IN  <<o, o + types[i].size>>
    IN  at

MaxIn(S) == IF S = {} THEN 0 ELSE CHOOSE n \in S : \A m \in S : n >= m

\* A struct or union with these fields, as deftype() completes it.
Aggregate(op, id, fields) ==
    LET types == [i \in DOMAIN fields |-> fields[i].type]
        at == Layout(op, types)
        align == MaxIn({types[i].align : i \in DOMAIN types})
        end == IF op = "STRUCT" THEN at[Len(types)][2]
               ELSE MaxIn({types[i].size : i \in DOMAIN types})
    IN  [NoType EXCEPT !.op = op, !.id = id,
                       !.letter = IF op = "STRUCT" THEN "S" ELSE "U",
                       !.props = {"DEFINED", "AGGREG"}, !.elem = Len(fields),
                       !.align = align,
                       !.size = IF op = "STRUCT" /\ align > 1
                                THEN AlignUp(end, align) ELSE end,
                       !.parts = [i \in DOMAIN fields |->
                                    [name |-> fields[i].name,
                                     type |-> types[i], off |-> at[i][1]]]]

Enum(id) ==
    [NoType EXCEPT !.op = "ENUM", !.id = id, !.letter = inttype.letter,
                   !.props = {"DEFINED", "INTEGER", "ARITH"},
                   !.rank = inttype.rank, !.size = inttype.size,
                   !.align = inttype.align]

-----------------------------------------------------------------------------
(* Compatibility of types: eqtype() and eqfuns().                          *)

RECURSIVE eqtype(_, _, _)

\* A parameter type that the default promotions leave alone.
Unpromoted(p) == CASE p.op = "ELLIPSIS" -> FALSE
                   [] p.op \in {"INT", "ENUM"} -> p.rank >= inttype.rank
                   [] p.op = "FLOAT" -> p /= getarch.float
                   [] OTHER -> TRUE

eqfuns(t1, t2, equiv) ==
    LET kr1 == "K_R" \in t1.props
        kr2 == "K_R" \in t2.props
        ansi == IF kr1 THEN t2 ELSE t1
    IN  /\ \/ /\ ~kr1 /\ ~kr2
              /\ t1.elem = t2.elem
              /\ \A i \in 1..t1.elem : eqtype(t1.parts[i], t2.parts[i], equiv)
           \/ kr1 /\ kr2
           \/ /\ kr1 /= kr2 /\ equiv
              /\ \A i \in DOMAIN ansi.parts : Unpromoted(ansi.parts[i])
        /\ eqtype(Base(t1), Base(t2), equiv)

\* Named aggregates are the same when their tag is; here every one is named.
eqtype(t1, t2, equiv) ==
    \/ t1 = t2
    \/ /\ t1.op = t2.op
       /\ CASE t1.op = "FTN" -> eqfuns(t1, t2, equiv)
            [] t1.op = "ARY" ->
                 /\ \/ equiv /\ (t1.elem = 0 \/ t2.elem = 0)
                    \/ t1.elem = t2.elem
                 /\ eqtype(Base(t1), Base(t2), equiv)
            [] t1.op = "PTR" -> eqtype(Base(t1), Base(t2), equiv)
            [] t1.op \in {"INT", "FLOAT"} -> t1.letter = t2.letter
            [] OTHER -> FALSE

-----------------------------------------------------------------------------
(* The types of cc2: what its tables give for the letter cc1 emits.        *)

Cc2Type(size, align, flags) == [size |-> size, align |-> align, flags |-> flags]

cc2types ==
    [l \in {"C", "I", "W", "Q", "K", "N", "Z", "O", "B", "P", "0", "F", "E"} |->
       CASE l = "C" -> Cc2Type(1, 1, {"SIGN", "INT"})
         [] l = "I" -> Cc2Type(2, 2, {"SIGN", "INT"})
         [] l = "W" -> Cc2Type(4, 4, {"SIGN", "INT"})
         [] l = "Q" -> Cc2Type(8, 8, {"SIGN", "INT"})
         [] l \in {"K", "B"} -> Cc2Type(1, 1, {"INT"})
         [] l = "N" -> Cc2Type(2, 2, {"INT"})
         [] l = "Z" -> Cc2Type(4, 4, {"INT"})
         [] l \in {"O", "P"} -> Cc2Type(8, 8, {"INT"})
         [] l = "F" -> Cc2Type(0, 0, {"FUN"})
         [] l = "E" -> Cc2Type(0, 0, {"FUN", "ELLIPS"})
         [] OTHER -> Cc2Type(0, 0, {})]

=============================================================================
