-------------------------------- MODULE MCAs --------------------------------
(***************************************************************************)
(* Programs for the assembler, and what they mean.  The reference computes *)
(* the addresses from the lengths of the instructions and asks the decoder *)
(* of module Z80 what the bytes of the sections say.                       *)
(***************************************************************************)
EXTENDS As

CONSTANTS Deviations,       \* the known deviations that the programs may meet
          Chosen(_),        \* the programs of a set that meet no other one
          Right(_, _, _)    \* whether a program gives the sections, or none

D == INSTANCE Z80

-----------------------------------------------------------------------------
(* The source.  An expression is a number, a name, or an operator applied  *)
(* to two of them; an operand is written like the decoder's.               *)

N(v) == <<"num", v>>
V(n) == <<"name", n>>
Bin(op, a, b) == <<"bin", op, a, b>>

RECURSIVE ExprText(_)
ExprText(e) ==
    CASE e[1] = "num" -> <<Number(10, IF e[2] < 10 THEN <<e[2]>>
                                      ELSE IF e[2] < 100 THEN <<e[2] \div 10, e[2] % 10>>
                                      ELSE <<e[2] \div 100, (e[2] \div 10) % 10, e[2] % 10>>)>>
      [] e[1] = "base" -> <<Number(e[2], e[3])>>
      [] e[1] = "name" -> <<Name(e[2])>>
      [] e[1] = "neg" -> <<Ch("-")>> \o ExprText(e[2])
      [] e[1] = "bin" -> ExprText(e[3]) \o <<Ch(e[2])>> \o ExprText(e[4])

OperandText(a) ==
    CASE a[1] = "r" -> <<Name(<<a[2]>>)>>
      [] a[1] = "ind" -> <<Ch("("), Name(<<a[2]>>), Ch(")")>>
      [] a[1] = "i" -> <<Ch("$")>> \o ExprText(a[2])
      [] a[1] = "dir" -> <<Ch("(")>> \o ExprText(a[2]) \o <<Ch(")")>>
      [] a[1] = "idx" -> IF a[3] < 0
                         THEN <<Ch("("), Name(<<a[2]>>), Ch("-")>> \o
                              ExprText(N(-a[3])) \o <<Ch(")")>>
                         ELSE <<Ch("("), Name(<<a[2]>>), Ch("+")>> \o
                              ExprText(N(a[3])) \o <<Ch(")")>>
      [] a[1] = "off" -> ExprText(N(a[3])) \o <<Ch("("), Name(<<a[2]>>), Ch(")")>>
      [] a[1] = "sym" -> <<Name(a[2])>>
      [] a[1] = "str" -> <<Str(a[2])>>

L(label, op, args) == [label |-> label, op |-> op, args |-> args, bad |-> FALSE]
Bare(op, args) == L(<<>>, op, args)
Text(line) == [line EXCEPT !.args = [i \in DOMAIN @ |-> OperandText(@[i])]]

Prog(files, argv) ==
    [src |-> [f \in DOMAIN files |-> [i \in DOMAIN files[f] |-> Text(files[f][i])]],
     ast |-> files, argv |-> argv]

-----------------------------------------------------------------------------
(* The instructions of the processor: their length and the largest value   *)
(* of their immediate, found by decoding every opcode with operands of     *)
(* ones.                                                                   *)

Fixed == {"RST", "IM", "BIT", "SET", "RES", "OUT"}
Shape(i) == <<i[1], [k \in DOMAIN i[2] |->
                       LET a == i[2][k]
                       IN  CASE a[1] = "i" /\ i[1] \notin Fixed -> <<"i">>
                             [] a[1] = "dir" -> <<"dir">>
                             [] a[1] = "idx" -> <<"idx", a[2]>>
                             [] a[1] = "rel" -> <<"i">>
                             [] OTHER -> a]>>

Ones == <<255, 255, 255>>
\* LD HL,(nn) has a longer form after the prefix ED, which is left aside.
Opcodes == {<<o>> \o Ones : o \in 0..255}
           \cup {<<p, o>> \o Ones : p \in {203, 221, 253}, o \in 0..255}
           \cup {<<237, o>> \o Ones : o \in (0..255) \ {99, 107}}
           \cup {<<p, 203, 255, o>> : p \in {221, 253}, o \in 0..255}
Decoded == {<<Shape(d.i), d>> : d \in {D!Decode(b) : b \in Opcodes} \ {D!None}}

Encodings == [s \in {p[1] : p \in Decoded} |-> (CHOOSE p \in Decoded : p[1] = s)[2]]

\* The largest value of the operand k of an instruction.
Largest(s, k) == LET a == Encodings[s].i[2][k]
                 IN  IF a[1] \in {"i", "dir"} THEN a[2] ELSE 65535

-----------------------------------------------------------------------------
(* The meaning of a program.                                               *)

\* The lines in the order in which they are read: included files in place,
\* and nothing after .END.  fine is FALSE if a file is missing or too deep.
RECURSIVE Lines(_, _, _)
Lines(files, f, depth) ==
    LET RECURSIVE From(_)
        From(k) ==
            IF k > Len(files[f]) THEN [ls |-> <<>>, fine |-> TRUE, end |-> FALSE]
            ELSE LET l == files[f][k]
                 IN  CASE l.op = ".END" -> [ls |-> <<[l EXCEPT !.op = ""]>>,
                                            fine |-> TRUE, end |-> TRUE]
                       [] l.op = ".INCLUDE" ->
                            LET a == Lines(files, l.args[1][2], depth + 1)
                                b == From(k + 1)
                                here == <<[l EXCEPT !.op = "", !.args = <<>>]>>
                            IN  IF ~a.fine THEN a
                                ELSE IF a.end THEN [a EXCEPT !.ls = here \o @]
                                ELSE [b EXCEPT !.ls = here \o a.ls \o @]
                       [] OTHER -> [From(k + 1) EXCEPT !.ls = <<l>> \o @]
    IN  IF f \notin DOMAIN files \/ depth > NR_INPUTS
        THEN [ls |-> <<>>, fine |-> FALSE, end |-> FALSE]
        ELSE From(1)

Equ == {".EQU", "="}
Data == [x \in {".DB", ".DW"} |-> IF x = ".DB" THEN 1 ELSE 2]
NoBytes == Equ \cup {"", ".TEXT", ".DATA", ".BSS", ".SECTION", ".GLOBL", ".EXTERN",
                     ".SIZE", ".COMM", ".TYPE"}

\* Up to line k of ls: the section, its position, the last label.
SectionOf(ls, k) ==
    LET at == {j \in 1..(k - 1) : ls[j].op \in {".TEXT", ".DATA", ".BSS", ".SECTION"}}
        l == ls[CHOOSE j \in at : \A i \in at : i <= j]
    IN  IF at = {} THEN <<"", "text">>
        ELSE CASE l.op = ".TEXT" -> <<"", "text">> [] l.op = ".DATA" -> <<"", "data">>
               [] l.op = ".BSS" -> <<"", "bss">> [] l.op = ".SECTION" -> l.args[1][2]

\* The label in whose scope line k is; with its own one if own.
Scope(ls, k, own) ==
    LET at == {j \in 1..(IF own THEN k ELSE k - 1) :
                  ls[j].label # <<>> /\ Head(ls[j].label) # ""}
    IN  IF at = {} THEN <<>> ELSE ls[CHOOSE j \in at : \A i \in at : i <= j].label

Full(n, scope) == IF Head(n) = "" THEN scope \o Tail(n) ELSE n

\* The shape of an instruction before its operands have values.
ShapeOf(l) == Shape(<<l.op, [k \in DOMAIN l.args |->
                               IF l.args[k][1] = "off" THEN <<"idx", l.args[k][2], 0>>
                               ELSE IF l.args[k][1] = "i" /\ l.args[k][2][1] = "num"
                               THEN <<"i", l.args[k][2][2]>> ELSE l.args[k]]>>)

LengthAt(l, pos) ==
    CASE l.op \in NoBytes -> 0
      [] l.op \in DOMAIN Data -> Data[l.op] * Len(l.args)
      [] l.op = ".ASCII" -> Len(l.args[1][2])
      [] l.op = ".ALIGN" -> (-pos) % l.args[1][2][2]
      [] ShapeOf(l) \in DOMAIN Encodings -> Encodings[ShapeOf(l)].n
      [] OTHER -> 0

\* The position of every line in its section.
Positions(ls) ==
    LET pos[k \in 0..Len(ls)] ==
            IF k = 0 THEN <<>>
            ELSE LET s == SectionOf(ls, k)
                     same == {j \in 1..(k - 1) : SectionOf(ls, j) = s}
                     j == CHOOSE j \in same : \A i \in same : i <= j
                 IN  Append(pos[k - 1], IF same = {} THEN 0
                                        ELSE pos[k - 1][j] + LengthAt(ls[j], pos[k - 1][j]))
    IN  pos[Len(ls)]

\* The name that line k defines, <<>> if none.
Defines(ls, k) ==
    IF ls[k].label # <<>> THEN Full(ls[k].label, Scope(ls, k, FALSE))
    ELSE IF ls[k].op = ".EQU" THEN ls[k].args[1][2] ELSE <<>>

RECURSIVE Value(_, _, _, _)
Value(ls, pos, e, k) ==
    CASE e[1] = "num" -> e[2]
      [] e[1] = "base" -> LET v[i \in 0..Len(e[3])] ==
                                IF i = 0 THEN 0 ELSE v[i - 1] * e[2] + e[3][i]
                          IN  v[Len(e[3])]
      [] e[1] = "neg" -> -Value(ls, pos, e[2], k)
      [] e[1] = "bin" ->
            LET a == Value(ls, pos, e[3], k)
                b == Value(ls, pos, e[4], k)
            IN  (CASE e[2] = "+" -> a + b [] e[2] = "-" -> a - b
                   [] e[2] = "*" -> a * b [] e[2] = "|" -> a | b
                   [] e[2] = "^" -> a ^^ b [] e[2] = "&" -> a & b
                   [] e[2] = "=" -> Truth(a = b)
                   [] e[2] = ">" -> Truth(a > b) [] e[2] = "<" -> Truth(a < b))
      [] e[1] = "name" ->
            LET n == Full(e[2], Scope(ls, k, TRUE))
                at == {j \in DOMAIN ls : Defines(ls, j) = n}
                d == CHOOSE j \in at : TRUE
            IN  IF at = {} THEN 0
                ELSE IF ls[d].op \in Equ THEN Value(ls, pos, Last(ls[d].args)[2], d)
                ELSE pos[d]

\* The instruction of line k with its operands evaluated.
Meaning(ls, pos, k) ==
    <<ls[k].op,
      [j \in DOMAIN ls[k].args |->
         LET a == ls[k].args[j]
         IN  CASE a[1] = "i" /\ ls[k].op \in {"JR", "DJNZ"} ->
                    <<"rel", Value(ls, pos, a[2], k) - (pos[k] + 2)>>
               [] a[1] = "i" -> <<"i", Value(ls, pos, a[2], k)>>
               [] a[1] = "dir" -> <<"dir", Value(ls, pos, a[2], k)>>
               [] a[1] \in {"idx", "off"} -> <<"idx", a[2], a[3] % 256>>
               [] OTHER -> a]>>

\* Whether the values of line k fit their places.
Fits(ls, pos, k) ==
    \A j \in DOMAIN ls[k].args :
        LET a == ls[k].args[j]
            v == Value(ls, pos, a[2], k)
        IN  CASE a[1] = "i" /\ ls[k].op = ".DB" -> v \in 0..255
              [] a[1] \in {"idx", "off"} -> a[3] \in -128..127
              [] a[1] = "i" /\ ls[k].op \in {"JR", "DJNZ"} ->
                    v - (pos[k] + 2) \in -128..127
              [] a[1] \in {"i", "dir"} /\ ShapeOf(ls[k]) \in DOMAIN Encodings ->
                    v \in 0..Largest(ShapeOf(ls[k]), j)
              [] a[1] = "i" -> v \in 0..65535
              [] OTHER -> TRUE

IsInstruction(l) == l.op \notin NoBytes \cup DOMAIN Data \cup {".ASCII", ".ALIGN"}

\* The programs that an assembler must accept.
Valid(ls) ==
    LET pos == Positions(ls)
    IN  /\ \A k \in DOMAIN ls : IsInstruction(ls[k]) => ShapeOf(ls[k]) \in DOMAIN Encodings
        /\ \A k \in DOMAIN ls : ~ls[k].bad
        /\ \A k \in DOMAIN ls : ls[k].label # <<>> /\ Head(ls[k].label) = "" =>
              Scope(ls, k, FALSE) # <<>>
        /\ \A j, k \in DOMAIN ls : j # k /\ Defines(ls, j) # <<>> =>
              Defines(ls, j) # Defines(ls, k)
        /\ \A k \in DOMAIN ls : Fits(ls, pos, k)
        /\ \A k \in DOMAIN ls : ls[k].op = "=" => ls[k].label # <<>>
        /\ \A k \in DOMAIN ls : ls[k].op = ".SECTION" =>
              \A j \in DOMAIN ls : Defines(ls, j) # ls[k].args[1][2]
        /\ \A k \in DOMAIN ls : pos[k] + LengthAt(ls[k], pos[k]) <= maxaddr

\* The bytes of section s say what line k says.
Says(ls, pos, k, bytes) ==
    LET at == SubSeq(bytes, pos[k] + 1, Len(bytes))
        l == ls[k]
    IN  CASE l.op \in NoBytes -> TRUE
          [] l.op \in DOMAIN Data ->
                SubSeq(at, 1, LengthAt(l, 0)) =
                FlattenSeq([j \in DOMAIN l.args |->
                  LET v == Value(ls, pos, l.args[j][2], k)
                  IN  IF l.op = ".DB" THEN <<v>> ELSE <<v % 256, v \div 256>>])
          [] l.op = ".ASCII" -> SubSeq(at, 1, LengthAt(l, 0)) = l.args[1][2]
          [] l.op = ".ALIGN" -> \A j \in 1..LengthAt(l, pos[k]) : at[j] = 0
          [] OTHER -> /\ at # <<>>
                      /\ D!Decode(at).i = Meaning(ls, pos, k)

\* The lines of all the operands.
Source(p) ==
    LET all == [i \in DOMAIN p.argv |-> Lines(p.ast, p.argv[i], 1)]
    IN  [ls |-> FlattenSeq([i \in DOMAIN all |-> all[i].ls]),
         fine |-> \A i \in DOMAIN all : all[i].fine]

\* The program is valid and the sections secs have the bytes of its lines, if the
\* assembler accepts it; it is not valid, if it rejects it.
Correct(p, secs, accepted) ==
    LET src == Source(p)
        pos == Positions(src.ls)
        bytes(s) == LET at == {i \in DOMAIN secs : secs[i].name = s}
                    IN  IF at = {} THEN <<>> ELSE secs[CHOOSE i \in at : TRUE].fp
    IN  /\ accepted = (src.fine /\ Valid(src.ls))
        /\ accepted => \A k \in DOMAIN src.ls :
                          Says(src.ls, pos, k, bytes(SectionOf(src.ls, k)))

\* A valid program is accepted, unless the output cannot be written, and the
\* bytes of its sections, if they have been stored, are those of its lines, at the addresses that the
\* references use; any other one is rejected.  The instructions go through the
\* table of ops.dat, match() and the format of their row, the addresses
\* through two passes over the same lines.
Assembled ==
    /\ status \in {"done", "fail"} /\ lost = {} => Right(prog, m.secs, status = "done")
    /\ status \notin {"abort", "crash", "undefined"}

-----------------------------------------------------------------------------
(* Programs.                                                               *)

A == <<"r", "A">>
HL == <<"r", "HL">>
X == <<"X">>
X1 == <<"X", "1">>
Loc == <<"", "1">>
Sec == <<"", "s">>
Imm(e) == <<"i", e>>
NOP == Bare("NOP", <<>>)

\* One instruction of every mnemonic with operands of every kind.
Regs8 == {"A", "B", "C", "H", "L", "IXH", "IYL"}
Regs16 == {"HL", "BC", "SP", "IX", "IY", "AF"}
Operands == {<<"r", r>> : r \in Regs8 \cup Regs16}
            \cup {<<"ind", r>> : r \in {"HL", "DE", "C", "SP"}}
            \cup {Imm(N(7)), Imm(N(300)), <<"dir", N(66)>>, <<"idx", "IX", 5>>,
                  <<"idx", "IY", -3>>, <<"off", "IX", 9>>}
OnlyReg == {<<"r", r>> : r \in {"F", "I", "R", "DE", "AF'", "Z", "NC", "PO", "M"}}

Mnemonics == {op.str : op \in Range(SubSeq(optab, Len(Directives) + 1, Len(optab)))}
Arity(n) == {op.str : op \in {o \in Range(optab) : Len(o.args) = n}} \cap Mnemonics
Relative == {"JR", "DJNZ"}

Instructions ==
    {<<op, <<>>>> : op \in (Mnemonics \ (Arity(1) \cup Arity(2) \cup Arity(3))) \cup {"RET"}}
    \cup {<<op, <<a>>>> : op \in Arity(1) \cup {"NOP"}, a \in Operands \cup OnlyReg}
    \cup {<<op, <<a, b>>>> : op \in {"LD", "EX", "IN", "OUT", "ADD", "SBC", "CP"},
                             a \in Operands \cup OnlyReg, b \in Operands}
    \cup {<<op, <<a, b>>>> : op \in Arity(2) \ Arity(3), a \in {A, HL, Imm(N(3))},
                             b \in Operands}
    \cup {<<op, <<a, b>>>> : op \in {"JP", "CALL", "JR"}, a \in OnlyReg,
                             b \in {Imm(N(30)), A}}
    \cup {<<op, <<Imm(N(n)), b, A>>>> : op \in Arity(3), n \in {2, 9},
                                       b \in {<<"idx", "IX", 5>>, <<"ind", "HL">>}}
    \cup {<<op, <<Imm(N(n))>>>> : op \in {"RST", "IM"}, n \in {0, 1, 2, 8, 56, 64}}

\* The lines of the longer programs.
Pool ==
    {L(X, "NOP", <<>>), L(Loc, "NOP", <<>>), L(<<"Y">>, "", <<>>),
     Bare("JP", <<Imm(V(X))>>), Bare("JP", <<Imm(V(Loc))>>),
     Bare("LD", <<HL, Imm(V(X1))>>), Bare("LD", <<A, Imm(V(X))>>),
     Bare("LD", <<HL, Imm(Bin("+", V(X), N(1)))>>),
     L(X, ".EQU", <<Imm(N(5))>>), L(<<"Y">>, "=", <<Imm(N(300))>>),
     Bare(".EQU", <<<<"sym", X>>, Imm(N(9))>>),
     Bare(".DB", <<Imm(N(1)), Imm(V(<<"Y">>))>>), Bare(".DW", <<Imm(V(X))>>),
     Bare(".DATA", <<>>), Bare(".TEXT", <<>>), Bare(".ALIGN", <<Imm(N(4))>>),
     Bare(".ASCII", <<<<"str", <<65, 66>>>>>>), Bare(".END", <<>>),
     Bare(".SECTION", <<<<"sym", <<"s">>>>, <<"str", {"r", "w", "c"}>>>>),
     Bare(".INCLUDE", <<<<"str", "inc">>>>), Bare(".INCLUDE", <<<<"str", "loop">>>>),
     Bare(".GLOBL", <<<<"sym", X>>>>), [NOP EXCEPT !.bad = TRUE]}
\* The lines of the longest ones.
Core == {L(X, "NOP", <<>>), L(Loc, "NOP", <<>>), L(<<"Y">>, "LD", <<HL, Imm(V(Loc))>>),
         Bare("JP", <<Imm(V(X))>>), Bare(".DATA", <<>>)}

Inc == [inc |-> <<L(<<"W">>, "NOP", <<>>), Bare("JP", <<Imm(V(<<"W">>))>>)>>,
        loop |-> <<Bare(".INCLUDE", <<<<"str", "loop">>>>)>>]
Main(ls) == Prog([f \in {"main", "inc", "loop"} |-> IF f = "main" THEN ls ELSE Inc[f]],
                 <<"main">>)
SeqsOf(S, n) == UNION {[1..k -> S] : k \in 1..n}

Sequences3 == {Main(ls) : ls \in SeqsOf(Pool, 3)}
Sequences5 == {Main(ls) : ls \in [1..5 -> Core]}
Single == {Main(<<Bare(i[1], i[2])>>) : i \in Instructions}

\* Expressions in an immediate operand.
Terms == {N(3), N(6), V(X), <<"base", 8, <<1, 7>>>>, <<"base", 16, <<10, 15>>>>}
Minus2 == <<"neg", N(2)>>
Expressions ==
    {Main(<<L(X, ".EQU", <<Imm(N(5))>>), Bare("LD", <<A, Imm(e)>>)>>) :
        e \in Terms \cup {Minus2}
              \cup {Bin(op, a, b) : op \in {"+", "-", "|", "^", "=", ">"},
                                   a \in Terms, b \in Terms}
              \cup {Bin(op, Minus2, b) : op \in {"+", "-"}, b \in Terms}}

-----------------------------------------------------------------------------
(* The deviations: what the programs of the passing run avoid.             *)

Mentioned(l) == UNION {{x.n : x \in {y \in Range(t) : y.t = "name"}} :
                          t \in {ExprText(a[2]) : a \in {b \in Range(l.args) :
                                     b[1] \in {"i", "dir"}}}}
InSum(l) == {e \in {a[2] : a \in {b \in Range(l.args) : b[1] = "i"}} :
               e[1] \in {"bin", "neg"}}
NamesIn(e) == {x.n : x \in {y \in Range(ExprText(e)) : y.t = "name"}}

Meets(p) ==
    LET src == Source(p)
        ls == src.ls
        known(n, k) == \E j \in DOMAIN ls : Defines(ls, j) = Full(n, Scope(ls, k, TRUE))
        before(n, k) == \E j \in 1..(k - 1) : Defines(ls, j) = Full(n, Scope(ls, k, TRUE))
        op(k) == ls[k].op
    IN  UNION {
          (IF \E n \in Mentioned(ls[k]) : ~known(n, k) THEN {"undefined"} ELSE {})
          \cup (IF \E e \in InSum(ls[k]) : \E n \in NamesIn(e) : ~before(n, k)
                THEN {"forward"} ELSE {})
          \cup (IF \E n \in Mentioned(ls[k]) : Head(n) = "" /\ Scope(ls, k, TRUE) = <<>>
                THEN {"scope"} ELSE {})
          \cup (IF op(k) \in Relative THEN {"relative"} ELSE {})
          \cup (IF op(k) = "IM" /\ ls[k].args # <<>> /\ ls[k].args[1] \notin
                     {Imm(N(i)) : i \in 0..2} THEN {"im"} ELSE {})
          \cup (IF op(k) = "OUT" /\ Len(ls[k].args) = 2 /\ ls[k].args[2][1] = "i"
                   /\ ls[k].args[2] # Imm(N(0)) THEN {"zero"} ELSE {})
          : k \in DOMAIN ls}
        \cup (IF Len(p.argv) > 1 THEN {"files"} ELSE {})

Choose(P) == LET ok(p) == Meets(p) \subseteq Deviations IN {p \in P : ok(p)}

\* Two source files for one output.
TwoFiles == {Prog([f \in {"a", "b"} |-> IF f = "a" THEN <<NOP>> ELSE <<Bare("DI", <<>>)>>],
                  <<"a", "b">>)}

MCInit == \/ Init(Chosen(Sequences3))
          \/ Init(Chosen(Sequences5))
          \/ Init(Chosen(Single))
          \/ Init(Chosen(Expressions))
          \/ Init(Chosen(TwoFiles))

MCSpec == MCInit /\ [][Next]_vars

=============================================================================
