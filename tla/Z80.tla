-------------------------------- MODULE Z80 --------------------------------
(***************************************************************************)
(* What the bytes of a Z80 program mean: a decoder by the fields x, y, z,  *)
(* p and q of an opcode, as the processor's documentation gives them.  It  *)
(* is the reference for the assembler and shares nothing with its tables.  *)
(*                                                                         *)
(* An instruction is <<mnemonic, operands>>; an operand is <<"r", name>>,  *)
(* <<"i", value>>, <<"ind", register>>, <<"idx", register, displacement>>  *)
(* or <<"dir", address>>.                                                  *)
(***************************************************************************)
EXTENDS Integers, Sequences

R(r) == <<"r", r>>
I(v) == <<"i", v>>
Ind(r) == <<"ind", r>>
Dir(v) == <<"dir", v>>

\* Instruction i in n bytes; n = 0 if the bytes are none.
Ins(mn, args, n) == [i |-> <<mn, args>>, n |-> n]
None == [i |-> <<"", <<>>>>, n |-> 0]

alu == <<"ADD", "ADC", "SUB", "SBC", "AND", "XOR", "OR", "CP">>
rot == <<"RLC", "RRC", "RL", "RR", "SLA", "SRA", "SLL", "SRL">>
cc == <<"NZ", "Z", "NC", "C", "PO", "PE", "P", "M">>
block == [a \in 0..3 |->
            CASE a = 0 -> <<"LDI", "LDD", "LDIR", "LDDR">>
              [] a = 1 -> <<"CPI", "CPD", "CPIR", "CPDR">>
              [] a = 2 -> <<"INI", "IND", "INIR", "INDR">>
              [] a = 3 -> <<"OUTI", "OUTD", "OTIR", "OTDR">>]

\* The register fields; xy is HL, or the index register a prefix selects.
Half(xy, h) == IF xy = "HL" THEN h ELSE IF h = "H" THEN xy \o "H" ELSE xy \o "L"
reg8(xy, f) == R(CASE f = 0 -> "B" [] f = 1 -> "C" [] f = 2 -> "D" [] f = 3 -> "E"
                   [] f = 4 -> Half(xy, "H") [] f = 5 -> Half(xy, "L") [] f = 7 -> "A")
rp(xy, f) == R(CASE f = 0 -> "BC" [] f = 1 -> "DE" [] f = 2 -> xy [] f = 3 -> "SP")
rp2(xy, f) == R(CASE f = 0 -> "BC" [] f = 1 -> "DE" [] f = 2 -> xy [] f = 3 -> "AF")

\* The byte and the word at offset k of b.
Byte(b, k) == IF k <= Len(b) THEN b[k] ELSE 0
Word(b, k) == Byte(b, k) + 256 * Byte(b, k + 1)
Signed(v) == IF v < 128 THEN v ELSE v - 256

\* The operand a field f names: a register, or memory through xy; and the
\* number of displacement bytes it takes.
Mem(xy, b) == IF xy = "HL" THEN Ind("HL") ELSE <<"idx", xy, Byte(b, 2)>>
Disp(xy) == IF xy = "HL" THEN 0 ELSE 1
Field(xy, f, b) == IF f = 6 THEN Mem(xy, b) ELSE reg8(xy, f)
Extra(xy, f) == IF f = 6 THEN Disp(xy) ELSE 0

\* An opcode without a prefix; b starts at the opcode.
Main(xy, b) ==
    LET x == b[1] \div 64
        y == (b[1] \div 8) % 8
        z == b[1] % 8
        p == y \div 2
        q == y % 2
        A == R("A")
    IN
    CASE x = 0 /\ z = 0 ->
           (CASE y = 0 -> Ins("NOP", <<>>, 1)
              [] y = 1 -> Ins("EX", <<R("AF"), R("AF'")>>, 1)
              [] y = 2 -> Ins("DJNZ", <<<<"rel", Signed(Byte(b, 2))>>>>, 2)
              [] y = 3 -> Ins("JR", <<<<"rel", Signed(Byte(b, 2))>>>>, 2)
              [] OTHER -> Ins("JR", <<R(cc[y - 3]), <<"rel", Signed(Byte(b, 2))>>>>, 2))
      [] x = 0 /\ z = 1 -> IF q = 0 THEN Ins("LD", <<rp(xy, p), I(Word(b, 2))>>, 3)
                           ELSE Ins("ADD", <<R(xy), rp(xy, p)>>, 1)
      [] x = 0 /\ z = 2 ->
            LET mem == CASE p = 0 -> Ind("BC") [] p = 1 -> Ind("DE")
                         [] OTHER -> Dir(Word(b, 2))
                reg == IF p = 2 THEN R(xy) ELSE A
            IN  Ins("LD", IF q = 0 THEN <<mem, reg>> ELSE <<reg, mem>>,
                    IF p < 2 THEN 1 ELSE 3)
      [] x = 0 /\ z = 3 -> Ins(IF q = 0 THEN "INC" ELSE "DEC", <<rp(xy, p)>>, 1)
      [] x = 0 /\ z \in {4, 5} -> Ins(IF z = 4 THEN "INC" ELSE "DEC",
                                      <<Field(xy, y, b)>>, 1 + Extra(xy, y))
      [] x = 0 /\ z = 6 -> LET d == Extra(xy, y)
                           IN  Ins("LD", <<Field(xy, y, b), I(Byte(b, 2 + d))>>, 2 + d)
      [] x = 0 /\ z = 7 -> Ins(<<"RLCA", "RRCA", "RLA", "RRA", "DAA", "CPL", "SCF",
                                 "CCF">>[y + 1], <<>>, 1)
      [] x = 1 /\ y = 6 /\ z = 6 -> Ins("HALT", <<>>, 1)
      [] x = 1 /\ ~(y = 6 /\ z = 6) ->
            LET r == IF y = 6 \/ z = 6 THEN "HL" ELSE xy
                f(k) == IF k = 6 THEN Mem(xy, b) ELSE reg8(r, k)
            IN  Ins("LD", <<f(y), f(z)>>, 1 + Extra(xy, y) + Extra(xy, z))
      [] x = 2 -> Ins(alu[y + 1], <<A, Field(xy, z, b)>>, 1 + Extra(xy, z))
      [] x = 3 /\ z = 0 -> Ins("RET", <<R(cc[y + 1])>>, 1)
      [] x = 3 /\ z = 1 ->
            IF q = 0 THEN Ins("POP", <<rp2(xy, p)>>, 1)
            ELSE (CASE p = 0 -> Ins("RET", <<>>, 1)
                    [] p = 1 -> Ins("EXX", <<>>, 1)
                    [] p = 2 -> Ins("JP", <<R(xy)>>, 1)
                    [] p = 3 -> Ins("LD", <<R("SP"), R(xy)>>, 1))
      [] x = 3 /\ z = 2 -> Ins("JP", <<R(cc[y + 1]), I(Word(b, 2))>>, 3)
      [] x = 3 /\ z = 3 ->
           (CASE y = 0 -> Ins("JP", <<I(Word(b, 2))>>, 3)
              [] y = 2 -> Ins("OUT", <<Dir(Byte(b, 2)), A>>, 2)
              [] y = 3 -> Ins("IN", <<A, Dir(Byte(b, 2))>>, 2)
              [] y = 4 -> Ins("EX", <<Ind("SP"), R(xy)>>, 1)
              [] y = 5 -> Ins("EX", <<R("DE"), R("HL")>>, 1)
              [] y = 6 -> Ins("DI", <<>>, 1)
              [] y = 7 -> Ins("EI", <<>>, 1)
              [] OTHER -> None)
      [] x = 3 /\ z = 4 -> Ins("CALL", <<R(cc[y + 1]), I(Word(b, 2))>>, 3)
      [] x = 3 /\ z = 5 -> IF q = 0 THEN Ins("PUSH", <<rp2(xy, p)>>, 1)
                           ELSE IF p = 0 THEN Ins("CALL", <<I(Word(b, 2))>>, 3)
                           ELSE None
      [] x = 3 /\ z = 6 -> Ins(alu[y + 1], <<A, I(Byte(b, 2))>>, 2)
      [] x = 3 /\ z = 7 -> Ins("RST", <<I(8 * y)>>, 1)

\* After the prefix CB; c is the opcode, mem its memory operand.
BitOp(c, operand, n, copy) ==
    LET x == c \div 64
        y == (c \div 8) % 8
    IN  IF x = 0 THEN Ins(rot[y + 1], operand \o copy, n)
        ELSE Ins(<<"BIT", "RES", "SET">>[x], <<I(y)>> \o operand \o
                 (IF x = 1 THEN <<>> ELSE copy), n)

\* After the prefix ED.
Ed(b) ==
    LET x == b[1] \div 64
        y == (b[1] \div 8) % 8
        z == b[1] % 8
        pair == rp("HL", y \div 2)
        q == y % 2
    IN
    CASE x = 1 /\ z = 0 -> Ins("IN", <<IF y = 6 THEN R("F") ELSE reg8("HL", y),
                                       Ind("C")>>, 1)
      [] x = 1 /\ z = 1 -> Ins("OUT", <<Ind("C"), IF y = 6 THEN I(0)
                                                  ELSE reg8("HL", y)>>, 1)
      [] x = 1 /\ z = 2 -> Ins(IF q = 0 THEN "SBC" ELSE "ADC", <<R("HL"), pair>>, 1)
      [] x = 1 /\ z = 3 -> Ins("LD", IF q = 0 THEN <<Dir(Word(b, 2)), pair>>
                                     ELSE <<pair, Dir(Word(b, 2))>>, 3)
      [] x = 1 /\ z = 4 -> Ins("NEG", <<>>, 1)
      [] x = 1 /\ z = 5 -> Ins(IF y = 1 THEN "RETI" ELSE "RETN", <<>>, 1)
      [] x = 1 /\ z = 6 -> Ins("IM", <<I(CASE y % 4 < 2 -> 0 [] y % 4 = 2 -> 1
                                           [] y % 4 = 3 -> 2)>>, 1)
      [] x = 1 /\ z = 7 ->
           (CASE y = 0 -> Ins("LD", <<R("I"), R("A")>>, 1)
              [] y = 1 -> Ins("LD", <<R("R"), R("A")>>, 1)
              [] y = 2 -> Ins("LD", <<R("A"), R("I")>>, 1)
              [] y = 3 -> Ins("LD", <<R("A"), R("R")>>, 1)
              [] y = 4 -> Ins("RRD", <<>>, 1)
              [] y = 5 -> Ins("RLD", <<>>, 1)
              [] OTHER -> None)
      [] x = 2 /\ y >= 4 /\ z < 4 -> Ins(block[z][y - 3], <<>>, 1)
      [] OTHER -> None

Longer(ins, k) == IF ins.n = 0 THEN ins ELSE [ins EXCEPT !.n = @ + k]

\* The instruction at the start of b.
Decode(b) ==
    LET second == Byte(b, 2)
        xy == IF b[1] = 221 THEN "IX" ELSE "IY"
    IN  CASE b = <<>> -> None
          [] b # <<>> /\ b[1] = 203 ->
                BitOp(second, <<Field("HL", second % 8, b)>>, 2, <<>>)
          [] b # <<>> /\ b[1] = 237 -> Longer(Ed(Tail(b) \o <<0>>), 1)
          [] b # <<>> /\ b[1] \in {221, 253} ->
                IF second \in {221, 237, 253} THEN None
                ELSE IF second = 203
                THEN LET f == Byte(b, 4) % 8
                     IN  BitOp(Byte(b, 4), <<<<"idx", xy, Byte(b, 3)>>>>, 4,
                               IF f = 6 THEN <<>> ELSE <<reg8("HL", f)>>)
                ELSE LET ins == Main(xy, Tail(b) \o <<0>>)
                     IN  IF Main("HL", Tail(b) \o <<0>>).i = ins.i THEN None
                         ELSE Longer(ins, 1)
          [] OTHER -> Main("HL", b)

=============================================================================
