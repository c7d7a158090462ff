------------------------------- MODULE AsZ80 -------------------------------
(***************************************************************************)
(* The Z80 back end of the assembler (src/cmd/as/target/x80): the table of *)
(* instructions, match(), which selects a row for a list of operands, and  *)
(* the functions that format the bytes of an instruction.                  *)
(*                                                                         *)
(* A symbol is [name, value, flags]; an operand is a node: its op, its     *)
(* addressing mode addr and, for a leaf, its symbol sym.  A parse that     *)
(* fails gives a node whose op is "FAIL".                                  *)
(***************************************************************************)
EXTENDS Integers, Sequences, SequencesExt, FiniteSets, Bitwise

\* The registers in the order of iarch(), which is the order of the enum.
regs == <<"AF", "A", "F", "BC", "B", "C", "HL", "H", "L", "DE", "D", "E",
          "IX", "IXL", "IXH", "IY", "IYL", "IYH", "R", "I", "AF'", "SP",
          "NZ", "Z", "NC", "PO", "PE", "P", "M">>

AMAX == 19

\* iarch(): the symbols of the registers.
iarch == {[name |-> <<regs[i]>>, value |-> AMAX + i - 1, flags |-> {"FREG"}] :
             i \in DOMAIN regs}

\* The register whose code is v, "" if v is none.
RegOf(v) == IF v - AMAX + 1 \in DOMAIN regs THEN regs[v - AMAX + 1] ELSE ""

Class ==
    [r  |-> {"A", "B", "C", "D", "E", "H", "L"},
     p  |-> {"A", "B", "C", "D", "E", "IXL", "IXH"},
     q  |-> {"A", "B", "C", "D", "E", "IYL", "IYH"},
     dd |-> {"HL", "BC", "DE", "SP"},
     qq |-> {"HL", "BC", "DE", "AF"},
     pp |-> {"BC", "DE", "SP", "IX"},
     rr |-> {"BC", "DE", "SP", "IY"},
     cc |-> {"C", "PO", "PE", "P", "M", "NZ", "Z", "NC"},
     ss |-> {"C", "NZ", "Z", "NC"}]

\* The classes of a node; no class unless it is a register.
getclass(np) == IF np.addr # "AREG" THEN {}
                ELSE {c \in DOMAIN Class : RegOf(np.sym.value) \in Class[c]}

-----------------------------------------------------------------------------
(* ops.dat: the rows of an instruction are in the order in which the table *)
(* generator leaves them.                                                  *)

Op(str, args, size, bytes, format) ==
    [str |-> str, args |-> args, size |-> size, bytes |-> bytes, format |-> format]

Plain(str, bytes) == Op(str, <<>>, Len(bytes), bytes, "noargs")

Alu(str, b) ==
    <<Op(str, <<"A", "r">>, 1, <<b>>, "alu8"),
      Op(str, <<"A", "p">>, 2, <<221, b>>, "alu8"),
      Op(str, <<"A", "q">>, 2, <<253, b>>, "alu8"),
      Op(str, <<"A", "imm8">>, 2, <<b + 70>>, "alu8"),
      Op(str, <<"A", "(HL)">>, 1, <<b + 6>>, "alu8"),
      Op(str, <<"A", "(IX+n)">>, 3, <<221, b + 6>>, "alu8"),
      Op(str, <<"A", "(IY+n)">>, 3, <<253, b + 6>>, "alu8")>>

IncDec(str, b, w) ==
    <<Op(str, <<"r">>, 1, <<b>>, "alu8"),
      Op(str, <<"p">>, 2, <<221, b>>, "alu8"),
      Op(str, <<"q">>, 2, <<253, b>>, "alu8"),
      Op(str, <<"(HL)">>, 1, <<b + 48>>, "alu8"),
      Op(str, <<"(IX+n)">>, 3, <<221, b + 48>>, "alu8"),
      Op(str, <<"(IY+n)">>, 3, <<253, b + 48>>, "alu8"),
      Op(str, <<"dd">>, 1, <<w>>, "alu16"),
      Op(str, <<"IX">>, 2, <<221, w + 32>>, "alu16"),
      Op(str, <<"IY">>, 2, <<253, w + 32>>, "alu16")>>

\* Rotations (pre = <<>>) and bit instructions (pre = <<"imm3">>).
Rot(str, pre, b) ==
    <<Op(str, pre \o <<"r">>, 2, <<203, b>>, "rot_bit"),
      Op(str, pre \o <<"(HL)">>, 2, <<203, b + 6>>, "rot_bit"),
      Op(str, pre \o <<"(IX+n)">>, 4, <<221, 203, 0, b + 6>>, "rot_bit"),
      Op(str, pre \o <<"(IY+n)">>, 4, <<253, 203, 0, b + 6>>, "rot_bit")>>
    \o IF str = "BIT" THEN <<>>
       ELSE <<Op(str, pre \o <<"(IX+n)", "r">>, 4, <<221, 203, 0, b>>, "rot_bit"),
              Op(str, pre \o <<"(IY+n)", "r">>, 4, <<253, 203, 0, b>>, "rot_bit")>>

Load ==
    <<Op("LD", <<"IY", "imm16">>, 4, <<253, 33>>, "ld16"),
      Op("LD", <<"HL", "(n)">>, 3, <<42>>, "ld16"),
      Op("LD", <<"dd", "(n)">>, 4, <<237, 75>>, "ld16"),
      Op("LD", <<"IX", "(n)">>, 4, <<221, 42>>, "ld16"),
      Op("LD", <<"IY", "(n)">>, 4, <<253, 42>>, "ld16"),
      Op("LD", <<"(n)", "HL">>, 3, <<34>>, "ld16"),
      Op("LD", <<"(n)", "dd">>, 4, <<237, 67>>, "ld16"),
      Op("LD", <<"(n)", "IX">>, 4, <<221, 34>>, "ld16"),
      Op("LD", <<"(n)", "IY">>, 4, <<253, 34>>, "ld16"),
      Op("LD", <<"SP", "HL">>, 1, <<249>>, "noargs"),
      Op("LD", <<"SP", "IX">>, 2, <<221, 249>>, "noargs"),
      Op("LD", <<"SP", "IY">>, 2, <<253, 249>>, "noargs"),
      Op("LD", <<"r", "imm8">>, 2, <<6>>, "ld8"),
      Op("LD", <<"p", "imm8">>, 3, <<221, 6>>, "ld8"),
      Op("LD", <<"q", "imm8">>, 3, <<253, 6>>, "ld8"),
      Op("LD", <<"(HL)", "imm8">>, 2, <<54>>, "ld8"),
      Op("LD", <<"r", "r">>, 1, <<64>>, "ld8"),
      Op("LD", <<"p", "p">>, 2, <<221, 64>>, "ld8"),
      Op("LD", <<"q", "q">>, 2, <<253, 64>>, "ld8"),
      Op("LD", <<"(HL)", "r">>, 1, <<112>>, "ld8"),
      Op("LD", <<"r", "(HL)">>, 1, <<70>>, "ld8"),
      Op("LD", <<"r", "(IX+n)">>, 3, <<221, 70>>, "idx"),
      Op("LD", <<"r", "(IY+n)">>, 3, <<253, 70>>, "idx"),
      Op("LD", <<"(IX+n)", "r">>, 3, <<221, 112>>, "idx"),
      Op("LD", <<"(IY+n)", "r">>, 3, <<253, 112>>, "idx"),
      Op("LD", <<"(IX+n)", "imm8">>, 4, <<221, 54>>, "idx"),
      Op("LD", <<"(IY+n)", "imm8">>, 4, <<253, 54>>, "idx"),
      Op("LD", <<"A", "(BC)">>, 1, <<10>>, "noargs"),
      Op("LD", <<"A", "(DE)">>, 1, <<26>>, "noargs"),
      Op("LD", <<"A", "(n)">>, 3, <<58>>, "dir"),
      Op("LD", <<"(BC)", "A">>, 1, <<2>>, "noargs"),
      Op("LD", <<"(DE)", "A">>, 1, <<18>>, "noargs"),
      Op("LD", <<"(n)", "A">>, 3, <<50>>, "dir"),
      Op("LD", <<"A", "I">>, 2, <<237, 87>>, "noargs"),
      Op("LD", <<"A", "R">>, 2, <<237, 95>>, "noargs"),
      Op("LD", <<"I", "A">>, 2, <<237, 71>>, "noargs"),
      Op("LD", <<"R", "A">>, 2, <<237, 79>>, "noargs"),
      Op("LD", <<"dd", "imm16">>, 3, <<1>>, "ld16"),
      Op("LD", <<"IX", "imm16">>, 4, <<221, 33>>, "ld16")>>

PushPop(str, b) ==
    <<Op(str, <<"qq">>, 1, <<b>>, "ld16"),
      Op(str, <<"IX">>, 2, <<221, b + 32>>, "ld16"),
      Op(str, <<"IY">>, 2, <<253, b + 32>>, "ld16")>>

Arith16 ==
    <<Op("ADD", <<"HL", "dd">>, 1, <<9>>, "alu16"),
      Op("ADD", <<"IX", "pp">>, 2, <<221, 9>>, "alu16"),
      Op("ADD", <<"IY", "rr">>, 2, <<253, 9>>, "alu16"),
      Op("ADC", <<"HL", "dd">>, 2, <<237, 74>>, "alu16"),
      Op("SBC", <<"HL", "dd">>, 2, <<237, 66>>, "alu16")>>

Control ==
    <<Plain("DAA", <<39>>), Plain("CPL", <<47>>), Plain("NEG", <<237, 68>>),
      Plain("CCF", <<63>>), Plain("SCF", <<55>>), Plain("NOP", <<0>>),
      Plain("HALT", <<118>>), Plain("DI", <<243>>), Plain("EI", <<251>>),
      Op("IM", <<"imm8">>, 2, <<237, 70>>, "im"),
      Op("EX", <<"DE", "HL">>, 1, <<235>>, "noargs"),
      Op("EX", <<"AF", "AF'">>, 1, <<8>>, "noargs"),
      Plain("EXX", <<217>>),
      Op("EX", <<"(SP)", "HL">>, 1, <<227>>, "noargs"),
      Op("EX", <<"(SP)", "IX">>, 2, <<221, 227>>, "noargs"),
      Op("EX", <<"(SP)", "IY">>, 2, <<253, 227>>, "noargs"),
      Plain("LDI", <<237, 160>>), Plain("LDIR", <<237, 176>>),
      Plain("LDD", <<237, 168>>), Plain("LDDR", <<237, 184>>),
      Plain("CPI", <<237, 161>>), Plain("CPIR", <<237, 177>>),
      Plain("CPD", <<237, 169>>), Plain("CPDR", <<237, 185>>),
      Plain("RLCA", <<7>>), Plain("RLA", <<23>>), Plain("RRCA", <<15>>),
      Plain("RRA", <<31>>), Plain("RLD", <<237, 111>>), Plain("RRD", <<237, 103>>)>>

InOut ==
    <<Op("IN", <<"A", "(n)">>, 2, <<219>>, "inout"),
      Op("IN", <<"r", "(C)">>, 2, <<237, 64>>, "inout"),
      Op("IN", <<"F", "(C)">>, 2, <<237, 112>>, "inout"),
      Plain("INI", <<237, 162>>), Plain("INIR", <<237, 178>>),
      Plain("IND", <<237, 170>>), Plain("INDR", <<237, 186>>),
      Op("OUT", <<"(n)", "A">>, 2, <<211>>, "inout"),
      Op("OUT", <<"(C)", "r">>, 2, <<237, 65>>, "inout"),
      Op("OUT", <<"(C)", "0">>, 2, <<237, 113>>, "inout"),
      Plain("OUTI", <<237, 163>>), Plain("OTIR", <<237, 179>>),
      Plain("OUTD", <<237, 171>>), Plain("OTDR", <<237, 187>>)>>

Jump ==
    <<Op("JP", <<"imm16">>, 3, <<195>>, "jp"),
      Op("JP", <<"cc", "imm16">>, 3, <<194>>, "jp"),
      Op("JR", <<"imm16">>, 2, <<24>>, "jr"),
      Op("JR", <<"ss", "imm16">>, 2, <<0>>, "jr"),
      Op("JP", <<"HL">>, 1, <<233>>, "noargs"),
      Op("JP", <<"IX">>, 2, <<221, 233>>, "noargs"),
      Op("JP", <<"IY">>, 2, <<253, 233>>, "noargs"),
      Op("DJNZ", <<"imm16">>, 2, <<16>>, "jr"),
      Op("CALL", <<"imm16">>, 3, <<205>>, "jp"),
      Op("CALL", <<"cc", "imm16">>, 3, <<196>>, "jp"),
      Plain("RET", <<201>>), Op("RET", <<"cc">>, 1, <<192>>, "jp"),
      Plain("RETI", <<237, 77>>), Plain("RETN", <<237, 69>>),
      Op("RST", <<"rst">>, 1, <<199>>, "rst")>>

\* The directives, each under one of its names; "+" stands for AREP and "?"
\* for AOPT before the operand.
Directives ==
    <<Op(".SECTION", <<"sym", "?", "string">>, 0, <<>>, "section"),
      Op(".TEXT", <<>>, 0, <<>>, "text"), Op(".DATA", <<>>, 0, <<>>, "data"),
      Op(".BSS", <<>>, 0, <<>>, "bss"),
      Op(".DB", <<"+", "imm8">>, 0, <<>>, "defb"),
      Op(".DW", <<"+", "imm16">>, 0, <<>>, "defw"),
      Op(".DD", <<"+", "imm32">>, 0, <<>>, "defd"),
      Op(".DQ", <<"+", "imm64">>, 0, <<>>, "defq"),
      Op(".EQU", <<"sym", "imm16">>, 0, <<>>, "equ"),
      Op(".EQU", <<"imm16">>, 0, <<>>, "equ"),
      Op("=", <<"imm16">>, 0, <<>>, "equ"),
      Op(".SIZE", <<"sym", "imm16">>, 0, <<>>, "size"),
      Op(".SIZE", <<"imm16">>, 0, <<>>, "size"),
      Op(".COMM", <<"sym", "imm16">>, 0, <<>>, "common"),
      Op(".COMM", <<"imm16">>, 0, <<>>, "common"),
      Op(".TYPE", <<"sym", "imm16">>, 0, <<>>, "type"),
      Op(".TYPE", <<"imm16">>, 0, <<>>, "type"),
      Op(".GLOBL", <<"+", "sym">>, 0, <<>>, "global"),
      Op(".EXTERN", <<"+", "sym">>, 0, <<>>, "extrn"),
      Op(".ASCII", <<"+", "string">>, 0, <<>>, "ascii"),
      Op(".ALIGN", <<"+", "imm16">>, 0, <<>>, "align"),
      Op(".END", <<>>, 0, <<>>, "end"),
      Op(".INCLUDE", <<"string">>, 0, <<>>, "include")>>

optab ==
    Directives \o Load \o PushPop("PUSH", 197) \o PushPop("POP", 193)
    \o Alu("ADD", 128) \o Alu("ADC", 136) \o Alu("SUB", 144) \o Alu("SBC", 152)
    \o Alu("AND", 160) \o Alu("OR", 176) \o Alu("XOR", 168) \o Alu("CP", 184)
    \o IncDec("INC", 4, 3) \o IncDec("DEC", 5, 11) \o Arith16 \o Control
    \o Rot("RLC", <<>>, 0) \o Rot("RL", <<>>, 16) \o Rot("RRC", <<>>, 8)
    \o Rot("RR", <<>>, 24) \o Rot("SLA", <<>>, 32) \o Rot("SLL", <<>>, 48)
    \o Rot("SRA", <<>>, 40) \o Rot("SRL", <<>>, 56) \o Rot("BIT", <<"imm3">>, 64)
    \o Rot("SET", <<"imm3">>, 192) \o Rot("RES", <<"imm3">>, 128)
    \o InOut \o Jump

\* decode(): the rows of an instruction, found through the perfect hash.
instab == [str \in {op.str : op \in Range(optab)} |->
             SelectSeq(optab, LAMBDA op : op.str = str)]
decode(str) == IF str \in DOMAIN instab THEN instab[str] ELSE <<>>

-----------------------------------------------------------------------------
(* Selection of a row.  The result is "yes", "no", or how it fails.        *)

\* The bound of an immediate of nbits bits; nothing is small enough for 64.
toobig(np, arg) == CASE arg = "imm3" -> np.sym.value > 7
                     [] arg = "imm8" -> np.sym.value > 255
                     [] arg = "imm16" -> np.sym.value > 65535
                     [] arg = "imm32" -> FALSE
                     [] arg = "imm64" -> TRUE

Indirect == [a \in {"(C)", "(HL)", "(DE)", "(BC)", "(IX)", "(IY)", "(SP)"} |->
               CASE a = "(C)" -> "C" [] a = "(HL)" -> "HL" [] a = "(DE)" -> "DE"
                 [] a = "(BC)" -> "BC" [] a = "(IX)" -> "IX" [] a = "(IY)" -> "IY"
                 [] a = "(SP)" -> "SP"]

IsReg(np, r) == np.addr = "AREG" /\ RegOf(np.sym.value) = r

Answer(b) == IF b THEN "yes" ELSE "no"

\* What the operand np is to the pattern arg.  The index of (IX+n) is not
\* checked: the code hands the register to toobig().
MatchArg(arg, np) ==
    CASE arg \in {"?", "+"} -> "yes"
      [] arg \in DOMAIN Indirect ->
            Answer(np.addr = "AINDIR" /\ IsReg(np.left, Indirect[arg]))
      [] arg \in DOMAIN Class -> Answer(arg \in getclass(np))
      [] arg \in {"(IX+n)", "(IY+n)"} ->
            Answer(/\ np.addr = "AINDEX"
                   /\ IsReg(np.left.left, IF arg = "(IX+n)" THEN "IX" ELSE "IY"))
      [] arg = "rst" -> Answer(np.addr = "AIMM" /\ np.sym.value \in {8 * i : i \in 0..7})
      [] arg = "0" -> Answer(np.addr = "AIMM")
      [] arg \in {"imm3", "imm8", "imm16", "imm32", "imm64"} ->
            IF np.addr # "AIMM" THEN "no"
            ELSE IF toobig(np, arg) THEN "error" ELSE "yes"
      [] arg = "sym" -> Answer(np.op = "IDEN")
      [] arg = "(n)" -> Answer(np.addr = "ADIRECT")
      [] arg = "string" -> Answer(np.addr = "ASTR")
      [] OTHER -> Answer(IsReg(np, arg))

\* From pattern p and argument a on.  A repetition never leaves its pattern,
\* and the mark of a repetition or of an option takes an argument itself.
RECURSIVE MatchFrom(_, _, _, _, _, _)
MatchFrom(pat, p, args, a, rep, opt) ==
    IF p > Len(pat) THEN Answer(a > Len(args))
    ELSE IF a > Len(args) THEN Answer(rep \/ opt)
    ELSE LET m == MatchArg(pat[p], args[a])
         IN  IF m # "yes" THEN m
             ELSE MatchFrom(pat, IF rep THEN p ELSE p + 1, args, a + 1,
                            rep \/ pat[p] = "+", opt \/ pat[p] = "?")

\* A line without operands has args = NULL (<<>>), which is read unless the row has
\* no pattern.
match(op, args) ==
    IF op.args = <<>> THEN Answer(args = <<>>)
    ELSE IF args = <<>> THEN "crash"
    ELSE MatchFrom(op.args, 1, args, 1, FALSE, FALSE)

-----------------------------------------------------------------------------
(* The formats.  buf is the bytes of the row up to its size.               *)

Buf(op) == [i \in 1..op.size |-> IF i \in DOMAIN op.bytes THEN op.bytes[i] ELSE 0]
SetAt(buf, i, v) == [buf EXCEPT ![i] = v % 256]
OrAt(buf, i, v) == [buf EXCEPT ![i] = (@ | v) % 256]

reg2int(np) ==
    LET r == RegOf(np.sym.value)
    IN  CASE r \in {"F", "B", "BC"} -> 0
          [] r \in {"C", "DE"} -> 1
          [] r \in {"D", "HL", "IX", "IY"} -> 2
          [] r \in {"E", "AF", "SP"} -> 3
          [] r \in {"IXH", "IYH", "H"} -> 4
          [] r \in {"IXL", "IYL", "L"} -> 5
          [] r = "A" -> 7

cc2int(np) == LET r == RegOf(np.sym.value)
              IN  CASE r = "NZ" -> 0 [] r = "Z" -> 1 [] r = "NC" -> 2 [] r = "C" -> 3
                    [] r = "PO" -> 4 [] r = "PE" -> 5 [] r = "P" -> 6 [] r = "M" -> 7

ss2int(np) == LET r == RegOf(np.sym.value)
              IN  CASE r = "NZ" -> 4 [] r = "Z" -> 5 [] r = "NC" -> 6 [] r = "C" -> 7

Lo(v) == v % 256
Hi(v) == (v \div 256) % 256

noargs(op, args) == Buf(op)

dir(op, args) ==
    LET imm == IF Len(args) > 1 /\ args[2].addr = "ADIRECT" THEN args[2] ELSE args[1]
        val == imm.left.sym.value
    IN  SetAt(SetAt(Buf(op), op.size, Hi(val)), op.size - 1, Lo(val))

ld8(op, args) ==
    LET reg(np) == IF np.addr = "AREG" THEN reg2int(np) ELSE 0
        imm == args[2].addr = "AIMM"
        buf == IF imm THEN SetAt(Buf(op), op.size, args[2].sym.value) ELSE Buf(op)
    IN  OrAt(buf, IF imm THEN op.size - 1 ELSE op.size,
           (8 * reg(args[1])) | reg(args[2]))

alu16(op, args) == OrAt(Buf(op), op.size, 16 * reg2int(args[Len(args)]))

ld16(op, args) ==
    IF Len(args) = 1 THEN alu16(op, args)
    ELSE LET dst == IF args[1].addr # "AREG" THEN args[2] ELSE args[1]
             src == IF args[1].addr # "AREG" THEN args[1] ELSE args[2]
             val == IF src.addr = "ADIRECT" THEN src.left.sym.value ELSE src.sym.value
             n == op.size
         IN  OrAt(SetAt(SetAt(Buf(op), n, Hi(val)), n - 1, Lo(val)), n - 2,
                16 * reg2int(dst))

alu8(op, args) ==
    LET par == args[Len(args)]
        val == CASE par.addr = "AIMM" -> par.sym.value
                 [] par.addr = "AREG" -> IF Len(args) > 1 THEN reg2int(par)
                                         ELSE 8 * reg2int(par)
                 [] par.addr = "AINDEX" -> par.left.right.sym.value
                 [] par.addr = "AINDIR" -> 0
    IN  OrAt(Buf(op), op.size, Lo(val))

idx(op, args) ==
    LET first == args[1].addr = "AINDEX"
        other == IF first THEN args[2] ELSE args[1]
        off == (IF first THEN args[1] ELSE args[2]).left.right.sym.value
        n == op.size
    IN  IF other.addr = "AREG"
        THEN OrAt(SetAt(Buf(op), n, Lo(off)), n - 1,
                (IF first THEN 1 ELSE 8) * reg2int(other))
        ELSE SetAt(SetAt(Buf(op), n, other.sym.value), n - 1, Lo(off))

inout(op, args) ==
    LET first == args[1].addr \in {"ADIRECT", "AINDIR"}
        port == IF first THEN args[1] ELSE args[2]
        value == IF first THEN args[2] ELSE args[1]
        val == IF port.addr = "ADIRECT" THEN port.left.sym.value
               ELSE IF value.addr = "AREG" THEN 8 * reg2int(value) ELSE 0
    IN  OrAt(Buf(op), op.size, Lo(val))

rot_bit(op, args) ==
    LET imm == args[1].addr = "AIMM"
        par == args[IF imm THEN 2 ELSE 1]
        rest == SubSeq(args, IF imm THEN 3 ELSE 2, Len(args))
        n == op.size
        buf == IF imm THEN OrAt(Buf(op), n, 8 * args[1].sym.value) ELSE Buf(op)
    IN  CASE par.addr = "AINDEX" ->
               LET b == SetAt(buf, n - 1, Lo(par.left.right.sym.value))
               IN  IF rest = <<>> THEN b ELSE OrAt(b, n, reg2int(rest[1]))
          [] par.addr = "AREG" -> OrAt(buf, n, reg2int(par))
          [] par.addr = "AINDIR" -> buf

im(op, args) == LET v == args[1].sym.value
                IN  OrAt(Buf(op), op.size, 8 * (IF v > 0 THEN v + 1 ELSE v))

\* Jumps; pc is the address of the instruction and m the modulus of TUINT.
branch(relative, op, args, pc, m) ==
    LET flag == args[1].addr = "AREG"
        imm == ~flag \/ Len(args) > 1
        v == args[Len(args)].sym.value
        val == IF relative THEN (v - (pc - 2)) % m ELSE v
        n == op.size
        buf == CASE ~imm -> Buf(op)
                 [] imm /\ relative -> SetAt(Buf(op), n, val)
                 [] OTHER -> SetAt(SetAt(Buf(op), n, Hi(val)), n - 1, Lo(val))
        i == IF ~imm THEN n ELSE IF relative THEN n - 1 ELSE n - 2
    IN  IF ~flag THEN buf
        ELSE OrAt(buf, i, 8 * (IF relative THEN ss2int(args[1]) ELSE cc2int(args[1])))

rst(op, args) == <<Lo(op.bytes[1] | args[1].sym.value)>>

\* The bytes of an instruction.
Format(op, args, pc, m) ==
    CASE op.format = "noargs" -> noargs(op, args)
      [] op.format = "dir" -> dir(op, args)
      [] op.format = "ld8" -> ld8(op, args)
      [] op.format = "ld16" -> ld16(op, args)
      [] op.format = "alu8" -> alu8(op, args)
      [] op.format = "alu16" -> alu16(op, args)
      [] op.format = "idx" -> idx(op, args)
      [] op.format = "inout" -> inout(op, args)
      [] op.format = "rot_bit" -> rot_bit(op, args)
      [] op.format = "im" -> im(op, args)
      [] op.format = "jp" -> branch(FALSE, op, args, pc, m)
      [] op.format = "jr" -> branch(TRUE, op, args, pc, m)
      [] op.format = "rst" -> rst(op, args)

=============================================================================
