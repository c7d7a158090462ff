------------------------------ MODULE AsParser ------------------------------
(***************************************************************************)
(* The operands of a line of assembler (src/cmd/as/parser.c, expr.c and    *)
(* moperand() of target/x80/ins.c).                                        *)
(*                                                                         *)
(* The text of an operand is a sequence of lexemes: a name, a number (its  *)
(* base and digits), a string, or one character.  The name ".x" is the     *)
(* sequence <<"", "x">> and "L.x" is <<"L", "x">>.                         *)
(***************************************************************************)
EXTENDS AsZ80

CONSTANTS TUINT_MAX,   \* the largest address; one less than a power of two
          NARGS        \* the slots of the array of arguments

Wrap(v) == v % (TUINT_MAX + 1)

Name(n) == [t |-> "name", n |-> n]
Number(base, ds) == [t |-> "num", base |-> base, ds |-> ds]
Str(s) == [t |-> "str", s |-> s]
Ch(c) == [t |-> "ch", c |-> c]

Fail(how) == [op |-> "FAIL", addr |-> "FAIL", how |-> how]
Failed(np) == np.op = "FAIL"

\* lookup() of a local name puts the last label in front of it.
Resolve(n, cursym) == IF Head(n) = "" /\ cursym # <<>> THEN cursym \o Tail(n) ELSE n

\* The nodes; a number's symbol is temporary and absolute.
Leaf(op, addr, sym) == [op |-> op, addr |-> addr, sym |-> sym]
tmpsym(v) == [name |-> <<>>, value |-> v, flags |-> {"FABS"}]
Num(v) == Leaf("NUMBER", "ANUMBER", tmpsym(v))

\* number(): a digit may be as large as the base.
number(lex) ==
    LET RECURSIVE Digits(_, _)
        Digits(n, i) ==
            IF i > Len(lex.ds) THEN Num(n)
            ELSE IF \/ lex.ds[i] > lex.base
                    \/ n >= TUINT_MAX \div lex.base - lex.ds[i] THEN Fail("error")
            ELSE Digits(n * lex.base + lex.ds[i], i + 1)
    IN  Digits(0, 1)

\* operator(): follow() moves on to the second character but the token ends
\* after the first, so the second one is read again.
operator(ts, i) ==
    LET follow == IF i < Len(ts) /\ ts[i + 1].t = "ch" THEN ts[i + 1].c ELSE ""
    IN  CASE ts[i].c = ">" -> IF follow = "=" THEN "LE"
                              ELSE IF follow = ">" THEN "SHL" ELSE ">"
          [] ts[i].c = "<" -> IF follow = "=" THEN "GE"
                              ELSE IF follow = "<" THEN "SHR" ELSE ">"
          [] OTHER -> ts[i].c

\* The symbol of a name; S maps the names of the line to symbols.
iden(S, cursym, lex) == S[Resolve(lex.n, cursym)]

\* next(): the token at position i.
Token(S, cursym, ts, i) ==
    IF i > Len(ts) THEN "EOS"
    ELSE CASE ts[i].t = "name" -> IF "FREG" \in iden(S, cursym, ts[i]).flags
                                  THEN "REG" ELSE "IDEN"
           [] ts[i].t = "num" -> "NUMBER"
           [] ts[i].t = "str" -> "STRING"
           [] ts[i].t = "ch" -> operator(ts, i)

-----------------------------------------------------------------------------
(* Expressions.                                                            *)

constant(np) == np.op = "NUMBER" \/ (np.op = "IDEN" /\ "FDEF" \in np.sym.flags)

Truth(b) == IF b THEN 1 ELSE 0

\* fold(): '*' subtracts and '&' has no case.
fold(op, l, r) ==
    LET lv == l.sym.value
        rv == r.sym.value
    IN  CASE op \in {"/", "%"} /\ rv = 0 -> Fail("error")
          [] op = "/" -> Num(lv \div rv)
          [] op = "%" -> Num(lv % rv)
          [] op \in {"*", "-"} -> Num(Wrap(lv - rv))
          [] op = "+" -> Num(Wrap(lv + rv))
          [] op = "SHL" -> Num(Wrap(lv * 2^rv))
          [] op = "SHR" -> Num(lv \div 2^rv)
          [] op = ">" -> Num(Truth(lv > rv))
          [] op = "=" -> Num(Truth(lv = rv))
          [] op = "GE" -> Num(Truth(lv >= rv))
          [] op = "LE" -> Num(Truth(lv <= rv))
          [] op = "|" -> Num(lv | rv)
          [] op = "^" -> Num(lv ^^ rv)
          [] op = "&" -> Fail("abort")

\* binary(): what cannot be folded aborts the assembler.
binary(op, l, r) == IF Failed(l) THEN l ELSE IF Failed(r) THEN r
                    ELSE IF constant(l) /\ constant(r) THEN fold(op, l, r)
                    ELSE Fail("abort")

\* unaryop(): the node made for a name has no symbol; all its uses read one.
unaryop(op, np) ==
    IF Failed(np) THEN np
    ELSE IF np.op # "NUMBER" THEN Fail("crash")
    ELSE Num(CASE op = "!" -> Truth(np.sym.value = 0)
               [] op = "+" -> np.sym.value
               [] op = "-" -> Wrap(-np.sym.value))

BinaryOps == [mul |-> {"*", "/", "%", "SHL", "SHR"}, add |-> {"+", "-"},
              relational |-> {"<", ">", "=", "GE", "LE"}, and |-> {"&"},
              expr |-> {"|", "^"}]

Below == [expr |-> "and", and |-> "relational", relational |-> "add", add |-> "mul"]

At(np, i) == [np |-> np, i |-> i]

\* primary(): '(' is not consumed, and the recursion does not end.
primary(S, cursym, ts, i) ==
    LET tok == Token(S, cursym, ts, i)
    IN  CASE tok = "IDEN" -> At(Leaf("IDEN", "ANUMBER", iden(S, cursym, ts[i])), i + 1)
          [] tok = "NUMBER" -> At(number(ts[i]), i + 1)
          [] tok = "(" -> At(Fail("crash"), i)
          [] OTHER -> At(Fail("error"), i)

unary(S, cursym, ts, i) ==
    LET tok == Token(S, cursym, ts, i)
    IN  IF tok \in {"!", "-", "+"}
        THEN LET r == primary(S, cursym, ts, i + 1) IN At(unaryop(tok, r.np), r.i)
        ELSE primary(S, cursym, ts, i)

\* mul(), add(), relational(), and(), expr(): an operand, and as long as an
\* operator of the level follows, another one.  mul() drops the result of
\* binary() and goes on with the node that binary() has freed.
RECURSIVE Level(_, _, _, _, _)
Level(l, S, cursym, ts, i) ==
    LET RECURSIVE Rest(_)
        Rest(r) ==
            LET tok == Token(S, cursym, ts, r.i)
                s == IF l = "mul" THEN primary(S, cursym, ts, r.i + 1)
                     ELSE Level(Below[l], S, cursym, ts, r.i + 1)
                np == binary(tok, r.np, s.np)
            IN  IF Failed(r.np) \/ tok \notin BinaryOps[l] THEN r
                ELSE Rest(At(IF l = "mul" /\ ~Failed(np) THEN Fail("undefined")
                             ELSE np, s.i))
    IN  Rest(IF l = "mul" THEN unary(S, cursym, ts, i)
             ELSE Level(Below[l], S, cursym, ts, i))

expr(S, cursym, ts, i) == Level("expr", S, cursym, ts, i)

-----------------------------------------------------------------------------
(* Operands.                                                               *)

getreg(S, cursym, ts, i) ==
    IF Token(S, cursym, ts, i) = "REG"
    THEN At(Leaf("REG", "AREG", iden(S, cursym, ts[i])), i + 1)
    ELSE At(Fail("error"), i)

\* The end of moperand(): the closing parenthesis and the node.
Close(S, cursym, ts, r, np) ==
    IF Failed(r.np) THEN r
    ELSE IF Token(S, cursym, ts, r.i) # ")" THEN At(Fail("error"), r.i)
    ELSE At(np, r.i + 1)

Direct(np) == [op |-> "ADIRECT", addr |-> "ADIRECT", left |-> np]
Indir(reg) == [op |-> "AINDIR", addr |-> "AINDIR", left |-> reg]
Index(reg, off) == [op |-> "AINDEX", addr |-> "AINDEX",
                    left |-> [left |-> reg, right |-> off]]

moperand(S, cursym, ts, i) ==
    LET tok(j) == Token(S, cursym, ts, j)
    IN  IF tok(i) = "(" /\ tok(i + 1) # "REG"
        THEN LET d == expr(S, cursym, ts, i + 1)
             IN  Close(S, cursym, ts, d, Direct(d.np))
        ELSE IF tok(i) = "("
        THEN LET r == getreg(S, cursym, ts, i + 1)
                 o == expr(S, cursym, ts, r.i)
             IN  CASE tok(r.i) \in {"+", "-"} ->
                        Close(S, cursym, ts, o, Index(r.np, o.np))
                   [] tok(r.i) = ")" -> Close(S, cursym, ts, r, Indir(r.np))
                   [] OTHER -> At(Fail("error"), r.i)
        ELSE LET o == expr(S, cursym, ts, i)
                 r == getreg(S, cursym, ts, o.i + 1)
             IN  IF Failed(o.np) THEN o
                 ELSE IF tok(o.i) # "(" THEN At(Fail("error"), o.i)
                 ELSE Close(S, cursym, ts, r, Index(r.np, o.np))

\* operand(): the text ts of one argument.
operand(S, cursym, ts) ==
    LET tok(j) == Token(S, cursym, ts, j)
        r == CASE tok(1) = "REG" -> getreg(S, cursym, ts, 1)
               [] tok(1) = "STRING" ->
                    At(Leaf("STRING", "ASTR", [name |-> ts[1].s, value |-> 0,
                                               flags |-> {"FABS"}]), 2)
               [] tok(1) = "IDEN" /\ Len(ts) = 1 ->
                    At(Leaf("IDEN", "ANUMBER", iden(S, cursym, ts[1])), 2)
               [] tok(1) = "$" ->
                    LET e == expr(S, cursym, ts, 2)
                    IN  At(IF Failed(e.np) THEN e.np
                           ELSE [e.np EXCEPT !.addr = "AIMM"], e.i)
               [] OTHER -> moperand(S, cursym, ts, 1)
    IN  IF Failed(r.np) THEN r.np
        ELSE IF r.i <= Len(ts) THEN Fail("error") ELSE r.np

\* getargs(): the nodes of the arguments; NULL, here <<>>, if there are none.
getargs(S, cursym, texts) ==
    IF texts = <<>> THEN <<>>
    ELSE LET nps == [i \in DOMAIN texts |-> operand(S, cursym, texts[i])]
         IN  IF Len(texts) >= NARGS - 1 /\ \A i \in 1..(NARGS - 1) : ~Failed(nps[i])
             THEN <<Fail("error")>> ELSE nps

=============================================================================
