-------------------------------- MODULE CSem --------------------------------
(***************************************************************************)
(* What C99 says of the programs given to the compiler: the abstract       *)
(* specification of cc1 and cc2 together.  Programs are syntax trees; the  *)
(* values are mathematical integers with a type; memory maps the places    *)
(* <<name, index>> to values.  ub records undefined behaviour, after which *)
(* the compiler owes nothing.                                              *)
(***************************************************************************)
EXTENDS CTypes, TLC

CONSTANTS Vars,       \* the type of every variable: name -> type
          LOOPS       \* iterations before a run is given up

-----------------------------------------------------------------------------
(* Syntax.                                                                 *)

Exp(k, op, kids, name, ty, u) ==
    [k |-> k, op |-> op, kids |-> kids, name |-> name, ty |-> ty, u |-> u]
Num(n) == Exp("num", "", <<>>, "", inttype, n)
Var(v) == Exp("var", "", <<>>, v, NoType, 0)
Bin(op, a, b) == Exp("bin", op, <<a, b>>, "", NoType, 0)
Un(op, a) == Exp("un", op, <<a>>, "", NoType, 0)
Asg(op, a, b) == Exp("asg", op, <<a, b>>, "", NoType, 0)
Post(op, a) == Exp("post", op, <<a>>, "", NoType, 0)
Pre(op, a) == Exp("pre", op, <<a>>, "", NoType, 0)
Cond(a, b, c) == Exp("cond", "", <<a, b, c>>, "", NoType, 0)
CastTo(ty, a) == Exp("cast", "", <<a>>, "", ty, 0)
Call(a) == Exp("call", "", <<a>>, "f", NoType, 0)
Index(a, b) == Exp("index", "", <<a, b>>, "", NoType, 0)
Field(a, name) == Exp("field", "", <<a>>, name, NoType, 0)
SizeOf(a) == Exp("sizeof", "", <<a>>, "", NoType, 0)

St(k, e, body) == [k |-> k, e |-> e, body |-> body]
None == Exp("none", "", <<>>, "", NoType, 0)

-----------------------------------------------------------------------------
(* Values and conversions: C99 6.3.1.                                      *)

InRange(n, tp) == n >= MinOf(tp) /\ n <= MaxOf(tp)
\* Conversion to a type: its value modulo the size of the type.
ToType(n, tp) == LET u == Trunc(n, tp.size)
                 IN  IF IsSigned(tp) THEN Signed(u, tp.size) ELSE u

\* 6.3.1.1: an int if it can represent all the values, else an unsigned int.
Promoted(tp) ==
    IF tp.rank >= inttype.rank THEN tp
    ELSE IF InRange(MaxOf(tp), inttype) THEN inttype ELSE uinttype

Unsigned(tp) == CASE tp = inttype -> uinttype
                  [] tp = getarch.long -> getarch.ulong
                  [] OTHER -> tp

\* 6.3.1.8: the usual arithmetic conversions.
Common(a, b) ==
    LET t1 == Promoted(a)
        t2 == Promoted(b)
        hi == IF t1.rank >= t2.rank THEN t1 ELSE t2
        sgn == IF IsSigned(t1) THEN t1 ELSE t2
        uns == IF IsSigned(t1) THEN t2 ELSE t1
    IN  IF t1 = t2 THEN t1
        ELSE IF IsSigned(t1) = IsSigned(t2) THEN hi
        ELSE IF uns.rank >= sgn.rank THEN uns
        ELSE IF InRange(MaxOf(uns), sgn) THEN sgn
        ELSE Unsigned(sgn)

-----------------------------------------------------------------------------
(* Expressions.  A state c: memory, calls of f, undefined behaviour.       *)

R(c, v, tp) == [c |-> c, v |-> v, tp |-> tp]
Ub(c) == [c EXCEPT !.ub = TRUE]
\* An arithmetic result: overflow of a signed type is undefined.
Result(c, n, tp) ==
    IF IsSigned(tp) /\ ~InRange(n, tp) THEN R(Ub(c), 0, tp)
    ELSE R(c, ToType(n, tp), tp)
Bool(c, t) == R(c, IF t THEN 1 ELSE 0, inttype)

PtrTo(tp) == Ptr(tp)
Stride == 1

\* Binary operators on values (arithmetic and pointer).
Comparisons == {"<", ">", "LE", "GE", "EQ", "NE"}
Compared(op, a, b) ==
    CASE op = "<" -> a < b [] op = ">" -> a > b [] op = "LE" -> a <= b
      [] op = "GE" -> a >= b [] op = "EQ" -> a = b [] op = "NE" -> a /= b

\* 6.5.7: the result has the type of the promoted left operand.
Shift(c, op, a, b) ==
    LET tp == Promoted(a.tp)
    IN  IF b.v < 0 \/ b.v >= tp.size * BITS \/ (op = "SHL" /\ a.v < 0)
        THEN R(Ub(c), 0, tp)
        ELSE IF op = "SHL" THEN Result(c, a.v * Pow2(b.v), tp)
        ELSE R(c, a.v \div Pow2(b.v), tp)

Arith(c, op, a, b) ==
    LET tp == Common(a.tp, b.tp)
        x == ToType(a.v, tp)
        y == ToType(b.v, tp)
        bits(f(_, _)) == ToType(BitOp(f, Word(x), Word(y)), tp)
    IN  CASE op = "+" -> Result(c, x + y, tp)
          [] op = "-" -> Result(c, x - y, tp)
          [] op = "*" -> IF IsSigned(tp) THEN Result(c, x * y, tp)
                         ELSE R(c, MulMod(x, y, Mask(tp.size)), tp)
          [] op \in {"/", "%"} /\ y = 0 -> R(Ub(c), 0, tp)
          [] op = "/" -> Result(c, CDiv(x, y), tp)
          [] op = "%" -> IF InRange(CDiv(x, y), tp)
                         THEN R(c, CMod(x, y), tp) ELSE R(Ub(c), 0, tp)
          [] op = "&" -> R(c, bits(And2), tp)
          [] op = "|" -> R(c, bits(Or2), tp)
          [] op = "^" -> R(c, bits(Xor2), tp)
          [] op \in Comparisons -> Bool(c, Compared(op, x, y))

\* Pointers are places; only the elements of the array are pointed to.
PointerOp(c, op, a, b) ==
    LET moved(p, n) == R(IF p[2] + n \in 0..2 THEN c ELSE Ub(c),
                         <<p[1], p[2] + n>>, a.tp)
    IN  CASE op = "+" -> moved(a.v, b.v)
          [] op = "-" /\ b.tp.op /= "PTR" -> moved(a.v, -b.v)
          [] op = "-" -> R(c, a.v[2] - b.v[2], pdifftype)
          [] OTHER -> Bool(c, Compared(op, a.v[2], b.v[2]))

Apply2(c, op, a, b) ==
    CASE a.tp.op = "PTR" -> PointerOp(c, op, a, b)
      [] b.tp.op = "PTR" -> PointerOp(c, op, b, a)
      [] op \in {"SHL", "SHR"} -> Shift(c, op, a, b)
      [] OTHER -> Arith(c, op, a, b)

Converted(v, from, to) == IF to.op = "PTR" THEN v ELSE ToType(v, to)

RECURSIVE Eval(_, _)
RECURSIVE Place(_, _)

\* The place an lvalue denotes, and the type of what is there.
Place(c, e) ==
    CASE e.k = "var" -> R(c, <<e.name, 0>>, Vars[e.name])
      [] e.k = "index" ->
           LET b == Eval(c, e.kids[2])
               a == Eval(b.c, e.kids[1])
               p == PointerOp(b.c, "+", a, b)
           IN  R(p.c, p.v, Base(a.tp))
      [] e.k = "un" /\ e.op = "*" ->
           LET p == Eval(c, e.kids[1]) IN R(p.c, p.v, Base(p.tp))
      [] e.k = "field" ->
           R(c, <<e.kids[1].name, e.name>>,
             LET s == Vars[e.kids[1].name].parts
             IN  s[CHOOSE i \in DOMAIN s : s[i].name = e.name].type)

Load(p) ==
    IF p.c.ub THEN R(p.c, 0, p.tp)
    ELSE IF p.tp.op = "ARY" THEN R(p.c, p.v, PtrTo(Base(p.tp)))
    ELSE IF p.v \notin DOMAIN p.c.mem THEN R(Ub(p.c), 0, p.tp)
    ELSE R(p.c, p.c.mem[p.v], p.tp)

\* The elements of an array are places 0 and 1; the place past the end is
\* no place to store.
Store(c, p, v) ==
    IF p.v[1] = "a" /\ p.v[2] \notin 0..1 THEN Ub(c)
    ELSE [c EXCEPT !.mem = (p.v :> v) @@ @]

\* The value stored is converted to the type of the left operand, which is
\* evaluated once; the result is that value (6.5.16).
Assigned(p, v) ==
    LET n == Converted(v.v, v.tp, p.tp)
    IN  IF v.c.ub THEN R(v.c, 0, p.tp) ELSE R(Store(v.c, p, n), n, p.tp)

Truth(r) == IF r.tp.op = "PTR" THEN TRUE ELSE r.v /= 0

StepOf(c) == R(c, 1, inttype)

Eval(c, e) ==
    IF c.ub THEN R(c, 0, inttype)
    ELSE CASE e.k = "num" -> R(c, e.u, e.ty)
           [] e.k \in {"var", "index", "field"} -> Load(Place(c, e))
           [] e.k = "un" /\ e.op = "*" -> Load(Place(c, e))
           [] e.k = "un" /\ e.op = "&" ->
                LET p == Place(c, e.kids[1]) IN R(p.c, p.v, PtrTo(p.tp))
           [] e.k = "un" /\ e.op = "!" ->
                LET a == Eval(c, e.kids[1]) IN Bool(a.c, ~Truth(a))
           [] e.k = "un" ->
                LET a == Eval(c, e.kids[1])
                    tp == Promoted(a.tp)
                    x == ToType(a.v, tp)
                IN  IF e.op = "-" THEN Result(a.c, -x, tp)
                    ELSE IF e.op = "~" THEN R(a.c, ToType(-x - 1, tp), tp)
                    ELSE R(a.c, x, tp)
           [] e.k = "bin" /\ e.op \in {"AND", "OR"} ->
                LET a == Eval(c, e.kids[1])
                    b == Eval(a.c, e.kids[2])
                IN  IF Truth(a) = (e.op = "OR") THEN Bool(a.c, Truth(a))
                    ELSE Bool(b.c, Truth(b))
           [] e.k = "bin" /\ e.op = "," ->
                Eval(Eval(c, e.kids[1]).c, e.kids[2])
           [] e.k = "bin" ->
                LET a == Eval(c, e.kids[1])
                    b == Eval(a.c, e.kids[2])
                IN  IF b.c.ub THEN R(b.c, 0, inttype)
                    ELSE Apply2(b.c, e.op, a, b)
           [] e.k = "cond" ->
                LET a == Eval(c, e.kids[1])
                    x == Eval(a.c, e.kids[2])
                    y == Eval(a.c, e.kids[3])
                    tp == IF x.tp.op = "PTR" THEN x.tp ELSE Common(x.tp, y.tp)
                    r == IF Truth(a) THEN x ELSE y
                IN  IF a.c.ub THEN a
                    ELSE R(r.c, Converted(r.v, r.tp, tp), tp)
           [] e.k = "cast" ->
                LET a == Eval(c, e.kids[1])
                IN  R(a.c, Converted(a.v, a.tp, e.ty), e.ty)
           [] e.k = "asg" ->
                LET p == Place(c, e.kids[1])
                    old == Load(p)
                    v == Eval(p.c, e.kids[2])
                    new == Apply2(v.c, e.op, old, v)
                IN  IF p.c.ub \/ v.c.ub THEN R(Ub(c), 0, inttype)
                    ELSE IF e.op = "=" THEN Assigned(p, v)
                    ELSE IF old.c.ub THEN old
                    ELSE Assigned(p, new)
           [] e.k \in {"pre", "post"} ->
                LET p == Place(c, e.kids[1])
                    old == Load(p)
                    new == Apply2(old.c, e.op, old, StepOf(old.c))
                    set == Assigned(p, new)
                IN  IF old.c.ub THEN old
                    ELSE IF e.k = "pre" THEN set
                    ELSE R(set.c, old.v, old.tp)
           [] e.k = "call" ->
                LET a == Eval(c, e.kids[1])
                    x == ToType(a.v, inttype)
                IN  R([a.c EXCEPT !.calls = Append(@, x)],
                      ToType(x + 1, inttype), inttype)
           [] e.k = "sizeof" ->
                LET tp == IF e.kids[1].k = "var" THEN Vars[e.kids[1].name]
                          ELSE Eval(c, e.kids[1]).tp
                IN  R(c, tp.size, sizettype)

-----------------------------------------------------------------------------
(* Statements.  out: how a statement ended (6.8.6).                        *)

Out(c, out) == [c EXCEPT !.out = out]
RECURSIVE Do(_, _)
RECURSIVE Seq2(_, _)
RECURSIVE Loop(_, _, _)

Seq2(c, ss) ==
    IF ss = <<>> \/ c.ub \/ c.out /= "" THEN c
    ELSE Seq2(Do(c, Head(ss)), Tail(ss))

\* One turn of a loop: test first or last; step after the body.
Loop(c, s, n) ==
    LET t == IF s.e.k = "none" THEN R(c, 1, inttype) ELSE Eval(c, s.e)
        b == Do(t.c, s.body[1])
        after == IF b.out = "continue" THEN Out(b, "") ELSE b
        inc == IF s.k = "for" /\ s.body[2].k /= "none"
               THEN Eval(after, s.body[2]).c ELSE after
    IN  IF t.c.ub \/ ~Truth(t) THEN t.c
        ELSE IF n = 0 THEN Ub(c)
        ELSE IF after.ub \/ after.out /= ""
        THEN IF after.out = "break" THEN Out(after, "") ELSE after
        ELSE Loop(inc, s, n - 1)

\* The statements of a switch's body from the label that matches on.
Matching(s, v) ==
    LET cases == {i \in DOMAIN s.body : s.body[i].k = "case"
                                        /\ s.body[i].e.u = v}
        defs == {i \in DOMAIN s.body : s.body[i].k = "default"}
    IN  cases \cup (IF cases = {} THEN defs ELSE {})

Do(c, s) ==
    CASE s.k = "exp" -> Eval(c, s.e).c
      [] s.k = "null" -> c
      [] s.k = "block" -> Seq2(c, s.body)
      [] s.k = "if" ->
           LET t == Eval(c, s.e)
           IN  IF t.c.ub THEN t.c
               ELSE IF Truth(t) THEN Do(t.c, s.body[1])
               ELSE IF Len(s.body) = 2 THEN Do(t.c, s.body[2]) ELSE t.c
      [] s.k \in {"while", "for"} -> Loop(c, s, LOOPS)
      [] s.k = "do" ->
           LET b == Do(c, s.body[1])
               after == IF b.out = "continue" THEN Out(b, "") ELSE b
           IN  IF after.ub \/ after.out \notin {"", "break"} THEN after
               ELSE IF after.out = "break" THEN Out(after, "")
               ELSE Loop(after, [s EXCEPT !.k = "while"], LOOPS)
      [] s.k = "switch" ->
           LET t == Eval(c, s.e)
               m == Matching(s, t.v)
               i == CHOOSE j \in m : TRUE
               b == Seq2(t.c, SubSeq(s.body, i, Len(s.body)))
           IN  IF t.c.ub \/ m = {} THEN t.c
               ELSE IF b.out = "break" THEN Out(b, "") ELSE b
      [] s.k \in {"case", "default"} -> Do(c, s.body[1])
      [] s.k = "break" -> Out(c, "break")
      [] s.k = "continue" -> Out(c, "continue")
      [] s.k = "return" ->
           LET v == Eval(c, s.e)
           IN  [Out(v.c, "return") EXCEPT !.ret =
                   IF v.c.ub THEN 0 ELSE ToType(v.v, inttype)]

\* The meaning of a function: its result, its calls, or nothing if undefined.
Meaning(body, mem) ==
    Do([mem |-> mem, calls |-> <<>>, ub |-> FALSE, out |-> "", ret |-> 0],
       body)

=============================================================================
