------------------------------ MODULE MCCompile ------------------------------
(***************************************************************************)
(* Instances of Compile for TLC: the programs and the values they run on.  *)
(* A byte has two bits, so an int has eight and a long sixteen.            *)
(***************************************************************************)
EXTENDS Compile, Passes

CONSTANT Deviations   \* the known deviations that programs may meet

MCPars == <<"i", "u", "c", "k", "l">>
MCLocals == <<"a", "p", "s">>
SType == Aggregate("STRUCT", "s", <<[name |-> "x", type |-> getarch.schar],
                                    [name |-> "y", type |-> inttype]>>)
MCVars == [n \in Range(MCPars \o MCLocals) |->
             CASE n = "i" -> inttype [] n = "u" -> uinttype
               [] n = "c" -> getarch.schar [] n = "k" -> getarch.uchar
               [] n = "l" -> getarch.long [] n = "a" -> Ary(inttype, 2)
               [] n = "p" -> Ptr(inttype) [] n = "s" -> SType]

In(i, u, c, k, l) == [i |-> i, u |-> u, c |-> c, k |-> k, l |-> l]
MCInputs == {In(3, 5, 1, 2, 9), In(-2, 255, -2, 3, -300), In(0, 0, 0, 0, 0)}

-----------------------------------------------------------------------------
(* Expressions.                                                            *)

I == C!Var("i")
U == C!Var("u")
K == C!Var("k")
L == C!Var("l")
CH == C!Var("c")
P == C!Var("p")
One == C!Num(1)
Two == C!Num(2)
A(e) == C!Index(C!Var("a"), e)
Deref(e) == C!Un("*", e)
X == C!Field(C!Var("s"), "x")
Y == C!Field(C!Var("s"), "y")

Ints == {I, U, CH, K, L}
Leaves == Ints \cup {Two, C!Num(0)}

Exp(e) == C!St("exp", e, <<>>)
Ret(e) == C!St("return", e, <<>>)
Block(ss) == C!St("block", C!None, ss)
Nop == C!St("null", C!None, <<>>)

Arithmetic == {"+", "-", "*", "/", "%", "SHL", "SHR", "&", "|", "^"}
Relations == {"<", ">", "LE", "GE", "EQ", "NE"}
Operators == Arithmetic \cup Relations \cup {"AND", "OR", ","}
Nested == {"+", "-", "*", "SHL", ">", "EQ", "&", "AND", "OR", "/", "%"}
UnaryOps == {"-", "~", "!", "+"}
Narrow == {getarch.schar, getarch.uchar, getarch.ushort, getarch.short}
CastTypes == Narrow \cup {inttype, uinttype, getarch.long}

\* Every operator on every pair of types; two operators in both shapes.
Binaries ==
    {C!Bin(op, a, b) : op \in Operators, a \in Leaves, b \in Leaves}
    \cup {C!Bin(op, C!Bin(op2, a, b), c) : op \in Nested, op2 \in Nested,
             a \in {I, K}, b \in {L, Two}, c \in {U, One}}
    \cup {C!Bin(op, c, C!Bin(op2, a, b)) : op \in Nested, op2 \in Nested,
             a \in {I, K}, b \in {L, Two}, c \in {U, One}}
Unaries ==
    {C!Un(op, C!Un(op2, a)) : op \in UnaryOps, op2 \in UnaryOps, a \in Leaves}
    \cup {C!Un(op, C!Bin(op2, a, I)) : op \in UnaryOps,
             op2 \in {"+", "<", "EQ", "AND"}, a \in Leaves}
    \cup {C!SizeOf(e) : e \in {C!Var("a"), C!Var("s"), A(One), CH}}
CastExps ==
    {C!CastTo(t, C!CastTo(t2, a)) : t \in CastTypes, t2 \in CastTypes,
        a \in {I, U, L, K}}
    \cup {C!Bin(op, C!CastTo(t, a), b) : t \in CastTypes, a \in {I, U, L},
             b \in {I, U}, op \in {"+", "<"}}
Ternaries == {C!Cond(a, b, c) : a \in {I, L, K}, b \in Leaves, c \in Leaves}

-----------------------------------------------------------------------------
(* Assignments: the value of the expression, and what was stored.          *)

AssignOps == {"="} \cup Arithmetic
Assignments(lv, rv) == {C!Asg(op, a, b) : op \in AssignOps, a \in lv, b \in rv}
Steps(lv) == {C!Post(op, a) : op \in {"+", "-"}, a \in lv}
             \cup {C!Pre(op, a) : op \in {"+", "-"}, a \in lv}
Stored == UNION {{Ret(e), Block(<<Exp(e), Ret(e.kids[1])>>)} :
                    e \in Assignments(Ints, Leaves) \cup Steps(Ints)}

\* Places reached through arrays, pointers and members.
Setup == <<Exp(C!Asg("=", A(C!Num(0)), I)), Exp(C!Asg("=", A(One), U)),
           Exp(C!Asg("=", P, C!Var("a"))), Exp(C!Asg("=", X, CH)),
           Exp(C!Asg("=", Y, I))>>
Places == {A(One), A(C!Bin("&", I, One)), Deref(P), X, Y,
           Deref(C!Bin("+", P, One)), C!Index(P, One),
           C!Index(C!Bin("-", C!Bin("+", P, Two), One), C!Num(0))}
Effects == {C!Post("+", I), C!Call(I), C!Asg("=", I, One)}
PointerExps == {P, C!Bin("+", P, One), C!Un("&", A(One)), C!Pre("+", P),
                C!Post("+", P)}
Throughs ==
    UNION {{Block(Setup \o <<Ret(e)>>),
            Block(Setup \o <<Exp(e), Ret(e.kids[1])>>)} :
              e \in {C!Asg(op, a, b) : op \in {"=", "+", "-"}, a \in Places,
                        b \in {Two, K, L}} \cup Steps(Places \ {X})}
    \cup {Block(Setup \o <<Ret(C!Bin(op, a, b))>>) : op \in {"-", "EQ", "<"},
             a \in PointerExps, b \in {P, C!Un("&", A(C!Num(0)))}}
    \cup {Block(Setup \o <<Ret(C!Bin("+", Deref(e), C!Num(0)))>>) :
             e \in PointerExps}
    \cup {Block(Setup \o <<Exp(C!Asg(op, A(C!Bin("&", e, One)), Two)),
                           Ret(C!Bin("+", A(One), I))>>) :
             op \in {"=", "+"}, e \in Effects}

-----------------------------------------------------------------------------
(* Statements: the calls of f show the way taken.                          *)

F(n) == Exp(C!Call(C!Num(n)))
Break == C!St("break", C!None, <<>>)
Continue == C!St("continue", C!None, <<>>)
Conds == {I, C!Un("!", I), C!Bin("<", I, Two), C!Bin("AND", I, C!Call(U)),
          C!Bin("OR", K, C!Call(I)), C!Post("-", I), C!Num(0), One,
          C!Bin(",", C!Call(I), I)}
If(e, s) == C!St("if", e, <<s>>)
IfElse(e, s, t) == C!St("if", e, <<s, t>>)
While(e, s) == C!St("while", e, <<s>>)
DoWhile(e, s) == C!St("do", e, <<s>>)
For(e, inc, s) == C!St("for", e, <<s, inc>>)
Case(n, s) == C!St("case", C!Num(n), <<s>>)
Default(s) == C!St("default", C!None, <<s>>)
Switch(e, ss) == C!St("switch", e, ss)

Down == C!Bin(">", C!Pre("-", I), C!Num(0))
Bodies == {F(1), Nop, Ret(U), Break, Continue,
           If(C!Bin("EQ", I, Two), Break), If(C!Bin("EQ", I, Two), Continue),
           IfElse(U, F(1), F(2))}
Loops(b) == {While(Down, b), DoWhile(Down, b), For(Down, C!None, b),
             For(C!Bin("<", K, C!Num(3)), C!Post("+", U),
                 Block(<<Exp(C!Asg("+", K, One)), b>>))}
Plain == {F(1), Nop, Ret(U)}
Statements ==
    {If(e, s) : e \in Conds, s \in Plain}
    \cup {IfElse(e, s, t) : e \in Conds, s \in Plain, t \in {F(2), Nop}}
    \cup UNION {Loops(Block(<<b, F(3)>>)) : b \in Bodies}
    \cup UNION {Loops(l) : l \in {Block(<<Exp(C!Asg("=", K, One)), m, F(4)>>) :
                  m \in {While(C!Bin("<", K, Two),
                               Block(<<Exp(C!Asg("+", K, One)), b>>)) :
                           b \in {F(1), Break, Continue}}}}
    \cup {Switch(e, <<Case(0, s), Case(3, t), Default(F(5)), Case(1, F(6))>>) :
             e \in {I, K, L, C!Call(I), C!Bin("+", I, One)},
             s \in {F(1), Break}, t \in {F(2), Break}}
    \cup {Switch(I, <<Case(3, While(C!Bin("<", K, C!Num(3)),
                     Block(<<Exp(C!Asg("+", K, One)), b>>))), F(7)>>) :
             b \in {F(1), Break, Continue}}
    \cup {Switch(I, <<Case(3, Switch(K, <<Case(2, F(1)), t>>)), Case(0, F(2))>>) :
             t \in {Break, Default(F(3)), F(4)}}

-----------------------------------------------------------------------------
(* The programs on which the compiler is known to deviate from C.          *)

RECURSIVE Parts(_)
Parts(e) == {e} \cup UNION {Parts(e.kids[j]) : j \in DOMAIN e.kids}
RECURSIVE Exps(_)
Exps(s) == IF "e" \in DOMAIN s
           THEN {s.e} \cup UNION {Exps(s.body[j]) : j \in DOMAIN s.body}
           ELSE {s}
ConstExp(e) == \A x \in Parts(e) : x.k \in {"num", "bin", "un", "cast"}
Small(e) == e = CH \/ e = K \/ e = X
Wide(e) == IF e = L THEN "l" ELSE IF e = U THEN "u" ELSE "i"

Deviation(e) ==
    CASE e.k = "bin" /\ e.op \in {"<", ">", "LE", "GE"}
            /\ ConstExp(e.kids[1]) /\ ~ConstExp(e.kids[2]) -> "constleft"
      [] e.k \in {"bin", "asg"} /\ e.op = "%" /\ ConstExp(e.kids[2])
            /\ ~ConstExp(e.kids[1]) -> "modpower"
      [] e.k = "un" /\ e.op = "+" -> "plus"
      [] e.k = "post" /\ Small(e.kids[1]) -> "smallpost"
      [] e.k = "asg" /\ e.op \in {"/", "%", "SHR"}
            /\ (Small(e.kids[1]) \/ Wide(e.kids[1]) /= Wide(e.kids[2]))
              -> "compound"
      [] e.k = "asg" /\ e.op /= "=" /\ e.kids[1].k = "index"
            /\ \E x \in Parts(e.kids[1]) : x \in Effects -> "twice"
      [] e.k = "cond" /\ Small(e.kids[2]) /\ e.kids[3] = e.kids[2]
            -> "smallternary"
      [] OTHER -> ""

\* The value of a compound assignment to a narrow object.
SmallValue(s) ==
    /\ s.k = "return"
    /\ \/ s.e.k = "pre"
       \/ s.e.k = "asg" /\ s.e.op /= "="
    /\ Small(s.e.kids[1])
RECURSIVE SubStatements(_)
SubStatements(s) ==
    {s} \cup UNION {SubStatements(s.body[j]) :
                      j \in {n \in DOMAIN s.body : "body" \in DOMAIN s.body[n]}}

Met(s) == {Deviation(x) : x \in UNION {Parts(e) : e \in Exps(s)}}
          \cup (IF \E t \in SubStatements(s) : SmallValue(t)
                THEN {"smallvalue"} ELSE {})
          \cup (IF \E t \in SubStatements(s) :
                     /\ t.k = "if" /\ t.body[1] = Nop
                     /\ \E x \in Parts(t.e) : x.k \in {"call", "post"}
                THEN {"emptyif"} ELSE {})

MCPrograms ==
    LET values == {Ret(e) : e \in Binaries \cup Unaries \cup CastExps \cup Ternaries}
    IN  {s \in values \cup Stored \cup Throughs \cup Statements :
           Met(s) \subseteq Deviations \cup {""}}

=============================================================================
