-------------------------------- MODULE Passes --------------------------------
(***************************************************************************)
(* The passes of the compiler as functions: what cc1 makes of the text of  *)
(* a function, what each phase of cc2 makes of that, what the code does    *)
(* when it is called and what C says that it does.                         *)
(***************************************************************************)
EXTENDS CTypes

CONSTANTS ParNames, Locals,  \* the names of the parameters and of the variables
          Vars,         \* their types
          NR_SWITCH, NR_BLOCK, STACKSIZ, MEMSIZE, STEPS, LOOPS

\* The symbol table: variables, and the function f declared int f(int).
IdOf(name) == CHOOSE n \in 1..9 : /\ n \in DOMAIN (ParNames \o Locals)
                                  /\ (ParNames \o Locals)[n] = name
FId == 10
NoSymbol == [k |-> "none", name |-> "", id |-> 0, cls |-> "", u |-> 0,
             sconst |-> FALSE]
Env == [n \in DOMAIN Vars \cup {"f"} |->
          IF n = "f"
          THEN [type |-> Ftn(inttype, <<inttype>>, FALSE),
                sym |-> [NoSymbol EXCEPT !.k = "var", !.name = n, !.id = FId,
                                         !.cls = "X"]]
          ELSE [type |-> Vars[n],
                sym |-> [NoSymbol EXCEPT !.k = "var", !.name = n,
                                         !.id = IdOf(n), !.cls = "A"]]]

Cc1 == INSTANCE Cc1Stmt
Cc2 == INSTANCE Cc2Qbe
Machine == INSTANCE Qbe
C == INSTANCE CSem

-----------------------------------------------------------------------------
(* The text of a program, with the parentheses it needs and no more.       *)

Prec(e) ==
    CASE e.k = "bin" -> (CASE e.op = "," -> 0 [] OTHER ->
                           13 - Cc1!BinOps[e.op][1])
      [] e.k = "asg" -> 1
      [] e.k = "cond" -> 2
      [] e.k = "cast" -> 13
      [] e.k \in {"un", "pre", "sizeof"} -> 14
      [] e.k \in {"post", "index", "call", "field"} -> 15
      [] OTHER -> 16

T(t) == <<Cc1!Tok(t)>>
Name(n) == <<[Cc1!Tok("IDEN") EXCEPT !.name = n]>>
AssignToken == [op \in {"=", "*", "/", "%", "+", "-", "SHL", "SHR", "&", "^",
                        "|"} |->
    CASE op = "=" -> "=" [] op = "*" -> "MUL_EQ" [] op = "/" -> "DIV_EQ"
      [] op = "%" -> "MOD_EQ" [] op = "+" -> "ADD_EQ" [] op = "-" -> "SUB_EQ"
      [] op = "SHL" -> "SHL_EQ" [] op = "SHR" -> "SHR_EQ"
      [] op = "&" -> "AND_EQ" [] op = "^" -> "XOR_EQ" [] op = "|" -> "OR_EQ"]
Step(op) == T(IF op = "+" THEN "INC" ELSE "DEC")

RECURSIVE Text(_, _)
Text(e, level) ==
    LET p == Prec(e)
        x(i, n) == Text(e.kids[i], n)
        body ==
          CASE e.k = "num" -> <<[Cc1!Tok("CONSTANT") EXCEPT !.ty = e.ty,
                                                            !.u = e.u]>>
            [] e.k = "var" -> Name(e.name)
            [] e.k = "bin" -> x(1, p) \o T(e.op) \o x(2, p + 1)
            [] e.k = "asg" -> x(1, 14) \o T(AssignToken[e.op]) \o x(2, p)
            [] e.k = "cond" -> x(1, 3) \o T("?") \o x(2, 0) \o T(":") \o x(3, 2)
            [] e.k = "cast" ->
                 T("(") \o <<[Cc1!Tok("TYPE") EXCEPT !.ty = e.ty]>> \o T(")")
                 \o x(1, 13)
            [] e.k = "un" -> T(e.op) \o x(1, 13)
            [] e.k = "pre" -> Step(e.op) \o x(1, 14)
            [] e.k = "post" -> x(1, 15) \o Step(e.op)
            [] e.k = "sizeof" -> T("SIZEOF") \o x(1, 14)
            [] e.k = "index" -> x(1, 15) \o T("[") \o x(2, 0) \o T("]")
            [] e.k = "field" -> x(1, 15) \o T(".") \o Name(e.name)
            [] e.k = "call" -> Name("f") \o T("(") \o x(1, 1) \o T(")")
    IN  IF p < level THEN T("(") \o body \o T(")") ELSE body

RECURSIVE StText(_)
StText(s) ==
    LET e == Text(s.e, 0)
        paren == T("(") \o e \o T(")")
        opt(x) == IF x.k = "none" THEN <<>> ELSE Text(x, 0)
        all == FlattenSeq([i \in DOMAIN s.body |-> StText(s.body[i])])
    IN  CASE s.k = "exp" -> e \o T(";")
          [] s.k = "null" -> T(";")
          [] s.k = "block" -> T("{") \o all \o T("}")
          [] s.k = "if" ->
               T("IF") \o paren \o StText(s.body[1])
               \o (IF Len(s.body) = 1 THEN <<>>
                   ELSE T("ELSE") \o StText(s.body[2]))
          [] s.k = "while" -> T("WHILE") \o paren \o StText(s.body[1])
          [] s.k = "do" -> T("DO") \o StText(s.body[1]) \o T("WHILE") \o paren
                           \o T(";")
          [] s.k = "for" -> T("FOR") \o T("(") \o T(";") \o opt(s.e) \o T(";")
                            \o opt(s.body[2]) \o T(")") \o StText(s.body[1])
          [] s.k = "switch" -> T("SWITCH") \o paren \o T("{") \o all \o T("}")
          [] s.k = "case" -> T("CASE") \o e \o T(":") \o StText(s.body[1])
          [] s.k = "default" -> T("DEFAULT") \o T(":") \o StText(s.body[1])
          [] s.k = "break" -> T("BREAK") \o T(";")
          [] s.k = "continue" -> T("CONTINUE") \o T(";")
          [] s.k = "return" -> T("RETURN") \o e \o T(";")

-----------------------------------------------------------------------------
(* The passes.                                                             *)

\* cc1: the function is parsed and emitted, or the compilation fails.
Cc1Pass(p) ==
    LET st == Cc1!funbody(<<"f">>, ParNames, Locals, T("{") \o StText(p) \o T("}"))
    IN  [err |-> st.err, ir |-> IF st.err = "" THEN st.ir ELSE <<>>]

ReadPass(ir) ==
    LET p == Cc2!parse(Cc2!Empty, ir)
    IN  [err |-> p.err, tree |-> [stmts |-> p.stmts, syms |-> p.syms]]

OptmPass(tree) ==
    LET s == Cc2!apply_dep(tree.stmts, 1)
    IN  [tree EXCEPT !.stmts = s]

\* apply(sethi) and apply(cgen): an assertion or an abort() ends cc2.
CodePass(tree) ==
    LET s == [i \in DOMAIN tree.stmts |-> Cc2!sethi(tree.stmts[i])]
        g == Cc2!apply_cgen(Cc2!Gen, s, tree.syms)
    IN  IF \E i \in DOMAIN tree.stmts : Cc2!SethiAsserts(tree.stmts[i])
        THEN [err |-> "sethi", asm |-> <<>>]
        ELSE [err |-> g.err, asm |-> g.code]

PrintPass(asm) == LET text == Cc2!writeout(asm, 1, 2000) IN text

\* A call of the function, with the values in of the parameters.
Call(asm, in) ==
    LET vals == [n \in DOMAIN ParNames |-> in[ParNames[n]]]
        m == Machine!Run(Machine!Start(vals, [x \in {FId} |-> 1]), asm, "w", STEPS)
    IN  [err |-> m.err, ret |-> m.ret, calls |-> m.calls]

\* The same call in C: at the call the parameters have their values and the
\* variables have none.
CallInC(p, in) ==
    LET c == C!Meaning(p, [x \in {<<n, 0>> : n \in Range(ParNames)} |-> in[x[1]]])
    IN  [ub |-> c.ub, returns |-> c.out = "return", ret |-> Trunc(c.ret, inttype.size),
         calls |-> [i \in DOMAIN c.calls |-> Trunc(c.calls[i], inttype.size)]]

IsQbe(asm) == LET ok == Machine!WellFormed(asm) IN ok

=============================================================================
