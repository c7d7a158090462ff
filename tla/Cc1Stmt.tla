------------------------------ MODULE Cc1Stmt ------------------------------
(***************************************************************************)
(* The statements of cc1 (cc1/stmt.c) and the intermediate code it emits   *)
(* (cc1/code.c).                                                           *)
(*                                                                         *)
(* The intermediate code is a sequence of lines [c, toks]: c is the first  *)
(* character of the line, a tab for the lines of a function's body.  Some  *)
(* operations (branches, cases, return) leave their line open for the      *)
(* expression that follows.  An expression is emitted in postfix form.     *)
(*                                                                         *)
(* The state st of the compiler: the tokens left (ts), the lines (ir), the *)
(* open line (line), the last identifier given (id), the labels of the     *)
(* function (labs), the enclosing switches (sw) and how it ended (err).    *)
(***************************************************************************)
EXTENDS Cc1Expr

CONSTANT NR_SWITCH

-----------------------------------------------------------------------------
(* Emission: cc1/code.c.                                                   *)

\* A token of the intermediate code: the operation, the operation that is
\* combined with an assignment, the type, the identifier and the value.
Ir(t, sub, ty, id, u) ==
    [t |-> t, sub |-> sub, ty |-> ty, id |-> id, u |-> u]
NoIrType == [letter |-> "", size |-> 0, align |-> 0]

\* emitletter(): arrays, structs and unions go with the id of the line that
\* declared their size and alignment.
emitletter(tp) ==
    IF tp.op \in {"ARY", "STRUCT", "UNION"}
    THEN [letter |-> tp.letter, size |-> tp.size, align |-> tp.align]
    ELSE [NoIrType EXCEPT !.letter = IF "ELLIPSIS" \in tp.props THEN "E"
                                     ELSE tp.letter]

optxt ==
    [op \in {"OADD", "OSUB", "OMUL", "OINC", "ODEC", "OPTR", "OMOD", "ODIV",
             "OSHL", "OSHR", "OLT", "OGT", "OGE", "OLE", "OEQ", "ONE",
             "OBAND", "OBXOR", "OBOR", "OASSIGN", "OA_MUL", "OA_DIV",
             "OA_MOD", "OA_ADD", "OA_SUB", "OA_SHL", "OA_SHR", "OA_AND",
             "OA_XOR", "OA_OR", "OADDR", "OSNEG", "ONEG", "OCPL", "OAND",
             "OOR", "OASK", "OCOMMA", "OPAR", "OCALL", "OCALLE", "OFIELD"} |->
       CASE op = "OADD" -> <<"+", "">> [] op = "OSUB" -> <<"-", "">>
         [] op = "OMUL" -> <<"*", "">> [] op = "OINC" -> <<":", "i">>
         [] op = "ODEC" -> <<":", "d">> [] op = "OPTR" -> <<"@", "">>
         [] op = "OMOD" -> <<"%", "">> [] op = "ODIV" -> <<"/", "">>
         [] op = "OSHL" -> <<"l", "">> [] op = "OSHR" -> <<"r", "">>
         [] op = "OLT" -> <<"<", "">> [] op = "OGT" -> <<">", "">>
         [] op = "OGE" -> <<"]", "">> [] op = "OLE" -> <<"[", "">>
         [] op = "OEQ" -> <<"=", "">> [] op = "ONE" -> <<"!", "">>
         [] op = "OBAND" -> <<"&", "">> [] op = "OBXOR" -> <<"^", "">>
         [] op = "OBOR" -> <<"|", "">> [] op = "OASSIGN" -> <<":", "">>
         [] op = "OA_MUL" -> <<":", "*">> [] op = "OA_DIV" -> <<":", "/">>
         [] op = "OA_MOD" -> <<":", "%">> [] op = "OA_ADD" -> <<":", "+">>
         [] op = "OA_SUB" -> <<":", "-">> [] op = "OA_SHL" -> <<":", "l">>
         [] op = "OA_SHR" -> <<":", "r">> [] op = "OA_AND" -> <<":", "&">>
         [] op = "OA_XOR" -> <<":", "^">> [] op = "OA_OR" -> <<":", "|">>
         [] op = "OADDR" -> <<"'", "">> [] op = "OSNEG" -> <<"_", "">>
         [] op = "ONEG" -> <<"n", "">> [] op = "OCPL" -> <<"~", "">>
         [] op = "OAND" -> <<"a", "">> [] op = "OOR" -> <<"o", "">>
         [] op = "OASK" -> <<"?", "">> [] op = "OCOMMA" -> <<",", "">>
         [] op = "OPAR" -> <<"p", "">> [] op = "OCALL" -> <<"c", "">>
         [] op = "OCALLE" -> <<"z", "">> [] op = "OFIELD" -> <<".", "">>]

emitconst(np) ==
    <<Ir("#", "", emitletter(np.type), 0, Trunc(np.sym.u, np.type.size))>>
\* The identifier of a member is its offset: cc2 keeps it in the symbol.
emitvar(np) ==
    <<Ir(np.sym.cls, "", emitletter(np.type), np.sym.id, np.sym.u)>>

RECURSIVE emitnode(_)
emitnode(np) ==
    LET kids == FlattenSeq([i \in DOMAIN Kids(np) |-> emitnode(Kids(np)[i])])
    IN  CASE np.op = "OSYM" -> IF IsConst(np) THEN emitconst(np)
                               ELSE emitvar(np)
          [] np.op = "OCAST" ->
               kids \o (IF np.type = voidtype THEN <<>>
                        ELSE <<Ir("g", "", [NoIrType EXCEPT !.letter =
                                              np.type.letter], 0, 0)>>)
          [] np.op = "OCOLON" -> kids
          [] OTHER -> kids \o <<Ir(optxt[np.op][1], optxt[np.op][2],
                                   emitletter(np.type), 0, 0)>>

Line(c, toks) == [c |-> c, toks |-> toks]
Label(id) == Ir("L", "", NoIrType, id, 0)
Text(t) == Ir(t, "", NoIrType, 0, 0)

\* emitexp() closes the open line; a line with nothing on it is not read.
emitexp(st, np) ==
    LET toks == st.line \o np
    IN  [st EXCEPT !.line = <<>>,
                   !.ir = IF toks = <<>> THEN @
                          ELSE Append(@, Line("\t", toks))]
EmitTree(st, np) ==
    IF IsDead(np) THEN [st EXCEPT !.err = np.op, !.ts = <<>>]
    ELSE emitexp(st, emitnode(np))
EmitNull(st) == emitexp(st, <<>>)

\* emitsymid() and emittext(): what they write, and whether it ends a line.
EmitLabel(st, id) == [st EXCEPT !.ir = Append(@, Line("L", <<Label(id)>>))]
EmitJump(st, id) ==
    [st EXCEPT !.ir = Append(@, Line("\t", <<Text("j"), Label(id)>>))]
EmitOpen(st, toks) == [st EXCEPT !.line = toks]
EmitBranch(st, id) == EmitOpen(st, <<Text("y"), Label(id)>>)
EmitLoop(st, t) == [st EXCEPT !.ir = Append(@, Line("\t", <<Text(t)>>))]

\* The lines before the body: emitdcl() of the globals and the functions
\* used, emitfun() of this one, and emitdcl() of its variables.
Dcl(cls, id, name, ty, rty) == [cls |-> cls, id |-> id, name |-> name,
                                ty |-> ty, rty |-> rty]
DclLine(d) == Line(d.cls, <<[Ir("dcl", "", d.ty, d.id, 0)
                             EXCEPT !.sub = d.rty]>>)
DclOf(name) ==
    LET s == Env[name]
    IN  Dcl(s.sym.cls, s.sym.id, name, emitletter(s.type),
            IF s.type.op = "FTN" THEN Base(s.type).letter ELSE "")

emitfun(globals, pars, locals) ==
    LET lines(names) == [i \in DOMAIN names |-> DclLine(DclOf(names[i]))]
    IN  lines(globals) \o <<Line("{", <<>>)>> \o lines(pars)
        \o <<Line("\\", <<>>)>> \o lines(locals)

-----------------------------------------------------------------------------
(* Statements: cc1/stmt.c.                                                 *)

Begin(ts, ir) == [ts |-> ts, ir |-> ir, line |-> <<>>, id |-> 100,
                  labs |-> <<>>, sw |-> <<>>, err |-> ""]

StTok(st) == yytoken(st.ts).t
Fail(st) == [st EXCEPT !.err = "ERR", !.ts = <<>>]
Skip(st) == [st EXCEPT !.ts = next(@)]
Want(st, t) == IF st.err /= "" THEN st
               ELSE IF StTok(st) = t THEN Skip(st) ELSE Fail(st)
\* newlabel(), n of them: the first is st.id + 1.
New(st, n) == [st EXCEPT !.id = @ + n]
At(st, res) == [st EXCEPT !.ts = res.ts]

\* The identifier of a label, given when it is first seen.
LabelSeen(st, name) == \E i \in DOMAIN st.labs : st.labs[i].name = name
LabelRec(st, name) == SelectSeq(st.labs, LAMBDA r : r.name = name)[1]
Named(st, name) ==
    IF LabelSeen(st, name) THEN st
    ELSE LET s == New(st, 1)
         IN  [s EXCEPT !.labs = Append(@, [name |-> name, id |-> s.id,
                                           def |-> FALSE])]

RECURSIVE stmt(_, _, _)

label(st) ==
    LET name == yytoken(st.ts).name
        s == Named(st, name)
    IN  IF LabelRec(s, name).def THEN Fail(st)
        ELSE Want(Skip(EmitLabel(
                 [s EXCEPT !.labs = [i \in DOMAIN @ |->
                      IF @[i].name = name THEN [@[i] EXCEPT !.def = TRUE]
                      ELSE @[i]]], LabelRec(s, name).id)), ":")

stmtexp(st, lbreak, lcont) ==
    IF StTok(st) = ";" THEN Skip(st)
    ELSE IF StTok(st) = "IDEN" /\ Is(next(st.ts), ":")
    THEN stmt(label(st), lbreak, lcont)
    ELSE LET e == expr(st.ts)
         IN  Want(EmitTree(At(st, e), simplify(e.np)), ";")

\* condition(): the tokens after it and the tree, still to be emitted.
condition(neg, ts) ==
    expect(condexpr(neg, expect(Res(zeronode, ts), "(").ts), ")")

While(st0) ==
    LET st == New(st0, 3)
        begin == st0.id + 1
        lcont == st0.id + 2
        lbreak == st0.id + 3
        c == condition(FALSE, next(st.ts))
        body == stmt(EmitLabel(EmitLoop(EmitJump(At(st, c), lcont), "e"),
                               begin), lbreak, lcont)
    IN  EmitLabel(EmitLoop(EmitTree(EmitBranch(EmitLabel(body, lcont), begin),
                                    c.np), "b"), lbreak)

For(st0) ==
    LET st == Want(Skip(New(st0, 4)), "(")
        begin == st0.id + 1
        lcont == st0.id + 2
        cond == st0.id + 3
        lbreak == st0.id + 4
        e1 == expr(st.ts)
        init == IF StTok(st) = ";" THEN Skip(st)
                ELSE Want(EmitTree(At(st, e1), simplify(e1.np)), ";")
        hascond == StTok(init) /= ";"
        c == IF hascond THEN condexpr(FALSE, init.ts) ELSE Res(Nil, init.ts)
        mid == Want(At(init, c), ";")
        hasinc == StTok(mid) /= ")"
        e3 == expr(mid.ts)
        inc == IF hasinc THEN Res(simplify(e3.np), e3.ts) ELSE Res(Nil, mid.ts)
        head == Want(At(mid, inc), ")")
        body == stmt(EmitLabel(EmitLoop(EmitJump(head, cond), "e"), begin),
                     lbreak, lcont)
        step == EmitLabel(body, lcont)
        tail == EmitLabel(IF hasinc THEN EmitTree(step, inc.np)
                          ELSE EmitNull(step), cond)
        jump == IF hascond THEN EmitTree(EmitBranch(tail, begin), c.np)
                ELSE EmitNull(EmitJump(tail, begin))
    IN  EmitLabel(EmitLoop(jump, "b"), lbreak)

Dowhile(st0) ==
    LET st == New(st0, 3)
        begin == st0.id + 1
        lcont == st0.id + 2
        lbreak == st0.id + 3
        body == stmt(EmitLabel(EmitLoop(Skip(st), "e"), begin), lbreak, lcont)
        c == condition(FALSE, Want(body, "WHILE").ts)
        after == Want(At(body, c), ";")
    IN  EmitLabel(EmitLoop(EmitTree(EmitBranch(EmitLabel(after, lcont), begin),
                                    c.np), "b"), lbreak)

\* The function returns int in every model program.
Return(st0) ==
    LET st == Skip(st0)
        e == expr(st.ts)
        np == simplify(decay(e.np))
        conv == IF IsDead(np) \/ np.type = inttype THEN np
                ELSE convert(np, inttype, FALSE)
    IN  IF StTok(st) = ";" THEN EmitNull(EmitOpen(Skip(st), <<Text("h")>>))
        ELSE EmitTree(EmitOpen(Want(At(st, e), ";"), <<Text("h")>>), conv)

Break(st, lbreak) == IF lbreak = 0 THEN Fail(st)
                     ELSE Want(EmitJump(Skip(st), lbreak), ";")
Continue(st, lcont) == IF lcont = 0 THEN Fail(st)
                       ELSE Want(EmitJump(Skip(st), lcont), ";")

Goto(st) ==
    LET name == yytoken(next(st.ts)).name
        s == Named(st, name)
    IN  Want(EmitJump(Skip(Skip(s)), LabelRec(s, name).id), ";")

Swtch(st0, lcont) ==
    LET e == expr(Want(Skip(st0), "(").ts)
        cond == simplify(convert(e.np, inttype, FALSE))
        st == New(Want(At(st0, e), ")"), 1)
        lbreak == st.id
        head == EmitTree(EmitOpen(st, <<Text("s")>>), cond)
        body == stmt([head EXCEPT !.sw = Append(@, [nr |-> 0, def |-> FALSE])],
                     lbreak, lcont)
        end == [body EXCEPT !.ir = Append(@, Line("\t", <<Text("t"),
                                                          Label(lbreak)>>)),
                            !.sw = Front(@)]
    IN  IF body.err /= "" THEN body ELSE EmitLabel(end, lbreak)

Case(st0, lbreak, lcont) ==
    LET c == constexpr(next(st0.ts))
        st == New(Want(At(st0, c), ":"), 1)
        n == Last(st.sw).nr + 1
    IN  IF IsDead(c.np) \/ st.sw = <<>> THEN Fail(st0)
        ELSE IF n = NR_SWITCH THEN Fail(st0)
        ELSE stmt(EmitLabel(EmitTree(
                 EmitOpen([st EXCEPT !.sw[Len(st.sw)].nr = n],
                          <<Text("v"), Label(st.id)>>), c.np), st.id),
                 lbreak, lcont)

Default(st0, lbreak, lcont) ==
    LET st == New(Want(Skip(st0), ":"), 1)
    IN  IF st.sw = <<>> THEN [st EXCEPT !.err = "CRASH", !.ts = <<>>]
        ELSE IF Last(st.sw).def THEN Fail(st0)
        ELSE stmt(EmitLabel([st EXCEPT !.sw[Len(st.sw)].def = TRUE,
                        !.ir = Append(@, Line("\t", <<Text("f"),
                                                      Label(st.id)>>))],
                            st.id), lbreak, lcont)

If(st0, lbreak, lcont) ==
    LET st == New(st0, 1)
        lelse == st.id
        c == condition(TRUE, next(st.ts))
        yes == stmt(EmitTree(EmitBranch(At(st, c), lelse), c.np),
                    lbreak, lcont)
        more == New(Skip(yes), 1)
        no == stmt(EmitLabel(EmitJump(more, more.id), lelse), lbreak, lcont)
    IN  IF StTok(yes) = "ELSE" THEN EmitLabel(no, more.id)
        ELSE EmitLabel(yes, lelse)

RECURSIVE block(_, _, _)
block(st, lbreak, lcont) ==
    IF st.err /= "" \/ StTok(st) \in {"}", "EOF"} THEN st
    ELSE block(stmt(st, lbreak, lcont), lbreak, lcont)

compound(st, lbreak, lcont) == Want(block(Want(st, "{"), lbreak, lcont), "}")

stmt(st, lbreak, lcont) ==
    IF st.err /= "" THEN st
    ELSE LET t == StTok(st)
         IN  CASE t = "{" -> compound(st, lbreak, lcont)
               [] t = "RETURN" -> Return(st)
               [] t = "WHILE" -> While(st)
               [] t = "FOR" -> For(st)
               [] t = "DO" -> Dowhile(st)
               [] t = "IF" -> If(st, lbreak, lcont)
               [] t = "BREAK" -> Break(st, lbreak)
               [] t = "CONTINUE" -> Continue(st, lcont)
               [] t = "GOTO" -> Goto(st)
               [] t = "SWITCH" -> Swtch(st, lcont)
               [] t = "CASE" -> Case(st, lbreak, lcont)
               [] t = "DEFAULT" -> Default(st, lbreak, lcont)
               [] OTHER -> stmtexp(st, lbreak, lcont)

\* A function definition: its declarations, its body, its end.
funbody(globals, pars, locals, ts) ==
    LET st == compound(Begin(ts, emitfun(globals, pars, locals)), 0, 0)
    IN  [st EXCEPT !.ir = Append(@, Line("}", <<>>))]

=============================================================================
