------------------------------ MODULE Cc1Expr ------------------------------
(***************************************************************************)
(* The expressions of cc1 (cc1/expr.c): the recursive descent parser over  *)
(* the tokens, the implicit conversions, the checks on the operands, and   *)
(* the trees they build.                                                   *)
(*                                                                         *)
(* A parsing function takes the tokens that are left and returns the node  *)
(* and the tokens left after it.  A token is a record: t is its kind, name *)
(* the identifier, ty and u the type and the value of a constant, ty also  *)
(* the type of a type name (typename() is one token here).  errorp() and   *)
(* error() both end in a failed compilation without output, so both are    *)
(* the dead node Err.                                                      *)
(***************************************************************************)
EXTENDS Cc1Fold

CONSTANT Env      \* the declared identifiers: name -> [type, sym]

-----------------------------------------------------------------------------
(* Conversions.                                                            *)

\* convert(): Nil when the types do not convert.
convert(np, newtp, iscast) ==
    LET old == np.type
        op == newtp.op
        number == {"INT", "FLOAT", "ENUM"}
        good == \/ iscast /\ op = "VOID"
                \/ /\ old.op \in {"ENUM", "INT"} /\ op = "PTR"
                   /\ iscast \/ cmpnode(np, 0)
                \/ old.op \in number /\ op \in number
                \/ old.op = "PTR" /\ op \in {"ENUM", "INT"} /\ iscast
                \/ /\ old.op = "PTR" /\ op = "PTR"
                   /\ \/ eqtype(newtp, old, TRUE) \/ iscast
                      \/ newtp = pvoidtype \/ old = pvoidtype
    IN  IF IsDead(np) THEN np
        ELSE IF eqtype(newtp, old, FALSE) THEN np
        ELSE IF good THEN Unary("OCAST", newtp, np)
        ELSE Nil

\* Fault: a narrow operand keeps its type.
BadPromote(np) == IF np.type.op \in {"ENUM", "INT"} THEN np ELSE Crash

promote(np) ==
    LET tp == np.type
    IN  CASE tp.op \in {"ENUM", "INT"} ->
               IF tp.rank >= inttype.rank THEN np
               ELSE convert(np, IF MaxOf(tp) <= MaxOf(inttype) THEN inttype
                                ELSE uinttype, TRUE)
          [] tp.op = "FLOAT" -> convert(np, getarch.double, TRUE)
          [] OTHER -> Crash

\* Which of two promoted types arithconv() converts to: > 0 the first.
Direction(t1, t2) ==
    LET s1 == IsSigned(t1)
        s2 == IsSigned(t2)
    IN  IF t1 = t2 THEN 0
        ELSE IF s1 = s2 \/ t1.op = "FLOAT" \/ t2.op = "FLOAT"
        THEN t1.rank - t2.rank
        ELSE IF ~s1 THEN (IF t1.rank >= t2.rank \/ MaxOf(t1) >= MaxOf(t2)
                          THEN 1 ELSE -1)
        ELSE (IF t2.rank >= t1.rank \/ MaxOf(t2) >= MaxOf(t1)
              THEN -1 ELSE 1)

\* arithconv(): the two operands after the usual arithmetic conversions.
arithconv(p1, p2) ==
    LET n1 == promote(p1)
        n2 == promote(p2)
        to == IF IsDead(n1) \/ IsDead(n2) THEN 0
              ELSE Direction(n1.type, n2.type)
    IN  <<IF to < 0 THEN convert(n1, n2.type, TRUE) ELSE n1,
          IF to > 0 THEN convert(n2, n1.type, TRUE) ELSE n2>>

ConstAddr(var) ==
    \/ var.sym.cls \in {"G", "T", "Y"}
    \/ var.op = "OFIELD" /\ (Left(var).op = "OSYM" \/ IsConst(Left(var)))

chkconstaddr(var, addr) ==
    IF ~IsDead(var) /\ ConstAddr(var)
    THEN [addr EXCEPT !.flags = @ \cup {"CONST"}] ELSE addr

decay(np) ==
    LET tp == np.type
        addr == [Unary("OADDR", Ptr(IF tp.op = "ARY" THEN Base(tp) ELSE tp), np)
                 EXCEPT !.flags = @ \cup {"DECAY"}]
    IN  CASE tp.op = "ARY" /\ np.op = "OPTR" ->
               LET new == [Left(np) EXCEPT !.type = Ptr(Base(tp))]
               IN  chkconstaddr(new, new)
          [] tp.op = "FTN" \/ (tp.op = "ARY" /\ np.op /= "OPTR") ->
               chkconstaddr(np, addr)
          [] OTHER -> np

-----------------------------------------------------------------------------
(* Operators.                                                              *)

IntAssigns == {"OA_MOD", "OA_SHL", "OA_SHR", "OA_AND", "OA_XOR", "OA_OR"}

integerop(op, lp, rp) ==
    IF IsDead(lp) \/ IsDead(rp) THEN Binary(op, NoType, lp, rp)
    ELSE IF ~IsInteger(lp.type) \/ ~IsInteger(rp.type) THEN Err
    ELSE IF op \in IntAssigns
    THEN Binary(op, lp.type, lp, convert(rp, lp.type, FALSE))
    ELSE LET c == arithconv(lp, rp) IN Binary(op, c[1].type, c[1], c[2])

integeruop(op, np) ==
    IF IsDead(np) THEN np ELSE IF ~IsInteger(np.type) THEN Err
    ELSE LET p == promote(np) IN Unary(op, p.type, p)

numericaluop(op, np) ==
    IF IsDead(np) THEN np ELSE IF ~IsArith(np.type) THEN Err
    ELSE LET p == promote(np) IN Unary(op, p.type, p)

parithmetic(op, a, b) ==
    LET lp == IF a.type.op = "PTR" THEN a ELSE b
        rp == IF a.type.op = "PTR" THEN b ELSE a
        tp == lp.type
        size == sizeofnode(Base(tp))
    IN  IF \/ rp.type.op = "PTR" /\ ~IsDefined(Base(rp.type))
           \/ ~IsDefined(Base(tp))
        THEN Err
        ELSE IF op = "OSUB" /\ rp.type.op = "PTR"
        THEN Binary("ODIV", inttype,
                    Binary("OSUB", pdifftype, lp, convert(rp, tp, FALSE)), size)
        ELSE IF ~IsInteger(rp.type) THEN Err
        ELSE Binary(op, tp, lp,
                    convert(Binary("OMUL", sizettype,
                                   convert(promote(rp), sizettype, FALSE), size),
                            tp, TRUE))

arithmetic(op, lp, rp) ==
    IF IsDead(lp) \/ IsDead(rp) THEN Binary(op, NoType, lp, rp)
    ELSE IF IsArith(lp.type) /\ IsArith(rp.type)
    THEN IF op \in {"OA_ADD", "OA_SUB", "OA_MUL", "OA_DIV"}
         THEN Binary(op, lp.type, lp, convert(rp, lp.type, FALSE))
         ELSE LET c == arithconv(lp, rp) IN Binary(op, c[1].type, c[1], c[2])
    ELSE IF /\ lp.type.op = "PTR" \/ rp.type.op = "PTR"
            /\ op \in {"OADD", "OSUB", "OA_ADD", "OA_SUB", "OINC", "ODEC"}
    THEN LET np == parithmetic(op, lp, rp)
         IN  IF IsConst(lp) /\ IsConst(rp) /\ ~IsDead(np)
             THEN [np EXCEPT !.flags = @ \cup {"CONST"}] ELSE np
    ELSE Err

pcompare(op, lp, rp) ==
    LET l == IF IsInteger(lp.type) THEN convert(lp, rp.type, FALSE) ELSE lp
        r == IF IsInteger(rp.type) THEN convert(rp, l.type, FALSE) ELSE rp
    IN  convert(Binary(op, pvoidtype, l, r), inttype, TRUE)

compare(op, lp, rp) ==
    IF IsDead(lp) \/ IsDead(rp) THEN Binary(op, NoType, lp, rp)
    ELSE IF lp.type.op = "PTR" \/ rp.type.op = "PTR" THEN pcompare(op, lp, rp)
    ELSE IF IsArith(lp.type) /\ IsArith(rp.type)
    THEN LET c == arithconv(lp, rp)
         IN  convert(Binary(op, c[1].type, c[1], c[2]), inttype, TRUE)
    ELSE Err

\* exp2cond(): an expression where a truth value is wanted.
exp2cond(np, neg) ==
    CASE IsDead(np) -> np
      [] "AGGREG" \in np.type.props -> Err
      [] np.op \in {"ONEG", "OOR", "OAND"} ->
           IF neg THEN Unary("ONEG", inttype, np) ELSE np
      [] np.op \in Compares ->
           IF neg THEN [np EXCEPT !.op = negop(np.op)] ELSE np
      [] OTHER -> compare(IF neg THEN "OEQ" ELSE "ONE", np, zeronode)

logic(op, lp, rp) == Binary(op, inttype, exp2cond(lp, FALSE),
                            exp2cond(rp, FALSE))

negation(np) ==
    IF IsDead(np) THEN np
    ELSE IF ~IsArith(np.type) /\ np.type.op /= "PTR" THEN Err
    ELSE exp2cond(np, TRUE)

content(np) ==
    IF IsDead(np) THEN np ELSE IF np.type.op /= "PTR" THEN Err
    ELSE [Unary("OPTR", Base(np.type), np) EXCEPT !.flags = @ \cup {"LVAL"}]

array(lp, rp) ==
    IF ~IsDead(lp) /\ ~IsDead(rp) /\ ~IsInteger(lp.type) /\ ~IsInteger(rp.type)
    THEN Err ELSE content(arithmetic("OADD", lp, rp))

field(np, name) ==
    IF IsDead(np) THEN np
    ELSE IF "AGGREG" \notin np.type.props THEN Err
    ELSE LET is == {i \in DOMAIN np.type.parts : np.type.parts[i].name = name}
         IN  IF is = {} THEN Err
             ELSE LET f == np.type.parts[CHOOSE i \in is : TRUE]
                  IN  [Binary("OFIELD", f.type, np,
                              varnode(f.type, [NoSym EXCEPT !.k = "var",
                                  !.name = name, !.cls = "M", !.u = f.off]))
                       EXCEPT !.flags = @ \cup {"LVAL"}]

address(np) ==
    IF IsDead(np) THEN np
    ELSE LET p == IF "DECAY" \in np.flags THEN Left(np) ELSE np
         IN  IF p.op = "OSYM" /\ p.type.op = "FTN" THEN decay(p)
             ELSE IF /\ "LVAL" \notin p.flags
                     /\ ~(p.op = "OSYM" /\ p.type.op = "ARY")
             THEN Err
             ELSE IF p.sym.cls = "R" THEN Err
             ELSE chkconstaddr(p, Unary("OADDR", Ptr(p.type), p))

\* chklvalue() and the EFFECT flag that assign() and incdec() set.
Target(np) ==
    IF IsDead(np) THEN np
    ELSE IF "LVAL" \notin np.flags \/ np.type = voidtype THEN Err
    ELSE [np EXCEPT !.flags = @ \cup {"EFFECT"}]

incdec(np, op) ==
    LET t == Target(np)
    IN  IF IsDead(t) THEN t
        ELSE IF \/ ~IsDefined(t.type)
                \/ t.type.op = "PTR" /\ ~IsDefined(Base(t.type))
                \/ t.type.op /= "PTR" /\ ~IsArith(t.type)
        THEN Err ELSE arithmetic(op, t, onenode)

assignop(lp, rp) ==
    IF IsDead(lp) \/ IsDead(rp) THEN Binary("OASSIGN", NoType, lp, rp)
    ELSE LET c == convert(rp, lp.type, FALSE)
         IN  IF IsDead(c) THEN Err ELSE Binary("OASSIGN", lp.type, lp, c)

null(np) ==
    /\ np.type = pvoidtype
    /\ \/ np.op = "OSYM" /\ cmpnode(np, 0)
       \/ np.op = "OCAST" /\ Left(np).type = inttype /\ cmpnode(Left(np), 0)

chkternary(yes, no) ==
    IF IsDead(yes) \/ IsDead(no) \/ eqtype(yes.type, no.type, TRUE)
    THEN Binary("OCOLON", yes.type, yes, no)
    ELSE IF IsArith(yes.type) /\ IsArith(no.type)
    THEN LET c == arithconv(yes, no) IN Binary("OCOLON", c[1].type, c[1], c[2])
    ELSE LET tonull(p) == IF IsInteger(p.type) /\ cmpnode(p, 0)
                          THEN convert(p, pvoidtype, FALSE) ELSE p
             y == tonull(yes)
             n == tonull(no)
             y2 == IF null(y) THEN convert(y, n.type, FALSE) ELSE y
             n2 == IF null(n) THEN convert(n, y2.type, FALSE) ELSE n
         IN  IF \/ y.type.op /= "PTR" \/ n.type.op /= "PTR"
                \/ ~eqtype(y2.type, n2.type, TRUE)
             THEN Err ELSE Binary("OCOLON", y2.type, y2, n2)

-----------------------------------------------------------------------------
(* Grammar.                                                                *)

Tok(t) == [t |-> t, name |-> "", ty |-> NoType, u |-> 0]
EofTok == Tok("EOF")
\* yytoken: the token the parser looks at.
yytoken(ts) == IF ts = <<>> THEN EofTok ELSE Head(ts)
Is(ts, t) == yytoken(ts).t = t
next(ts) == IF ts = <<>> THEN ts ELSE Tail(ts)

Res(np, ts) == [np |-> np, ts |-> ts]
\* expect(): an error if the token is another one.
expect(res, t) == IF Is(res.ts, t) THEN Res(res.np, next(res.ts))
                  ELSE Res(IF IsDead(res.np) THEN res.np ELSE Err, <<>>)

\* The binary operators by level, mul() to or().
BinOps ==
    [t \in {"*", "/", "%", "+", "-", "SHL", "SHR", "<", ">", "GE", "LE", "EQ",
            "NE", "&", "^", "|", "AND", "OR"} |->
       CASE t = "*" -> <<1, "OMUL">> [] t = "/" -> <<1, "ODIV">>
         [] t = "%" -> <<1, "OMOD">>
         [] t = "+" -> <<2, "OADD">> [] t = "-" -> <<2, "OSUB">>
         [] t = "SHL" -> <<3, "OSHL">> [] t = "SHR" -> <<3, "OSHR">>
         [] t = "<" -> <<4, "OLT">> [] t = ">" -> <<4, "OGT">>
         [] t = "GE" -> <<4, "OGE">> [] t = "LE" -> <<4, "OLE">>
         [] t = "EQ" -> <<5, "OEQ">> [] t = "NE" -> <<5, "ONE">>
         [] t = "&" -> <<6, "OBAND">> [] t = "^" -> <<7, "OBXOR">>
         [] t = "|" -> <<8, "OBOR">>
         [] t = "AND" -> <<9, "OAND">> [] t = "OR" -> <<10, "OOR">>]

BinFun(op, l, r) ==
    CASE op \in {"OMUL", "ODIV", "OADD", "OSUB"} -> arithmetic(op, l, r)
      [] op \in Compares -> compare(op, l, r)
      [] op \in {"OAND", "OOR"} -> logic(op, l, r)
      [] OTHER -> integerop(op, l, r)

AssignOps ==
    [t \in {"=", "MUL_EQ", "DIV_EQ", "MOD_EQ", "ADD_EQ", "SUB_EQ", "SHL_EQ",
            "SHR_EQ", "AND_EQ", "XOR_EQ", "OR_EQ"} |->
       CASE t = "=" -> "OASSIGN" [] t = "MUL_EQ" -> "OA_MUL"
         [] t = "DIV_EQ" -> "OA_DIV" [] t = "MOD_EQ" -> "OA_MOD"
         [] t = "ADD_EQ" -> "OA_ADD" [] t = "SUB_EQ" -> "OA_SUB"
         [] t = "SHL_EQ" -> "OA_SHL" [] t = "SHR_EQ" -> "OA_SHR"
         [] t = "AND_EQ" -> "OA_AND" [] t = "XOR_EQ" -> "OA_XOR"
         [] t = "OR_EQ" -> "OA_OR"]

AssignFun(op, l, r) ==
    CASE op = "OASSIGN" -> assignop(l, r)
      [] op \in IntAssigns -> integerop(op, l, r)
      [] OTHER -> arithmetic(op, l, r)

RECURSIVE expr(_), assign(_), ternary(_), binary(_, _), cast(_), unary(_)

primary(ts) ==
    LET tok == yytoken(ts)
    IN  CASE tok.t = "CONSTANT" -> Res(constnode(tok.ty, tok.u), next(ts))
          [] tok.t = "(" -> expect(expr(next(ts)), ")")
          [] tok.t = "IDEN" -> LET s == Env[tok.name]
                               IN  Res(varnode(s.type, s.sym), next(ts))
          [] OTHER -> Res(Err, <<>>)

\* One argument of a call, converted to the parameter's type.
Argument(arg, partype) ==
    IF IsDead(arg) THEN arg
    ELSE IF partype = ellipsistype
    THEN CASE arg.type.op = "INT" -> promote(arg)
           [] arg.type = getarch.float -> convert(arg, getarch.double, TRUE)
           [] OTHER -> arg
    ELSE convert(arg, partype, FALSE)

\* The arguments that are left; par is the list of those already parsed.
RECURSIVE args(_, _, _)
args(par, targs, ts) ==
    LET a == assign(ts)
        done == IF targs = <<>> THEN Err ELSE Argument(a.np, targs[1])
        rest == IF targs /= <<>> /\ targs[1] /= ellipsistype THEN Tail(targs)
                ELSE targs
        new == <<node("OPAR", done.type, par, <<done>>)>>
    IN  IF Is(a.ts, ",") THEN args(new, rest, next(a.ts))
        ELSE [par |-> new, targs |-> rest, ts |-> a.ts]

arguments(np, ts) ==
    LET fun == IF ~IsDead(np) /\ np.type.op = "PTR" THEN content(np) ELSE np
        tp == fun.type
    IN  IF IsDead(fun) \/ tp.op /= "FTN" THEN Res(Err, <<>>)
        ELSE LET kr == "K_R" \in tp.props
                 targs == IF kr THEN <<ellipsistype>> ELSE tp.parts
                 a == IF Is(next(ts), ")")
                      THEN [par |-> <<>>, targs |-> targs, ts |-> next(ts)]
                      ELSE args(<<>>, targs, next(ts))
                 few == a.targs /= <<>> /\ a.targs[1] /= ellipsistype
                 op == IF "ELLIPSIS" \in tp.props THEN "OCALLE" ELSE "OCALL"
                 call == node(op, Base(tp), <<fun>>, a.par)
             IN  expect(Res(IF few THEN Err ELSE call, a.ts), ")")

RECURSIVE postfix(_)
postfix(res) ==
    LET lp == res.np
        ts == res.ts
        t == yytoken(ts).t
    IN  CASE IsDead(lp) -> res
          [] t = "[" -> LET e == expr(next(ts))
                        IN  postfix(expect(Res(array(decay(lp), e.np), e.ts),
                                           "]"))
          [] t \in {"INC", "DEC"} ->
               postfix(Res(incdec(decay(lp), IF t = "INC" THEN "OINC"
                                             ELSE "ODEC"), next(ts)))
          [] t \in {"INDIR", "."} ->
               postfix(Res(field(IF t = "." THEN decay(lp)
                                 ELSE decay(content(decay(lp))),
                                 yytoken(next(ts)).name), next(next(ts))))
          [] t = "(" -> LET c == arguments(decay(lp), ts)
                        IN  postfix(Res([c.np EXCEPT !.flags =
                                            @ \cup {"EFFECT"}], c.ts))
          [] OTHER -> res

\* typeof(): the type of an operand of sizeof, a decayed one undone.
typeof(np) == IF "DECAY" \in np.flags THEN Left(np).type ELSE np.type

\* sizeof and its operand, which must be complete.
SizeOf(tp) == IF IsDefined(tp) THEN sizeofnode(tp) ELSE Err
SizeOfExp(c) == Res(IF IsDead(c.np) THEN c.np ELSE SizeOf(typeof(c.np)), c.ts)

\* Parentheses hold a type or a cast expression, and nothing more is read behind
\* them.
sizeexp(ts) ==
    IF ~Is(ts, "(") THEN SizeOfExp(cast(ts))
    ELSE IF Is(next(ts), "TYPE")
    THEN expect(Res(SizeOf(yytoken(next(ts)).ty), next(next(ts))), ")")
    ELSE expect(SizeOfExp(cast(next(ts))), ")")

UnaryFun(t, np) ==
    CASE t = "!" -> negation(np)
      [] t = "+" -> numericaluop("OADD", np)
      [] t = "-" -> numericaluop("OSNEG", np)
      [] t = "~" -> integeruop("OCPL", np)
      [] t = "&" -> address(np)
      [] t = "*" -> content(np)

unary(ts) ==
    LET t == yytoken(ts).t
        dec(res) == Res(decay(res.np), res.ts)
    IN  CASE t = "SIZEOF" -> sizeexp(next(ts))
          [] t \in {"INC", "DEC"} ->
               LET u == unary(next(ts))
               IN  dec(Res(incdec(u.np, IF t = "INC" THEN "OA_ADD"
                                        ELSE "OA_SUB"), u.ts))
          [] t \in {"!", "+", "-", "~", "&", "*"} ->
               LET c == cast(next(ts)) IN dec(Res(UnaryFun(t, c.np), c.ts))
          [] OTHER -> dec(postfix(primary(ts)))

cast(ts) ==
    IF ~Is(ts, "(") THEN unary(ts)
    ELSE IF Is(next(ts), "TYPE")
    THEN LET tp == yytoken(next(ts)).ty
             c == cast(expect(Res(Nil, next(next(ts))), ")").ts)
             np == convert(c.np, tp, TRUE)
         IN  Res(IF tp.op = "ARY" \/ IsDead(np) THEN Err
                 ELSE [np EXCEPT !.flags = @ \ {"LVAL"}], c.ts)
    ELSE postfix(expect(expr(next(ts)), ")"))

\* mul() to or(), by level.
RECURSIVE rest(_, _)
rest(k, res) ==
    LET t == yytoken(res.ts).t
    IN  IF t \in DOMAIN BinOps /\ BinOps[t][1] = k
        THEN LET r == binary(k - 1, next(res.ts))
             IN  rest(k, Res(BinFun(BinOps[t][2], res.np, r.np), r.ts))
        ELSE res

binary(k, ts) == IF k = 0 THEN cast(ts) ELSE rest(k, binary(k - 1, ts))

RECURSIVE asks(_)
asks(res) ==
    IF ~Is(res.ts, "?") THEN res
    ELSE LET yes == expect(expr(next(res.ts)), ":")
             no == ternary(yes.ts)
             colon == chkternary(yes.np, no.np)
         IN  asks(Res(Binary("OASK", colon.type, exp2cond(res.np, FALSE),
                             colon), no.ts))

ternary(ts) == asks(binary(10, ts))

RECURSIVE assigns(_)
assigns(res) ==
    LET t == yytoken(res.ts).t
    IN  IF t \notin DOMAIN AssignOps THEN res
        ELSE LET r == assign(next(res.ts))
             IN  assigns(Res(AssignFun(AssignOps[t], Target(res.np), r.np),
                             r.ts))

assign(ts) == assigns(ternary(ts))

RECURSIVE commas(_)
commas(res) ==
    IF ~Is(res.ts, ",") THEN res
    ELSE LET r == assign(next(res.ts))
         IN  commas(Res(Binary("OCOMMA", r.np.type, res.np, r.np), r.ts))

expr(ts) == commas(assign(ts))

constexpr(ts) ==
    LET c == ternary(ts)
        np == IF IsDead(c.np) \/ c.np.type.op /= "INT" THEN Nil
              ELSE simplify(convert(c.np, inttype, FALSE))
    IN  Res(IF ~IsDead(np) /\ IsConst(np) THEN np ELSE Nil, c.ts)

condexpr(neg, ts) ==
    LET e == expr(ts) IN Res(simplify(exp2cond(e.np, neg)), e.ts)

=============================================================================
