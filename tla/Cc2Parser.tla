----------------------------- MODULE Cc2Parser -----------------------------
(***************************************************************************)
(* The reader of the intermediate code in cc2 (cc2/parser.c), its symbols  *)
(* (cc2/symbol.c), the list of statements of a function (cc2/node.c) and   *)
(* the pass over it that depends on the target (cc2/target/qbe/optm.c).    *)
(*                                                                         *)
(* Every token works on one stack; a line must leave it empty.  The cases  *)
(* of a switch are moved behind the statement that begins it (waft).  The  *)
(* statements are a sequence; curstmt and the last case of each open       *)
(* switch are positions in it.  An error() is a field of the state.        *)
(***************************************************************************)
EXTENDS CTypes

CONSTANTS STACKSIZ, NR_BLOCK

\* A node of cc2: sym is the id of its symbol, u its value, sub the operation
\* combined with an assignment; label is the id of a statement's label.
Node2(op) == [op |-> op, type |-> cc2types["0"], l |-> <<>>, r |-> <<>>,
              sym |-> 0, u |-> 0, sub |-> "", label |-> 0,
              complex |-> 0, address |-> 0]

\* gettype(): composed types have the size their declaration gave them.
gettype(ty) ==
    CASE ty.letter = "V" -> Cc2Type(ty.size, ty.align, {"ARR"})
      [] ty.letter \in {"S", "U"} -> Cc2Type(ty.size, ty.align, {"AGGR"})
      [] OTHER -> cc2types[ty.letter]

\* The operations by the letter that stands for them: who parses it, and op.
optbl ==
    [t \in {"A", "R", "G", "X", "Y", "T", "M", "L", "~", "_", "'", "@", "g",
            "p", "n", "a", "o", ".", "+", "-", "*", "%", "/", "l", "r", "<",
            ">", "[", "]", "=", "!", "&", "|", "^", ",", ":", "?", "c", "z",
            "#", "j", "y", "h", "i", "d", "b", "e", "v", "f", "t", "s"} |->
       CASE t \in {"A", "R"} -> <<"symbol", "OAUTO">>
         [] t \in {"G", "X", "Y", "T", "M"} -> <<"symbol", "OMEM">>
         [] t = "L" -> <<"symbol", "OLABEL">>
         [] t = "~" -> <<"unary", "OCPL">> [] t = "_" -> <<"unary", "OSNEG">>
         [] t = "'" -> <<"unary", "OADDR">> [] t = "@" -> <<"unary", "OPTR">>
         [] t = "g" -> <<"unary", "OCAST">> [] t = "p" -> <<"unary", "OPAR">>
         [] t = "n" -> <<"unary", "ONEG">>
         [] t = "a" -> <<"binary", "OAND">> [] t = "o" -> <<"binary", "OOR">>
         [] t = "." -> <<"binary", "OFIELD">>
         [] t = "+" -> <<"binary", "OADD">> [] t = "-" -> <<"binary", "OSUB">>
         [] t = "*" -> <<"binary", "OMUL">> [] t = "%" -> <<"binary", "OMOD">>
         [] t = "/" -> <<"binary", "ODIV">> [] t = "l" -> <<"binary", "OSHL">>
         [] t = "r" -> <<"binary", "OSHR">> [] t = "<" -> <<"binary", "OLT">>
         [] t = ">" -> <<"binary", "OGT">> [] t = "[" -> <<"binary", "OLE">>
         [] t = "]" -> <<"binary", "OGE">> [] t = "=" -> <<"binary", "OEQ">>
         [] t = "!" -> <<"binary", "ONE">> [] t = "&" -> <<"binary", "OBAND">>
         [] t = "|" -> <<"binary", "OBOR">> [] t = "^" -> <<"binary", "OBXOR">>
         [] t = "," -> <<"binary", "OCOMMA">>
         [] t = ":" -> <<"assign", "OASSIG">> [] t = "?" -> <<"ternary", "OASK">>
         [] t = "c" -> <<"call", "OCALL">> [] t = "z" -> <<"call", "OCALLE">>
         [] t = "#" -> <<"constant", "OCONST">>
         [] t = "j" -> <<"jump", "OJMP">> [] t = "y" -> <<"jump", "OBRANCH">>
         [] t = "h" -> <<"oreturn", "ORET">>
         [] t = "i" -> <<"none", "OINC">> [] t = "d" -> <<"none", "ODEC">>
         [] t = "b" -> <<"loop", "OBLOOP">> [] t = "e" -> <<"loop", "OELOOP">>
         [] t = "v" -> <<"ocase", "OCASE">> [] t = "f" -> <<"ocase", "ODEFAULT">>
         [] t = "t" -> <<"eswitch", "OESWITCH">>
         [] t = "s" -> <<"bswitch", "OBSWITCH">>]

-----------------------------------------------------------------------------
(* The state of the reader.                                                *)

\* syms: the declared symbols, in the order of locals; swt: the open
\* switches, each [nr, first, last].
Empty == [stack |-> <<>>, err |-> "", stmts |-> <<>>, cur |-> 0, swt |-> <<>>,
          syms |-> <<>>, infun |-> FALSE, inpars |-> FALSE, endf |-> FALSE]

error(p, e) == IF p.err /= "" THEN p ELSE [p EXCEPT !.err = e]

push(p, np) == IF Len(p.stack) = STACKSIZ THEN error(p, "ESTACKO")
               ELSE [p EXCEPT !.stack = Append(@, np)]
\* The n top elements, the deepest first, are popped together.
Top(p, n) == SubSeq(p.stack, Len(p.stack) - n + 1, Len(p.stack))
Pop(p, n) == [p EXCEPT !.stack = SubSeq(@, 1, Len(@) - n)]
Under(p, n) == Len(p.stack) < n

\* Replace the n top elements by the node that f makes of them.
Reduce(p, n, f(_)) == IF Under(p, n) THEN error(p, "ESTACKU")
                      ELSE push(Pop(p, n), f(Top(p, n)))

\* u: the offset of a member, or the size of the symbol's own type.
symbol(p, op, tok) ==
    LET tp == IF op = "OLABEL" THEN cc2types["0"] ELSE gettype(tok.ty)
    IN  push(p, [Node2(op) EXCEPT !.sym = tok.id, !.type = tp,
                     !.u = IF tok.t = "M" THEN tok.u ELSE tp.size])
constant(p, tok) ==
    push(p, [Node2("OCONST") EXCEPT !.type = gettype(tok.ty), !.u = tok.u])
unary2(p, op, tok) ==
    Reduce(p, 1, LAMBDA a : [Node2(op) EXCEPT !.type = gettype(tok.ty),
                                              !.l = <<a[1]>>])
binary2(p, op, tok) ==
    Reduce(p, 2, LAMBDA a : [Node2(op) EXCEPT !.type = gettype(tok.ty),
                                              !.l = <<a[1]>>, !.r = <<a[2]>>])
assign2(p, tok) ==
    Reduce(p, 2, LAMBDA a :
        [Node2("OASSIG") EXCEPT !.type = gettype(tok.ty),
             !.sub = IF tok.sub = "" THEN "" ELSE optbl[tok.sub][2],
             !.l = <<a[1]>>, !.r = <<a[2]>>])
ternary2(p, tok) ==
    Reduce(p, 3, LAMBDA a :
        [Node2("OASK") EXCEPT !.type = gettype(tok.ty), !.l = <<a[1]>>,
             !.r = <<[Node2("OCOLON") EXCEPT !.l = <<a[2]>>, !.r = <<a[3]>>]>>])

\* The parameters on the stack hang one from the right of the other.
RECURSIVE Pars(_, _)
Pars(p, par) ==
    IF p.stack = <<>> THEN [p |-> error(p, "ESTACKU"), par |-> par]
    ELSE IF Last(p.stack).op /= "OPAR" THEN [p |-> p, par |-> par]
    ELSE Pars(Pop(p, 1), <<[Last(p.stack) EXCEPT !.r = par]>>)

call2(p, op, tok) ==
    LET q == Pars(p, <<>>)
    IN  IF q.p.err /= "" THEN q.p
        ELSE Reduce(q.p, 1, LAMBDA a :
                 [Node2(op) EXCEPT !.type = gettype(tok.ty), !.l = <<a[1]>>,
                                   !.r = q.par])

-----------------------------------------------------------------------------
(* Statements.                                                             *)

InsertAfter(s, i, e) == SubSeq(s, 1, i) \o <<e>> \o SubSeq(s, i + 1, Len(s))

\* addstmt(): after the current statement; SETCUR makes it the current one.
addstmt(p, np) == [p EXCEPT !.stmts = InsertAfter(@, p.cur, np),
                            !.cur = @ + 1]

\* waft(): after the last case of the innermost open switch.
waft(p, np) ==
    IF p.swt = <<>> THEN error(p, "EWTACKU")
    ELSE LET i == Last(p.swt).last
         IN  [p EXCEPT !.stmts = InsertAfter(@, i, np), !.cur = @ + 1,
                       !.swt[Len(p.swt)].last = i + 1,
                       !.swt[Len(p.swt)].nr = @ + 1]

RECURSIVE eval(_, _)

\* jump(): the label and, for a branch or a case, the expression after it.
jump(p, op, toks) ==
    LET q == eval(p, toks)
        n == IF op \in {"OBRANCH", "OCASE"} THEN 2 ELSE 1
    IN  IF q.err /= "" THEN q
        ELSE Reduce(q, n, LAMBDA a :
                 [Node2(op) EXCEPT !.sym = a[1].sym,
                                   !.l = IF n = 2 THEN <<a[2]>> ELSE <<>>])

Wafted(p) == IF p.err /= "" THEN p ELSE waft(Pop(p, 1), Last(p.stack))

ocase(p, op, toks) == Wafted(jump(p, op, toks))

eswitch(p, toks) ==
    IF p.swt = <<>> THEN error(p, "EWTACKU")
    ELSE LET q == Wafted(jump(p, "OESWITCH", toks))
         IN  IF q.err /= "" THEN q ELSE [q EXCEPT !.swt = Front(@)]

\* The switch's statement is added by stmt() right after: its place is known.
bswitch(p, toks) ==
    IF Len(p.swt) = NR_BLOCK THEN error(p, "EWTACKO")
    ELSE LET q == eval(p, toks)
         IN  IF q.err /= "" THEN q
             ELSE Reduce([q EXCEPT !.swt =
                             Append(@, [nr |-> 0, last |-> q.cur + 1])], 1,
                         LAMBDA a : [Node2("OBSWITCH") EXCEPT !.l = <<a[1]>>])

oreturn(p, toks) ==
    LET q == eval(p, toks)
    IN  IF q.err /= "" THEN q
        ELSE IF q.stack = <<>> THEN push(q, Node2("ORET"))
        ELSE Reduce(q, 1, LAMBDA a : [Node2("ORET") EXCEPT !.l = <<a[1]>>])

\* eval(): the tokens of a line from left to right; the operations of the
\* statements take the rest of the line themselves.
eval(p, toks) ==
    IF toks = <<>> \/ p.err /= "" THEN p
    ELSE LET tok == Head(toks)
             op == optbl[tok.t][2]
             rest == Tail(toks)
         IN  CASE optbl[tok.t][1] = "symbol" -> eval(symbol(p, op, tok), rest)
               [] optbl[tok.t][1] = "constant" -> eval(constant(p, tok), rest)
               [] optbl[tok.t][1] = "unary" -> eval(unary2(p, op, tok), rest)
               [] optbl[tok.t][1] = "binary" -> eval(binary2(p, op, tok), rest)
               [] optbl[tok.t][1] = "assign" -> eval(assign2(p, tok), rest)
               [] optbl[tok.t][1] = "ternary" -> eval(ternary2(p, tok), rest)
               [] optbl[tok.t][1] = "call" -> eval(call2(p, op, tok), rest)
               [] optbl[tok.t][1] = "loop" -> eval(push(p, Node2(op)), rest)
               [] optbl[tok.t][1] = "jump" -> jump(p, op, rest)
               [] optbl[tok.t][1] = "ocase" -> ocase(p, op, rest)
               [] optbl[tok.t][1] = "eswitch" -> eswitch(p, rest)
               [] optbl[tok.t][1] = "bswitch" -> bswitch(p, rest)
               [] optbl[tok.t][1] = "oreturn" -> oreturn(p, rest)
               [] OTHER -> p

\* vardecl() and decl(): a symbol of the function is a parameter or a local.
vardecl(p, line) ==
    LET d == line.toks[1]
        tp == gettype(d.ty)
    IN  IF line.c \in {"A", "R"} /\ ~p.infun THEN error(p, "ESYNTAX")
        ELSE [p EXCEPT !.syms = Append(@, [id |-> d.id, type |-> tp,
                  kind |-> IF line.c = "R" THEN "A" ELSE line.c,
                  par |-> p.inpars,
                  rtype |-> IF d.sub = "" THEN cc2types["0"]
                            ELSE cc2types[d.sub]])]

labeldcl(p, line) ==
    addstmt(p, [Node2("ONOP") EXCEPT !.label = line.toks[1].id])

beginfun(p) == addstmt([p EXCEPT !.infun = TRUE, !.inpars = TRUE],
                       Node2("OBFUN"))
endpars(p) == IF ~p.infun \/ ~p.inpars THEN error(p, "ESYNTAX")
              ELSE [p EXCEPT !.inpars = FALSE]
endfun(p) == [addstmt(p, Node2("OEFUN")) EXCEPT !.endf = TRUE]

\* stmt(): what is left of a line of the body is its statement.
stmt2(p) == IF p.stack = <<>> THEN p
            ELSE addstmt(Pop(p, 1), Last(p.stack))

nextline(p, line) ==
    LET q == CASE line.c = "{" -> beginfun(p)
               [] line.c = "}" -> endfun(p)
               [] line.c = "\\" -> endpars(p)
               [] line.c = "L" -> labeldcl(p, line)
               [] line.c = "\t" -> LET e == eval(p, line.toks)
                                   IN  IF e.err /= "" THEN e ELSE stmt2(e)
               [] OTHER -> vardecl(p, line)
    IN  IF q.err = "" /\ q.stack /= <<>> THEN error(q, "ESTACKA") ELSE q

RECURSIVE parse(_, _)
parse(p, lines) ==
    IF p.err /= "" \/ p.endf \/ lines = <<>> THEN p
    ELSE parse(nextline(p, Head(lines)), Tail(lines))

-----------------------------------------------------------------------------
(* optm_dep(): the statements of a function before code is made of them.   *)

Skipped == {"ONOP", "OBLOOP", "OELOOP"}

\* Nothing but labels and loop marks between statement i and label id.
JumpsToNext(s, i, id) ==
    \E j \in (i + 1)..Len(s) :
        /\ s[j].label = id
        /\ \A k \in (i + 1)..(j - 1) : s[k].op \in Skipped

\* A branch or a jump to what follows is deleted; a function that may fall
\* off its end gets a return behind it.
optm_dep(s, i) ==
    CASE s[i].op \in {"OJMP", "OBRANCH"} ->
           IF JumpsToNext(s, i, s[i].sym) THEN <<>> ELSE <<s[i]>>
      [] s[i].op = "OEFUN" ->
           IF i > 1 /\ s[i - 1].op \in {"ORET", "OJMP"} THEN <<s[i]>>
           ELSE <<s[i], Node2("ORET")>>
      [] OTHER -> <<s[i]>>

\* apply() of it: the statements before i have been rewritten when it runs.
RECURSIVE apply_dep(_, _)
apply_dep(s, i) ==
    IF i > Len(s) THEN s
    ELSE LET new == optm_dep(s, i)
         IN  apply_dep(SubSeq(s, 1, i - 1) \o new \o SubSeq(s, i + 1, Len(s)),
                       i + IF Len(new) = 0 THEN 0 ELSE 1)

=============================================================================
