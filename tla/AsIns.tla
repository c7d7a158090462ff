-------------------------------- MODULE AsIns --------------------------------
(***************************************************************************)
(* The assembler's tables and what a line does to them: the symbols and    *)
(* the sections (symbol.c), the directives (ins.c), and the body of the    *)
(* loop of dopass() in main.c.                                             *)
(*                                                                         *)
(* A line is [label, op, args, bad]: its fields as extract() splits them,  *)
(* the operands as lexemes (module AsParser); bad says that a field or the *)
(* line itself is malformed.  The tables are the record                    *)
(* t == [secs, cursec, syms, cursym].                                      *)
(***************************************************************************)
EXTENDS AsParser

CONSTANT maxaddr      \* the largest address of a section

stext == 1
sdata == 2
sbss == 3
NULL == 0

-----------------------------------------------------------------------------
(* symbol.c                                                                *)

Symbol(name, section) ==
    [name |-> name, value |-> 0, flags |-> {}, size |-> 0, dtype |-> 0,
     section |-> section, sec |-> NULL]

\* lookup() of every name of a set, which enters the ones that are new.
lookup(t, names) ==
    LET new == {Resolve(n, t.cursym) : n \in names} \ DOMAIN t.syms
    IN  [t EXCEPT !.syms = [n \in DOMAIN @ \cup new |->
                              IF n \in new THEN Symbol(n, t.cursec) ELSE @[n]]]

\* What a step did to the tables, and how it ended.
Res(t, how) == [m |-> t, how |-> how, file |-> ""]

\* (fault) a local label starts a scope of its own.
BadDeflabel(t, p, name) ==
    LET full == Resolve(name, t.cursym)
        t1 == lookup(t, {full})
    IN  IF Head(name) = "" /\ t.cursym = <<>> THEN Res(t, "error")
        ELSE IF p = 1 /\ "FDEF" \in t1.syms[full].flags THEN Res(t1, "error")
        ELSE Res([t1 EXCEPT !.syms[full].value = t.secs[t.cursec].pc,
                            !.syms[full].section = t.cursec,
                            !.cursym = full], "ok")

\* deflabel() in pass p.
deflabel(t, p, name) ==
    LET full == Resolve(name, t.cursym)
        t1 == lookup(t, {full})
        sec == t.secs[t.cursec]
    IN  IF Head(name) = "" /\ t.cursym = <<>> THEN Res(t, "error")
        ELSE IF p = 1 /\ "FDEF" \in t1.syms[full].flags THEN Res(t1, "error")
        ELSE IF t.cursec = NULL THEN Res(t1, "crash")
        ELSE Res([t1 EXCEPT !.syms[full].value = sec.pc,
                            !.syms[full].section = t.cursec,
                            !.syms[full].flags = @ \cup (IF "a" \in sec.flags
                                                         THEN {"FABS"} ELSE {}),
                            !.cursym = IF Head(name) = "" THEN @ ELSE full], "ok")

Larger(a, b) == IF a > b THEN a ELSE b

\* (fault) the second pass does not advance.
BadIncpc(t, p, n) ==
    LET c == t.cursec
    IN  Res([t EXCEPT !.secs[c].pc = IF p = 2 THEN @ ELSE @ + n], "ok")

\* incpc(): the second pass only advances.
incpc(t, p, n) ==
    LET c == t.cursec
        pc == t.secs[c].pc + n
    IN  IF p = 2 THEN Res([t EXCEPT !.secs[c].pc = pc], "ok")
        ELSE Res([t EXCEPT !.secs[c].pc = pc, !.secs[c].size = Larger(@, pc)],
                 IF pc > maxaddr THEN "die" ELSE "ok")

\* emit(): a section has a file in the second pass, if it is allocated; what
\* becomes of the bytes when the write fails is Unstored of module As.
emit(t, p, bytes) ==
    LET c == t.cursec
    IN  IF c = NULL THEN Res(t, "crash")
        ELSE incpc([t EXCEPT !.secs[c].fp = IF t.secs[c].open THEN @ \o bytes ELSE @],
                   p, Len(bytes))

newsec(t, name, attr) ==
    LET i == Len(t.secs) + 1
    IN  [t EXCEPT !.secs = Append(@, [name |-> name, flags |-> attr, pc |-> 0,
                                      size |-> 0, open |-> FALSE, fp |-> <<>>]),
                  !.syms[name].sec = i, !.syms[name].section = i,
                  !.syms[name].flags = {"FSECT"}]

\* defsec(): a name that is not a section leaves the assembler without one.
defsec(t, name, attr) ==
    LET t1 == lookup([t EXCEPT !.cursec = NULL], {name})
        full == Resolve(name, t.cursym)
        t2 == IF t1.syms[full].sec = NULL THEN newsec(t1, full, attr) ELSE t1
    IN  IF t1.syms[full].flags \ {"FSECT"} # {} THEN Res(t1, "error")
        ELSE Res([t2 EXCEPT !.cursec = t2.syms[full].sec], "ok")

\* iarch() and ibinfmt(): the registers and the three sections.
ibinfmt ==
    LET empty == [secs |-> <<>>, cursec |-> NULL, cursym |-> <<>>,
                  syms |-> [n \in {r.name : r \in iarch} |->
                              LET r == CHOOSE r \in iarch : r.name = n
                              IN  [Symbol(n, NULL) EXCEPT !.value = r.value,
                                                          !.flags = r.flags]]]
        t1 == defsec(empty, <<"", "text">>, {"r", "x", "c", "l"}).m
        t2 == defsec(t1, <<"", "data">>, {"r", "w", "c", "l"}).m
    IN  defsec(t2, <<"", "bss">>, {"r", "w", "c"}).m

\* cleansecs(): every file of a pass starts all the sections again.
cleansecs(t, p) ==
    [t EXCEPT !.secs = [i \in DOMAIN @ |->
                          [@[i] EXCEPT !.pc = 0, !.fp = <<>>,
                                       !.open = (p = 2 /\ "c" \in t.secs[i].flags)]],
              !.cursec = stext]

\* writeout(): the files of the sections, the last section first.
Dump(secs) == FoldLeft(LAMBDA a, s : s.fp \o a, <<>>, secs)

-----------------------------------------------------------------------------
(* ins.c                                                                   *)

\* tobytes(): little endian; an overflow is an error.
tobytes(v, n) == [i \in 1..n |-> (v \div 256^(i - 1)) % 256]
Overflows(v, n) == n < 3 /\ v >= 256^n

def(t, p, args, siz) ==
    LET v(i) == args[i].sym.value
        RECURSIVE All(_)
        All(i) == IF i > Len(args) THEN <<>> ELSE tobytes(v(i), siz) \o All(i + 1)
    IN  IF \E i \in DOMAIN args : "sym" \notin DOMAIN args[i] THEN Res(t, "crash")
        ELSE IF Overflows(v(1), siz) THEN Res(t, "error")
        ELSE emit(t, p, All(1))

\* xstring(): no terminator for either directive.
xstring(t, p, args) ==
    IF \E i \in DOMAIN args : args[i].addr # "ASTR" THEN Res(t, "undefined")
    ELSE emit(t, p, FlattenSeq([i \in DOMAIN args |-> args[i].sym.name]))

symexp(which, t, p, args, linesym) ==
    LET name == IF Len(args) > 1 THEN args[1].sym.name ELSE linesym
        exp == args[Len(args)].sym
        redefined == p = 1 /\ "FDEF" \in t.syms[name].flags
    IN  IF name = <<>> \/ "FABS" \notin exp.flags THEN Res(t, "error")
        ELSE CASE which = "equ" ->
                    IF redefined THEN Res(t, "error")
                    ELSE Res([t EXCEPT !.syms[name].value = exp.value,
                                       !.syms[name].flags = @ \cup {"FDEF"}], "ok")
               [] which = "common" ->
                    Res([t EXCEPT !.syms[name].flags = @ \cup {"FCOMMON"},
                                  !.syms[name].size = exp.value], "ok")
               [] which = "size" -> Res([t EXCEPT !.syms[name].size = exp.value], "ok")
               [] which = "type" -> Res([t EXCEPT !.syms[name].dtype = exp.value], "ok")

section(t, args) ==
    IF Len(args) > 1 /\ args[2].addr # "ASTR" THEN Res(t, "undefined")
    ELSE defsec(t, args[1].sym.name, IF Len(args) > 1 THEN args[2].sym.name ELSE {})

\* extrn() and global(): the first name only.
Flag(t, args, f) == IF "sym" \notin DOMAIN args[1] THEN Res(t, "crash")
                    ELSE IF args[1].sym.name \notin DOMAIN t.syms THEN Res(t, "ok")
                    ELSE Res([t EXCEPT !.syms[args[1].sym.name].flags = @ \cup {f}], "ok")

align(t, p, args) ==
    LET al == args[1].sym.value - 1
        up == t.secs[t.cursec].pc + al
        pcal == up - (up & al)
    IN  IF "sym" \notin DOMAIN args[1] THEN Res(t, "crash")
        ELSE IF "FABS" \notin args[1].sym.flags THEN Res(t, "error")
        ELSE IF al < 0 THEN Res(t, "ok")
        ELSE IF t.cursec = NULL THEN Res(t, "crash")
        ELSE emit(t, p, [i \in 1..(pcal - t.secs[t.cursec].pc) |-> 0])

Width == [defb |-> 1, defw |-> 2, defd |-> 4, defq |-> 8]

\* The call of the format of a row.
Run(op, t, p, args, linesym) ==
    CASE op.format \in DOMAIN Width -> def(t, p, args, Width[op.format])
      [] op.format = "ascii" -> xstring(t, p, args)
      [] op.format \in {"equ", "common", "size", "type"} ->
            symexp(op.format, t, p, args, linesym)
      [] op.format = "section" -> section(t, args)
      [] op.format = "text" -> Res([t EXCEPT !.cursec = stext], "ok")
      [] op.format = "data" -> Res([t EXCEPT !.cursec = sdata], "ok")
      [] op.format = "bss" -> Res([t EXCEPT !.cursec = sbss], "ok")
      [] op.format = "extrn" -> Flag(t, args, "FEXTERN")
      [] op.format = "global" -> Flag(t, args, "FGLOBAL")
      [] op.format = "align" -> align(t, p, args)
      [] op.format = "end" -> Res(t, "end")
      [] op.format = "include" -> [m |-> t, how |-> "include", file |-> args[1].sym.name]
      [] OTHER -> IF t.cursec = NULL THEN Res(t, "crash")
                  ELSE emit(t, p, Format(op, args, t.secs[t.cursec].pc, TUINT_MAX + 1))

-----------------------------------------------------------------------------
(* main.c: a line.                                                         *)

Names(texts) == UNION {{lex.n : lex \in {x \in Range(ts) : x.t = "name"}} :
                          ts \in Range(texts)}

translate(t, p, str, texts, linesym) ==
    LET rows == decode(str)
        t1 == lookup(t, Names(texts))
        args == getargs(t1.syms, t1.cursym, texts)
        bad == {i \in DOMAIN args : Failed(args[i])}
        answer == [i \in DOMAIN rows |-> match(rows[i], args)]
        taken == {i \in DOMAIN rows : answer[i] # "no"}
        first(S) == CHOOSE i \in S : \A j \in S : i <= j
    IN  IF rows = <<>> THEN Res(t, "error")
        ELSE IF bad # {} THEN Res(t1, args[first(bad)].how)
        ELSE IF taken = {} THEN Res(t1, "error")
        ELSE IF answer[first(taken)] # "yes" THEN Res(t1, answer[first(taken)])
        ELSE Run(rows[first(taken)], t1, p, args, linesym)

\* The body of the loop of dopass(): the label, the instruction, and then the
\* label becomes defined.
Statement(t, p, line) ==
    LET lab == IF line.label = <<>> THEN Res(t, "ok") ELSE deflabel(t, p, line.label)
        full == Resolve(line.label, t.cursym)
        tr == IF line.op = "" THEN Res(lab.m, IF line.args = <<>> THEN "ok" ELSE "error")
              ELSE translate(lab.m, p, line.op, line.args,
                             IF line.label = <<>> THEN <<>> ELSE full)
    IN  IF line.bad THEN Res(t, "error")
        ELSE IF lab.how # "ok" THEN lab
        ELSE IF tr.how \notin {"ok", "end", "include"} \/ line.label = <<>> THEN tr
        ELSE [tr EXCEPT !.m.syms[full].flags = @ \cup {"FDEF"}]

=============================================================================
