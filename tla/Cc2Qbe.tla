------------------------------- MODULE Cc2Qbe -------------------------------
(***************************************************************************)
(* The code generator of cc2 for QBE: target/qbe/cgen.c, the instruction   *)
(* list it fills (cc2/code.c) and the text it is written as                *)
(* (target/qbe/code.c).                                                    *)
(*                                                                         *)
(* The state g of the generator: the instructions so far (code), the last  *)
(* number given to a temporary or a label (n) and the abort() or assert    *)
(* that ended it (err).  What evaluates an expression returns g and the    *)
(* node that holds the value.  Floating point is not modelled.             *)
(***************************************************************************)
EXTENDS Cc2Parser

Gen == [code |-> <<>>, n |-> 1000, err |-> ""]
Val(g, np) == [g |-> g, np |-> np]
abort(g, why) == IF g.err /= "" THEN g ELSE [g EXCEPT !.err = why]
Fresh(g) == [g EXCEPT !.n = @ + 1]
Void == Node2("ONONE")

-----------------------------------------------------------------------------
(* Instructions: cc2/code.c.                                               *)

\* An operand: its kind, the number of its symbol or its value, and the size
\* of the symbol's type.
NoAddr == [kind |-> "SNONE", v |-> 0, size |-> 0]
addr(np) ==
    CASE np.op = "OCONST" -> [kind |-> "SCONST", v |-> np.u, size |-> 0]
      [] np.op = "OTMP" -> [kind |-> "STMP", v |-> np.sym, size |-> np.u]
      [] np.op = "OLABEL" -> [kind |-> "SLABEL", v |-> np.sym, size |-> 0]
      [] np.op = "OAUTO" -> [kind |-> "SAUTO", v |-> np.sym, size |-> np.u]
      [] np.op = "OMEM" -> [kind |-> "SGLOB", v |-> np.sym, size |-> np.u]
      [] OTHER -> NoAddr
HasAddr(np) == np.op \in {"OCONST", "OTMP", "OLABEL", "OAUTO", "OMEM"}

\* op, whether it is the unsigned variant, the size of its operands, the
\* class of the result, the operands, and the arguments of a call.
Ins(op, uns, size, cls, to, from1, from2) ==
    [op |-> op, uns |-> uns, size |-> size, cls |-> cls, to |-> to,
     from1 |-> from1, from2 |-> from2, args |-> <<>>]

code(g, ins) == IF g.err /= "" THEN g
                ELSE [g EXCEPT !.code = Append(@, ins)]
Emit(g, op, uns, size, cls, to, from1, from2) ==
    IF \A np \in {to, from1, from2} \ {Void} : HasAddr(np)
    THEN code(g, Ins(op, uns, size, cls, addr(to), addr(from1), addr(from2)))
    ELSE abort(g, "addr")

\* Symbols without a name are numbered; u holds the size of a temporary.
newlabel(g) == [g |-> Fresh(g), id |-> g.n + 1]
label2node(id) == [Node2("OLABEL") EXCEPT !.sym = id]
tmpnode(g, tp) ==
    Val(Fresh(g), [Node2("OTMP") EXCEPT !.sym = g.n + 1, !.u = tp.size,
                       !.type = [tp EXCEPT !.flags = @ \ {"PAR", "PTR"}]])
constnode2(n, tp) == [Node2("OCONST") EXCEPT !.u = n, !.type = tp]
setlabel(g, id) ==
    IF id = 0 THEN g
    ELSE Emit(g, "label", FALSE, 0, "", Void, label2node(id), Void)

jmp(g, id) == Emit(g, "jmp", FALSE, 0, "", Void, label2node(id), Void)
branch(g, np, yes, no) ==
    Emit(g, "jnz", FALSE, 0, "", np, label2node(yes), label2node(no))

int32type == cc2types["W"]
ptrtype == cc2types["P"]
Is(tp, flag) == flag \in tp.flags
\* size2stack(): the class of a value of the type in a call or a temporary.
size2stack(tp) == IF tp.size = 8 THEN "l" ELSE "w"

-----------------------------------------------------------------------------
(* sethi(): the Sethi-Ullman numbers, and the operators QBE has not.       *)

complex(np) ==
    IF np.address > 10 THEN np
    ELSE LET lc == IF np.l = <<>> THEN np.complex ELSE np.l[1].complex
             rc == IF np.r = <<>> THEN lc
                   ELSE IF lc = np.r[1].complex THEN lc + 1
                   ELSE IF lc < np.r[1].complex THEN np.r[1].complex ELSE lc
         IN  [np EXCEPT !.complex = IF rc = 0 THEN 1 ELSE rc]

\* The operation and the operands after the rewriting of ~ and unary -.
Rewrite(np) ==
    CASE np.op = "OCPL" -> [np EXCEPT !.op = "OBXOR",
                               !.r = <<constnode2(Word(-1), np.type)>>]
      [] np.op = "OSNEG" -> [np EXCEPT !.op = "OSUB", !.r = np.l,
                                !.l = <<constnode2(0, np.type)>>]
      [] OTHER -> np

\* The asserts of sethi() fail somewhere in the tree.
RECURSIVE SethiAsserts(_)
SethiAsserts(np) ==
    \/ np.op = "OASSIG" /\ np.l[1].op = "OCAST"
    \/ np.op = "OCPL" /\ ~Is(np.type, "INT")
    \/ \E k \in Range(np.l \o np.r) : SethiAsserts(k)

RECURSIVE sethi(_)
sethi(np) ==
    LET clean == [np EXCEPT !.complex = 0, !.address = 0]
        new == Rewrite(clean)
    IN  IF np.op \in {"OAUTO", "OREG", "OMEM", "OCONST"}
        THEN [clean EXCEPT !.address = 11]
        ELSE complex([new EXCEPT !.l = [i \in DOMAIN @ |-> sethi(@[i])],
                                 !.r = [i \in DOMAIN @ |-> sethi(@[i])]])

-----------------------------------------------------------------------------
(* Loads, conversions, copies and stores.                                  *)

InMemory == {"AGGR", "FUN", "ARR", "PTR"}

load(g, tp, np) ==
    IF tp.flags \cap InMemory /= {} THEN Val(g, np)
    ELSE IF tp.size \notin {1, 2, 4, 8} THEN Val(abort(g, "load"), np)
    ELSE LET t == tmpnode(g, tp)
             uns == Is(tp, "INT") /\ ~Is(tp, "SIGN") /\ tp.size < 8
         IN  Val(Emit(t.g, "load", uns, tp.size, size2stack(tp), t.np, np,
                      Void), t.np)

\* Fault: the sign of the type converted to, not of the one converted from.
BadCast2(g, td, np) ==
    LET dsize == IF td.size < 4 THEN 4 ELSE td.size
        t == tmpnode(g, td)
    IN  IF dsize <= np.type.size THEN Val(g, [np EXCEPT !.type = td])
        ELSE Val(Emit(t.g, "ext", ~Is(td, "SIGN"), np.type.size,
                      size2stack(td), t.np, np, Void), t.np)

\* cast(), of an integer to an integer: only a wider type takes code.
cast2(g, td, np) ==
    LET ts == np.type
        dsize == IF td.size < 4 THEN 4 ELSE td.size
        t == tmpnode(g, td)
    IN  IF ~{td.size, ts.size} \subseteq {1, 2, 4, 8}
        THEN Val(abort(g, "bytes2idx"), np)
        ELSE IF dsize <= ts.size THEN Val(g, [np EXCEPT !.type = td])
        ELSE Val(Emit(t.g, "ext", ~Is(ts, "SIGN"), ts.size, size2stack(td),
                      t.np, np, Void), t.np)

\* copy(): the class of the result is that of the type, b and h included.
copy(g, tp, to, from) ==
    CASE tp.size = 0 -> g
      [] tp.size \in {1, 2, 4, 8} ->
           Emit(g, "copy", FALSE, tp.size,
                CASE tp.size = 1 -> "b" [] tp.size = 2 -> "h"
                  [] tp.size = 4 -> "w" [] OTHER -> "l", to, from, Void)
      [] OTHER -> abort(g, "copy")

\* assignop(): a store of the type's size, or a copy of the whole object.
assignop2(g, tp, l, r) ==
    IF tp.flags \cap {"AGGR", "FUN", "ARR"} /= {}
    THEN Emit(g, "blit", FALSE, 0, "", l, r, Void)
    ELSE IF tp.size \notin {1, 2, 4, 8} THEN abort(g, "assignop")
    ELSE Emit(g, "store", FALSE, tp.size, "", l, r, Void)

-----------------------------------------------------------------------------
(* Expressions.                                                            *)

Compares == {"OLT", "OGT", "OLE", "OGE", "OEQ", "ONE"}
IntOps == {"OMOD", "OSHL", "OBAND", "OBOR", "OBXOR", "OSHR"}
BinaryOps == Compares \cup IntOps \cup {"ODIV", "OADD", "OSUB", "OMUL"}
\* The operations of opbin[] that differ for unsigned operands.
SignMatters == {"OMOD", "ODIV", "OSHR", "OLT", "OGT", "OLE", "OGE"}

RECURSIVE rhs(_, _)
RECURSIVE lhs(_, _)
RECURSIVE bool(_, _, _, _)

\* The more complex operand is evaluated first.
rhs_rhs(g, l, r) ==
    IF l.complex >= r.complex
    THEN LET a == rhs(g, l) b == rhs(a.g, r)
         IN  [g |-> b.g, l |-> a.np, r |-> b.np]
    ELSE LET b == rhs(g, r) a == rhs(b.g, l)
         IN  [g |-> a.g, l |-> a.np, r |-> b.np]

lhs_rhs(g, l, r) ==
    IF l.complex >= r.complex
    THEN LET a == lhs(g, l) b == rhs(a.g, r)
         IN  [g |-> b.g, l |-> a.np, r |-> b.np]
    ELSE LET b == rhs(g, r) a == lhs(b.g, l)
         IN  [g |-> a.g, l |-> a.np, r |-> b.np]

binary(g, np) ==
    LET tp == np.type
        b == rhs_rhs(g, np.l[1], np.r[1])
        t == tmpnode(b.g, tp)
        cls == IF np.op \in Compares THEN "w" ELSE size2stack(tp)
    IN  IF \/ tp.size \notin {4, 8}
           \/ np.op \in IntOps /\ ~Is(tp, "INT")
        THEN Val(abort(g, "assert"), np)
        ELSE Val(Emit(t.g, np.op, np.op \in SignMatters /\ ~Is(tp, "SIGN"),
                      tp.size, cls, t.np, b.l, b.r), t.np)

\* The parameters of a call from left to right.
RECURSIVE parvalues(_, _, _)
parvalues(g, par, vals) ==
    IF par = <<>> THEN [g |-> g, vals |-> vals]
    ELSE LET v == rhs(g, par[1].l[1])
         IN  parvalues(v.g, par[1].r, Append(vals, v.np))

call(g, np) ==
    LET fun == IF np.l[1].op = "OPTR" THEN rhs(g, np.l[1]) ELSE Val(g, np.l[1])
        ps == parvalues(fun.g, np.r, <<>>)
        t == tmpnode(ps.g, np.type)
        args == [i \in DOMAIN ps.vals |->
                   [cls |-> size2stack(ps.vals[i].type),
                    a |-> addr(ps.vals[i])]]
    IN  Val(code(t.g, [Ins("call", FALSE, 0, size2stack(np.type), addr(t.np),
                           addr(fun.np), NoAddr) EXCEPT !.args = args]), t.np)

field2(g, np, islhs) ==
    LET a == rhs(g, np.l[1])
        sum == [Node2("OADD") EXCEPT !.type = ptrtype, !.l = <<a.np>>,
                   !.r = <<constnode2(np.r[1].u, ptrtype)>>]
        p == rhs(a.g, sum)
    IN  IF islhs THEN p ELSE load(p.g, np.type, p.np)

lhs(g, np) ==
    CASE np.op \in {"OREG", "OMEM", "OAUTO"} -> Val(g, np)
      [] np.op = "OPTR" -> rhs(g, np.l[1])
      [] np.op = "OFIELD" -> field2(g, np, TRUE)
      [] OTHER -> Val(abort(g, "lhs"), np)

bool(g, np, true, false) ==
    CASE np.op = "ONEG" -> bool(g, np.l[1], false, true)
      [] np.op = "OAND" ->
           LET l == newlabel(g)
           IN  bool(setlabel(bool(l.g, np.l[1], l.id, false), l.id),
                    np.r[1], true, false)
      [] np.op = "OOR" ->
           LET l == newlabel(g)
           IN  bool(setlabel(bool(l.g, np.l[1], true, l.id), l.id),
                    np.r[1], true, false)
      [] OTHER -> LET v == rhs(g, np) IN branch(v.g, v.np, true, false)

ternary2gen(g, np) ==
    LET t == tmpnode(g, np.type)
        yes == newlabel(t.g)
        no == newlabel(yes.g)
        phi == newlabel(no.g)
        c == rhs(phi.g, np.l[1])
        a == rhs(setlabel(branch(c.g, c.np, yes.id, no.id), yes.id),
                 np.r[1].l[1])
        b == rhs(setlabel(jmp(copy(a.g, np.type, t.np, a.np), phi.id), no.id),
                 np.r[1].r[1])
    IN  Val(setlabel(copy(b.g, np.type, t.np, b.np), phi.id), t.np)

logical(g, np) ==
    LET yes == newlabel(g)
        no == newlabel(yes.g)
        phi == newlabel(no.g)
        t == tmpnode(phi.g, int32type)
        one == jmp(copy(setlabel(bool(t.g, np, yes.id, no.id), yes.id),
                        int32type, t.np, constnode2(1, int32type)), phi.id)
        zero == copy(setlabel(one, no.id), int32type, t.np,
                     constnode2(0, int32type))
    IN  Val(setlabel(zero, phi.id), t.np)

\* assign(): plain, i++ and i--, and the compound assignments, whose left
\* operand is evaluated once when it is narrow and twice when it is not.
assign(g, np) ==
    LET l == np.l[1]
        r == np.r[1]
        pl == lhs_rhs(g, l, r)
        old == load(pl.g, pl.l.type, pl.l)
        post == rhs(old.g, sethi([Node2(IF np.sub = "OINC" THEN "OADD"
                                        ELSE "OSUB")
                     EXCEPT !.type = np.type, !.l = <<old.np>>,
                            !.r = <<pl.r>>]))
        narrow == load(pl.g, pl.r.type, pl.l)
        small == rhs(narrow.g, [Node2(np.sub) EXCEPT !.type = int32type,
                                   !.l = <<narrow.np>>, !.r = <<pl.r>>])
        wide == lhs_rhs(g, l, sethi([Node2(np.sub) EXCEPT !.type = np.type,
                                        !.l = <<l>>, !.r = <<r>>]))
    IN  CASE np.sub \in {"OINC", "ODEC"} ->
               Val(assignop2(post.g, np.type, pl.l, post.np), old.np)
          [] np.sub = "" ->
               Val(assignop2(pl.g, np.type, pl.l, pl.r), pl.r)
          [] l.type.size /= r.type.size -> Val(abort(g, "assert"), np)
          [] r.type.size < 4 ->
               Val(assignop2(small.g, np.type, pl.l, small.np), small.np)
          [] OTHER ->
               Val(assignop2(wide.g, np.type, wide.l, wide.r), wide.r)

rhs(g, np) ==
    IF g.err /= "" THEN Val(g, np)
    ELSE CASE np.op \in {"ONOP", "OBLOOP", "OELOOP", "OEFUN"} -> Val(g, Void)
           [] np.op \in {"OTMP", "OCONST"} -> Val(g, np)
           [] np.op \in {"OMEM", "OREG", "OAUTO"} -> load(g, np.type, np)
           [] np.op \in {"ONEG", "OAND", "OOR"} -> logical(g, np)
           [] np.op \in BinaryOps -> binary(g, np)
           [] np.op \in {"OCALL", "OCALLE"} -> call(g, np)
           [] np.op = "OCAST" ->
                LET v == rhs(g, np.l[1]) IN cast2(v.g, np.type, v.np)
           [] np.op = "OASSIG" -> assign(g, np)
           [] np.op = "OASK" -> ternary2gen(g, np)
           [] np.op = "OCOMMA" -> rhs(rhs(g, np.l[1]).g, np.r[1])
           [] np.op = "OPTR" ->
                LET v == rhs(g, np.l[1]) IN load(v.g, np.type, v.np)
           [] np.op = "OADDR" ->
                LET v == lhs(g, np.l[1])
                IN  Val(v.g, [v.np EXCEPT !.type = [np.type EXCEPT
                                              !.flags = @ \cup {"PTR"}]])
           [] np.op = "OFIELD" -> field2(g, np, FALSE)
           [] OTHER -> Val(abort(g, "rhs"), np)

-----------------------------------------------------------------------------
(* Statements.                                                             *)

\* function(): room for parameters and variables, and the parameters stored.
RECURSIVE Each(_, _, _)
Each(g, syms, op) ==
    IF syms = <<>> THEN g
    ELSE LET s == Head(syms)
             a == [kind |-> "SAUTO", v |-> s.id, size |-> s.type.size]
             align == ((s.type.align + 3) \div 4) * 4
         IN  Each(code(g, Ins(op, FALSE, IF op = "alloc" THEN align
                                         ELSE s.type.size, "l", a, a, NoAddr)),
                  Tail(syms), op)

function(g, syms) ==
    LET pars == SelectSeq(syms, LAMBDA s : s.par /\ ~Is(s.type, "AGGR"))
        vars == SelectSeq(syms, LAMBDA s : ~s.par /\ s.kind = "A")
    IN  Each(Each(Each(g, pars, "alloc"), vars, "alloc"),
             SelectSeq(pars, LAMBDA s : ~Is(s.type, "ARR")), "form")

\* A statement that has no label yet is given one for the branch before it.
Labelled(g, s) ==
    IF s[1].label /= 0 THEN [g |-> g, s |-> s]
    ELSE LET l == newlabel(g)
         IN  [g |-> l.g, s |-> [s EXCEPT ![1].label = l.id]]

branchto(g, cond, id, rest) ==
    LET next == Labelled(g, rest)
    IN  [g |-> bool(next.g, cond, id, next.s[1].label), s |-> next.s]

\* swtch_if(): a chain of comparisons; the statements of the switch itself
\* are deleted while idx is in use, and with them a constant idx.
RECURSIVE swtch_if(_, _, _, _)
swtch_if(g, idx, deflabel, s) ==
    LET np == s[1]
        h == setlabel(g, np.label)
        eq == [Node2("OEQ") EXCEPT !.type = idx.type, !.l = np.l,
                                   !.r = <<idx>>]
        b == branchto(h, eq, np.sym, Tail(s))
    IN  CASE g.err /= "" -> [g |-> g, s |-> s]
          [] idx.op = "OCONST" -> [g |-> abort(g, "freed"), s |-> s]
          [] np.op = "OESWITCH" ->
               [g |-> jmp(h, IF deflabel = 0 THEN np.sym ELSE deflabel),
                s |-> Tail(s)]
          [] np.op = "OCASE" -> swtch_if(b.g, idx, deflabel, b.s)
          [] np.op = "ODEFAULT" -> swtch_if(h, idx, np.sym, Tail(s))
          [] OTHER -> [g |-> abort(h, "switch"), s |-> s]

\* cgen(): the code of the first statement of s, and the ones left.
cgen(g0, s, syms) ==
    LET np == s[1]
        g == setlabel(g0, np.label)
        v == rhs(g, np.l[1])
    IN  CASE np.op = "OJMP" -> [g |-> jmp(g, np.sym), s |-> Tail(s)]
          [] np.op = "OBRANCH" -> branchto(g, np.l[1], np.sym, Tail(s))
          [] np.op = "ORET" ->
               [g |-> IF np.l = <<>>
                      THEN Emit(g, "ret", FALSE, 0, "", Void, Void, Void)
                      ELSE Emit(v.g, "ret", FALSE, 0, "", Void, v.np, Void),
                s |-> Tail(s)]
          [] np.op = "OBSWITCH" -> swtch_if(v.g, v.np, 0, Tail(s))
          [] np.op = "OBFUN" -> [g |-> function(g, syms), s |-> Tail(s)]
          [] OTHER -> [g |-> rhs(g, np).g, s |-> Tail(s)]

RECURSIVE apply_cgen(_, _, _)
apply_cgen(g, s, syms) ==
    IF s = <<>> \/ g.err /= "" THEN g
    ELSE LET c == cgen(g, s, syms) IN apply_cgen(c.g, c.s, syms)

-----------------------------------------------------------------------------
(* getbblocks() and writeout(): blocks begin with a label.                 *)

Ends == {"jmp", "jnz", "ret"}
LabelAt(ins, i) == ins[i].op = "label"

\* Fault: what follows a ret is not seen as the beginning of a block.
BadBBEntry(ins, i) == i = 1 \/ ins[i - 1].op \in {"jmp", "jnz"}

\* BBENTRY: the first instruction and the one after the end of a block.
BBEntry(ins, i) == i = 1 \/ ins[i - 1].op \in Ends

\* A label is printed for an entry that has none.
RECURSIVE writeout(_, _, _)
writeout(ins, i, n) ==
    IF i > Len(ins) THEN <<>>
    ELSE (IF BBEntry(ins, i) /\ ~LabelAt(ins, i)
          THEN <<Ins("label", FALSE, 0, "", NoAddr,
                     [kind |-> "SLABEL", v |-> n + 1, size |-> 0], NoAddr)>>
          ELSE <<>>)
         \o <<ins[i]>> \o writeout(ins, i + 1, n + 1)

=============================================================================
