------------------------------ MODULE Cc1Fold ------------------------------
(***************************************************************************)
(* The expression trees of cc1 (the constructors of cc1/code.c) and their  *)
(* simplification (cc1/fold.c): folding of constants, cancelling of        *)
(* unary operators, commutative and associative rewriting, identities.     *)
(*                                                                         *)
(* A child is a sequence of at most one node (NULL is the empty one).  The *)
(* flags of a node are a set of LVAL, CONST, EFFECT and DECAY.  Floating   *)
(* constants are not folded here: no model program has one.                *)
(***************************************************************************)
EXTENDS CTypes

NoSym == [k |-> "none", name |-> "", id |-> 0, cls |-> "", u |-> 0,
          sconst |-> FALSE]

\* What a compiler run that ended early leaves: a diagnostic, or the
\* dereference of a NULL pointer or an abort().
Dead(op) == [op |-> op, type |-> NoType, sym |-> NoSym, flags |-> {},
             l |-> <<>>, r |-> <<>>]
Nil == Dead("NIL")
Err == Dead("ERR")
Crash == Dead("CRASH")
IsDead(np) == np.op \in {"NIL", "ERR", "CRASH"}

Kids(np) == np.l \o np.r
Left(np) == np.l[1]
Right(np) == np.r[1]
IsConst(np) == "CONST" \in np.flags

\* node(): a node over dead children is as dead as they are.
node(op, tp, l, r) ==
    LET kids == l \o r
        dead == SelectSeq(kids, IsDead)
    IN  IF dead /= <<>> THEN (IF dead[1].op = "CRASH" THEN Crash ELSE Err)
        ELSE [op |-> op, type |-> tp, sym |-> NoSym,
              flags |-> UNION {kids[i].flags \cap {"EFFECT"} :
                               i \in DOMAIN kids},
              l |-> l, r |-> r]

Unary(op, tp, l) == node(op, tp, <<l>>, <<>>)
Binary(op, tp, l, r) == node(op, tp, <<l>>, <<r>>)

SymNode(tp, sym, flags) ==
    [op |-> "OSYM", type |-> tp, sym |-> sym, flags |-> flags,
     l |-> <<>>, r |-> <<>>]

varnode(tp, sym) ==
    SymNode(tp, sym, IF tp.op \in {"FTN", "ARY"} THEN {} ELSE {"LVAL"})

ConstSym(u, sconst) == [NoSym EXCEPT !.k = "const", !.u = u, !.sconst = sconst]
constnode(tp, u) == SymNode(tp, ConstSym(u, TRUE), {"CONST"})
\* Constants whose symbol lacks SCONSTANT: zero, one and sizeofnode().
PlainConst(tp, u) == SymNode(tp, ConstSym(u, FALSE), {"CONST"})
zeronode == PlainConst(inttype, 0)
onenode == PlainConst(inttype, 1)
sizeofnode(tp) == PlainConst(sizettype, tp.size)
offsetnode(off, tp) == constnode(tp, off)

HasValue(np) == IsConst(np) /\ np.sym.k /= "none"

\* cmpnode(): is the node the constant val (0, 1 or -1)?
cmpnode(np, val) ==
    /\ HasValue(np)
    /\ np.type.op \in {"PTR", "INT"}
    /\ LET bytes == IF val = -1 THEN np.type.size ELSE WORD
       IN  Trunc(np.sym.u, bytes) = Trunc(val, bytes)

power2node(np) ==
    HasValue(np) /\ np.type.op = "INT"
    /\ \E k \in 0..(WORD * BITS - 1) : np.sym.u = Pow2(k)

negop(op) == CASE op = "OEQ" -> "ONE" [] op = "ONE" -> "OEQ"
               [] op = "OLT" -> "OGE" [] op = "OGE" -> "OLT"
               [] op = "OLE" -> "OGT" [] op = "OGT" -> "OLE"

-----------------------------------------------------------------------------
(* Constants.  The operands are words; a FALSE ok leaves the tree alone.   *)

Bool(b) == IF b THEN 1 ELSE 0

addi(l, r, tp) == /\ l < 0 /\ r < 0 => l >= MinOf(tp) - r
                  /\ l > 0 /\ r > 0 => l <= MaxOf(tp) - r

muli(l, r, tp) ==
    \/ l \in {0, 1} \/ r \in {0, 1}
    \/ l < 0 /\ r < 0 /\ -l <= CDiv(MaxOf(tp), -r)
    \/ l < 0 /\ r > 0 /\ l >= CDiv(MinOf(tp), r)
    \/ l > 0 /\ r < 0 /\ r >= CDiv(MinOf(tp), l)
    \/ l > 0 /\ r > 0 /\ l <= CDiv(MaxOf(tp), r)

divi(l, r, tp) == ~(r = 0 \/ (l = -MinOf(tp) /\ r = -1))
rshi(l, r, tp) == r >= 0 /\ r < tp.size * BITS
lshi(l, r, tp) == rshi(l, r, tp) /\ muli(l, Pow2(r), tp)

Valid(op, l, r, tp) ==
    CASE op = "OADD" -> addi(l, r, tp)
      [] op = "OSUB" -> addi(l, AsInt(Word(-r)), tp)
      [] op = "OMUL" -> muli(l, r, tp)
      [] op \in {"ODIV", "OMOD"} -> divi(l, r, tp)
      [] op = "OSHL" -> lshi(l, r, tp)
      [] op = "OSHR" -> rshi(l, r, tp)
      [] OTHER -> TRUE

Compares == {"OLT", "OGT", "OGE", "OLE", "OEQ", "ONE"}
BitOps == {"OBAND", "OBOR", "OBXOR"}
Folds == Compares \cup BitOps
         \cup {"OADD", "OSUB", "OMUL", "ODIV", "OMOD", "OSHL", "OSHR",
               "OAND", "OOR", "ONEG", "OSNEG", "OCPL"}

\* The operators on numbers, signed or not.
Apply(op, l, r) ==
    CASE op = "OADD" -> l + r
      [] op = "OSUB" -> l - r
      [] op = "OMUL" -> MulMod(Word(l), Word(r), Mask(WORD))
      [] op = "ODIV" -> CDiv(l, r)
      [] op = "OMOD" -> CMod(l, r)
      [] op = "OSHL" -> MulMod(Word(l), Word(Pow2(r)), Mask(WORD))
      [] op = "OSHR" -> l \div Pow2(r)
      [] op = "OBAND" -> BitOp(And2, Word(l), Word(r))
      [] op = "OBXOR" -> BitOp(Xor2, Word(l), Word(r))
      [] op = "OBOR" -> BitOp(Or2, Word(l), Word(r))
      [] op = "OAND" -> Bool(l /= 0 /\ r /= 0)
      [] op = "OOR" -> Bool(l /= 0 \/ r /= 0)
      [] op = "OLT" -> Bool(l < r)
      [] op = "OGT" -> Bool(l > r)
      [] op = "OGE" -> Bool(l >= r)
      [] op = "OLE" -> Bool(l <= r)
      [] op = "OEQ" -> Bool(l = r)
      [] op = "ONE" -> Bool(l /= r)
      [] op = "ONEG" -> Bool(l = 0)
      [] op = "OSNEG" -> -l
      [] op = "OCPL" -> -l - 1

foldint(op, tp, l, r) ==
    [ok |-> op \in Folds /\ Valid(op, AsInt(l), AsInt(r), tp),
     u |-> Word(Apply(op, AsInt(l), AsInt(r)))]

\* A shift by WORD bits or more is undefined in the code; no program has one.
folduint(op, tp, l, r) ==
    [ok |-> op \in Folds,
     u |-> IF op \in Compares \cup {"OAND", "OOR"} THEN Apply(op, l, r)
           ELSE Trunc(Apply(op, l, r), tp.size)]

foldconst(np, l, r) ==
    LET isint == l.type.op /= "PTR" /\ IsSigned(l.type)
        f(op, tp, a, b) == IF isint THEN foldint(op, tp, a, b)
                           ELSE folduint(op, tp, a, b)
        rv == IF r = <<>> THEN 0 ELSE r[1].sym.u
    IN  IF np.op \notin Folds THEN [np EXCEPT !.flags = @ \ {"CONST"}]
        ELSE LET res == f(np.op, np.type, l.sym.u, rv)
             IN  IF res.ok THEN constnode(np.type, res.u)
                 ELSE [np EXCEPT !.flags = @ \ {"CONST"}]

fold(np) ==
    IF \/ Kids(np) = <<>>
       \/ np.op \in {"ODIV", "OMOD"} /\ cmpnode(Right(np), 0)
       \/ np.r /= <<>> /\ ~HasValue(Right(np))
       \/ ~HasValue(Left(np))
       \/ Left(np).type.op \notin {"ENUM", "INT", "PTR"}
    THEN np
    ELSE foldconst(np, Left(np), np.r)

foldcast(np, l) ==
    IF \/ ~HasValue(l)
       \/ np.type.op \notin {"PTR", "INT", "ENUM"}
       \/ l.type.op \notin {"PTR", "INT", "ENUM"}
    THEN np
    ELSE LET u == Trunc(l.sym.u, np.type.size)
         IN  constnode(np.type, IF IsSigned(np.type)
                                THEN Word(Signed(u, np.type.size)) ELSE u)

-----------------------------------------------------------------------------
(* Rewriting.                                                              *)

foldunary(np) ==
    LET l == Left(np)
    IN  CASE np.op = "OCAST" -> foldcast(np, l)
          [] np.op \in {"ONEG", "OSNEG", "OCPL"} ->
               IF l.op = np.op THEN Left(l) ELSE np
          [] np.op = "OPTR" ->
               IF l.op = "OADDR" /\ np.type = Left(l).type THEN Left(l) ELSE np
          [] np.op = "OADDR" ->
               IF l.op = "OFIELD"
               THEN LET ptr == Left(l).op = "OPTR"
                        a == IF ptr THEN Left(Left(l))
                             ELSE Unary("OADDR", np.type, Left(l))
                        new == Binary("OADD", np.type, a,
                                      offsetnode(Right(l).sym.u, np.type))
                    IN  IF IsConst(IF ptr THEN a ELSE np)
                        THEN [new EXCEPT !.flags = @ \cup {"CONST"}] ELSE new
               ELSE IF l.op = "OPTR" THEN Left(l) ELSE np

Commutes == {"OADD", "OMUL", "OBAND", "OBXOR", "OBOR"}

commutative(np) ==
    IF np.r = <<>> \/ IsConst(Right(np)) \/ ~IsConst(Left(np)) THEN np
    ELSE CASE np.op \in {"OLT", "OGT", "OGE", "OLE"} ->
                [np EXCEPT !.op = negop(np.op), !.l = np.r, !.r = np.l]
           [] np.op \in Commutes \cup {"OEQ", "ONE"} ->
                [np EXCEPT !.l = np.r, !.r = np.l]
           [] OTHER -> np

\* (x op c) op r => x op (r op c).  The unary + is an OADD without a right
\* child, which the code dereferences.
associative(np) ==
    IF np.op \notin Commutes \/ Left(np).op /= np.op THEN np
    ELSE LET l == Left(np)
         IN  IF l.r = <<>> THEN Crash
             ELSE IF ~Right(l).sym.sconst \/ Right(l).op /= "OSYM" THEN np
             ELSE IF np.r = <<>> THEN Crash
             ELSE [np EXCEPT !.l = l.l, !.r = <<fold([l EXCEPT !.l = np.r])>>]

\* What identity() does with a binary node: keep a side, make it a comma.
identity(np) ==
    IF np.r = <<>> THEN np
    ELSE
    LET lp == Left(np)
        rp == Right(np)
        z(p) == cmpnode(p, 0)
        o(p) == cmpnode(p, 1)
        comma == [np EXCEPT !.op = "OCOMMA"]
    IN  CASE np.op = "OOR" -> IF o(lp) \/ z(rp) THEN lp
                              ELSE IF z(lp) THEN rp
                              ELSE IF o(rp) THEN comma ELSE np
          [] np.op = "OAND" -> IF z(lp) \/ o(rp) THEN lp
                               ELSE IF o(lp) THEN rp
                               ELSE IF z(rp) THEN comma ELSE np
          [] np.op \in {"OSHL", "OSHR"} -> IF z(rp) \/ z(lp) THEN lp ELSE np
          [] np.op \in {"OBXOR", "OADD", "OBOR", "OSUB"} ->
               IF z(rp) THEN lp ELSE np
          [] np.op = "OMUL" -> IF z(rp) THEN comma
                               ELSE IF o(rp) THEN lp ELSE np
          [] np.op = "ODIV" -> IF o(rp) THEN lp ELSE np
          [] np.op = "OBAND" -> IF cmpnode(rp, -1) THEN lp ELSE np
          [] np.op = "OMOD" -> IF o(rp) THEN comma ELSE np
          [] OTHER -> np

foldternary(np) ==
    IF ~IsConst(Left(np)) THEN np
    ELSE IF cmpnode(Left(np), 0) THEN Right(Right(np)) ELSE Left(Right(np))

\* reduce(): i % 2^n => i & (2^n - 1).
reduce(np) ==
    IF np.op = "OMOD" /\ power2node(Right(np))
    THEN [np EXCEPT !.op = "OBAND",
                    !.r = <<[Right(np) EXCEPT !.sym.u = @ - 1]>>]
    ELSE np

Untouched == {"OCALL", "OPAR", "OSYM", "OASSIGN", "OA_MUL", "OA_DIV",
              "OA_MOD", "OA_ADD", "OA_SUB", "OA_SHL", "OA_SHR", "OA_AND",
              "OA_XOR", "OA_OR"}

Rewritten(np) ==
    CASE np.op = "OASK" -> foldternary(np)
      [] np.op \in Untouched -> np
      [] np.op \in {"OSNEG", "OCPL", "OADDR", "OPTR", "OCAST", "ONEG"} ->
           fold(foldunary(np))
      [] OTHER -> LET a == associative(commutative(np))
                  IN  IF IsDead(a) THEN a ELSE reduce(identity(fold(a)))

RECURSIVE repeat(_)
repeat(np) == LET new == Rewritten(np)
              IN  IF IsDead(new) \/ new.op = np.op THEN new ELSE repeat(new)

RECURSIVE simplify(_)
simplify(np) ==
    IF IsDead(np) THEN np
    ELSE LET l == [i \in DOMAIN np.l |-> simplify(np.l[i])]
             r == [i \in DOMAIN np.r |-> simplify(np.r[i])]
         IN  IF \E i \in DOMAIN (l \o r) : IsDead((l \o r)[i]) THEN Crash
             ELSE repeat([np EXCEPT !.l = l, !.r = r])

=============================================================================
