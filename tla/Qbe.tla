--------------------------------- MODULE Qbe ---------------------------------
(***************************************************************************)
(* QBE, the program that turns the output of cc2 into assembler, as far as *)
(* cc2 relies on it: the instructions cc2 writes, executed on a memory of  *)
(* bytes.  It is not part of the repository; an instruction QBE would not  *)
(* accept stops the machine with an error.                                 *)
(***************************************************************************)
EXTENDS CTypes, TLC

CONSTANTS MEMSIZE,     \* bytes of memory
          STEPS        \* instructions executed before the run is given up

\* A temporary has a class, w or l, and a pattern of that many bytes.
Bytes(cls) == IF cls = "l" THEN 8 ELSE 4

\* The state of a run.  vals gives the values of the parameters by symbol,
\* globals the addresses of the names with linkage.
Start(vals, globals) ==
    [mem |-> [a \in 0..(MEMSIZE - 1) |-> Pow2(BITS) - 1], top |-> 16,
     tmps |-> <<>>, pc |-> 1, vals |-> vals, globals |-> globals,
     calls |-> <<>>, ret |-> -1, err |-> ""]

stop(m, why) == IF m.err /= "" THEN m ELSE [m EXCEPT !.err = why]

Key(a) == <<a.kind, a.v>>
Defined(m, a) == Key(a) \in DOMAIN m.tmps

\* A w can be read from an l, never the other way round.
Typed(m, a, cls) ==
    \/ a.kind \in {"SCONST", "SGLOB"}
    \/ /\ a.kind \in {"STMP", "SAUTO"} /\ Defined(m, a)
       /\ cls = "l" => m.tmps[Key(a)].cls = "l"
Read(m, a, cls) ==
    Trunc(CASE a.kind = "SCONST" -> a.v
            [] a.kind = "SGLOB" -> m.globals[a.v]
            [] OTHER -> m.tmps[Key(a)].v, Bytes(cls))

Write(m, a, cls, v) ==
    [m EXCEPT !.tmps = (Key(a) :> [cls |-> cls, v |-> Trunc(v, Bytes(cls))])
                       @@ @]

InMem(a, n) == a > 0 /\ a + n <= MEMSIZE
Peek(m, a, n) ==
    LET sum[i \in 0..n] == IF i = 0 THEN 0
                           ELSE sum[i - 1] + m.mem[a + i - 1] * Mask(i - 1)
    IN  sum[n]
Poke(m, a, n, v) ==
    [m EXCEPT !.mem = [b \in DOMAIN @ |->
        IF b \in a..(a + n - 1) THEN (v \div Mask(b - a)) % Pow2(BITS)
        ELSE @[b]]]

\* The binary operations on patterns of n bytes; a trap is -1.
Alu(op, uns, n, x, y) ==
    LET a == IF uns THEN x ELSE Signed(x, n)
        b == IF uns THEN y ELSE Signed(y, n)
        sh == y % (n * BITS)
        truth(t) == IF t THEN 1 ELSE 0
    IN  CASE op = "OADD" -> x + y
          [] op = "OSUB" -> x - y
          [] op = "OMUL" -> MulMod(x, y, Mask(n))
          [] op \in {"ODIV", "OMOD"} /\ b = 0 -> -1
          [] op = "ODIV" -> CDiv(a, b)
          [] op = "OMOD" -> CMod(a, b)
          [] op = "OSHL" -> (x % Pow2(n * BITS - sh)) * Pow2(sh)
          [] op = "OSHR" -> a \div Pow2(sh)
          [] op = "OBAND" -> BitOp(And2, x, y)
          [] op = "OBOR" -> BitOp(Or2, x, y)
          [] op = "OBXOR" -> BitOp(Xor2, x, y)
          [] op = "OLT" -> truth(a < b)
          [] op = "OGT" -> truth(a > b)
          [] op = "OLE" -> truth(a <= b)
          [] op = "OGE" -> truth(a >= b)
          [] op = "OEQ" -> truth(x = y)
          [] op = "ONE" -> truth(x /= y)

AluOps == {"OADD", "OSUB", "OMUL", "ODIV", "OMOD", "OSHL", "OSHR", "OBAND",
           "OBOR", "OBXOR", "OLT", "OGT", "OLE", "OGE", "OEQ", "ONE"}

Class(n) == IF n = 8 THEN "l" ELSE "w"
Places(asm, id) == {i \in DOMAIN asm : /\ asm[i].op = "label"
                                       /\ asm[i].from1.v = id}
Goto(m, asm, id) ==
    IF Places(asm, id) = {} THEN stop(m, "label")
    ELSE [m EXCEPT !.pc = CHOOSE i \in Places(asm, id) : TRUE]

\* The function called from outside: it is observed and returns its argument
\* plus one.
External(m, i) ==
    LET v == IF i.args = <<>> THEN 0 ELSE Read(m, i.args[1].a, i.args[1].cls)
    IN  Write([m EXCEPT !.calls = Append(@, v)], i.to, i.cls, v + 1)

Exec(m, i, asm, retcls) ==
    CASE i.op = "label" -> m
      [] i.op = "alloc" ->
           LET a == ((m.top + i.size - 1) \div i.size) * i.size
           IN  IF ~InMem(a, i.to.size) THEN stop(m, "memory")
               ELSE Write([m EXCEPT !.top = a + i.to.size], i.to, "l", a)
      [] i.op = "form" ->
           Poke(m, Read(m, i.to, "l"), i.size, m.vals[i.to.v])
      [] i.op = "load" ->
           LET a == Read(m, i.from1, "l")
           IN  IF ~Typed(m, i.from1, "l") THEN stop(m, "type")
               ELSE IF ~InMem(a, i.size) THEN stop(m, "memory")
               ELSE Write(m, i.to, i.cls,
                          IF i.uns THEN Peek(m, a, i.size)
                          ELSE Signed(Peek(m, a, i.size), i.size))
      [] i.op = "store" ->
           LET a == Read(m, i.to, "l")
           IN  IF \/ ~Typed(m, i.to, "l")
                  \/ ~Typed(m, i.from1, Class(i.size)) THEN stop(m, "type")
               ELSE IF ~InMem(a, i.size) THEN stop(m, "memory")
               ELSE Poke(m, a, i.size,
                         Trunc(Read(m, i.from1, Class(i.size)), i.size))
      [] i.op = "blit" ->
           LET a == Read(m, i.to, "l")
               b == Read(m, i.from1, "l")
               n == i.to.size
           IN  IF ~Typed(m, i.to, "l") \/ ~Typed(m, i.from1, "l")
               THEN stop(m, "type")
               ELSE IF ~InMem(a, n) \/ ~InMem(b, n) THEN stop(m, "memory")
               ELSE [m EXCEPT !.mem = [x \in DOMAIN @ |->
                        IF x \in a..(a + n - 1) THEN @[b + x - a] ELSE @[x]]]
      [] i.op = "ext" ->
           IF ~Typed(m, i.from1, "w") THEN stop(m, "type")
           ELSE LET v == Trunc(Read(m, i.from1, "w"), i.size)
                IN  Write(m, i.to, i.cls,
                          IF i.uns THEN v ELSE Signed(v, i.size))
      [] i.op = "copy" ->
           IF i.cls \notin {"w", "l"} \/ ~Typed(m, i.from1, i.cls)
           THEN stop(m, "type")
           ELSE Write(m, i.to, i.cls, Read(m, i.from1, i.cls))
      [] i.op \in AluOps ->
           LET cls == Class(i.size)
               cls2 == IF i.op \in {"OSHL", "OSHR"} THEN "w" ELSE cls
               v == Alu(i.op, i.uns, i.size, Read(m, i.from1, cls),
                        Read(m, i.from2, cls2))
           IN  IF ~Typed(m, i.from1, cls) \/ ~Typed(m, i.from2, cls2)
               THEN stop(m, "type")
               ELSE IF i.op \in {"ODIV", "OMOD"}
                       /\ Read(m, i.from2, cls2) = 0 THEN stop(m, "trap")
               ELSE Write(m, i.to, i.cls, v)
      [] i.op = "call" ->
           IF \E j \in DOMAIN i.args : ~Typed(m, i.args[j].a, i.args[j].cls)
           THEN stop(m, "type")
           ELSE External(m, i)
      [] i.op = "jmp" -> Goto(m, asm, i.from1.v)
      [] i.op = "jnz" ->
           IF ~Typed(m, i.to, "w") THEN stop(m, "type")
           ELSE Goto(m, asm, IF Read(m, i.to, "w") /= 0 THEN i.from1.v
                             ELSE i.from2.v)
      [] i.op = "ret" ->
           IF i.from1.kind = "SNONE" THEN stop(m, "done")
           ELSE IF ~Typed(m, i.from1, retcls) THEN stop(m, "type")
           ELSE stop([m EXCEPT !.ret = Read(m, i.from1, retcls)], "done")

RECURSIVE Run(_, _, _, _)
Run(m, asm, retcls, fuel) ==
    IF m.err /= "" THEN m
    ELSE IF fuel = 0 THEN stop(m, "fuel")
    ELSE IF m.pc > Len(asm) THEN stop(m, "end")
    ELSE Run(Exec([m EXCEPT !.pc = @ + 1], asm[m.pc], asm, retcls),
             asm, retcls, fuel - 1)

\* What QBE asks of a function before it runs anything: it begins with a
\* label, nothing but a label follows the end of a block, it ends with the
\* end of a block, and every label is defined once.
WellFormed(asm) ==
    LET ends == {"jmp", "jnz", "ret"}
        used(i) == (IF asm[i].op \in {"jmp", "jnz"} THEN {asm[i].from1.v}
                    ELSE {})
                   \cup (IF asm[i].op = "jnz" THEN {asm[i].from2.v} ELSE {})
    IN  /\ asm /= <<>> /\ asm[1].op = "label"
        /\ asm[Len(asm)].op \in ends
        /\ \A i \in 1..(Len(asm) - 1) :
              asm[i].op \in ends => asm[i + 1].op = "label"
        /\ \A i \in DOMAIN asm : \A id \in used(i) :
              Cardinality(Places(asm, id)) = 1

=============================================================================
