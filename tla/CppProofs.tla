----------------------------- MODULE CppProofs -----------------------------
(***************************************************************************)
(* Proofs about Cpp, for every program, every set of headers and every     *)
(* limit.                                                                  *)
(***************************************************************************)
EXTENDS Cpp, FiniteSetTheorems, TLAPS

-----------------------------------------------------------------------------
(* Conditional groups                                                      *)

\* The groups below level n that st says are disabled.
OffBelow(n, st) == {k \in 0 .. n - 1 : ~st[k].enabled}

\* The variables of the conditional groups have their types; the last entry of
\* the stack is never used.
CondOK ==
    /\ cppctx \in 0 .. NR_COND - 1
    /\ ifstate \in [0 .. NR_COND - 1 -> [enabled : BOOLEAN, iselse : BOOLEAN]]
    /\ cppoff = Cardinality(OffBelow(cppctx, ifstate))

\* The disabled groups can be counted.
LEMMA OffFinite ==
    ASSUME NEW n \in Nat, NEW st
    PROVE  IsFiniteSet(OffBelow(n, st)) /\ Cardinality(OffBelow(n, st)) \in Nat
<1>1. IsFiniteSet(0 .. n - 1)
  BY FS_Interval
<1>2. OffBelow(n, st) \subseteq 0 .. n - 1
  BY DEF OffBelow
<1> QED BY <1>1, <1>2, FS_Subset, FS_CardinalityType

\* One more group counts when it is disabled.
LEMMA OffPush ==
    ASSUME NEW n \in Nat, NEW st, NEW tt, \A k \in 0 .. n - 1 : tt[k].enabled = st[k].enabled,
           tt[n].enabled \in BOOLEAN
    PROVE  Cardinality(OffBelow(n + 1, tt))
             = IF tt[n].enabled THEN Cardinality(OffBelow(n, st))
                                ELSE Cardinality(OffBelow(n, st)) + 1
<1>1. CASE tt[n].enabled
  <2>1. OffBelow(n + 1, tt) = OffBelow(n, st)
    <3>1. \A k \in 0 .. (n + 1) - 1 : k = n \/ k \in 0 .. n - 1
      OBVIOUS
    <3>2. \A k \in 0 .. n - 1 : k \in 0 .. (n + 1) - 1
      OBVIOUS
    <3> QED BY <1>1, <3>1, <3>2, Zenon DEF OffBelow
  <2> QED BY <1>1, <2>1
<1>2. CASE ~tt[n].enabled
  <2>1. OffBelow(n + 1, tt) = OffBelow(n, st) \cup {n}
    <3>1. \A k \in 0 .. (n + 1) - 1 : k = n \/ k \in 0 .. n - 1
      OBVIOUS
    <3>2. (\A k \in 0 .. n - 1 : k \in 0 .. (n + 1) - 1) /\ n \in 0 .. (n + 1) - 1
      OBVIOUS
    <3> QED BY <1>2, <3>1, <3>2, Zenon DEF OffBelow
  <2>2. n \notin OffBelow(n, st)
    BY DEF OffBelow
  <2>3. Cardinality(OffBelow(n, st) \cup {n}) = Cardinality(OffBelow(n, st)) + 1
    BY <2>2, OffFinite, FS_AddElement
  <2> QED BY <1>2, <2>1, <2>3
<1> QED BY <1>1, <1>2

\* ifclause() opens a group at level ctx over the groups below it.
LEMMA IfclauseCond ==
    ASSUME BoundAssumption, NEW ctx \in 0 .. NR_COND - 2, NEW off, NEW st, NEW negate, NEW x,
           st \in [0 .. NR_COND - 1 -> [enabled : BOOLEAN, iselse : BOOLEAN]],
           off = Cardinality(OffBelow(ctx, st)),
           ifclause(ctx, off, st, negate, x)
    PROVE  CondOK'
<1> DEFINE value == (off = 0) /\ (Truth(x) # negate)
<1>1. value \in BOOLEAN
  OBVIOUS
<1>2. ifstate' = [st EXCEPT ![ctx] = [enabled |-> value, iselse |-> FALSE]]
  BY DEF ifclause
<1>3. cppctx' = ctx + 1 /\ cppoff' = IF value THEN off ELSE off + 1
  BY DEF ifclause
<1> HIDE DEF value
<1>4. ctx \in Nat /\ ctx \in 0 .. NR_COND - 1 /\ cppctx' \in 0 .. NR_COND - 1
  BY <1>3, BoundAssumption DEF BoundAssumption
<1>5. ifstate' \in [0 .. NR_COND - 1 -> [enabled : BOOLEAN, iselse : BOOLEAN]]
  BY <1>1, <1>2
<1>6. ifstate'[ctx].enabled = value /\ \A k \in 0 .. ctx - 1 : ifstate'[k].enabled = st[k].enabled
  BY <1>2, <1>4, BoundAssumption DEF BoundAssumption
<1>7. cppoff' = Cardinality(OffBelow(cppctx', ifstate'))
  BY <1>1, <1>3, <1>4, <1>6, OffPush
<1> QED BY <1>4, <1>5, <1>7 DEF CondOK, OffBelow

\* Opening, turning and closing the innermost group: the directives keep the
\* count of the disabled groups.
LEMMA DirectiveCond ==
    ASSUME BoundAssumption, CondOK, NEW l, Directive(l)
    PROVE  CondOK'
<1> DEFINE States == [0 .. NR_COND - 1 -> [enabled : BOOLEAN, iselse : BOOLEAN]]
           n == cppctx - 1
<1>0. CASE UNCHANGED cond
  BY <1>0 DEF CondOK, cond, OffBelow
<1>1. ASSUME NEW negate, cppif(l, negate) PROVE CondOK'
  <2>1. CASE cppctx = NR_COND - 1
    BY <1>0, <1>1, <2>1 DEF cppif, Fail
  <2>2. CASE cppctx # NR_COND - 1
    <3>1. cppctx \in 0 .. NR_COND - 2
      BY <2>2, BoundAssumption DEF CondOK, BoundAssumption
    <3>2. ifclause(cppctx, cppoff, ifstate, negate, l.x)
      BY <1>1, <2>2 DEF cppif
    <3> QED BY <3>1, <3>2, IfclauseCond DEF CondOK
  <2> QED BY <2>1, <2>2
<1>2. ASSUME CanElse
      PROVE  /\ n \in 0 .. NR_COND - 2 /\ n + 1 = cppctx /\ n \in 0 .. NR_COND - 1
             /\ ifstate[n].enabled \in BOOLEAN
             /\ cppoff = IF ifstate[n].enabled THEN Cardinality(OffBelow(n, ifstate))
                                               ELSE Cardinality(OffBelow(n, ifstate)) + 1
  <2>1. n \in 0 .. NR_COND - 2 /\ n + 1 = cppctx /\ n \in Nat
    BY <1>2, BoundAssumption DEF CanElse, CondOK, BoundAssumption
  <2>2. n \in 0 .. NR_COND - 1
    BY <2>1, BoundAssumption DEF BoundAssumption
  <2>3. ifstate[n].enabled \in BOOLEAN
    BY <2>2 DEF CondOK
  <2>4. Cardinality(OffBelow(n + 1, ifstate))
             = IF ifstate[n].enabled THEN Cardinality(OffBelow(n, ifstate))
                                     ELSE Cardinality(OffBelow(n, ifstate)) + 1
    BY <2>1, <2>3, OffPush
  <2> QED BY <2>1, <2>2, <2>3, <2>4 DEF CondOK
<1>3. ASSUME CanElse
      PROVE  /\ Toggled \in States
             /\ Toggled[n].enabled = ~ifstate[n].enabled
             /\ \A k \in 0 .. n - 1 : Toggled[k].enabled = ifstate[k].enabled
             /\ ElseOff = IF ifstate[n].enabled THEN Cardinality(OffBelow(n, ifstate)) + 1
                                                ELSE Cardinality(OffBelow(n, ifstate))
             /\ OffBelow(n, Toggled) = OffBelow(n, ifstate)
  <2>1. n \in 0 .. NR_COND - 2 /\ n \in 0 .. NR_COND - 1 /\ ifstate \in States
    BY <1>2, <1>3 DEF CondOK
  <2>2. Toggled \in States
    BY <2>1 DEF Toggled
  <2>3. Toggled[n].enabled = ~ifstate[n].enabled
    BY <2>1 DEF Toggled
  <2>4. \A k \in 0 .. n - 1 : Toggled[k].enabled = ifstate[k].enabled
    <3>1. \A k \in 0 .. n - 1 : k \in 0 .. NR_COND - 1 /\ k # n
      BY <2>1, BoundAssumption DEF BoundAssumption
    <3> QED BY <2>1, <3>1 DEF Toggled
  <2>5. ElseOff = IF ifstate[n].enabled THEN Cardinality(OffBelow(n, ifstate)) + 1
                                        ELSE Cardinality(OffBelow(n, ifstate))
    <3>1. Cardinality(OffBelow(n, ifstate)) \in Nat
      BY <2>1, OffFinite
    <3> HIDE DEF n
    <3>2. ElseOff = IF ifstate[n].enabled THEN cppoff + 1 ELSE cppoff - 1
      BY DEF ElseOff, n
    <3> QED BY <1>2, <1>3, <3>1, <3>2
  <2>6. OffBelow(n, Toggled) = OffBelow(n, ifstate)
    BY <2>4 DEF OffBelow
  <2> QED BY <2>2, <2>3, <2>4, <2>5, <2>6
<1>4. ASSUME CanElse, NEW tt \in States, tt = ifstate', cppctx' = cppctx, cppoff' = ElseOff,
             tt[n].enabled = ~ifstate[n].enabled,
             \A k \in 0 .. n - 1 : tt[k].enabled = ifstate[k].enabled
      PROVE  CondOK'
  <2>1. n \in Nat /\ n + 1 = cppctx /\ tt[n].enabled \in BOOLEAN
    BY <1>2, <1>4
  <2>2. Cardinality(OffBelow(n + 1, tt))
             = IF tt[n].enabled THEN Cardinality(OffBelow(n, ifstate))
                                ELSE Cardinality(OffBelow(n, ifstate)) + 1
    <3> HIDE DEF n, States
    <3> QED BY <1>4, <2>1, OffPush
  <2>3. ElseOff = Cardinality(OffBelow(n + 1, tt))
    BY <1>2, <1>3, <1>4, <2>2
  <2> QED BY <1>4, <2>1, <2>3 DEF CondOK, OffBelow
<1>5. CASE cppelse
  <2>1. CASE ~CanElse
    BY <1>0, <1>5, <2>1 DEF cppelse, Fail
  <2>2. CASE CanElse
    <3>1. /\ ifstate' = [Toggled EXCEPT ![n].iselse = TRUE] /\ cppctx' = cppctx
          /\ cppoff' = ElseOff
      BY <1>5, <2>2 DEF cppelse
    <3>2. n \in 0 .. NR_COND - 1 /\ \A k \in 0 .. n - 1 : k \in 0 .. NR_COND - 1 /\ k # n
      BY <1>2, <2>2, BoundAssumption DEF BoundAssumption
    <3> DEFINE tt == [Toggled EXCEPT ![n].iselse = TRUE]
    <3>3. Toggled \in States
      BY <1>3, <2>2
    <3>4. /\ tt \in States /\ tt[n].enabled = Toggled[n].enabled
          /\ \A k \in 0 .. n - 1 : tt[k] = Toggled[k]
      <4> HIDE DEF n
      <4> QED BY <3>2, <3>3
    <3>5. tt[n].enabled = ~ifstate[n].enabled /\ \A k \in 0 .. n - 1 : tt[k].enabled = ifstate[k].enabled
      BY <1>3, <2>2, <3>4
    <3> QED BY <1>4, <2>2, <3>1, <3>4, <3>5
  <2> QED BY <2>1, <2>2
<1>6. CASE elif(l)
  <2>1. CASE ~CanElse
    BY <1>0, <1>6, <2>1 DEF elif, Fail
  <2>2. CASE CanElse /\ Toggled[n].enabled
    <3>1. ifclause(n, ElseOff, Toggled, FALSE, l.x)
      BY <1>6, <2>2 DEF elif
    <3>2. ElseOff = Cardinality(OffBelow(n, Toggled))
      BY <1>2, <1>3, <2>2
    <3>3. n \in 0 .. NR_COND - 2 /\ Toggled \in States
      BY <1>2, <1>3, <2>2
    <3> QED BY <3>1, <3>2, <3>3, IfclauseCond
  <2>3. CASE CanElse /\ ~Toggled[n].enabled
    <3>1. cppoff' = ElseOff /\ ifstate' = Toggled /\ cppctx' = cppctx
      BY <1>6, <2>3 DEF elif
    <3> QED BY <1>3, <1>4, <2>3, <3>1
  <2> QED BY <2>1, <2>2, <2>3
<1>7. CASE endif
  <2>1. CASE cppctx = 0
    BY <1>0, <1>7, <2>1 DEF endif, Fail
  <2>2. CASE cppctx # 0
    <3>1. /\ cppctx' = n /\ ifstate' = ifstate
          /\ cppoff' = IF ifstate[n].enabled THEN cppoff ELSE cppoff - 1
      BY <1>7, <2>2 DEF endif
    <3>2. n \in 0 .. NR_COND - 2 /\ n + 1 = cppctx /\ n \in Nat
      BY <2>2, BoundAssumption DEF CondOK, BoundAssumption
    <3>3. n \in 0 .. NR_COND - 1
      BY <3>2, BoundAssumption DEF BoundAssumption
    <3>4. ifstate[n].enabled \in BOOLEAN
      BY <3>3 DEF CondOK
    <3>5. cppoff = IF ifstate[n].enabled THEN Cardinality(OffBelow(n, ifstate))
                                         ELSE Cardinality(OffBelow(n, ifstate)) + 1
      BY <3>2, <3>4, OffPush DEF CondOK
    <3>6. Cardinality(OffBelow(n, ifstate)) \in Nat
      BY <3>2, OffFinite
    <3>7. cppoff' = Cardinality(OffBelow(n, ifstate))
      <4> HIDE DEF n
      <4> QED BY <3>1, <3>4, <3>5, <3>6
    <3> QED BY <3>1, <3>3, <3>7 DEF CondOK, OffBelow
  <2> QED BY <2>1, <2>2
<1>8. CASE define(l) \/ undef(l) \/ usererr(l) \/ null
  BY <1>0, <1>8 DEF define, undef, usererr, null, Fail
<1> QED BY <1>1, <1>5, <1>6, <1>7, <1>8 DEF Directive

-----------------------------------------------------------------------------
(* The input stack and the C stack.  Both are indexed from the bottom, so  *)
(* that what is below the top does not move when something is pushed.      *)

IsSeq(s) == s \in Seq(Range(s))
At(s, d) == s[Len(s) + 1 - d]

\* An input and a call have the fields their constructors give them.
FrameOK(f) ==
    /\ f.type \in {"file", "macro", "param"}
    /\ DOMAIN f = {"type", "file", "pos", "lineno", "rest", "mac", "hideset"}
CallOK(c) ==
    \/ c.at = "top"
    \/ c.at = "param" /\ DOMAIN c = {"at", "buf"}
    \/ c.at = "ahead" /\ DOMAIN c = {"at", "mp", "npars", "def", "name"}
    \/ c.at \in {"empty", "args"}
       /\ DOMAIN c = {"at", "mp", "npars", "def", "args", "cur", "depth", "closed"}
    \/ c.at = "copy" /\ DOMAIN c = {"at", "mp", "def", "args", "pos", "buf", "glue"}
    \/ c.at = "pragma" /\ DOMAIN c = {"at", "nl"}

\* Main is below every input.
InputOK(in) ==
    /\ IsSeq(in) /\ Len(in) > 0
    /\ \A e \in 1 .. Len(in) : FrameOK(At(in, e))
    /\ At(in, 1).type = "file"

\* The calls of parsepars() and of expand() before copymacro(), and who calls
\* expand(): pragma() only after a directive.
Before == {"ahead", "empty", "args"}
Reads(c) == c.at \in {"top", "param"} \/ (c.at = "pragma" /\ ~c.nl)

\* The parser is below every call; copymacro() calls expandarg(), and that, the
\* parser and pragma() call expand(), which is in ahead(), parsepars() or
\* copymacro(); #pragma is read by whoever reads a line.
CallsOK(cs) ==
    /\ IsSeq(cs) /\ Len(cs) > 0
    /\ \A d \in 1 .. Len(cs) : CallOK(At(cs, d))
    /\ At(cs, 1).at = "top"
    /\ \A d \in 2 .. Len(cs) :
          \/ At(cs, d).at = "param" /\ At(cs, d - 1).at = "copy"
          \/ At(cs, d).at \in Before \cup {"copy"} /\ Reads(At(cs, d - 1))
          \/ At(cs, d).at = "pragma" /\ (Reads(At(cs, d - 1)) \/ At(cs, d - 1).at = "ahead")

\* The calls of expandarg(), and the arguments they read: each is on top of the
\* expansion that the copymacro() below the call writes.
ParamCalls(cs) == {d \in 1 .. Len(cs) : At(cs, d).at = "param"}
Matches(f, in, cs) ==
    /\ \A d \in ParamCalls(cs) :
          /\ f[d] \in 2 .. Len(in)
          /\ At(in, f[d]).type = "param"
          /\ At(in, f[d] - 1).type = "macro"
          /\ At(in, f[d] - 1).mac = At(cs, d - 1).mp
    /\ \A c, d \in ParamCalls(cs) : c < d => f[c] < f[d]
    /\ \A e \in 1 .. Len(in) : At(in, e).type = "param" => \E d \in ParamCalls(cs) : f[d] = e
Matched(in, cs) == \E f \in [ParamCalls(cs) -> 1 .. Len(in)] : Matches(f, in, cs)

\* The expansion that copymacro() is writing is the input on top.
CopyOnTop(in, cs) ==
    cs[1].at = "copy" => in[1].type = "macro" /\ in[1].mac = cs[1].mp

\* An expansion that is written and is read.
Done(e, in, cs) ==
    /\ At(in, e).type = "macro"
    /\ IF e = Len(in) THEN cs[1].at # "copy" ELSE At(in, e + 1).type # "param"

\* The name of an expansion that is read is hidden, no expansion above it is one
\* of the same name or would make the name visible at its end.  The name that
\* parsepars() works for is not hidden, while pragma() looks for the end of its
\* line either.
HiddenOK(in, cs, hd) ==
    /\ \A e \in 1 .. Len(in) : Done(e, in, cs) =>
          /\ At(in, e).mac \in hd
          /\ \A g \in e + 1 .. Len(in) : At(in, g).type = "macro" =>
                At(in, e).mac # At(in, g).mac /\ At(in, e).mac \notin At(in, g).hideset
    /\ cs[1].at \in Before => cs[1].mp \notin hd
    /\ cs[1].at = "pragma" /\ cs[1].nl /\ At(cs, Len(cs) - 1).at \in Before
          => At(cs, Len(cs) - 1).mp \notin hd

StackInv(in, cs, hd) ==
    /\ InputOK(in) /\ CallsOK(cs)
    /\ Matched(in, cs) /\ CopyOnTop(in, cs)
    /\ HiddenOK(in, cs, hd)

\* disexpand is set while arguments are collected and the rest of a #pragma is
\* read.
FlagOK(cs, dis) == dis <=> cs[1].at \in {"empty", "args"} \/ (cs[1].at = "pragma" /\ cs[1].nl)

StacksOK == StackInv(input, calls, hide) /\ FlagOK(calls, disexpand)

\* Nothing is known of the stacks any more when a directive has been read inside
\* arguments.
Inv == CondOK /\ (~argdir => StacksOK)
-----------------------------------------------------------------------------
(* Stacks                                                                  *)

\* A sequence is a function on its indices.
LEMMA SeqFacts ==
    ASSUME NEW s, IsSeq(s)
    PROVE  Len(s) \in Nat /\ DOMAIN s = 1 .. Len(s) /\ \A i \in 1 .. Len(s) : s[i] \in Range(s)
  BY DEF IsSeq, Range

\* A function on the first n numbers is a sequence of length n.
LEMMA MakeSeq ==
    ASSUME NEW n \in Nat, NEW s, s = [i \in 1 .. n |-> s[i]]
    PROVE  IsSeq(s) /\ Len(s) = n
<1>1. DOMAIN s = 1 .. n
  OBVIOUS
<1>2. s \in [1 .. n -> Range(s)]
  BY <1>1 DEF Range
<1> QED BY <1>1, <1>2 DEF IsSeq

\* The top of a stack is its first element.
LEMMA TopAt == ASSUME NEW s, IsSeq(s), Len(s) > 0 PROVE At(s, Len(s)) = s[1]
<1>1. Len(s) \in Nat
  BY SeqFacts
<1> QED BY <1>1 DEF At

\* Pushing leaves what is below.
LEMMA ConsAt ==
    ASSUME NEW s, NEW a, IsSeq(s)
    PROVE  /\ IsSeq(<<a>> \o s) /\ Len(<<a>> \o s) = Len(s) + 1
           /\ (<<a>> \o s)[1] = a /\ At(<<a>> \o s, Len(s) + 1) = a
           /\ \A d \in 1 .. Len(s) : At(<<a>> \o s, d) = At(s, d)
<1>1. Len(s) \in Nat
  BY SeqFacts
<1> DEFINE t == <<a>> \o s
           S == Range(s) \cup {a}
<1>2. s \in Seq(S) /\ <<a>> \in Seq(S)
  BY DEF IsSeq
<1>3. t \in Seq(S) /\ Len(t) = Len(s) + 1 /\ \A i \in 1 .. Len(s) + 1 : t[i] = IF i = 1 THEN a ELSE s[i - 1]
  BY <1>2
<1>4. DOMAIN t = 1 .. Len(s) + 1 /\ t = [i \in 1 .. Len(s) + 1 |-> t[i]]
  BY <1>1, <1>3
<1> HIDE DEF t
<1>5. IsSeq(t)
  BY <1>1, <1>4, MakeSeq
<1>6. \A d \in 1 .. Len(s) : At(t, d) = At(s, d)
  BY <1>1, <1>3 DEF At
<1>7. t[1] = a /\ At(t, Len(s) + 1) = a
  BY <1>1, <1>3 DEF At
<1> QED BY <1>3, <1>5, <1>6, <1>7 DEF t

\* Popping leaves what is below.
LEMMA TailAt ==
    ASSUME NEW s, IsSeq(s), Len(s) > 0
    PROVE  /\ IsSeq(Tail(s)) /\ Len(Tail(s)) = Len(s) - 1
           /\ \A d \in 1 .. Len(s) - 1 : At(Tail(s), d) = At(s, d)
<1>1. Len(s) \in Nat /\ s \in Seq(Range(s)) /\ s # << >>
  BY SeqFacts DEF IsSeq
<1> DEFINE t == Tail(s)
<1>3. t \in Seq(Range(s)) /\ Len(t) = Len(s) - 1 /\ \A i \in 1 .. Len(s) - 1 : t[i] = s[i + 1]
  BY <1>1
<1> HIDE DEF t
<1>4. DOMAIN t = 1 .. Len(s) - 1 /\ t = [i \in 1 .. Len(s) - 1 |-> t[i]] /\ Len(s) - 1 \in Nat
  <2>1. DOMAIN t = 1 .. Len(t) /\ t = [i \in 1 .. Len(t) |-> t[i]]
    BY <1>3
  <2> QED BY <1>1, <1>3, <2>1
<1>5. IsSeq(t)
  BY <1>4, MakeSeq
<1>6. \A d \in 1 .. Len(s) - 1 : At(t, d) = At(s, d)
  BY <1>1, <1>3 DEF At
<1> QED BY <1>3, <1>5, <1>6 DEF t

\* Changing the top leaves what is below.
Top1(t, s, a) == t = [s EXCEPT ![1] = a]
LEMMA ExceptAt ==
    ASSUME NEW s, NEW a, NEW t, IsSeq(s), Len(s) > 0, Top1(t, s, a)
    PROVE  /\ IsSeq(t) /\ Len(t) = Len(s) /\ At(t, Len(s)) = a
           /\ \A d \in 1 .. Len(s) - 1 : At(t, d) = At(s, d)
<1>1. Len(s) \in Nat /\ DOMAIN s = 1 .. Len(s)
  BY SeqFacts
<1>2. t = [i \in 1 .. Len(s) |-> t[i]] /\ t[1] = a /\ \A i \in 2 .. Len(s) : t[i] = s[i]
  <2>1. t = [i \in 1 .. Len(s) |-> IF i = 1 THEN a ELSE s[i]]
    BY <1>1 DEF Top1
  <2>2. 1 \in 1 .. Len(s) /\ \A i \in 2 .. Len(s) : i \in 1 .. Len(s) /\ i # 1
    BY <1>1
  <2> QED BY <2>1, <2>2
<1>3. IsSeq(t) /\ Len(t) = Len(s)
  BY <1>1, <1>2, MakeSeq
<1>4. \A d \in 1 .. Len(s) - 1 : At(t, d) = At(s, d)
  <2>1. \A d \in 1 .. Len(s) - 1 : Len(s) + 1 - d \in 2 .. Len(s)
    BY <1>1
  <2> QED BY <1>2, <1>3, <2>1 DEF At
<1>5. At(t, Len(s)) = a
  BY <1>1, <1>2, <1>3 DEF At
<1> QED BY <1>3, <1>4, <1>5

\* The arguments that are read stay matched while none is begun or ended.
LEMMA KeepMatched ==
    ASSUME NEW in, NEW jn, NEW cs, NEW ks, Matched(in, cs), Len(in) \in Nat, Len(jn) \in Nat,
           ParamCalls(ks) = ParamCalls(cs),
           \A e \in 1 .. Len(in) : At(in, e).type = "param" =>
              e \in 1 .. Len(jn) /\ At(jn, e).type = "param",
           \A e \in 2 .. Len(in) : At(in, e).type = "param" =>
              At(jn, e - 1).type = At(in, e - 1).type /\ At(jn, e - 1).mac = At(in, e - 1).mac,
           \A e \in 1 .. Len(jn) : At(jn, e).type = "param" =>
              e \in 1 .. Len(in) /\ At(in, e).type = "param",
           \A d \in ParamCalls(cs) : At(ks, d - 1).mp = At(cs, d - 1).mp
    PROVE  Matched(jn, ks)
<1>1. PICK f \in [ParamCalls(cs) -> 1 .. Len(in)] : Matches(f, in, cs)
  BY DEF Matched
<1>2. ASSUME NEW d \in ParamCalls(cs)
      PROVE  /\ f[d] \in 2 .. Len(jn) /\ f[d] \in 1 .. Len(jn)
             /\ At(jn, f[d]).type = "param"
             /\ At(jn, f[d] - 1).type = "macro"
             /\ At(jn, f[d] - 1).mac = At(ks, d - 1).mp
  <2>1. /\ f[d] \in 2 .. Len(in) /\ At(in, f[d]).type = "param"
        /\ At(in, f[d] - 1).type = "macro" /\ At(in, f[d] - 1).mac = At(cs, d - 1).mp
    BY <1>1 DEF Matches
  <2>2. f[d] \in 1 .. Len(in)
    BY <2>1
  <2>3. f[d] \in 1 .. Len(jn) /\ At(jn, f[d]).type = "param"
    BY <2>1, <2>2
  <2>4. f[d] \in 2 .. Len(jn)
    BY <2>1, <2>3
  <2> QED BY <2>1, <2>3, <2>4
<1>3. f \in [ParamCalls(ks) -> 1 .. Len(jn)]
  BY <1>2
<1>4. Matches(f, jn, ks)
  BY <1>1, <1>2 DEF Matches
<1> QED BY <1>3, <1>4 DEF Matched

\* What is below the top of the C stack, and the calls of expandarg() in it.
LEMMA ParamBelow ==
    ASSUME NEW cs, CallsOK(cs), NEW d \in ParamCalls(cs)
    PROVE  d \in 2 .. Len(cs) /\ d - 1 \in 1 .. Len(cs) /\ At(cs, d).at = "param" /\ At(cs, d - 1).at = "copy"
<1>1. Len(cs) \in Nat
  BY SeqFacts DEF CallsOK
<1>2. d \in 1 .. Len(cs) /\ At(cs, d).at = "param"
  BY DEF ParamCalls
<1>3. d # 1
  BY <1>2 DEF CallsOK
<1>4. d \in 2 .. Len(cs)
  BY <1>1, <1>2, <1>3
<1> QED BY <1>1, <1>2, <1>4 DEF CallsOK, Before

\* The inputs and the calls that have the same kinds and names, one by one.
SameInput(in, jn) ==
    /\ IsSeq(jn) /\ Len(jn) = Len(in)
    /\ \A e \in 1 .. Len(in) :
          /\ FrameOK(At(jn, e))
          /\ At(jn, e).type = At(in, e).type
          /\ At(jn, e).mac = At(in, e).mac
          /\ At(jn, e).hideset = At(in, e).hideset
SameCalls(cs, ks) ==
    /\ IsSeq(ks) /\ Len(ks) = Len(cs)
    /\ \A d \in 1 .. Len(cs) :
          /\ CallOK(At(ks, d))
          /\ At(ks, d).at = At(cs, d).at
          /\ At(cs, d).at \in Before \cup {"copy"} => At(ks, d).mp = At(cs, d).mp
          /\ At(cs, d).at = "pragma" /\ At(ks, d).nl => At(cs, d).nl

\* A step that reads a token or a line, or copies an element, changes no kind
\* and no name: the invariant stays.
LEMMA KeepStack ==
    ASSUME NEW in, NEW jn, NEW cs, NEW ks, NEW hd, StackInv(in, cs, hd),
           SameInput(in, jn), SameCalls(cs, ks)
    PROVE  StackInv(jn, ks, hd)
<1>1. /\ InputOK(in) /\ CallsOK(cs) /\ Matched(in, cs) /\ CopyOnTop(in, cs)
      /\ HiddenOK(in, cs, hd)
  BY DEF StackInv
<1>2. /\ IsSeq(in) /\ IsSeq(jn) /\ IsSeq(cs) /\ IsSeq(ks) /\ Len(in) \in Nat /\ Len(cs) \in Nat
      /\ Len(jn) = Len(in) /\ Len(ks) = Len(cs) /\ Len(in) > 0 /\ Len(cs) > 0
  BY <1>1, SeqFacts DEF InputOK, CallsOK, SameInput, SameCalls
<1>3. /\ in[1] = At(in, Len(in)) /\ jn[1] = At(jn, Len(in))
      /\ cs[1] = At(cs, Len(cs)) /\ ks[1] = At(ks, Len(cs))
  BY <1>2, TopAt
<1>4. InputOK(jn)
  BY <1>1, <1>2 DEF InputOK, SameInput
<1>5. CallsOK(ks)
  <2>1. \A d \in 2 .. Len(cs) : d \in 1 .. Len(cs) /\ d - 1 \in 1 .. Len(cs)
    BY <1>2
  <2>2. \A d \in 1 .. Len(cs) : Reads(At(cs, d)) => Reads(At(ks, d))
    BY DEF SameCalls, Reads
  <2>3. \A d \in 1 .. Len(cs) : At(ks, d).at = At(cs, d).at /\ CallOK(At(ks, d))
    BY DEF SameCalls
  <2>4. 1 \in 1 .. Len(cs)
    BY <1>2
  <2> QED BY <1>1, <1>2, <2>1, <2>2, <2>3, <2>4 DEF CallsOK
<1>6. Matched(jn, ks)
  <2>1. ParamCalls(ks) = ParamCalls(cs)
    BY <1>2 DEF ParamCalls, SameCalls
  <2>2. \A d \in ParamCalls(cs) : At(ks, d - 1).mp = At(cs, d - 1).mp
    <3>1. "copy" \in Before \cup {"copy"}
      OBVIOUS
    <3>2. \A d \in ParamCalls(cs) : d - 1 \in 1 .. Len(cs) /\ At(cs, d - 1).at = "copy"
      BY <1>1, ParamBelow
    <3> QED BY <3>1, <3>2 DEF SameCalls
  <2>3. \A e \in 2 .. Len(in) : e - 1 \in 1 .. Len(in)
    BY <1>2
  <2> QED BY <1>1, <1>2, <2>1, <2>2, <2>3, KeepMatched DEF SameInput
<1>7. CopyOnTop(jn, ks)
  <2>1. Len(in) \in 1 .. Len(in) /\ Len(cs) \in 1 .. Len(cs) /\ "copy" \in Before \cup {"copy"}
    BY <1>2
  <2> QED BY <1>1, <1>2, <1>3, <2>1 DEF CopyOnTop, SameInput, SameCalls
<1>8. HiddenOK(jn, ks, hd)
  <2>1. \A e \in 1 .. Len(in) : Done(e, jn, ks) = Done(e, in, cs)
    <3>1. \A e \in 1 .. Len(in) : e = Len(in) \/ e + 1 \in 1 .. Len(in)
      BY <1>2
    <3>2. ks[1].at = cs[1].at
      BY <1>2, <1>3 DEF SameCalls
    <3> QED BY <1>2, <3>1, <3>2 DEF Done, SameInput
  <2>2. \A e \in 1 .. Len(in) : \A g \in e + 1 .. Len(in) : g \in 1 .. Len(in)
    BY <1>2
  <2> DEFINE m == Len(cs)
  <2>3. m \in 1 .. m /\ (ks[1].at = "pragma" => m - 1 \in 1 .. m)
    <3>1. ks[1].at = cs[1].at
      BY <1>2, <1>3 DEF SameCalls
    <3>2. cs[1].at = "pragma" => m # 1
      BY <1>1, <1>3 DEF CallsOK
    <3> HIDE DEF m
    <3> QED BY <1>2, <3>1, <3>2 DEF m
  <2>4. ks[1].at \in Before => ks[1].mp \notin hd
    BY <1>1, <1>2, <1>3, <2>3 DEF SameCalls, HiddenOK
  <2>5. ks[1].at = "pragma" /\ ks[1].nl /\ At(ks, m - 1).at \in Before => At(ks, m - 1).mp \notin hd
    <3>1. SUFFICES ASSUME ks[1].at = "pragma", ks[1].nl, At(ks, m - 1).at \in Before
                   PROVE  At(ks, m - 1).mp \notin hd
      OBVIOUS
    <3>2. cs[1].at = "pragma" /\ cs[1].nl
      BY <1>3, <2>3, <3>1 DEF SameCalls
    <3>3. At(cs, m - 1).at \in Before /\ At(ks, m - 1).mp = At(cs, m - 1).mp
      BY <2>3, <3>1 DEF SameCalls
    <3> QED BY <1>1, <3>2, <3>3 DEF HiddenOK
  <2>6. \A e \in 1 .. Len(in) : Done(e, jn, ks) =>
          /\ At(jn, e).mac \in hd
          /\ \A g \in e + 1 .. Len(in) : At(jn, g).type = "macro" =>
                At(jn, e).mac # At(jn, g).mac /\ At(jn, e).mac \notin At(jn, g).hideset
    BY <1>1, <2>1, <2>2 DEF HiddenOK, SameInput
  <2> QED BY <1>2, <2>4, <2>5, <2>6 DEF HiddenOK
<1> QED BY <1>4, <1>5, <1>6, <1>7, <1>8 DEF StackInv
\* What StackInv says of the lengths and of the tops.
LEMMA StackFacts ==
    ASSUME NEW in, NEW cs, NEW hd, StackInv(in, cs, hd)
    PROVE  /\ IsSeq(in) /\ IsSeq(cs) /\ Len(in) \in Nat /\ Len(cs) \in Nat
           /\ Len(in) > 0 /\ Len(cs) > 0
           /\ in[1] = At(in, Len(in)) /\ cs[1] = At(cs, Len(cs))
           /\ FrameOK(in[1]) /\ CallOK(cs[1])
<1>1. IsSeq(in) /\ IsSeq(cs) /\ Len(in) > 0 /\ Len(cs) > 0 /\ Len(in) \in Nat /\ Len(cs) \in Nat
  BY SeqFacts DEF StackInv, InputOK, CallsOK
<1>2. in[1] = At(in, Len(in)) /\ cs[1] = At(cs, Len(cs))
  BY <1>1, TopAt
<1>3. Len(in) \in 1 .. Len(in) /\ Len(cs) \in 1 .. Len(cs)
  BY <1>1
<1> QED BY <1>1, <1>2, <1>3 DEF StackInv, InputOK, CallsOK

\* #include puts a file on the stack.
LEMMA PushFile ==
    ASSUME NEW in, NEW cs, NEW hd, NEW fr, StackInv(in, cs, hd), cs[1].at # "copy",
           FrameOK(fr), fr.type = "file"
    PROVE  StackInv(<<fr>> \o in, cs, hd)
<1> DEFINE jn == <<fr>> \o in
           n == Len(in)
<1>1. /\ InputOK(in) /\ CallsOK(cs) /\ Matched(in, cs) /\ CopyOnTop(in, cs)
      /\ HiddenOK(in, cs, hd)
  BY DEF StackInv
<1>2. IsSeq(in) /\ n \in Nat /\ n > 0
  BY StackFacts
<1>3. /\ IsSeq(jn) /\ Len(jn) = n + 1 /\ jn[1] = fr /\ At(jn, n + 1) = fr
      /\ \A e \in 1 .. n : At(jn, e) = At(in, e)
  BY <1>2, ConsAt
<1>4. \A e \in 1 .. n + 1 : e = n + 1 \/ e \in 1 .. n
  BY <1>2
<1> HIDE DEF jn, n
<1>5. InputOK(jn)
  BY <1>1, <1>2, <1>3, <1>4 DEF InputOK, n
<1>6. Matched(jn, cs)
  <2>1. \A e \in 2 .. n : e - 1 \in 1 .. n /\ e \in 1 .. n
    BY <1>2
  <2>2. \A e \in 1 .. n : e \in 1 .. n + 1
    BY <1>2
  <2>3. Len(jn) \in Nat
    BY <1>2, <1>3
  <2> QED BY <1>1, <1>2, <1>3, <1>4, <2>1, <2>2, <2>3, KeepMatched DEF n
<1>7. HiddenOK(jn, cs, hd)
  <2>1. \A e \in 1 .. n + 1 : Done(e, jn, cs) => e \in 1 .. n /\ Done(e, in, cs)
    <3>1. \A e \in 1 .. n : e = n \/ e + 1 \in 1 .. n
      BY <1>2
    <3>2. \A e \in 1 .. n : e # n + 1
      BY <1>2
    <3> QED BY <1>2, <1>3, <1>4, <3>1, <3>2 DEF Done, n
  <2>2. \A e \in 1 .. n : \A g \in e + 1 .. n + 1 : g = n + 1 \/ (g \in e + 1 .. n /\ g \in 1 .. n)
    BY <1>2
  <2> QED BY <1>1, <1>3, <2>1, <2>2 DEF HiddenOK, n
<1>8. CopyOnTop(jn, cs)
  BY DEF CopyOnTop
<1> QED BY <1>1, <1>5, <1>6, <1>7, <1>8 DEF StackInv, jn

\* The end of a file, and of an expansion, whose names become visible: none of
\* them is the name of an expansion that is still read.
LEMMA PopInput ==
    ASSUME NEW in, NEW cs, NEW hd, NEW kd, StackInv(in, cs, hd), cs[1].at # "copy",
           \/ in[1].type = "file" /\ Len(in) > 1 /\ kd = hd
           \/ in[1].type = "macro" /\ kd = hd \ in[1].hideset
    PROVE  Len(in) > 1 /\ StackInv(Tail(in), cs, kd)
<1> DEFINE jn == Tail(in)
           n == Len(in)
<1>1. /\ InputOK(in) /\ CallsOK(cs) /\ Matched(in, cs) /\ CopyOnTop(in, cs)
      /\ HiddenOK(in, cs, hd)
  BY DEF StackInv
<1>2. IsSeq(in) /\ n \in Nat /\ n > 0 /\ in[1] = At(in, n)
  BY StackFacts
<1>3. n > 1
  <2>1. n # 1 \/ in[1].type = "file"
    BY <1>1, <1>2 DEF InputOK
  <2>2. in[1].type = "file" => n > 1
    OBVIOUS
  <2> HIDE DEF n
  <2> QED BY <1>2, <2>1, <2>2
<1>4. /\ IsSeq(jn) /\ Len(jn) = n - 1
      /\ \A e \in 1 .. n - 1 : At(jn, e) = At(in, e)
  BY <1>2, TailAt
<1>5. \A e \in 1 .. n : e = n \/ e \in 1 .. n - 1
  BY <1>2
<1>6. \A e \in 1 .. n - 1 : e \in 1 .. n
  BY <1>2
<1> HIDE DEF jn, n
<1>7. InputOK(jn)
  <2>1. 1 \in 1 .. n - 1 /\ n - 1 > 0
    BY <1>2, <1>3
  <2> QED BY <1>1, <1>4, <1>6, <2>1 DEF InputOK, n
<1>8. Matched(jn, cs)
  <2>1. \A e \in 2 .. n : e - 1 \in 1 .. n - 1 /\ e \in 1 .. n
    BY <1>2
  <2>2. Len(jn) \in Nat /\ At(in, n).type # "param"
    BY <1>2, <1>3, <1>4
  <2> QED BY <1>1, <1>2, <1>4, <1>5, <1>6, <2>1, <2>2, KeepMatched DEF n
<1>9. HiddenOK(jn, cs, kd)
  <2>1. \A e \in 1 .. n - 1 : Done(e, jn, cs) => Done(e, in, cs)
    <3>1. \A e \in 1 .. n - 1 : e = n - 1 \/ (e # n - 1 /\ e + 1 \in 1 .. n - 1)
      BY <1>2
    <3>2. \A e \in 1 .. n - 1 : e # n
      BY <1>2
    <3>3. (n - 1) + 1 = n
      BY <1>2
    <3> QED BY <1>2, <1>3, <1>4, <3>1, <3>2, <3>3 DEF Done, n
  <2>2. \A e \in 1 .. n - 1 : n \in e + 1 .. n
    BY <1>2
  <2>3. \A e \in 1 .. n - 1 : Done(e, in, cs) => At(in, e).mac \in kd
    BY <1>1, <1>2, <1>6, <2>2 DEF HiddenOK, n
  <2>4. \A e \in 1 .. n - 1 : \A g \in e + 1 .. n - 1 : g \in e + 1 .. n /\ g \in 1 .. n - 1
    BY <1>2
  <2>5. kd \subseteq hd
    OBVIOUS
  <2> QED BY <1>1, <1>4, <1>6, <2>1, <2>3, <2>4, <2>5 DEF HiddenOK, n
<1>10. CopyOnTop(jn, cs)
  BY DEF CopyOnTop
<1> QED BY <1>1, <1>3, <1>7, <1>8, <1>9, <1>10 DEF StackInv, jn, n
\* A function is called.
LEMMA CallOn ==
    ASSUME NEW cs, NEW c, CallsOK(cs), CallOK(c),
           \/ c.at = "param" /\ cs[1].at = "copy"
           \/ c.at \in Before \cup {"copy"} /\ Reads(cs[1])
           \/ c.at = "pragma" /\ (Reads(cs[1]) \/ cs[1].at = "ahead")
    PROVE  /\ CallsOK(<<c>> \o cs) /\ Len(<<c>> \o cs) = Len(cs) + 1
           /\ (<<c>> \o cs)[1] = c /\ At(<<c>> \o cs, Len(cs) + 1) = c
           /\ \A d \in 1 .. Len(cs) : At(<<c>> \o cs, d) = At(cs, d)
           /\ ParamCalls(<<c>> \o cs)
                = ParamCalls(cs) \cup (IF c.at = "param" THEN {Len(cs) + 1} ELSE {})
<1> DEFINE ks == <<c>> \o cs
           n == Len(cs)
<1>1. IsSeq(cs) /\ n \in Nat /\ n > 0 /\ cs[1] = At(cs, n)
  BY SeqFacts, TopAt DEF CallsOK
<1>2. /\ IsSeq(ks) /\ Len(ks) = n + 1 /\ ks[1] = c /\ At(ks, n + 1) = c
      /\ \A e \in 1 .. n : At(ks, e) = At(cs, e)
  BY <1>1, ConsAt
<1>3. \A e \in 1 .. n + 1 : e = n + 1 \/ e \in 1 .. n
  BY <1>1
<1> HIDE DEF ks, n
<1>4. CallsOK(ks)
  <2>1. n + 1 > 0 /\ 1 \in 1 .. n
    BY <1>1
  <2>2. \A d \in 1 .. n + 1 : CallOK(At(ks, d))
    BY <1>2, <1>3 DEF CallsOK, n
  <2>3. ASSUME NEW d \in 2 .. n + 1
        PROVE  \/ At(ks, d).at = "param" /\ At(ks, d - 1).at = "copy"
               \/ At(ks, d).at \in Before \cup {"copy"} /\ Reads(At(ks, d - 1))
               \/ At(ks, d).at = "pragma" /\ (Reads(At(ks, d - 1)) \/ At(ks, d - 1).at = "ahead")
    <3>1. CASE d = n + 1
      <4>1. d - 1 = n /\ n \in 1 .. n
        BY <1>1, <3>1
      <4>2. At(ks, d) = c /\ At(ks, d - 1) = cs[1]
        BY <1>1, <1>2, <3>1, <4>1
      <4> QED BY <4>2
    <3>2. CASE d \in 2 .. n
      <4>1. d \in 1 .. n /\ d - 1 \in 1 .. n
        BY <1>1, <3>2
      <4>2. At(ks, d) = At(cs, d) /\ At(ks, d - 1) = At(cs, d - 1)
        BY <1>2, <4>1
      <4> QED BY <3>2, <4>2 DEF CallsOK, n
    <3> QED BY <1>1, <3>1, <3>2
  <2>4. At(ks, 1).at = "top"
    BY <1>2, <2>1 DEF CallsOK
  <2> QED BY <1>2, <2>1, <2>2, <2>3, <2>4 DEF CallsOK
<1>5. ParamCalls(ks) = ParamCalls(cs) \cup (IF c.at = "param" THEN {n + 1} ELSE {})
  <2>1. (\A e \in 1 .. n : e \in 1 .. n + 1) /\ n + 1 \in 1 .. n + 1
    BY <1>1
  <2> QED BY <1>2, <1>3, <2>1 DEF ParamCalls, n
<1> QED BY <1>2, <1>4, <1>5 DEF ks, n

\* A function that is not the parser returns.
LEMMA CallOff ==
    ASSUME NEW cs, CallsOK(cs), cs[1].at # "top"
    PROVE  /\ CallsOK(Tail(cs)) /\ Len(Tail(cs)) = Len(cs) - 1 /\ Len(cs) > 1
           /\ Tail(cs)[1] = cs[2] /\ Tail(cs)[1] = At(cs, Len(cs) - 1)
           /\ \A d \in 1 .. Len(cs) - 1 : At(Tail(cs), d) = At(cs, d)
           /\ ParamCalls(Tail(cs)) = ParamCalls(cs) \ {Len(cs)}
           /\ \/ cs[1].at = "param" /\ Tail(cs)[1].at = "copy"
              \/ cs[1].at \in Before \cup {"copy"} /\ Reads(Tail(cs)[1])
              \/ cs[1].at = "pragma" /\ (Reads(Tail(cs)[1]) \/ Tail(cs)[1].at = "ahead")
<1> DEFINE ks == Tail(cs)
           n == Len(cs)
<1>1. IsSeq(cs) /\ n \in Nat /\ n > 0 /\ cs[1] = At(cs, n)
  BY SeqFacts, TopAt DEF CallsOK
<1>2. n > 1
  <2> HIDE DEF n
  <2>1. n # 1
    BY <1>1 DEF CallsOK
  <2> QED BY <1>1, <2>1
<1>3. /\ IsSeq(ks) /\ Len(ks) = n - 1
      /\ \A e \in 1 .. n - 1 : At(ks, e) = At(cs, e)
  BY <1>1, TailAt
<1> HIDE DEF ks, n
<1>4. ks[1] = At(cs, n - 1) /\ At(cs, n - 1) = cs[2]
  <2>1. ks[1] = At(ks, n - 1) /\ n - 1 \in 1 .. n - 1
    BY <1>1, <1>2, <1>3, TopAt
  <2>2. n + 1 - (n - 1) = 2
    BY <1>1
  <2> QED BY <1>3, <2>1, <2>2 DEF At, n
<1>5. CallsOK(ks)
  <2>1. /\ \A d \in 1 .. n - 1 : d \in 1 .. n
        /\ \A d \in 2 .. n - 1 : d \in 2 .. n /\ d \in 1 .. n - 1 /\ d - 1 \in 1 .. n - 1
        /\ 1 \in 1 .. n - 1 /\ n - 1 > 0
    BY <1>1, <1>2
  <2> QED BY <1>3, <2>1 DEF CallsOK, n
<1>6. ParamCalls(ks) = ParamCalls(cs) \ {n}
  <2>1. (\A e \in 1 .. n - 1 : e \in 1 .. n /\ e # n) /\ \A e \in 1 .. n : e = n \/ e \in 1 .. n - 1
    BY <1>1
  <2> QED BY <1>3, <2>1 DEF ParamCalls, n
<1>7. \/ cs[1].at = "param" /\ ks[1].at = "copy"
      \/ cs[1].at \in Before \cup {"copy"} /\ Reads(ks[1])
      \/ cs[1].at = "pragma" /\ (Reads(ks[1]) \/ ks[1].at = "ahead")
  <2>1. n \in 2 .. n
    BY <1>1, <1>2
  <2> QED BY <1>1, <1>4, <2>1 DEF CallsOK, n
<1> QED BY <1>2, <1>3, <1>4, <1>5, <1>6, <1>7 DEF ks, n

\* expand() of a macro with arguments begins.
LEMMA PushCall ==
    ASSUME NEW in, NEW cs, NEW hd, NEW c, StackInv(in, cs, hd), Reads(cs[1]),
           CallOK(c), c.at \in Before, c.mp \notin hd
    PROVE  StackInv(in, <<c>> \o cs, hd)
<1> DEFINE ks == <<c>> \o cs
<1>1. /\ InputOK(in) /\ CallsOK(cs) /\ Matched(in, cs) /\ CopyOnTop(in, cs)
      /\ HiddenOK(in, cs, hd)
  BY DEF StackInv
<1>0. c.at # "param" /\ c.at # "copy" /\ c.at # "pragma" /\ c.at \in Before \cup {"copy"}
  BY DEF Before
<1>2. /\ CallsOK(ks) /\ ks[1] = c /\ ParamCalls(ks) = ParamCalls(cs)
      /\ \A d \in 1 .. Len(cs) : At(ks, d) = At(cs, d)
  <2>1. ParamCalls(ks) = ParamCalls(cs) \cup (IF c.at = "param" THEN {Len(cs) + 1} ELSE {})
    BY <1>0, <1>1, CallOn
  <2>2. CallsOK(ks) /\ ks[1] = c /\ \A d \in 1 .. Len(cs) : At(ks, d) = At(cs, d)
    BY <1>0, <1>1, CallOn
  <2> HIDE DEF ks
  <2> QED BY <1>0, <2>1, <2>2
<1> HIDE DEF ks
<1>3. Matched(in, ks)
  <2>1. \A d \in ParamCalls(cs) : At(ks, d - 1).mp = At(cs, d - 1).mp
    BY <1>1, <1>2, ParamBelow
  <2>2. Len(in) \in Nat
    BY StackFacts
  <2> QED BY <1>1, <1>2, <2>1, <2>2, KeepMatched
<1>4. CopyOnTop(in, ks)
  BY <1>0, <1>2 DEF CopyOnTop
<1>5. HiddenOK(in, ks, hd)
  <2>1. \A e \in 1 .. Len(in) : Done(e, in, ks) = Done(e, in, cs)
    <3>1. cs[1].at # "copy"
      BY DEF Reads
    <3> QED BY <1>0, <1>2, <3>1 DEF Done
  <2> QED BY <1>0, <1>1, <1>2, <2>1 DEF HiddenOK
<1> QED BY <1>1, <1>2, <1>3, <1>4, <1>5 DEF StackInv, ks

\* #pragma is read by whoever waits for a line; parsepars() waits for its end too.
LEMMA PushPragma ==
    ASSUME NEW in, NEW cs, NEW hd, NEW c, StackInv(in, cs, hd),
           Reads(cs[1]) \/ cs[1].at = "ahead", CallOK(c), c.at = "pragma"
    PROVE  StackInv(in, <<c>> \o cs, hd)
<1> DEFINE ks == <<c>> \o cs
           m == Len(cs)
<1>1. /\ InputOK(in) /\ CallsOK(cs) /\ Matched(in, cs) /\ CopyOnTop(in, cs)
      /\ HiddenOK(in, cs, hd)
  BY DEF StackInv
<1>2. m \in Nat /\ m > 0 /\ cs[1] = At(cs, m) /\ Len(in) \in Nat
  BY StackFacts
<1>3. /\ CallsOK(ks) /\ ks[1] = c /\ ParamCalls(ks) = ParamCalls(cs) /\ Len(ks) = m + 1
      /\ \A d \in 1 .. m : At(ks, d) = At(cs, d)
  <2>1. ParamCalls(ks) = ParamCalls(cs) \cup (IF c.at = "param" THEN {m + 1} ELSE {})
    BY <1>1, CallOn
  <2>2. /\ CallsOK(ks) /\ ks[1] = c /\ Len(ks) = m + 1
        /\ \A d \in 1 .. m : At(ks, d) = At(cs, d)
    BY <1>1, CallOn
  <2> HIDE DEF ks, m
  <2> QED BY <2>1, <2>2
<1>4. At(ks, Len(ks) - 1) = cs[1]
  <2> HIDE DEF ks, m
  <2>1. Len(ks) - 1 = m /\ m \in 1 .. m
    BY <1>2, <1>3
  <2> QED BY <1>2, <1>3, <2>1
<1> HIDE DEF ks, m
<1>5. Matched(in, ks)
  <2>1. \A d \in ParamCalls(cs) : At(ks, d - 1).mp = At(cs, d - 1).mp
    BY <1>1, <1>3, ParamBelow DEF m
  <2> QED BY <1>1, <1>2, <1>3, <2>1, KeepMatched
<1>6. CopyOnTop(in, ks)
  BY <1>3 DEF CopyOnTop
<1>7. HiddenOK(in, ks, hd)
  <2>1. \A e \in 1 .. Len(in) : Done(e, in, ks) = Done(e, in, cs)
    <3>1. cs[1].at # "copy"
      BY DEF Reads
    <3> QED BY <1>3, <3>1 DEF Done
  <2>2. At(ks, Len(ks) - 1).at \in Before => At(ks, Len(ks) - 1).mp \notin hd
    BY <1>1, <1>4 DEF HiddenOK
  <2> QED BY <1>1, <1>3, <2>1, <2>2 DEF HiddenOK, Before
<1> QED BY <1>1, <1>3, <1>5, <1>6, <1>7 DEF StackInv, ks

\* parsepars() ends without an expansion, or goes on, or pragma() ends.
LEMMA PopCall ==
    ASSUME NEW in, NEW cs, NEW hd, StackInv(in, cs, hd),
           cs[1].at \in Before \/ (cs[1].at = "pragma" /\ cs[1].nl)
    PROVE  /\ StackInv(in, Tail(cs), hd)
           /\ Reads(Tail(cs)[1]) \/ (cs[1].at = "pragma" /\ Tail(cs)[1].at = "ahead")
<1> DEFINE ks == Tail(cs)
<1>1. /\ InputOK(in) /\ CallsOK(cs) /\ Matched(in, cs) /\ CopyOnTop(in, cs)
      /\ HiddenOK(in, cs, hd)
  BY DEF StackInv
<1>0. cs[1].at \notin {"top", "param", "copy"}
  BY DEF Before
<1>2. /\ CallsOK(ks) /\ ParamCalls(ks) = ParamCalls(cs) \ {Len(cs)}
      /\ \A d \in 1 .. Len(cs) - 1 : At(ks, d) = At(cs, d)
      /\ ks[1] = At(cs, Len(cs) - 1)
  BY <1>0, <1>1, CallOff
<1>8. Reads(ks[1]) \/ (cs[1].at = "pragma" /\ ks[1].at = "ahead")
  BY <1>0, <1>1, CallOff DEF Before
<1>9. ks[1].at # "copy"
  BY <1>8 DEF Reads
<1>3. Len(cs) \in Nat /\ cs[1] = At(cs, Len(cs)) /\ Len(in) \in Nat
  BY StackFacts
<1> HIDE DEF ks
<1>4. ParamCalls(ks) = ParamCalls(cs)
  BY <1>0, <1>2, <1>3 DEF ParamCalls
<1>5. Matched(in, ks)
  <2>1. \A d \in ParamCalls(cs) : d - 1 \in 1 .. Len(cs) - 1
    BY <1>1, <1>3, ParamBelow
  <2> QED BY <1>1, <1>2, <1>3, <1>4, <2>1, KeepMatched
<1>6. CopyOnTop(in, ks)
  BY <1>9 DEF CopyOnTop
<1>7. HiddenOK(in, ks, hd)
  <2>1. \A e \in 1 .. Len(in) : Done(e, in, ks) = Done(e, in, cs)
    BY <1>0, <1>9 DEF Done
  <2>2. ks[1].at \in Before => ks[1].mp \notin hd
    <3>1. ks[1].at \in Before => cs[1].at = "pragma" /\ cs[1].nl
      BY <1>8 DEF Reads, Before
    <3> QED BY <1>1, <1>2, <3>1 DEF HiddenOK
  <2>3. ~(ks[1].at = "pragma" /\ ks[1].nl)
    BY <1>8 DEF Reads
  <2> QED BY <1>1, <2>1, <2>2, <2>3 DEF HiddenOK
<1> QED BY <1>1, <1>2, <1>8, <1>5, <1>6, <1>7 DEF StackInv, ks
\* copymacro() begins: the expansion is the input on top and not read yet.
LEMMA PushCopy ==
    ASSUME NEW in, NEW cs, NEW hd, NEW c, NEW fr, StackInv(in, cs, hd),
           Reads(cs[1]), CallOK(c), c.at = "copy", c.mp \notin hd,
           FrameOK(fr), fr.type = "macro", fr.mac = c.mp, fr.hideset = {}
    PROVE  StackInv(<<fr>> \o in, <<c>> \o cs, hd)
<1> DEFINE jn == <<fr>> \o in
           ks == <<c>> \o cs
           n == Len(in)
<1>1. /\ InputOK(in) /\ CallsOK(cs) /\ Matched(in, cs) /\ CopyOnTop(in, cs)
      /\ HiddenOK(in, cs, hd)
  BY DEF StackInv
<1>2. IsSeq(in) /\ n \in Nat /\ n > 0
  BY StackFacts
<1>3. /\ IsSeq(jn) /\ Len(jn) = n + 1 /\ jn[1] = fr /\ At(jn, n + 1) = fr
      /\ \A e \in 1 .. n : At(jn, e) = At(in, e)
  BY <1>2, ConsAt
<1>4. \A e \in 1 .. n + 1 : e = n + 1 \/ e \in 1 .. n
  BY <1>2
<1>5. /\ CallsOK(ks) /\ ks[1] = c /\ ParamCalls(ks) = ParamCalls(cs)
      /\ \A d \in 1 .. Len(cs) : At(ks, d) = At(cs, d)
  <2>1. ParamCalls(ks) = ParamCalls(cs) \cup (IF c.at = "param" THEN {Len(cs) + 1} ELSE {})
    BY <1>1, CallOn
  <2>2. CallsOK(ks) /\ ks[1] = c /\ \A d \in 1 .. Len(cs) : At(ks, d) = At(cs, d)
    BY <1>1, CallOn
  <2> HIDE DEF ks
  <2> QED BY <2>1, <2>2
<1> HIDE DEF jn, ks, n
<1>6. InputOK(jn)
  BY <1>1, <1>2, <1>3, <1>4 DEF InputOK, n
<1>7. Matched(jn, ks)
  <2>1. \A e \in 2 .. n : e - 1 \in 1 .. n /\ e \in 1 .. n
    BY <1>2
  <2>2. \A e \in 1 .. n : e \in 1 .. n + 1
    BY <1>2
  <2>3. Len(jn) \in Nat
    BY <1>2, <1>3
  <2>4. \A d \in ParamCalls(cs) : At(ks, d - 1).mp = At(cs, d - 1).mp
    BY <1>1, <1>5, ParamBelow
  <2> QED BY <1>1, <1>2, <1>3, <1>4, <1>5, <2>1, <2>2, <2>3, <2>4, KeepMatched DEF n
<1>8. CopyOnTop(jn, ks)
  BY <1>3, <1>5 DEF CopyOnTop
<1>9. HiddenOK(jn, ks, hd)
  <2>1. \A e \in 1 .. n + 1 : Done(e, jn, ks) => e \in 1 .. n /\ Done(e, in, cs)
    <3>1. \A e \in 1 .. n : e = n \/ e + 1 \in 1 .. n
      BY <1>2
    <3>2. \A e \in 1 .. n : e # n + 1
      BY <1>2
    <3>3. cs[1].at # "copy"
      BY DEF Reads
    <3> QED BY <1>2, <1>3, <1>4, <1>5, <3>1, <3>2, <3>3 DEF Done, n
  <2>2. \A e \in 1 .. n : \A g \in e + 1 .. n + 1 : g = n + 1 \/ (g \in e + 1 .. n /\ g \in 1 .. n)
    BY <1>2
  <2>3. ASSUME NEW e \in 1 .. n, Done(e, in, cs)
        PROVE  /\ At(in, e).mac \in hd
               /\ \A g \in e + 1 .. n + 1 : At(jn, g).type = "macro" =>
                     At(in, e).mac # At(jn, g).mac /\ At(in, e).mac \notin At(jn, g).hideset
    BY <1>1, <1>3, <2>2, <2>3 DEF HiddenOK, n
  <2>4. ks[1].at = "copy" /\ "copy" \notin Before
    BY <1>5 DEF Before
  <2> QED BY <1>3, <2>1, <2>3, <2>4 DEF HiddenOK
<1> QED BY <1>5, <1>6, <1>7, <1>8, <1>9 DEF StackInv, jn, ks

\* expandarg() begins: the argument is read from now on.
LEMMA PushParam ==
    ASSUME NEW in, NEW cs, NEW hd, NEW c, NEW fr, StackInv(in, cs, hd), cs[1].at = "copy",
           CallOK(c), c.at = "param", FrameOK(fr), fr.type = "param"
    PROVE  StackInv(<<fr>> \o in, <<c>> \o cs, hd)
<1> DEFINE jn == <<fr>> \o in
           ks == <<c>> \o cs
           n == Len(in)
           m == Len(cs)
<1>1. /\ InputOK(in) /\ CallsOK(cs) /\ Matched(in, cs) /\ CopyOnTop(in, cs)
      /\ HiddenOK(in, cs, hd)
  BY DEF StackInv
<1>2. /\ IsSeq(in) /\ n \in Nat /\ n > 0 /\ m \in Nat /\ m > 0
      /\ in[1] = At(in, n) /\ cs[1] = At(cs, m)
  BY StackFacts
<1>3. /\ IsSeq(jn) /\ Len(jn) = n + 1 /\ jn[1] = fr /\ At(jn, n + 1) = fr
      /\ \A e \in 1 .. n : At(jn, e) = At(in, e)
  BY <1>2, ConsAt
<1>4. \A e \in 1 .. n + 1 : e = n + 1 \/ e \in 1 .. n
  BY <1>2
<1>5. /\ CallsOK(ks) /\ ks[1] = c /\ ParamCalls(ks) = ParamCalls(cs) \cup {m + 1}
      /\ Len(ks) = m + 1 /\ At(ks, m + 1) = c /\ \A d \in 1 .. m : At(ks, d) = At(cs, d)
  <2>1. ParamCalls(ks) = ParamCalls(cs) \cup (IF c.at = "param" THEN {m + 1} ELSE {})
    BY <1>1, CallOn
  <2>2. /\ CallsOK(ks) /\ ks[1] = c /\ Len(ks) = m + 1 /\ At(ks, m + 1) = c
        /\ \A d \in 1 .. m : At(ks, d) = At(cs, d)
    BY <1>1, CallOn
  <2> HIDE DEF ks
  <2> QED BY <2>1, <2>2
<1> HIDE DEF jn, ks, n, m
<1>6. InputOK(jn)
  BY <1>1, <1>2, <1>3, <1>4 DEF InputOK, n
<1>7. Matched(jn, ks)
  <2>1. PICK f \in [ParamCalls(cs) -> 1 .. n] : Matches(f, in, cs)
    BY <1>1 DEF Matched, n
  <2> DEFINE P == ParamCalls(cs)
             h == [d \in P \cup {m + 1} |-> IF d = m + 1 THEN n + 1 ELSE f[d]]
  <2>2. \A d \in P : d \in 2 .. m /\ d - 1 \in 1 .. m /\ d # m + 1
    BY <1>1, <1>2, ParamBelow DEF m
  <2>3. h[m + 1] = n + 1 /\ \A d \in P : h[d] = f[d]
    BY <2>2
  <2>4. h \in [ParamCalls(ks) -> 1 .. Len(jn)]
    BY <1>2, <1>3, <1>5
  <2> HIDE DEF h
  <2>5. ASSUME NEW d \in P
        PROVE  /\ h[d] \in 2 .. n + 1 /\ h[d] < n + 1
               /\ At(jn, h[d]).type = "param"
               /\ At(jn, h[d] - 1).type = "macro"
               /\ At(jn, h[d] - 1).mac = At(ks, d - 1).mp
    <3>1. /\ f[d] \in 2 .. n /\ At(in, f[d]).type = "param"
          /\ At(in, f[d] - 1).type = "macro" /\ At(in, f[d] - 1).mac = At(cs, d - 1).mp
      BY <2>1 DEF Matches, n
    <3>2. f[d] \in 1 .. n /\ f[d] - 1 \in 1 .. n
      BY <1>2, <3>1
    <3>3. h[d] \in 2 .. n + 1 /\ h[d] < n + 1
      BY <1>2, <2>3, <3>1
    <3> QED BY <1>3, <1>5, <2>2, <2>3, <3>1, <3>2, <3>3
  <2>6. /\ h[m + 1] \in 2 .. n + 1
        /\ At(jn, h[m + 1]).type = "param"
        /\ At(jn, h[m + 1] - 1).type = "macro"
        /\ At(jn, h[m + 1] - 1).mac = At(ks, (m + 1) - 1).mp
    <3>1. (m + 1) - 1 = m /\ h[m + 1] - 1 = n /\ h[m + 1] \in 2 .. n + 1 /\ n \in 1 .. n /\ m \in 1 .. m
      BY <1>2, <2>3
    <3>2. At(in, n).type = "macro" /\ At(in, n).mac = At(cs, m).mp
      BY <1>1, <1>2 DEF CopyOnTop
    <3> QED BY <1>3, <1>5, <2>3, <3>1, <3>2
  <2>7. ASSUME NEW d \in P \cup {m + 1}, NEW e \in P \cup {m + 1}, d < e
        PROVE  h[d] < h[e]
    <3>1. CASE e = m + 1
      <4>1. d # m + 1
        BY <1>2, <2>7, <3>1
      <4> QED BY <2>3, <2>5, <2>7, <3>1, <4>1
    <3>2. CASE e # m + 1
      <4>1. e \in P /\ d # m + 1
        BY <1>2, <2>2, <2>7, <3>2
      <4> QED BY <2>1, <2>3, <2>7, <4>1 DEF Matches
    <3> QED BY <3>1, <3>2
  <2>8. ASSUME NEW e \in 1 .. n + 1, At(jn, e).type = "param"
        PROVE  \E d \in P \cup {m + 1} : h[d] = e
    <3>1. CASE e = n + 1
      BY <2>3, <3>1
    <3>2. CASE e \in 1 .. n
      <4>1. PICK d \in P : f[d] = e
        BY <1>3, <2>1, <2>8, <3>2 DEF Matches, n
      <4> QED BY <2>3, <4>1
    <3> QED BY <1>4, <3>1, <3>2
  <2>9. Matches(h, jn, ks)
    BY <1>3, <1>5, <2>5, <2>6, <2>7, <2>8 DEF Matches
  <2> QED BY <2>4, <2>9 DEF Matched
<1>8. CopyOnTop(jn, ks)
  BY <1>5 DEF CopyOnTop
<1>9. HiddenOK(jn, ks, hd)
  <2>1. \A e \in 1 .. n + 1 : Done(e, jn, ks) => e \in 1 .. n /\ Done(e, in, cs)
    <3>1. \A e \in 1 .. n : e = n \/ e + 1 \in 1 .. n
      BY <1>2
    <3>2. \A e \in 1 .. n : e # n + 1
      BY <1>2
    <3> QED BY <1>2, <1>3, <1>4, <1>5, <3>1, <3>2 DEF Done, n
  <2>2. \A e \in 1 .. n : \A g \in e + 1 .. n + 1 : g = n + 1 \/ (g \in e + 1 .. n /\ g \in 1 .. n)
    BY <1>2
  <2>3. ks[1].at = "param" /\ "param" \notin Before
    BY <1>5 DEF Before
  <2>4. \A e \in 1 .. n + 1 : Done(e, jn, ks) =>
          /\ At(jn, e).mac \in hd
          /\ \A g \in e + 1 .. n + 1 : At(jn, g).type = "macro" =>
                At(jn, e).mac # At(jn, g).mac /\ At(jn, e).mac \notin At(jn, g).hideset
    BY <1>1, <1>3, <2>1, <2>2 DEF HiddenOK, n
  <2> QED BY <1>3, <2>3, <2>4 DEF HiddenOK
<1> QED BY <1>5, <1>6, <1>7, <1>8, <1>9 DEF StackInv, jn, ks
\* expandarg() ends: the expansion its caller writes is on top again.
LEMMA PopParam ==
    ASSUME NEW in, NEW cs, NEW hd, StackInv(in, cs, hd), cs[1].at = "param", in[1].type = "param"
    PROVE  StackInv(Tail(in), Tail(cs), hd) /\ Tail(cs)[1].at = "copy"
<1> DEFINE jn == Tail(in)
           ks == Tail(cs)
           n == Len(in)
           m == Len(cs)
<1>1. /\ InputOK(in) /\ CallsOK(cs) /\ Matched(in, cs) /\ CopyOnTop(in, cs)
      /\ HiddenOK(in, cs, hd)
  BY DEF StackInv
<1>2. /\ IsSeq(in) /\ n \in Nat /\ n > 0 /\ m \in Nat /\ m > 0
      /\ in[1] = At(in, n) /\ cs[1] = At(cs, m)
  BY StackFacts
<1>3. n > 1
  <2> HIDE DEF n
  <2>1. n # 1
    BY <1>1, <1>2 DEF InputOK
  <2> QED BY <1>2, <2>1
<1>4. /\ IsSeq(jn) /\ Len(jn) = n - 1
      /\ \A e \in 1 .. n - 1 : At(jn, e) = At(in, e)
  BY <1>2, TailAt
<1>5. /\ CallsOK(ks) /\ Len(ks) = m - 1 /\ m > 1 /\ ks[1].at = "copy" /\ ks[1] = At(cs, m - 1)
      /\ \A d \in 1 .. m - 1 : At(ks, d) = At(cs, d)
      /\ ParamCalls(ks) = ParamCalls(cs) \ {m}
  BY <1>1, CallOff DEF Before
<1>6. jn[1] = At(in, n - 1)
  <2>1. Len(jn) > 0 /\ n - 1 \in 1 .. n - 1
    BY <1>2, <1>3, <1>4
  <2> QED BY <1>4, <2>1, TopAt
<1> HIDE DEF jn, ks, n, m
<1>7. InputOK(jn)
  <2>1. 1 \in 1 .. n - 1 /\ n - 1 > 0 /\ \A e \in 1 .. n - 1 : e \in 1 .. n
    BY <1>2, <1>3
  <2> QED BY <1>1, <1>4, <2>1 DEF InputOK, n
<1>8. PICK f \in [ParamCalls(cs) -> 1 .. n] : Matches(f, in, cs)
  BY <1>1 DEF Matched, n
<1>9. m \in ParamCalls(cs) /\ f[m] = n
  <2>1. m \in ParamCalls(cs)
    BY <1>2 DEF ParamCalls, m
  <2>2. n \in 1 .. n
    BY <1>2
  <2>3. PICK d \in ParamCalls(cs) : f[d] = n
    BY <1>2, <1>8, <2>2 DEF Matches, n
  <2>4. d \in 1 .. m
    BY DEF ParamCalls, m
  <2>5. d < m => f[d] < f[m]
    BY <1>8, <2>1 DEF Matches
  <2>6. f[m] \in 1 .. n
    BY <1>8, <2>1
  <2>7. d = m
    BY <1>2, <2>3, <2>4, <2>5, <2>6
  <2> QED BY <2>1, <2>3, <2>7
<1>10. Matched(jn, ks)
  <2> DEFINE P == ParamCalls(cs) \ {m}
             h == [d \in P |-> f[d]]
  <2>1. ASSUME NEW d \in P
        PROVE  /\ f[d] \in 2 .. n - 1 /\ f[d] \in 1 .. n - 1
               /\ At(jn, f[d]).type = "param"
               /\ At(jn, f[d] - 1).type = "macro"
               /\ At(jn, f[d] - 1).mac = At(ks, d - 1).mp
    <3>1. d \in 2 .. m /\ d # m
      BY <1>1, ParamBelow DEF m
    <3>2. d < m /\ d - 1 \in 1 .. m - 1
      BY <1>2, <3>1
    <3>3. /\ f[d] \in 2 .. n /\ At(in, f[d]).type = "param"
          /\ At(in, f[d] - 1).type = "macro" /\ At(in, f[d] - 1).mac = At(cs, d - 1).mp
      BY <1>8 DEF Matches, n
    <3>4. f[d] < f[m]
      BY <1>8, <1>9, <3>2 DEF Matches
    <3>5. f[d] \in 2 .. n - 1 /\ f[d] \in 1 .. n - 1 /\ f[d] - 1 \in 1 .. n - 1
      BY <1>2, <1>9, <3>3, <3>4
    <3> QED BY <1>4, <1>5, <3>2, <3>3, <3>5
  <2>2. h \in [ParamCalls(ks) -> 1 .. Len(jn)]
    BY <1>4, <1>5, <2>1
  <2>3. \A d \in P : h[d] = f[d]
    OBVIOUS
  <2> HIDE DEF h
  <2>4. \A c, d \in P : c < d => h[c] < h[d]
    BY <1>8, <2>3 DEF Matches
  <2>5. ASSUME NEW e \in 1 .. n - 1, At(jn, e).type = "param"
        PROVE  \E d \in P : h[d] = e
    <3>1. e \in 1 .. n /\ e # n /\ At(in, e).type = "param"
      BY <1>2, <1>4, <2>5
    <3>2. PICK d \in ParamCalls(cs) : f[d] = e
      BY <1>8, <3>1 DEF Matches, n
    <3> QED BY <1>9, <2>3, <3>1, <3>2
  <2>6. Matches(h, jn, ks)
    BY <1>4, <1>5, <2>1, <2>3, <2>4, <2>5 DEF Matches
  <2> QED BY <2>2, <2>6 DEF Matched
<1>11. CopyOnTop(jn, ks)
  <2>1. At(in, f[m] - 1).type = "macro" /\ At(in, f[m] - 1).mac = At(cs, m - 1).mp
    BY <1>8, <1>9 DEF Matches
  <2> QED BY <1>5, <1>6, <1>9, <2>1 DEF CopyOnTop
<1>12. HiddenOK(jn, ks, hd)
  <2>1. \A e \in 1 .. n - 1 : Done(e, jn, ks) => Done(e, in, cs)
    <3>1. \A e \in 1 .. n - 1 : e = n - 1 \/ (e # n - 1 /\ e + 1 \in 1 .. n - 1)
      BY <1>2
    <3>2. \A e \in 1 .. n - 1 : e # n
      BY <1>2
    <3> QED BY <1>4, <1>5, <3>1, <3>2 DEF Done, n
  <2>2. \A e \in 1 .. n - 1 : e \in 1 .. n /\ \A g \in e + 1 .. n - 1 : g \in e + 1 .. n /\ g \in 1 .. n - 1
    BY <1>2
  <2>3. \A e \in 1 .. n - 1 : Done(e, jn, ks) =>
          /\ At(jn, e).mac \in hd
          /\ \A g \in e + 1 .. n - 1 : At(jn, g).type = "macro" =>
                At(jn, e).mac # At(jn, g).mac /\ At(jn, e).mac \notin At(jn, g).hideset
    BY <1>1, <1>4, <2>1, <2>2 DEF HiddenOK, n
  <2>4. ks[1].at = "copy" /\ "copy" \notin Before
    BY <1>5 DEF Before
  <2> QED BY <1>4, <2>3, <2>4 DEF HiddenOK
<1> QED BY <1>5, <1>7, <1>10, <1>11, <1>12 DEF StackInv, jn, ks

\* copymacro() ends: the name is added to the hide set of every expansion and
\* hidden; the expansion is read from now on.
LEMMA FinishCopy ==
    ASSUME NEW in, NEW jn, NEW cs, NEW hd, NEW kd, StackInv(in, cs, hd), cs[1].at = "copy",
           IsSeq(jn), Len(jn) = Len(in),
           \A e \in 1 .. Len(in) :
              /\ FrameOK(At(jn, e))
              /\ At(jn, e).type = At(in, e).type /\ At(jn, e).mac = At(in, e).mac
              /\ At(in, e).type = "macro" => At(jn, e).hideset = At(in, e).hideset \cup {cs[1].mp},
           hd \cup {cs[1].mp} \subseteq kd
    PROVE  StackInv(jn, Tail(cs), kd)
<1> DEFINE ks == Tail(cs)
           n == Len(in)
           m == Len(cs)
<1>1. /\ InputOK(in) /\ CallsOK(cs) /\ Matched(in, cs) /\ CopyOnTop(in, cs)
      /\ HiddenOK(in, cs, hd)
  BY DEF StackInv
<1>2. /\ IsSeq(in) /\ n \in Nat /\ n > 0 /\ m \in Nat /\ m > 0
      /\ in[1] = At(in, n) /\ cs[1] = At(cs, m)
  BY StackFacts
<1>3. /\ CallsOK(ks) /\ Len(ks) = m - 1 /\ Reads(ks[1])
      /\ \A d \in 1 .. m - 1 : At(ks, d) = At(cs, d)
      /\ ParamCalls(ks) = ParamCalls(cs) \ {m}
  BY <1>1, CallOff DEF Before
<1> HIDE DEF ks, n, m
<1>4. ParamCalls(ks) = ParamCalls(cs)
  BY <1>2, <1>3 DEF ParamCalls, m
<1>5. InputOK(jn)
  BY <1>1, <1>2 DEF InputOK, n
<1>6. Matched(jn, ks)
  <2>1. \A d \in ParamCalls(cs) : d - 1 \in 1 .. m - 1
    BY <1>1, <1>2, ParamBelow DEF m
  <2>2. \A e \in 2 .. n : e - 1 \in 1 .. n
    BY <1>2
  <2> QED BY <1>1, <1>2, <1>3, <1>4, <2>1, <2>2, KeepMatched DEF n
<1>10. ks[1].at \notin Before \cup {"copy"} /\ ~(ks[1].at = "pragma" /\ ks[1].nl)
  BY <1>3 DEF Reads, Before
<1>7. CopyOnTop(jn, ks)
  BY <1>10 DEF CopyOnTop
<1>8. At(in, n).type = "macro" /\ At(in, n).mac = cs[1].mp
  BY <1>1, <1>2 DEF CopyOnTop
<1>9. HiddenOK(jn, ks, kd)
  <2>1. \A e \in 1 .. n : e # n /\ Done(e, jn, ks) => Done(e, in, cs)
    <3>1. \A e \in 1 .. n : e = n \/ e + 1 \in 1 .. n
      BY <1>2
    <3> QED BY <3>1 DEF Done, n
  <2>2. ASSUME NEW e \in 1 .. n, e # n, Done(e, in, cs)
        PROVE  /\ At(jn, e).mac \in kd
               /\ \A g \in e + 1 .. n : At(jn, g).type = "macro" =>
                     At(jn, e).mac # At(jn, g).mac /\ At(jn, e).mac \notin At(jn, g).hideset
    <3>1. n \in e + 1 .. n /\ \A g \in e + 1 .. n : g \in 1 .. n
      BY <1>2, <2>2
    <3>2. At(in, e).mac # cs[1].mp
      BY <1>1, <1>8, <2>2, <3>1 DEF HiddenOK, n
    <3>3. At(jn, e).mac \in kd
      BY <1>1, <2>2 DEF HiddenOK, n
    <3>4. ASSUME NEW g \in e + 1 .. n, At(jn, g).type = "macro"
          PROVE  At(jn, e).mac # At(jn, g).mac /\ At(jn, e).mac \notin At(jn, g).hideset
      <4>1. At(in, g).type = "macro" /\ At(jn, g).mac = At(in, g).mac
            /\ At(jn, g).hideset = At(in, g).hideset \cup {cs[1].mp} /\ At(jn, e).mac = At(in, e).mac
        BY <3>1, <3>4 DEF n
      <4>2. At(in, e).mac # At(in, g).mac /\ At(in, e).mac \notin At(in, g).hideset
        BY <1>1, <2>2, <3>4, <4>1 DEF HiddenOK, n
      <4> QED BY <3>2, <4>1, <4>2
    <3> QED BY <3>3, <3>4
  <2>3. At(jn, n).mac \in kd /\ n + 1 .. n = {}
    BY <1>2, <1>8 DEF n
  <2>4. \A e \in 1 .. n : Done(e, jn, ks) =>
          /\ At(jn, e).mac \in kd
          /\ \A g \in e + 1 .. n : At(jn, g).type = "macro" =>
                At(jn, e).mac # At(jn, g).mac /\ At(jn, e).mac \notin At(jn, g).hideset
    BY <2>1, <2>2, <2>3
  <2> QED BY <1>2, <1>10, <2>4 DEF HiddenOK, n
<1> QED BY <1>3, <1>5, <1>6, <1>7, <1>9 DEF StackInv, ks
-----------------------------------------------------------------------------
(* Changes of the two tops                                                 *)

\* The input on top goes on.
LEMMA TopInput ==
    ASSUME NEW in, NEW cs, NEW hd, NEW fr, StackInv(in, cs, hd), FrameOK(fr),
           fr.type = in[1].type, fr.mac = in[1].mac, fr.hideset = in[1].hideset
    PROVE  StackInv([in EXCEPT ![1] = fr], cs, hd)
<1> DEFINE jn == [in EXCEPT ![1] = fr]
<1>0. Top1(jn, in, fr)
  BY DEF Top1
<1>1. IsSeq(in) /\ Len(in) \in Nat /\ Len(in) > 0 /\ in[1] = At(in, Len(in))
  BY StackFacts
<1>2. /\ IsSeq(jn) /\ Len(jn) = Len(in) /\ At(jn, Len(in)) = fr
      /\ \A d \in 1 .. Len(in) - 1 : At(jn, d) = At(in, d)
  <2> HIDE DEF jn
  <2>1. IsSeq(in) /\ Len(in) > 0
    BY <1>1
  <2> QED BY <1>0, <2>1, ExceptAt
<1> HIDE DEF jn
<1>3. \A d \in 1 .. Len(in) : d = Len(in) \/ d \in 1 .. Len(in) - 1
  BY <1>1
<1>4. \A d \in 1 .. Len(in) : FrameOK(At(in, d))
  BY DEF StackInv, InputOK
<1>5. SameInput(in, jn)
  BY <1>1, <1>2, <1>3, <1>4 DEF SameInput
<1>6. SameCalls(cs, cs)
  BY DEF SameCalls, StackInv, CallsOK
<1> QED BY <1>5, <1>6, KeepStack DEF jn

\* The function c goes on as k.
GoesOn(k, c) ==
    /\ CallOK(k) /\ k.at = c.at
    /\ c.at \in Before \cup {"copy"} => k.mp = c.mp
    /\ c.at = "pragma" /\ k.nl => c.nl
NewTop(ks, cs, k) == Top1(ks, cs, k) \/ ks = <<k>> \o Tail(cs)

\* The function on top goes on.
LEMMA TopCall ==
    ASSUME NEW in, NEW cs, NEW hd, NEW c, NEW ks, StackInv(in, cs, hd), GoesOn(c, cs[1]),
           NewTop(ks, cs, c)
    PROVE  StackInv(in, ks, hd) /\ ks[1] = c /\ ks[1].at = cs[1].at
<1>1. IsSeq(cs) /\ Len(cs) \in Nat /\ Len(cs) > 0 /\ cs[1] = At(cs, Len(cs))
  BY StackFacts
<1>2. \A d \in 1 .. Len(cs) : d = Len(cs) \/ d \in 1 .. Len(cs) - 1
  BY <1>1
<1>3. \A d \in 1 .. Len(cs) : CallOK(At(cs, d))
  BY DEF StackInv, CallsOK
<1>4. /\ IsSeq(ks) /\ Len(ks) = Len(cs) /\ At(ks, Len(cs)) = c
      /\ \A d \in 1 .. Len(cs) - 1 : At(ks, d) = At(cs, d)
  <2>1. CASE Top1(ks, cs, c)
    <3>1. IsSeq(cs) /\ Len(cs) > 0
      BY <1>1
    <3> QED BY <2>1, <3>1, ExceptAt
  <2>2. CASE ks = <<c>> \o Tail(cs)
    <3> DEFINE ts == Tail(cs)
               us == <<c>> \o ts
    <3>1. /\ IsSeq(ts) /\ Len(ts) = Len(cs) - 1
          /\ \A d \in 1 .. Len(cs) - 1 : At(ts, d) = At(cs, d)
      BY <1>1, TailAt
    <3>2. us = ks
      BY <2>2
    <3> HIDE DEF ts
    <3>3. /\ IsSeq(us) /\ Len(us) = Len(ts) + 1 /\ At(us, Len(ts) + 1) = c
          /\ \A d \in 1 .. Len(ts) : At(us, d) = At(ts, d)
      BY <3>1, ConsAt
    <3> HIDE DEF us
    <3>4. Len(ts) + 1 = Len(cs)
      BY <1>1, <3>1
    <3> QED BY <3>1, <3>2, <3>3, <3>4
  <2> QED BY <2>1, <2>2 DEF NewTop
<1>5. ks[1] = c /\ c.at = cs[1].at
  BY <1>1, <1>4, TopAt DEF GoesOn
<1>6. SameCalls(cs, ks)
  BY <1>1, <1>2, <1>3, <1>4 DEF SameCalls, GoesOn
<1>7. SameInput(in, in)
  BY DEF SameInput, StackInv, InputOK
<1> QED BY <1>5, <1>6, <1>7, KeepStack

\* A token is read from the input on top.
LEMMA Read1Stack ==
    ASSUME NEW in, NEW cs, NEW hd, StackInv(in, cs, hd) PROVE StackInv(Read1(in), cs, hd)
<1> DEFINE fr == [in[1] EXCEPT !.rest = Tail(@)]
<1>1. FrameOK(in[1])
  BY StackFacts
<1>2. FrameOK(fr) /\ fr.type = in[1].type /\ fr.mac = in[1].mac /\ fr.hideset = in[1].hideset
  BY <1>1 DEF FrameOK
<1>3. Read1(in) = [in EXCEPT ![1] = fr]
  BY DEF Read1
<1> HIDE DEF fr
<1>4. StackInv([in EXCEPT ![1] = fr], cs, hd)
  BY <1>2, TopInput
<1> QED BY <1>3, <1>4

\* The line number is saved in the input that is left.
LEMMA LinenoStack ==
    ASSUME NEW in, NEW cs, NEW hd, NEW n, StackInv(in, cs, hd)
    PROVE  StackInv([in EXCEPT ![1].lineno = n], cs, hd)
<1> DEFINE fr == [in[1] EXCEPT !.lineno = n]
<1>1. FrameOK(in[1])
  BY StackFacts
<1>2. FrameOK(fr) /\ fr.type = in[1].type /\ fr.mac = in[1].mac /\ fr.hideset = in[1].hideset
  BY <1>1 DEF FrameOK
<1>3. [in EXCEPT ![1].lineno = n] = [in EXCEPT ![1] = fr]
  OBVIOUS
<1> HIDE DEF fr
<1>4. StackInv([in EXCEPT ![1] = fr], cs, hd)
  BY <1>2, TopInput
<1> QED BY <1>3, <1>4

\* A line is read from the file on top.
LEMMA AdvanceStack ==
    ASSUME NEW cs, NEW hd, NEW l, StackInv(input, cs, hd)
    PROVE  StackInv(Advance(l), cs, hd)
<1> DEFINE fr == [input[1] EXCEPT !.pos = @ + 1, !.rest = l]
<1>1. FrameOK(input[1])
  BY StackFacts
<1>2. FrameOK(fr) /\ fr.type = input[1].type /\ fr.mac = input[1].mac /\ fr.hideset = input[1].hideset
  BY <1>1 DEF FrameOK
<1>3. Advance(l) = [input EXCEPT ![1] = fr]
  BY DEF Advance
<1> HIDE DEF fr
<1>4. StackInv([input EXCEPT ![1] = fr], cs, hd)
  BY <1>2, TopInput
<1> QED BY <1>3, <1>4

\* A new input.
LEMMA FrameFacts ==
    ASSUME NEW type \in {"file", "macro", "param"}, NEW file, NEW rest, NEW mac
    PROVE  /\ FrameOK(Frame(type, file, rest, mac))
           /\ Frame(type, file, rest, mac).type = type
           /\ Frame(type, file, rest, mac).mac = mac
           /\ Frame(type, file, rest, mac).hideset = {}
  BY DEF Frame, FrameOK

\* Whoever waits for a token gets one.
LEMMA DeliverStack ==
    ASSUME NEW in, NEW cs, NEW hd, NEW t, StackInv(in, cs, hd),
           cs[1].at \in {"top", "param", "args"}, Deliver(cs, t)
    PROVE  StackInv(in, calls', hd) /\ calls'[1].at = cs[1].at
<1> DEFINE c == cs[1]
<1>1. CallOK(c)
  BY StackFacts
<1>2. CASE c.at = "top"
  <2>1. calls' = cs
    BY <1>2, Zenon DEF Deliver
  <2> QED BY <2>1
<1>3. ASSUME NEW k, GoesOn(k, c), calls' = [cs EXCEPT ![1] = k]
      PROVE  StackInv(in, calls', hd) /\ calls'[1].at = c.at
  <2>1. NewTop(calls', cs, k)
    BY <1>3 DEF NewTop, Top1
  <2>2. GoesOn(k, cs[1]) /\ StackInv(in, cs, hd)
    BY <1>3
  <2>3. StackInv(in, calls', hd) /\ calls'[1].at = cs[1].at
    BY <2>1, <2>2, TopCall
  <2> QED BY <2>3
<1>4. CASE c.at = "param"
  <2> DEFINE k == [c EXCEPT !.buf = Append(@, t)]
  <2>1. calls' = [cs EXCEPT ![1] = k]
    BY <1>4 DEF Deliver
  <2>2. GoesOn(k, c)
    BY <1>1, <1>4 DEF CallOK, Before, GoesOn
  <2> HIDE DEF k
  <2> QED BY <1>3, <2>1, <2>2
<1>7. CASE c.at = "args" /\ t = EndLine
  <2>0. t \notin {Comma, RP}
    BY <1>7 DEF EndLine, Comma, RP
  <2>1. calls' = cs
    BY <1>7, <2>0 DEF Deliver
  <2> QED BY <2>1
<1>5. CASE c.at = "args" /\ t # EndLine /\ c.depth = 0 /\ t \in {Comma, RP}
  <2> DEFINE k == [c EXCEPT !.args = Append(@, c.cur), !.cur = << >>, !.closed = (t = RP)]
  <2>1. calls' = [cs EXCEPT ![1] = k]
    BY <1>5 DEF Deliver
  <2>2. GoesOn(k, c)
    BY <1>1, <1>5 DEF CallOK, Before, GoesOn
  <2> HIDE DEF k
  <2> QED BY <1>3, <2>1, <2>2
<1>6. CASE c.at = "args" /\ t # EndLine /\ ~(c.depth = 0 /\ t \in {Comma, RP})
  <2> DEFINE e == CASE t = LP -> c.depth + 1 [] t = RP -> c.depth - 1 [] OTHER -> c.depth
             k == [c EXCEPT !.cur = Append(@, t), !.depth = e]
  <2>1. calls' = [cs EXCEPT ![1].cur = Append(@, t), ![1].depth = e]
    BY <1>6, Zenon DEF Deliver
  <2> HIDE DEF e
  <2>3. calls' = [cs EXCEPT ![1] = k]
    BY <2>1
  <2>2. GoesOn(k, c)
    BY <1>1, <1>6 DEF CallOK, Before, GoesOn
  <2> HIDE DEF k
  <2> QED BY <1>3, <2>2, <2>3
<1> QED BY <1>2, <1>4, <1>5, <1>6, <1>7
-----------------------------------------------------------------------------
(* The steps                                                               *)

\* An error changes nothing but the status.
LEMMA FailKeeps == ASSUME StacksOK, Fail PROVE StacksOK'
  BY DEF StacksOK, Fail, flags

\* A function that is no pragma() keeps its place.
LEMMA FlagKept ==
    ASSUME NEW cs, NEW ks, NEW dis, FlagOK(cs, dis), ks[1].at = cs[1].at, ks[1].at # "pragma"
    PROVE  FlagOK(ks, dis)
  BY DEF FlagOK

\* Whoever waits and can be given a token expands macros.
LEMMA ReaderOnTop ==
    ASSUME StacksOK, Wanted, ~InAhead, ~disexpand
    PROVE  Reads(calls[1])
<1>1. CallOK(calls[1])
  BY StackFacts DEF StacksOK
<1>2. calls[1].at \notin {"copy", "ahead", "empty", "args"} /\ ~(calls[1].at = "pragma" /\ calls[1].nl)
  BY DEF StacksOK, FlagOK, Wanted, InAhead
<1> QED BY <1>1, <1>2 DEF CallOK, Reads

\* A function that does not collect arguments is told of a directive.
LEMMA InterruptedStack ==
    ASSUME NEW in, NEW cs, NEW hd, StackInv(in, cs, hd),
           NEW ks, Top1(ks, cs, Interrupted(cs[1]))
    PROVE  StackInv(in, ks, hd) /\ ks[1].at = cs[1].at /\ ~(ks[1].at = "pragma" /\ ks[1].nl)
<1> DEFINE c == cs[1]
           k == Interrupted(c)
<1>0. NewTop(ks, cs, k)
  BY DEF NewTop
<1>1. CallOK(c)
  BY StackFacts
<1>2. CASE c.at = "ahead"
  <2>1. k = [c EXCEPT !.name = EndLine]
    BY <1>2, Zenon DEF Interrupted
  <2>2. GoesOn(k, c) /\ k.at # "pragma"
    BY <1>1, <1>2, <2>1 DEF CallOK, GoesOn
  <2> HIDE DEF k
  <2>4. StackInv(in, ks, hd) /\ ks[1] = k /\ ks[1].at = cs[1].at
    <3>1. GoesOn(k, cs[1]) /\ StackInv(in, cs, hd)
      BY <2>2
    <3> QED BY <1>0, <3>1, TopCall
  <2> QED BY <2>2, <2>4
<1>3. CASE c.at = "pragma"
  <2>1. k = [c EXCEPT !.nl = FALSE]
    BY <1>3, Zenon DEF Interrupted
  <2>2. GoesOn(k, c) /\ ~k.nl
    BY <1>1, <1>3, <2>1 DEF CallOK, Before, GoesOn
  <2> HIDE DEF k
  <2>3. StackInv(in, ks, hd) /\ ks[1] = k /\ ks[1].at = cs[1].at
    <3>1. GoesOn(k, cs[1]) /\ StackInv(in, cs, hd)
      BY <2>2
    <3> QED BY <1>0, <3>1, TopCall
  <2> QED BY <2>2, <2>3
<1>4. CASE c.at \notin {"ahead", "pragma"}
  <2>1. k = c
    BY <1>4, Zenon DEF Interrupted
  <2>3. GoesOn(k, c)
    BY <1>1, <1>4, <2>1 DEF GoesOn
  <2> HIDE DEF k
  <2>2. StackInv(in, ks, hd) /\ ks[1] = k
    <3>1. GoesOn(k, cs[1]) /\ StackInv(in, cs, hd)
      BY <2>3
    <3> QED BY <1>0, <3>1, TopCall
  <2> QED BY <1>4, <2>1, <2>2
<1> QED BY <1>2, <1>3, <1>4

\* #define and #undef change what the waiting functions find, and not who waits.
LEMMA FreeStack ==
    ASSUME NEW in, NEW cs, NEW hd, NEW x, StackInv(in, cs, hd)
    PROVE  StackInv(in, Free(cs, x), hd) /\ Free(cs, x)[1].at = cs[1].at
<1> DEFINE n == Len(cs)
           ks == Free(cs, x)
<1>1. /\ IsSeq(cs) /\ n \in Nat /\ n > 0 /\ cs[1] = At(cs, n)
      /\ \A d \in 1 .. n : CallOK(At(cs, d))
  BY StackFacts DEF StackInv, CallsOK
<1>2. /\ ks = [i \in 1 .. n |-> ks[i]]
      /\ \A i \in 1 .. n : ks[i] = IF cs[i].at \in {"ahead", "empty", "args"} /\ cs[i].mp = x
                                   THEN [cs[i] EXCEPT !.def = Freed] ELSE cs[i]
  BY DEF Free
<1> HIDE DEF ks
<1>3. IsSeq(ks) /\ Len(ks) = n
  BY <1>1, <1>2, MakeSeq
<1>4. ASSUME NEW d \in 1 .. n
      PROVE  /\ CallOK(At(ks, d)) /\ At(ks, d).at = At(cs, d).at
             /\ At(cs, d).at \in Before \cup {"copy"} => At(ks, d).mp = At(cs, d).mp
             /\ At(cs, d).at = "pragma" /\ At(ks, d).nl => At(cs, d).nl
  <2>1. n + 1 - d \in 1 .. n
    BY <1>1
  <2>2. At(ks, d) = IF At(cs, d).at \in {"ahead", "empty", "args"} /\ At(cs, d).mp = x
                    THEN [At(cs, d) EXCEPT !.def = Freed] ELSE At(cs, d)
    BY <1>2, <1>3, <2>1 DEF At
  <2>3. CallOK(At(cs, d))
    BY <1>1
  <2> QED BY <2>2, <2>3 DEF CallOK, Before
<1>5. SameCalls(cs, ks)
  BY <1>3, <1>4 DEF SameCalls
<1>6. SameInput(in, in)
  BY DEF SameInput, StackInv, InputOK
<1>7. StackInv(in, ks, hd)
  BY <1>5, <1>6, KeepStack
<1>8. ks[1] = At(ks, n) /\ n \in 1 .. n
  BY <1>1, <1>3, TopAt
<1> QED BY <1>1, <1>4, <1>7, <1>8 DEF ks

\* A directive that is not read among arguments, and calls nobody.
LEMMA ProcessedStack ==
    ASSUME NEW in, NEW cs, NEW hd, StackInv(in, cs, hd), cs[1].at = calls[1].at,
           Processed(cs, << >>), ~argdir'
    PROVE  StackInv(in, calls', hd) /\ FlagOK(calls', disexpand')
<1> DEFINE ks == [cs EXCEPT ![1] = Interrupted(@)]
<1>1. StackInv(in, ks, hd) /\ ks[1].at = cs[1].at /\ ~(ks[1].at = "pragma" /\ ks[1].nl)
  <2>1. Top1(ks, cs, Interrupted(cs[1]))
    BY DEF Top1
  <2> HIDE DEF ks
  <2> QED BY <2>1, InterruptedStack
<1>2. calls' = << >> \o ks /\ disexpand' = FALSE /\ ~Collecting
  BY DEF Processed
<1> HIDE DEF ks
<1>3. calls' = ks
  <2>1. ks \in Seq(Range(ks))
    BY <1>1 DEF StackInv, CallsOK, IsSeq
  <2> QED BY <1>2, <2>1
<1>4. cs[1].at \notin {"empty", "args"}
  BY <1>2 DEF Collecting
<1> QED BY <1>1, <1>2, <1>3, <1>4 DEF FlagOK

\* #pragma, which is read by a function that does not collect arguments.
LEMMA PragmaStack ==
    ASSUME NEW in, NEW hd, StackInv(in, calls, hd), calls[1].at # "copy",
           Processed(calls, <<[at |-> "pragma", nl |-> TRUE]>>), ~argdir'
    PROVE  StackInv(in, calls', hd) /\ FlagOK(calls', disexpand')
<1> DEFINE ks == [calls EXCEPT ![1] = Interrupted(@)]
           c == [at |-> "pragma", nl |-> TRUE]
<1>1. StackInv(in, ks, hd) /\ ks[1].at = calls[1].at /\ ~(ks[1].at = "pragma" /\ ks[1].nl)
  <2>1. Top1(ks, calls, Interrupted(calls[1]))
    BY DEF Top1
  <2> HIDE DEF ks
  <2> QED BY <2>1, InterruptedStack
<1>2. calls' = <<c>> \o ks /\ ~Collecting
  BY DEF Processed
<1>3. disexpand' = TRUE
  <2>1. <<c>> # << >>
    OBVIOUS
  <2> QED BY <2>1 DEF Processed
<1>4. CallOK(c) /\ c.at = "pragma" /\ c.nl
  BY DEF CallOK
<1> HIDE DEF ks, c
<1>5. Reads(ks[1]) \/ ks[1].at = "ahead"
  <2>1. CallOK(ks[1])
    BY <1>1, StackFacts
  <2>2. ks[1].at \notin {"copy", "empty", "args"}
    BY <1>1, <1>2 DEF Collecting
  <2> QED BY <1>1, <2>1, <2>2 DEF CallOK, Reads
<1>6. StackInv(in, <<c>> \o ks, hd)
  BY <1>1, <1>4, <1>5, PushPragma
<1>7. (<<c>> \o ks)[1] = c
  <2>1. IsSeq(ks)
    BY <1>1 DEF StackInv, CallsOK
  <2> QED BY <2>1, ConsAt
<1> QED BY <1>2, <1>3, <1>4, <1>6, <1>7 DEF FlagOK

\* A line is text, a directive, the beginning of an include file or an error.
LEMMA ReadLineStacks == ASSUME StacksOK, ReadLine, ~argdir' PROVE StacksOK'
<1>1. PICK l : readline(l)
  BY DEF ReadLine
<1>2. calls[1].at # "copy" /\ status = "run"
  BY DEF ReadLine, Wanted
<1>3. StackInv(input, calls, hide) /\ FlagOK(calls, disexpand)
  BY DEF StacksOK
<1>4. \A r : StackInv(Advance(r), calls, hide)
  BY <1>3, AdvanceStack
<1>5. CASE TextLine(l)
  <2>1. PICK r : input' = Advance(r) /\ hide' = hide
    BY <1>5 DEF TextLine
  <2>2. CASE UNCHANGED <<calls, disexpand>>
    BY <1>3, <1>4, <2>1, <2>2 DEF StacksOK
  <2>3. CASE calls[1].at = "pragma" /\ calls[1].nl /\ calls' = Tail(calls) /\ disexpand' = FALSE
    <3>1. StackInv(Advance(r), calls, hide)
      BY <1>4
    <3>2. /\ StackInv(Advance(r), Tail(calls), hide)
          /\ Reads(Tail(calls)[1]) \/ (calls[1].at = "pragma" /\ Tail(calls)[1].at = "ahead")
      BY <2>3, <3>1, PopCall
    <3> QED BY <2>1, <2>3, <3>2 DEF StacksOK, FlagOK, Reads
  <2> QED BY <1>5, <2>2, <2>3 DEF TextLine
<1>6. ASSUME NEW in, StackInv(in, calls, hide), input' = in, hide' = hide, Processed(calls, << >>)
      PROVE  StacksOK'
  <2>1. StackInv(in, calls', hide) /\ FlagOK(calls', disexpand')
    BY <1>6, ProcessedStack
  <2> QED BY <1>6, <2>1 DEF StacksOK
<1>7. CASE line(l)
  <2>1. Fail \/ (input' = Advance(<< >>) /\ hide' = hide /\ Processed(calls, << >>))
    BY <1>7 DEF line
  <2> QED BY <1>4, <1>6, <2>1, FailKeeps
<1>8. CASE include(l)
  <2>1. CASE input' = Advance(<< >>) /\ hide' = hide /\ Processed(calls, << >>)
    BY <1>4, <1>6, <2>1
  <2>2. CASE input' = addinput(Frame("file", l.x, << >>, << >>), Advance(<< >>), lineno + 1)
             /\ hide' = hide /\ Processed(calls, << >>)
    <3> DEFINE fr == Frame("file", l.x, << >>, << >>)
               jn == [Advance(<< >>) EXCEPT ![1].lineno = lineno + 1]
    <3>1. input' = <<fr>> \o jn
      BY <2>2 DEF addinput
    <3>2. StackInv(jn, calls, hide)
      BY <1>4, LinenoStack
    <3>3. FrameOK(fr) /\ fr.type = "file"
      BY FrameFacts
    <3> HIDE DEF fr, jn
    <3>4. StackInv(<<fr>> \o jn, calls, hide)
      BY <1>2, <3>2, <3>3, PushFile
    <3> QED BY <1>6, <2>2, <3>1, <3>4
  <2>3. CASE Fail
    BY <2>3, FailKeeps
  <2> QED BY <1>8, <2>1, <2>2, <2>3 DEF include
<1>9. CASE pragma(l)
  <2>1. input' = Advance(<< >>) /\ hide' = hide
    BY <1>9 DEF pragma
  <2>2. CASE Processed(calls, << >>)
    BY <1>4, <1>6, <2>1, <2>2
  <2>3. CASE Processed(calls, <<[at |-> "pragma", nl |-> TRUE]>>)
    <3>1. StackInv(Advance(<< >>), calls, hide)
      BY <1>4
    <3>2. StackInv(Advance(<< >>), calls', hide) /\ FlagOK(calls', disexpand')
      BY <1>2, <2>3, <3>1, PragmaStack
    <3> QED BY <2>1, <3>2 DEF StacksOK
  <2> QED BY <1>9, <2>2, <2>3 DEF pragma
<1>10. CASE Clause(l)
  <2>1. CASE status' # "error"
    <3>1. input' = Advance(<< >>) /\ hide' = hide
      BY <1>10, <2>1 DEF Clause
    <3>2. StackInv(Advance(<< >>), calls, hide)
      BY <1>4
    <3>3. CASE Processed(calls, << >>)
      BY <1>6, <3>1, <3>2, <3>3
    <3>4. CASE Processed(Free(calls, l.x), << >>)
      <4>1. StackInv(Advance(<< >>), Free(calls, l.x), hide) /\ Free(calls, l.x)[1].at = calls[1].at
        BY <3>2, FreeStack
      <4>2. StackInv(Advance(<< >>), calls', hide) /\ FlagOK(calls', disexpand')
        BY <3>4, <4>1, ProcessedStack
      <4> QED BY <3>1, <4>2 DEF StacksOK
    <3> QED BY <1>10, <2>1, <3>3, <3>4 DEF Clause
  <2>2. CASE status' = "error"
    <3>1. Directive(l)
      BY <1>10 DEF Clause
    <3>2. Fail \/ status' # "error"
      BY <1>2, <3>1 DEF Directive, cppif, elif, cppelse, endif, define, undef, usererr, null
    <3> QED BY <1>2, <2>2, <3>2, FailKeeps
  <2> QED BY <2>1, <2>2
<1> QED BY <1>1, <1>5, <1>7, <1>8, <1>9, <1>10 DEF readline

\* The end of a file.
LEMMA EndOfFileStacks == ASSUME StacksOK, EndOfFile PROVE StacksOK'
<1>1. StackInv(input, calls, hide) /\ calls[1].at # "copy"
  BY DEF StacksOK, EndOfFile, Wanted
<1>2. CASE Len(input) > 1
  <2>1. input' = Tail(input) /\ UNCHANGED <<hide, calls, disexpand>>
    BY <1>2 DEF EndOfFile, flags
  <2>2. StackInv(Tail(input), calls, hide)
    BY <1>1, <1>2, PopInput DEF EndOfFile, AtLineEnd
  <2> QED BY <2>1, <2>2 DEF StacksOK
<1>3. CASE ~(Len(input) > 1)
  <2>1. Fail \/ UNCHANGED <<input, hide, calls, disexpand>>
    BY <1>3, Zenon DEF EndOfFile, flags
  <2> QED BY <2>1, FailKeeps DEF StacksOK
<1> QED BY <1>2, <1>3

\* The end of an expansion.
LEMMA EndOfMacroStacks == ASSUME StacksOK, EndOfMacro PROVE StacksOK'
<1>1. StackInv(input, calls, hide) /\ calls[1].at # "copy"
  BY DEF StacksOK, EndOfMacro, Wanted
<1>2. StackInv(Tail(input), calls, hide \ input[1].hideset)
  BY <1>1, PopInput DEF EndOfMacro
<1> QED BY <1>2 DEF EndOfMacro, StacksOK, flags

\* next() returns a token, which only #pragma refuses.
LEMMA PassStacks ==
    ASSUME StacksOK, NEW in, NEW cs, NEW t, Pass(in, cs, t), StackInv(in, cs, hide),
           FlagOK(cs, disexpand), cs[1].at \notin {"copy", "ahead", "empty"}
    PROVE  StacksOK'
<1>1. CASE cs[1].at = "pragma"
  BY <1>1, FailKeeps DEF Pass
<1>2. CASE cs[1].at # "pragma"
  <2>1. Deliver(cs, t) /\ input' = in /\ hide' = hide /\ disexpand' = disexpand
    BY <1>2 DEF Pass, flags
  <2>2. CallOK(cs[1])
    BY StackFacts
  <2>3. cs[1].at \in {"top", "param", "args"}
    BY <1>2, <2>2 DEF CallOK
  <2>4. StackInv(in, calls', hide) /\ calls'[1].at = cs[1].at
    BY <2>1, <2>3, DeliverStack
  <2>5. FlagOK(calls', disexpand)
    BY <1>2, <2>4, FlagKept
  <2> QED BY <2>1, <2>4, <2>5 DEF StacksOK
<1> QED BY <1>1, <1>2

\* A token that is not expanded.
LEMMA TokenStacks == ASSUME StacksOK, Token PROVE StacksOK'
<1> DEFINE in == Read1(input)
           t == input[1].rest[1]
<1>1. StackInv(input, calls, hide) /\ FlagOK(calls, disexpand)
  BY DEF StacksOK
<1>2. StackInv(in, calls, hide)
  BY <1>1, Read1Stack
<1>3. Pass(in, calls, t) /\ calls[1].at \notin {"copy", "ahead", "empty"}
  BY DEF Token, Wanted, InAhead
<1> HIDE DEF in, t
<1> QED BY <1>1, <1>2, <1>3, PassStacks

\* copymacro() is called, for a name that is not hidden.
LEMMA BeginCopyStack ==
    ASSUME NEW in, NEW cs, NEW m, NEW def, NEW args, StackInv(in, cs, hide), Reads(cs[1]),
           m \notin hide, BeginCopy(in, cs, m, def, args)
    PROVE  StackInv(input', calls', hide) /\ calls'[1].at = "copy"
<1> DEFINE fr == Frame("macro", in[1].file, << >>, m)
           c == [at |-> "copy", mp |-> m, def |-> def, args |-> args, pos |-> 1,
                 buf |-> << >>, glue |-> FALSE]
           jn == [in EXCEPT ![1].lineno = lineno]
<1>1. input' = <<fr>> \o jn /\ calls' = <<c>> \o cs
  BY DEF BeginCopy, addinput
<1>2. StackInv(jn, cs, hide)
  BY LinenoStack
<1>3. FrameOK(fr) /\ fr.type = "macro" /\ fr.mac = m /\ fr.hideset = {}
  BY FrameFacts
<1>4. CallOK(c) /\ c.at = "copy" /\ c.mp = m
  BY DEF CallOK
<1> HIDE DEF fr, c, jn
<1>5. StackInv(<<fr>> \o jn, <<c>> \o cs, hide)
  BY <1>2, <1>3, <1>4, PushCopy
<1>6. (<<c>> \o cs)[1] = c
  <2>1. IsSeq(cs)
    BY StackFacts
  <2> QED BY <2>1, ConsAt
<1> QED BY <1>1, <1>4, <1>5, <1>6

\* The expansion of an object-like macro begins.
LEMMA ExpandObjectStacks == ASSUME StacksOK, ExpandObject PROVE StacksOK'
<1> DEFINE t == input[1].rest[1]
           def == macros[t].def
           in == Read1(input)
<1>1. StackInv(input, calls, hide)
  BY DEF StacksOK
<1>2. /\ t \notin hide /\ ~disexpand /\ BeginCopy(in, calls, t, def, << >>)
      /\ Wanted /\ ~InAhead /\ hide' = hide /\ disexpand' = disexpand
  BY DEF ExpandObject, Expandable, flags
<1>3. Reads(calls[1])
  BY <1>2, ReaderOnTop
<1>4. StackInv(in, calls, hide)
  BY <1>1, Read1Stack
<1> HIDE DEF t, def, in
<1>5. StackInv(input', calls', hide) /\ calls'[1].at = "copy"
  BY <1>2, <1>3, <1>4, BeginCopyStack
<1> QED BY <1>2, <1>5 DEF StacksOK, FlagOK

\* The name of a function-like macro.
LEMMA ExpandFunctionStacks == ASSUME StacksOK, ExpandFunction PROVE StacksOK'
<1> DEFINE t == input[1].rest[1]
           c == [at |-> "ahead", mp |-> t, npars |-> macros[t].npars,
                 def |-> macros[t].def, name |-> t]
           in == Read1(input)
<1>1. StackInv(input, calls, hide)
  BY DEF StacksOK
<1>2. /\ t \notin hide /\ ~disexpand /\ Wanted /\ ~InAhead
      /\ calls' = <<c>> \o calls /\ input' = in /\ hide' = hide /\ disexpand' = disexpand
  BY DEF ExpandFunction, Expandable, flags
<1>3. Reads(calls[1])
  BY <1>2, ReaderOnTop
<1>4. StackInv(in, calls, hide)
  BY <1>1, Read1Stack
<1>5. CallOK(c) /\ c.at = "ahead" /\ c.mp = t
  BY DEF CallOK
<1> HIDE DEF t, c, in
<1>6. StackInv(in, <<c>> \o calls, hide)
  BY <1>2, <1>3, <1>4, <1>5, PushCall DEF Before
<1>7. (<<c>> \o calls)[1] = c
  BY <1>1, StackFacts, ConsAt
<1> QED BY <1>2, <1>5, <1>6, <1>7 DEF StacksOK, FlagOK

\* parsepars() goes on with another part of itself.
LEMMA CallStack ==
    ASSUME NEW in, StackInv(in, calls, hide), calls[1].at \in Before,
           NEW p \in {"empty", "args"}, NEW closed, calls' = <<Call(calls[1], p, closed)>> \o Tail(calls)
    PROVE  StackInv(in, calls', hide) /\ calls'[1].at = p
<1> DEFINE c == Call(calls[1], p, closed)
           cs == Tail(calls)
<1>1. StackInv(in, cs, hide) /\ Reads(cs[1])
  BY PopCall DEF Before
<1>2. CallOK(c) /\ c.at = p /\ c.mp = calls[1].mp
  BY DEF Call, CallOK
<1>3. calls[1].mp \notin hide
  BY DEF StackInv, HiddenOK
<1>4. calls' = <<c>> \o cs
  OBVIOUS
<1> HIDE DEF c, cs
<1>5. c.at \in Before /\ c.mp \notin hide
  BY <1>2, <1>3 DEF Before
<1>6. StackInv(in, <<c>> \o cs, hide)
  BY <1>1, <1>2, <1>5, PushCall
<1>7. (<<c>> \o cs)[1] = c
  BY <1>1, StackFacts, ConsAt
<1> QED BY <1>2, <1>4, <1>6, <1>7

\* What follows the name of a function-like macro.
LEMMA AheadStacks == ASSUME StacksOK, Ahead PROVE StacksOK'
<1> DEFINE c == calls[1]
           in == Read1(input)
           p == IF c.npars = 0 THEN "empty" ELSE "args"
           cs == Tail(calls)
<1>1. StackInv(input, calls, hide) /\ FlagOK(calls, disexpand) /\ c.at = "ahead"
  BY DEF StacksOK, Ahead
<1>2. c.at \in Before
  BY <1>1 DEF Before
<1>3. CASE Pass(input, cs, c.name)
  <2>1. StackInv(input, cs, hide) /\ Reads(cs[1])
    BY <1>1, <1>2, PopCall
  <2>2. FlagOK(cs, disexpand) /\ cs[1].at \notin {"copy", "ahead", "empty"}
    BY <1>1, <2>1 DEF FlagOK, Reads
  <2> HIDE DEF cs, c
  <2> QED BY <1>3, <2>1, <2>2, PassStacks
<1>4. CASE /\ input' = in /\ calls' = <<Call(c, p, FALSE)>> \o cs
           /\ disexpand' = TRUE /\ hide' = hide
  <2>1. StackInv(in, calls, hide)
    BY <1>1, Read1Stack
  <2>2. p \in {"empty", "args"}
    OBVIOUS
  <2> HIDE DEF p, in
  <2>3. StackInv(in, calls', hide) /\ calls'[1].at = p
    BY <1>2, <1>4, <2>1, <2>2, CallStack
  <2> QED BY <1>4, <2>2, <2>3 DEF StacksOK, FlagOK
<1>5. Pass(input, cs, c.name) \/ (/\ input' = in /\ calls' = <<Call(c, p, FALSE)>> \o cs
                                  /\ disexpand' = TRUE /\ hide' = hide)
  BY Zenon DEF Ahead
<1> QED BY <1>3, <1>4, <1>5

\* What follows the "(" of a macro without parameters.
LEMMA AheadEmptyStacks == ASSUME StacksOK, AheadEmpty PROVE StacksOK'
<1>1. StackInv(input, calls, hide) /\ FlagOK(calls, disexpand) /\ calls[1].at = "empty"
  BY DEF StacksOK, AheadEmpty
<1>2. PICK closed : calls' = <<Call(calls[1], "args", closed)>> \o Tail(calls)
  BY DEF AheadEmpty
<1>3. PICK in \in {input, Read1(input)} : input' = in /\ hide' = hide /\ disexpand' = disexpand
  BY DEF AheadEmpty, flags
<1>4. StackInv(in, calls, hide)
  BY <1>1, <1>3, Read1Stack
<1>5. StackInv(in, calls', hide) /\ calls'[1].at = "args"
  <2>1. calls[1].at \in Before /\ "args" \in {"empty", "args"}
    BY <1>1 DEF Before
  <2> QED BY <1>2, <1>4, <2>1, CallStack
<1> QED BY <1>1, <1>3, <1>5 DEF StacksOK, FlagOK

\* The arguments of a macro have been read.
LEMMA ArgsReadStacks == ASSUME StacksOK, ArgsRead PROVE StacksOK'
<1> DEFINE c == calls[1]
           cs == Tail(calls)
<1>1. StackInv(input, calls, hide) /\ c.at = "args"
  BY DEF StacksOK, ArgsRead, Closed
<1>2. StackInv(input, cs, hide) /\ Reads(cs[1])
  BY <1>1, PopCall DEF Before
<1>3. c.mp \notin hide
  BY <1>1 DEF StackInv, HiddenOK, Before
<1>4. CASE Fail
  BY <1>4, FailKeeps
<1>5. CASE BeginCopy(input, cs, c.mp, c.def, c.args) /\ disexpand' = FALSE /\ hide' = hide
  <2>1. PICK m, def, args : BeginCopy(input, cs, m, def, args) /\ m = c.mp
    BY <1>5
  <2> HIDE DEF c, cs
  <2>2. StackInv(input', calls', hide) /\ calls'[1].at = "copy"
    BY <1>2, <1>3, <2>1, BeginCopyStack
  <2> QED BY <1>5, <2>2 DEF StacksOK, FlagOK
<1> QED BY <1>4, <1>5 DEF ArgsRead

\* The input ends before the arguments do.
LEMMA UnterminatedStacks == ASSUME StacksOK, Unterminated PROVE StacksOK'
  BY FailKeeps DEF Unterminated

\* An element of the body is copied, or an argument begins to be expanded.
LEMMA CopyItemStacks == ASSUME StacksOK, CopyItem PROVE StacksOK'
<1> DEFINE c == calls[1]
           i == c.def[c.pos]
           kept == UNCHANGED <<input, hide, disexpand>>
<1>1. StackInv(input, calls, hide) /\ FlagOK(calls, disexpand) /\ c.at = "copy"
  BY DEF StacksOK, CopyItem, Copying
<1>2. CallOK(c)
  BY <1>1, StackFacts
<1>3. CASE Fail
  BY <1>3, FailKeeps
<1>4. ASSUME NEW k, GoesOn(k, c), calls' = <<k>> \o Tail(calls), kept
      PROVE  StacksOK'
  <2>1. NewTop(calls', calls, k)
    BY <1>4 DEF NewTop
  <2>2. GoesOn(k, calls[1]) /\ StackInv(input, calls, hide)
    BY <1>1, <1>4
  <2>3. StackInv(input, calls', hide) /\ calls'[1].at = calls[1].at
    BY <2>1, <2>2, TopCall
  <2> QED BY <1>1, <1>4, <2>3 DEF StacksOK, FlagOK
<1>5. ASSUME NEW s, Copied(c, s) PROVE StacksOK'
  <2> DEFINE k == [c EXCEPT !.buf = Write(c, s), !.glue = FALSE, !.pos = @ + 1]
  <2>1. Fail \/ (calls' = <<k>> \o Tail(calls) /\ kept)
    BY <1>5 DEF Copied, flags
  <2>2. GoesOn(k, c)
    BY <1>1, <1>2 DEF CallOK, GoesOn
  <2> HIDE DEF k
  <2> QED BY <1>3, <1>4, <2>1, <2>2
<1>6. CASE calls' = <<[c EXCEPT !.glue = TRUE, !.pos = @ + 1]>> \o Tail(calls) /\ kept
  <2> DEFINE k == [c EXCEPT !.glue = TRUE, !.pos = @ + 1]
  <2>1. GoesOn(k, c)
    BY <1>1, <1>2 DEF CallOK, GoesOn
  <2> HIDE DEF k
  <2> QED BY <1>4, <1>6, <2>1 DEF k
<1>7. CASE /\ input' = addinput(Frame("param", input[1].file, c.args[i.n], << >>), input, lineno)
           /\ calls' = <<[at |-> "param", buf |-> << >>]>> \o calls
           /\ UNCHANGED <<hide, disexpand>>
  <2> DEFINE fr == Frame("param", input[1].file, c.args[i.n], << >>)
             k == [at |-> "param", buf |-> << >>]
             jn == [input EXCEPT ![1].lineno = lineno]
  <2>1. input' = <<fr>> \o jn /\ calls' = <<k>> \o calls
    BY <1>7 DEF addinput
  <2>2. StackInv(jn, calls, hide)
    BY <1>1, LinenoStack
  <2>3. FrameOK(fr) /\ fr.type = "param"
    BY FrameFacts
  <2>4. CallOK(k) /\ k.at = "param"
    BY DEF CallOK
  <2> HIDE DEF fr, k, jn
  <2>5. StackInv(<<fr>> \o jn, <<k>> \o calls, hide)
    BY <1>1, <2>2, <2>3, <2>4, PushParam
  <2>6. (<<k>> \o calls)[1] = k
    BY <1>1, StackFacts, ConsAt
  <2> QED BY <1>1, <1>7, <2>1, <2>4, <2>5, <2>6 DEF StacksOK, FlagOK
<1>8. CASE UNCHANGED <<input, hide, calls, disexpand>>
  BY <1>1, <1>8 DEF StacksOK
<1>9. \/ \E s : Copied(c, s)
      \/ calls' = <<[c EXCEPT !.glue = TRUE, !.pos = @ + 1]>> \o Tail(calls) /\ kept
      \/ UNCHANGED <<input, hide, calls, disexpand>>
      \/ /\ input' = addinput(Frame("param", input[1].file, c.args[i.n], << >>), input, lineno)
         /\ calls' = <<[at |-> "param", buf |-> << >>]>> \o calls
         /\ UNCHANGED <<hide, disexpand>>
  BY Zenon DEF CopyItem, flags
<1> QED BY <1>5, <1>6, <1>7, <1>8, <1>9

\* An argument has been expanded.
LEMMA EndOfParamStacks == ASSUME StacksOK, EndOfParam PROVE StacksOK'
<1> DEFINE c == calls[2]
           k == [c EXCEPT !.buf = Write(c, calls[1].buf), !.glue = FALSE, !.pos = @ + 1]
           cs == Tail(calls)
           in == Tail(input)
<1>1. /\ StackInv(input, calls, hide) /\ FlagOK(calls, disexpand)
      /\ calls[1].at = "param" /\ input[1].type = "param"
  BY DEF StacksOK, EndOfParam
<1>2. StackInv(in, cs, hide) /\ cs[1].at = "copy"
  BY <1>1, PopParam
<1>3. IsSeq(calls) /\ Len(calls) \in Nat /\ Len(calls) > 1 /\ cs[1] = c
  BY <1>1, CallOff, SeqFacts DEF StackInv, CallsOK
<1>4. CASE Fail
  BY <1>4, FailKeeps
<1>5. CASE /\ calls' = <<k>> \o SubSeq(calls, 3, Len(calls))
           /\ input' = in /\ UNCHANGED <<hide, disexpand>>
  <2>1. CallOK(c) /\ c.at = "copy"
    BY <1>2, <1>3, StackFacts
  <2>2. GoesOn(k, c)
    BY <2>1 DEF CallOK, GoesOn
  <2>3. SubSeq(calls, 3, Len(calls)) = Tail(cs)
    BY <1>3 DEF IsSeq
  <2> HIDE DEF k, cs, in
  <2>4. NewTop(calls', cs, k)
    BY <1>5, <2>3 DEF NewTop
  <2>5. StackInv(in, calls', hide) /\ calls'[1].at = cs[1].at
    <3>1. GoesOn(k, cs[1]) /\ StackInv(in, cs, hide)
      BY <1>2, <1>3, <2>2
    <3> QED BY <2>4, <3>1, TopCall
  <2> QED BY <1>1, <1>2, <1>5, <2>5 DEF StacksOK, FlagOK
<1> QED BY <1>4, <1>5 DEF EndOfParam, flags

\* An expansion is complete.
LEMMA CopyDoneStacks == ASSUME StacksOK, CopyDone PROVE StacksOK'
<1> DEFINE c == calls[1]
           in == addhideset(input, c.mp)
           jn == [in EXCEPT ![1].rest = c.buf]
           n == Len(input)
<1>1. StackInv(input, calls, hide) /\ FlagOK(calls, disexpand) /\ c.at = "copy"
  BY DEF StacksOK, CopyDone, Copying
<1>2. /\ IsSeq(input) /\ n \in Nat /\ n > 0 /\ input[1] = At(input, n) /\ FrameOK(input[1])
      /\ \A e \in 1 .. n : FrameOK(At(input, e))
  BY <1>1, StackFacts DEF StackInv, InputOK
<1>3. CASE Fail
  BY <1>3, FailKeeps
<1>4. CASE input' = jn /\ hide' = Hidden(in) /\ calls' = Tail(calls) /\ disexpand' = disexpand
  <2>1. /\ in = [i \in 1 .. n |-> in[i]]
        /\ \A i \in 1 .. n : in[i] = IF input[i].type = "macro"
                                     THEN [input[i] EXCEPT !.hideset = @ \cup {c.mp}] ELSE input[i]
    BY DEF addhideset
  <2> HIDE DEF in
  <2>2. IsSeq(in) /\ Len(in) = n
    BY <1>2, <2>1, MakeSeq
  <2>3. ASSUME NEW e \in 1 .. n
        PROVE  /\ FrameOK(At(in, e))
               /\ At(in, e).type = At(input, e).type /\ At(in, e).mac = At(input, e).mac
               /\ At(input, e).type = "macro" => At(in, e).hideset = At(input, e).hideset \cup {c.mp}
    <3>1. n + 1 - e \in 1 .. n
      BY <1>2
    <3>2. At(in, e) = IF At(input, e).type = "macro"
                      THEN [At(input, e) EXCEPT !.hideset = @ \cup {c.mp}] ELSE At(input, e)
      BY <2>1, <2>2, <3>1 DEF At
    <3>3. FrameOK(At(input, e))
      BY <1>2
    <3> QED BY <3>2, <3>3 DEF FrameOK
  <2> DEFINE fr == [in[1] EXCEPT !.rest = c.buf]
  <2>4. Top1(jn, in, fr)
    BY DEF Top1
  <2>5. in[1] = At(in, n) /\ n \in 1 .. n
    BY <1>2, <2>2, TopAt
  <2>6. FrameOK(fr) /\ fr.type = in[1].type /\ fr.mac = in[1].mac /\ fr.hideset = in[1].hideset
    BY <2>3, <2>5 DEF FrameOK
  <2> HIDE DEF fr, jn
  <2>7. /\ IsSeq(jn) /\ Len(jn) = n /\ At(jn, n) = fr
        /\ \A d \in 1 .. n - 1 : At(jn, d) = At(in, d)
    <3> HIDE DEF n
    <3>1. IsSeq(in) /\ Len(in) > 0
      BY <1>2, <2>2
    <3>2. /\ IsSeq(jn) /\ Len(jn) = Len(in) /\ At(jn, Len(in)) = fr
          /\ \A d \in 1 .. Len(in) - 1 : At(jn, d) = At(in, d)
      BY <2>4, <3>1, ExceptAt
    <3> QED BY <2>2, <3>2
  <2>8. \A d \in 1 .. n : d = n \/ d \in 1 .. n - 1
    BY <1>2
  <2>9. ASSUME NEW e \in 1 .. n
        PROVE  /\ FrameOK(At(jn, e))
               /\ At(jn, e).type = At(input, e).type /\ At(jn, e).mac = At(input, e).mac
               /\ At(input, e).type = "macro" => At(jn, e).hideset = At(input, e).hideset \cup {c.mp}
    BY <2>3, <2>5, <2>6, <2>7, <2>8
  <2>10. in[1].hideset = At(input, n).hideset \cup {c.mp}
    <3>1. input[1].type = "macro"
      BY <1>1 DEF StackInv, CopyOnTop
    <3> QED BY <1>2, <2>3, <2>5, <3>1
  <2>11. hide \cup {c.mp} \subseteq Hidden(in)
    BY <2>10 DEF Hidden
  <2>12. StackInv(jn, Tail(calls), Hidden(in))
    BY <1>1, <2>7, <2>9, <2>11, FinishCopy
  <2>13. Reads(Tail(calls)[1])
    BY <1>1, CallOff DEF StackInv
  <2>14. FlagOK(Tail(calls), disexpand)
    BY <1>1, <2>13 DEF FlagOK, Reads
  <2> QED BY <1>4, <2>12, <2>14 DEF StacksOK
<1> QED BY <1>3, <1>4 DEF CopyDone, flags

-----------------------------------------------------------------------------
(* The invariant                                                           *)

\* The conditional groups are changed by directives only.
LEMMA CondStep == ASSUME BoundAssumption, CondOK, Next PROVE CondOK'
<1>0. CASE UNCHANGED cond
  BY <1>0 DEF CondOK, cond, OffBelow
<1>1. CASE ReadLine
  <2>1. PICK l : readline(l)
    BY <1>1 DEF ReadLine
  <2>2. CASE Clause(l)
    BY <2>2, DirectiveCond DEF Clause
  <2>3. CASE TextLine(l) \/ include(l) \/ line(l) \/ pragma(l)
    BY <1>0, <2>3 DEF TextLine, include, line, pragma, Fail
  <2> QED BY <2>1, <2>2, <2>3 DEF readline
<1>2. CASE EndOfFile
  BY <1>0, <1>2 DEF EndOfFile, Fail
<1>3. CASE EndOfMacro \/ Token \/ ExpandObject \/ ExpandFunction
  BY <1>0, <1>3 DEF EndOfMacro, Token, Pass, Fail, ExpandObject, ExpandFunction
<1>4. CASE Ahead \/ AheadEmpty \/ ArgsRead \/ Unterminated
  BY <1>0, <1>4 DEF Ahead, Pass, Fail, AheadEmpty, ArgsRead, Unterminated
<1>5. CASE CopyItem
  BY <1>0, <1>5, Zenon DEF CopyItem, Copied, Fail
<1>6. CASE EndOfParam \/ CopyDone
  BY <1>0, <1>6 DEF EndOfParam, CopyDone, Fail
<1>7. CASE Ended1
  BY <1>0, <1>7 DEF Ended1, vars
<1> QED BY <1>1, <1>2, <1>3, <1>4, <1>5, <1>6, <1>7 DEF Next, Step

\* It is never forgotten that a directive has been read among arguments.
LEMMA Remembered == ASSUME argdir, Next PROVE argdir'
<1>0. CASE UNCHANGED argdir
  BY <1>0
<1>1. CASE ReadLine
  <2>1. PICK l : readline(l)
    BY <1>1 DEF ReadLine
  <2>2. CASE TextLine(l)
    BY <2>2 DEF TextLine
  <2>3. CASE Fail
    BY <2>3 DEF Fail, flags
  <2>4. ASSUME NEW cs, NEW more, Processed(cs, more) PROVE argdir'
    BY <2>4 DEF Processed
  <2>5. CASE include(l) \/ line(l) \/ pragma(l)
    BY <2>3, <2>4, <2>5 DEF include, line, pragma
  <2>6. CASE Clause(l)
    <3>1. CASE status' # "error"
      BY <2>4, <2>6, <3>1 DEF Clause
    <3>2. CASE status' = "error"
      <4>1. Directive(l) /\ status = "run"
        BY <1>1, <2>6 DEF Clause, ReadLine, Wanted
      <4>2. Fail \/ status' # "error"
        BY <4>1 DEF Directive, cppif, elif, cppelse, endif, define, undef, usererr, null
      <4> QED BY <2>3, <3>2, <4>1, <4>2
    <3> QED BY <3>1, <3>2
  <2> QED BY <2>1, <2>2, <2>5, <2>6 DEF readline
<1>2. CASE EndOfFile
  BY <1>2 DEF EndOfFile, Fail, flags
<1>3. CASE EndOfMacro \/ Token \/ ExpandObject \/ ExpandFunction
  BY <1>3 DEF EndOfMacro, Token, Pass, Fail, ExpandObject, ExpandFunction, flags
<1>4. CASE Ahead \/ AheadEmpty \/ ArgsRead \/ Unterminated
  BY <1>4 DEF Ahead, Pass, Fail, AheadEmpty, ArgsRead, Unterminated, flags
<1>5. CASE CopyItem
  BY <1>0, <1>5, Zenon DEF CopyItem, Copied, Fail, flags
<1>6. CASE EndOfParam \/ CopyDone
  BY <1>6 DEF EndOfParam, CopyDone, Fail, flags
<1>7. CASE Ended1
  BY <1>7 DEF Ended1, vars, flags
<1> QED BY <1>1, <1>2, <1>3, <1>4, <1>5, <1>6, <1>7 DEF Next, Step
-----------------------------------------------------------------------------
(* The theorems                                                            *)

\* The invariant holds at the start.
LEMMA InitInv == ASSUME BoundAssumption, Init PROVE Inv
<1>1. cppctx \in 0 .. NR_COND - 1 /\ OffBelow(cppctx, ifstate) = {}
  BY BoundAssumption DEF Init, BoundAssumption, OffBelow
<1>2. CondOK
  BY <1>1, FS_EmptySet DEF CondOK, Init
<1> DEFINE fr == Frame("file", Main, << >>, << >>)
<1>3. FrameOK(fr) /\ fr.type = "file"
  BY FrameFacts
<1>4. input = <<fr>> /\ calls = <<Top>> /\ hide = {}
  BY DEF Init
<1>5. Top.at = "top" /\ CallOK(Top)
  BY DEF Top, CallOK
<1> HIDE DEF fr
<1>6. /\ IsSeq(<<fr>>) /\ Len(<<fr>>) = 1 /\ <<fr>>[1] = fr /\ At(<<fr>>, 1) = fr
      /\ IsSeq(<<Top>>) /\ Len(<<Top>>) = 1 /\ <<Top>>[1] = Top /\ At(<<Top>>, 1) = Top
  <2>1. ASSUME NEW a PROVE IsSeq(<<a>>) /\ Len(<<a>>) = 1 /\ <<a>>[1] = a /\ At(<<a>>, 1) = a
    <3>1. Len(<<a>>) = 1 /\ <<a>>[1] = a /\ DOMAIN <<a>> = {1}
      OBVIOUS
    <3>2. <<a>> \in Seq({a}) /\ Range(<<a>>) = {a}
      BY <3>1 DEF Range
    <3>3. Len(<<a>>) + 1 - 1 = 1
      BY <3>1
    <3> QED BY <3>1, <3>2, <3>3 DEF IsSeq, At
  <2> QED BY <2>1
<1>7. 1 .. 1 = {1} /\ 2 .. 1 = {}
  OBVIOUS
<1>8. InputOK(<<fr>>) /\ CallsOK(<<Top>>)
  BY <1>3, <1>5, <1>6, <1>7 DEF InputOK, CallsOK
<1>9. Matched(<<fr>>, <<Top>>)
  <2>1. ParamCalls(<<Top>>) = {}
    BY <1>5, <1>6, <1>7 DEF ParamCalls
  <2> DEFINE f == [d \in {} |-> 1]
  <2>2. f \in [ParamCalls(<<Top>>) -> 1 .. Len(<<fr>>)]
    BY <2>1
  <2>3. Matches(f, <<fr>>, <<Top>>)
    BY <1>3, <1>6, <1>7, <2>1 DEF Matches
  <2> QED BY <2>2, <2>3 DEF Matched
<1>10. CopyOnTop(<<fr>>, <<Top>>) /\ HiddenOK(<<fr>>, <<Top>>, {})
  BY <1>3, <1>5, <1>6, <1>7 DEF CopyOnTop, HiddenOK, Done, Before
<1>11. FlagOK(<<Top>>, FALSE) /\ disexpand = FALSE
  BY <1>5, <1>6 DEF FlagOK, Init
<1> QED BY <1>2, <1>4, <1>8, <1>9, <1>10, <1>11 DEF Inv, StacksOK, StackInv

\* Every step keeps the invariant.
LEMMA NextInv == ASSUME BoundAssumption, Inv, [Next]_vars PROVE Inv'
<1>1. CASE UNCHANGED vars
  BY <1>1 DEF Inv, vars, cond, flags, CondOK, OffBelow, StacksOK
<1>2. CASE Next
  <2>1. CondOK'
    BY <1>2, CondStep DEF Inv
  <2>2. ASSUME ~argdir' PROVE StacksOK'
    <3>1. StacksOK
      BY <1>2, <2>2, Remembered DEF Inv
    <3>2. CASE Ended1
      BY <3>1, <3>2 DEF Ended1, vars, flags, StacksOK
    <3> QED
      BY <1>2, <2>2, <3>1, <3>2, ReadLineStacks, EndOfFileStacks, EndOfMacroStacks, TokenStacks,
         ExpandObjectStacks, ExpandFunctionStacks, AheadStacks, AheadEmptyStacks, ArgsReadStacks,
         UnterminatedStacks, CopyItemStacks, EndOfParamStacks, CopyDoneStacks
         DEF Next, Step
  <2> QED BY <2>1, <2>2 DEF Inv
<1> QED BY <1>1, <1>2

\* Whatever is read and from whatever files, Inv holds.
LEMMA Invariance == Spec => []Inv
<1>1. Init => Inv
  BY InitInv, BoundAssumption
<1>2. Inv /\ [Next]_vars => Inv'
  BY NextInv, BoundAssumption
<1> QED BY <1>1, <1>2, PTL DEF Spec

\* cppoff, which decides whether a line is compiled, is the number of open
\* groups that are disabled, for every nesting of conditionals that ifclause(),
\* elseclause() and endif() can build and wherever an error stops them.
THEOREM OffCounted == Spec => []OffCounts
<1>1. Inv => OffCounts
  BY DEF Inv, CondOK, OffCounts, Off, OffBelow
<1> QED BY <1>1, Invariance, PTL

\* While the expansion of a macro is read its name is not expanded again, for
\* every set of macros, arguments that are macros, and directives between them:
\* the hide flags set by copymacro() outlive every expansion that is nested.  A
\* directive among the arguments of a macro ends that, because cpp() then clears
\* disexpand.
THEOREM NotReentered == Spec => []NoReentry
<1>1. ASSUME Inv, ~argdir PROVE NoReentry
  <2> DEFINE n == Len(input)
  <2>1. StackInv(input, calls, hide)
    BY <1>1 DEF Inv, StacksOK
  <2>2. n \in Nat /\ IsSeq(input)
    BY <2>1, StackFacts
  <2>3. SUFFICES ASSUME NEW i \in 1 .. n, NEW j \in 1 .. n, i < j, input[i].type = "macro",
                        input[j].type = "macro", input[i].mac = input[j].mac
                 PROVE  \E k \in i + 1 .. j - 1 : input[k].type = "param"
    BY DEF NoReentry
  <2> DEFINE d == n + 1 - i
             e == n + 1 - j
  <2>4. /\ d \in 1 .. n /\ e \in 1 .. n /\ d \in e + 1 .. n /\ e # n /\ e + 1 \in 1 .. n
        /\ n + 1 - d = i /\ n + 1 - e = j /\ n + 1 - (e + 1) = j - 1 /\ j - 1 \in i .. j - 1
    <3>1. n \in Nat /\ i \in 1 .. n /\ j \in 1 .. n /\ i < j
      BY <2>2, <2>3
    <3> HIDE DEF n
    <3> QED BY <3>1
  <2>5. At(input, d) = input[i] /\ At(input, e) = input[j] /\ At(input, e + 1) = input[j - 1]
    <3> HIDE DEF d, e
    <3> QED BY <2>4 DEF At
  <2> HIDE DEF d, e, n
  <2>6. ~Done(e, input, calls)
    <3>1. At(input, d).type = "macro" /\ At(input, e).mac = At(input, d).mac
      BY <2>3, <2>5
    <3> QED BY <2>1, <2>4, <3>1 DEF StackInv, HiddenOK, n
  <2>7. input[j - 1].type = "param"
    BY <2>3, <2>4, <2>5, <2>6 DEF Done, n
  <2>8. j - 1 # i
    BY <2>3, <2>7
  <2>9. j - 1 \in i + 1 .. j - 1
    BY <2>3, <2>8
  <2> QED BY <2>7, <2>9
<1>2. Inv => NoReentry
  BY <1>1 DEF NoReentry
<1> QED BY <1>2, Invariance, PTL
============================================================================
