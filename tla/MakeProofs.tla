----------------------------- MODULE MakeProofs -----------------------------
(***************************************************************************)
(* Proofs about Make, for every set of makefiles, with or without cycles   *)
(* in their graphs, every command line and every age of the files: what    *)
(* rebuild() leaves behind when it returned, what the exit status says,    *)
(* and what a signal may leave on the disk.                                *)
(***************************************************************************)
EXTENDS Make, SequenceTheorems, WellFoundedInduction, TLAPS

-----------------------------------------------------------------------------
(* The inductive invariant, in parts.                                      *)

Running == pc \in {"run", "child", "failed"}
Busy == pc = "loop" \/ Running
Failed == \E j \in DOMAIN log : ~log[j].ok

\* What the makefile gave.
TreeOK ==
    /\ mk \in Makefiles /\ nrule \in 0 .. Len(mk.rules)
    /\ deps \in [Target -> Seq(Target)] /\ actions \in [Target -> Seq({"plain", "minus", "plus"})]
    /\ defined \subseteq Target /\ deftarget \in Target \cup {None}
    /\ \A t \in Target \ defined : deps[t] = << >> /\ actions[t] = << >>

\* The activation records of rebuild() are a path in the graph, and one that is
\* entered again inside itself has not got further than the outer one.
FramesOK ==
    /\ pc \in {"parse", "main", "loop", "run", "child", "failed", "exited"}
    /\ stack \in Seq(Frame)
    /\ Busy => stack # << >>
    /\ pc \in {"parse", "main"} => stack = << >>
    /\ \A j \in 1 .. Len(stack) - 1 :
          stack[j].p <= Len(deps[stack[j].tp]) /\ stack[j + 1].tp = deps[stack[j].tp][stack[j].p]
    /\ \A j \in 1 .. Len(stack) :
          /\ stack[j].p <= Len(deps[stack[j].tp]) + 1
          /\ stack[j].p = 1 => ~stack[j].need /\ ~stack[j].err
    /\ \A i, j \in 1 .. Len(stack) : i < j /\ stack[i].tp = stack[j].tp => stack[j].p <= stack[i].p
    /\ Running => AtEnd /\ ~top.err /\ Need

GoalsOK ==
    /\ goal \in Nat \ {0}
    /\ Busy => goal <= Len(Goals) /\ stack[1].tp = Goals[goal]

TimesOK ==
    /\ mtime \in [Target -> -1 .. MaxTime] /\ stamp \in [Target -> -1 .. MaxTime]
    /\ clock \in MaxTime - 1 .. MaxTime /\ \A t \in Target : mtime[t] <= clock
    /\ pc = "loop" /\ (top.p = 1 \/ ~fl.t) => stamp[tp] = mtime[tp]
    /\ Busy /\ ~fl.t => \A j \in 1 .. Len(stack) - 1 : stamp[stack[j].tp] = mtime[stack[j].tp]

\* The commands of the top frame: the lines of its recipe, which make its file
\* or, when they are .DEFAULT's, no file that is known.
CmdsOK ==
    /\ \E C : cmds \in Seq(C)
    /\ pc \notin {"run", "child"} => cmds = << >>
    /\ pc = "child" => cmds # << >> /\ ~Skipped(Head(cmds))
    /\ pc \in {"run", "child"} =>
          \E f \in {tp, None} :
              /\ f = None => actions[tp] = << >> /\ mk.default
              /\ \A j \in 1 .. Len(cmds) :
                    /\ cmds[j].op = "touch" => fl.t
                    /\ cmds[j].op # "touch" => /\ cmds[j].op = "line" /\ cmds[j].file = f
                                               /\ f = tp /\ cmds[j].ignore => Lax(tp)

ExitOK ==
    /\ log \in Seq([t : Target, ok : BOOLEAN])
    /\ exitstatus \in {0, 1}
    /\ Failed => exitstatus = 1 \/ pc \in {"failed", "exited"}
    /\ pc = "failed" => Failed
    /\ exitstatus = 1 => Failed \/ fl.q
    /\ \A j \in 1 .. Len(stack) : stack[j].err => exitstatus = 1
    /\ \A j \in 1 .. Len(stack) : stack[j].tp \in Reach(Range(Goals))
    /\ pc # "exited" <=> status = "running"
    /\ ExitHonest

\* A line of the recipe of h is still to be executed.
Pending(h) == \E j \in 1 .. Len(cmds) : cmds[j].op = "line" /\ ~Skipped(cmds[j]) /\ cmds[j].file = h

\* After a signal: the file of the recipe that ran is whole, or it is still being made.
HitOK ==
    /\ hit # {} => stop
    /\ partial \subseteq Target \ mk.phony /\ (pc = "parse" => partial = {})
    /\ \A h \in hit \cap partial :
          \/ Lax(h)
          \/ pc \in {"run", "child"} /\ tp = h /\ Pending(h)
          \/ pc = "failed" /\ tp = h
          \/ pc = "exited" /\ h \in mk.precious

-----------------------------------------------------------------------------
\* Nothing that had to be done was left out so far.
Real == ~fl.n /\ ~fl.t /\ (fl.q => exitstatus = 0)
\* The steady targets below t.
Base(t) == {s \in Reach({t}) : Steady(s)}
\* t was not written in this run, or not to the end.
Untouched(t) == mtime[t] <= MaxTime - 2 \/ t \in partial

\* The targets of U are done with: they will not be remade in this run.
Settled(U) ==
    \A u \in U : /\ Steady(u) /\ mtime[u] # -1
                 /\ \A d \in Range(deps[u]) : d \in U /\ mtime[d] <= mtime[u]
                 /\ FailedLast(u) => u \in partial
                 /\ Remakings(u) # {} => mtime[u] >= MaxTime - 1
                 /\ ~Failed => \A d \in Range(deps[u]) : \A j \in Remakings(d) : \E l \in Remakings(u) : j < l

\* The other steady targets.
Others(U) ==
    \A t \in Target : Steady(t) /\ t \notin U =>
        /\ Remakings(t) = {}
        /\ \/ Untouched(t)
           \/ pc = "run" /\ t = tp /\ \A j \in 1 .. Len(cmds) : Skipped(cmds[j])

\* Only a failure cuts the recipe of a steady target short.
Cut == ~Failed => \A t \in Target : Steady(t) /\ t \in partial => pc \in {"run", "child"} /\ t = tp

\* What a failed target left to do.
Stale(U) ==
    \A t \in Target : Steady(t) /\ t \notin U /\ FailedLast(t) /\ t \notin partial =>
        \/ mtime[t] = -1 \/ \E d \in Range(deps[t]) : mtime[d] > mtime[t]
        \/ pc \in {"run", "child"} /\ t = tp

FrameDone(U, f) ==
    /\ ~f.err => \A k \in 1 .. f.p - 1 : Base(deps[f.tp][k]) \subseteq U
    /\ f.tp \in U => ~f.need /\ ~f.err
    /\ Steady(f.tp) /\ ~f.err /\ ~f.need => \A k \in 1 .. f.p - 1 : mtime[deps[f.tp][k]] <= mtime[f.tp]
    /\ Steady(f.tp) /\ ~f.err /\ f.need =>
          \/ mtime[f.tp] >= MaxTime - 1
          \/ \E k \in 1 .. f.p - 1 : mtime[deps[f.tp][k]] > mtime[f.tp]

RunningDone(U) ==
    /\ Running => tp \notin U /\ (stamp[tp] = mtime[tp] \/ mtime[tp] >= MaxTime - 1)
    /\ pc = "run" /\ cmds = << >> /\ Steady(tp) =>
          /\ mtime[tp] >= MaxTime - 1 /\ tp \notin partial
          /\ \A d \in Range(deps[tp]) : mtime[d] <= mtime[tp]

GoalsDone(U) == exitstatus = 0 => \A g \in 1 .. goal - 1 : Base(Goals[g]) \subseteq U

FramesDone(U) == \A j \in 1 .. Len(stack) : FrameDone(U, stack[j])
Once == \A t \in Target : Steady(t) => \A i, j \in Remakings(t) : i = j

DoneWith(U) ==
    Settled(U) /\ Others(U) /\ Cut /\ Stale(U) /\ RunningDone(U) /\ GoalsDone(U) /\ Once /\ FramesDone(U)

\* Nothing was done yet.
ParseOK == pc = "parse" => log = << >> /\ goal = 1 /\ \A t \in Target : mtime[t] <= MaxTime - 2
DoneOK == pc \notin {"parse", "exited"} /\ Real => \E U \in SUBSET Target : DoneWith(U)

Core == TreeOK /\ FramesOK /\ GoalsOK /\ TimesOK /\ CmdsOK

-----------------------------------------------------------------------------
(* Sequences.                                                              *)

LEMMA AppendFacts ==
    ASSUME NEW T, NEW L \in Seq(T), NEW a \in T
    PROVE  /\ Append(L, a) \in Seq(T) /\ Len(Append(L, a)) = Len(L) + 1 /\ Len(L) \in Nat
           /\ Append(L, a)[Len(L) + 1] = a /\ \A j \in 1 .. Len(L) : Append(L, a)[j] = L[j]
           /\ Range(Append(L, a)) = Range(L) \cup {a}
<1>1. /\ Append(L, a) \in Seq(T) /\ Len(Append(L, a)) = Len(L) + 1 /\ Len(L) \in Nat
      /\ Append(L, a)[Len(L) + 1] = a /\ \A j \in 1 .. Len(L) : Append(L, a)[j] = L[j]
  BY AppendProperties, LenProperties
<1> DEFINE M == Append(L, a)
<1>2. DOMAIN M = 1 .. Len(L) + 1 /\ DOMAIN L = 1 .. Len(L)
  BY <1>1, LenProperties
<1> HIDE DEF M
<1>3. \A j \in DOMAIN M : j = Len(L) + 1 \/ j \in DOMAIN L
  BY <1>1, <1>2
<1>4. \A j \in DOMAIN L : j \in DOMAIN M /\ M[j] = L[j]
  BY <1>1, <1>2 DEF M
<1>5. Len(L) + 1 \in DOMAIN M /\ M[Len(L) + 1] = a
  BY <1>1, <1>2 DEF M
<1>6. Range(M) = Range(L) \cup {a}
  BY <1>3, <1>4, <1>5 DEF Range
<1> QED BY <1>1, <1>6 DEF M

LEMMA TailFacts ==
    ASSUME NEW T, NEW L \in Seq(T), L # << >>
    PROVE  /\ Tail(L) \in Seq(T) /\ Len(L) \in Nat /\ Len(L) >= 1 /\ Len(Tail(L)) = Len(L) - 1
           /\ Head(L) = L[1] /\ \A j \in 1 .. Len(L) - 1 : Tail(L)[j] = L[j + 1]
  BY HeadTailProperties, LenProperties, EmptySeq
LEMMA Least == ASSUME NEW S, S \subseteq Nat, S # {} PROVE \E x \in S : \A y \in S : x <= y
<1> DEFINE R == OpToRel(<, Nat)
<1>1. IsWellFoundedOn(R, Nat)
  BY NatLessThanWellFounded
<1>2. \A x, y \in Nat : <<y, x>> \in R <=> y < x
  BY DEF OpToRel
<1> HIDE DEF R
<1>3. PICK x \in S : \A y \in S : ~(<<y, x>> \in R)
  BY <1>1, WFMin
<1>4. ASSUME NEW y \in S PROVE x <= y
  <2>1. x \in Nat /\ y \in Nat /\ ~(<<y, x>> \in R)
    BY <1>3
  <2>2. ~(y < x)
    BY <1>2, <2>1
  <2> QED BY <2>1, <2>2
<1> QED BY <1>4

\* Induction up to n, for a property that is given as a set.
LEMMA Induction ==
    ASSUME NEW S, NEW n \in Nat, 0 \in S, \A m \in 0 .. n - 1 : m \in S => m + 1 \in S
    PROVE  0 .. n \subseteq S
<1> DEFINE B == {m \in 0 .. n : m \notin S}
<1> SUFFICES ASSUME B # {} PROVE FALSE
  OBVIOUS
<1>1. B \subseteq Nat
  OBVIOUS
<1>2. PICK m \in B : \A y \in B : m <= y
  <2> HIDE DEF B
  <2> QED BY <1>1, Least
<1>3. m # 0 /\ m - 1 \in 0 .. n - 1 /\ m - 1 \in S
  BY <1>2
<1> QED BY <1>2, <1>3

-----------------------------------------------------------------------------
(* Reading the makefile.                                                   *)

LEMMA AddDep ==
    ASSUME NEW ds \in [Target -> Seq(Target)], NEW t \in Target, NEW d \in Target
    PROVE  /\ adddep(ds, t, d) \in [Target -> Seq(Target)]
           /\ \A u \in Target \ {t} : adddep(ds, t, d)[u] = ds[u]
<1>1. Append(ds[t], d) \in Seq(Target)
  BY AppendFacts
<1> QED BY <1>1 DEF adddep

\* All the prerequisites of a rule: only the list of its target changes.
LEMMA AddDeps ==
    ASSUME NEW r, r.target \in Target, r.deps \in Seq(Target), deps \in [Target -> Seq(Target)]
    PROVE  /\ adddeps(r) \in [Target -> Seq(Target)]
           /\ \A u \in Target \ {r.target} : adddeps(r)[u] = deps[u]
<1> DEFINE N == Len(r.deps)
           S(x, n) == adddep(x, r.target, r.deps[n])
           DS == {d \in [Target -> Seq(Target)] : \A u \in Target \ {r.target} : d[u] = deps[u]}
           P(g, m) == /\ g = [x \in 0 .. m |-> g[x]] /\ g[0] = deps
                      /\ \A n \in 1 .. m : g[n] = S(g[n - 1], n)
                      /\ g[m] \in DS
           R == {m \in 0 .. N : \E g : P(g, m)}
<1>1. N \in Nat /\ \A n \in 1 .. N : r.deps[n] \in Target
  BY LenProperties, ElementOfSeq
<1>2. ASSUME NEW ds \in DS, NEW n \in 1 .. N PROVE S(ds, n) \in DS
  <2>1. r.deps[n] \in Target /\ ds \in [Target -> Seq(Target)]
    BY <1>1
  <2>2. /\ S(ds, n) \in [Target -> Seq(Target)]
        /\ \A u \in Target \ {r.target} : S(ds, n)[u] = ds[u]
    BY <2>1, AddDep
  <2> HIDE DEF S
  <2> QED BY <2>2
<1>3. deps \in DS
  OBVIOUS
<1> HIDE DEF N, S, DS
<1>4. 0 \in R
  <2> DEFINE g == [x \in 0 .. 0 |-> deps]
  <2>1. 0 \in 0 .. N /\ 0 \in 0 .. 0
    BY <1>1
  <2>2. g[0] = deps /\ g = [x \in 0 .. 0 |-> g[x]]
    OBVIOUS
  <2>3. P(g, 0)
    BY <1>3, <2>2
  <2> HIDE DEF P
  <2> QED BY <2>1, <2>3
<1>5. ASSUME NEW m \in 0 .. N - 1, m \in R PROVE m + 1 \in R
  <2>1. PICK g : P(g, m)
    BY <1>5
  <2> DEFINE w == S(g[m], m + 1)
             f == [x \in 0 .. m + 1 |-> IF x = m + 1 THEN w ELSE g[x]]
  <2>2. m \in Nat /\ m + 1 \in 0 .. N /\ m + 1 \in 1 .. N /\ m + 1 \in 0 .. m + 1 /\ 0 \in 0 .. m + 1 /\ 0 # m + 1
    BY <1>1
  <2>3. \A x \in 0 .. m : x \in 0 .. m + 1 /\ x # m + 1
    BY <2>2
  <2>4. w \in DS
    BY <1>2, <2>1, <2>2
  <2> HIDE DEF w
  <2>5. f[m + 1] = w /\ f[0] = g[0] /\ \A x \in 0 .. m : f[x] = g[x]
    BY <2>2, <2>3
  <2>6. f = [x \in 0 .. m + 1 |-> f[x]]
    OBVIOUS
  <2> HIDE DEF f
  <2>7. ASSUME NEW n \in 1 .. m + 1 PROVE f[n] = S(f[n - 1], n)
    <3>1. CASE n = m + 1
      <4>1. n - 1 = m /\ m \in 0 .. m
        BY <2>2, <3>1
      <4> QED BY <2>5, <3>1, <4>1 DEF w
    <3>2. CASE n # m + 1
      <4>1. n \in 1 .. m /\ n \in 0 .. m /\ n - 1 \in 0 .. m
        BY <2>2, <3>2
      <4> QED BY <2>1, <2>5, <4>1
    <3> QED BY <3>1, <3>2
  <2>8. P(f, m + 1)
    BY <2>1, <2>4, <2>5, <2>6, <2>7
  <2> HIDE DEF P
  <2> QED BY <2>2, <2>8
<1>6. N \in R
  <2> HIDE DEF R
  <2>1. 0 .. N \subseteq R
    BY <1>1, <1>4, <1>5, Induction
  <2> QED BY <1>1, <2>1
<1>7. PICK g : P(g, N)
  BY <1>6
<1> DEFINE F(h) == [n \in 0 .. N |-> IF n = 0 THEN deps ELSE S(h[n - 1], n)]
           st == CHOOSE h : h = F(h)
<1>8. adddeps(r) = st[N]
  BY DEF adddeps, N, S
<1>9. g = F(g)
  <2>1. \A n \in 0 .. N : n # 0 => n \in 1 .. N
    BY <1>1
  <2>2. \A n \in 0 .. N : g[n] = IF n = 0 THEN deps ELSE S(g[n - 1], n)
    BY <1>7, <2>1
  <2> QED BY <1>7, <2>2
<1>10. st = F(st)
  <2> HIDE DEF F
  <2> QED BY <1>9
<1> HIDE DEF st
<1> DEFINE Q == {n \in 0 .. N : st[n] \in DS}
<1>11. 0 \in Q
  BY <1>1, <1>3, <1>10
<1>12. \A m \in 0 .. N - 1 : m \in Q => m + 1 \in Q
  <2> TAKE m \in 0 .. N - 1
  <2> HAVE m \in Q
  <2>1. m + 1 \in 0 .. N /\ m + 1 \in 1 .. N /\ m + 1 # 0 /\ (m + 1) - 1 = m
    BY <1>1
  <2>2. st[m + 1] = S(st[m], m + 1)
    BY <1>10, <2>1
  <2> QED BY <1>2, <2>1, <2>2
<1>13. st[N] \in DS
  <2> HIDE DEF Q
  <2>1. 0 .. N \subseteq Q
    BY <1>1, <1>11, <1>12, Induction
  <2> QED BY <1>1, <2>1 DEF Q
<1> QED BY <1>8, <1>13 DEF DS
-----------------------------------------------------------------------------
(* The frames of rebuild().                                                *)

TreeSame == UNCHANGED <<mk, tree>>

\* rebuild(t) begins.
Entered(t) ==
    /\ Len(stack') = Len(stack) + 1 /\ stack' \in Seq(Frame)
    /\ \A j \in 1 .. Len(stack) : stack'[j] = stack[j]
    /\ LET f == stack'[Len(stack) + 1] IN f.tp = t /\ f.p = 1 /\ ~f.err /\ ~f.need
    /\ stamp' = [stamp EXCEPT ![t] = mtime[t]]

\* rebuild() returns to another frame, or to main().
Popped(r, build) ==
    /\ Len(stack) > 1 /\ Len(stack') = Len(stack) - 1 /\ stack' \in Seq(Frame)
    /\ goal' = goal /\ pc' = "loop"
    /\ \A j \in 1 .. Len(stack) - 2 : stack'[j] = stack[j]
    /\ LET f == stack[Len(stack) - 1]
           g == stack'[Len(stack) - 1]
       IN  /\ g.tp = f.tp /\ g.p = f.p + 1
           /\ g.err = (f.err \/ r)
           /\ g.need = (f.need \/ (~r /\ (build \/ stamp[tp] > stamp[f.tp])))
GoalDone == Len(stack) = 1 /\ stack' = << >> /\ goal' = goal + 1 /\ pc' = "main"

LEMMA StackTypes ==
    ASSUME Core
    PROVE  /\ Len(stack) \in Nat /\ (stack # << >> => Len(stack) >= 1)
           /\ \A j \in 1 .. Len(stack) : stack[j] \in Frame /\ stack[j].tp \in Target /\ stack[j].p \in Nat \ {0}
                                         /\ stack[j].err \in BOOLEAN /\ stack[j].need \in BOOLEAN
           /\ stack # << >> => /\ top = stack[Len(stack)] /\ tp \in Target /\ top.p \in Nat \ {0}
                               /\ deps[tp] \in Seq(Target) /\ Len(deps[tp]) \in Nat
<1>1. stack \in Seq(Frame)
  BY DEF Core, FramesOK
<1>2. Len(stack) \in Nat /\ \A j \in 1 .. Len(stack) : stack[j] \in Frame
  BY <1>1, LenProperties, ElementOfSeq
<1>3. \A f \in Frame : f.tp \in Target /\ f.p \in Nat \ {0} /\ f.err \in BOOLEAN /\ f.need \in BOOLEAN
  BY DEF Frame
<1>4. stack # << >> => Len(stack) >= 1
  BY <1>1, <1>2, EmptySeq
<1>5. stack # << >> => top = stack[Len(stack)] /\ tp \in Target /\ top.p \in Nat \ {0}
  BY <1>2, <1>3, <1>4 DEF top, tp, Last
<1>6. stack # << >> => deps[tp] \in Seq(Target) /\ Len(deps[tp]) \in Nat
  BY <1>5, LenProperties DEF Core, TreeOK
<1> QED BY <1>2, <1>3, <1>4, <1>5, <1>6

LEMMA EnterFacts ==
    ASSUME Core, NEW t \in Target, Enter(t)
    PROVE  Entered(t)
<1> DEFINE f == [tp |-> t, p |-> 1, err |-> FALSE, need |-> FALSE]
<1>1. f \in Frame /\ f.tp = t /\ f.p = 1 /\ ~f.err /\ ~f.need
  BY DEF Frame
<1>2. stack \in Seq(Frame) /\ stack' = Append(stack, f)
  BY DEF Core, FramesOK, Enter
<1> HIDE DEF f
<1>3. /\ Append(stack, f) \in Seq(Frame) /\ Len(Append(stack, f)) = Len(stack) + 1
      /\ Append(stack, f)[Len(stack) + 1] = f /\ \A j \in 1 .. Len(stack) : Append(stack, f)[j] = stack[j]
  BY <1>1, <1>2, AppendFacts
<1>4. stamp' = [stamp EXCEPT ![t] = mtime[t]]
  BY DEF Enter
<1> QED BY <1>1, <1>2, <1>3, <1>4 DEF Entered

LEMMA CheckedFacts ==
    ASSUME NEW f \in Frame, NEW q, NEW r \in BOOLEAN, NEW build \in BOOLEAN
    PROVE  /\ Checked(f, q, r, build) \in Frame
           /\ Checked(f, q, r, build).tp = f.tp /\ Checked(f, q, r, build).p = f.p + 1
           /\ Checked(f, q, r, build).err = (f.err \/ r)
           /\ Checked(f, q, r, build).need = (f.need \/ (~r /\ (build \/ stamp[q] > stamp[f.tp])))
<1>1. f.p + 1 \in Nat \ {0} /\ f.tp \in Target /\ f.err \in BOOLEAN /\ f.need \in BOOLEAN
  BY DEF Frame
<1>2. DOMAIN f = {"tp", "p", "err", "need"}
  BY DEF Frame
<1> DEFINE e == f.err \/ r
           m == f.need \/ (~r /\ (build \/ stamp[q] > stamp[f.tp]))
<1>3. Checked(f, q, r, build) = [tp |-> f.tp, p |-> f.p + 1, err |-> e, need |-> m]
  <2>1. Checked(f, q, r, build) = [f EXCEPT !.p = f.p + 1, !.err = e, !.need = m]
    BY <1>2 DEF Checked
  <2> HIDE DEF e, m
  <2> QED BY <1>2, <2>1 DEF Frame
<1>4. (f.need \/ (~r /\ (build \/ stamp[q] > stamp[f.tp]))) \in BOOLEAN /\ (f.err \/ r) \in BOOLEAN
  BY <1>1
<1> QED BY <1>1, <1>3, <1>4 DEF Frame

LEMMA ReturnFacts ==
    ASSUME Core, stack # << >>, NEW r \in BOOLEAN, NEW build \in BOOLEAN, Return(r, build)
    PROVE  GoalDone \/ Popped(r, build)
<1> DEFINE n == Len(stack) - 1
           g == Checked(stack[n], tp, r, build)
           L == SubSeq(stack, 1, n - 1)
<1>1. CASE Len(stack) = 1
  BY <1>1 DEF Return, GoalDone
<1>2. CASE Len(stack) # 1
  <2>1. n \in Nat /\ n >= 1 /\ n \in 1 .. Len(stack) /\ Len(stack) > 1 /\ n - 1 \in 0 .. Len(stack)
    <3>1. Len(stack) \in Nat /\ Len(stack) >= 1
      BY StackTypes
    <3> HIDE DEF g, L
    <3>2. n \in Nat /\ n >= 1
      BY <1>2, <3>1
    <3> QED BY <3>1, <3>2
  <2>2. stack[n] \in Frame /\ stack \in Seq(Frame)
    BY <2>1, StackTypes DEF Core, FramesOK
  <2>3. /\ g \in Frame /\ g.tp = stack[n].tp /\ g.p = stack[n].p + 1 /\ g.err = (stack[n].err \/ r)
        /\ g.need = (stack[n].need \/ (~r /\ (build \/ stamp[tp] > stamp[stack[n].tp])))
    <3> DEFINE f == stack[n]
    <3>1. f \in Frame
      BY <2>2
    <3> HIDE DEF n, f
    <3>2. g = Checked(f, tp, r, build)
      BY DEF g, f
    <3> HIDE DEF g
    <3>3. /\ Checked(f, tp, r, build) \in Frame
          /\ Checked(f, tp, r, build).tp = f.tp /\ Checked(f, tp, r, build).p = f.p + 1
          /\ Checked(f, tp, r, build).err = (f.err \/ r)
          /\ Checked(f, tp, r, build).need = (f.need \/ (~r /\ (build \/ stamp[tp] > stamp[f.tp])))
      BY <3>1, CheckedFacts
    <3> QED BY <3>2, <3>3 DEF f
  <2>4. stack' = Append(L, g) /\ pc' = "loop" /\ goal' = goal
    <3>1. Len(stack) - 2 = n - 1
      BY <2>1
    <3> QED BY <1>2, <3>1 DEF Return
  <2> HIDE DEF g
  <2>5. L \in Seq(Frame) /\ Len(L) = n - 1 /\ \A j \in 1 .. n - 1 : L[j] = stack[j]
    <3> DEFINE m == n - 1
    <3>1. m \in 0 .. Len(stack)
      BY <2>1
    <3> HIDE DEF m
    <3>2. /\ SubSeq(stack, 1, m) \in Seq(Frame) /\ Len(SubSeq(stack, 1, m)) = (IF 1 <= m THEN m - 1 + 1 ELSE 0)
          /\ \A j \in 1 .. m - 1 + 1 : SubSeq(stack, 1, m)[j] = stack[1 + j - 1]
      BY <2>1, <2>2, <3>1, SubSeqProperties DEF m
    <3>3. \A j \in 1 .. m : j \in 1 .. m - 1 + 1 /\ 1 + j - 1 = j
      BY <2>1, <3>1
    <3>4. m \in Nat /\ (IF 1 <= m THEN m - 1 + 1 ELSE 0) = m
      BY <2>1, <3>1
    <3> QED BY <3>2, <3>3, <3>4 DEF m
  <2> HIDE DEF L
  <2>6. /\ Append(L, g) \in Seq(Frame) /\ Len(Append(L, g)) = n
        /\ Append(L, g)[n] = g /\ \A j \in 1 .. n - 1 : Append(L, g)[j] = L[j]
    <3>1. Len(L) + 1 = n
      BY <2>1, <2>5
    <3> QED BY <2>3, <2>5, <3>1, AppendFacts
  <2> HIDE DEF n
  <2>7. n - 1 = Len(stack) - 2
    BY DEF n
  <2> QED BY <2>1, <2>3, <2>4, <2>5, <2>6, <2>7 DEF Popped, n
<1> QED BY <1>1, <1>2
\* The invariants on frames, one by one: those of the frames below the top, and
\* of the first n frames of a stack.
Path(S, n) ==
    \A j \in 1 .. n - 1 : S[j].p <= Len(deps[S[j].tp]) /\ S[j + 1].tp = deps[S[j].tp][S[j].p]
Indices(S, n) ==
    \A j \in 1 .. n : S[j].p <= Len(deps[S[j].tp]) + 1 /\ (S[j].p = 1 => ~S[j].need /\ ~S[j].err)
Nested(S, n) == \A i, j \in 1 .. n : i < j /\ S[i].tp = S[j].tp => S[j].p <= S[i].p

LEMMA FramesParts ==
    ASSUME Core
    PROVE  Path(stack, Len(stack)) /\ Indices(stack, Len(stack)) /\ Nested(stack, Len(stack))
  BY DEF Core, FramesOK, Path, Indices, Nested

LEMMA FramesWhole ==
    ASSUME TreeSame, stack' \in Seq(Frame), pc' = "loop", stack' # << >>,
           Path(stack', Len(stack')), Indices(stack', Len(stack')), Nested(stack', Len(stack'))
    PROVE  FramesOK'
  BY DEF TreeSame, tree, FramesOK, Path, Indices, Nested, Busy, Running

LEMMA FramesEnter ==
    ASSUME Core, NEW t \in Target, Entered(t), TreeSame, pc' = "loop",
           stack = << >> \/ (pc = "loop" /\ ~AtEnd /\ t = deps[tp][top.p])
    PROVE  FramesOK'
<1> DEFINE n == Len(stack)
<1>1. n \in Nat /\ Len(stack') = n + 1 /\ stack' \in Seq(Frame) /\ stack' # << >>
  BY StackTypes, EmptySeq DEF Entered
<1>2. /\ \A j \in 1 .. n : stack'[j] = stack[j]
      /\ stack'[n + 1].tp = t /\ stack'[n + 1].p = 1 /\ ~stack'[n + 1].err /\ ~stack'[n + 1].need
  BY DEF Entered
<1>3. Path(stack, n) /\ Indices(stack, n) /\ Nested(stack, n)
  BY FramesParts
<1>4. n # 0 => /\ top = stack[n] /\ top.p <= Len(deps[tp]) /\ t = deps[tp][top.p]
               /\ tp = stack[n].tp
  <2>1. n # 0 => stack # << >>
    OBVIOUS
  <2> QED BY <2>1, StackTypes DEF AtEnd, tp
<1>5. \A j \in 1 .. n : stack[j].p \in Nat \ {0}
  BY StackTypes
<1>6. Len(deps[t]) \in Nat
  BY LenProperties DEF Core, TreeOK
<1> HIDE DEF n
<1>7. Path(stack', n + 1)
  <2>1. \A j \in 1 .. n : j # n => j \in 1 .. n - 1 /\ j + 1 \in 1 .. n
    BY <1>1
  <2>2. \A j \in 1 .. (n + 1) - 1 : j \in 1 .. n
    BY <1>1
  <2>3. n # 0 => n \in 1 .. n
    BY <1>1
  <2>4. ASSUME NEW j \in 1 .. n PROVE stack'[j].p <= Len(deps[stack'[j].tp]) /\ stack'[j + 1].tp = deps[stack'[j].tp][stack'[j].p]
    <3>1. CASE j = n
      <4>1. n # 0
        BY <1>1, <2>4
      <4> QED BY <1>2, <1>4, <2>3, <3>1, <4>1
    <3>2. CASE j # n
      BY <1>2, <1>3, <2>1, <3>2 DEF Path
    <3> QED BY <3>1, <3>2
  <2> QED BY <2>2, <2>4 DEF Path
<1>8. \A j \in 1 .. n + 1 : j \in 1 .. n \/ j = n + 1
  BY <1>1
<1>9. Indices(stack', n + 1)
  <2>1. stack'[n + 1].p <= Len(deps[stack'[n + 1].tp]) + 1 /\ ~stack'[n + 1].need /\ ~stack'[n + 1].err
    BY <1>2, <1>6
  <2>2. \A j \in 1 .. n : stack'[j].p <= Len(deps[stack'[j].tp]) + 1 /\ (stack'[j].p = 1 => ~stack'[j].need /\ ~stack'[j].err)
    BY <1>2, <1>3 DEF Indices
  <2> QED BY <1>8, <2>1, <2>2 DEF Indices
<1>10. Nested(stack', n + 1)
  <2>1. \A i, j \in 1 .. n + 1 : i < j => i \in 1 .. n
    BY <1>1
  <2> QED BY <1>2, <1>3, <1>5, <1>8, <2>1 DEF Nested
<1> QED BY <1>1, <1>7, <1>9, <1>10, FramesWhole

\* A frame that returns is not nested in another one of its target.
LEMMA Alone ==
    ASSUME Core, stack # << >>, AtEnd, NEW i \in 1 .. Len(stack) - 1
    PROVE  stack[i].tp # tp
<1>1. /\ Len(stack) \in Nat /\ i \in 1 .. Len(stack) /\ Len(stack) \in 1 .. Len(stack) /\ i < Len(stack)
      /\ top = stack[Len(stack)] /\ Len(deps[tp]) \in Nat /\ top.p \in Nat
      /\ stack[i].p \in Nat
  BY StackTypes
<1>2. stack[i].p <= Len(deps[stack[i].tp]) /\ top.p > Len(deps[tp])
  BY FramesParts DEF Path, AtEnd
<1>3. stack[i].tp = tp => top.p <= stack[i].p
  BY <1>1, FramesParts DEF Nested, tp
<1> QED BY <1>1, <1>2, <1>3

LEMMA FramesPop ==
    ASSUME Core, NEW r, NEW build, TreeSame, AtEnd, Popped(r, build)
    PROVE  FramesOK'
<1> DEFINE n == Len(stack) - 1
<1>1. /\ n \in Nat /\ n >= 1 /\ Len(stack) = n + 1 /\ Len(stack') = n /\ stack' \in Seq(Frame) /\ pc' = "loop"
      /\ stack # << >> /\ stack' # << >>
  BY StackTypes, EmptySeq DEF Popped
<1>2. /\ \A j \in 1 .. n - 1 : stack'[j] = stack[j]
      /\ stack'[n].tp = stack[n].tp /\ stack'[n].p = stack[n].p + 1
  <2>1. Len(stack) - 2 = n - 1
    BY <1>1
  <2> QED BY <2>1 DEF Popped
<1>3. Path(stack, n + 1) /\ Indices(stack, n + 1) /\ Nested(stack, n + 1)
  BY <1>1, FramesParts
<1>4. \A j \in 1 .. n + 1 : stack[j].p \in Nat \ {0} /\ stack[j].tp \in Target
  BY <1>1, StackTypes
<1>5. tp = stack[n + 1].tp /\ top = stack[n + 1] /\ Len(deps[tp]) \in Nat
  BY <1>1, StackTypes DEF tp
<1> HIDE DEF n
<1>6. /\ n \in 1 .. n + 1 /\ n + 1 \in 1 .. n + 1 /\ n \in 1 .. (n + 1) - 1
      /\ \A j \in 1 .. n : j \in 1 .. n + 1 /\ (j # n => j \in 1 .. n - 1)
      /\ \A j \in 1 .. n - 1 : j \in 1 .. n /\ j # n /\ j + 1 \in 1 .. n /\ j \in 1 .. n + 1 /\ j \in 1 .. (n + 1) - 1
  BY <1>1
<1>7. stack[n].p <= Len(deps[stack[n].tp]) /\ stack[n + 1].tp = deps[stack[n].tp][stack[n].p]
  BY <1>3, <1>6 DEF Path
<1>8. \A j \in 1 .. n : stack'[j].tp = stack[j].tp
  BY <1>2, <1>6
<1>9. Path(stack', n)
  <2>1. ASSUME NEW j \in 1 .. n - 1 PROVE stack'[j].p <= Len(deps[stack'[j].tp]) /\ stack'[j + 1].tp = deps[stack'[j].tp][stack'[j].p]
    <3>1. stack[j].p <= Len(deps[stack[j].tp]) /\ stack[j + 1].tp = deps[stack[j].tp][stack[j].p]
      BY <1>3, <1>6 DEF Path
    <3>2. stack'[j] = stack[j] /\ stack'[j + 1].tp = stack[j + 1].tp
      BY <1>2, <1>6, <1>8
    <3> QED BY <3>1, <3>2
  <2> QED BY <2>1 DEF Path
<1>10. Indices(stack', n)
  <2>1. stack'[n].p <= Len(deps[stack'[n].tp]) + 1 /\ stack'[n].p # 1
    <3>1. Len(deps[stack[n].tp]) \in Nat /\ stack[n].p \in Nat \ {0}
      BY <1>4, <1>6, LenProperties DEF Core, TreeOK
    <3> QED BY <1>2, <1>7, <3>1
  <2>2. \A j \in 1 .. n - 1 : stack'[j].p <= Len(deps[stack'[j].tp]) + 1 /\ (stack'[j].p = 1 => ~stack'[j].need /\ ~stack'[j].err)
    BY <1>2, <1>3, <1>6 DEF Indices
  <2> QED BY <1>6, <2>1, <2>2 DEF Indices
<1>11. Nested(stack', n)
  <2>1. ASSUME NEW i \in 1 .. n, NEW j \in 1 .. n, i < j, stack[i].tp = stack[j].tp
        PROVE  stack'[j].p <= stack'[i].p
    <3>1. i \in 1 .. n - 1 /\ stack'[i] = stack[i] /\ stack[j].p <= stack[i].p /\ stack[i].p \in Nat /\ stack[j].p \in Nat
      <4>1. i # n
        BY <2>1, <1>1
      <4> QED BY <1>2, <1>3, <1>4, <1>6, <2>1, <4>1 DEF Nested
    <3>2. CASE j # n
      BY <1>2, <1>6, <3>1, <3>2
    <3>3. CASE j = n
      <4>1. stack[n].p # stack[i].p
        <5> SUFFICES ASSUME stack[n].p = stack[i].p PROVE FALSE
          OBVIOUS
        <5>1. stack[i + 1].tp = deps[stack[i].tp][stack[i].p]
          BY <1>3, <1>6, <3>1 DEF Path
        <5>2. stack[i + 1].tp = tp
          BY <1>5, <1>7, <2>1, <3>3, <5>1
        <5>3. i + 1 \in 1 .. Len(stack) - 1
          BY <1>1, <3>1
        <5> QED BY <1>1, <5>2, <5>3, Alone
      <4>2. stack'[n].p = stack[n].p + 1
        BY <1>2
      <4> QED BY <3>1, <3>3, <4>1, <4>2
    <3> QED BY <3>2, <3>3
  <2> QED BY <1>8, <2>1 DEF Nested
<1> QED BY <1>1, <1>9, <1>10, <1>11, FramesWhole
\* rebuild() begins, for a goal or for the prerequisite that is next.
LEMMA EnterCore ==
    ASSUME Core, NEW t \in Target, Enter(t), TreeSame, UNCHANGED <<goal, cmds, disk>>, pc' = "loop",
           \/ pc = "main" /\ goal <= Len(Goals) /\ t = Goals[goal]
           \/ pc = "loop" /\ ~AtEnd /\ t = deps[tp][top.p]
    PROVE  Core'
<1> DEFINE n == Len(stack)
<1>1. Entered(t) /\ n \in Nat
  BY EnterFacts, StackTypes
<1>2. /\ Len(stack') = n + 1 /\ stack' \in Seq(Frame) /\ \A j \in 1 .. n : stack'[j] = stack[j]
      /\ stack'[n + 1].tp = t /\ stamp' = [stamp EXCEPT ![t] = mtime[t]]
  BY <1>1 DEF Entered
<1>3. pc = "main" => n = 0 /\ stack = << >>
  BY EmptySeq DEF Core, FramesOK
<1>4. pc = "loop" => n >= 1 /\ top = stack[n] /\ tp = stack[n].tp
  BY StackTypes DEF Core, FramesOK, Busy, tp
<1>5. FramesOK'
  BY <1>1, <1>3, FramesEnter
<1>6. GoalsOK'
  <2>1. Goals' = Goals
    BY DEF TreeSame, tree, Goals
  <2>2. goal' <= Len(Goals') /\ stack'[1].tp = Goals'[goal']
    <3>1. CASE pc = "main"
      BY <1>2, <1>3, <2>1, <3>1
    <3>2. CASE pc = "loop"
      BY <1>1, <1>2, <1>4, <2>1, <3>2 DEF Core, GoalsOK, Busy
    <3> QED BY <3>1, <3>2
  <2> QED BY <2>2 DEF Core, GoalsOK
<1>7. TimesOK'
  <2>1. stamp \in [Target -> -1 .. MaxTime] /\ mtime \in [Target -> -1 .. MaxTime]
    BY DEF Core, TimesOK
  <2>2. stamp' \in [Target -> -1 .. MaxTime] /\ stamp'[t] = mtime[t] /\ \A u \in Target : u # t => stamp'[u] = stamp[u]
    BY <1>2, <2>1
  <2>3. tp' = t
    BY <1>2 DEF top, tp, Last
  <2>4. ASSUME ~fl.t, NEW j \in 1 .. n PROVE stamp'[stack'[j].tp] = mtime[stack'[j].tp]
    <3>1. stack[j].tp \in Target
      BY StackTypes
    <3>2. pc = "loop"
      BY <1>3, <2>4
    <3>3. stamp[stack[j].tp] = mtime[stack[j].tp]
      <4>1. CASE j = n
        BY <1>4, <2>4, <3>2, <4>1 DEF Core, TimesOK
      <4>2. CASE j # n
        <5>1. j \in 1 .. n - 1
          BY <1>1, <4>2
        <5> QED BY <2>4, <3>2, <5>1 DEF Core, TimesOK, Busy
      <4> QED BY <4>1, <4>2
    <3> QED BY <1>2, <2>2, <3>1, <3>3
  <2>5. \A j \in 1 .. Len(stack') - 1 : j \in 1 .. n
    BY <1>1, <1>2
  <2>6. mtime' = mtime /\ clock' = clock /\ mk' = mk
    BY DEF disk, TreeSame
  <2> HIDE DEF n
  <2>7. mtime' \in [Target -> -1 .. MaxTime] /\ clock' \in MaxTime - 1 .. MaxTime /\ \A u \in Target : mtime'[u] <= clock'
    BY <2>6 DEF Core, TimesOK
  <2>8. stamp'[tp'] = mtime'[tp']
    BY <2>2, <2>3, <2>6
  <2>9. ~fl'.t => \A j \in 1 .. Len(stack') - 1 : stamp'[stack'[j].tp] = mtime'[stack'[j].tp]
    BY <2>4, <2>5, <2>6 DEF fl
  <2> QED BY <2>2, <2>7, <2>8, <2>9 DEF TimesOK
<1>8. TreeOK' /\ CmdsOK'
  BY DEF Core, TreeOK, CmdsOK, TreeSame, tree
<1> QED BY <1>5, <1>6, <1>7, <1>8 DEF Core

LEMMA ReturnCore ==
    ASSUME Core, NEW r \in BOOLEAN, NEW build \in BOOLEAN, Return(r, build), TreeSame, Busy, AtEnd,
           UNCHANGED <<stamp, cmds, disk>>, cmds = << >>
    PROVE  Core'
<1>1. stack # << >> /\ Len(stack) \in Nat
  BY StackTypes DEF Core, FramesOK
<1>2. GoalDone \/ Popped(r, build)
  BY <1>1, ReturnFacts
<1>3. TreeOK'
  BY DEF Core, TreeOK, TreeSame, tree
<1>4. goal' \in Nat \ {0} /\ Goals' = Goals
  BY <1>2 DEF Core, GoalsOK, GoalDone, Popped, TreeSame, tree, Goals
<1>5. mtime' = mtime /\ clock' = clock /\ mk' = mk /\ stamp' = stamp
  BY DEF disk, TreeSame
<1>6. /\ mtime' \in [Target -> -1 .. MaxTime] /\ clock' \in MaxTime - 1 .. MaxTime /\ \A u \in Target : mtime'[u] <= clock'
      /\ stamp' \in [Target -> -1 .. MaxTime]
  BY <1>5 DEF Core, TimesOK
<1>7. CASE GoalDone
  <2>1. pc' = "main" /\ stack' = << >> /\ ~Busy'
    BY <1>7 DEF GoalDone, Busy, Running
  <2>2. FramesOK'
    <3>1. stack' \in Seq(Frame) /\ Len(stack') = 0
      BY <2>1, EmptySeq
    <3> QED BY <2>1, <3>1 DEF FramesOK, Busy, Running
  <2>3. GoalsOK' /\ TimesOK' /\ CmdsOK'
    <3>1. cmds' = << >>
      OBVIOUS
    <3>2. << >> \in Seq({})
      BY EmptySeq
    <3> QED BY <1>4, <1>6, <2>1, <3>1, <3>2 DEF GoalsOK, TimesOK, CmdsOK
  <2> QED BY <1>3, <2>2, <2>3 DEF Core
<1>8. CASE Popped(r, build)
  <2> DEFINE n == Len(stack) - 1
  <2>1. pc' = "loop" /\ goal' = goal /\ n >= 1 /\ n \in Nat /\ Len(stack') = n
    BY <1>1, <1>8 DEF Popped
  <2>2. \A j \in 1 .. n : stack'[j].tp = stack[j].tp
    <3>1. \A j \in 1 .. n : j # n => j \in 1 .. Len(stack) - 2
      BY <2>1, <1>1
    <3> QED BY <1>8, <3>1 DEF Popped
  <2>3. stack'[n].p # 1
    <3>1. stack[n].p \in Nat \ {0}
      <4>1. n \in 1 .. Len(stack)
        BY <2>1, <1>1
      <4> QED BY <4>1, StackTypes
    <3> QED BY <1>8, <3>1 DEF Popped
  <2>4. FramesOK'
    BY <1>8, FramesPop
  <2>5. GoalsOK'
    <3>1. 1 \in 1 .. n
      BY <2>1
    <3> QED BY <1>4, <2>1, <2>2, <3>1 DEF Core, GoalsOK
  <2>6. top' = stack'[n] /\ tp' = stack'[n].tp
    BY <2>1 DEF top, tp, Last
  <2>7. ~fl.t => \A j \in 1 .. n : stamp[stack'[j].tp] = mtime[stack'[j].tp]
    BY <2>2 DEF Core, TimesOK
  <2>8. n \in 1 .. n /\ \A j \in 1 .. n - 1 : j \in 1 .. n
    BY <2>1
  <2> HIDE DEF n
  <2>9. TimesOK'
    BY <1>5, <1>6, <2>1, <2>3, <2>6, <2>7, <2>8 DEF TimesOK, fl
  <2>10. CmdsOK'
    <3>1. << >> \in Seq({})
      BY EmptySeq
    <3> QED BY <2>1, <3>1 DEF CmdsOK
  <2> QED BY <1>3, <2>4, <2>5, <2>9, <2>10 DEF Core
<1> QED BY <1>2, <1>7, <1>8

\* update() and its commands: the frames stay.
LEMMA RunCore ==
    ASSUME Core, TreeSame, UNCHANGED <<goal, stack, stamp>>, Busy, pc' \in {"run", "child", "failed"},
           AtEnd, ~top.err, Need, CmdsOK',
           mtime' \in [Target -> -1 .. MaxTime], clock' \in MaxTime - 1 .. MaxTime, \A u \in Target : mtime'[u] <= clock',
           ~fl.t => \A u \in Target : u # tp => mtime'[u] = mtime[u]
    PROVE  Core'
<1>1. TreeOK' /\ top' = top /\ tp' = tp /\ AtEnd' /\ Need'
  BY DEF Core, TreeOK, TreeSame, tree, top, tp, AtEnd, Need
<1>2. FramesOK'
  BY <1>1 DEF Core, FramesOK, TreeSame, tree, Busy, Running
<1>3. GoalsOK'
  BY DEF Core, GoalsOK, TreeSame, tree, Goals, Busy, Running
<1>4. stack # << >>
  BY DEF Core, FramesOK
<1>5. \A j \in 1 .. Len(stack) - 1 : stack[j].tp \in Target /\ stack[j].tp # tp
  <2> TAKE j \in 1 .. Len(stack) - 1
  <2>1. stack[j].tp # tp
    BY <1>4, Alone
  <2>2. j \in 1 .. Len(stack)
    BY StackTypes
  <2> QED BY <2>1, <2>2, StackTypes
<1>6. TimesOK'
  BY <1>5 DEF Core, TimesOK, TreeSame, fl
<1> QED BY <1>1, <1>2, <1>3, <1>6 DEF Core

LEMMA ExitCore ==
    ASSUME Core, TreeSame, UNCHANGED <<goal, stack, stamp, cmds, clock>>, pc \notin {"run", "child"}, pc' = "exited",
           \A u \in Target : mtime'[u] \in {mtime[u], -1}, mtime' \in [Target -> Int]
    PROVE  Core'
<1>1. TreeOK' /\ FramesOK' /\ GoalsOK' /\ CmdsOK'
  BY DEF Core, TreeOK, FramesOK, GoalsOK, CmdsOK, TreeSame, tree, Busy, Running, top, tp, Last
<1>2. \A u \in Target : mtime[u] \in -1 .. MaxTime /\ mtime[u] <= clock /\ clock \in MaxTime - 1 .. MaxTime
  BY DEF Core, TimesOK
<1>3. \A u \in Target : mtime'[u] \in -1 .. MaxTime /\ mtime'[u] <= clock
  BY <1>2, TimeAssumption
<1>4. TimesOK'
  BY <1>2, <1>3 DEF Core, TimesOK, Busy, Running
<1> QED BY <1>1, <1>4 DEF Core
-----------------------------------------------------------------------------
(* The commands of a rule.                                                 *)

LinesOf(name, lines, target) == {Line(lines[j], name \in mk.ignore, target) : j \in 1 .. Len(lines)}
TouchesOf(name, touched, target) ==
    {Touch(touched[j], name \in mk.silent) : j \in 1 .. Len(touched)} \cup {Touch(target, name \in mk.ignore)}

RunIs(L, name, target, touched, lines) ==
    /\ fl.t => L \in Seq(TouchesOf(name, touched, target) \cup LinesOf(name, lines, target))
    /\ ~fl.t => L \in Seq(LinesOf(name, lines, target)) /\ Len(L) = Len(lines)

LEMMA RunFacts ==
    ASSUME NEW name, NEW target, NEW touched, Len(touched) \in Nat, NEW lines, Len(lines) \in Nat
    PROVE  RunIs(run(name, target, touched, lines), name, target, touched, lines)
<1> DEFINE ignore == name \in mk.ignore
           silent == name \in mk.silent
           T == TouchesOf(name, touched, target)
           B == LinesOf(name, lines, target)
           K == T \cup B
           b == [j \in 1 .. Len(lines) |-> Line(lines[j], ignore, target)]
           a == [j \in 1 .. Len(touched) |-> Touch(touched[j], silent)]
           z == <<Touch(target, ignore)>>
<1>1. b \in Seq(B) /\ Len(b) = Len(lines)
  <2>1. b \in [1 .. Len(lines) -> B]
    BY DEF LinesOf
  <2> HIDE DEF b, B
  <2> QED BY <2>1
<1>2. a \in Seq(K)
  <2>1. a \in [1 .. Len(touched) -> K]
    BY DEF TouchesOf
  <2> HIDE DEF a, K
  <2> QED BY <2>1
<1>3. z \in Seq(K)
  <2>1. Touch(target, ignore) \in K
    BY DEF TouchesOf
  <2> HIDE DEF K
  <2> QED BY <2>1
<1>4. b \in Seq(K)
  <2>1. b \in [1 .. Len(lines) -> K]
    BY DEF LinesOf
  <2> HIDE DEF b, K
  <2> QED BY <2>1
<1>5. run(name, target, touched, lines) = (IF fl.t THEN a ELSE << >>) \o b \o (IF fl.t THEN z ELSE << >>)
  BY DEF run
<1> HIDE DEF a, b, z, K, B, T
<1>6. CASE fl.t
  <2>1. (a \o b) \o z \in Seq(K)
    BY <1>2, <1>3, <1>4, ConcatProperties
  <2> QED BY <1>5, <1>6, <2>1 DEF K, T, B, RunIs
<1>7. CASE ~fl.t
  <2>1. (<< >> \o b) \o << >> = b
    BY <1>1, ConcatEmptySeq
  <2> QED BY <1>1, <1>5, <1>7, <2>1 DEF B, RunIs
<1> QED BY <1>6, <1>7

\* What CmdsOK says of the commands, for a file f.
CmdsFor(L, f) ==
    /\ f \in {tp, None} /\ (f = None => actions[tp] = << >> /\ mk.default)
    /\ \A j \in 1 .. Len(L) :
          /\ L[j].op = "touch" => fl.t
          /\ L[j].op # "touch" => /\ L[j].op = "line" /\ L[j].file = f
                                  /\ f = tp /\ L[j].ignore => Lax(tp)

LEMMA RunCmds ==
    ASSUME NEW name, NEW target, NEW touched, Len(touched) \in Nat, NEW lines, Len(lines) \in Nat,
           target \in {tp, None}, target = None => actions[tp] = << >> /\ mk.default,
           target = tp => \A j \in 1 .. Len(lines) : name \in mk.ignore \/ fl.i \/ lines[j] = "minus" => Lax(tp)
    PROVE  LET L == run(name, target, touched, lines)
           IN  (\E C : L \in Seq(C)) /\ CmdsFor(L, target) /\ (~fl.t => Len(L) = Len(lines))
<1> DEFINE L == run(name, target, touched, lines)
           T == TouchesOf(name, touched, target)
           B == LinesOf(name, lines, target)
<1>1. (fl.t => L \in Seq(T \cup B)) /\ (~fl.t => L \in Seq(B) /\ Len(L) = Len(lines))
  <2>1. RunIs(L, name, target, touched, lines)
    BY RunFacts
  <2> HIDE DEF L
  <2> QED BY <2>1 DEF RunIs
<1>2. \A c \in T : c.op = "touch"
  BY DEF TouchesOf, Touch
<1>3. ASSUME NEW c \in B PROVE c.op = "line" /\ c.file = target /\ (target = tp /\ c.ignore => Lax(tp))
  <2>1. PICK j \in 1 .. Len(lines) : c = Line(lines[j], name \in mk.ignore, target)
    BY DEF LinesOf
  <2>2. c.op = "line" /\ c.file = target /\ c.ignore = (name \in mk.ignore \/ fl.i \/ lines[j] = "minus")
    BY <2>1 DEF Line
  <2> QED BY <2>2
<1> HIDE DEF L, T, B
<1>4. CASE fl.t
  <2>1. \A j \in 1 .. Len(L) : L[j] \in T \cup B
    BY <1>1, <1>4, ElementOfSeq
  <2> QED BY <1>1, <1>2, <1>3, <1>4, <2>1 DEF CmdsFor, L
<1>5. CASE ~fl.t
  <2>1. \A j \in 1 .. Len(L) : L[j] \in B
    BY <1>1, <1>5, ElementOfSeq
  <2> QED BY <1>1, <1>3, <1>5, <2>1 DEF CmdsFor, L
<1> QED BY <1>4, <1>5
CmdsList(L) == (\E C : L \in Seq(C)) /\ \E f : CmdsFor(L, f)

LEMMA CmdsNow ==
    ASSUME Core, pc \in {"run", "child"}
    PROVE  CmdsList(cmds)
  BY DEF Core, CmdsOK, CmdsList, CmdsFor

LEMMA CmdsNext ==
    ASSUME TreeSame, stack' = stack, CmdsList(cmds'), pc' \in {"run", "child"},
           pc' = "child" => cmds' # << >> /\ ~Skipped(Head(cmds'))
    PROVE  CmdsOK'
<1>1. tp' = tp /\ mk' = mk /\ actions' = actions
  BY DEF TreeSame, tree, tp, top
<1>2. Lax(tp)' <=> Lax(tp)
  BY <1>1 DEF Lax, fl
<1>3. \A c : Skipped(c)' <=> Skipped(c)
  BY <1>1 DEF Skipped, fl
<1>4. PICK f : CmdsFor(cmds', f)
  BY DEF CmdsList
<1>5. f \in {tp', None} /\ (f = None => actions'[tp'] = << >> /\ mk'.default)
  BY <1>1, <1>4 DEF CmdsFor
<1>6. \A j \in 1 .. Len(cmds') :
          /\ cmds'[j].op = "touch" => fl'.t
          /\ cmds'[j].op # "touch" => /\ cmds'[j].op = "line" /\ cmds'[j].file = f
                                      /\ f = tp' /\ cmds'[j].ignore => Lax(tp)'
  BY <1>1, <1>2, <1>4 DEF CmdsFor, fl
<1>7. pc' = "child" => cmds' # << >> /\ ~Skipped(Head(cmds))'
  BY <1>3 DEF Skipped, fl, TreeSame
<1> QED BY <1>5, <1>6, <1>7 DEF CmdsOK, CmdsList

LEMMA CmdsTail ==
    ASSUME Core, pc \in {"run", "child"}, cmds # << >>
    PROVE  CmdsList(Tail(cmds))
<1>1. PICK C : cmds \in Seq(C)
  BY CmdsNow DEF CmdsList
<1>2. PICK f : CmdsFor(cmds, f)
  BY CmdsNow DEF CmdsList
<1>3. /\ Tail(cmds) \in Seq(C) /\ Len(cmds) \in Nat /\ Len(cmds) >= 1 /\ Len(Tail(cmds)) = Len(cmds) - 1
      /\ \A j \in 1 .. Len(cmds) - 1 : Tail(cmds)[j] = cmds[j + 1]
  BY <1>1, TailFacts
<1>4. \A j \in 1 .. Len(Tail(cmds)) : j + 1 \in 1 .. Len(cmds) /\ Tail(cmds)[j] = cmds[j + 1]
  BY <1>3
<1>5. CmdsFor(Tail(cmds), f)
  BY <1>2, <1>4 DEF CmdsFor
<1> QED BY <1>3, <1>5 DEF CmdsList

LEMMA UpdateCmds ==
    ASSUME Core, Update
    PROVE  CmdsList(cmds') /\ (~fl.t => cmds' # << >>)
<1>1. /\ mk \in Makefiles /\ stack # << >> /\ tp \in Target /\ None \notin Target /\ None \notin mk.ignore
      /\ Len(deps[tp]) \in Nat /\ deps[tp] \in Seq(Target) /\ actions[tp] \in Seq({"plain", "minus", "plus"})
  <2>1. stack # << >>
    BY DEF Core, FramesOK, Update, Busy
  <2> QED BY <2>1, StackTypes, TimeAssumption, MakefileType DEF Core, TreeOK
<1>2. ASSUME NEW L, NEW f, (\E C : L \in Seq(C)) /\ CmdsFor(L, f), cmds' = L, NEW n \in Nat, n # 0, ~fl.t => Len(L) = n
      PROVE  CmdsList(cmds') /\ (~fl.t => cmds' # << >>)
  <2>1. Len(<< >>) = 0
    BY EmptySeq
  <2> QED BY <1>2, <2>1 DEF CmdsList
<1>3. CASE actions[tp] # << >> /\ cmds' = run(tp, tp, deps[tp], actions[tp])
  <2>1. Len(actions[tp]) \in Nat /\ Len(actions[tp]) # 0 /\ DOMAIN actions[tp] = 1 .. Len(actions[tp])
    BY <1>1, <1>3, LenProperties, EmptySeq
  <2>2. \A j \in 1 .. Len(actions[tp]) : tp \in mk.ignore \/ fl.i \/ actions[tp][j] = "minus" => Lax(tp)
    BY <2>1 DEF Lax, Range
  <2>3. tp # None
    BY <1>1
  <2> DEFINE L == run(tp, tp, deps[tp], actions[tp])
  <2>4. (\E C : L \in Seq(C)) /\ CmdsFor(L, tp) /\ (~fl.t => Len(L) = Len(actions[tp]))
    BY <1>1, <2>1, <2>2, <2>3, RunCmds
  <2> HIDE DEF L
  <2>5. cmds' = L
    BY <1>3 DEF L
  <2> QED BY <1>2, <2>1, <2>4, <2>5
<1>4. Len(RuleLines) = 1 /\ RuleLines[1] = "plain"
  BY DEF RuleLines
<1>5. ASSUME NEW x, cmds' = run(None, tp, <<x>> \o deps[tp], RuleLines)
      PROVE  CmdsList(cmds') /\ (~fl.t => cmds' # << >>)
  <2>1. Len(<<x>> \o deps[tp]) \in Nat
    <3>1. <<x>> \in Seq({x} \cup Target) /\ deps[tp] \in Seq({x} \cup Target)
      BY <1>1
    <3> QED BY <3>1, ConcatProperties, LenProperties
  <2>2. \A j \in 1 .. Len(RuleLines) : None \in mk.ignore \/ fl.i \/ RuleLines[j] = "minus" => Lax(tp)
    BY <1>1, <1>4 DEF Lax
  <2>3. tp # None
    BY <1>1
  <2> DEFINE w == <<x>> \o deps[tp]
             L == run(None, tp, w, RuleLines)
  <2> HIDE DEF w
  <2>4. (\E C : L \in Seq(C)) /\ CmdsFor(L, tp) /\ (~fl.t => Len(L) = Len(RuleLines))
    BY <1>4, <2>1, <2>2, <2>3, RunCmds DEF w
  <2> HIDE DEF L
  <2>5. cmds' = L
    BY <1>5 DEF L, w
  <2> QED BY <1>2, <1>4, <2>4, <2>5
<1>6. CASE actions[tp] = << >> /\ mk.default /\ cmds' = run(None, None, << >>, RuleLines)
  <2>1. Len(<< >>) \in Nat /\ None # tp
    BY <1>1, EmptySeq
  <2> DEFINE w == << >>
             L == run(None, None, w, RuleLines)
  <2> HIDE DEF w
  <2>2. (\E C : L \in Seq(C)) /\ CmdsFor(L, None) /\ (~fl.t => Len(L) = Len(RuleLines))
    BY <1>4, <1>6, <2>1, RunCmds DEF w
  <2> HIDE DEF L
  <2>3. cmds' = L
    BY <1>6 DEF L, w
  <2> QED BY <1>2, <1>4, <2>2, <2>3
<1>7. \/ actions[tp] # << >> /\ cmds' = run(tp, tp, deps[tp], actions[tp])
      \/ \E x : cmds' = run(None, tp, <<x>> \o deps[tp], RuleLines)
      \/ actions[tp] = << >> /\ mk.default /\ cmds' = run(None, None, << >>, RuleLines)
  BY DEF Update
<1> QED BY <1>3, <1>5, <1>6, <1>7
-----------------------------------------------------------------------------
(* The child.                                                              *)

\* What a command may do to the files.
Writing(c) ==
    /\ mtime' \in [Target -> -1 .. MaxTime] /\ clock' \in MaxTime - 1 .. MaxTime
    /\ \A u \in Target : mtime'[u] <= clock' /\ mtime'[u] >= mtime[u] /\ (u # c.file => mtime'[u] = mtime[u])

LEMMA WriteFacts ==
    ASSUME Core, NEW c, NEW whole, WriteFile(c, whole)
    PROVE  /\ Writing(c)
           /\ c.file \in Target => mtime'[c.file] >= MaxTime - 1 /\ \A u \in Target : mtime[u] <= mtime'[c.file]
           /\ IF c.file \in Target /\ c.op # "touch"
              THEN partial' = IF whole THEN partial \ {c.file} ELSE partial \cup {c.file}
              ELSE partial' = partial
<1>1. PICK now \in clock .. MaxTime :
          /\ clock' = now
          /\ IF c.file \in Target
             THEN /\ mtime' = [mtime EXCEPT ![c.file] = now]
                  /\ partial' = IF c.op = "touch" THEN partial
                                ELSE IF whole THEN partial \ {c.file} ELSE partial \cup {c.file}
             ELSE UNCHANGED <<mtime, partial>>
  BY DEF WriteFile
<1>2. mtime \in [Target -> -1 .. MaxTime] /\ clock \in MaxTime - 1 .. MaxTime /\ \A u \in Target : mtime[u] <= clock
  BY DEF Core, TimesOK
<1>3. MaxTime \in Nat \ {0}
  BY TimeAssumption
<1>4. now \in MaxTime - 1 .. MaxTime /\ now >= clock /\ now \in -1 .. MaxTime /\ \A u \in Target : mtime[u] <= now
  BY <1>2, <1>3
<1>5. \A u \in Target : mtime'[u] = IF u = c.file THEN now ELSE mtime[u]
  BY <1>1, <1>2
<1>6. mtime' \in [Target -> -1 .. MaxTime]
  BY <1>1, <1>2, <1>4
<1>7. \A u \in Target : mtime'[u] <= clock' /\ mtime'[u] >= mtime[u] /\ (u # c.file => mtime'[u] = mtime[u])
  BY <1>1, <1>2, <1>4, <1>5
<1> QED BY <1>1, <1>4, <1>5, <1>6, <1>7 DEF Writing

LEMMA NotWriting == ASSUME Core, UNCHANGED disk, NEW c PROVE Writing(c)
<1>1. mtime \in [Target -> -1 .. MaxTime] /\ clock \in MaxTime - 1 .. MaxTime /\ \A u \in Target : mtime[u] <= clock
  BY DEF Core, TimesOK
<1> QED BY <1>1 DEF disk, Writing

\* The command that runs.
LEMMA HeadFacts ==
    ASSUME Core, pc \in {"run", "child"}, cmds # << >>
    PROVE  /\ Head(cmds) = cmds[1] /\ Len(cmds) \in Nat /\ Len(cmds) >= 1
           /\ Head(cmds).op # "touch" => Head(cmds).op = "line" /\ Head(cmds).file \in {tp, None}
           /\ Head(cmds).op = "touch" => fl.t
           /\ Head(cmds).op # "touch" /\ Head(cmds).file = tp /\ Head(cmds).ignore => Lax(tp)
<1>1. PICK C : cmds \in Seq(C)
  BY CmdsNow DEF CmdsList
<1>2. Head(cmds) = cmds[1] /\ Len(cmds) \in Nat /\ Len(cmds) >= 1 /\ 1 \in 1 .. Len(cmds)
  BY <1>1, TailFacts
<1>3. PICK f : CmdsFor(cmds, f)
  BY CmdsNow DEF CmdsList
<1> QED BY <1>2, <1>3 DEF CmdsFor

LEMMA RunningFacts ==
    ASSUME Core, Running
    PROVE  stack # << >> /\ Busy /\ AtEnd /\ ~top.err /\ Need /\ tp \in Target
<1>1. stack # << >> /\ Busy /\ AtEnd /\ ~top.err /\ Need
  BY DEF Core, FramesOK, Busy
<1> QED BY <1>1, StackTypes

LEMMA ChildWriting ==
    ASSUME Core, Child
    PROVE  Writing(Head(cmds))
<1> DEFINE c == Head(cmds)
<1>1. UNCHANGED disk \/ \E whole : WriteFile(c, whole)
  BY DEF Child, Succeeds, IgnoredFailure, Failure, Spoil
<1> HIDE DEF c
<1> QED BY <1>1, WriteFacts, NotWriting DEF c

LEMMA ChildCore ==
    ASSUME Core, Child
    PROVE  Core'
<1>1. pc = "child" /\ Running
  BY DEF Child, Succeeds, IgnoredFailure, Failure, Running
<1>2. cmds # << >>
  BY <1>1 DEF Core, CmdsOK
<1>3. TreeSame /\ UNCHANGED <<goal, stack, stamp>>
  BY DEF Child, Succeeds, IgnoredFailure, Failure, TreeSame
<1>4. CmdsOK'
  <2>1. CASE pc' = "run" /\ cmds' = Tail(cmds)
    BY <1>1, <1>2, <1>3, <2>1, CmdsTail, CmdsNext
  <2>2. CASE pc' = "failed" /\ cmds' = << >>
    <3>1. << >> \in Seq({})
      BY EmptySeq
    <3> QED BY <2>2, <3>1 DEF CmdsOK
  <2> QED BY <2>1, <2>2 DEF Child, Succeeds, IgnoredFailure, Failure
<1>5. pc' \in {"run", "child", "failed"}
  BY DEF Child, Succeeds, IgnoredFailure, Failure
<1>6. Writing(Head(cmds))
  BY ChildWriting
<1>7. ~fl.t => \A u \in Target : u # tp => mtime'[u] = mtime[u]
  <2>1. ~fl.t => Head(cmds).file \in {tp, None}
    BY <1>1, <1>2, HeadFacts
  <2> QED BY <1>6, <2>1, TimeAssumption DEF Writing
<1> QED BY <1>1, <1>3, <1>4, <1>5, <1>6, <1>7, RunningFacts, RunCore DEF Writing
-----------------------------------------------------------------------------
(* The steps of make.                                                      *)

LEMMA GoalsTypes ==
    ASSUME TreeOK
    PROVE  Goals \in Seq(Target) /\ Len(Goals) \in Nat /\ \A g \in 1 .. Len(Goals) : Goals[g] \in Target
<1>1. Goals \in Seq(Target)
  BY MakefileType, EmptySeq DEF TreeOK, Goals
<1> QED BY <1>1, LenProperties, ElementOfSeq

LEMMA ParseCore ==
    ASSUME Core, ParseRule
    PROVE  Core' /\ stack' = << >> /\ stack = << >>
<1> DEFINE r == mk.rules[nrule + 1]
<1>1. PICK k : k = r /\ deps' = adddeps(k) /\ defined' = defined \cup {k.target}
               /\ deftarget' = (IF deftarget = None THEN k.target ELSE deftarget)
               /\ actions' = IF k.lines = << >> THEN actions ELSE [actions EXCEPT ![k.target] = k.lines]
  BY DEF ParseRule
<1>2. k.target \in Target /\ k.deps \in Seq(Target) /\ k.lines \in Seq({"plain", "minus", "plus"})
  <2>1. mk.rules \in Seq([target : Target, deps : Seq(Target), lines : Seq({"plain", "minus", "plus"})])
    BY MakefileType DEF Core, TreeOK
  <2>2. k \in [target : Target, deps : Seq(Target), lines : Seq({"plain", "minus", "plus"})]
    <3>1. nrule + 1 \in 1 .. Len(mk.rules)
      BY <2>1, LenProperties DEF ParseRule, Core, TreeOK
    <3> QED BY <1>1, <2>1, <3>1, ElementOfSeq
  <2> QED BY <2>2
<1>3. deps' \in [Target -> Seq(Target)] /\ \A u \in Target \ {k.target} : deps'[u] = deps[u]
  BY <1>1, <1>2, AddDeps DEF Core, TreeOK
<1>4. TreeOK'
  <2>1. nrule' \in 0 .. Len(mk'.rules) /\ mk' = mk
    <3>1. Len(mk.rules) \in Nat
      BY MakefileType, LenProperties DEF Core, TreeOK
    <3> QED BY <3>1 DEF ParseRule, Core, TreeOK
  <2> QED BY <1>1, <1>2, <1>3, <2>1 DEF Core, TreeOK
<1>5. pc = "parse" /\ pc' = "parse" /\ stack' = stack /\ stack = << >>
  BY DEF ParseRule, Core, FramesOK
<1>6. FramesOK'
  <2>1. Len(stack') = 0 /\ stack' \in Seq(Frame)
    BY <1>5, EmptySeq
  <2> QED BY <1>5, <2>1 DEF FramesOK, Busy, Running
<1>7. GoalsOK' /\ TimesOK' /\ CmdsOK'
  BY <1>5 DEF ParseRule, disk, Core, GoalsOK, TimesOK, CmdsOK, Busy, Running
<1> QED BY <1>4, <1>5, <1>6, <1>7 DEF Core
LEMMA InitCore == Init => Core
<1> SUFFICES ASSUME Init PROVE Core
  OBVIOUS
<1>1. mk \in Makefiles /\ MaxTime \in Nat \ {0} /\ mk.old \in [Target -> -1 .. MaxTime - 2] /\ Len(mk.rules) \in Nat
  BY TimeAssumption, FilesAssumption, MakefileType, LenProperties DEF Init
<1>2. << >> \in Seq(Target) /\ << >> \in Seq(Frame) /\ << >> \in Seq({}) /\ Len(<< >>) = 0
      /\ << >> \in Seq({"plain", "minus", "plus"})
  BY EmptySeq
<1>3. TreeOK
  BY <1>1, <1>2 DEF Init, TreeOK
<1>4. FramesOK /\ GoalsOK /\ CmdsOK
  BY <1>2 DEF Init, FramesOK, GoalsOK, CmdsOK, Busy, Running
<1>5. mtime \in [Target -> -1 .. MaxTime] /\ stamp \in [Target -> -1 .. MaxTime] /\ clock = MaxTime - 1
      /\ \A t \in Target : mtime[t] <= clock
  BY <1>1 DEF Init
<1>6. TimesOK
  BY <1>1, <1>5 DEF Init, TimesOK, Busy, Running
<1> QED BY <1>3, <1>4, <1>6 DEF Core

\* Each action of Self and sighandler, by the kind of step it takes.
LEMMA StepCore == Core /\ [Next]_vars => Core'
<1> SUFFICES ASSUME Core, [Next]_vars PROVE Core'
  OBVIOUS
<1>1. pc = "loop" => stack # << >> /\ tp \in Target /\ deps[tp] \in Seq(Target) /\ Len(deps[tp]) \in Nat
                     /\ top.p \in Nat \ {0} /\ Busy /\ cmds = << >>
  BY StackTypes DEF Core, FramesOK, CmdsOK, Busy
<1>2. CASE UNCHANGED vars
  BY <1>2 DEF Core, TreeOK, FramesOK, GoalsOK, TimesOK, CmdsOK, vars, tree, disk, Busy, Running, Skipped, Lax, Goals, top, tp, Last, fl, AtEnd, Need
<1>3. CASE ParseRule
  BY <1>3, ParseCore
<1>4. CASE EndParse
  <2>1. pc' = "main" /\ pc = "parse" /\ TreeSame /\ UNCHANGED <<stack, goal, stamp, cmds, disk>>
    BY <1>4 DEF EndParse, TreeSame
  <2> QED BY <2>1 DEF Core, TreeOK, FramesOK, GoalsOK, TimesOK, CmdsOK, TreeSame, tree, disk, Busy, Running
<1>5. CASE Build
  <2>1. Goals[goal] \in Target
    BY <1>5, GoalsTypes DEF Build, Core, GoalsOK
  <2>2. /\ Enter(Goals[goal]) /\ TreeSame /\ UNCHANGED <<goal, cmds, disk>> /\ pc' = "loop"
        /\ pc = "main" /\ goal <= Len(Goals)
    BY <1>5 DEF Build, TreeSame
  <2> QED BY <2>1, <2>2, EnterCore
<1>6. CASE Finish
  <2>1. TreeSame /\ UNCHANGED <<goal, stack, stamp, cmds, disk>> /\ pc = "main" /\ pc' = "exited"
    BY <1>6 DEF Finish, TreeSame
  <2> QED BY <2>1, ExitCore DEF disk, Core, TimesOK
<1>7. CASE Interrupted \/ FailInterrupted
  <2>1. TreeSame /\ UNCHANGED <<goal, stack, stamp, cmds, clock>> /\ pc \in {"loop", "failed"} /\ pc' = "exited"
    BY <1>7 DEF Interrupted, FailInterrupted, TreeSame, cleanup
  <2>2. mtime' = mtime \/ mtime' = [mtime EXCEPT ![tp] = -1]
    BY <1>7 DEF Interrupted, FailInterrupted, cleanup
  <2>3. mtime \in [Target -> Int]
    BY DEF Core, TimesOK
  <2>4. mtime' \in [Target -> Int] /\ \A u \in Target : mtime'[u] \in {mtime[u], -1}
    BY <2>2, <2>3
  <2> QED BY <2>1, <2>4, ExitCore
<1>8. CASE Descend
  <2>1. deps[tp][top.p] \in Target
    BY <1>1, <1>8, ElementOfSeq DEF Descend, AtEnd
  <2>2. /\ Enter(deps[tp][top.p]) /\ TreeSame /\ UNCHANGED <<goal, cmds, disk>> /\ pc' = "loop"
        /\ pc = "loop" /\ ~AtEnd
    BY <1>8 DEF Descend, TreeSame
  <2> QED BY <2>1, <2>2, EnterCore
<1>9. CASE NotRemade
  <2>1. Return(TRUE, FALSE) /\ TreeSame /\ UNCHANGED <<stamp, cmds, disk>> /\ pc = "loop" /\ AtEnd
    BY <1>9 DEF NotRemade, TreeSame
  <2> QED BY <1>1, <2>1, ReturnCore
<1>10. CASE UpToDate
  <2>1. Return(FALSE, FALSE) /\ TreeSame /\ UNCHANGED <<stamp, cmds, disk>> /\ pc = "loop" /\ AtEnd
    BY <1>10 DEF UpToDate, TreeSame
  <2> QED BY <1>1, <2>1, ReturnCore
<1>11. CASE NothingToRun
  <2>1. Return(FALSE, TRUE) /\ TreeSame /\ UNCHANGED <<stamp, cmds, disk>> /\ pc = "loop" /\ AtEnd
    BY <1>11 DEF NothingToRun, TreeSame
  <2> QED BY <1>1, <2>1, ReturnCore
<1>12. CASE Remade
  <2>1. Return(FALSE, TRUE) /\ TreeSame /\ UNCHANGED <<stamp, cmds, disk>> /\ pc = "run" /\ cmds = << >>
    BY <1>12 DEF Remade, TreeSame
  <2>2. Busy /\ AtEnd
    BY <2>1, RunningFacts DEF Running
  <2> QED BY <2>1, <2>2, ReturnCore
<1>13. CASE KeepGoing
  <2>1. Return(TRUE, TRUE) /\ TreeSame /\ UNCHANGED <<stamp, cmds, disk>> /\ pc = "failed"
    BY <1>13 DEF KeepGoing, TreeSame
  <2>2. Busy /\ AtEnd /\ cmds = << >>
    BY <2>1, RunningFacts DEF Running, Core, CmdsOK
  <2> QED BY <2>1, <2>2, ReturnCore
<1>14. CASE Update
  <2>1. TreeSame /\ UNCHANGED <<goal, stack, stamp, disk>> /\ pc = "loop" /\ pc' = "run" /\ AtEnd /\ ~top.err /\ Need
    BY <1>14 DEF Update, TreeSame
  <2>2. CmdsOK'
    BY <1>14, <2>1, UpdateCmds, CmdsNext
  <2>3. Writing(None)
    BY <2>1, NotWriting
  <2> QED BY <1>1, <2>1, <2>2, <2>3, RunCore DEF Writing, disk
<1>15. CASE DontKnow \/ GiveUp
  <2>1. TreeSame /\ UNCHANGED <<goal, stack, stamp, cmds, disk>> /\ pc \in {"loop", "failed"} /\ pc' = "exited"
    BY <1>15 DEF DontKnow, GiveUp, TreeSame
  <2> QED BY <2>1, ExitCore DEF disk, Core, TimesOK
<1>16. CASE Skip \/ launch
  <2>1. TreeSame /\ UNCHANGED <<goal, stack, stamp, disk>> /\ pc = "run" /\ pc' \in {"run", "child"} /\ cmds # << >>
    BY <1>16 DEF Skip, launch, TreeSame
  <2>2. Busy /\ AtEnd /\ ~top.err /\ Need
    BY <2>1, RunningFacts DEF Running
  <2>3. CmdsOK'
    <3>1. CASE Skip
      <4>1. cmds' = Tail(cmds) /\ pc' = "run"
        BY <3>1 DEF Skip
      <4> QED BY <2>1, <4>1, CmdsTail, CmdsNext
    <3>2. CASE launch
      <4>1. cmds' = cmds /\ ~Skipped(Head(cmds))
        BY <3>2 DEF launch
      <4> QED BY <2>1, <4>1, CmdsNow, CmdsNext
    <3> QED BY <1>16, <3>1, <3>2
  <2>4. Writing(None)
    BY <2>1, NotWriting
  <2> QED BY <2>1, <2>2, <2>3, <2>4, RunCore DEF Writing, disk
<1>17. CASE Child
  BY <1>17, ChildCore
<1>18. CASE sighandler
  <2>1. TreeSame /\ UNCHANGED <<goal, stack, stamp, cmds, disk, pc>>
    BY <1>18 DEF sighandler, TreeSame
  <2> QED BY <2>1 DEF Core, TreeOK, FramesOK, GoalsOK, TimesOK, CmdsOK, TreeSame, tree, disk, Busy, Running, Skipped, Lax, Goals, top, tp, Last, fl, AtEnd, Need
<1> QED BY <1>2, <1>3, <1>4, <1>5, <1>6, <1>7, <1>8, <1>9, <1>10, <1>11, <1>12, <1>13, <1>14, <1>15, <1>16, <1>17, <1>18
        DEF Next, Self, Done
-----------------------------------------------------------------------------
(* What a signal leaves behind.                                            *)

ToDo(c, h) == c.op = "line" /\ ~Skipped(c) /\ c.file = h

LEMMA PendingTail ==
    ASSUME Core, pc \in {"run", "child"}, cmds # << >>, cmds' = Tail(cmds), TreeSame, NEW h
    PROVE  /\ Pending(h)' <=> \E j \in 2 .. Len(cmds) : ToDo(cmds[j], h)
           /\ Pending(h) <=> Pending(h)' \/ ToDo(Head(cmds), h)
<1>1. PICK C : cmds \in Seq(C)
  BY CmdsNow DEF CmdsList
<1>2. /\ Len(cmds) \in Nat /\ Len(cmds) >= 1 /\ Len(Tail(cmds)) = Len(cmds) - 1 /\ Head(cmds) = cmds[1]
      /\ \A j \in 1 .. Len(cmds) - 1 : Tail(cmds)[j] = cmds[j + 1]
  BY <1>1, TailFacts
<1>3. \A c : ToDo(c, h)' <=> ToDo(c, h)
  BY DEF ToDo, Skipped, fl, TreeSame
<1>4. Pending(h)' <=> \E j \in 1 .. Len(Tail(cmds)) : ToDo(Tail(cmds)[j], h)
  BY <1>3 DEF Pending, ToDo
<1>5. Pending(h) <=> \E j \in 1 .. Len(cmds) : ToDo(cmds[j], h)
  BY DEF Pending, ToDo
<1>6. /\ \A j \in 1 .. Len(Tail(cmds)) : j + 1 \in 2 .. Len(cmds) /\ Tail(cmds)[j] = cmds[j + 1]
      /\ \A j \in 2 .. Len(cmds) : j - 1 \in 1 .. Len(Tail(cmds)) /\ Tail(cmds)[j - 1] = cmds[j]
  BY <1>2
<1>7. Pending(h)' <=> \E j \in 2 .. Len(cmds) : ToDo(cmds[j], h)
  BY <1>4, <1>6
<1>8. \A j \in 1 .. Len(cmds) : j = 1 \/ j \in 2 .. Len(cmds)
  BY <1>2
<1>9. 1 \in 1 .. Len(cmds) /\ \A j \in 2 .. Len(cmds) : j \in 1 .. Len(cmds)
  BY <1>2
<1> QED BY <1>2, <1>5, <1>7, <1>8, <1>9

\* Outside a recipe only the files of lax rules may be cut short.
LEMMA HitQuiet ==
    ASSUME HitOK, pc \notin {"run", "child", "failed", "exited"}, hit' = hit, stop' = stop,
           partial' \subseteq partial, TreeSame, pc' # "parse"
    PROVE  HitOK'
<1>1. \A h : Lax(h)' <=> Lax(h)
  BY DEF Lax, fl, TreeSame, tree
<1>2. partial' \subseteq Target \ mk'.phony
  BY DEF HitOK, TreeSame
<1> QED BY <1>1, <1>2 DEF HitOK
LEMMA HitChild ==
    ASSUME Core, HitOK, Child
    PROVE  HitOK'
<1> DEFINE c == Head(cmds)
<1>1. /\ pc = "child" /\ cmds # << >> /\ ~Skipped(c) /\ TreeSame /\ hit' = hit /\ stop' = stop
      /\ tp' = tp /\ pc' \in {"run", "failed"} /\ tp \in Target
  <2>1. pc = "child" /\ TreeSame /\ hit' = hit /\ stop' = stop /\ stack' = stack /\ pc' \in {"run", "failed"}
    BY DEF Child, Succeeds, IgnoredFailure, Failure, TreeSame
  <2> QED BY <2>1, RunningFacts DEF Core, CmdsOK, Running, top, tp
<1>2. PICK f : CmdsFor(cmds, f)
  BY <1>1, CmdsNow DEF CmdsList
<1>3. /\ c = cmds[1] /\ Len(cmds) \in Nat /\ Len(cmds) >= 1 /\ (c.op # "touch" => c.op = "line")
      /\ c.op # "touch" /\ c.file = tp /\ c.ignore => Lax(tp)
  BY <1>1, HeadFacts
<1>4. /\ \A j \in 1 .. Len(cmds) : cmds[j].op # "touch" => cmds[j].op = "line" /\ cmds[j].file = f
      /\ c.op # "touch" => c.file = f
      /\ f \in {tp, None}
  <2>1. 1 \in 1 .. Len(cmds)
    BY <1>3
  <2> QED BY <1>2, <1>3, <2>1 DEF CmdsFor
<1>5. \A h : Lax(h)' <=> Lax(h)
  BY <1>1 DEF Lax, fl, TreeSame, tree
<1>6. ASSUME NEW h \in hit \cap partial, ~Lax(h) PROVE tp = h /\ Pending(h)
  BY <1>1, <1>6 DEF HitOK
<1>7. None \notin Target /\ partial \subseteq Target \ mk.phony
  BY TimeAssumption DEF HitOK
<1>8. UNCHANGED disk \/ (Writes(c) /\ \E whole : WriteFile(c, whole))
  BY DEF Child, Succeeds, IgnoredFailure, Failure, Spoil
<1>9. partial' \subseteq partial \cup {c.file} /\ (c.op = "touch" => partial' = partial)
      /\ partial' \subseteq Target \ mk'.phony
  <2>1. CASE UNCHANGED disk
    BY <1>1, <1>7, <2>1 DEF disk, TreeSame
  <2>2. CASE Writes(c) /\ \E whole : WriteFile(c, whole)
    <3>1. PICK whole : WriteFile(c, whole)
      BY <2>2
    <3> HIDE DEF c
    <3>2. IF c.file \in Target /\ c.op # "touch"
          THEN partial' = IF whole THEN partial \ {c.file} ELSE partial \cup {c.file}
          ELSE partial' = partial
      BY <3>1, WriteFacts
    <3>3. c.op # "touch" => c.file \notin mk'.phony
      BY <1>1, <2>2 DEF Writes, TreeSame
    <3> QED BY <1>7, <1>1, <3>2, <3>3 DEF TreeSame
  <2> QED BY <1>8, <2>1, <2>2
<1> HIDE DEF c
<1>10. \A h \in hit \cap partial' : ~Lax(h) => tp = h /\ h \in Target /\ (h \notin partial => h = c.file /\ c.op = "line")
  BY <1>3, <1>4, <1>6, <1>7, <1>9
<1>11. CASE Failure
  <2>1. pc' = "failed"
    BY <1>11 DEF Failure
  <2> QED BY <1>1, <1>5, <1>9, <1>10, <2>1 DEF HitOK
<1>12. ASSUME NEW h \in hit \cap partial', ~Lax(h), cmds' = Tail(cmds), c.op = "touch" \/ c.file # h
       PROVE  Pending(h)'
  <2>1. h \in partial /\ Pending(h)
    BY <1>3, <1>6, <1>10, <1>12
  <2>2. ~ToDo(c, h)
    BY <1>12 DEF ToDo
  <2> QED BY <1>1, <1>12, <2>1, <2>2, PendingTail DEF c
<1>13. CASE IgnoredFailure
  <2>1. pc' = "run" /\ cmds' = Tail(cmds) /\ c.ignore
    BY <1>13 DEF IgnoredFailure, c
  <2>2. ASSUME NEW h \in hit \cap partial', ~Lax(h) PROVE c.op = "touch" \/ c.file # h
    <3>1. tp = h
      BY <1>10, <2>2
    <3> QED BY <1>3, <2>1, <2>2, <3>1
  <2> QED BY <1>1, <1>5, <1>9, <1>10, <1>12, <2>1, <2>2 DEF HitOK
<1>14. CASE Succeeds
  <2>1. pc' = "run" /\ cmds' = Tail(cmds)
    BY <1>14 DEF Succeeds
  <2>2. ASSUME NEW h \in hit \cap partial', ~Lax(h) PROVE Pending(h)'
    <3>1. CASE c.op = "touch" \/ c.file # h
      BY <1>12, <2>1, <2>2, <3>1
    <3>2. CASE c.op = "line" /\ c.file = h
      <4>1. tp = h /\ h \in Target /\ f = h
        BY <1>3, <1>4, <1>10, <2>2, <3>2
      <4>2. Writes(c)
        <5>1. CASE h \in partial
          BY <1>7, <3>2, <5>1 DEF Writes
        <5>2. CASE h \notin partial
          <6>1. ~UNCHANGED disk
            BY <2>2, <5>2 DEF disk
          <6> QED BY <1>8, <6>1 DEF c
        <5> QED BY <5>1, <5>2
      <4>3. WriteFile(c, LastLine(c))
        BY <1>14, <4>2 DEF Succeeds, c
      <4>4. ~LastLine(c)
        BY <2>2, <3>2, <4>1, <4>3, WriteFacts
      <4>5. PICK j \in 2 .. Len(cmds) : cmds[j].op # "touch" /\ ~Skipped(cmds[j])
        BY <3>2, <4>4 DEF LastLine
      <4>6. ToDo(cmds[j], h)
        <5>1. j \in 1 .. Len(cmds)
          BY <1>3
        <5> QED BY <1>4, <4>1, <4>5, <5>1 DEF ToDo
      <4> QED BY <1>1, <2>1, <4>6, PendingTail
    <3> QED BY <1>3, <3>1, <3>2
  <2> QED BY <1>1, <1>5, <1>9, <1>10, <2>1, <2>2 DEF HitOK
<1> QED BY <1>11, <1>13, <1>14 DEF Child
LEMMA StepHit == Core /\ HitOK /\ [Next]_vars => HitOK'
<1> SUFFICES ASSUME Core, HitOK, [Next]_vars PROVE HitOK'
  OBVIOUS
<1>1. ASSUME TreeSame PROVE \A h : Lax(h)' <=> Lax(h)
  BY <1>1 DEF Lax, fl, TreeSame, tree
<1>2. CASE UNCHANGED vars
  BY <1>2 DEF HitOK, vars, tree, disk, Lax, Pending, Skipped, fl, tp, top
<1>3. CASE ParseRule
  <2>1. pc = "parse" /\ pc' = "parse" /\ UNCHANGED <<mk, hit, stop, partial>>
    BY <1>3 DEF ParseRule, disk
  <2> QED BY <2>1 DEF HitOK
<1>4. CASE EndParse \/ Build \/ Finish \/ Interrupted \/ Descend \/ NotRemade \/ UpToDate
           \/ Update \/ NothingToRun \/ DontKnow
  <2>1. /\ pc \in {"parse", "main", "loop"} /\ hit' = hit /\ stop' = stop
        /\ TreeSame /\ pc' # "parse"
    BY <1>4 DEF EndParse, Build, Finish, Interrupted, Descend, NotRemade, UpToDate, Update, NothingToRun,
                DontKnow, TreeSame, Return, cleanup
  <2>2. partial' \subseteq partial
    <3>1. partial' = partial \/ partial' = partial \ {tp}
      BY <1>4 DEF EndParse, Build, Finish, Interrupted, Descend, NotRemade, UpToDate, Update, NothingToRun,
                DontKnow, disk, cleanup
    <3> QED BY <3>1
  <2> QED BY <2>1, <2>2, HitQuiet
<1>5. CASE Remade
  <2>1. pc = "run" /\ cmds = << >> /\ pc' # "parse" /\ UNCHANGED <<hit, stop, partial>> /\ TreeSame
    BY <1>5 DEF Remade, Return, disk, TreeSame
  <2>2. \A h : ~Pending(h)
    BY <2>1, EmptySeq DEF Pending
  <2>3. \A h \in hit \cap partial : Lax(h)
    BY <2>1, <2>2 DEF HitOK
  <2> QED BY <1>1, <2>1, <2>3 DEF HitOK, TreeSame
<1>6. CASE KeepGoing \/ GiveUp
  <2>1. hit = {} /\ pc' # "parse" /\ UNCHANGED <<hit, stop, partial>> /\ TreeSame
    BY <1>6 DEF KeepGoing, GiveUp, StopOnError, Return, disk, TreeSame, HitOK
  <2> QED BY <2>1 DEF HitOK, TreeSame
<1>7. CASE FailInterrupted
  <2>1. /\ pc = "failed" /\ pc' = "exited" /\ UNCHANGED <<hit, stop>> /\ TreeSame
        /\ partial' = IF tp \in mk.precious THEN partial ELSE partial \ {tp}
    BY <1>7 DEF FailInterrupted, cleanup, TreeSame
  <2>2. partial' \subseteq partial
    BY <2>1
  <2>3. \A h \in hit \cap partial' : Lax(h) \/ h \in mk.precious
    BY <2>1, <2>2 DEF HitOK
  <2> QED BY <1>1, <2>1, <2>2, <2>3 DEF HitOK, TreeSame
<1>8. CASE Skip
  <2>1. /\ pc = "run" /\ pc' = "run" /\ UNCHANGED <<hit, stop, partial, stack>> /\ TreeSame
        /\ cmds # << >> /\ Skipped(Head(cmds)) /\ cmds' = Tail(cmds) /\ tp' = tp
    BY <1>8 DEF Skip, disk, TreeSame, tp, top
  <2>2. \A h \in hit \cap partial : Lax(h) \/ (tp = h /\ Pending(h))
    BY <2>1 DEF HitOK
  <2>3. \A h : ~ToDo(Head(cmds), h)
    BY <2>1 DEF ToDo
  <2>4. \A h : Pending(h) => Pending(h)'
    BY <2>1, <2>3, PendingTail
  <2> QED BY <1>1, <2>1, <2>2, <2>4 DEF HitOK, TreeSame
<1>9. CASE launch
  <2>1. pc = "run" /\ pc' = "child" /\ UNCHANGED <<hit, stop, partial, stack, cmds>> /\ TreeSame /\ tp' = tp
    BY <1>9 DEF launch, disk, TreeSame, tp, top
  <2>2. \A h : Pending(h)' <=> Pending(h)
    BY <2>1 DEF Pending, Skipped, fl, TreeSame
  <2> QED BY <1>1, <2>1, <2>2 DEF HitOK, TreeSame
<1>10. CASE sighandler
  <2>1. UNCHANGED <<pc, partial, stack, cmds>> /\ TreeSame /\ stop' /\ tp' = tp
    BY <1>10 DEF sighandler, disk, TreeSame, tp, top
  <2>2. \A h : (Pending(h)' <=> Pending(h)) /\ (Lax(h)' <=> Lax(h))
    BY <1>1, <2>1 DEF Pending, Skipped, fl, TreeSame
  <2>3. ASSUME NEW h \in hit' \ hit, h \in partial PROVE pc \in {"run", "child"} /\ tp = h /\ Pending(h)
    <3>1. pc = "child" /\ Head(cmds).op = "line" /\ h = Head(cmds).file
      BY <1>10, <2>3 DEF sighandler
    <3>2. cmds # << >> /\ ~Skipped(Head(cmds)) /\ h \in Target
      BY <2>3, <3>1 DEF Core, CmdsOK, HitOK
    <3>3. Head(cmds) = cmds[1] /\ Len(cmds) \in Nat /\ Len(cmds) >= 1 /\ h \in {tp, None}
      BY <3>1, <3>2, HeadFacts
    <3>4. 1 \in 1 .. Len(cmds)
      BY <3>3
    <3> QED BY <3>1, <3>2, <3>3, <3>4, TimeAssumption DEF Pending
  <2> QED BY <2>1, <2>2, <2>3 DEF HitOK, TreeSame
<1>11. CASE Child
  BY <1>11, HitChild
<1> QED BY <1>2, <1>3, <1>4, <1>5, <1>6, <1>7, <1>8, <1>9, <1>10, <1>11 DEF Next, Self, Done

(***************************************************************************)
(* A signal leaves no half-written file (sighandler(), and cleanup() called *)
(* from rebuild()): once make has ended, the file whose recipe ran when the *)
(* signal arrived was removed or is whole, unless it is precious or errors *)
(* of its recipe are ignored.                                              *)
(***************************************************************************)
THEOREM SignalCleansUp == Spec => []InterruptedGone
<1>1. Init => Core /\ HitOK
  BY InitCore DEF Init, HitOK
<1>2. Core /\ HitOK /\ [Next]_vars => (Core /\ HitOK)'
  BY StepCore, StepHit
<1>3. HitOK => InterruptedGone
  BY DEF HitOK, InterruptedGone
<1> QED BY <1>1, <1>2, <1>3, PTL DEF Spec
-----------------------------------------------------------------------------
(* What the exit status says.                                              *)

LEMMA RangeTypes ==
    ASSUME TreeOK, NEW t \in Target
    PROVE  /\ Range(deps[t]) \subseteq Target /\ deps[t] \in Seq(Target) /\ Len(deps[t]) \in Nat
           /\ \A d \in Range(deps[t]) : \E k \in 1 .. Len(deps[t]) : d = deps[t][k]
           /\ \A k \in 1 .. Len(deps[t]) : deps[t][k] \in Range(deps[t])
<1>1. deps[t] \in Seq(Target)
  BY DEF TreeOK
<1>2. DOMAIN deps[t] = 1 .. Len(deps[t]) /\ Len(deps[t]) \in Nat /\ \A j \in 1 .. Len(deps[t]) : deps[t][j] \in Target
  BY <1>1, ElementOfSeq, LenProperties
<1> QED BY <1>1, <1>2 DEF Range

\* Reach(S) holds S and the prerequisites of all its members.
LEMMA ReachFacts ==
    ASSUME TreeOK, NEW S
    PROVE  /\ Reach(S) \subseteq Target /\ S \cap Target \subseteq Reach(S)
           /\ \A t \in Reach(S) : \A d \in Range(deps[t]) : d \in Reach(S)
<1>1. Reach(S) \subseteq Target /\ S \cap Target \subseteq Reach(S)
  BY DEF Reach
<1>2. ASSUME NEW t \in Reach(S), NEW d \in Range(deps[t]) PROVE d \in Reach(S)
  <2>1. t \in Target
    BY <1>1
  <2>2. d \in Target
    BY <2>1, RangeTypes
  <2>3. \A U \in SUBSET Target : S \subseteq U /\ Closed(U) => t \in U
    BY DEF Reach
  <2> QED BY <2>2, <2>3 DEF Reach, Closed
<1> QED BY <1>1, <1>2

LEMMA LogFacts ==
    ASSUME log \in Seq([t : Target, ok : BOOLEAN]), NEW t \in Target, NEW ok \in BOOLEAN,
           log' = Append(log, [t |-> t, ok |-> ok])
    PROVE  /\ log' \in Seq([t : Target, ok : BOOLEAN]) /\ Len(log) \in Nat /\ Len(log') = Len(log) + 1
           /\ DOMAIN log = 1 .. Len(log) /\ DOMAIN log' = 1 .. Len(log) + 1
           /\ \A j \in 1 .. Len(log) : log'[j] = log[j]
           /\ log'[Len(log) + 1] = [t |-> t, ok |-> ok]
           /\ Failed' <=> Failed \/ ~ok
<1> DEFINE e == [t |-> t, ok |-> ok]
<1>1. e \in [t : Target, ok : BOOLEAN] /\ (e.ok <=> ok)
  OBVIOUS
<1> HIDE DEF e
<1>2. log' = Append(log, e)
  BY DEF e
<1>3. /\ log' \in Seq([t : Target, ok : BOOLEAN]) /\ Len(log) \in Nat /\ Len(log') = Len(log) + 1
      /\ \A j \in 1 .. Len(log) : log'[j] = log[j]
      /\ log'[Len(log) + 1] = e
  BY <1>1, <1>2, AppendFacts
<1>4. DOMAIN log = 1 .. Len(log) /\ DOMAIN log' = 1 .. Len(log) + 1
  BY <1>3, LenProperties
<1>5. \A j \in 1 .. Len(log) + 1 : j \in 1 .. Len(log) \/ j = Len(log) + 1
  BY <1>3
<1>6. Len(log) + 1 \in 1 .. Len(log) + 1 /\ \A j \in 1 .. Len(log) : j \in 1 .. Len(log) + 1
  BY <1>3
<1>7. Failed' <=> \E j \in 1 .. Len(log) + 1 : ~log'[j].ok
  BY <1>4 DEF Failed
<1>8. Failed <=> \E j \in 1 .. Len(log) : ~log[j].ok
  BY <1>4 DEF Failed
<1>9. Failed' <=> Failed \/ ~e.ok
  BY <1>3, <1>5, <1>6, <1>7, <1>8
<1> QED BY <1>1, <1>3, <1>4, <1>9 DEF e

\* The frames of a goal are below it, and one that has an error has set the status.
FramesExit ==
    \A j \in 1 .. Len(stack) : stack[j].tp \in Reach(Range(Goals)) /\ (stack[j].err => exitstatus = 1)
StatusOK ==
    /\ log \in Seq([t : Target, ok : BOOLEAN]) /\ exitstatus \in {0, 1}
    /\ Failed => exitstatus = 1 \/ pc \in {"failed", "exited"}
    /\ pc = "failed" => Failed
    /\ exitstatus = 1 => Failed \/ fl.q

LEMMA ExitParts ==
    ExitOK <=> StatusOK /\ FramesExit /\ (pc # "exited" <=> status = "running") /\ ExitHonest
  BY DEF ExitOK, StatusOK, FramesExit

LEMMA GoalsReached ==
    ASSUME TreeOK, NEW g \in 1 .. Len(Goals)
    PROVE  Goals[g] \in Reach(Range(Goals))
<1>1. Goals[g] \in Target /\ Goals[g] \in Range(Goals)
  <2>1. DOMAIN Goals = 1 .. Len(Goals)
    BY GoalsTypes, LenProperties
  <2> QED BY <2>1, GoalsTypes DEF Range
<1> QED BY <1>1, ReachFacts

LEMMA ExitEnter ==
    ASSUME Core, FramesExit, NEW t \in Target, Enter(t), TreeSame, exitstatus' = exitstatus,
           \/ pc = "main" /\ goal <= Len(Goals) /\ t = Goals[goal]
           \/ pc = "loop" /\ ~AtEnd /\ t = deps[tp][top.p]
    PROVE  FramesExit'
<1>1. /\ Len(stack) \in Nat /\ Len(stack') = Len(stack) + 1 /\ \A j \in 1 .. Len(stack) : stack'[j] = stack[j]
      /\ stack'[Len(stack) + 1].tp = t /\ ~stack'[Len(stack) + 1].err
  BY EnterFacts, StackTypes DEF Entered
<1>2. TreeOK /\ goal \in Nat \ {0}
  BY DEF Core, GoalsOK
<1>3. t \in Reach(Range(Goals))
  <2>1. CASE pc = "main" /\ goal <= Len(Goals) /\ t = Goals[goal]
    <3>1. goal \in 1 .. Len(Goals)
      BY <1>2, <2>1, GoalsTypes
    <3> QED BY <1>2, <2>1, <3>1, GoalsReached
  <2>2. CASE pc = "loop" /\ ~AtEnd /\ t = deps[tp][top.p]
    <3>1. /\ Len(stack) >= 1 /\ tp = stack[Len(stack)].tp /\ deps[tp] \in Seq(Target) /\ Len(deps[tp]) \in Nat
          /\ top.p \in Nat \ {0}
      BY <2>2, StackTypes DEF Core, FramesOK, Busy, tp
    <3>2. tp \in Reach(Range(Goals))
      BY <1>1, <3>1 DEF FramesExit
    <3>3. t \in Range(deps[tp])
      <4>1. top.p \in 1 .. Len(deps[tp]) /\ DOMAIN deps[tp] = 1 .. Len(deps[tp])
        BY <2>2, <3>1, LenProperties DEF AtEnd
      <4> QED BY <2>2, <4>1 DEF Range
    <3> QED BY <1>2, <3>2, <3>3, ReachFacts
  <2> QED BY <2>1, <2>2
<1>4. Reach(Range(Goals))' = Reach(Range(Goals))
  BY DEF TreeSame, tree, Goals, Reach, Closed
<1>5. \A j \in 1 .. Len(stack) + 1 : j \in 1 .. Len(stack) \/ j = Len(stack) + 1
  BY <1>1
<1> QED BY <1>1, <1>3, <1>4, <1>5 DEF FramesExit

LEMMA ExitReturn ==
    ASSUME Core, FramesExit, stack # << >>, NEW r \in BOOLEAN, NEW build \in BOOLEAN, Return(r, build), TreeSame,
           exitstatus = 1 => exitstatus' = 1, r => exitstatus' = 1
    PROVE  FramesExit'
<1>1. GoalDone \/ Popped(r, build)
  BY ReturnFacts
<1>2. Reach(Range(Goals))' = Reach(Range(Goals))
  BY DEF TreeSame, tree, Goals, Reach, Closed
<1>3. CASE GoalDone
  BY <1>3, EmptySeq DEF GoalDone, FramesExit
<1>4. CASE Popped(r, build)
  <2> DEFINE n == Len(stack) - 1
  <2>1. n \in Nat /\ n >= 1 /\ Len(stack') = n /\ Len(stack) \in Nat
    BY <1>4, StackTypes DEF Popped
  <2>2. \A j \in 1 .. n : j \in 1 .. Len(stack) /\ (j # n => j \in 1 .. Len(stack) - 2)
    BY <2>1
  <2>3. \A j \in 1 .. n : stack'[j].tp = stack[j].tp /\ (stack'[j].err => stack[j].err \/ r)
    BY <1>4, <2>2 DEF Popped
  <2> HIDE DEF n
  <2>4. \A j \in 1 .. Len(stack) : stack[j].tp \in Reach(Range(Goals)) /\ (stack[j].err => exitstatus = 1)
    BY DEF FramesExit
  <2> QED BY <1>2, <2>1, <2>2, <2>3, <2>4 DEF FramesExit
<1> QED BY <1>1, <1>3, <1>4

LEMMA ExitKeeps ==
    ASSUME FramesExit, TreeSame, stack' = stack, exitstatus = 1 => exitstatus' = 1
    PROVE  FramesExit'
<1>1. Reach(Range(Goals))' = Reach(Range(Goals))
  BY DEF TreeSame, tree, Goals, Reach, Closed
<1> QED BY <1>1 DEF FramesExit

\* A step after which make still runs.
LEMMA ExitGoesOn ==
    ASSUME ExitOK, mk' = mk, status' = status, pc # "exited", pc' # "exited", FramesExit',
           log' \in Seq([t : Target, ok : BOOLEAN]), exitstatus' \in {0, 1},
           exitstatus = 1 => exitstatus' = 1, exitstatus' = 1 => exitstatus = 1 \/ fl.q \/ Failed,
           Failed => Failed', Failed' => Failed \/ pc' = "failed", pc' = "failed" => Failed',
           pc = "failed" => exitstatus' = 1 \/ pc' = "failed"
    PROVE  ExitOK'
<1>1. fl' = fl /\ status = "running"
  BY ExitParts DEF fl
<1>2. StatusOK'
  BY <1>1, ExitParts DEF StatusOK
<1>3. ExitHonest' /\ (pc' # "exited" <=> status' = "running")
  BY <1>1 DEF ExitHonest
<1>4. ExitOK' <=> StatusOK' /\ FramesExit' /\ (pc' # "exited" <=> status' = "running") /\ ExitHonest'
  BY DEF ExitOK, StatusOK, FramesExit
<1> QED BY <1>2, <1>3, <1>4

\* A step with which make ends.
LEMMA ExitEnds ==
    ASSUME ExitOK, FramesExit', TreeSame, UNCHANGED log, pc' = "exited", status' \in {"0", "1", "signal"},
           exitstatus' \in {0, 1}, exitstatus' = 1 => exitstatus = 1 \/ fl.q \/ Failed,
           status' = "0" => ~Failed,
           status' = "1" => Failed \/ fl.q \/ \E t \in Reach(Range(Goals)) : mtime'[t] = -1 /\ t \notin defined
    PROVE  ExitOK'
<1>1. Reach(Range(Goals))' = Reach(Range(Goals)) /\ fl' = fl /\ defined' = defined
  BY DEF TreeSame, tree, Goals, Reach, Closed, fl
<1>2. Failed' <=> Failed
  BY DEF Failed
<1>3. StatusOK'
  BY <1>1, <1>2, ExitParts DEF StatusOK
<1>4. status' = "0" => ~Failed'
  BY <1>2
<1>5. status' = "1" => Failed' \/ fl'.q \/ \E t \in Reach(Range(Goals))' : mtime'[t] = -1 /\ t \notin defined'
  BY <1>1, <1>2
<1>6. ExitHonest'
  BY <1>4, <1>5 DEF ExitHonest, Failed
<1>7. ExitOK' <=> StatusOK' /\ FramesExit' /\ (pc' # "exited" <=> status' = "running") /\ ExitHonest'
  BY DEF ExitOK, StatusOK, FramesExit
<1> QED BY <1>3, <1>6, <1>7

\* A target without a rule has no prerequisites: its time was just read.
LEMMA UnknownMissing ==
    ASSUME Core, FramesExit, DontKnow
    PROVE  tp \in Reach(Range(Goals)) /\ mtime[tp] = -1 /\ tp \notin defined
<1>1. pc = "loop" /\ AtEnd /\ Need /\ tp \notin defined
  BY DEF DontKnow
<1>2. stack # << >>
  BY <1>1 DEF Core, FramesOK, Busy
<1>3. /\ Len(stack) \in Nat /\ Len(stack) >= 1 /\ top = stack[Len(stack)] /\ tp \in Target /\ top.p \in Nat \ {0}
      /\ Len(deps[tp]) \in Nat /\ tp = stack[Len(stack)].tp
  BY <1>2, StackTypes DEF tp
<1>4. Len(stack) \in 1 .. Len(stack)
  BY <1>3
<1>5. deps[tp] = << >> /\ Len(deps[tp]) = 0
  BY <1>1, <1>3, EmptySeq DEF Core, TreeOK
<1>6. top.p <= Len(deps[tp]) + 1 /\ (top.p = 1 => ~top.need)
  BY <1>3, <1>4, FramesParts DEF Indices
<1>7. top.p = 1
  BY <1>3, <1>5, <1>6
<1>8. stamp[tp] = -1 /\ stamp[tp] = mtime[tp]
  BY <1>1, <1>6, <1>7 DEF Need, Core, TimesOK
<1>9. tp \in Reach(Range(Goals))
  BY <1>3, <1>4 DEF FramesExit
<1> QED BY <1>1, <1>8, <1>9
LEMMA StepExit == Core /\ ExitOK /\ [Next]_vars => ExitOK'
<1> SUFFICES ASSUME Core, ExitOK, [Next]_vars PROVE ExitOK'
  OBVIOUS
<1>0. FramesExit /\ log \in Seq([t : Target, ok : BOOLEAN]) /\ exitstatus \in {0, 1} /\ TreeOK
  BY ExitParts DEF StatusOK, Core
<1>1. pc = "loop" => stack # << >> /\ tp \in Target /\ deps[tp] \in Seq(Target) /\ Len(deps[tp]) \in Nat /\ top.p \in Nat \ {0}
  BY StackTypes DEF Core, FramesOK, Busy
<1>2. ASSUME log' = log PROVE Failed' <=> Failed
  BY <1>2 DEF Failed
<1>3. CASE UNCHANGED vars
  <2>1. TreeSame /\ UNCHANGED <<pc, stack, status, exitstatus, log, mtime>>
    BY <1>3 DEF vars, TreeSame, disk
  <2>2. FramesExit' /\ Reach(Range(Goals))' = Reach(Range(Goals))
    BY <1>0, <2>1, ExitKeeps DEF TreeSame, tree, Goals, Reach, Closed
  <2>3. StatusOK'
    BY <2>1, ExitParts DEF StatusOK, Failed, TreeSame, fl
  <2>4. ExitHonest'
    BY <2>1, <2>2, ExitParts DEF ExitHonest, TreeSame, tree, fl
  <2>5. ExitOK' <=> StatusOK' /\ FramesExit' /\ (pc' # "exited" <=> status' = "running") /\ ExitHonest'
    BY DEF ExitOK, StatusOK, FramesExit
  <2>6. pc' # "exited" <=> status' = "running"
    BY <2>1, ExitParts
  <2> QED BY <2>2, <2>3, <2>4, <2>5, <2>6
<1>4. CASE ParseRule
  <2>1. /\ UNCHANGED <<mk, status, log, exitstatus>> /\ pc = "parse" /\ pc' = "parse"
        /\ stack' = << >> /\ Len(stack') = 0
    BY <1>4, ParseCore, EmptySeq DEF ParseRule
  <2>2. FramesExit'
    BY <2>1 DEF FramesExit
  <2> QED BY <1>0, <1>2, <2>1, <2>2, ExitGoesOn
<1>5. CASE EndParse \/ Update \/ launch \/ Skip \/ sighandler \/ Succeeds \/ IgnoredFailure
  <2>1. /\ TreeSame /\ UNCHANGED <<stack, status, log>> /\ pc # "exited" /\ pc' # "exited"
        /\ pc' = "failed" <=> pc = "failed"
    BY <1>5 DEF EndParse, Update, launch, Skip, sighandler, Succeeds, IgnoredFailure, TreeSame
  <2>2. exitstatus' = exitstatus \/ (exitstatus' = 1 /\ fl.q)
    BY <1>5 DEF EndParse, Update, launch, Skip, sighandler, Succeeds, IgnoredFailure
  <2>3. FramesExit'
    BY <1>0, <2>1, <2>2, ExitKeeps
  <2>4. pc = "failed" => Failed
    BY ExitParts DEF StatusOK
  <2> QED BY <1>0, <1>2, <2>1, <2>2, <2>3, <2>4, ExitGoesOn DEF TreeSame
<1>6. CASE Build \/ Descend
  <2>1. /\ TreeSame /\ UNCHANGED <<exitstatus, status, log>> /\ pc \in {"main", "loop"} /\ pc' = "loop"
    BY <1>6 DEF Build, Descend, TreeSame
  <2>2. FramesExit'
    <3>1. CASE Build
      <4>1. Goals[goal] \in Target
        BY <3>1, GoalsTypes DEF Build, Core, GoalsOK
      <4>2. Enter(Goals[goal]) /\ pc = "main" /\ goal <= Len(Goals)
        BY <3>1 DEF Build
      <4> QED BY <1>0, <2>1, <4>1, <4>2, ExitEnter
    <3>2. CASE Descend
      <4>1. deps[tp][top.p] \in Target
        BY <1>1, <3>2, ElementOfSeq DEF Descend, AtEnd
      <4>2. Enter(deps[tp][top.p]) /\ pc = "loop" /\ ~AtEnd
        BY <3>2 DEF Descend
      <4> QED BY <1>0, <2>1, <4>1, <4>2, ExitEnter
    <3> QED BY <1>6, <3>1, <3>2
  <2> QED BY <1>0, <1>2, <2>1, <2>2, ExitGoesOn DEF TreeSame
<1>7. CASE NotRemade \/ UpToDate \/ NothingToRun
  <2>1. /\ TreeSame /\ UNCHANGED <<exitstatus, status, log>> /\ pc = "loop" /\ stack # << >>
    BY <1>1, <1>7 DEF NotRemade, UpToDate, NothingToRun, TreeSame
  <2>2. pc' \in {"main", "loop"} /\ FramesExit'
    <3>1. CASE NotRemade
      <4>1. Return(TRUE, FALSE) /\ top.err
        BY <3>1 DEF NotRemade
      <4>2. Len(stack) \in 1 .. Len(stack) /\ top = stack[Len(stack)]
        BY <2>1, StackTypes
      <4>3. exitstatus = 1
        BY <1>0, <4>1, <4>2 DEF FramesExit
      <4> QED BY <1>0, <2>1, <4>1, <4>3, ExitReturn DEF Return
    <3>2. CASE UpToDate \/ NothingToRun
      <4>1. PICK b \in BOOLEAN : Return(FALSE, b)
        BY <3>2 DEF UpToDate, NothingToRun
      <4> QED BY <1>0, <2>1, <4>1, ExitReturn DEF Return
    <3> QED BY <1>7, <3>1, <3>2
  <2> QED BY <1>0, <1>2, <2>1, <2>2, ExitGoesOn DEF TreeSame
<1>8. CASE Remade
  <2>1. /\ TreeSame /\ UNCHANGED <<exitstatus, status>> /\ pc = "run" /\ Return(FALSE, TRUE)
        /\ log' = Append(log, [t |-> tp, ok |-> TRUE])
    BY <1>8 DEF Remade, TreeSame
  <2>2. stack # << >> /\ tp \in Target
    BY <2>1, RunningFacts DEF Running
  <2>3. log' \in Seq([t : Target, ok : BOOLEAN]) /\ (Failed' <=> Failed)
    BY <1>0, <2>1, <2>2, LogFacts
  <2>4. pc' \in {"main", "loop"}
    BY <2>1 DEF Return
  <2>5. FramesExit'
    BY <1>0, <2>1, <2>2, ExitReturn
  <2> QED BY <1>0, <2>1, <2>3, <2>4, <2>5, ExitGoesOn DEF TreeSame
<1>9. CASE Failure
  <2>1. /\ TreeSame /\ UNCHANGED <<exitstatus, status, stack>> /\ pc = "child" /\ pc' = "failed"
        /\ log' = Append(log, [t |-> tp, ok |-> FALSE])
    BY <1>9 DEF Failure, TreeSame
  <2>2. tp \in Target
    BY <2>1, RunningFacts DEF Running
  <2>3. log' \in Seq([t : Target, ok : BOOLEAN]) /\ Failed'
    BY <1>0, <2>1, <2>2, LogFacts
  <2>4. FramesExit'
    BY <1>0, <2>1, ExitKeeps
  <2> QED BY <1>0, <2>1, <2>3, <2>4, ExitGoesOn DEF TreeSame
<1>10. CASE KeepGoing
  <2>1. TreeSame /\ UNCHANGED <<status, log>> /\ exitstatus' = 1 /\ pc = "failed" /\ Return(TRUE, TRUE)
    BY <1>10 DEF KeepGoing, TreeSame
  <2>2. stack # << >> /\ Failed
    BY <2>1, RunningFacts, ExitParts DEF Running, StatusOK
  <2>3. pc' \in {"main", "loop"} /\ FramesExit'
    BY <1>0, <2>1, <2>2, ExitReturn DEF Return
  <2> QED BY <1>0, <1>2, <2>1, <2>2, <2>3, ExitGoesOn DEF TreeSame
<1>11. CASE Finish
  <2>1. /\ TreeSame /\ UNCHANGED <<exitstatus, log, stack>> /\ pc = "main" /\ pc' = "exited"
        /\ status' = IF exitstatus = 0 THEN "0" ELSE "1"
    BY <1>11 DEF Finish, TreeSame
  <2>2. FramesExit'
    BY <1>0, <2>1, ExitKeeps
  <2>3. (exitstatus = 0 => ~Failed) /\ (exitstatus = 1 => Failed \/ fl.q)
    BY <2>1, ExitParts DEF StatusOK
  <2> QED BY <1>0, <2>1, <2>2, <2>3, ExitEnds
<1>12. CASE Interrupted \/ FailInterrupted
  <2>1. TreeSame /\ UNCHANGED <<exitstatus, log, stack>> /\ pc' = "exited" /\ status' = "signal"
    BY <1>12 DEF Interrupted, FailInterrupted, cleanup, TreeSame
  <2>2. FramesExit'
    BY <1>0, <2>1, ExitKeeps
  <2> QED BY <1>0, <2>1, <2>2, ExitEnds
<1>13. CASE GiveUp
  <2>1. TreeSame /\ UNCHANGED <<log, stack>> /\ exitstatus' = 1 /\ pc = "failed" /\ pc' = "exited" /\ status' = "1"
    BY <1>13 DEF GiveUp, TreeSame
  <2>2. FramesExit' /\ Failed
    BY <1>0, <2>1, ExitKeeps, ExitParts DEF StatusOK
  <2> QED BY <1>0, <2>1, <2>2, ExitEnds
<1>14. CASE DontKnow
  <2>1. TreeSame /\ UNCHANGED <<exitstatus, log, stack, mtime>> /\ pc' = "exited" /\ status' = "1"
    BY <1>14 DEF DontKnow, TreeSame, disk
  <2>2. FramesExit'
    BY <1>0, <2>1, ExitKeeps
  <2>3. tp \in Reach(Range(Goals)) /\ mtime'[tp] = -1 /\ tp \notin defined
    BY <1>0, <1>14, <2>1, UnknownMissing
  <2> QED BY <1>0, <2>1, <2>2, <2>3, ExitEnds
<1> QED BY <1>3, <1>4, <1>5, <1>6, <1>7, <1>8, <1>9, <1>10, <1>11, <1>12, <1>13, <1>14
        DEF Next, Self, Child, Done

(***************************************************************************)
(* The exit status (main(), update(), launch()): 0 only if no recipe       *)
(* failed, 1 only if one did, if a file below the goals is missing and has *)
(* no rule, or if -q found work to do.                                     *)
(***************************************************************************)
THEOREM StatusTellsTruth == Spec => []ExitHonest
<1>1. Init => Core /\ ExitOK
  <2> SUFFICES ASSUME Init PROVE Core /\ ExitOK
    OBVIOUS
  <2>1. Len(log) = 0 /\ DOMAIN log = {} /\ Len(stack) = 0 /\ log \in Seq([t : Target, ok : BOOLEAN])
    <3>1. log = << >> /\ stack = << >>
      BY DEF Init
    <3> QED BY <3>1, EmptySeq
  <2>2. StatusOK /\ FramesExit /\ (pc # "exited" <=> status = "running") /\ ExitHonest
    BY <2>1 DEF Init, StatusOK, FramesExit, ExitHonest, Failed
  <2> QED BY <2>2, InitCore, ExitParts
<1>2. Core /\ ExitOK /\ [Next]_vars => (Core /\ ExitOK)'
  BY StepCore, StepExit
<1>3. ExitOK => ExitHonest
  BY ExitParts
<1> QED BY <1>1, <1>2, <1>3, PTL DEF Spec
-----------------------------------------------------------------------------
(* Reachable targets and steady ones.                                      *)

LEMMA ReachLeast ==
    ASSUME NEW S, NEW U, U \subseteq Target, S \subseteq U, Closed(U)
    PROVE  Reach(S) \subseteq U
  BY DEF Reach

LEMMA ReachMono ==
    ASSUME TreeOK, NEW S, NEW T, S \cap Target \subseteq Reach(T), S \subseteq Target
    PROVE  Reach(S) \subseteq Reach(T)
<1>1. Reach(T) \subseteq Target /\ Closed(Reach(T))
  BY ReachFacts DEF Closed
<1> QED BY <1>1, ReachLeast

\* What S reaches, one of its members reaches.
LEMMA ReachSplit ==
    ASSUME TreeOK, NEW S, S \subseteq Target, NEW t \in Reach(S)
    PROVE  \E s \in S : t \in Reach({s})
<1> DEFINE U == {u \in Target : \E s \in S : u \in Reach({s})}
<1>1. S \subseteq U
  BY ReachFacts
<1>2. Closed(U)
  <2>1. ASSUME NEW u \in U, NEW d \in Range(deps[u]) PROVE d \in U
    <3>1. PICK s \in S : u \in Reach({s})
      OBVIOUS
    <3>2. d \in Reach({s}) /\ Reach({s}) \subseteq Target
      BY <3>1, <2>1, ReachFacts
    <3> QED BY <3>2
  <2> QED BY <2>1 DEF Closed
<1>3. Reach(S) \subseteq U
  <2> HIDE DEF U
  <2>1. U \subseteq Target
    BY DEF U
  <2> QED BY <1>1, <1>2, <2>1, ReachLeast
<1> QED BY <1>3

\* What t reaches is t or reached by one of its prerequisites.
LEMMA ReachNext ==
    ASSUME TreeOK, NEW t \in Target, NEW s \in Reach({t})
    PROVE  s = t \/ \E d \in Range(deps[t]) : s \in Reach({d})
<1> DEFINE U == {t} \cup Reach(Range(deps[t]))
<1>1. Range(deps[t]) \subseteq Target
  BY RangeTypes
<1>2. U \subseteq Target /\ {t} \subseteq U
  BY ReachFacts
<1>3. Closed(U)
  BY <1>1, ReachFacts DEF Closed
<1>4. s \in U
  <2> HIDE DEF U
  <2> QED BY <1>2, <1>3, ReachLeast
<1> QED BY <1>1, <1>4, ReachSplit

LEMMA SteadyFacts ==
    ASSUME TreeOK, NEW t \in Target, Steady(t)
    PROVE  /\ ~Phony(t) /\ ~Lax(t) /\ t \in Base(t)
           /\ \A d \in Range(deps[t]) : d \in Target /\ Steady(d) /\ d \in Base(d)
<1>1. t \in Reach({t})
  BY ReachFacts
<1>2. ASSUME NEW d \in Range(deps[t]) PROVE d \in Target /\ Steady(d) /\ d \in Base(d)
  <2>1. d \in Target /\ d \in Reach({t})
    BY <1>1, RangeTypes, ReachFacts
  <2>2. Reach({d}) \subseteq Reach({t})
    BY <2>1, ReachMono
  <2>3. Steady(d)
    BY <2>2 DEF Steady
  <2> QED BY <2>1, <2>3, ReachFacts DEF Base
<1> QED BY <1>1, <1>2 DEF Steady, Base

LEMMA BaseNext ==
    ASSUME TreeOK, NEW t \in Target, NEW U, \A d \in Range(deps[t]) : Base(d) \subseteq U
    PROVE  Base(t) \subseteq U \cup {t} /\ (~Steady(t) => Base(t) \subseteq U)
<1>1. ASSUME NEW s \in Base(t) PROVE s \in U \/ (s = t /\ Steady(t))
  <2>1. s \in Reach({t}) /\ Steady(s)
    BY DEF Base
  <2>2. s = t \/ \E d \in Range(deps[t]) : s \in Reach({d})
    BY <2>1, ReachNext
  <2> QED BY <2>1, <2>2 DEF Base
<1> QED BY <1>1

\* All this depends on the graph only.
LEMMA SteadySame ==
    ASSUME TreeSame
    PROVE  /\ Goals' = Goals /\ Reach(Range(Goals))' = Reach(Range(Goals))
           /\ \A t : (Steady(t)' <=> Steady(t)) /\ Base(t)' = Base(t)
<1>1. mk' = mk /\ deps' = deps /\ actions' = actions /\ defined' = defined /\ deftarget' = deftarget
  BY DEF TreeSame, tree
<1>2. \A S : Reach(S)' = Reach(S)
  BY <1>1 DEF Reach, Closed
<1>3. \A t : (Phony(t)' <=> Phony(t)) /\ (Lax(t)' <=> Lax(t))
  BY <1>1 DEF Phony, Lax, fl
<1>4. \A t : Steady(t)' <=> Steady(t)
  BY <1>2, <1>3 DEF Steady
<1>5. \A t : Base(t)' = Base(t)
  BY <1>2, <1>4 DEF Base
<1> QED BY <1>1, <1>2, <1>4, <1>5 DEF Goals
-----------------------------------------------------------------------------
(* The history of what was remade.                                         *)

LogOK == log \in Seq([t : Target, ok : BOOLEAN])

LEMMA LogKeep ==
    ASSUME log' = log
    PROVE  (Failed' <=> Failed) /\ \A s : Remakings(s)' = Remakings(s) /\ (FailedLast(s)' <=> FailedLast(s))
  BY DEF Failed, Remakings, FailedLast

LEMMA LogMore ==
    ASSUME LogOK, NEW x \in Target, NEW b \in BOOLEAN, log' = Append(log, [t |-> x, ok |-> b])
    PROVE  /\ \A s : s # x => Remakings(s)' = Remakings(s) /\ (FailedLast(s)' <=> FailedLast(s))
           /\ Len(log) \in Nat /\ \A s : Remakings(s) \subseteq 1 .. Len(log)
           /\ b => Remakings(x)' = Remakings(x) \cup {Len(log) + 1} /\ ~FailedLast(x)'
           /\ ~b => Remakings(x)' = Remakings(x)
           /\ Failed' <=> Failed \/ ~b
<1> DEFINE n == Len(log)
           e == [t |-> x, ok |-> b]
<1>1. /\ n \in Nat /\ DOMAIN log = 1 .. n /\ DOMAIN log' = 1 .. n + 1
      /\ \A j \in 1 .. n : log'[j] = log[j]
      /\ log'[n + 1] = e /\ (Failed' <=> Failed \/ ~b)
  BY LogFacts DEF LogOK
<1>2. e.t = x /\ (e.ok <=> b) /\ \A s : e = [t |-> s, ok |-> TRUE] <=> (s = x /\ b)
  OBVIOUS
<1> HIDE DEF n, e
<1>3. \A j \in 1 .. n + 1 : j \in 1 .. n \/ j = n + 1
  BY <1>1
<1>4. n + 1 \in 1 .. n + 1 /\ (\A j \in 1 .. n : j \in 1 .. n + 1 /\ j # n + 1 /\ n + 1 > j)
  BY <1>1
<1>5. \A s : Remakings(s) = {j \in 1 .. n : log[j] = [t |-> s, ok |-> TRUE]}
  BY <1>1 DEF Remakings
<1>6. \A s : Remakings(s)' = {j \in 1 .. n + 1 : log'[j] = [t |-> s, ok |-> TRUE]}
  BY <1>1 DEF Remakings
<1>7. ASSUME NEW s, NEW j \in 1 .. n + 1
      PROVE  log'[j] = [t |-> s, ok |-> TRUE] <=> (j \in 1 .. n /\ log[j] = [t |-> s, ok |-> TRUE]) \/ (j = n + 1 /\ s = x /\ b)
  <2>1. CASE j = n + 1
    <3>1. j \notin 1 .. n
      BY <1>4, <2>1
    <3> QED BY <1>1, <1>2, <2>1, <3>1
  <2>2. CASE j # n + 1
    BY <1>1, <1>3, <2>2
  <2> QED BY <2>1, <2>2
<1>8. \A s : Remakings(s)' = Remakings(s) \cup (IF s = x /\ b THEN {n + 1} ELSE {})
  <2> TAKE s
  <2>1. \A j : j \in Remakings(s)' <=> j \in Remakings(s) \/ (j = n + 1 /\ s = x /\ b)
    BY <1>3, <1>4, <1>5, <1>6, <1>7
  <2> QED BY <2>1
<1>9. ASSUME NEW s, s # x PROVE FailedLast(s)' <=> FailedLast(s)
  <2>1. FailedLast(s) <=> \E j \in 1 .. n : /\ log[j].t = s /\ ~log[j].ok
                                            /\ \A i \in 1 .. n : i > j => log[i].t # s
    BY <1>1 DEF FailedLast
  <2>2. FailedLast(s)' <=> \E j \in 1 .. n + 1 : /\ log'[j].t = s /\ ~log'[j].ok
                                                 /\ \A i \in 1 .. n + 1 : i > j => log'[i].t # s
    BY <1>1 DEF FailedLast
  <2>3. log'[n + 1].t # s
    BY <1>1, <1>2, <1>9
  <2> QED BY <1>1, <1>3, <1>4, <2>1, <2>2, <2>3
<1>10. ASSUME b PROVE ~FailedLast(x)'
  <2> SUFFICES ASSUME FailedLast(x)' PROVE FALSE
    OBVIOUS
  <2>1. PICK j \in 1 .. n + 1 : /\ log'[j].t = x /\ ~log'[j].ok
                                /\ \A i \in 1 .. n + 1 : i > j => log'[i].t # x
    BY <1>1 DEF FailedLast
  <2>2. j # n + 1
    BY <1>1, <1>2, <1>10, <2>1
  <2>3. n + 1 > j
    BY <1>3, <1>4, <2>2
  <2> QED BY <1>1, <1>2, <1>4, <2>1, <2>3
<1> QED BY <1>1, <1>5, <1>8, <1>9, <1>10 DEF n

-----------------------------------------------------------------------------
(* Steps that change neither the files nor the history.                    *)

\* Of a step that changes no file and does not end a recipe.
LEMMA FilesKeep ==
    ASSUME TreeSame, UNCHANGED <<mtime, partial, log>>, NEW U
    PROVE  /\ Settled(U) => Settled(U)'
           /\ Once => Once'
           /\ \A f : FrameDone(U, f) => FrameDone(U, f)'
           /\ \A s : /\ (Untouched(s)' <=> Untouched(s)) /\ Remakings(s)' = Remakings(s)
                     /\ (FailedLast(s)' <=> FailedLast(s)) /\ (Steady(s)' <=> Steady(s))
           /\ Failed' <=> Failed
<1>1. deps' = deps
  BY DEF TreeSame, tree
<1>2. (Failed' <=> Failed) /\ \A s : Remakings(s)' = Remakings(s) /\ (FailedLast(s)' <=> FailedLast(s))
  BY LogKeep
<1>3. \A t : (Steady(t)' <=> Steady(t)) /\ Base(t)' = Base(t)
  BY SteadySame
<1>4. Settled(U) => Settled(U)'
  BY <1>1, <1>2, <1>3 DEF Settled
<1>5. Once => Once'
  BY <1>2, <1>3 DEF Once
<1>6. \A f : FrameDone(U, f) => FrameDone(U, f)'
  BY <1>1, <1>3 DEF FrameDone
<1>7. \A s : Untouched(s)' <=> Untouched(s)
  BY DEF Untouched
<1> QED BY <1>2, <1>3, <1>4, <1>5, <1>6, <1>7

\* Outside a recipe: the other targets are untouched.
LEMMA QuietKeep ==
    ASSUME TreeSame, UNCHANGED <<mtime, partial, log>>, NEW U, Others(U), Cut, Stale(U),
           pc \notin {"run", "child"}
    PROVE  Others(U)' /\ Cut' /\ Stale(U)'
<1>1. /\ \A s : /\ (Untouched(s)' <=> Untouched(s)) /\ Remakings(s)' = Remakings(s)
                /\ (FailedLast(s)' <=> FailedLast(s)) /\ (Steady(s)' <=> Steady(s))
      /\ (Failed' <=> Failed) /\ deps' = deps /\ mtime' = mtime /\ partial' = partial
  BY FilesKeep DEF TreeSame, tree
<1>2. Others(U)'
  BY <1>1 DEF Others
<1>3. Cut'
  BY <1>1 DEF Cut
<1>4. Stale(U)'
  BY <1>1 DEF Stale
<1> QED BY <1>2, <1>3, <1>4
\* What is known of the frame on top.
LEMMA TopDone ==
    ASSUME Core, NEW U, FramesDone(U), stack # << >>
    PROVE  /\ FrameDone(U, top) /\ top.tp = tp /\ Len(stack) \in Nat /\ Len(stack) >= 1
           /\ tp \in Target /\ top.p \in Nat \ {0}
           /\ AtEnd /\ ~top.err => \A d \in Range(deps[tp]) : Base(d) \subseteq U
           /\ AtEnd => \A d \in Range(deps[tp]) : \E k \in 1 .. top.p - 1 : d = deps[tp][k]
<1>1. /\ Len(stack) \in Nat /\ Len(stack) >= 1 /\ top = stack[Len(stack)] /\ tp \in Target /\ top.p \in Nat \ {0}
      /\ Len(deps[tp]) \in Nat /\ top.tp = tp
  BY StackTypes DEF tp
<1>2. Len(stack) \in 1 .. Len(stack)
  BY <1>1
<1>3. FrameDone(U, top)
  BY <1>1, <1>2 DEF FramesDone
<1>4. ASSUME AtEnd, NEW d \in Range(deps[tp]) PROVE \E k \in 1 .. top.p - 1 : d = deps[tp][k]
  <2>1. PICK k \in 1 .. Len(deps[tp]) : d = deps[tp][k]
    BY <1>1, RangeTypes DEF Core
  <2>2. k \in 1 .. top.p - 1
    BY <1>1, <1>4 DEF AtEnd
  <2> QED BY <2>1, <2>2
<1>5. ASSUME AtEnd, ~top.err, NEW d \in Range(deps[tp]) PROVE Base(d) \subseteq U
  <2>1. PICK k \in 1 .. top.p - 1 : d = deps[tp][k]
    BY <1>4, <1>5
  <2> QED BY <1>1, <1>3, <1>5, <2>1 DEF FrameDone
<1> QED BY <1>1, <1>3, <1>4, <1>5

\* rebuild() begins: nothing was checked yet.
LEMMA EnterDone ==
    ASSUME Core, NEW U, DoneWith(U), NEW t \in Target, Enter(t), TreeSame, pc \in {"main", "loop"}, pc' = "loop",
           UNCHANGED <<mtime, partial, log, exitstatus, goal>>
    PROVE  DoneWith(U)'
<1>1. Entered(t) /\ Len(stack) \in Nat
  BY EnterFacts, StackTypes
<1>2. Settled(U)' /\ Once' /\ Others(U)' /\ Cut' /\ Stale(U)'
  BY FilesKeep, QuietKeep DEF DoneWith
<1>3. RunningDone(U)' /\ GoalsDone(U)'
  BY SteadySame DEF RunningDone, Running, GoalsDone, DoneWith
<1>4. FramesDone(U)'
  <2>1. \A j \in 1 .. Len(stack) : stack'[j] = stack[j]
    BY <1>1 DEF Entered
  <2>2. ASSUME NEW j \in 1 .. Len(stack) PROVE FrameDone(U, stack[j])'
    <3>1. PICK f : f = stack[j]
      OBVIOUS
    <3>2. FrameDone(U, f)'
      BY <3>1, FilesKeep DEF DoneWith, FramesDone
    <3>3. stack'[j] = f
      BY <2>1, <3>1
    <3> QED BY <3>2, <3>3 DEF FrameDone
  <2>3. PICK f : f = stack'[Len(stack) + 1]
    OBVIOUS
  <2>4. f.tp = t /\ f.p = 1 /\ ~f.err /\ ~f.need
    BY <1>1, <2>3 DEF Entered
  <2>5. \A k : k \notin 1 .. f.p - 1
    BY <2>4
  <2>6. FrameDone(U, f)'
    BY <2>4, <2>5 DEF FrameDone
  <2>7. Len(stack') = Len(stack) + 1
    BY <1>1 DEF Entered
  <2>8. \A j \in 1 .. Len(stack') : j \in 1 .. Len(stack) \/ j = Len(stack) + 1
    BY <1>1, <2>7
  <2>9. ASSUME NEW j \in 1 .. Len(stack') PROVE FrameDone(U, stack[j])'
    BY <2>2, <2>3, <2>6, <2>8 DEF FrameDone
  <2> QED BY <2>9 DEF FramesDone
<1> QED BY <1>2, <1>3, <1>4 DEF DoneWith

\* A step that keeps the frames, outside a recipe.
LEMMA StayDone ==
    ASSUME NEW U, DoneWith(U), TreeSame, pc \in {"main", "loop"}, pc' = pc,
           UNCHANGED <<mtime, partial, log, exitstatus, goal, stack>>
    PROVE  DoneWith(U)'
<1>1. Settled(U)' /\ Once' /\ Others(U)' /\ Cut' /\ Stale(U)'
  BY FilesKeep, QuietKeep DEF DoneWith
<1>2. RunningDone(U)' /\ GoalsDone(U)'
  BY SteadySame DEF RunningDone, Running, GoalsDone, DoneWith
<1>3. FramesDone(U)'
  BY FilesKeep DEF DoneWith, FramesDone
<1> QED BY <1>1, <1>2, <1>3 DEF DoneWith

LEMMA UpdateDone ==
    ASSUME Core, NEW U, DoneWith(U), Update, ~fl.t
    PROVE  DoneWith(U)'
<1>1. /\ pc = "loop" /\ pc' = "run" /\ AtEnd /\ ~top.err /\ Need /\ TreeSame
      /\ UNCHANGED <<mtime, partial, log, exitstatus, goal, stack, stamp>>
  BY DEF Update, TreeSame, disk
<1>2. stack # << >> /\ cmds' # << >>
  BY <1>1, UpdateCmds DEF Core, FramesOK, Busy
<1>3. Settled(U)' /\ Once' /\ Others(U)' /\ Cut' /\ Stale(U)'
  <2>1. Settled(U)' /\ Once'
    BY <1>1, FilesKeep DEF DoneWith
  <2>2. Others(U)' /\ Cut' /\ Stale(U)'
    BY <1>1, QuietKeep DEF DoneWith
  <2> QED BY <2>1, <2>2
<1>4. FramesDone(U)' /\ GoalsDone(U)'
  BY <1>1, FilesKeep, SteadySame DEF DoneWith, FramesDone, GoalsDone
<1>5. stamp[tp] = mtime[tp]
  BY <1>1 DEF Core, TimesOK
<1>6. tp \notin U
  BY <1>1, <1>2, <1>5, TopDone DEF DoneWith, FrameDone, Settled, Need
<1>7. RunningDone(U)'
  BY <1>1, <1>2, <1>5, <1>6 DEF RunningDone, tp, top
<1> QED BY <1>3, <1>4, <1>7 DEF DoneWith

LEMMA LaunchDone ==
    ASSUME Core, NEW U, DoneWith(U), launch
    PROVE  DoneWith(U)'
<1>1. /\ pc = "run" /\ pc' = "child" /\ TreeSame /\ cmds # << >> /\ ~Skipped(Head(cmds))
      /\ UNCHANGED <<mtime, partial, log, exitstatus, goal, stack, stamp, cmds>>
  BY DEF launch, TreeSame, disk
<1>2. /\ \A s : /\ (Untouched(s)' <=> Untouched(s)) /\ Remakings(s)' = Remakings(s)
                /\ (FailedLast(s)' <=> FailedLast(s)) /\ (Steady(s)' <=> Steady(s))
      /\ (Failed' <=> Failed) /\ deps' = deps /\ mtime' = mtime /\ partial' = partial
      /\ Settled(U)' /\ Once' /\ tp' = tp /\ stamp' = stamp /\ cmds' = cmds
  BY <1>1, FilesKeep DEF DoneWith, TreeSame, tree, tp, top
<1>3. \E j \in 1 .. Len(cmds) : ~Skipped(cmds[j])
  <2>1. Head(cmds) = cmds[1] /\ Len(cmds) \in Nat /\ Len(cmds) >= 1
    BY <1>1, HeadFacts
  <2>2. 1 \in 1 .. Len(cmds)
    BY <2>1
  <2> QED BY <1>1, <2>1, <2>2
<1>4. Others(U)'
  BY <1>2, <1>3 DEF DoneWith, Others
<1>5. Cut'
  BY <1>1, <1>2 DEF DoneWith, Cut
<1>6. Stale(U)'
  BY <1>1, <1>2 DEF DoneWith, Stale
<1>7. FramesDone(U)' /\ GoalsDone(U)'
  BY <1>1, FilesKeep, SteadySame DEF DoneWith, FramesDone, GoalsDone
<1>8. RunningDone(U)'
  BY <1>1, <1>2 DEF DoneWith, RunningDone, Running
<1> QED BY <1>2, <1>4, <1>5, <1>6, <1>7, <1>8 DEF DoneWith
-----------------------------------------------------------------------------
(* The child writes the file of the top frame, or none.                    *)

\* What a command of a recipe does to the files and to the history.
ChildEffect ==
    /\ mtime \in [Target -> -1 .. MaxTime] /\ mtime' \in [Target -> -1 .. MaxTime]
    /\ \A u \in Target : mtime'[u] >= mtime[u] /\ (u # tp => mtime'[u] = mtime[u] /\ (u \in partial' <=> u \in partial))
    /\ mtime'[tp] = mtime[tp] \/ mtime'[tp] >= MaxTime - 1
    /\ \A s : Remakings(s)' = Remakings(s) /\ (s # tp => (FailedLast(s)' <=> FailedLast(s)))
    /\ Failed => Failed'
    /\ pc' = "failed" => Failed'

\* For a target that is made from real files only.
SteadyEffect ==
    \/ /\ pc' = "run" /\ mtime'[tp] >= MaxTime - 1 /\ \A u \in Target : mtime'[u] <= mtime'[tp]
       /\ \/ tp \notin partial' /\ \A j \in 1 .. Len(cmds') : Skipped(cmds'[j])
          \/ tp \in partial' /\ cmds' # << >>
    \/ /\ pc' = "failed"
       /\ (mtime'[tp] = mtime[tp] /\ (tp \in partial' <=> tp \in partial)) \/ tp \in partial'

LEMMA ChildFacts ==
    ASSUME Core, LogOK, Child, ~fl.t
    PROVE  /\ pc = "child" /\ TreeSame /\ UNCHANGED <<goal, stack, stamp, exitstatus>> /\ pc' \in {"run", "failed"}
           /\ tp \in Target /\ ChildEffect
<1>1. /\ pc = "child" /\ TreeSame /\ UNCHANGED <<goal, stack, stamp, exitstatus>> /\ pc' \in {"run", "failed"}
      /\ Running
  BY DEF Child, Succeeds, IgnoredFailure, Failure, TreeSame, Running
<1>2. tp \in Target /\ cmds # << >> /\ None \notin Target
  BY <1>1, RunningFacts, TimeAssumption DEF Core, CmdsOK
<1>3. PICK c : c = Head(cmds)
  OBVIOUS
<1>4. c.op = "line" /\ c.file \in {tp, None}
  BY <1>1, <1>2, <1>3, HeadFacts
<1>5. mtime \in [Target -> -1 .. MaxTime] /\ MaxTime \in Nat \ {0}
  BY TimeAssumption DEF Core, TimesOK
<1>6. UNCHANGED disk \/ \E whole : WriteFile(c, whole)
  BY <1>3 DEF Child, Succeeds, IgnoredFailure, Failure, Spoil
<1>7. /\ mtime' \in [Target -> -1 .. MaxTime]
      /\ \A u \in Target : mtime'[u] >= mtime[u] /\ (u # tp => mtime'[u] = mtime[u] /\ (u \in partial' <=> u \in partial))
      /\ mtime'[tp] = mtime[tp] \/ mtime'[tp] >= MaxTime - 1
  <2>1. CASE UNCHANGED disk
    BY <1>2, <1>5, <2>1 DEF disk
  <2>2. CASE \E whole : WriteFile(c, whole)
    <3>1. PICK whole : WriteFile(c, whole)
      BY <2>2
    <3>2. /\ Writing(c)
          /\ c.file \in Target => mtime'[c.file] >= MaxTime - 1 /\ \A u \in Target : mtime[u] <= mtime'[c.file]
          /\ IF c.file \in Target /\ c.op # "touch"
             THEN partial' = IF whole THEN partial \ {c.file} ELSE partial \cup {c.file}
             ELSE partial' = partial
      BY <3>1, WriteFacts
    <3>3. /\ mtime' \in [Target -> -1 .. MaxTime]
          /\ \A u \in Target : mtime'[u] >= mtime[u] /\ (u # c.file => mtime'[u] = mtime[u])
      BY <3>2 DEF Writing
    <3>4. CASE c.file = tp
      BY <1>2, <1>4, <3>2, <3>3, <3>4
    <3>5. CASE c.file = None
      BY <1>2, <3>2, <3>3, <3>5
    <3> QED BY <1>4, <3>4, <3>5
  <2> QED BY <1>6, <2>1, <2>2
<1>8. /\ \A s : Remakings(s)' = Remakings(s) /\ (s # tp => (FailedLast(s)' <=> FailedLast(s)))
      /\ Failed => Failed'
      /\ pc' = "failed" => Failed'
  <2>1. CASE log' = log /\ pc' = "run"
    BY <2>1, LogKeep
  <2>2. CASE log' = Append(log, [t |-> tp, ok |-> FALSE]) /\ pc' = "failed"
    BY <1>2, <2>2, LogMore
  <2> QED BY <2>1, <2>2 DEF Child, Succeeds, IgnoredFailure, Failure
<1> QED BY <1>1, <1>2, <1>5, <1>7, <1>8 DEF ChildEffect

LEMMA ChildSteady ==
    ASSUME Core, Child, ~fl.t, Steady(tp)
    PROVE  SteadyEffect
<1>1. pc = "child" /\ tp \in Target /\ cmds # << >> /\ None \notin Target /\ TreeOK /\ mk' = mk
  <2>1. pc = "child" /\ Running /\ mk' = mk
    BY DEF Child, Succeeds, IgnoredFailure, Failure, Running
  <2> QED BY <2>1, RunningFacts, TimeAssumption DEF Core, CmdsOK
<1>2. ~Phony(tp) /\ ~Lax(tp)
  BY <1>1, SteadyFacts
<1>3. PICK f : CmdsFor(cmds, f)
  BY <1>1, CmdsNow DEF CmdsList
<1>4. f = tp
  BY <1>2, <1>3 DEF CmdsFor, Phony
<1>5. PICK c : c = Head(cmds)
  OBVIOUS
<1>6. c.op = "line" /\ c.file = tp /\ ~c.ignore /\ Writes(c) /\ Len(cmds) \in Nat /\ Len(cmds) >= 1 /\ c = cmds[1]
  <2>1. c.op = "line" /\ (c.file = tp /\ c.ignore => Lax(tp)) /\ Len(cmds) \in Nat /\ Len(cmds) >= 1 /\ c = cmds[1]
    BY <1>1, <1>5, HeadFacts
  <2>2. 1 \in 1 .. Len(cmds)
    BY <2>1
  <2>3. c.file = tp
    BY <1>3, <1>4, <2>1, <2>2 DEF CmdsFor
  <2> QED BY <1>2, <2>1, <2>3 DEF Writes, Phony
<1>7. ASSUME NEW whole, WriteFile(c, whole)
      PROVE  /\ mtime'[tp] >= MaxTime - 1 /\ \A u \in Target : mtime'[u] <= mtime'[tp]
             /\ whole => tp \notin partial'
             /\ ~whole => tp \in partial'
  <2>1. /\ Writing(c)
        /\ c.file \in Target => mtime'[c.file] >= MaxTime - 1 /\ \A u \in Target : mtime[u] <= mtime'[c.file]
        /\ IF c.file \in Target /\ c.op # "touch"
           THEN partial' = IF whole THEN partial \ {c.file} ELSE partial \cup {c.file}
           ELSE partial' = partial
    BY <1>7, WriteFacts
  <2>2. mtime' \in [Target -> -1 .. MaxTime] /\ \A u \in Target : u # tp => mtime'[u] = mtime[u]
    BY <1>6, <2>1 DEF Writing
  <2>3. mtime'[tp] \in Int /\ MaxTime \in Nat
    BY <1>1, <2>2, TimeAssumption
  <2> QED BY <1>1, <1>6, <2>1, <2>2, <2>3
<1>8. CASE Succeeds
  <2>1. WriteFile(c, LastLine(c)) /\ pc' = "run" /\ cmds' = Tail(cmds)
    BY <1>5, <1>6, <1>8 DEF Succeeds
  <2>2. PICK C : cmds \in Seq(C)
    BY <1>1, CmdsNow DEF CmdsList
  <2>3. Len(cmds') = Len(cmds) - 1 /\ \A j \in 1 .. Len(cmds) - 1 : cmds'[j] = cmds[j + 1]
    BY <1>1, <2>1, <2>2, TailFacts
  <2>4. \A x : Skipped(x)' <=> Skipped(x)
    BY <1>1 DEF Skipped, fl
  <2>5. \A j \in 2 .. Len(cmds) : cmds[j].op # "touch"
    <3>1. \A j \in 2 .. Len(cmds) : j \in 1 .. Len(cmds)
      BY <1>6
    <3> QED BY <1>3, <3>1 DEF CmdsFor
  <2>6. CASE LastLine(c)
    <3>1. \A j \in 2 .. Len(cmds) : Skipped(cmds[j])
      BY <2>5, <2>6 DEF LastLine
    <3>2. \A j \in 1 .. Len(cmds') : j + 1 \in 2 .. Len(cmds) /\ cmds'[j] = cmds[j + 1]
      BY <1>6, <2>3
    <3>3. \A j \in 1 .. Len(cmds') : Skipped(cmds'[j])
      BY <3>1, <3>2
    <3> QED BY <1>7, <2>1, <2>6, <3>3 DEF SteadyEffect
  <2>7. CASE ~LastLine(c)
    <3>1. \E j \in 2 .. Len(cmds) : TRUE
      BY <1>6, <2>7 DEF LastLine
    <3>2. Len(cmds') # 0
      BY <1>6, <2>3, <3>1
    <3>3. cmds' # << >>
      BY <3>2, EmptySeq
    <3> QED BY <1>7, <2>1, <2>7, <3>3 DEF SteadyEffect
  <2> QED BY <2>6, <2>7
<1>9. CASE IgnoredFailure
  BY <1>5, <1>6, <1>9 DEF IgnoredFailure
<1>10. CASE Failure
  <2>1. pc' = "failed" /\ Spoil(c)
    BY <1>5, <1>10 DEF Failure
  <2> QED BY <1>7, <2>1 DEF Spoil, disk, SteadyEffect
<1> QED BY <1>8, <1>9, <1>10 DEF Child
LEMMA ChildDone ==
    ASSUME Core, LogOK, NEW U \in SUBSET Target, DoneWith(U), Child, ~fl.t
    PROVE  DoneWith(U)'
<1>1. /\ pc = "child" /\ TreeSame /\ UNCHANGED <<goal, stack, stamp, exitstatus>> /\ pc' \in {"run", "failed"}
      /\ tp \in Target /\ ChildEffect /\ Running /\ Running'
  BY ChildFacts DEF Running
<1>2. /\ deps' = deps /\ mk' = mk /\ tp' = tp /\ top' = top /\ stack' = stack /\ stamp' = stamp
      /\ \A s : (Steady(s)' <=> Steady(s)) /\ Base(s)' = Base(s)
  BY <1>1, SteadySame DEF TreeSame, tree, tp, top
<1>3. /\ stack # << >> /\ AtEnd /\ ~top.err /\ Need /\ TreeOK
      /\ tp \notin U /\ (stamp[tp] = mtime[tp] \/ mtime[tp] >= MaxTime - 1)
  BY <1>1, RunningFacts DEF DoneWith, RunningDone, Core
<1>4. Steady(tp) => SteadyEffect
  BY ChildSteady
<1>5. MaxTime \in Nat \ {0}
  BY TimeAssumption
<1>6. /\ mtime \in [Target -> -1 .. MaxTime] /\ mtime' \in [Target -> -1 .. MaxTime]
      /\ \A u \in Target : mtime[u] \in Int /\ mtime'[u] \in Int
      /\ \A u \in Target : mtime'[u] >= mtime[u]
      /\ \A u \in Target : u # tp => mtime'[u] = mtime[u] /\ (u \in partial' <=> u \in partial)
      /\ mtime'[tp] = mtime[tp] \/ mtime'[tp] >= MaxTime - 1
      /\ \A s : Remakings(s)' = Remakings(s)
      /\ \A s : s # tp => (FailedLast(s)' <=> FailedLast(s))
      /\ Failed => Failed'
      /\ pc' = "failed" => Failed'
  BY <1>1 DEF ChildEffect
<1>7. \A u \in U : u \in Target /\ u # tp
  BY <1>3
<1>8. Settled(U)'
  BY <1>2, <1>6, <1>7 DEF DoneWith, Settled
<1>9. ASSUME Steady(tp) PROVE Untouched(tp) /\ Remakings(tp) = {}
  BY <1>1, <1>3, <1>9 DEF DoneWith, Others
<1>10. Others(U)'
  <2>1. ASSUME NEW t \in Target, Steady(t), t \notin U, t # tp PROVE Remakings(t)' = {} /\ Untouched(t)'
    <3>1. Remakings(t) = {} /\ Untouched(t)
      BY <1>1, <2>1 DEF DoneWith, Others
    <3> QED BY <1>6, <2>1, <3>1 DEF Untouched
  <2>2. ASSUME Steady(tp)
        PROVE  /\ Remakings(tp)' = {}
               /\ Untouched(tp)' \/ (pc' = "run" /\ \A j \in 1 .. Len(cmds') : Skipped(cmds[j])')
    <3>1. \A x : Skipped(x)' <=> Skipped(x)
      BY <1>2 DEF Skipped, fl
    <3>2. Remakings(tp)' = {}
      BY <1>6, <1>9, <2>2, <1>2
    <3>3. tp \in partial' => Untouched(tp)'
      BY <1>2 DEF Untouched
    <3>4. mtime'[tp] = mtime[tp] /\ (tp \in partial' <=> tp \in partial) => Untouched(tp)'
      BY <1>2, <1>9, <2>2 DEF Untouched
    <3>5. (\A j \in 1 .. Len(cmds') : Skipped(cmds'[j])) => \A j \in 1 .. Len(cmds') : Skipped(cmds[j])'
      BY <3>1
    <3> QED BY <1>4, <2>2, <3>2, <3>3, <3>4, <3>5 DEF SteadyEffect
  <2> QED BY <1>2, <2>1, <2>2 DEF Others
<1>11. Cut'
  <2> SUFFICES ASSUME ~Failed', NEW t \in Target, t \in partial', Steady(t) PROVE pc' \in {"run", "child"} /\ t = tp
    BY <1>2 DEF Cut
  <2>1. pc' = "run" /\ ~Failed
    BY <1>1, <1>6
  <2>2. CASE t # tp
    BY <1>6, <2>1, <2>2 DEF DoneWith, Cut
  <2> QED BY <2>1, <2>2
<1>12. Stale(U)'
  <2>1. ASSUME NEW t \in Target, Steady(t), t \notin U, t # tp, FailedLast(t)', t \notin partial'
        PROVE  mtime'[t] = -1 \/ \E d \in Range(deps[t]) : mtime'[d] > mtime'[t]
    <3>1. FailedLast(t) /\ t \notin partial /\ mtime'[t] = mtime[t]
      BY <1>6, <2>1
    <3>2. mtime[t] = -1 \/ \E d \in Range(deps[t]) : mtime[d] > mtime[t]
      BY <2>1, <3>1 DEF DoneWith, Stale
    <3>3. \A d \in Range(deps[t]) : d \in Target
      BY <1>3, RangeTypes
    <3>4. \A d \in Range(deps[t]) : mtime[d] > mtime[t] => mtime'[d] > mtime'[t]
      BY <1>6, <3>1, <3>3
    <3> QED BY <3>1, <3>2, <3>4
  <2>2. ASSUME Steady(tp), tp \notin partial', pc' = "failed"
        PROVE  mtime'[tp] = -1 \/ \E d \in Range(deps[tp]) : mtime'[d] > mtime'[tp]
    <3>1. mtime'[tp] = mtime[tp] /\ tp \notin partial
      BY <1>4, <2>2 DEF SteadyEffect
    <3>2. mtime[tp] <= MaxTime - 2 /\ mtime[tp] \in Int
      BY <1>1, <1>6, <1>9, <2>2, <3>1 DEF Untouched
    <3>3. ~(mtime[tp] >= MaxTime - 1)
      BY <1>5, <3>2
    <3>4. CASE stamp[tp] = -1
      BY <1>3, <3>1, <3>3, <3>4
    <3>5. CASE top.need
      <4>1. FrameDone(U, top) /\ top.tp = tp /\ top.p \in Nat
        BY <1>3, TopDone DEF DoneWith
      <4>2. PICK k \in 1 .. top.p - 1 : mtime[deps[tp][k]] > mtime[tp]
        BY <1>3, <2>2, <3>3, <3>5, <4>1 DEF FrameDone
      <4>3. k \in 1 .. Len(deps[tp])
        <5>1. top = stack[Len(stack)] /\ Len(stack) \in Nat /\ Len(stack) >= 1 /\ Len(deps[tp]) \in Nat
          BY <1>3, StackTypes
        <5>2. Len(stack) \in 1 .. Len(stack)
          BY <5>1
        <5>3. top.p <= Len(deps[tp]) + 1
          BY <4>1, <5>1, <5>2, FramesParts DEF Indices
        <5> QED BY <4>1, <5>1, <5>3
      <4>4. deps[tp][k] \in Range(deps[tp]) /\ deps[tp][k] \in Target
        BY <1>1, <1>3, <4>3, RangeTypes
      <4>5. mtime'[deps[tp][k]] > mtime'[tp]
        BY <1>1, <1>6, <3>1, <4>2, <4>4
      <4> QED BY <4>4, <4>5
    <3> QED BY <1>3, <3>4, <3>5 DEF Need
  <2>3. ASSUME NEW t \in Target, Steady(t), t \notin U, FailedLast(t)', t \notin partial'
        PROVE  \/ mtime'[t] = -1 \/ \E d \in Range(deps[t]) : mtime'[d] > mtime'[t]
               \/ pc' = "run" /\ t = tp
    BY <1>1, <2>1, <2>2, <2>3
  <2> QED BY <1>2, <2>3 DEF Stale
<1>13. RunningDone(U)'
  <2>1. Running' /\ tp' \notin U /\ (stamp'[tp'] = mtime'[tp'] \/ mtime'[tp'] >= MaxTime - 1)
    <3>1. mtime[tp] >= MaxTime - 1 => mtime'[tp] >= MaxTime - 1
      BY <1>1, <1>5, <1>6
    <3> QED BY <1>1, <1>2, <1>3, <1>6, <3>1
  <2>2. ASSUME pc' = "run", cmds' = << >>, Steady(tp)
        PROVE  mtime'[tp] >= MaxTime - 1 /\ tp \notin partial' /\ \A d \in Range(deps[tp]) : mtime'[d] <= mtime'[tp]
    <3>1. mtime'[tp] >= MaxTime - 1 /\ tp \notin partial' /\ \A u \in Target : mtime'[u] <= mtime'[tp]
      BY <1>4, <2>2 DEF SteadyEffect
    <3>2. \A d \in Range(deps[tp]) : d \in Target
      BY <1>1, <1>3, RangeTypes
    <3> QED BY <3>1, <3>2
  <2> QED BY <1>2, <2>1, <2>2 DEF RunningDone
<1>14. GoalsDone(U)' /\ Once'
  BY <1>1, <1>2, <1>6, SteadySame DEF DoneWith, GoalsDone, Once
<1>15. FramesDone(U)'
  <2>1. ASSUME NEW j \in 1 .. Len(stack) PROVE FrameDone(U, stack[j])'
    <3>1. PICK f : f = stack[j]
      OBVIOUS
    <3>2. FrameDone(U, f) /\ f.tp \in Target /\ f.p \in Nat /\ f.p <= Len(deps[f.tp]) + 1
      BY <3>1, StackTypes, FramesParts DEF DoneWith, FramesDone, Indices
    <3>3. \A k \in 1 .. f.p - 1 : deps[f.tp][k] \in Range(deps[f.tp]) /\ deps[f.tp][k] \in Target
      <4>1. \A k \in 1 .. f.p - 1 : k \in 1 .. Len(deps[f.tp])
        BY <1>3, <3>2, RangeTypes
      <4> QED BY <1>3, <3>2, <4>1, RangeTypes
    <3>4. Steady(f.tp) /\ ~f.err => \A k \in 1 .. f.p - 1 : deps[f.tp][k] \in U
      BY <1>3, <3>2, <3>3, SteadyFacts DEF FrameDone
    <3>5. Steady(f.tp) /\ ~f.err /\ ~f.need => \A k \in 1 .. f.p - 1 : mtime'[deps[f.tp][k]] <= mtime'[f.tp]
      <4> SUFFICES ASSUME Steady(f.tp), ~f.err, ~f.need, NEW k \in 1 .. f.p - 1
                   PROVE  mtime'[deps[f.tp][k]] <= mtime'[f.tp]
        OBVIOUS
      <4>1. mtime[deps[f.tp][k]] <= mtime[f.tp]
        BY <3>2 DEF FrameDone
      <4>2. mtime'[deps[f.tp][k]] = mtime[deps[f.tp][k]]
        BY <1>6, <1>7, <3>4
      <4> QED BY <1>6, <3>2, <3>3, <4>1, <4>2
    <3>6. Steady(f.tp) /\ ~f.err /\ f.need =>
              mtime'[f.tp] >= MaxTime - 1 \/ \E k \in 1 .. f.p - 1 : mtime'[deps[f.tp][k]] > mtime'[f.tp]
      <4> SUFFICES ASSUME Steady(f.tp), ~f.err, f.need, ~(mtime'[f.tp] >= MaxTime - 1)
                   PROVE  \E k \in 1 .. f.p - 1 : mtime'[deps[f.tp][k]] > mtime'[f.tp]
        OBVIOUS
      <4>1. mtime'[f.tp] = mtime[f.tp]
        BY <1>6, <3>2
      <4>2. PICK k \in 1 .. f.p - 1 : mtime[deps[f.tp][k]] > mtime[f.tp]
        BY <3>2, <4>1 DEF FrameDone
      <4>3. mtime'[deps[f.tp][k]] > mtime'[f.tp]
        BY <1>6, <3>2, <3>3, <4>1, <4>2
      <4> QED BY <4>3
    <3>7. FrameDone(U, f)'
      BY <1>2, <3>2, <3>5, <3>6 DEF FrameDone
    <3> QED BY <1>2, <3>1, <3>7 DEF FrameDone
  <2> QED BY <1>2, <2>1 DEF FramesDone
<1> QED BY <1>8, <1>10, <1>11, <1>12, <1>13, <1>14, <1>15 DEF DoneWith
-----------------------------------------------------------------------------
(* rebuild() returns.                                                      *)

\* The frame below the top waits for it.
LEMMA ParentFacts ==
    ASSUME Core, Len(stack) > 1, AtEnd, NEW f, f = stack[Len(stack) - 1]
    PROVE  /\ f.tp \in Target /\ f.p \in Nat \ {0} /\ f.tp # tp /\ f.err \in BOOLEAN /\ f.need \in BOOLEAN
           /\ tp = deps[f.tp][f.p] /\ tp \in Range(deps[f.tp]) /\ tp \in Target
           /\ (Busy /\ ~fl.t => stamp[f.tp] = mtime[f.tp])
           /\ \A k \in 1 .. f.p : deps[f.tp][k] \in Range(deps[f.tp]) /\ deps[f.tp][k] \in Target
<1> DEFINE n == Len(stack) - 1
<1>1. Len(stack) \in Nat /\ stack # << >>
  BY StackTypes, EmptySeq
<1>2. n \in 1 .. Len(stack) /\ n \in 1 .. Len(stack) - 1 /\ n + 1 = Len(stack) /\ Len(stack) \in 1 .. Len(stack)
  BY <1>1
<1> HIDE DEF n
<1>3. f = stack[n]
  BY DEF n
<1>4. f.tp \in Target /\ f.p \in Nat \ {0} /\ f.err \in BOOLEAN /\ f.need \in BOOLEAN
  BY <1>2, <1>3, StackTypes
<1>5. f.p <= Len(deps[f.tp]) /\ stack[Len(stack)].tp = deps[f.tp][f.p]
  BY <1>2, <1>3, FramesParts DEF Path
<1>6. tp = deps[f.tp][f.p] /\ tp \in Target
  BY <1>1, <1>5, StackTypes DEF tp
<1>7. f.tp # tp
  BY <1>1, <1>2, <1>3, Alone
<1>8. Busy /\ ~fl.t => stamp[f.tp] = mtime[f.tp]
  BY <1>2, <1>3 DEF Core, TimesOK
<1>9. \A k \in 1 .. f.p : k \in 1 .. Len(deps[f.tp])
  BY <1>4, <1>5, RangeTypes DEF Core
<1>10. \A k \in 1 .. f.p : deps[f.tp][k] \in Range(deps[f.tp]) /\ deps[f.tp][k] \in Target
  BY <1>4, <1>9, RangeTypes DEF Core
<1>11. f.p \in 1 .. f.p
  BY <1>4
<1> QED BY <1>4, <1>6, <1>7, <1>8, <1>10, <1>11

\* with an error: the parents are not done either.
LEMMA ErrorDone ==
    ASSUME Core, NEW U, DoneWith(U), stack # << >>, AtEnd, TreeSame, UNCHANGED <<mtime, partial, log>>,
           tp \notin U, NEW b \in BOOLEAN, Return(TRUE, b), pc \notin {"run", "child"}, exitstatus' = 1
    PROVE  DoneWith(U)'
<1>1. Settled(U)' /\ Once' /\ Others(U)' /\ Cut' /\ Stale(U)'
  BY FilesKeep, QuietKeep DEF DoneWith
<1>2. GoalDone \/ Popped(TRUE, b)
  BY ReturnFacts
<1>3. pc' \in {"main", "loop"}
  BY <1>2 DEF GoalDone, Popped
<1>4. RunningDone(U)' /\ GoalsDone(U)'
  BY <1>3 DEF RunningDone, Running, GoalsDone
<1>5. CASE GoalDone
  <2>1. Len(stack') = 0
    BY <1>5, EmptySeq DEF GoalDone
  <2>2. FramesDone(U)'
    BY <2>1 DEF FramesDone
  <2> QED BY <1>1, <1>4, <2>2 DEF DoneWith
<1>6. CASE Popped(TRUE, b)
  <2>0. PICK n : n = Len(stack) - 1
    OBVIOUS
  <2>1. Len(stack) \in Nat /\ Len(stack) > 1 /\ n \in Nat /\ n >= 1 /\ Len(stack') = n
    BY <1>6, <2>0, StackTypes DEF Popped
  <2>2. PICK f : f = stack[n]
    OBVIOUS
  <2>3. PICK g : g = stack'[n]
    OBVIOUS
  <2>4. g.tp = f.tp /\ g.err
    BY <1>6, <2>0, <2>2, <2>3 DEF Popped
  <2>5. tp \in Range(deps[f.tp])
    BY <2>0, <2>1, <2>2, ParentFacts
  <2>6. f.tp \notin U
    BY <2>5 DEF DoneWith, Settled
  <2>7. FrameDone(U, g)'
    BY <2>4, <2>6 DEF FrameDone
  <2>8. \A j \in 1 .. n : j # n => j \in 1 .. Len(stack) - 2 /\ j \in 1 .. Len(stack)
    BY <2>0, <2>1
  <2>9. ASSUME NEW j \in 1 .. n, j # n PROVE FrameDone(U, stack[j])'
    <3>1. PICK h : h = stack[j]
      OBVIOUS
    <3>2. FrameDone(U, h)' /\ stack'[j] = h
      BY <1>6, <2>8, <2>9, <3>1, FilesKeep DEF DoneWith, FramesDone, Popped
    <3> QED BY <3>2 DEF FrameDone
  <2>10. FrameDone(U, stack[n])'
    BY <2>3, <2>7 DEF FrameDone
  <2>11. FramesDone(U)'
    BY <2>1, <2>9, <2>10 DEF FramesDone
  <2> QED BY <1>1, <1>4, <2>11 DEF DoneWith
<1> QED BY <1>2, <1>5, <1>6
LEMMA ReturnBase ==
    ASSUME Core, NEW U, FramesDone(U), stack # << >>, AtEnd, ~top.err
    PROVE  /\ Base(tp) \subseteq U \cup {tp} /\ (~Steady(tp) => Base(tp) \subseteq U)
           /\ Steady(tp) => \A d \in Range(deps[tp]) : d \in U /\ d \in Target /\ Steady(d)
<1>1. tp \in Target /\ TreeOK /\ \A d \in Range(deps[tp]) : Base(d) \subseteq U
  BY TopDone DEF Core
<1>2. Base(tp) \subseteq U \cup {tp} /\ (~Steady(tp) => Base(tp) \subseteq U)
  BY <1>1, BaseNext
<1>3. Steady(tp) => \A d \in Range(deps[tp]) : d \in U /\ d \in Target /\ Steady(d)
  BY <1>1, SteadyFacts
<1> QED BY <1>2, <1>3

\* without an error: what the goal or the parent knows then.
LEMMA SuccessFrames ==
    ASSUME Core, NEW U \in SUBSET Target, DoneWith(U), stack # << >>, AtEnd, ~top.err, Busy, ~fl.t, TreeSame,
           NEW b \in BOOLEAN, Return(FALSE, b), UNCHANGED <<mtime, exitstatus>>,
           NEW V, U \subseteq V, V \subseteq U \cup {tp}, Steady(tp) => tp \in V,
           ~b => stamp[tp] = mtime[tp],
           b => tp \notin U /\ (Steady(tp) => mtime[tp] >= MaxTime - 1)
    PROVE  FramesDone(V)' /\ GoalsDone(V)' /\ RunningDone(V)' /\ pc' \in {"main", "loop"}
<1>1. GoalDone \/ Popped(FALSE, b)
  BY ReturnFacts
<1>2. /\ deps' = deps /\ mk' = mk /\ Goals' = Goals /\ mtime' = mtime
      /\ \A s : (Steady(s)' <=> Steady(s)) /\ Base(s)' = Base(s)
  BY SteadySame DEF TreeSame, tree
<1>3. pc' \in {"main", "loop"} /\ RunningDone(V)'
  BY <1>1 DEF GoalDone, Popped, RunningDone, Running
<1>4. Base(tp) \subseteq V
  BY ReturnBase DEF DoneWith
<1>5. goal \in Nat \ {0} /\ (exitstatus = 0 => \A g \in 1 .. goal - 1 : Base(Goals[g]) \subseteq V)
  BY DEF Core, GoalsOK, DoneWith, GoalsDone
<1>6. CASE GoalDone
  <2>1. Len(stack') = 0 /\ Len(stack) = 1 /\ goal' = goal + 1
    BY <1>6, EmptySeq DEF GoalDone
  <2>2. FramesDone(V)'
    BY <2>1 DEF FramesDone
  <2>3. tp = Goals[goal]
    BY <2>1, StackTypes DEF Core, GoalsOK, tp
  <2>4. \A g \in 1 .. goal' - 1 : g \in 1 .. goal - 1 \/ g = goal
    BY <1>5, <2>1
  <2>5. GoalsDone(V)'
    <3>1. exitstatus' = 0 => \A g \in 1 .. goal' - 1 : Base(Goals[g]) \subseteq V
      BY <1>4, <1>5, <2>3, <2>4
    <3> QED BY <1>2, <3>1 DEF GoalsDone
  <2> QED BY <1>3, <2>2, <2>5
<1>7. CASE Popped(FALSE, b)
  <2>0. PICK n : n = Len(stack) - 1
    OBVIOUS
  <2>1. Len(stack) \in Nat /\ Len(stack) > 1 /\ n \in Nat /\ n >= 1 /\ Len(stack') = n /\ goal' = goal
    BY <1>7, <2>0, StackTypes DEF Popped
  <2>2. PICK f : f = stack[n]
    OBVIOUS
  <2>3. PICK g : g = stack'[n]
    OBVIOUS
  <2>4. /\ g.tp = f.tp /\ g.p = f.p + 1 /\ g.err = (f.err \/ FALSE)
        /\ g.need = (f.need \/ (~FALSE /\ (b \/ stamp[tp] > stamp[f.tp])))
    BY <1>7, <2>0, <2>2, <2>3 DEF Popped
  <2>5. /\ f.tp \in Target /\ f.p \in Nat \ {0} /\ f.tp # tp /\ f.err \in BOOLEAN /\ f.need \in BOOLEAN
        /\ tp = deps[f.tp][f.p] /\ tp \in Range(deps[f.tp]) /\ tp \in Target
        /\ stamp[f.tp] = mtime[f.tp]
    BY <2>0, <2>1, <2>2, ParentFacts
  <2>6. /\ (g.err <=> f.err)
        /\ (g.need <=> f.need \/ b \/ stamp[tp] > mtime[f.tp])
    BY <2>4, <2>5
  <2>7. FrameDone(U, f)
    <3>1. n \in 1 .. Len(stack)
      BY <2>0, <2>1
    <3> QED BY <2>2, <3>1 DEF DoneWith, FramesDone
  <2>8. mtime[tp] \in Int /\ mtime[f.tp] \in Int /\ MaxTime \in Nat
    BY <2>5, TimeAssumption DEF Core, TimesOK
  <2>9. \A k \in 1 .. g.p - 1 : k \in 1 .. f.p - 1 \/ k = f.p
    BY <2>4, <2>5
  <2>10. f.p \in 1 .. g.p - 1 /\ \A k \in 1 .. f.p - 1 : k \in 1 .. g.p - 1
    BY <2>4, <2>5
  <2>11. ~g.err => \A k \in 1 .. g.p - 1 : Base(deps[g.tp][k]) \subseteq V
    BY <1>4, <2>4, <2>5, <2>6, <2>7, <2>9 DEF FrameDone
  <2>12. ASSUME g.tp \in V PROVE ~g.need /\ ~g.err
    <3>1. f.tp \in U
      BY <2>4, <2>5, <2>12
    <3>2. tp \in U /\ mtime[tp] <= mtime[f.tp] /\ ~f.need /\ ~f.err
      BY <2>5, <2>7, <3>1 DEF DoneWith, Settled, FrameDone
    <3>3. ~b /\ ~(stamp[tp] > mtime[f.tp])
      BY <2>8, <3>2
    <3> QED BY <2>6, <3>2, <3>3
  <2>13. Steady(f.tp) => Steady(tp)
    BY <2>5, SteadyFacts DEF Core
  <2>14. ASSUME Steady(g.tp), ~g.err, ~g.need PROVE \A k \in 1 .. g.p - 1 : mtime[deps[g.tp][k]] <= mtime[g.tp]
    <3>1. ~f.err /\ ~f.need /\ ~b /\ ~(stamp[tp] > mtime[f.tp])
      BY <2>6, <2>14
    <3>2. mtime[tp] <= mtime[f.tp]
      BY <2>8, <3>1
    <3>3. \A k \in 1 .. f.p - 1 : mtime[deps[f.tp][k]] <= mtime[f.tp]
      BY <2>4, <2>7, <2>14, <3>1 DEF FrameDone
    <3> QED BY <2>4, <2>5, <2>9, <3>2, <3>3
  <2>15. ASSUME Steady(g.tp), ~g.err, g.need
         PROVE  mtime[g.tp] >= MaxTime - 1 \/ \E k \in 1 .. g.p - 1 : mtime[deps[g.tp][k]] > mtime[g.tp]
    <3>1. CASE f.need
      BY <2>4, <2>6, <2>7, <2>10, <2>15, <3>1 DEF FrameDone
    <3>2. CASE b
      <4>1. mtime[tp] >= MaxTime - 1
        BY <2>4, <2>13, <2>15, <3>2
      <4>2. mtime[f.tp] >= MaxTime - 1 \/ mtime[tp] > mtime[f.tp]
        BY <2>8, <4>1
      <4> QED BY <2>4, <2>5, <2>10, <4>2
    <3>3. CASE ~b /\ stamp[tp] > mtime[f.tp]
      BY <2>4, <2>5, <2>10, <3>3
    <3> QED BY <2>6, <2>15, <3>1, <3>2, <3>3
  <2>16. FrameDone(V, g)'
    BY <1>2, <2>11, <2>12, <2>14, <2>15 DEF FrameDone
  <2>17. \A j \in 1 .. n : j # n => j \in 1 .. Len(stack) - 2 /\ j \in 1 .. Len(stack) /\ j \in 1 .. Len(stack) - 1
    BY <2>0, <2>1
  <2>18. ASSUME NEW j \in 1 .. n, j # n PROVE FrameDone(V, stack[j])'
    <3>1. PICK h : h = stack[j]
      OBVIOUS
    <3>2. FrameDone(U, h) /\ stack'[j] = h /\ h.tp # tp
      BY <1>7, <2>17, <2>18, <3>1, Alone DEF DoneWith, FramesDone, Popped
    <3>3. FrameDone(V, h)'
      BY <1>2, <3>2 DEF FrameDone
    <3> QED BY <3>2, <3>3 DEF FrameDone
  <2>19. FrameDone(V, stack[n])'
    BY <2>3, <2>16 DEF FrameDone
  <2>20. FramesDone(V)'
    BY <2>1, <2>18, <2>19 DEF FramesDone
  <2>21. GoalsDone(V)'
    BY <1>2, <1>5, <2>1 DEF GoalsDone
  <2> QED BY <1>3, <2>20, <2>21
<1> QED BY <1>1, <1>6, <1>7
\* A steady target that is up to date will stay so.
LEMMA NowSettled ==
    ASSUME Core, NEW U \in SUBSET Target, DoneWith(U), UpToDate, ~fl.t, Steady(tp), tp \notin U,
           NEW V, V = U \cup {tp}
    PROVE  Settled(V)
<1>1. pc = "loop" /\ AtEnd /\ ~top.err /\ ~Need /\ stack # << >>
  BY DEF UpToDate, Core, FramesOK, Busy
<1>2. stamp[tp] = mtime[tp] /\ tp \in Target /\ \A d \in Target : mtime[d] \in Int
  BY <1>1, StackTypes DEF Core, TimesOK
<1>3. mtime[tp] # -1 /\ ~top.need
  BY <1>1, <1>2 DEF Need
<1>4. \A d \in Range(deps[tp]) : d \in U /\ d \in Target
  BY <1>1, ReturnBase DEF DoneWith
<1>5. \A d \in Range(deps[tp]) : mtime[d] <= mtime[tp]
  <2>1. FrameDone(U, top) /\ top.tp = tp /\ \A d \in Range(deps[tp]) : \E k \in 1 .. top.p - 1 : d = deps[tp][k]
    BY <1>1, TopDone DEF DoneWith
  <2> QED BY <1>1, <1>3, <2>1 DEF FrameDone
<1>6. Untouched(tp) /\ Remakings(tp) = {}
  BY <1>1, <1>2 DEF DoneWith, Others
<1>7. FailedLast(tp) => tp \in partial
  <2> SUFFICES ASSUME FailedLast(tp), tp \notin partial PROVE FALSE
    OBVIOUS
  <2>1. PICK d \in Range(deps[tp]) : mtime[d] > mtime[tp]
    BY <1>1, <1>2, <1>3 DEF DoneWith, Stale
  <2> QED BY <1>2, <1>4, <1>5, <2>1
<1>8. ASSUME ~Failed, NEW d \in Range(deps[tp]) PROVE Remakings(d) = {}
  <2> SUFFICES ASSUME Remakings(d) # {} PROVE FALSE
    OBVIOUS
  <2>1. mtime[d] >= MaxTime - 1 /\ mtime[d] <= mtime[tp] /\ mtime[d] \in Int
    BY <1>2, <1>4, <1>5 DEF DoneWith, Settled
  <2>2. tp \in partial
    BY <1>2, <1>6, <2>1, TimeAssumption DEF Untouched
  <2> QED BY <1>1, <1>2, <1>8, <2>2 DEF DoneWith, Cut
<1>9. ASSUME NEW u \in U
      PROVE  /\ Steady(u) /\ mtime[u] # -1
             /\ \A d \in Range(deps[u]) : d \in V /\ mtime[d] <= mtime[u]
             /\ FailedLast(u) => u \in partial
             /\ Remakings(u) # {} => mtime[u] >= MaxTime - 1
             /\ ~Failed => \A d \in Range(deps[u]) : \A j \in Remakings(d) : \E l \in Remakings(u) : j < l
  BY DEF DoneWith, Settled
<1>10. /\ Steady(tp) /\ mtime[tp] # -1
       /\ \A d \in Range(deps[tp]) : d \in V /\ mtime[d] <= mtime[tp]
       /\ FailedLast(tp) => tp \in partial
       /\ Remakings(tp) # {} => mtime[tp] >= MaxTime - 1
       /\ ~Failed => \A d \in Range(deps[tp]) : \A j \in Remakings(d) : \E l \in Remakings(tp) : j < l
  BY <1>3, <1>4, <1>5, <1>6, <1>7, <1>8
<1> QED BY <1>9, <1>10 DEF Settled

LEMMA UpToDateDone ==
    ASSUME Core, NEW U \in SUBSET Target, DoneWith(U), UpToDate, ~fl.t
    PROVE  \E V \in SUBSET Target : DoneWith(V)'
<1>1. /\ pc = "loop" /\ AtEnd /\ ~top.err /\ stack # << >> /\ Busy /\ TreeSame /\ Return(FALSE, FALSE)
      /\ UNCHANGED <<mtime, partial, log, exitstatus>>
  BY DEF UpToDate, Core, FramesOK, Busy, TreeSame, disk
<1>2. tp \in Target /\ stamp[tp] = mtime[tp]
  BY <1>1, StackTypes DEF Core, TimesOK
<1>3. PICK V : V = IF Steady(tp) THEN U \cup {tp} ELSE U
  OBVIOUS
<1>4. U \subseteq V /\ V \subseteq U \cup {tp} /\ (Steady(tp) => tp \in V) /\ V \in SUBSET Target
  BY <1>2, <1>3
<1>5. Settled(V)
  <2>1. CASE V = U
    BY <2>1 DEF DoneWith
  <2>2. CASE V # U
    BY <1>3, <2>2, NowSettled
  <2> QED BY <2>1, <2>2
<1>6. Others(V) /\ Stale(V) /\ Cut /\ Once
  BY <1>4 DEF DoneWith, Others, Stale
<1>7. Settled(V)' /\ Once' /\ Others(V)' /\ Cut' /\ Stale(V)'
  BY <1>1, <1>5, <1>6, FilesKeep, QuietKeep
<1>8. FramesDone(V)' /\ GoalsDone(V)' /\ RunningDone(V)'
  <2>1. FALSE \in BOOLEAN
    OBVIOUS
  <2> QED BY <1>1, <1>2, <1>4, <2>1, SuccessFrames
<1> QED BY <1>4, <1>7, <1>8 DEF DoneWith

\* Nothing can be run for a target without recipe and files.
LEMMA NothingDone ==
    ASSUME Core, NEW U \in SUBSET Target, DoneWith(U), NothingToRun, ~fl.t
    PROVE  DoneWith(U)'
<1>1. /\ pc = "loop" /\ AtEnd /\ ~top.err /\ stack # << >> /\ Busy /\ TreeSame /\ Return(FALSE, TRUE)
      /\ UNCHANGED <<mtime, partial, log, exitstatus>> /\ actions[tp] = << >> /\ tp \in defined
  BY DEF NothingToRun, NoRule, Core, FramesOK, Busy, TreeSame, disk
<1>2. tp \in Target
  BY <1>1, StackTypes
<1>3. ~Steady(tp)
  BY <1>1, <1>2, SteadyFacts DEF Core, Phony
<1>4. tp \notin U
  BY <1>3 DEF DoneWith, Settled
<1>5. Settled(U)' /\ Once' /\ Others(U)' /\ Cut' /\ Stale(U)'
  BY <1>1, FilesKeep, QuietKeep DEF DoneWith
<1>6. FramesDone(U)' /\ GoalsDone(U)' /\ RunningDone(U)'
  BY <1>1, <1>3, <1>4, SuccessFrames
<1> QED BY <1>5, <1>6 DEF DoneWith

LEMMA RemadeDone ==
    ASSUME Core, LogOK, NEW U \in SUBSET Target, DoneWith(U), Remade, ~fl.t
    PROVE  \E V \in SUBSET Target : DoneWith(V)'
<1>0. PICK q : q = tp
  OBVIOUS
<1>1. /\ pc = "run" /\ cmds = << >> /\ Running /\ TreeSame /\ Return(FALSE, TRUE)
      /\ UNCHANGED <<mtime, partial, exitstatus>> /\ log' = Append(log, [t |-> tp, ok |-> TRUE])
  BY DEF Remade, TreeSame, disk, Running
<1>2. tp \in Target /\ stack # << >> /\ Busy /\ AtEnd /\ ~top.err
  BY <1>1, RunningFacts
<1>3. /\ tp \notin U
      /\ Steady(tp) => mtime[tp] >= MaxTime - 1 /\ tp \notin partial /\ \A d \in Range(deps[tp]) : mtime[d] <= mtime[tp]
  BY <1>1 DEF DoneWith, RunningDone
<1>4. PICK V : V = IF Steady(tp) THEN U \cup {tp} ELSE U
  OBVIOUS
<1>5. U \subseteq V /\ V \subseteq U \cup {tp} /\ (Steady(tp) => tp \in V) /\ V \in SUBSET Target
  BY <1>2, <1>4
<1>6. FramesDone(V)' /\ GoalsDone(V)' /\ RunningDone(V)' /\ pc' \in {"main", "loop"}
  BY <1>1, <1>2, <1>3, <1>5, SuccessFrames
<1>7. /\ \A s : s # q => Remakings(s)' = Remakings(s) /\ (FailedLast(s)' <=> FailedLast(s))
      /\ Len(log) \in Nat /\ \A s : Remakings(s) \subseteq 1 .. Len(log)
      /\ Remakings(q)' = Remakings(q) \cup {Len(log) + 1} /\ ~FailedLast(q)'
      /\ Failed' <=> Failed
  <2>1. PICK b \in BOOLEAN : b = TRUE
    OBVIOUS
  <2>2. log' = Append(log, [t |-> q, ok |-> b])
    BY <1>0, <1>1, <2>1
  <2>3. /\ \A s : s # q => Remakings(s)' = Remakings(s) /\ (FailedLast(s)' <=> FailedLast(s))
        /\ Len(log) \in Nat /\ \A s : Remakings(s) \subseteq 1 .. Len(log)
        /\ b => Remakings(q)' = Remakings(q) \cup {Len(log) + 1} /\ ~FailedLast(q)'
        /\ Failed' <=> Failed \/ ~b
    BY <1>0, <1>2, <2>2, LogMore
  <2> QED BY <2>1, <2>3
<1>8. /\ deps' = deps /\ mtime' = mtime /\ partial' = partial
      /\ \A s : (Steady(s)' <=> Steady(s)) /\ (Untouched(s)' <=> Untouched(s))
  BY <1>1, SteadySame DEF TreeSame, tree, Untouched
<1>9. \A t \in Target : Steady(t) /\ t \notin V => t # tp /\ t \notin U
  BY <1>5
<1>10. Settled(V)'
  <2>1. ASSUME NEW u \in U
        PROVE  /\ Steady(u) /\ mtime[u] # -1
               /\ \A d \in Range(deps[u]) : d \in V /\ mtime[d] <= mtime[u]
               /\ FailedLast(u)' => u \in partial
               /\ Remakings(u)' # {} => mtime[u] >= MaxTime - 1
               /\ ~Failed' => \A d \in Range(deps[u]) : \A j \in Remakings(d)' : \E l \in Remakings(u)' : j < l
    <3>1. u # tp /\ \A d \in Range(deps[u]) : d \in U /\ d # tp
      BY <1>3 DEF DoneWith, Settled
    <3> QED BY <1>5, <1>0, <1>7, <3>1 DEF DoneWith, Settled
  <2>2. ASSUME Steady(tp)
        PROVE  /\ mtime[tp] # -1 /\ mtime[tp] >= MaxTime - 1
               /\ \A d \in Range(deps[tp]) : d \in V /\ mtime[d] <= mtime[tp]
               /\ \A d \in Range(deps[tp]) : \A j \in Remakings(d)' : \E l \in Remakings(q)' : j < l
    <3>1. \A d \in Range(deps[tp]) : d \in U
      BY <1>2, <2>2, ReturnBase DEF DoneWith
    <3>2. ASSUME NEW d \in Range(deps[tp]), NEW j \in Remakings(d)' PROVE \E l \in Remakings(q)' : j < l
      <4>1. j \in Remakings(d)
        BY <1>3, <1>0, <1>7, <3>1, <3>2
      <4>2. j < Len(log) + 1
        BY <1>0, <1>7, <4>1
      <4> QED BY <1>0, <1>7, <4>2
    <3>3. mtime[tp] # -1
      BY <1>2, <1>3, <2>2, TimeAssumption
    <3> QED BY <1>3, <1>5, <2>2, <3>1, <3>2, <3>3
  <2>3. \A u \in V : u \in U \/ (u = tp /\ Steady(tp))
    BY <1>4
  <2>4. ASSUME NEW u \in V
        PROVE  /\ Steady(u) /\ mtime[u] # -1
               /\ \A d \in Range(deps[u]) : d \in V /\ mtime[d] <= mtime[u]
               /\ FailedLast(u)' => u \in partial
               /\ Remakings(u)' # {} => mtime[u] >= MaxTime - 1
               /\ ~Failed' => \A d \in Range(deps[u]) : \A j \in Remakings(d)' : \E l \in Remakings(u)' : j < l
    <3>1. CASE u \in U
      BY <2>1, <3>1
    <3>2. CASE u = tp /\ Steady(tp)
      BY <1>0, <1>7, <2>2, <3>2
    <3> QED BY <2>3, <3>1, <3>2
  <2> QED BY <1>8, <2>4 DEF Settled
<1>11. Others(V)'
  BY <1>0, <1>7, <1>8, <1>9 DEF DoneWith, Others
<1>12. Stale(V)'
  BY <1>0, <1>7, <1>8, <1>9 DEF DoneWith, Stale
<1>13. Cut'
  BY <1>3, <1>0, <1>7, <1>8 DEF DoneWith, Cut
<1>14. Once'
  <2>1. Steady(tp) => Remakings(tp) = {}
    BY <1>2, <1>3 DEF DoneWith, Others
  <2>2. ASSUME NEW t \in Target, Steady(t), NEW i \in Remakings(t)', NEW j \in Remakings(t)' PROVE i = j
    <3>1. CASE t = tp
      <4>1. Remakings(q)' = {Len(log) + 1}
        BY <1>0, <1>7, <2>1, <2>2, <3>1
      <4>2. i \in Remakings(q)' /\ j \in Remakings(q)'
        BY <1>0, <2>2, <3>1
      <4> QED BY <4>1, <4>2
    <3>2. CASE t # tp
      BY <1>0, <1>7, <2>2, <3>2 DEF DoneWith, Once
    <3> QED BY <3>1, <3>2
  <2> QED BY <1>8, <2>2 DEF Once
<1> QED BY <1>5, <1>6, <1>10, <1>11, <1>12, <1>13, <1>14 DEF DoneWith-----------------------------------------------------------------------------
(* Every step.                                                             *)

\* A step that changes only the signal or nothing at all.
LEMMA HoldDone ==
    ASSUME NEW U, DoneWith(U), TreeSame, UNCHANGED <<pc, mtime, partial, log, exitstatus, goal, stack, stamp, cmds>>
    PROVE  DoneWith(U)'
<1>1. /\ deps' = deps /\ mk' = mk /\ Goals' = Goals
      /\ \A s : (Steady(s)' <=> Steady(s)) /\ Base(s)' = Base(s)
  BY SteadySame DEF TreeSame, tree
<1>2. /\ \A s : /\ (Untouched(s)' <=> Untouched(s)) /\ Remakings(s)' = Remakings(s)
                /\ (FailedLast(s)' <=> FailedLast(s))
      /\ (Failed' <=> Failed) /\ Settled(U)' /\ Once' /\ tp' = tp
      /\ \A x : Skipped(x)' <=> Skipped(x)
  BY <1>1, FilesKeep DEF DoneWith, tp, top, Skipped, fl
<1>3. Others(U)'
  BY <1>1, <1>2 DEF DoneWith, Others
<1>4. Cut'
  BY <1>1, <1>2 DEF DoneWith, Cut
<1>5. Stale(U)'
  BY <1>1, <1>2 DEF DoneWith, Stale
<1>6. FramesDone(U)' /\ GoalsDone(U)'
  BY <1>1, FilesKeep DEF DoneWith, FramesDone, GoalsDone
<1>7. RunningDone(U)'
  BY <1>1, <1>2 DEF DoneWith, RunningDone, Running
<1> QED BY <1>2, <1>3, <1>4, <1>5, <1>6, <1>7 DEF DoneWith

\* Before the first goal no target is done with, and none needs to be.
LEMMA BeginDone ==
    ASSUME Core, ParseOK, HitOK, EndParse
    PROVE  DoneWith({})'
<1>1. /\ pc = "parse" /\ pc' = "main" /\ TreeSame
      /\ UNCHANGED <<mtime, partial, log, exitstatus, goal, stack, stamp, cmds>>
  BY DEF EndParse, TreeSame, disk
<1>2. log' = << >> /\ DOMAIN log' = {} /\ Len(stack') = 0 /\ goal' = 1 /\ partial' = {}
      /\ \A t \in Target : mtime'[t] <= MaxTime - 2
  BY <1>1, EmptySeq DEF ParseOK, HitOK, Core, FramesOK
<1>3. /\ \A s : Remakings(s)' = {} /\ ~FailedLast(s)'
      /\ \A t \in Target : Untouched(t)'
  BY <1>2 DEF Remakings, FailedLast, Untouched
<1>4. Settled({})' /\ Others({})' /\ Cut' /\ Stale({})' /\ Once'
  BY <1>2, <1>3 DEF Settled, Others, Cut, Stale, Once
<1>5. RunningDone({})'
  BY <1>1 DEF RunningDone, Running
<1>6. FramesDone({})' /\ GoalsDone({})'
  <2>1. 1 .. goal' - 1 = {} /\ 1 .. Len(stack') = {}
    BY <1>2
  <2> QED BY <2>1 DEF FramesDone, GoalsDone
<1> QED BY <1>4, <1>5, <1>6 DEF DoneWith

LEMMA StepDone == Core /\ ExitOK /\ HitOK /\ ParseOK /\ DoneOK /\ [Next]_vars => ParseOK' /\ DoneOK'
<1> SUFFICES ASSUME Core, ExitOK, HitOK, ParseOK, DoneOK, [Next]_vars PROVE ParseOK' /\ DoneOK'
  OBVIOUS
<1>0. FramesExit /\ StatusOK /\ LogOK
  BY ExitParts DEF StatusOK, LogOK
<1>1. CASE ParseRule
  <2>1. pc = "parse" /\ pc' = "parse" /\ log' = log /\ goal' = goal /\ mtime' = mtime
    BY <1>1 DEF ParseRule, disk
  <2> QED BY <2>1 DEF ParseOK, DoneOK
<1>2. CASE EndParse
  <2>1. pc' = "main"
    BY <1>2 DEF EndParse
  <2>2. {} \in SUBSET Target /\ DoneWith({})'
    BY <1>2, BeginDone
  <2> QED BY <2>1, <2>2 DEF ParseOK, DoneOK
<1>3. CASE pc' = "exited"
  BY <1>3 DEF ParseOK, DoneOK
<1>4. CASE pc = "parse" /\ UNCHANGED <<pc, log, goal, mtime>>
  BY <1>4 DEF ParseOK, DoneOK
<1>5. ASSUME pc # "parse", TreeSame, pc' \notin {"parse", "exited"}, exitstatus' \in {exitstatus, 1},
             pc # "exited",
             Real /\ ~fl.t /\ (\E U \in SUBSET Target : DoneWith(U)) => \E V \in SUBSET Target : DoneWith(V)'
      PROVE  ParseOK' /\ DoneOK'
  <2>1. Real' => Real /\ ~fl.t
    <3>1. fl' = fl
      BY <1>5 DEF fl, TreeSame
    <3> QED BY <3>1, <1>5 DEF Real
  <2> QED BY <1>5, <2>1 DEF ParseOK, DoneOK
<1>6. CASE Build \/ Descend
  <2>1. /\ TreeSame /\ UNCHANGED <<mtime, partial, log, exitstatus, goal>> /\ pc \in {"main", "loop"} /\ pc' = "loop"
    BY <1>6 DEF Build, Descend, TreeSame, disk
  <2>2. PICK t \in Target : Enter(t)
    <3>1. CASE Build
      BY <3>1, GoalsTypes DEF Build, Core, GoalsOK
    <3>2. CASE Descend
      <4>1. stack # << >> /\ ~AtEnd /\ Enter(deps[tp][top.p])
        BY <3>2 DEF Descend, Core, FramesOK, Busy
      <4>2. deps[tp] \in Seq(Target) /\ Len(deps[tp]) \in Nat /\ top.p \in Nat \ {0}
        BY <4>1, StackTypes
      <4>3. deps[tp][top.p] \in Target
        BY <4>1, <4>2, ElementOfSeq DEF AtEnd
      <4> QED BY <4>1, <4>3
    <3> QED BY <1>6, <3>1, <3>2
  <2> QED BY <1>5, <2>1, <2>2, EnterDone
<1>7. CASE NotRemade
  <2>1. /\ TreeSame /\ UNCHANGED <<mtime, partial, log, exitstatus>> /\ pc = "loop" /\ Return(TRUE, FALSE)
        /\ AtEnd /\ top.err /\ stack # << >> /\ pc' \in {"main", "loop"}
    BY <1>7 DEF NotRemade, TreeSame, disk, Core, FramesOK, Busy, Return
  <2>2. exitstatus = 1
    <3>1. Len(stack) \in 1 .. Len(stack) /\ top = stack[Len(stack)]
      BY <2>1, StackTypes
    <3> QED BY <1>0, <2>1, <3>1 DEF FramesExit
  <2>3. ASSUME NEW U \in SUBSET Target, DoneWith(U) PROVE DoneWith(U)'
    <3>1. tp \notin U
      BY <2>1, <2>3, TopDone DEF DoneWith, FrameDone
    <3> QED BY <2>1, <2>2, <2>3, <3>1, ErrorDone
  <2> QED BY <1>5, <2>1, <2>3
<1>8. CASE KeepGoing
  <2>1. /\ TreeSame /\ UNCHANGED <<mtime, partial, log>> /\ exitstatus' = 1 /\ pc = "failed" /\ Return(TRUE, TRUE)
        /\ pc' \in {"main", "loop"} /\ Running
    BY <1>8 DEF KeepGoing, TreeSame, disk, Running, Return
  <2>2. stack # << >> /\ AtEnd
    BY <2>1, RunningFacts
  <2>3. ASSUME NEW U \in SUBSET Target, DoneWith(U) PROVE DoneWith(U)'
    <3>1. tp \notin U
      BY <2>1, <2>3 DEF DoneWith, RunningDone
    <3> QED BY <2>1, <2>2, <2>3, <3>1, ErrorDone
  <2> QED BY <1>5, <2>1, <2>3
<1>9. CASE UpToDate
  <2>1. TreeSame /\ exitstatus' = exitstatus /\ pc = "loop" /\ pc' \in {"main", "loop"}
    BY <1>9 DEF UpToDate, TreeSame, Return
  <2> QED BY <1>5, <1>9, <2>1, UpToDateDone
<1>10. CASE NothingToRun
  <2>1. TreeSame /\ exitstatus' = exitstatus /\ pc = "loop" /\ pc' \in {"main", "loop"}
    BY <1>10 DEF NothingToRun, TreeSame, Return
  <2> QED BY <1>5, <1>10, <2>1, NothingDone
<1>11. CASE Remade
  <2>1. TreeSame /\ exitstatus' = exitstatus /\ pc = "run" /\ pc' \in {"main", "loop"}
    BY <1>11 DEF Remade, TreeSame, Return
  <2> QED BY <1>0, <1>5, <1>11, <2>1, RemadeDone
<1>12. CASE Update
  <2>1. TreeSame /\ exitstatus' = exitstatus /\ pc = "loop" /\ pc' = "run"
    BY <1>12 DEF Update, TreeSame
  <2> QED BY <1>5, <1>12, <2>1, UpdateDone
<1>13. CASE launch
  <2>1. TreeSame /\ exitstatus' = exitstatus /\ pc = "run" /\ pc' = "child"
    BY <1>13 DEF launch, TreeSame
  <2> QED BY <1>5, <1>13, <2>1, LaunchDone
<1>14. CASE Skip
  <2>1. TreeSame /\ pc = "run" /\ pc' = "run" /\ Skipped(Head(cmds))
        /\ exitstatus' = IF fl.q /\ ~fl.t THEN 1 ELSE exitstatus
    BY <1>14 DEF Skip, TreeSame
  <2>2. ~Real'
    <3>1. fl' = fl
      BY <2>1 DEF fl, TreeSame
    <3> QED BY <2>1, <3>1 DEF Real, Skipped
  <2> QED BY <2>1, <2>2 DEF ParseOK, DoneOK
<1>15. CASE Child
  <2>1. TreeSame /\ exitstatus' = exitstatus /\ pc = "child" /\ pc' \in {"run", "failed"}
    BY <1>15 DEF Child, Succeeds, IgnoredFailure, Failure, TreeSame
  <2> QED BY <1>0, <1>5, <1>15, <2>1, ChildDone
<1>16. CASE sighandler \/ UNCHANGED vars
  <2>1. TreeSame /\ UNCHANGED <<pc, mtime, partial, log, exitstatus, goal, stack, stamp, cmds>>
    BY <1>16 DEF sighandler, vars, TreeSame, disk
  <2>2. CASE pc \in {"parse", "exited"}
    BY <1>3, <1>4, <2>1, <2>2
  <2>3. CASE pc \notin {"parse", "exited"}
    BY <1>5, <2>1, <2>3, HoldDone
  <2> QED BY <2>2, <2>3
<1>17. CASE Finish \/ Interrupted \/ DontKnow \/ FailInterrupted \/ GiveUp \/ Done
  <2>1. pc' = "exited"
    BY <1>17 DEF Finish, Interrupted, DontKnow, FailInterrupted, GiveUp, Done, cleanup, vars
  <2> QED BY <1>3, <2>1
<1> QED BY <1>1, <1>2, <1>6, <1>7, <1>8, <1>9, <1>10, <1>11, <1>12, <1>13, <1>14, <1>15, <1>16, <1>17
        DEF Next, Self-----------------------------------------------------------------------------
(* What this says of the run and of its end.                               *)

\* Below the target of a running recipe everything is done with.
LEMMA RunsOnDone ==
    ASSUME Core, DoneOK
    PROVE  NoRunAfterFailure
<1> SUFFICES ASSUME Earnest, pc \in {"run", "child"}, NEW d \in Target \ partial, Steady(d), FailedLast(d),
                    d \in Below(tp)
             PROVE  FALSE
  BY DEF NoRunAfterFailure
<1>1. PICK U \in SUBSET Target : DoneWith(U)
  BY DEF DoneOK, Real, Earnest
<1>2. stack # << >> /\ AtEnd /\ ~top.err /\ tp \in Target /\ TreeOK
  BY RunningFacts DEF Running, Core
<1>3. Range(deps[tp]) \subseteq Target
  BY <1>2, RangeTypes
<1>4. PICK s \in Range(deps[tp]) : d \in Reach({s})
  BY <1>2, <1>3, ReachSplit DEF Below
<1>5. Base(s) \subseteq U
  BY <1>1, <1>2, TopDone DEF DoneWith
<1>6. d \in U
  BY <1>4, <1>5 DEF Base
<1> QED BY <1>1, <1>6 DEF DoneWith, Settled

\* When the last goal is built without an error the targets below the goals are done with.
LEMMA GoalsCurrent ==
    ASSUME Core, StatusOK, DoneOK, pc = "main", goal > Len(Goals), exitstatus = 0, ~fl.n, ~fl.t,
           NEW t \in Reach(Range(Goals)), Steady(t), actions[t] # << >>
    PROVE  Current(t)
<1>1. PICK U \in SUBSET Target : DoneWith(U)
  BY DEF DoneOK, Real
<1>2. ~Failed
  BY DEF StatusOK
<1>3. TreeOK /\ goal \in Nat \ {0}
  BY DEF Core, GoalsOK
<1>4. Goals \in Seq(Target) /\ Len(Goals) \in Nat /\ (\A g \in 1 .. Len(Goals) : Goals[g] \in Target)
      /\ DOMAIN Goals = 1 .. Len(Goals)
  BY <1>3, GoalsTypes, LenProperties
<1>5. Range(Goals) \subseteq Target
  BY <1>4 DEF Range
<1>6. PICK s \in Range(Goals) : t \in Reach({s})
  BY <1>3, <1>5, ReachSplit
<1>7. PICK g \in 1 .. Len(Goals) : s = Goals[g]
  BY <1>4 DEF Range
<1>8. g \in 1 .. goal - 1
  BY <1>3, <1>4
<1>9. Base(s) \subseteq U
  BY <1>1, <1>7, <1>8 DEF DoneWith, GoalsDone
<1>10. t \in U
  BY <1>6, <1>9, ReachFacts, <1>3 DEF Base
<1>11. Sources(t) = Range(deps[t])
  BY DEF Sources
<1> QED BY <1>1, <1>2, <1>10, <1>11 DEF DoneWith, Settled, Current

LEMMA StepOnce == Core /\ ParseOK' /\ DoneOK' /\ AtMostOnce /\ [Next]_vars => AtMostOnce'
<1> SUFFICES ASSUME Core, ParseOK', DoneOK', AtMostOnce, [Next]_vars, Earnest' PROVE Once'
  BY DEF AtMostOnce, Once
<1>1. CASE pc' = "parse"
  <2>1. DOMAIN log' = {}
    BY <1>1, EmptySeq DEF ParseOK
  <2>2. \A s : Remakings(s)' = {}
    BY <2>1 DEF Remakings
  <2> QED BY <2>2 DEF Once
<1>2. CASE pc' \notin {"parse", "exited"}
  BY <1>2 DEF DoneOK, DoneWith, Real, Earnest
<1>3. CASE pc' = "exited"
  <2>1. TreeSame /\ log' = log
    BY <1>3 DEF Next, Self, Child, Done, vars, ParseRule, EndParse, Build, Finish, Interrupted, Descend, NotRemade,
                UpToDate, Update, NothingToRun, DontKnow, Skip, launch, Remade, Succeeds, IgnoredFailure, Failure,
                FailInterrupted, KeepGoing, GiveUp, sighandler, Return, cleanup, TreeSame
  <2>2. Earnest
    BY <2>1 DEF Earnest, fl, TreeSame
  <2>3. \A s : Remakings(s)' = Remakings(s) /\ (Steady(s)' <=> Steady(s))
    BY <2>1, LogKeep, SteadySame
  <2> QED BY <2>2, <2>3 DEF AtMostOnce, Once
<1> QED BY <1>1, <1>2, <1>3

LEMMA StepFresh == Core /\ ExitOK /\ ExitOK' /\ DoneOK /\ Fresh /\ [Next]_vars => Fresh'
<1> SUFFICES ASSUME Core, ExitOK, ExitOK', DoneOK, Fresh, [Next]_vars, Success' PROVE Fresh'
  BY DEF Fresh
<1>1. StatusOK /\ (pc # "exited" <=> status = "running")
  BY ExitParts
<1>2. pc' = "exited" /\ status' = "0"
  BY DEF Success, ExitOK
<1>3. Finish \/ UNCHANGED vars
  BY <1>2 DEF Next, Self, Child, Done, ParseRule, EndParse, Build, Interrupted, Descend, NotRemade,
              UpToDate, Update, NothingToRun, DontKnow, Skip, launch, Remade, Succeeds, IgnoredFailure, Failure,
              FailInterrupted, KeepGoing, GiveUp, sighandler, Return, cleanup
<1>4. TreeSame /\ UNCHANGED <<mtime, log>>
  BY <1>3 DEF Finish, vars, disk, TreeSame
<1>5. /\ fl' = fl /\ actions' = actions /\ deps' = deps /\ mk' = mk
      /\ Reach(Range(Goals))' = Reach(Range(Goals)) /\ \A t : Steady(t)' <=> Steady(t)
  BY <1>4, SteadySame DEF TreeSame, tree, fl
<1>6. \A t : Current(t)' <=> Current(t)
  BY <1>4, <1>5 DEF Current, Sources, Remakings
<1>7. CASE UNCHANGED vars
  <2>1. Success
    BY <1>5, <1>7 DEF Success, vars
  <2> QED BY <1>5, <1>6, <2>1 DEF Fresh
<1>8. CASE Finish
  <2>1. pc = "main" /\ goal > Len(Goals) /\ exitstatus = 0 /\ ~fl.n /\ ~fl.t
    BY <1>2, <1>5, <1>8 DEF Finish, Success
  <2>2. \A t \in Reach(Range(Goals)) : Steady(t) /\ actions[t] # << >> => Current(t)
    BY <1>1, <2>1, GoalsCurrent
  <2> QED BY <1>5, <1>6, <2>2 DEF Fresh
<1> QED BY <1>3, <1>7, <1>8

\* All of the invariant.
MakeInv == Core /\ ExitOK /\ HitOK /\ ParseOK /\ DoneOK /\ AtMostOnce /\ Fresh

LEMMA MakeInvHolds == Spec => []MakeInv
<1>1. Init => MakeInv
  <2> SUFFICES ASSUME Init PROVE MakeInv
    OBVIOUS
  <2>1. /\ pc = "parse" /\ status = "running" /\ log = << >> /\ stack = << >> /\ goal = 1 /\ hit = {} /\ partial = {}
        /\ exitstatus = 0 /\ mk \in Makefiles /\ mtime = mk.old
    BY DEF Init
  <2>2. Len(log) = 0 /\ DOMAIN log = {} /\ Len(stack) = 0 /\ log \in Seq([t : Target, ok : BOOLEAN])
    BY <2>1, EmptySeq
  <2>3. StatusOK /\ FramesExit /\ (pc # "exited" <=> status = "running") /\ ExitHonest
    BY <2>1, <2>2 DEF StatusOK, FramesExit, ExitHonest, Failed
  <2>4. MaxTime \in Nat \ {0} /\ \A t \in Target : mtime[t] \in -1 .. MaxTime - 2
    BY <2>1, FilesAssumption, TimeAssumption
  <2>5. ParseOK
    BY <2>1, <2>4 DEF ParseOK
  <2>6. HitOK /\ DoneOK /\ Fresh
    BY <2>1 DEF HitOK, DoneOK, Fresh, Success
  <2>7. AtMostOnce
    BY <2>2 DEF AtMostOnce, Remakings
  <2> QED BY <2>3, <2>5, <2>6, <2>7, InitCore, ExitParts DEF MakeInv
<1>2. MakeInv /\ [Next]_vars => MakeInv'
  <2> SUFFICES ASSUME MakeInv, [Next]_vars PROVE MakeInv'
    OBVIOUS
  <2>1. Core' /\ ExitOK' /\ HitOK' /\ ParseOK' /\ DoneOK'
    BY StepCore, StepExit, StepHit, StepDone DEF MakeInv
  <2>2. AtMostOnce' /\ Fresh'
    BY <2>1, StepOnce, StepFresh DEF MakeInv
  <2> QED BY <2>1, <2>2 DEF MakeInv
<1> QED BY <1>1, <1>2, PTL DEF Spec

(***************************************************************************)
(* rebuild() keeps no mark of what it has done: a target below several     *)
(* others is visited from each of them.  When recipes are really run,      *)
(* update() still succeeds at most once for a target made from files only, *)
(* because the first time shows in the stamp of its file.                  *)
(***************************************************************************)
THEOREM RemadeOnce == Spec => []AtMostOnce
<1>1. MakeInv => AtMostOnce
  BY DEF MakeInv
<1> QED BY <1>1, MakeInvHolds, PTL

(***************************************************************************)
(* With -k rebuild() goes on after update() failed: still, no recipe runs  *)
(* for a target above one that failed, on any path of the graph, unless    *)
(* the recipe that failed left its file behind.                            *)
(***************************************************************************)
THEOREM FailureStopsParents == Spec => []NoRunAfterFailure
<1>1. MakeInv => NoRunAfterFailure
  BY RunsOnDone DEF MakeInv
<1> QED BY <1>1, MakeInvHolds, PTL

(***************************************************************************)
(* main() exits 0 only when every target below the goals that has a recipe *)
(* and is made from files is there, no older than its prerequisites, and   *)
(* was remade after those of them that this run remade.                    *)
(***************************************************************************)
THEOREM SuccessIsFresh == Spec => []Fresh
<1>1. MakeInv => Fresh
  BY DEF MakeInv
<1> QED BY <1>1, MakeInvHolds, PTL
=============================================================================
