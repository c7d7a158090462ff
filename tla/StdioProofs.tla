----------------------------- MODULE StdioProofs -----------------------------
(***************************************************************************)
(* Proofs about Stdio, for every size of the buffers, every contents of    *)
(* the files, all calls and any number of failures of the system: no byte  *)
(* is stored outside of a buffer, and exit() loses none.                   *)
(***************************************************************************)
EXTENDS Stdio, SequenceTheorems, WellFoundedInduction, TLAPS

-----------------------------------------------------------------------------
(* The inductive invariant, in parts.                                      *)

Moods == ReadMoods \cup WriteMoods
Flags == Dirs \cup Modes \cup {"EOF", "ERR"}
Iob == [flags : SUBSET Flags, buf : {"NULL", "alloc", "unbuf", "user"},
        mem : Seq(Nat), rp : Nat, lp : Nat, len : Nat, over : BOOLEAN]
Desc == [open : {TRUE}, file : Files, off : Nat, acc : SUBSET {"in", "out", "app"}]
Machines == [f : Iob, d : Desc, t : Seq(Nat), mood : Moods, r : Int, got : Seq(Int),
             bad : BOOLEAN, flushall : BOOLEAN]

Reading(f) == "READ" \in f.flags
\* Neither line nor full buffering: each byte is written at once.
Loose(f) == "LBF" \notin f.flags /\ "FBF" \notin f.flags

\* The pointers are within the buffer; unbuffered streams keep no byte but one
\* that could not be written; and bytes to write, or room for putc() to put some,
\* are found by cleanup().  lost: the system failed on the stream.
Sound(f, lost, fa) ==
    /\ ~f.over
    /\ IF f.buf = "NULL" THEN f.mem = << >> /\ f.rp = 0
       ELSE f.len # 0 /\ ("LBF" \in f.flags => f.lp = f.len) /\ Len(f.mem) <= f.len /\ f.rp <= f.len
    /\ Reading(f) => f.rp <= Len(f.mem)
    /\ ~Reading(f) /\ Loose(f) => f.rp = 0 /\ (f.mem = << >> \/ (lost /\ "ERR" \in f.flags))
    /\ ~Reading(f) /\ (f.mem # << >> \/ f.rp # 0) => lost \/ ("WRITE" \in f.flags /\ fa)

\* An open stream that works in the directions of its descriptor.
Working(f, d) == f.flags \cap Dirs # {} /\ ("RW" \in f.flags => {"in", "out"} \subseteq d.acc)

Fresh(f, lost) == f.mem = << >> /\ f.rp = 0 /\ ~lost

OpenOK(s) ==
    /\ fds[s] \in Desc /\ Sound(iob[s], s \in bad, flushall) /\ Working(iob[s], fds[s])
    /\ dir[s] = "fresh" => Fresh(iob[s], s \in bad)
ClosedOK(s) == fds[s] = NoFd /\ ~iob[s].over /\ iob[s].flags \subseteq Modes

StateOK ==
    /\ iob \in [Slots -> Iob] /\ DOMAIN fds = Slots /\ DOMAIN dir = Slots
    /\ file \in [Files -> Seq(Nat)] /\ flushall \in BOOLEAN /\ bad \subseteq Slots
    /\ main \in Used
    /\ \A s \in Slots : OpenOK(s) \/ ClosedOK(s)

-----------------------------------------------------------------------------
(* Machines.                                                               *)

\* A machine whose stream was open in b and lost bytes if b, since _flushall was fa.
Fit(m, b, fa) ==
    m \in Machines /\ Sound(m.f, m.bad \/ b, m.flushall) /\ Working(m.f, m.d) /\ (fa => m.flushall)

LEMMA Fields ==
    ASSUME NEW m \in Machines
    PROVE  /\ m.f \in Iob /\ m.d \in Desc /\ m.t \in Seq(Nat) /\ m.mood \in Moods /\ m.r \in Int /\ m.got \in Seq(Int)
           /\ m.bad \in BOOLEAN /\ m.flushall \in BOOLEAN
           /\ m.f.flags \subseteq Flags /\ m.f.buf \in {"NULL", "alloc", "unbuf", "user"} /\ m.f.mem \in Seq(Nat)
           /\ m.f.rp \in Nat /\ m.f.lp \in Nat /\ m.f.len \in Nat /\ m.f.over \in BOOLEAN
           /\ m.d.open = TRUE /\ m.d.file \in Files /\ m.d.off \in Nat /\ m.d.acc \subseteq {"in", "out", "app"}
  BY DEF Machines, Iob, Desc

\* The fields that a step sets.
LEMMA SetF ==
    ASSUME NEW m \in Machines, NEW g \in Iob, NEW n, n = [m EXCEPT !.f = g]
    PROVE  n \in Machines /\ n.f = g /\ n.d = m.d /\ n.t = m.t /\ n.mood = m.mood /\ n.r = m.r /\ n.got = m.got
           /\ n.bad = m.bad /\ n.flushall = m.flushall
  BY DEF Machines
LEMMA SetR ==
    ASSUME NEW m \in Machines, NEW r \in Int, NEW n, n = [m EXCEPT !.r = r]
    PROVE  n \in Machines /\ n.f = m.f /\ n.d = m.d /\ n.t = m.t /\ n.mood = m.mood /\ n.r = r /\ n.got = m.got
           /\ n.bad = m.bad /\ n.flushall = m.flushall
  BY DEF Machines
LEMMA SetD ==
    ASSUME NEW m \in Machines, NEW d \in Desc, NEW n, n = [m EXCEPT !.d = d]
    PROVE  n \in Machines /\ n.f = m.f /\ n.d = d /\ n.t = m.t /\ n.mood = m.mood /\ n.r = m.r /\ n.got = m.got
           /\ n.bad = m.bad /\ n.flushall = m.flushall
  BY DEF Machines
LEMMA SetT ==
    ASSUME NEW m \in Machines, NEW t \in Seq(Nat), NEW n, n = [m EXCEPT !.t = t]
    PROVE  n \in Machines /\ n.f = m.f /\ n.d = m.d /\ n.t = t /\ n.mood = m.mood /\ n.r = m.r /\ n.got = m.got
           /\ n.bad = m.bad /\ n.flushall = m.flushall
  BY DEF Machines
LEMMA SetBad ==
    ASSUME NEW m \in Machines, NEW n, n = [m EXCEPT !.bad = TRUE]
    PROVE  n \in Machines /\ n.f = m.f /\ n.d = m.d /\ n.t = m.t /\ n.mood = m.mood /\ n.r = m.r /\ n.got = m.got
           /\ n.bad = TRUE /\ n.flushall = m.flushall
  BY DEF Machines
LEMMA SetGot ==
    ASSUME NEW m \in Machines, NEW g \in Seq(Int), NEW n, n = [m EXCEPT !.got = g]
    PROVE  n \in Machines /\ n.f = m.f /\ n.d = m.d /\ n.t = m.t /\ n.mood = m.mood /\ n.r = m.r /\ n.got = g
           /\ n.bad = m.bad /\ n.flushall = m.flushall
  BY DEF Machines
LEMMA SetAll ==
    ASSUME NEW m \in Machines, NEW n, n = [m EXCEPT !.flushall = TRUE]
    PROVE  n \in Machines /\ n.f = m.f /\ n.d = m.d /\ n.t = m.t /\ n.mood = m.mood /\ n.r = m.r /\ n.got = m.got
           /\ n.bad = m.bad /\ n.flushall = TRUE
  BY DEF Machines

\* The fields of a FILE that a step sets.
LEMMA SetMem ==
    ASSUME NEW f \in Iob, NEW x \in Seq(Nat), NEW g, g = [f EXCEPT !.mem = x]
    PROVE  g \in Iob /\ g.flags = f.flags /\ g.buf = f.buf /\ g.mem = x /\ g.rp = f.rp /\ g.lp = f.lp /\ g.len = f.len
           /\ g.over = f.over
  BY DEF Iob
LEMMA SetFlags ==
    ASSUME NEW f \in Iob, NEW x \in SUBSET Flags, NEW g, g = [f EXCEPT !.flags = x]
    PROVE  g \in Iob /\ g.flags = x /\ g.buf = f.buf /\ g.mem = f.mem /\ g.rp = f.rp /\ g.lp = f.lp /\ g.len = f.len
           /\ g.over = f.over
  BY DEF Iob
LEMMA SetRp ==
    ASSUME NEW f \in Iob, NEW x \in Nat, NEW g, g = [f EXCEPT !.rp = x]
    PROVE  g \in Iob /\ g.flags = f.flags /\ g.buf = f.buf /\ g.mem = f.mem /\ g.rp = x /\ g.lp = f.lp /\ g.len = f.len
           /\ g.over = f.over
  BY DEF Iob

\* n has the flags of m and those of x.
Adds(n, m, x) == n.f.flags = m.f.flags \cup x

\* Everything else that a result and new flags leave alone.
Rest(n, m) ==
    /\ n.f.buf = m.f.buf /\ n.f.mem = m.f.mem /\ n.f.rp = m.f.rp /\ n.f.lp = m.f.lp /\ n.f.len = m.f.len
    /\ n.f.over = m.f.over
    /\ n.d = m.d /\ n.t = m.t /\ n.mood = m.mood /\ n.got = m.got /\ n.flushall = m.flushall

\* Flags are added, with a result.
LEMMA SetFacts ==
    ASSUME NEW m \in Machines, NEW x, x \subseteq Flags, NEW r \in Int, NEW n, n = Set(m, x, r)
    PROVE  n \in Machines /\ Adds(n, m, x) /\ Rest(n, m) /\ n.r = r /\ n.bad = m.bad
<1>1. PICK f : f = m.f
  OBVIOUS
<1>2. PICK y : y = f.flags \cup x
  OBVIOUS
<1>3. PICK g : g = [f EXCEPT !.flags = y]
  OBVIOUS
<1>4. PICK k : k = [m EXCEPT !.f = g]
  OBVIOUS
<1>5. n = [k EXCEPT !.r = r]
  BY <1>1, <1>2, <1>3, <1>4 DEF Set
<1>6. f \in Iob /\ y \in SUBSET Flags
  BY <1>1, <1>2, Fields
<1>7. g \in Iob /\ g.flags = y /\ g.buf = f.buf /\ g.mem = f.mem /\ g.rp = f.rp
      /\ g.lp = f.lp /\ g.len = f.len /\ g.over = f.over
  BY <1>3, <1>6, SetFlags
<1>8. k \in Machines /\ k.f = g /\ k.d = m.d /\ k.t = m.t /\ k.mood = m.mood /\ k.got = m.got
      /\ k.bad = m.bad /\ k.flushall = m.flushall
  BY <1>4, <1>7, SetF
<1>9. n \in Machines /\ n.f = k.f /\ n.d = k.d /\ n.t = k.t /\ n.mood = k.mood /\ n.r = r /\ n.got = k.got
      /\ n.bad = k.bad /\ n.flushall = k.flushall
  BY <1>5, <1>8, SetR
<1> QED BY <1>1, <1>2, <1>7, <1>8, <1>9 DEF Adds, Rest

LEMMA FailingFacts ==
    ASSUME NEW m \in Machines, NEW r \in Int, NEW n, n = Failing(m, r)
    PROVE  n \in Machines /\ Adds(n, m, {"ERR"}) /\ Rest(n, m) /\ n.r = r /\ n.bad = TRUE
<1>1. PICK k : k = Set(m, {"ERR"}, r)
  OBVIOUS
<1>2. PICK x : x = {"ERR"}
  OBVIOUS
<1>3. x \subseteq Flags
  BY <1>2 DEF Flags
<1>4. n = [k EXCEPT !.bad = TRUE]
  BY <1>1 DEF Failing
<1>5. k = Set(m, x, r)
  BY <1>1, <1>2
<1>6. k \in Machines /\ Adds(k, m, x) /\ Rest(k, m) /\ k.r = r /\ k.bad = m.bad
  BY <1>3, <1>5, SetFacts
<1>7. n \in Machines /\ n.f = k.f /\ n.d = k.d /\ n.t = k.t /\ n.mood = k.mood /\ n.r = k.r /\ n.got = k.got
      /\ n.bad = TRUE /\ n.flushall = k.flushall
  BY <1>4, <1>6, SetBad
<1> QED BY <1>2, <1>6, <1>7 DEF Adds, Rest

-----------------------------------------------------------------------------
(* The system.                                                             *)

LEMMA MaxPair ==
    ASSUME NEW a \in Int, NEW b \in Int
    PROVE  Max({a, b}) \in {a, b} /\ Max({a, b}) >= a /\ Max({a, b}) >= b
<1>1. \E x \in {a, b} : \A y \in {a, b} : x >= y
  <2>1. CASE a >= b
    BY <2>1
  <2>2. CASE b >= a
    BY <2>2
  <2> QED BY <2>1, <2>2
<1>2. Max({a, b}) \in {a, b} /\ \A y \in {a, b} : Max({a, b}) >= y
  BY <1>1 DEF Max
<1> QED BY <1>2
LEMMA MinPair ==
    ASSUME NEW a \in Int, NEW b \in Int
    PROVE  Min({a, b}) \in {a, b} /\ Min({a, b}) <= a /\ Min({a, b}) <= b
<1>1. \E x \in {a, b} : \A y \in {a, b} : x <= y
  <2>1. CASE a >= b
    BY <2>1
  <2>2. CASE b >= a
    BY <2>2
  <2> QED BY <2>1, <2>2
<1>2. Min({a, b}) \in {a, b} /\ \A y \in {a, b} : Min({a, b}) <= y
  BY <1>1 DEF Min
<1> QED BY <1>2

\* What a write leaves in the file.
LEMMA OverlaySeq ==
    ASSUME NEW t \in Seq(Nat), NEW p \in Nat, NEW bs \in Seq(Nat)
    PROVE  Overlay(t, p, bs) \in Seq(Nat)
<1> DEFINE e == IF bs = << >> THEN 0 ELSE p + Len(bs)
           N == Max({Len(t), e})
           O(i) == IF i > p /\ i <= p + Len(bs) THEN bs[i - p] ELSE IF i <= Len(t) THEN t[i] ELSE 0
<1>1. Len(t) \in Nat /\ Len(bs) \in Nat /\ e \in Nat
  BY LenProperties
<1>2. N \in Nat
  <2>1. PICK a, b : a = Len(t) /\ b = e
    OBVIOUS
  <2>2. a \in Nat /\ b \in Nat /\ a \in Int /\ b \in Int
    BY <1>1, <2>1
  <2>3. Max({a, b}) \in {a, b}
    BY <2>2, MaxPair
  <2> QED BY <2>1, <2>2, <2>3
<1>3. ASSUME NEW i \in 1 .. N PROVE O(i) \in Nat
  <2>0. i \in Int /\ i >= 1
    BY <1>2
  <2>1. CASE i > p /\ i <= p + Len(bs)
    <3>1. i - p \in 1 .. Len(bs)
      BY <1>1, <2>0, <2>1
    <3>2. bs[i - p] \in Nat
      BY <3>1, ElementOfSeq
    <3> QED BY <2>1, <3>2
  <2>2. CASE ~(i > p /\ i <= p + Len(bs)) /\ i <= Len(t)
    <3>1. i \in 1 .. Len(t)
      BY <1>1, <2>0, <2>2
    <3>2. t[i] \in Nat
      BY <3>1, ElementOfSeq
    <3> QED BY <2>2, <3>2
  <2> QED BY <2>1, <2>2
<1>4. Overlay(t, p, bs) = [i \in 1 .. N |-> O(i)]
  BY DEF Overlay
<1> HIDE DEF O, N
<1> QED BY <1>2, <1>3, <1>4

LEMMA Prefix ==
    ASSUME NEW s \in Seq(Nat), NEW a \in Nat, NEW b \in Nat, a >= 1, b <= Len(s)
    PROVE  SubSeq(s, a, b) \in Seq(Nat) /\ Len(SubSeq(s, a, b)) = IF a <= b THEN b - a + 1 ELSE 0
  BY SubSeqProperties, LenProperties

\* Everything but the FILE and the flag bad that a call may leave alone.
Apart(n, m) == n.d.acc = m.d.acc /\ n.mood = m.mood /\ n.got = m.got /\ n.flushall = m.flushall

\* A descriptor at another offset.
LEMMA SetOff ==
    ASSUME NEW d \in Desc, NEW o \in Nat, NEW g, g = [d EXCEPT !.off = o]
    PROVE  g \in Desc /\ g.acc = d.acc /\ g.file = d.file
  BY DEF Desc

LEMMA WriteFacts ==
    ASSUME NEW m \in Machines, wp(m) > 0, NEW n, n = _write(m)
    PROVE  n \in Machines /\ n.f = m.f /\ n.bad = m.bad /\ n.r \in Nat /\ Apart(n, m)
<1> DEFINE cnt == CASE m.mood = "ioerr" -> 0 [] m.mood = "full" -> wp(m) - 1 [] OTHER -> wp(m)
           p == IF "app" \in m.d.acc THEN Len(m.t) ELSE m.d.off
<1>1. m.f.mem \in Seq(Nat) /\ m.t \in Seq(Nat) /\ m.d \in Desc /\ m.d.off \in Nat
  BY Fields
<1>2. wp(m) \in Nat /\ Len(m.t) \in Nat
  BY <1>1, LenProperties DEF wp
<1>3. cnt \in Nat /\ cnt <= Len(m.f.mem)
  BY <1>2 DEF wp
<1>4. p \in Nat
  BY <1>1, <1>2
<1>5. n = [m EXCEPT !.t = Overlay(m.t, p, SubSeq(m.f.mem, 1, cnt)), !.d.off = p + cnt, !.r = cnt]
  BY DEF _write
<1> HIDE DEF cnt, p
<1>6. SubSeq(m.f.mem, 1, cnt) \in Seq(Nat)
  BY <1>1, <1>3, Prefix
<1>7. PICK t : t = Overlay(m.t, p, SubSeq(m.f.mem, 1, cnt))
  OBVIOUS
<1>8. t \in Seq(Nat)
  BY <1>1, <1>4, <1>6, <1>7, OverlaySeq
<1>9. PICK o : o = p + cnt
  OBVIOUS
<1>10. o \in Nat
  BY <1>3, <1>4, <1>9
<1>11. PICK e : e = m.d
  OBVIOUS
<1>12. PICK d : d = [e EXCEPT !.off = o]
  OBVIOUS
<1>13. d \in Desc /\ d.acc = m.d.acc
  BY <1>1, <1>10, <1>11, <1>12, SetOff
<1>14. PICK k : k = [m EXCEPT !.t = t]
  OBVIOUS
<1>15. PICK l : l = [k EXCEPT !.d = d]
  OBVIOUS
<1>16. k \in Machines /\ k.f = m.f /\ k.d = m.d /\ k.mood = m.mood /\ k.got = m.got /\ k.bad = m.bad /\ k.flushall = m.flushall
  BY <1>8, <1>14, SetT
<1>17. l \in Machines /\ l.f = m.f /\ l.d = d /\ l.mood = m.mood /\ l.got = m.got /\ l.bad = m.bad /\ l.flushall = m.flushall
  BY <1>13, <1>15, <1>16, SetD
<1>18. n = [l EXCEPT !.r = cnt]
  <2>1. n = [m EXCEPT !.t = t, !.d.off = o, !.r = cnt]
    BY <1>5, <1>7, <1>9
  <2>2. d = [m.d EXCEPT !.off = o]
    BY <1>11, <1>12
  <2> QED BY <1>14, <1>15, <2>1, <2>2
<1>19. cnt \in Int
  BY <1>3
<1>20. n \in Machines /\ n.f = l.f /\ n.d = l.d /\ n.mood = l.mood /\ n.got = l.got /\ n.bad = l.bad /\ n.flushall = l.flushall
       /\ n.r = cnt
  BY <1>17, <1>18, <1>19, SetR
<1> QED BY <1>3, <1>13, <1>17, <1>20 DEF Apart

\* A read takes at most as many bytes as the buffer has room for.
LEMMA ReadFacts ==
    ASSUME NEW m \in Machines, m.f.len # 0, NEW n, n = _read(m)
    PROVE  /\ n \in Machines /\ n.bad = m.bad /\ Apart(n, m)
           /\ \/ n.r \in {-1, 0} /\ n.f = m.f
              \/ /\ n.r \in Nat \ {0} /\ n.f.flags = m.f.flags /\ n.f.buf = m.f.buf /\ n.f.rp = m.f.rp
                 /\ n.f.lp = m.f.lp /\ n.f.len = m.f.len /\ n.f.over = m.f.over
                 /\ Len(n.f.mem) \in 1 .. n.f.len
<1> DEFINE left == Max({Len(m.t) - m.d.off, 0})
           cnt == CASE m.mood = "ioerr" -> -1 [] m.mood = "short" -> Min({left, 1}) [] OTHER -> Min({left, m.f.len})
<1>1. m.f \in Iob /\ m.f.len \in Nat \ {0} /\ m.t \in Seq(Nat) /\ m.d \in Desc /\ m.d.off \in Nat /\ Len(m.t) \in Nat
  BY Fields, LenProperties
<1>2. left \in Nat /\ (left > 0 => left = Len(m.t) - m.d.off)
  <2>1. PICK a : a = Len(m.t) - m.d.off
    OBVIOUS
  <2>2. a \in Int
    BY <1>1, <2>1
  <2>3. Max({a, 0}) \in {a, 0} /\ Max({a, 0}) >= 0
    BY <2>2, MaxPair
  <2> QED BY <2>1, <2>2, <2>3
<1>3. cnt \in Int /\ cnt >= -1 /\ cnt <= left /\ cnt <= m.f.len
  <2>1. PICK a, b : a = left /\ b = m.f.len
    OBVIOUS
  <2>2. a \in Nat /\ b \in Nat \ {0} /\ a \in Int /\ b \in Int
    BY <1>1, <1>2, <2>1
  <2>3. Min({a, 1}) \in {a, 1} /\ Min({a, 1}) <= a /\ Min({a, 1}) <= 1
    <3>1. PICK e : e = 1
      OBVIOUS
    <3>2. e \in Int
      BY <3>1
    <3>3. Min({a, e}) \in {a, e} /\ Min({a, e}) <= a /\ Min({a, e}) <= e
      BY <2>2, <3>2, MinPair
    <3> QED BY <3>1, <3>3
  <2>4. Min({a, b}) \in {a, b} /\ Min({a, b}) <= a /\ Min({a, b}) <= b
    BY <2>2, MinPair
  <2>5. cnt = CASE m.mood = "ioerr" -> -1 [] m.mood = "short" -> Min({a, 1}) [] OTHER -> Min({a, b})
    BY <2>1
  <2> HIDE DEF cnt, left
  <2>6. cnt \in {-1, Min({a, 1}), Min({a, b})}
    BY <2>5
  <2> QED BY <2>1, <2>2, <2>3, <2>4, <2>6
<1>4. n = IF cnt <= 0 THEN [m EXCEPT !.r = cnt]
          ELSE [m EXCEPT !.f.mem = SubSeq(m.t, m.d.off + 1, m.d.off + cnt), !.d.off = m.d.off + cnt, !.r = cnt]
  BY DEF _read
<1> HIDE DEF cnt, left
<1>5. CASE cnt <= 0
  <2>1. n = [m EXCEPT !.r = cnt]
    BY <1>4, <1>5
  <2>2. n \in Machines /\ n.f = m.f /\ n.d = m.d /\ n.mood = m.mood /\ n.got = m.got /\ n.bad = m.bad
        /\ n.flushall = m.flushall /\ n.r = cnt
    BY <1>3, <2>1, SetR
  <2>3. cnt \in {-1, 0}
    BY <1>3, <1>5
  <2> QED BY <2>2, <2>3 DEF Apart
<1>6. CASE ~(cnt <= 0)
  <2>1. cnt \in Nat \ {0} /\ cnt <= Len(m.t) - m.d.off
    BY <1>1, <1>2, <1>3, <1>6
  <2>2. PICK a, b : a = m.d.off + 1 /\ b = m.d.off + cnt
    OBVIOUS
  <2>3. a \in Nat /\ b \in Nat /\ a >= 1 /\ b <= Len(m.t) /\ a <= b /\ b - a + 1 = cnt
    <3>1. PICK o, l, c : o = m.d.off /\ l = Len(m.t) /\ c = cnt
      OBVIOUS
    <3>2. o \in Nat /\ l \in Nat /\ c \in Nat /\ c > 0 /\ c <= l - o
      BY <1>1, <2>1, <3>1
    <3>3. a = o + 1 /\ b = o + c
      BY <2>2, <3>1
    <3> HIDE <2>1, <2>2
    <3>4. a \in Nat /\ b \in Nat /\ a >= 1 /\ b <= l /\ a <= b /\ b - a + 1 = c
      BY <3>2, <3>3
    <3> QED BY <3>1, <3>4
  <2>4. PICK x : x = SubSeq(m.t, a, b)
    OBVIOUS
  <2>5. x \in Seq(Nat) /\ Len(x) = cnt
    BY <1>1, <2>3, <2>4, Prefix
  <2>6. PICK f : f = m.f
    OBVIOUS
  <2>7. PICK g : g = [f EXCEPT !.mem = x]
    OBVIOUS
  <2>8. /\ g \in Iob /\ g.flags = f.flags /\ g.buf = f.buf /\ g.mem = x /\ g.rp = f.rp /\ g.lp = f.lp /\ g.len = f.len
        /\ g.over = f.over
    BY <1>1, <2>5, <2>6, <2>7, SetMem
  <2>9. PICK e : e = m.d
    OBVIOUS
  <2>10. PICK d : d = [e EXCEPT !.off = b]
    OBVIOUS
  <2>11. d \in Desc /\ d.acc = m.d.acc
    BY <1>1, <2>3, <2>9, <2>10, SetOff
  <2>12. PICK k : k = [m EXCEPT !.f = g]
    OBVIOUS
  <2>13. PICK l : l = [k EXCEPT !.d = d]
    OBVIOUS
  <2>14. k \in Machines /\ k.f = g /\ k.d = m.d /\ k.mood = m.mood /\ k.got = m.got /\ k.bad = m.bad
         /\ k.flushall = m.flushall
    BY <2>8, <2>12, SetF
  <2>15. l \in Machines /\ l.f = g /\ l.d = d /\ l.mood = m.mood /\ l.got = m.got /\ l.bad = m.bad
         /\ l.flushall = m.flushall
    BY <2>11, <2>13, <2>14, SetD
  <2>16. n = [l EXCEPT !.r = cnt]
    <3>1. n = [m EXCEPT !.f.mem = x, !.d.off = b, !.r = cnt]
      BY <1>4, <1>6, <2>2, <2>4
    <3>2. g = [m.f EXCEPT !.mem = x] /\ d = [m.d EXCEPT !.off = b]
      BY <2>6, <2>7, <2>9, <2>10
    <3> QED BY <2>12, <2>13, <3>1, <3>2
  <2>17. n \in Machines /\ n.f = g /\ n.d = d /\ n.mood = m.mood /\ n.got = m.got /\ n.bad = m.bad
         /\ n.flushall = m.flushall /\ n.r = cnt
    BY <1>3, <2>15, <2>16, SetR
  <2>18. Apart(n, m)
    BY <2>11, <2>17 DEF Apart
  <2>19. Len(x) \in 1 .. f.len
    BY <1>1, <1>3, <2>1, <2>5, <2>6
  <2> QED BY <2>1, <2>6, <2>8, <2>17, <2>18, <2>19
<1> QED BY <1>5, <1>6

\* _flsbuf() leaves a stream that is read alone, empties the buffer, or fails.
LEMMA FlushFacts ==
    ASSUME NEW m \in Machines, NEW n, n = _flsbuf(m)
    PROVE  /\ n \in Machines /\ Apart(n, m) /\ n.f.buf = m.f.buf /\ n.f.rp = m.f.rp /\ n.f.lp = m.f.lp
           /\ n.f.len = m.f.len /\ n.f.over = m.f.over
           /\ \/ n.r = 0 /\ n.f = m.f /\ n.bad = m.bad /\ Reading(m.f)
              \/ n.r = 0 /\ n.f.flags = m.f.flags /\ n.f.mem = << >> /\ n.bad = m.bad /\ ~Reading(m.f)
              \/ /\ n.r = EOF /\ n.f.flags = m.f.flags \cup {"ERR"} /\ n.f.mem = m.f.mem /\ m.f.mem # << >> /\ n.bad
                 /\ ~Reading(m.f)
<1>0. m.f \in Iob /\ m.f.mem \in Seq(Nat) /\ wp(m) \in Nat /\ (wp(m) = 0 <=> m.f.mem = << >>)
  BY Fields, LenProperties, EmptySeq DEF wp
<1>1. CASE Reading(m.f)
  <2>1. n = [m EXCEPT !.r = 0]
    BY <1>1 DEF _flsbuf, Reading
  <2> QED BY <1>1, <2>1, SetR DEF Apart
<1>2. CASE ~Reading(m.f)
  <2>1. PICK w : w = IF wp(m) > 0 THEN _write(m) ELSE [m EXCEPT !.r = 0]
    OBVIOUS
  <2>2. n = IF w.r # wp(m) THEN Failing(w, EOF) ELSE [w EXCEPT !.f.mem = << >>, !.r = 0]
    BY <1>2, <2>1 DEF _flsbuf, Reading
  <2>3. /\ w \in Machines /\ w.f = m.f /\ w.bad = m.bad /\ w.r \in Nat /\ Apart(w, m)
        /\ (w.r # wp(m) => m.f.mem # << >>)
    <3>1. CASE wp(m) > 0
      <4>1. w = _write(m)
        BY <2>1, <3>1
      <4>2. m.f.mem # << >>
        BY <1>0, <3>1
      <4> QED BY <3>1, <4>1, <4>2, WriteFacts
    <3>2. CASE ~(wp(m) > 0)
      <4>1. w = [m EXCEPT !.r = 0] /\ wp(m) = 0
        BY <1>0, <2>1, <3>2
      <4> QED BY <4>1, SetR DEF Apart
    <3> QED BY <3>1, <3>2
  <2>4. CASE w.r # wp(m)
    <3>0. PICK e : e = EOF
      OBVIOUS
    <3>1. w \in Machines /\ e \in Int /\ n = Failing(w, e)
      BY <2>2, <2>3, <2>4, <3>0 DEF EOF
    <3>2. n \in Machines /\ Adds(n, w, {"ERR"}) /\ Rest(n, w) /\ n.r = e /\ n.bad = TRUE
      BY <3>1, FailingFacts
    <3> QED BY <1>2, <2>3, <2>4, <3>0, <3>2 DEF Apart, Adds, Rest
  <2>5. CASE w.r = wp(m)
    <3>1. n = [w EXCEPT !.f.mem = << >>, !.r = 0]
      BY <2>2, <2>5
    <3>2. PICK f : f = w.f
      OBVIOUS
    <3>3. PICK e : e = << >>
      OBVIOUS
    <3>4. PICK g : g = [f EXCEPT !.mem = e]
      OBVIOUS
    <3>5. e \in Seq(Nat)
      BY <3>3, EmptySeq
    <3>6. /\ g \in Iob /\ g.flags = f.flags /\ g.buf = f.buf /\ g.mem = e /\ g.rp = f.rp /\ g.lp = f.lp /\ g.len = f.len
          /\ g.over = f.over
      BY <1>0, <2>3, <3>2, <3>4, <3>5, SetMem
    <3>7. PICK k : k = [w EXCEPT !.f = g]
      OBVIOUS
    <3>8. k \in Machines /\ k.f = g /\ k.d = w.d /\ k.mood = w.mood /\ k.got = w.got /\ k.bad = w.bad
          /\ k.flushall = w.flushall
      BY <2>3, <3>6, <3>7, SetF
    <3>9. PICK z : z = 0
      OBVIOUS
    <3>11. n = [k EXCEPT !.r = z] /\ z \in Int
      BY <3>1, <3>2, <3>3, <3>4, <3>7, <3>9
    <3>10. n \in Machines /\ n.f = k.f /\ n.d = k.d /\ n.mood = k.mood /\ n.got = k.got /\ n.bad = k.bad
           /\ n.flushall = k.flushall /\ n.r = z
      BY <3>8, <3>11, SetR
    <3> QED BY <1>2, <2>3, <3>2, <3>3, <3>6, <3>8, <3>9, <3>10 DEF Apart
  <2> QED BY <2>4, <2>5
<1> QED BY <1>1, <1>2

-----------------------------------------------------------------------------
(* Single bytes.                                                           *)

LEMMA AllocFacts ==
    ASSUME NEW m \in Machines, NEW n, n = _allocbuf(m)
    PROVE  /\ n \in Machines /\ Apart(n, m)
           /\ \/ n.r = EOF /\ n.bad = TRUE /\ Adds(n, m, {"ERR"}) /\ Rest(n, m)
              \/ /\ n.r = 0 /\ n.bad = m.bad /\ n.f.flags = m.f.flags /\ n.f.over = m.f.over
                 /\ n.f.buf = "alloc" /\ n.f.mem = << >> /\ n.f.rp = 0 /\ n.f.lp = n.f.len /\ n.f.len \in Nat \ {0}
<1>1. CASE m.mood = "nomem"
  <2>1. PICK e : e = EOF
    OBVIOUS
  <2>2. e \in Int /\ n = Failing(m, e)
    BY <1>1, <2>1 DEF EOF, _allocbuf
  <2>3. n \in Machines /\ Adds(n, m, {"ERR"}) /\ Rest(n, m) /\ n.r = e /\ n.bad = TRUE
    BY <2>2, FailingFacts
  <2> QED BY <2>1, <2>3 DEF Apart, Rest
<1>2. CASE m.mood # "nomem"
  <2>1. n = [m EXCEPT !.f.len = BUFSIZ, !.f.buf = "alloc", !.f.mem = << >>, !.f.rp = 0, !.f.lp = BUFSIZ, !.r = 0]
    BY <1>2 DEF _allocbuf
  <2>2. PICK f : f = m.f
    OBVIOUS
  <2>3. PICK g : g = [f EXCEPT !.len = BUFSIZ, !.buf = "alloc", !.mem = << >>, !.rp = 0, !.lp = BUFSIZ]
    OBVIOUS
  <2>4. PICK z : z = 0
    OBVIOUS
  <2>5. f \in Iob /\ BUFSIZ \in Nat \ {0} /\ << >> \in Seq(Nat)
    BY <2>2, Fields, SizeAssumption, EmptySeq
  <2>6. g = [flags |-> f.flags, buf |-> "alloc", mem |-> << >>, rp |-> 0, lp |-> BUFSIZ, len |-> BUFSIZ, over |-> f.over]
    BY <2>3, <2>5 DEF Iob
  <2>7. g \in Iob
    BY <2>5, <2>6 DEF Iob
  <2>8. /\ g.flags = f.flags /\ g.buf = "alloc" /\ g.mem = << >> /\ g.rp = 0 /\ g.lp = BUFSIZ /\ g.len = BUFSIZ
        /\ g.over = f.over
    BY <2>6
  <2>9. PICK k : k = [m EXCEPT !.f = g]
    OBVIOUS
  <2>10. k \in Machines /\ k.f = g /\ k.d = m.d /\ k.mood = m.mood /\ k.got = m.got /\ k.bad = m.bad
         /\ k.flushall = m.flushall
    BY <2>7, <2>9, SetF
  <2>11. n = [k EXCEPT !.r = z] /\ z \in Int
    <3>1. PICK e : e = << >>
      OBVIOUS
    <3>2. PICK l : l = BUFSIZ
      OBVIOUS
    <3>3. n = [m EXCEPT !.f.len = l, !.f.buf = "alloc", !.f.mem = e, !.f.rp = z, !.f.lp = l, !.r = z]
      BY <2>1, <2>4, <3>1, <3>2
    <3>4. g = [m.f EXCEPT !.len = l, !.buf = "alloc", !.mem = e, !.rp = z, !.lp = l]
      BY <2>2, <2>3, <2>4, <3>1, <3>2
    <3>5. n = [m EXCEPT !.f = [m.f EXCEPT !.len = l, !.buf = "alloc", !.mem = e, !.rp = z, !.lp = l], !.r = z]
      BY <3>3
    <3> QED BY <2>4, <2>9, <3>4, <3>5
  <2>12. n \in Machines /\ n.f = k.f /\ n.d = k.d /\ n.mood = k.mood /\ n.got = k.got /\ n.bad = k.bad
         /\ n.flushall = k.flushall /\ n.r = z
    BY <2>10, <2>11, SetR
  <2> QED BY <2>2, <2>4, <2>5, <2>8, <2>10, <2>12 DEF Apart
<1> QED BY <1>1, <1>2

\* What a call can do to a FILE: nothing, or add flags.
LEMMA SoundFlags ==
    ASSUME NEW f, NEW g, NEW lost \in BOOLEAN, NEW fa \in BOOLEAN, Sound(f, lost, fa), NEW x,
           g.flags = f.flags \cup x, x \subseteq {"EOF", "ERR"}, g.buf = f.buf, g.mem = f.mem, g.rp = f.rp, g.lp = f.lp,
           g.len = f.len, g.over = f.over
    PROVE  Sound(g, lost, fa) /\ Reading(g) = Reading(f)
  BY DEF Sound, Reading, Loose
LEMMA SoundLater ==
    ASSUME NEW f, NEW lost \in BOOLEAN, NEW fa \in BOOLEAN, NEW l \in BOOLEAN, NEW a \in BOOLEAN,
           lost => l, fa => a, Sound(f, lost, fa)
    PROVE  Sound(f, l, a)
  BY DEF Sound

\* An open stream keeps its directions.
LEMMA WorkingFlags ==
    ASSUME NEW f, NEW g, NEW d, NEW e, Working(f, d), f.flags \subseteq g.flags, e.acc = d.acc,
           "RW" \in g.flags => "RW" \in f.flags
    PROVE  Working(g, e)
  BY DEF Working

LEMMA FitFacts ==
    ASSUME NEW m, NEW b \in BOOLEAN, NEW fa \in BOOLEAN, Fit(m, b, fa)
    PROVE  /\ m \in Machines /\ Sound(m.f, m.bad \/ b, m.flushall) /\ Working(m.f, m.d) /\ (fa => m.flushall)
           /\ m.bad \in BOOLEAN /\ m.flushall \in BOOLEAN /\ (m.bad \/ b) \in BOOLEAN
  BY Fields DEF Fit

\* Flags that mark the end or an error, or a failure.
LEMMA FitSet ==
    ASSUME NEW m, NEW b \in BOOLEAN, NEW fa \in BOOLEAN, Fit(m, b, fa), NEW x, x \subseteq {"EOF", "ERR"},
           NEW n \in Machines, Adds(n, m, x), Rest(n, m), m.bad => n.bad
    PROVE  Fit(n, b, fa)
<1>1. /\ m \in Machines /\ Sound(m.f, m.bad \/ b, m.flushall) /\ Working(m.f, m.d) /\ (fa => m.flushall)
      /\ m.bad \in BOOLEAN /\ m.flushall \in BOOLEAN /\ (m.bad \/ b) \in BOOLEAN /\ n.bad \in BOOLEAN
  BY FitFacts, Fields
<1>2. PICK f, g, l, a : f = m.f /\ g = n.f /\ l = (m.bad \/ b) /\ a = m.flushall
  OBVIOUS
<1>3. Sound(f, l, a) /\ l \in BOOLEAN /\ a \in BOOLEAN
  BY <1>1, <1>2
<1>4. g.flags = f.flags \cup x
  BY <1>2 DEF Adds
<1>5. g.buf = f.buf /\ g.mem = f.mem /\ g.rp = f.rp /\ g.lp = f.lp /\ g.len = f.len /\ g.over = f.over
      /\ n.d = m.d /\ n.flushall = m.flushall
  BY <1>2 DEF Rest
<1>6. Sound(g, l, a)
  BY <1>3, <1>4, <1>5, SoundFlags
<1>7. PICK k : k = (n.bad \/ b)
  OBVIOUS
<1>8. k \in BOOLEAN /\ (l => k)
  BY <1>1, <1>2, <1>7
<1>9. Sound(g, k, a)
  BY <1>3, <1>6, <1>8, SoundLater
<1>10. Working(n.f, n.d)
  <2>1. f.flags \subseteq g.flags /\ ("RW" \in g.flags => "RW" \in f.flags)
    BY <1>4
  <2> QED BY <1>1, <1>2, <1>5, <2>1, WorkingFlags
<1> QED BY <1>1, <1>2, <1>5, <1>7, <1>9, <1>10 DEF Fit

LEMMA __getcFit ==
    ASSUME NEW m, NEW b \in BOOLEAN, NEW fa \in BOOLEAN, Fit(m, b, fa), NEW n, n = __getc(m)
    PROVE  Fit(n, b, fa) /\ (n.r = EOF \/ "ERR" \notin n.f.flags)
<1>0. /\ m \in Machines /\ Sound(m.f, m.bad \/ b, m.flushall) /\ Working(m.f, m.d) /\ (fa => m.flushall)
      /\ m.bad \in BOOLEAN /\ m.flushall \in BOOLEAN /\ m.f \in Iob
  BY FitFacts, Fields
<1>9. PICK e, z : e = EOF /\ z = 0
  OBVIOUS
<1>8. e \in Int /\ z \in Int /\ EOF # 0
  BY <1>9 DEF EOF
<1>7. PICK er, eo : er = {"ERR"} /\ eo = {"EOF"}
  OBVIOUS
<1>6. er \subseteq {"EOF", "ERR"} /\ eo \subseteq {"EOF", "ERR"} /\ er \subseteq Flags /\ eo \subseteq Flags
  BY <1>7 DEF Flags
<1>1. CASE m.f.flags \cap {"EOF", "ERR"} # {}
  <2>1. n = [m EXCEPT !.r = e]
    BY <1>1, <1>9 DEF __getc
  <2>2. n \in Machines /\ n.f = m.f /\ n.d = m.d /\ n.bad = m.bad /\ n.flushall = m.flushall /\ n.r = e
    BY <1>0, <1>8, <2>1, SetR
  <2> QED BY <1>0, <1>9, <2>2 DEF Fit
<1>2. CASE m.f.flags \cap {"EOF", "ERR"} = {} /\ m.f.flags \cap {"READ", "RW"} = {}
  <2>1. n = Set(m, er, e)
    BY <1>2, <1>7, <1>9 DEF __getc
  <2>2. n \in Machines /\ Adds(n, m, er) /\ Rest(n, m) /\ n.r = e /\ n.bad = m.bad
    <3>1. m \in Machines /\ er \subseteq Flags /\ e \in Int
      BY <1>0, <1>6, <1>8
    <3> QED BY <2>1, <3>1, SetFacts
  <2> QED BY <1>6, <1>9, <2>2, FitSet
<1>3. CASE m.f.flags \cap {"EOF", "ERR"} = {} /\ m.f.flags \cap {"READ", "RW"} # {}
  <2>1. PICK a : a = IF m.f.buf = "NULL" THEN _allocbuf(m) ELSE [m EXCEPT !.r = z]
    OBVIOUS
  <2>2. PICK c : c = _read(a)
    OBVIOUS
  <2>3. n = IF a.r = e THEN a
            ELSE CASE c.r = 0 -> Set(c, eo, e)
                   [] c.r < 0 -> Failing(c, e)
                   [] OTHER   -> [Set(c, {"READ"}, Head(c.f.mem)) EXCEPT !.f.rp = 1]
    <3> DEFINE A == IF m.f.buf = "NULL" THEN _allocbuf(m) ELSE [m EXCEPT !.r = 0]
               K(y) == CASE y.r = 0 -> Set(y, {"EOF"}, EOF)
                         [] y.r < 0 -> Failing(y, EOF)
                         [] OTHER   -> [Set(y, {"READ"}, Head(y.f.mem)) EXCEPT !.f.rp = 1]
    <3>1. __getc(m) = IF A.r = EOF THEN A ELSE K(_read(A))
      BY <1>3 DEF __getc
    <3>2. a = A
      BY <1>9, <2>1
    <3>3. K(c) = CASE c.r = 0 -> Set(c, eo, e)
                   [] c.r < 0 -> Failing(c, e)
                   [] OTHER   -> [Set(c, {"READ"}, Head(c.f.mem)) EXCEPT !.f.rp = 1]
      BY <1>7, <1>9
    <3> HIDE DEF A, K
    <3>4. n = IF a.r = e THEN a ELSE K(c)
      BY <1>9, <2>2, <3>1, <3>2
    <3> QED BY <3>3, <3>4
  <2>4. /\ Fit(a, b, fa)
        /\ a.r # e => a.f.flags = m.f.flags /\ a.f.buf # "NULL"
    <3>1. CASE m.f.buf = "NULL"
      <4>1. a = _allocbuf(m)
        BY <2>1, <3>1
      <4>2. /\ a \in Machines /\ Apart(a, m)
            /\ \/ a.r = EOF /\ a.bad = TRUE /\ Adds(a, m, {"ERR"}) /\ Rest(a, m)
               \/ /\ a.r = 0 /\ a.bad = m.bad /\ a.f.flags = m.f.flags /\ a.f.over = m.f.over
                  /\ a.f.buf = "alloc" /\ a.f.mem = << >> /\ a.f.rp = 0 /\ a.f.lp = a.f.len /\ a.f.len \in Nat \ {0}
        BY <1>0, <4>1, AllocFacts
      <4>3. CASE a.r = EOF /\ a.bad = TRUE /\ Adds(a, m, {"ERR"}) /\ Rest(a, m)
        <5>1. Adds(a, m, er)
          BY <1>7, <4>3
        <5> QED BY <1>6, <1>9, <4>2, <4>3, <5>1, FitSet
      <4>4. CASE /\ a.r = 0 /\ a.bad = m.bad /\ a.f.flags = m.f.flags /\ a.f.over = m.f.over
                 /\ a.f.buf = "alloc" /\ a.f.mem = << >> /\ a.f.rp = 0 /\ a.f.lp = a.f.len /\ a.f.len \in Nat \ {0}
        <5>1. Sound(a.f, a.bad \/ b, a.flushall)
          BY <1>0, <4>2, <4>4, EmptySeq, LenProperties DEF Sound, Reading, Loose, Apart
        <5>2. Working(a.f, a.d)
          BY <1>0, <4>2, <4>4 DEF Working, Apart
        <5> QED BY <1>0, <4>2, <4>4, <5>1, <5>2 DEF Fit, Apart
      <4> QED BY <4>2, <4>3, <4>4
    <3>2. CASE m.f.buf # "NULL"
      <4>1. a = [m EXCEPT !.r = z]
        BY <2>1, <3>2
      <4>2. a \in Machines /\ a.f = m.f /\ a.d = m.d /\ a.bad = m.bad /\ a.flushall = m.flushall
        BY <1>0, <1>8, <4>1, SetR
      <4> QED BY <1>0, <3>2, <4>2 DEF Fit
    <3> QED BY <3>1, <3>2
  <2>5. CASE a.r = e
    BY <1>9, <2>3, <2>4, <2>5
  <2>6. CASE a.r # e
    <3>0. /\ a \in Machines /\ Sound(a.f, a.bad \/ b, a.flushall) /\ Working(a.f, a.d) /\ (fa => a.flushall)
          /\ a.bad \in BOOLEAN /\ a.flushall \in BOOLEAN /\ a.f \in Iob
      BY <2>4, FitFacts, Fields
    <3>1. a.f.len # 0
      BY <2>4, <2>6, <3>0 DEF Sound
    <3>2. /\ c \in Machines /\ c.bad = a.bad /\ Apart(c, a)
          /\ \/ c.r \in {-1, 0} /\ c.f = a.f
             \/ /\ c.r \in Nat \ {0} /\ c.f.flags = a.f.flags /\ c.f.buf = a.f.buf /\ c.f.rp = a.f.rp
                /\ c.f.lp = a.f.lp /\ c.f.len = a.f.len /\ c.f.over = a.f.over
                /\ Len(c.f.mem) \in 1 .. c.f.len
      BY <2>2, <3>0, <3>1, ReadFacts
    <3>3. CASE c.r \in {-1, 0} /\ c.f = a.f
      <4>1. Fit(c, b, fa)
        <5>1. Working(c.f, c.d)
          BY <3>0, <3>2, <3>3 DEF Working, Apart
        <5> QED BY <3>0, <3>2, <3>3, <5>1 DEF Fit, Apart
      <4>2. CASE c.r = 0
        <5>1. n = Set(c, eo, e)
          BY <2>3, <2>6, <4>2
        <5>2. n \in Machines /\ Adds(n, c, eo) /\ Rest(n, c) /\ n.r = e /\ n.bad = c.bad
          <6>1. c \in Machines /\ eo \subseteq Flags /\ e \in Int
            BY <1>6, <1>8, <3>2
          <6> QED BY <5>1, <6>1, SetFacts
        <5> QED BY <1>6, <1>9, <4>1, <5>2, FitSet
      <4>3. CASE c.r = -1
        <5>1. n = Failing(c, e)
          BY <2>3, <2>6, <4>3
        <5>2. n \in Machines /\ Adds(n, c, {"ERR"}) /\ Rest(n, c) /\ n.r = e /\ n.bad = TRUE
          BY <1>8, <3>2, <5>1, FailingFacts
        <5>3. Adds(n, c, er)
          BY <1>7, <5>2
        <5> QED BY <1>6, <1>9, <4>1, <5>2, <5>3, FitSet
      <4> QED BY <3>3, <4>2, <4>3
    <3>4. CASE /\ c.r \in Nat \ {0} /\ c.f.flags = a.f.flags /\ c.f.buf = a.f.buf /\ c.f.rp = a.f.rp
               /\ c.f.lp = a.f.lp /\ c.f.len = a.f.len /\ c.f.over = a.f.over
               /\ Len(c.f.mem) \in 1 .. c.f.len
      <4>1. n = [Set(c, {"READ"}, Head(c.f.mem)) EXCEPT !.f.rp = 1]
        BY <2>3, <2>6, <3>4
      <4>2. c.f.mem \in Seq(Nat) /\ c.f.mem # << >>
        <5>1. c.f.mem \in Seq(Nat)
          BY <3>2, Fields
        <5>2. Len(c.f.mem) # 0
          BY <3>4
        <5>3. c.f.mem # << >>
          BY <5>1, <5>2, EmptySeq
        <5> QED BY <5>1, <5>3
      <4>3. PICK h : h = Head(c.f.mem)
        OBVIOUS
      <4>4. h \in Int
        BY <4>2, <4>3, HeadTailProperties
      <4>5. PICK x : x = {"READ"}
        OBVIOUS
      <4>6. x \subseteq Flags
        BY <4>5 DEF Flags, Dirs
      <4>7. PICK k : k = Set(c, x, h)
        OBVIOUS
      <4>8. k \in Machines /\ Adds(k, c, x) /\ Rest(k, c) /\ k.r = h /\ k.bad = c.bad
        BY <3>2, <4>4, <4>6, <4>7, SetFacts
      <4>9. PICK f, one : f = k.f /\ one = 1
        OBVIOUS
      <4>10. f \in Iob /\ one \in Nat
        BY <4>8, <4>9, Fields
      <4>11. PICK g : g = [f EXCEPT !.rp = one]
        OBVIOUS
      <4>12. g \in Iob /\ g.flags = f.flags /\ g.buf = f.buf /\ g.mem = f.mem /\ g.rp = one /\ g.lp = f.lp /\ g.len = f.len
             /\ g.over = f.over
        BY <4>10, <4>11, SetRp
      <4>13. n = [k EXCEPT !.f = g]
        BY <4>1, <4>3, <4>5, <4>7, <4>9, <4>11
      <4>14. n \in Machines /\ n.f = g /\ n.d = k.d /\ n.r = k.r /\ n.bad = k.bad /\ n.flushall = k.flushall
        BY <4>8, <4>12, <4>13, SetF
      <4>15. n.f.flags = a.f.flags \cup {"READ"} /\ n.f.rp = 1 /\ n.f.lp = a.f.lp /\ n.f.len = a.f.len /\ n.f.over = a.f.over
             /\ Len(n.f.mem) \in 1 .. n.f.len /\ n.f.buf = a.f.buf
        BY <3>4, <4>5, <4>8, <4>9, <4>12, <4>14 DEF Adds, Rest
      <4>16. n.d.acc = a.d.acc /\ n.bad = a.bad /\ n.flushall = a.flushall
        BY <3>2, <4>8, <4>14 DEF Rest, Apart
      <4>17. Sound(n.f, n.bad \/ b, n.flushall)
        <5>1. n.f.len \in Nat /\ Len(n.f.mem) \in Nat
          BY <4>14, Fields, LenProperties
        <5> QED BY <3>0, <2>4, <2>6, <4>15, <4>16, <5>1 DEF Sound, Reading, Loose
      <4>18. Working(n.f, n.d)
        <5>1. a.f.flags \subseteq n.f.flags /\ ("RW" \in n.f.flags => "RW" \in a.f.flags)
          BY <4>15
        <5> QED BY <3>0, <4>16, <5>1, WorkingFlags
      <4>19. "ERR" \notin n.f.flags
        BY <1>3, <2>4, <2>6, <4>15
      <4> QED BY <3>0, <4>14, <4>16, <4>17, <4>18, <4>19 DEF Fit
    <3> QED BY <3>2, <3>3, <3>4
  <2> QED BY <2>5, <2>6
<1> QED BY <1>1, <1>2, <1>3

LEMMA getcFit ==
    ASSUME NEW m, NEW b \in BOOLEAN, NEW fa \in BOOLEAN, Fit(m, b, fa), "ERR" \notin m.f.flags, NEW n, n = getc(m)
    PROVE  Fit(n, b, fa) /\ (n.r = EOF \/ "ERR" \notin n.f.flags)
<1>0. /\ m \in Machines /\ Sound(m.f, m.bad \/ b, m.flushall) /\ Working(m.f, m.d) /\ (fa => m.flushall)
      /\ m.bad \in BOOLEAN /\ m.flushall \in BOOLEAN /\ m.f \in Iob /\ m.f.mem \in Seq(Nat) /\ m.f.rp \in Nat
      /\ m.f.len \in Nat
  BY FitFacts, Fields
<1>1. wp(m) \in Nat /\ wp(m) = Len(m.f.mem)
  BY <1>0, LenProperties DEF wp
<1>2. CASE m.f.rp >= wp(m)
  <2>1. n = __getc(m)
    BY <1>2 DEF getc
  <2> QED BY <2>1, __getcFit
<1>3. CASE ~(m.f.rp >= wp(m))
  <2>1. n = [m EXCEPT !.r = m.f.mem[m.f.rp + 1], !.f.rp = m.f.rp + 1]
    BY <1>3 DEF getc
  <2>2. PICK r, p, f : r = m.f.mem[m.f.rp + 1] /\ p = m.f.rp + 1 /\ f = m.f
    OBVIOUS
  <2>3. p \in Nat /\ p <= Len(m.f.mem) /\ p \in 1 .. Len(m.f.mem)
    BY <1>0, <1>1, <1>3, <2>2
  <2>4. r \in Nat /\ r \in Int
    <3>1. m.f.mem[p] \in Nat
      BY <1>0, <2>3, ElementOfSeq
    <3>2. r = m.f.mem[p]
      BY <2>2
    <3> QED BY <3>1, <3>2
  <2>5. PICK g : g = [f EXCEPT !.rp = p]
    OBVIOUS
  <2>6. PICK k : k = [m EXCEPT !.r = r]
    OBVIOUS
  <2>7. n = [k EXCEPT !.f = g]
    BY <2>1, <2>2, <2>5, <2>6
  <2>8. g \in Iob /\ g.flags = f.flags /\ g.buf = f.buf /\ g.mem = f.mem /\ g.rp = p /\ g.lp = f.lp /\ g.len = f.len
        /\ g.over = f.over
    BY <1>0, <2>2, <2>3, <2>5, SetRp
  <2>9. k \in Machines /\ k.f = m.f /\ k.d = m.d /\ k.bad = m.bad /\ k.flushall = m.flushall
    BY <1>0, <2>4, <2>6, SetR
  <2>10. n \in Machines /\ n.f = g /\ n.d = k.d /\ n.bad = k.bad /\ n.flushall = k.flushall
    BY <2>7, <2>8, <2>9, SetF
  <2>11. Sound(g, m.bad \/ b, m.flushall)
    <3>1. f.mem # << >>
      BY <1>0, <2>2, <2>3, EmptySeq
    <3>2. Sound(f, m.bad \/ b, m.flushall) /\ "ERR" \notin f.flags /\ p <= Len(f.mem) /\ p \in Nat /\ Len(f.mem) \in Nat /\ f.len \in Nat
      BY <1>0, <1>1, <2>2, <2>3
    <3> QED BY <2>8, <3>1, <3>2 DEF Sound, Reading, Loose
  <2>12. Working(g, m.d)
    BY <1>0, <2>2, <2>8 DEF Working
  <2> QED BY <1>0, <2>2, <2>8, <2>9, <2>10, <2>11, <2>12 DEF Fit
<1> QED BY <1>2, <1>3

\* A stream about to be written, with a buffer.
Shape(m) ==
    /\ m \in Machines /\ ~Reading(m.f) /\ Working(m.f, m.d)
    /\ ~m.f.over /\ m.f.buf # "NULL" /\ m.f.len # 0 /\ ("LBF" \in m.f.flags => m.f.lp = m.f.len)
    /\ Len(m.f.mem) <= m.f.len /\ m.f.rp <= m.f.len /\ (Loose(m.f) => m.f.rp = 0)

\* A byte is stored below the end of the buffer when there is room.
LEMMA StoreFacts ==
    ASSUME NEW m \in Machines, NEW ch \in Nat, Len(m.f.mem) < m.f.len, NEW n, n = Store(m, ch)
    PROVE  /\ n \in Machines /\ n.r = ch /\ n.bad = m.bad /\ Apart(n, m) /\ n.d = m.d
           /\ n.f.flags = m.f.flags /\ n.f.buf = m.f.buf /\ n.f.rp = m.f.rp /\ n.f.lp = m.f.lp /\ n.f.len = m.f.len
           /\ n.f.over = m.f.over /\ Len(n.f.mem) = Len(m.f.mem) + 1
<1>1. m.f \in Iob /\ m.f.mem \in Seq(Nat) /\ m.f.over \in BOOLEAN /\ Len(m.f.mem) \in Nat /\ m.f.len \in Nat
  BY Fields, LenProperties
<1>2. PICK x, o, f : x = Append(m.f.mem, ch) /\ o = m.f.over /\ f = m.f
  OBVIOUS
<1>3. x \in Seq(Nat) /\ Len(x) = Len(m.f.mem) + 1
  BY <1>1, <1>2, AppendProperties
<1>4. (m.f.over \/ wp(m) >= m.f.len) = o
  BY <1>1, <1>2 DEF wp
<1>5. PICK h : h = [f EXCEPT !.mem = x]
  OBVIOUS
<1>6. h \in Iob /\ h.flags = f.flags /\ h.buf = f.buf /\ h.mem = x /\ h.rp = f.rp /\ h.lp = f.lp /\ h.len = f.len
      /\ h.over = f.over
  <2>1. f \in Iob /\ x \in Seq(Nat)
    BY <1>1, <1>2, <1>3
  <2> QED BY <1>5, <2>1, SetMem
<1>7. PICK g : g = [h EXCEPT !.over = o]
  OBVIOUS
<1>8. g \in Iob /\ g.flags = h.flags /\ g.buf = h.buf /\ g.mem = h.mem /\ g.rp = h.rp /\ g.lp = h.lp /\ g.len = h.len
      /\ g.over = o
  <2>1. o \in BOOLEAN
    BY <1>1, <1>2
  <2> QED BY <1>6, <1>7, <2>1 DEF Iob
<1>9. PICK k : k = [m EXCEPT !.f = g]
  OBVIOUS
<1>10. n = [k EXCEPT !.r = ch]
  <2>1. PICK y : y = (m.f.over \/ wp(m) >= m.f.len)
    OBVIOUS
  <2>2. y = o
    BY <1>4, <2>1
  <2>3. n = [m EXCEPT !.f.mem = x, !.f.over = y, !.r = ch]
    BY <1>2, <2>1 DEF Store
  <2>4. n = [m EXCEPT !.f = [[m.f EXCEPT !.mem = x] EXCEPT !.over = y], !.r = ch]
    BY <2>3
  <2> QED BY <1>2, <1>5, <1>7, <1>9, <2>2, <2>4
<1>11. k \in Machines /\ k.f = g /\ k.d = m.d /\ k.mood = m.mood /\ k.got = m.got /\ k.bad = m.bad
       /\ k.flushall = m.flushall
  BY <1>8, <1>9, SetF
<1>12. n \in Machines /\ n.f = k.f /\ n.d = k.d /\ n.mood = k.mood /\ n.got = k.got /\ n.bad = k.bad
       /\ n.flushall = k.flushall /\ n.r = ch
  <2>1. ch \in Int
    OBVIOUS
  <2> QED BY <1>10, <1>11, <2>1, SetR
<1> QED BY <1>2, <1>3, <1>6, <1>8, <1>11, <1>12 DEF Apart

LEMMA StoreShape ==
    ASSUME NEW m, Shape(m), NEW ch \in Nat, Len(m.f.mem) < m.f.len, NEW n, n = Store(m, ch)
    PROVE  Shape(n) /\ n.r = ch /\ n.bad = m.bad /\ Apart(n, m) /\ n.f.flags = m.f.flags
<1>1. m \in Machines
  BY DEF Shape
<1>2. /\ n \in Machines /\ n.r = ch /\ n.bad = m.bad /\ Apart(n, m) /\ n.d = m.d
      /\ n.f.flags = m.f.flags /\ n.f.buf = m.f.buf /\ n.f.rp = m.f.rp /\ n.f.lp = m.f.lp /\ n.f.len = m.f.len
      /\ n.f.over = m.f.over /\ Len(n.f.mem) = Len(m.f.mem) + 1
  BY <1>1, StoreFacts
<1>3. m.f.mem \in Seq(Nat) /\ Len(m.f.mem) \in Nat /\ m.f.len \in Nat
  BY <1>1, Fields, LenProperties
<1> QED BY <1>2, <1>3 DEF Shape, Reading, Working, Loose

LEMMA FlushShape ==
    ASSUME NEW m, Shape(m), NEW n, n = _flsbuf(m)
    PROVE  /\ Shape(n) /\ Apart(n, m)
           /\ \/ n.r = 0 /\ n.f.flags = m.f.flags /\ n.f.mem = << >> /\ n.bad = m.bad
              \/ n.r = EOF /\ "ERR" \in n.f.flags /\ n.bad = TRUE
<1>1. m \in Machines
  BY DEF Shape
<1>2. /\ n \in Machines /\ Apart(n, m) /\ n.f.buf = m.f.buf /\ n.f.rp = m.f.rp /\ n.f.lp = m.f.lp
      /\ n.f.len = m.f.len /\ n.f.over = m.f.over
      /\ \/ n.r = 0 /\ n.f.flags = m.f.flags /\ n.f.mem = << >> /\ n.bad = m.bad /\ ~Reading(m.f)
         \/ /\ n.r = EOF /\ n.f.flags = m.f.flags \cup {"ERR"} /\ n.f.mem = m.f.mem /\ n.bad /\ ~Reading(m.f)
  BY <1>1, FlushFacts DEF Shape
<1>3. n.bad \in BOOLEAN /\ m.f.len \in Nat /\ m.f.rp \in Nat
  BY <1>1, <1>2, Fields
<1> QED BY <1>2, <1>3, EmptySeq, LenProperties DEF Shape, Reading, Working, Loose, Apart

\* What the three disciplines of __putc make of a stream.
Written(n, b) ==
    /\ Shape(n) /\ (Loose(n.f) => n.f.mem = << >> \/ ((n.bad \/ b) /\ "ERR" \in n.f.flags))
    /\ (n.r = EOF => n.bad)

LEMMA Disciplines ==
    ASSUME NEW m, Shape(m), m.r = 0, NEW b \in BOOLEAN, NEW ch \in Nat, Loose(m.f) => m.f.mem = << >>,
           NEW n, n = CASE "LBF" \in m.f.flags -> PutLine(m, ch)
                        [] "LBF" \notin m.f.flags /\ "FBF" \in m.f.flags -> PutFull(m, ch)
                        [] OTHER -> PutNone(m, ch)
    PROVE  Written(n, b) /\ n.r \in Int /\ (m.bad => n.bad) /\ Apart(n, m)
<1>0. m \in Machines /\ m.f.mem \in Seq(Nat) /\ Len(m.f.mem) \in Nat /\ m.f.len \in Nat \ {0} /\ wp(m) = Len(m.f.mem)
      /\ Len(m.f.mem) <= m.f.len
  BY Fields, LenProperties DEF Shape, wp
<1>1. EOF # 0 /\ ch # EOF /\ EOF \in Int /\ 0 \in Int
  BY DEF EOF
<1>2. \A y : y = _flsbuf(m) =>
         /\ Shape(y) /\ Apart(y, m)
         /\ \/ y.r = 0 /\ y.f.flags = m.f.flags /\ y.f.mem = << >> /\ y.bad = m.bad
            \/ y.r = EOF /\ "ERR" \in y.f.flags /\ y.bad = TRUE
  BY FlushShape
<1>3. CASE "LBF" \in m.f.flags
  <2>1. PICK a : a = IF wp(m) = m.f.lp THEN _flsbuf(m) ELSE m
    OBVIOUS
  <2>2. PICK c : c = Store(a, ch)
    OBVIOUS
  <2>3. n = IF a.r = EOF THEN a ELSE IF ch = NL THEN _flsbuf(c) ELSE c
    BY <1>3, <2>1, <2>2 DEF PutLine
  <2>4. /\ Shape(a) /\ Apart(a, m)
        /\ \/ a.r = 0 /\ a.f.flags = m.f.flags /\ a.bad = m.bad /\ Len(a.f.mem) < a.f.len
           \/ a.r = EOF /\ "ERR" \in a.f.flags /\ a.bad = TRUE
    <3>1. CASE wp(m) = m.f.lp
      <4>1. a = _flsbuf(m)
        BY <2>1, <3>1
      <4>2. Shape(a) => Len(<< >>) = 0 /\ a.f.len \in Nat \ {0}
        BY Fields, EmptySeq DEF Shape
      <4>3. Len(<< >>) = 0
        BY EmptySeq
      <4> QED BY <1>2, <4>1, <4>2, <4>3
    <3>2. CASE wp(m) # m.f.lp
      <4>1. a = m
        BY <2>1, <3>2
      <4>2. Len(m.f.mem) < m.f.len
        BY <1>0, <1>3, <3>2 DEF Shape
      <4> QED BY <4>1, <4>2 DEF Apart
    <3> QED BY <3>1, <3>2
  <2>5. CASE a.r = EOF
    <3>1. n = a /\ a.bad = TRUE /\ "ERR" \in a.f.flags
      BY <1>1, <2>3, <2>4, <2>5
    <3> QED BY <1>1, <2>4, <2>5, <3>1 DEF Written
  <2>6. CASE a.r # EOF
    <3>0. Shape(a) /\ Len(a.f.mem) < a.f.len
      BY <2>4, <2>6
    <3>1. Shape(c) /\ c.r = ch /\ c.bad = a.bad /\ Apart(c, a) /\ c.f.flags = a.f.flags
      BY <2>2, <3>0, StoreShape
    <3>2. ~Loose(c.f)
      BY <1>3, <2>4, <2>6, <3>1 DEF Loose
    <3>3. CASE ch = NL
      <4>1. n = _flsbuf(c)
        BY <2>3, <2>6, <3>3
      <4>2. /\ Shape(n) /\ Apart(n, c)
            /\ \/ n.r = 0 /\ n.f.flags = c.f.flags /\ n.f.mem = << >> /\ n.bad = c.bad
               \/ n.r = EOF /\ "ERR" \in n.f.flags /\ n.bad = TRUE
        BY <3>1, <4>1, FlushShape
      <4> QED BY <1>1, <2>4, <2>6, <3>1, <4>2 DEF Written, Apart
    <3>4. CASE ch # NL
      <4>1. n = c
        BY <2>3, <2>6, <3>4
      <4>2. n.r = ch /\ ch # EOF /\ ch \in Int
        BY <1>1, <3>1, <4>1
      <4> QED BY <2>4, <2>6, <3>1, <3>2, <4>1, <4>2 DEF Written, Apart
    <3> QED BY <3>3, <3>4
  <2> QED BY <2>5, <2>6
<1>4. CASE "LBF" \notin m.f.flags /\ "FBF" \in m.f.flags
  <2>1. PICK a : a = _flsbuf(m)
    OBVIOUS
  <2>2. PICK c : c = Store(a, ch)
    OBVIOUS
  <2>3. n = IF a.r = EOF THEN a ELSE [c EXCEPT !.f.rp = m.f.len]
    BY <1>4, <2>1, <2>2 DEF PutFull
  <2>4. /\ Shape(a) /\ Apart(a, m)
        /\ \/ a.r = 0 /\ a.f.flags = m.f.flags /\ a.f.mem = << >> /\ a.bad = m.bad
           \/ a.r = EOF /\ "ERR" \in a.f.flags /\ a.bad = TRUE
    BY <1>2, <2>1
  <2>5. CASE a.r = EOF
    <3>1. n = a /\ a.bad = TRUE /\ "ERR" \in a.f.flags
      BY <1>1, <2>3, <2>4, <2>5
    <3> QED BY <1>1, <2>4, <2>5, <3>1 DEF Written
  <2>6. CASE a.r # EOF
    <3>0. Shape(a) /\ Len(a.f.mem) < a.f.len /\ a.f.len = m.f.len
      <4>1. a.f.mem = << >> /\ a \in Machines /\ a.f.len # 0
        BY <2>4, <2>6 DEF Shape
      <4>2. a.f.len \in Nat \ {0} /\ Len(a.f.mem) = 0
        BY <4>1, Fields, EmptySeq
      <4>3. a.f.len = m.f.len
        BY <1>0, <2>1, FlushFacts
      <4> QED BY <2>4, <4>2, <4>3
    <3>1. Shape(c) /\ c.r = ch /\ c.bad = a.bad /\ Apart(c, a) /\ c.f.flags = a.f.flags /\ c.f.len = a.f.len
      <4>1. a \in Machines
        BY <3>0 DEF Shape
      <4>2. c.f.len = a.f.len
        BY <2>2, <3>0, <4>1, StoreFacts
      <4> QED BY <2>2, <3>0, <4>2, StoreShape
    <3>2. PICK f, p : f = c.f /\ p = m.f.len
      OBVIOUS
    <3>3. PICK g : g = [f EXCEPT !.rp = p]
      OBVIOUS
    <3>4. n = [c EXCEPT !.f = g]
      BY <2>3, <2>6, <3>2, <3>3
    <3>5. c \in Machines /\ f \in Iob /\ p \in Nat
      BY <1>0, <3>1, <3>2, Fields DEF Shape
    <3>6. g \in Iob /\ g.flags = f.flags /\ g.buf = f.buf /\ g.mem = f.mem /\ g.rp = p /\ g.lp = f.lp /\ g.len = f.len
          /\ g.over = f.over
      BY <3>3, <3>5, SetRp
    <3>7. n \in Machines /\ n.f = g /\ n.d = c.d /\ n.mood = c.mood /\ n.r = c.r /\ n.got = c.got /\ n.bad = c.bad
          /\ n.flushall = c.flushall
      BY <3>4, <3>5, <3>6, SetF
    <3>8. ~Loose(n.f)
      BY <1>4, <2>4, <2>6, <3>1, <3>2, <3>6, <3>7 DEF Loose
    <3>9. p <= p
      BY <3>5
    <3>10. Shape(n)
      BY <3>0, <3>1, <3>2, <3>6, <3>7, <3>8, <3>9 DEF Shape, Reading, Working, Loose
    <3>11. n.r = ch /\ ch # EOF /\ ch \in Int
      BY <1>1, <3>1, <3>7
    <3> QED BY <2>4, <2>6, <3>1, <3>7, <3>8, <3>10, <3>11 DEF Written, Apart
  <2> QED BY <2>5, <2>6
<1>5. CASE "LBF" \notin m.f.flags /\ "FBF" \notin m.f.flags
  <2>1. PICK c : c = Store(m, ch)
    OBVIOUS
  <2>2. n = _flsbuf(c)
    BY <1>5, <2>1 DEF PutNone
  <2>3. Len(m.f.mem) < m.f.len
    BY <1>0, <1>5, EmptySeq DEF Loose
  <2>4. Shape(c) /\ c.r = ch /\ c.bad = m.bad /\ Apart(c, m) /\ c.f.flags = m.f.flags
    BY <2>1, <2>3, StoreShape
  <2>5. /\ Shape(n) /\ Apart(n, c)
        /\ \/ n.r = 0 /\ n.f.flags = c.f.flags /\ n.f.mem = << >> /\ n.bad = c.bad
           \/ n.r = EOF /\ "ERR" \in n.f.flags /\ n.bad = TRUE
    BY <2>2, <2>4, FlushShape
  <2> QED BY <1>1, <2>4, <2>5 DEF Written, Apart
<1> QED BY <1>3, <1>4, <1>5

LEMMA __putcFit ==
    ASSUME NEW m, NEW b \in BOOLEAN, NEW fa \in BOOLEAN, Fit(m, b, fa), NEW ch \in Nat, NEW n, n = __putc(m, ch)
    PROVE  Fit(n, b, fa)
<1>0. /\ m \in Machines /\ Sound(m.f, m.bad \/ b, m.flushall) /\ Working(m.f, m.d) /\ (fa => m.flushall)
      /\ m.bad \in BOOLEAN /\ m.flushall \in BOOLEAN /\ m.f \in Iob
  BY FitFacts, Fields
<1>9. PICK e, z, er : e = EOF /\ z = 0 /\ er = {"ERR"}
  OBVIOUS
<1>8. e \in Int /\ z \in Int /\ EOF # 0
  BY <1>9 DEF EOF
<1>6. er \subseteq {"EOF", "ERR"} /\ er \subseteq Flags
  BY <1>9 DEF Flags
<1>1. CASE "ERR" \in m.f.flags
  <2>1. n = [m EXCEPT !.r = e]
    BY <1>1, <1>9 DEF __putc
  <2>2. n \in Machines /\ n.f = m.f /\ n.d = m.d /\ n.bad = m.bad /\ n.flushall = m.flushall
    BY <1>0, <1>8, <2>1, SetR
  <2> QED BY <1>0, <2>2 DEF Fit
<1>2. CASE "ERR" \notin m.f.flags /\ Reading(m.f)
  <2>1. n = Set(m, er, e)
    BY <1>2, <1>9 DEF __putc, Reading
  <2>2. n \in Machines /\ Adds(n, m, er) /\ Rest(n, m) /\ n.r = e /\ n.bad = m.bad
    <3>1. m \in Machines /\ er \subseteq Flags /\ e \in Int
      BY <1>0, <1>6, <1>8
    <3> QED BY <2>1, <3>1, SetFacts
  <2> QED BY <1>6, <2>2, FitSet
<1>3. CASE "ERR" \notin m.f.flags /\ ~Reading(m.f)
  <2> DEFINE A == IF m.f.buf = "NULL" THEN _allocbuf(m) ELSE [m EXCEPT !.r = 0]
             B(y) == CASE "LBF" \in m.f.flags -> PutLine(y, ch)
                       [] "LBF" \notin m.f.flags /\ "FBF" \in m.f.flags -> PutFull(y, ch)
                       [] OTHER -> PutNone(y, ch)
             C(y) == [y EXCEPT !.flushall = TRUE]
             X == IF A.r = EOF THEN A ELSE IF B(A).r = EOF THEN C(B(A)) ELSE Set(C(B(A)), {"WRITE"}, ch)
  <2>1. __putc(m, ch) = IF A.r = EOF THEN A ELSE IF B(A).r = EOF THEN C(B(A)) ELSE Set(C(B(A)), {"WRITE"}, ch)
    <3>1. __putc(m, ch) = IF "ERR" \in m.f.flags THEN [m EXCEPT !.r = EOF]
                          ELSE IF "READ" \in m.f.flags THEN Set(m, {"ERR"}, EOF) ELSE X
      BY DEF __putc
    <3>2. "ERR" \notin m.f.flags /\ "READ" \notin m.f.flags
      BY <1>3 DEF Reading
    <3>3. __putc(m, ch) = X
      <4> HIDE DEF X
      <4> QED BY <3>1, <3>2
    <3> QED BY <3>3
  <2>2. PICK a : a = A
    OBVIOUS
  <2>3. PICK p : p = B(a)
    OBVIOUS
  <2>4. PICK c : c = C(p)
    OBVIOUS
  <2>5. /\ Fit(a, b, fa)
        /\ a.r # EOF => /\ a.f.flags = m.f.flags /\ a.f.buf # "NULL" /\ a.r = 0 /\ (a.f.buf = m.f.buf => a.f = m.f)
                        /\ (a.f # m.f => a.f.mem = << >>)
    <3>1. CASE m.f.buf = "NULL"
      <4>1. a = _allocbuf(m)
        BY <2>2, <3>1
      <4>2. /\ a \in Machines /\ Apart(a, m)
            /\ \/ a.r = EOF /\ a.bad = TRUE /\ Adds(a, m, {"ERR"}) /\ Rest(a, m)
               \/ /\ a.r = 0 /\ a.bad = m.bad /\ a.f.flags = m.f.flags /\ a.f.over = m.f.over
                  /\ a.f.buf = "alloc" /\ a.f.mem = << >> /\ a.f.rp = 0 /\ a.f.lp = a.f.len /\ a.f.len \in Nat \ {0}
        BY <1>0, <4>1, AllocFacts
      <4>3. CASE a.r = EOF /\ a.bad = TRUE /\ Adds(a, m, {"ERR"}) /\ Rest(a, m)
        <5>1. Adds(a, m, er)
          BY <1>9, <4>3
        <5> QED BY <1>6, <4>2, <4>3, <5>1, FitSet
      <4>4. CASE /\ a.r = 0 /\ a.bad = m.bad /\ a.f.flags = m.f.flags /\ a.f.over = m.f.over
                 /\ a.f.buf = "alloc" /\ a.f.mem = << >> /\ a.f.rp = 0 /\ a.f.lp = a.f.len /\ a.f.len \in Nat \ {0}
        <5>1. Sound(a.f, a.bad \/ b, a.flushall)
          BY <1>0, <4>2, <4>4, EmptySeq, LenProperties DEF Sound, Reading, Loose, Apart
        <5>2. Working(a.f, a.d)
          BY <1>0, <4>2, <4>4 DEF Working, Apart
        <5>3. a.f.buf # m.f.buf
          BY <3>1, <4>4
        <5> QED BY <1>0, <4>2, <4>4, <5>1, <5>2, <5>3 DEF Fit, Apart
      <4> QED BY <4>2, <4>3, <4>4
    <3>2. CASE m.f.buf # "NULL"
      <4>1. a = [m EXCEPT !.r = z]
        BY <1>9, <2>2, <3>2
      <4>2. a \in Machines /\ a.f = m.f /\ a.d = m.d /\ a.bad = m.bad /\ a.flushall = m.flushall /\ a.r = z
        BY <1>0, <1>8, <4>1, SetR
      <4> QED BY <1>0, <1>9, <3>2, <4>2 DEF Fit
    <3> QED BY <3>1, <3>2
  <2>6. p = CASE "LBF" \in m.f.flags -> PutLine(a, ch)
              [] "LBF" \notin m.f.flags /\ "FBF" \in m.f.flags -> PutFull(a, ch)
              [] OTHER -> PutNone(a, ch)
    BY <2>3
  <2>7. c = [p EXCEPT !.flushall = TRUE]
    BY <2>4
  <2> HIDE DEF A, B, C
  <2>8. n = IF a.r = EOF THEN a ELSE IF p.r = EOF THEN c ELSE Set(c, {"WRITE"}, ch)
    BY <2>1, <2>2, <2>3, <2>4
  <2>9. CASE a.r = EOF
    BY <2>5, <2>8, <2>9
  <2>10. CASE a.r # EOF
    <3>0. /\ a \in Machines /\ Sound(a.f, a.bad \/ b, a.flushall) /\ Working(a.f, a.d) /\ (fa => a.flushall)
          /\ a.bad \in BOOLEAN /\ a.flushall \in BOOLEAN /\ a.f \in Iob
      BY <2>5, FitFacts, Fields
    <3>1. a.f.flags = m.f.flags /\ a.f.buf # "NULL" /\ a.r = 0 /\ "ERR" \notin a.f.flags /\ ~Reading(a.f)
      BY <1>3, <2>5, <2>10 DEF Reading
    <3>2. Shape(a) /\ (Loose(a.f) => a.f.mem = << >>)
      BY <3>0, <3>1 DEF Shape, Sound
    <3>3. Written(p, b) /\ p.r \in Int /\ (a.bad => p.bad) /\ Apart(p, a)
      <4>1. p = CASE "LBF" \in a.f.flags -> PutLine(a, ch)
                  [] "LBF" \notin a.f.flags /\ "FBF" \in a.f.flags -> PutFull(a, ch)
                  [] OTHER -> PutNone(a, ch)
        BY <2>6, <3>1
      <4> QED BY <3>1, <3>2, <4>1, Disciplines
    <3>4. p \in Machines
      BY <3>3 DEF Written, Shape
    <3>5. c \in Machines /\ c.f = p.f /\ c.d = p.d /\ c.bad = p.bad /\ c.flushall = TRUE /\ c.r = p.r
      BY <2>7, <3>4, SetAll
    <3>6. p.bad \in BOOLEAN /\ c.flushall \in BOOLEAN
      BY <3>4, <3>5, Fields
    <3>7. CASE p.r = EOF
      <4>1. n = c
        BY <2>8, <2>10, <3>7
      <4>2. Sound(c.f, c.bad \/ b, c.flushall)
        BY <3>3, <3>5, <3>6, <3>7 DEF Written, Shape, Sound, Reading, Loose
      <4>3. Working(c.f, c.d)
        BY <3>3, <3>5 DEF Written, Shape
      <4> QED BY <3>5, <4>1, <4>2, <4>3 DEF Fit
    <3>8. CASE p.r # EOF
      <4>1. PICK x : x = {"WRITE"}
        OBVIOUS
      <4>2. x \subseteq Flags /\ ch \in Int
        BY <4>1 DEF Flags, Dirs
      <4>3. n = Set(c, x, ch)
        BY <2>8, <2>10, <3>8, <4>1
      <4>4. n \in Machines /\ Adds(n, c, x) /\ Rest(n, c) /\ n.r = ch /\ n.bad = c.bad
        BY <3>5, <4>2, <4>3, SetFacts
      <4>5. n.f.flags = p.f.flags \cup {"WRITE"} /\ n.f.buf = p.f.buf /\ n.f.mem = p.f.mem /\ n.f.rp = p.f.rp
            /\ n.f.lp = p.f.lp /\ n.f.len = p.f.len /\ n.f.over = p.f.over /\ n.d = p.d /\ n.flushall = TRUE
            /\ n.bad = p.bad
        BY <3>5, <4>1, <4>4 DEF Adds, Rest
      <4>6. Sound(n.f, n.bad \/ b, n.flushall)
        BY <3>3, <3>6, <4>5 DEF Written, Shape, Sound, Reading, Loose
      <4>7. Working(n.f, n.d)
        BY <3>3, <4>5 DEF Written, Shape, Working
      <4> QED BY <4>4, <4>5, <4>6, <4>7 DEF Fit
    <3> QED BY <3>7, <3>8
  <2> QED BY <2>9, <2>10
<1> QED BY <1>1, <1>2, <1>3

LEMMA putcFit ==
    ASSUME NEW m, NEW b \in BOOLEAN, NEW fa \in BOOLEAN, Fit(m, b, fa), NEW ch \in Nat, NEW n, n = putc(m, ch)
    PROVE  Fit(n, b, fa)
<1>0. /\ m \in Machines /\ Sound(m.f, m.bad \/ b, m.flushall) /\ Working(m.f, m.d) /\ (fa => m.flushall)
      /\ m.bad \in BOOLEAN /\ m.flushall \in BOOLEAN /\ m.f.mem \in Seq(Nat) /\ m.f.rp \in Nat
      /\ m.f.len \in Nat
  BY FitFacts, Fields
<1>1. wp(m) \in Nat /\ wp(m) = Len(m.f.mem) /\ (m.f.mem = << >> => wp(m) = 0)
  BY <1>0, LenProperties, EmptySeq DEF wp
<1>2. CASE wp(m) >= m.f.rp
  <2>1. n = __putc(m, ch)
    BY <1>2 DEF putc
  <2> QED BY <2>1, __putcFit
<1>3. CASE ~(wp(m) >= m.f.rp)
  <2>1. n = Store(m, ch)
    BY <1>3 DEF putc
  <2>2. /\ Len(m.f.mem) < m.f.len /\ ~Reading(m.f) /\ ~Loose(m.f) /\ m.f.rp # 0
    BY <1>0, <1>1, <1>3 DEF Sound
  <2>3. /\ n \in Machines /\ n.r = ch /\ n.bad = m.bad /\ Apart(n, m) /\ n.d = m.d
        /\ n.f.flags = m.f.flags /\ n.f.buf = m.f.buf /\ n.f.rp = m.f.rp /\ n.f.lp = m.f.lp /\ n.f.len = m.f.len
        /\ n.f.over = m.f.over /\ Len(n.f.mem) = Len(m.f.mem) + 1
    BY <1>0, <2>1, <2>2, StoreFacts
  <2>4. Sound(n.f, n.bad \/ b, n.flushall)
    BY <1>0, <1>1, <2>2, <2>3 DEF Sound, Reading, Loose, Apart
  <2> QED BY <1>0, <2>3, <2>4 DEF Fit, Working, Apart
<1> QED BY <1>2, <1>3

-----------------------------------------------------------------------------
(* Calls that move many bytes.                                             *)

LEMMA Least == ASSUME NEW S, S \subseteq Nat, S # {} PROVE \E x \in S : \A y \in S : x <= y
<1> DEFINE R == OpToRel(<, Nat)
<1>1. IsWellFoundedOn(R, Nat)
  BY NatLessThanWellFounded
<1>2. \A x, y \in Nat : <<y, x>> \in R <=> y < x
  BY DEF OpToRel
<1> HIDE DEF R
<1>3. PICK x \in S : \A y \in S : ~(<<y, x>> \in R)
  BY <1>1, WFMin
<1>4. ASSUME NEW y \in S PROVE x <= y
  <2>1. x \in Nat /\ y \in Nat /\ ~(<<y, x>> \in R)
    BY <1>3
  <2>2. ~(y < x)
    BY <1>2, <2>1
  <2> QED BY <2>1, <2>2
<1> QED BY <1>4

\* Induction up to n, for a property that is given as a set.
LEMMA Induction ==
    ASSUME NEW S, NEW n \in Nat, 0 \in S, \A m \in 0 .. n - 1 : m \in S => m + 1 \in S
    PROVE  0 .. n \subseteq S
<1> DEFINE B == {m \in 0 .. n : m \notin S}
<1> SUFFICES ASSUME B # {} PROVE FALSE
  OBVIOUS
<1>1. B \subseteq Nat
  OBVIOUS
<1>2. PICK m \in B : \A y \in B : m <= y
  <2> HIDE DEF B
  <2> QED BY <1>1, Least
<1>3. m # 0 /\ m - 1 \in 0 .. n - 1 /\ m - 1 \in S
  BY <1>2
<1> QED BY <1>2, <1>3

\* n steps on M, and what they make of e.
Steps(T, n, M) == T \in [1 .. n -> [M -> M]]
Course(x, T, n, M, e) == x \in [0 .. n -> M] /\ x[0] = e /\ \A i \in 1 .. n : x[i] = T[i][x[i - 1]]

\* A function defined by recursion over 0 .. n exists.
LEMMA Recursion ==
    ASSUME NEW n \in Nat, NEW M, NEW e \in M, NEW T, Steps(T, n, M)
    PROVE  \E x : Course(x, T, n, M, e)
<1> USE DEF Steps, Course
<1> DEFINE P(x, k) == x \in [0 .. k -> M] /\ x[0] = e /\ \A i \in 1 .. k : x[i] = T[i][x[i - 1]]
           R == {k \in 0 .. n : \E x : P(x, k)}
<1>1. 0 \in R
  <2>1. P([i \in 0 .. 0 |-> e], 0)
    OBVIOUS
  <2> HIDE DEF P
  <2> QED BY <2>1
<1>2. ASSUME NEW k \in 0 .. n - 1, k \in R PROVE k + 1 \in R
  <2>1. PICK x : P(x, k)
    BY <1>2
  <2>2. k \in Nat /\ k + 1 \in 0 .. n /\ k + 1 \in 1 .. n /\ k + 1 \in 0 .. k + 1 /\ 0 \in 0 .. k + 1 /\ 0 # k + 1
        /\ k \in 0 .. k
    OBVIOUS
  <2>3. PICK w : w = T[k + 1][x[k]]
    OBVIOUS
  <2>4. w \in M
    BY <2>1, <2>2, <2>3
  <2> DEFINE f == [i \in 0 .. k + 1 |-> IF i = k + 1 THEN w ELSE x[i]]
  <2>5. \A i \in 0 .. k : i \in 0 .. k + 1 /\ i # k + 1
    BY <2>2
  <2>6. \A i \in 0 .. k + 1 : i # k + 1 => i \in 0 .. k
    BY <2>2
  <2>7. f[k + 1] = w /\ f[0] = x[0] /\ \A i \in 0 .. k : f[i] = x[i]
    BY <2>2, <2>5
  <2>8. f \in [0 .. k + 1 -> M]
    BY <2>1, <2>4, <2>6
  <2> HIDE DEF f
  <2>9. ASSUME NEW i \in 1 .. k + 1 PROVE f[i] = T[i][f[i - 1]]
    <3>1. CASE i = k + 1
      <4>1. i - 1 = k
        BY <2>2, <3>1
      <4> QED BY <2>2, <2>3, <2>7, <3>1, <4>1
    <3>2. CASE i # k + 1
      <4>1. i \in 1 .. k /\ i \in 0 .. k /\ i - 1 \in 0 .. k
        BY <2>2, <3>2
      <4> QED BY <2>1, <2>7, <4>1
    <3> QED BY <3>1, <3>2
  <2>10. P(f, k + 1)
    BY <2>1, <2>7, <2>8, <2>9
  <2> HIDE DEF P
  <2> QED BY <2>2, <2>10
<1>3. 0 .. n \subseteq R
  <2> HIDE DEF R
  <2> QED BY <1>1, <1>2, Induction
<1>4. PICK x : P(x, n)
  BY <1>3
<1> QED BY <1>4

\* Its values stay where each step stays.
LEMMA Along ==
    ASSUME NEW n \in Nat, NEW M, NEW x, x[0] \in M, \A i \in 1 .. n : x[i - 1] \in M => x[i] \in M
    PROVE  x[n] \in M
<1> DEFINE Q == {i \in 0 .. n : x[i] \in M}
<1>1. 0 \in Q
  OBVIOUS
<1>2. \A k \in 0 .. n - 1 : k \in Q => k + 1 \in Q
  <2> TAKE k \in 0 .. n - 1
  <2> HAVE k \in Q
  <2>1. k + 1 \in 1 .. n /\ (k + 1) - 1 = k /\ k + 1 \in 0 .. n
    OBVIOUS
  <2> QED BY <2>1
<1>3. 0 .. n \subseteq Q
  <2> HIDE DEF Q
  <2> QED BY <1>1, <1>2, Induction
<1> QED BY <1>3

\* The machines that fit; and those that can be read on.
Fitting(b, fa) == {y \in Machines : Fit(y, b, fa)}
Readable(b, fa) == {y \in Machines : Fit(y, b, fa) /\ (y.r = EOF \/ "ERR" \notin y.f.flags)}

LEMMA FitR ==
    ASSUME NEW m, NEW b \in BOOLEAN, NEW fa \in BOOLEAN, Fit(m, b, fa), NEW r \in Int, NEW n, n = [m EXCEPT !.r = r]
    PROVE  n \in Fitting(b, fa) /\ n.f = m.f /\ n.r = r
<1>1. m \in Machines
  BY DEF Fit
<1>2. n \in Machines /\ n.f = m.f /\ n.d = m.d /\ n.r = r /\ n.bad = m.bad /\ n.flushall = m.flushall
  BY <1>1, SetR
<1>3. Fit(n, b, fa)
  BY <1>2 DEF Fit
<1> QED BY <1>2, <1>3 DEF Fitting
LEMMA FitGot ==
    ASSUME NEW m, NEW b \in BOOLEAN, NEW fa \in BOOLEAN, Fit(m, b, fa), NEW g \in Seq(Int), NEW n, n = [m EXCEPT !.got = g]
    PROVE  n \in Fitting(b, fa) /\ n.f = m.f /\ n.r = m.r
<1>1. m \in Machines
  BY DEF Fit
<1>2. n \in Machines /\ n.f = m.f /\ n.d = m.d /\ n.r = m.r /\ n.bad = m.bad /\ n.flushall = m.flushall
  BY <1>1, SetGot
<1>3. Fit(n, b, fa)
  BY <1>2 DEF Fit
<1> QED BY <1>2, <1>3 DEF Fitting

LEMMA MoreFit ==
    ASSUME NEW b \in BOOLEAN, NEW fa \in BOOLEAN, NEW x \in Readable(b, fa), NEW stop
    PROVE  More(x, stop) \in Readable(b, fa)
<1>1. CASE x.r = EOF \/ (x.got # << >> /\ Last(x.got) \in stop)
  BY <1>1 DEF More
<1>2. CASE ~(x.r = EOF \/ (x.got # << >> /\ Last(x.got) \in stop))
  <2>1. Fit(x, b, fa) /\ "ERR" \notin x.f.flags
    BY <1>2 DEF Readable
  <2>2. PICK y : y = getc(x)
    OBVIOUS
  <2>3. More(x, stop) = IF y.r = EOF THEN y ELSE [y EXCEPT !.got = Append(@, y.r)]
    BY <1>2, <2>2 DEF More
  <2>4. Fit(y, b, fa) /\ (y.r = EOF \/ "ERR" \notin y.f.flags)
    BY <2>1, <2>2, getcFit
  <2>5. y \in Machines
    BY <2>4 DEF Fit
  <2>6. CASE y.r = EOF
    BY <2>3, <2>4, <2>5, <2>6 DEF Readable
  <2>7. CASE y.r # EOF
    <3>1. PICK g : g = Append(y.got, y.r)
      OBVIOUS
    <3>2. y.got \in Seq(Int) /\ y.r \in Int
      BY <2>5, Fields
    <3>3. g \in Seq(Int)
      BY <3>1, <3>2, AppendProperties
    <3>4. PICK n : n = [y EXCEPT !.got = g]
      OBVIOUS
    <3>5. More(x, stop) = n
      BY <2>3, <2>7, <3>1, <3>4
    <3>6. n \in Fitting(b, fa) /\ n.f = y.f /\ n.r = y.r
      BY <2>4, <3>3, <3>4, FitGot
    <3> QED BY <2>4, <3>5, <3>6 DEF Fitting, Readable
  <2> QED BY <2>6, <2>7
<1> QED BY <1>1, <1>2

LEMMA TakeFit ==
    ASSUME NEW m, NEW b \in BOOLEAN, NEW fa \in BOOLEAN, Fit(m, b, fa), "ERR" \notin m.f.flags, NEW n \in Nat, NEW stop
    PROVE  Take(m, n, stop) \in Readable(b, fa)
<1> DEFINE M == Readable(b, fa)
           e == [m EXCEPT !.r = 0]
           T == [i \in 1 .. n |-> [y \in M |-> More(y, stop)]]
           F(x) == [i \in 0 .. n |-> IF i = 0 THEN e ELSE More(x[i - 1], stop)]
           st == CHOOSE x : x = F(x)
<1>1. Take(m, n, stop) = st[n]
  BY DEF Take
<1>2. e \in M
  <2>1. PICK z : z = 0
    OBVIOUS
  <2>2. z \in Int /\ e = [m EXCEPT !.r = z]
    BY <2>1
  <2>3. e \in Fitting(b, fa) /\ e.f = m.f
    <3> HIDE DEF e
    <3> QED BY <2>2, FitR
  <2> HIDE DEF e
  <2> QED BY <2>3 DEF Fitting, Readable
<1>3. Steps(T, n, M)
  BY MoreFit DEF Steps
<1> HIDE DEF e, T
<1>4. PICK x : Course(x, T, n, M, e)
  <2> HIDE DEF M
  <2> QED BY <1>2, <1>3, Recursion
<1>5. x = F(x)
  <2>1. ASSUME NEW i \in 0 .. n, i # 0 PROVE x[i] = More(x[i - 1], stop)
    <3>1. i \in 1 .. n /\ i - 1 \in 0 .. n
      BY <2>1
    <3>2. x[i - 1] \in M
      BY <1>4, <3>1 DEF Course
    <3> QED BY <1>4, <3>1, <3>2 DEF T, Course
  <2>2. \A i \in 0 .. n : x[i] = IF i = 0 THEN e ELSE More(x[i - 1], stop)
    BY <1>4, <2>1 DEF Course
  <2> QED BY <1>4, <2>2 DEF Course
<1>6. st = F(st)
  <2> HIDE DEF F
  <2> QED BY <1>5
<1> HIDE DEF st
<1>7. st[0] = e /\ \A i \in 1 .. n : st[i] = More(st[i - 1], stop)
  BY <1>6
<1>8. \A i \in 1 .. n : st[i - 1] \in M => st[i] \in M
  BY <1>7, MoreFit
<1>9. st[n] \in M
  <2> HIDE DEF M
  <2> QED BY <1>2, <1>7, <1>8, Along
<1> QED BY <1>1, <1>9

LEMMA fputsFit ==
    ASSUME NEW m, NEW b \in BOOLEAN, NEW fa \in BOOLEAN, Fit(m, b, fa), NEW bs \in Seq(Nat)
    PROVE  fputs(m, bs) \in Fitting(b, fa)
<1> DEFINE M == Fitting(b, fa)
           n == Len(bs)
           e == [m EXCEPT !.r = 0]
           T == [i \in 1 .. n |-> [y \in M |-> putc(y, bs[i])]]
           F(x) == [i \in 0 .. n |-> IF i = 0 THEN e ELSE putc(x[i - 1], bs[i])]
           st == CHOOSE x : x = F(x)
<1>1. fputs(m, bs) = st[n]
  BY DEF fputs
<1>2. e \in M
  <2>1. PICK z : z = 0
    OBVIOUS
  <2>2. z \in Int /\ e = [m EXCEPT !.r = z]
    BY <2>1
  <2> HIDE DEF e
  <2> QED BY <2>2, FitR
<1>0. n \in Nat
  BY LenProperties
<1>10. ASSUME NEW i \in 1 .. n, NEW y \in M PROVE putc(y, bs[i]) \in M
  <2>1. bs[i] \in Nat
    BY ElementOfSeq
  <2>2. Fit(y, b, fa)
    BY DEF Fitting
  <2>3. Fit(putc(y, bs[i]), b, fa)
    BY <2>1, <2>2, putcFit
  <2> QED BY <2>3 DEF Fitting, Fit
<1> HIDE DEF e, n
<1>3. Steps(T, n, M)
  BY <1>10 DEF Steps
<1> HIDE DEF T
<1>4. PICK x : Course(x, T, n, M, e)
  <2> HIDE DEF M
  <2> QED BY <1>0, <1>2, <1>3, Recursion
<1>5. x = F(x)
  <2>1. ASSUME NEW i \in 0 .. n, i # 0 PROVE x[i] = putc(x[i - 1], bs[i])
    <3>1. i \in 1 .. n /\ i - 1 \in 0 .. n
      BY <1>0, <2>1
    <3>2. x[i - 1] \in M
      BY <1>4, <3>1 DEF Course
    <3> QED BY <1>4, <3>1, <3>2 DEF T, Course
  <2>2. \A i \in 0 .. n : x[i] = IF i = 0 THEN e ELSE putc(x[i - 1], bs[i])
    BY <1>4, <2>1 DEF Course
  <2> QED BY <1>4, <2>2 DEF Course
<1>6. st = F(st)
  <2> HIDE DEF F
  <2> QED BY <1>5
<1> HIDE DEF st
<1>7. st[0] = e /\ \A i \in 1 .. n : st[i] = putc(st[i - 1], bs[i])
  BY <1>0, <1>6
<1>8. \A i \in 1 .. n : st[i - 1] \in M => st[i] \in M
  BY <1>7, <1>10
<1>9. st[n] \in M
  <2> HIDE DEF M
  <2> QED BY <1>0, <1>2, <1>7, <1>8, Along
<1> QED BY <1>1, <1>9 DEF n

\* The bytes of the k-th object.
LEMMA ObjectSeq ==
    ASSUME NEW bs \in Seq(Nat), NEW size \in Nat \ {0}, NEW k \in 1 .. Len(bs) \div size
    PROVE  SubSeq(bs, (k - 1) * size + 1, k * size) \in Seq(Nat)
<1>1. PICK l, n : l = Len(bs) /\ n = l \div size
  OBVIOUS
<1>2. l \in Nat /\ n \in Nat /\ n * size <= l
  <2>1. l \in Nat
    BY <1>1, LenProperties
  <2> QED BY <1>1, <2>1
<1>3. k \in Nat /\ k - 1 \in Nat /\ k <= n
  BY <1>1, <1>2
<1>4. k * size <= n * size
  BY <1>2, <1>3
<1>5. PICK x, y : x = (k - 1) * size + 1 /\ y = k * size
  OBVIOUS
<1>6. x \in Nat /\ x >= 1 /\ y \in Nat /\ y <= Len(bs)
  <2>1. PICK u, v, w : u = k * size /\ v = (k - 1) * size /\ w = n * size
    OBVIOUS
  <2>2. u \in Nat /\ v \in Nat /\ w \in Nat
    BY <1>2, <1>3, <2>1
  <2>3. u <= w /\ w <= l
    BY <1>2, <1>4, <2>1
  <2>4. x = v + 1 /\ y = u /\ l \in Nat
    BY <1>2, <1>5, <2>1
  <2>5. x \in Nat /\ x >= 1 /\ y \in Nat /\ y <= l
    BY <2>2, <2>3, <2>4
  <2> QED BY <1>1, <2>5
<1>7. SubSeq(bs, x, y) \in Seq(Nat)
  BY <1>6, Prefix
<1> QED BY <1>5, <1>7

LEMMA ObjectFit ==
    ASSUME NEW b \in BOOLEAN, NEW fa \in BOOLEAN, NEW x \in Fitting(b, fa), NEW bs \in Seq(Nat), NEW k \in Nat
    PROVE  Object(x, bs, k) \in Fitting(b, fa)
<1>1. CASE "ERR" \in x.f.flags
  BY <1>1 DEF Object
<1>2. CASE "ERR" \notin x.f.flags
  <2>1. PICK y : y = fputs(x, bs)
    OBVIOUS
  <2>2. PICK r : r = IF "ERR" \in y.f.flags THEN k - 1 ELSE k
    OBVIOUS
  <2>3. r \in Int
    BY <2>2
  <2>4. Object(x, bs, k) = [y EXCEPT !.r = r]
    BY <1>2, <2>1, <2>2 DEF Object
  <2>5. Fit(x, b, fa)
    BY DEF Fitting
  <2>6. Fit(y, b, fa)
    BY <2>1, <2>5, fputsFit DEF Fitting
  <2> QED BY <2>3, <2>4, <2>6, FitR
<1> QED BY <1>1, <1>2

LEMMA fwriteFit ==
    ASSUME NEW m, NEW b \in BOOLEAN, NEW fa \in BOOLEAN, Fit(m, b, fa), NEW bs \in Seq(Nat), NEW size \in Nat \ {0}
    PROVE  fwrite(m, bs, size) \in Fitting(b, fa)
<1> DEFINE M == Fitting(b, fa)
           n == Len(bs) \div size
           S(k) == SubSeq(bs, (k - 1) * size + 1, k * size)
           e == [m EXCEPT !.r = 0]
           T == [i \in 1 .. n |-> [y \in M |-> Object(y, S(i), i)]]
           F(x) == [k \in 0 .. n |-> IF k = 0 THEN e ELSE Object(x[k - 1], S(k), k)]
           st == CHOOSE x : x = F(x)
<1>1. fwrite(m, bs, size) = st[n]
  BY DEF fwrite
<1>2. e \in M
  <2>1. PICK z : z = 0
    OBVIOUS
  <2>2. z \in Int /\ e = [m EXCEPT !.r = z]
    BY <2>1
  <2> HIDE DEF e
  <2> QED BY <2>2, FitR
<1>0. n \in Nat
  <2>1. Len(bs) \in Nat
    BY LenProperties
  <2> QED BY <2>1
<1>11. \A i \in 1 .. n : S(i) \in Seq(Nat)
  BY ObjectSeq
<1> HIDE DEF e, n, S
<1>10. ASSUME NEW i \in 1 .. n, NEW y \in M PROVE Object(y, S(i), i) \in M
  <2>1. S(i) \in Seq(Nat) /\ i \in Nat
    BY <1>0, <1>11
  <2> QED BY <2>1, ObjectFit
<1>3. Steps(T, n, M)
  BY <1>10 DEF Steps
<1> HIDE DEF T
<1>4. PICK x : Course(x, T, n, M, e)
  <2> HIDE DEF M
  <2> QED BY <1>0, <1>2, <1>3, Recursion
<1>5. x = F(x)
  <2>1. ASSUME NEW i \in 0 .. n, i # 0 PROVE x[i] = Object(x[i - 1], S(i), i)
    <3>1. i \in 1 .. n /\ i - 1 \in 0 .. n
      BY <1>0, <2>1
    <3>2. x[i - 1] \in M
      BY <1>4, <3>1 DEF Course
    <3> QED BY <1>4, <3>1, <3>2 DEF T, Course
  <2>2. \A i \in 0 .. n : x[i] = IF i = 0 THEN e ELSE Object(x[i - 1], S(i), i)
    BY <1>4, <2>1 DEF Course
  <2> QED BY <1>4, <2>2 DEF Course
<1>6. st = F(st)
  <2> HIDE DEF F
  <2> QED BY <1>5
<1> HIDE DEF st
<1>7. st[0] = e /\ \A i \in 1 .. n : st[i] = Object(st[i - 1], S(i), i)
  BY <1>0, <1>6
<1>8. \A i \in 1 .. n : st[i - 1] \in M => st[i] \in M
  BY <1>7, <1>10
<1>9. st[n] \in M
  <2> HIDE DEF M
  <2> QED BY <1>0, <1>2, <1>7, <1>8, Along
<1> QED BY <1>1, <1>9 DEF n

-----------------------------------------------------------------------------
(* The calls.                                                              *)

\* What a call leaves for its stream, of a machine that may say more.
Done(n, b, fa) ==
    /\ n.f \in Iob /\ n.d \in Desc /\ n.t \in Seq(Nat) /\ n.bad \in BOOLEAN /\ n.flushall \in BOOLEAN
    /\ Sound(n.f, n.bad \/ b, n.flushall) /\ Working(n.f, n.d) /\ (fa => n.flushall)
\* The stream is as after it was opened; and it has no byte that an error keeps.
Quiet(n) == n.f.mem = << >> /\ n.f.rp = 0 /\ ~n.bad
Clean(n) == ~Reading(n.f) /\ Loose(n.f) => n.f.mem = << >>

LEMMA FitDone ==
    ASSUME NEW m, NEW b, NEW fa, Fit(m, b, fa)
    PROVE  Done(m, b, fa)
<1>1. m \in Machines
  BY DEF Fit
<1> QED BY <1>1, Fields DEF Fit, Done

LEMMA fgetsDone ==
    ASSUME NEW m, NEW b \in BOOLEAN, NEW fa \in BOOLEAN, Fit(m, b, fa), "ERR" \notin m.f.flags, NEW n \in Nat \ {0}
    PROVE  Done(fgets(m, n), b, fa)
<1>1. PICK k, x : k = n - 1 /\ x = Take(m, k, {NL})
  OBVIOUS
<1>2. k \in Nat
  BY <1>1
<1>3. Fit(x, b, fa)
  BY <1>1, <1>2, TakeFit DEF Readable
<1>4. PICK r : r = IF x.r = EOF /\ x.got = << >> THEN NULL ELSE 0
  OBVIOUS
<1>5. r \in Int
  BY <1>4 DEF NULL
<1>6. fgets(m, n) = [x EXCEPT !.r = r]
  BY <1>1, <1>4 DEF fgets
<1> QED BY <1>3, <1>5, <1>6, FitR, FitDone DEF Fitting

LEMMA freadDone ==
    ASSUME NEW m, NEW b \in BOOLEAN, NEW fa \in BOOLEAN, Fit(m, b, fa), "ERR" \notin m.f.flags, NEW size \in Nat \ {0},
           NEW n \in Nat \ {0}
    PROVE  Done(fread(m, size, n), b, fa)
<1>1. PICK k, x : k = size * n /\ x = Take(m, k, {})
  OBVIOUS
<1>2. k \in Nat
  BY <1>1
<1>3. Fit(x, b, fa)
  BY <1>1, <1>2, TakeFit DEF Readable
<1>4. PICK l, r : l = Len(x.got) /\ r = l \div size
  OBVIOUS
<1>5. r \in Int
  <2>1. x.got \in Seq(Int)
    BY <1>3, Fields DEF Fit
  <2>2. l \in Nat
    BY <1>4, <2>1, LenProperties
  <2> QED BY <1>4, <2>2
<1>6. fread(m, size, n) = [x EXCEPT !.r = r]
  BY <1>1, <1>4 DEF fread
<1> QED BY <1>3, <1>5, <1>6, FitR, FitDone DEF Fitting

LEMMA getsDone ==
    ASSUME NEW m, NEW b \in BOOLEAN, NEW fa \in BOOLEAN, Fit(m, b, fa), "ERR" \notin m.f.flags
    PROVE  Done(gets(m), b, fa)
<1>1. PICK k, x : k = MaxLen + 1 /\ x = Take(m, k, {NL})
  OBVIOUS
<1>2. k \in Nat
  BY <1>1, CallAssumption
<1>3. Fit(x, b, fa)
  BY <1>1, <1>2, TakeFit DEF Readable
<1>4. PICK r, g : r = (IF x.r = EOF /\ x.got = << >> THEN NULL ELSE 0) /\ g = SelectSeq(x.got, LAMBDA y : y # NL)
  OBVIOUS
<1>5. gets(m) = [x EXCEPT !.r = r, !.got = g]
  BY <1>1, <1>4 DEF gets
<1>6. PICK n : n = gets(m)
  OBVIOUS
<1>7. n.f = x.f /\ n.d = x.d /\ n.t = x.t /\ n.bad = x.bad /\ n.flushall = x.flushall
  <2>1. x \in Machines
    BY <1>3 DEF Fit
  <2> QED BY <1>5, <1>6, <2>1 DEF Machines
<1>8. Done(x, b, fa)
  BY <1>3, FitDone
<1> QED BY <1>6, <1>7, <1>8 DEF Done

LEMMA putsDone ==
    ASSUME NEW m, NEW b \in BOOLEAN, NEW fa \in BOOLEAN, Fit(m, b, fa), NEW bs \in Seq(Nat)
    PROVE  Done(puts(m, bs), b, fa)
<1>1. NL \in Nat
  BY DEF NL
<1>2. PICK x : x = fputs(m, bs)
  OBVIOUS
<1>3. Fit(x, b, fa)
  BY <1>2, fputsFit DEF Fitting
<1>4. puts(m, bs) = putc(x, NL)
  BY <1>2 DEF puts
<1> QED BY <1>1, <1>3, <1>4, putcFit, FitDone

LEMMA FlushFit ==
    ASSUME NEW m, NEW b \in BOOLEAN, NEW fa \in BOOLEAN, Fit(m, b, fa), NEW n, n = _flsbuf(m)
    PROVE  Fit(n, b, fa) /\ (Quiet(m) => Quiet(n)) /\ (Clean(m) => Clean(n))
<1>0. /\ m \in Machines /\ Sound(m.f, m.bad \/ b, m.flushall) /\ Working(m.f, m.d) /\ (fa => m.flushall)
      /\ m.bad \in BOOLEAN /\ m.flushall \in BOOLEAN /\ m.f.len \in Nat
  BY FitFacts, Fields
<1>1. /\ n \in Machines /\ Apart(n, m) /\ n.f.buf = m.f.buf /\ n.f.rp = m.f.rp /\ n.f.lp = m.f.lp
      /\ n.f.len = m.f.len /\ n.f.over = m.f.over
      /\ \/ n.r = 0 /\ n.f = m.f /\ n.bad = m.bad /\ Reading(m.f)
         \/ n.r = 0 /\ n.f.flags = m.f.flags /\ n.f.mem = << >> /\ n.bad = m.bad /\ ~Reading(m.f)
         \/ /\ n.r = EOF /\ n.f.flags = m.f.flags \cup {"ERR"} /\ n.f.mem = m.f.mem /\ m.f.mem # << >> /\ n.bad
            /\ ~Reading(m.f)
  BY <1>0, FlushFacts
<1>2. n.bad \in BOOLEAN
  BY <1>1, Fields
<1>3. Len(<< >>) = 0
  BY EmptySeq
<1>4. Sound(n.f, n.bad \/ b, n.flushall)
  BY <1>0, <1>1, <1>2, <1>3 DEF Sound, Reading, Loose, Apart
<1>5. Working(n.f, n.d)
  BY <1>0, <1>1 DEF Working, Apart
<1>6. (Quiet(m) => Quiet(n)) /\ (Clean(m) => Clean(n))
  BY <1>1 DEF Quiet, Clean, Reading, Loose
<1> QED BY <1>0, <1>1, <1>4, <1>5, <1>6 DEF Fit, Apart

\* The marks of the end and of an error are taken off.
Marks(x) == x \subseteq {"EOF", "ERR"}
Drops(n, m, x) == n = [m EXCEPT !.f.flags = m.f.flags \ x]
LEMMA DropFlags ==
    ASSUME NEW m, NEW b \in BOOLEAN, NEW fa \in BOOLEAN, Fit(m, b, fa), Clean(m), NEW x, Marks(x),
           NEW n, Drops(n, m, x)
    PROVE  /\ Fit(n, b, fa) /\ Clean(n) /\ (Quiet(m) => Quiet(n)) /\ n.f.flags = m.f.flags \ x /\ n.f.mem = m.f.mem
           /\ n.f.rp = m.f.rp /\ n.d = m.d /\ n.t = m.t /\ n.bad = m.bad
<1>0. /\ m \in Machines /\ Sound(m.f, m.bad \/ b, m.flushall) /\ Working(m.f, m.d) /\ (fa => m.flushall)
      /\ m.bad \in BOOLEAN /\ m.flushall \in BOOLEAN
  BY FitFacts, Fields
<1>1. PICK f : f = m.f
  OBVIOUS
<1>2. PICK y : y = f.flags \ x
  OBVIOUS
<1>3. f \in Iob /\ y \in SUBSET Flags
  BY <1>0, <1>1, <1>2, Fields
<1>4. PICK g : g = [f EXCEPT !.flags = y]
  OBVIOUS
<1>5. /\ g \in Iob /\ g.flags = y /\ g.buf = f.buf /\ g.mem = f.mem /\ g.rp = f.rp /\ g.lp = f.lp /\ g.len = f.len
      /\ g.over = f.over
  BY <1>3, <1>4, SetFlags
<1>6. n = [m EXCEPT !.f = g]
  BY <1>1, <1>2, <1>4 DEF Drops
<1>7. n \in Machines /\ n.f = g /\ n.d = m.d /\ n.t = m.t /\ n.bad = m.bad /\ n.flushall = m.flushall
  BY <1>0, <1>5, <1>6, SetF
<1>8. Sound(f, m.bad \/ b, m.flushall) /\ (~Reading(f) /\ Loose(f) => f.mem = << >>)
  BY <1>0, <1>1 DEF Clean
<1>9. Sound(g, m.bad \/ b, m.flushall) /\ (~Reading(g) /\ Loose(g) => g.mem = << >>)
  BY <1>2, <1>5, <1>8 DEF Sound, Reading, Loose, Marks
<1>10. Working(g, m.d)
  BY <1>0, <1>1, <1>2, <1>5 DEF Working, Dirs, Marks
<1> QED BY <1>0, <1>1, <1>2, <1>5, <1>7, <1>9, <1>10 DEF Fit, Quiet, Clean

\* Where the program may seek: what was read is used up, and what was put
\* into the buffer of an update stream did not fill it.
Seekable(f) ==
    /\ Reading(f) => f.rp = Len(f.mem) /\ ("RW" \in f.flags => f.rp = 0)
    /\ ~Reading(f) /\ "RW" \in f.flags => f.rp = 0

Movable(a, b) == "RW" \in a.f.flags => a.f.rp = 0 /\ (a.f.mem = << >> \/ (~Reading(a.f) /\ (a.bad \/ b)))
Unset(a) == {"EOF"} \cup (IF "RW" \in a.f.flags THEN {"READ", "WRITE"} ELSE {})
Moved(n, a, o) == n = [a EXCEPT !.d.off = o, !.r = 0, !.f.flags = a.f.flags \ Unset(a)]

\* A stream at another offset, no more read or written when it is for both.
LEMMA MoveFit ==
    ASSUME NEW a, NEW b \in BOOLEAN, NEW fa \in BOOLEAN, Fit(a, b, fa), Movable(a, b), NEW o \in Nat, NEW n, Moved(n, a, o)
    PROVE  Fit(n, b, fa) /\ (Quiet(a) => Quiet(n)) /\ (Clean(a) => Clean(n))
<1>0. /\ a \in Machines /\ Sound(a.f, a.bad \/ b, a.flushall) /\ Working(a.f, a.d) /\ (fa => a.flushall)
      /\ a.bad \in BOOLEAN /\ a.flushall \in BOOLEAN /\ a.f \in Iob /\ a.d \in Desc
  BY FitFacts, Fields
<1>1. PICK f, e, z : f = a.f /\ e = a.d /\ z = 0
  OBVIOUS
<1>2. PICK y : y = a.f.flags \ Unset(a)
  OBVIOUS
<1>3. PICK g : g = [f EXCEPT !.flags = y]
  OBVIOUS
<1>4. PICK d : d = [e EXCEPT !.off = o]
  OBVIOUS
<1>5. PICK k : k = [a EXCEPT !.d = d]
  OBVIOUS
<1>6. PICK l : l = [k EXCEPT !.r = z]
  OBVIOUS
<1>7. n = [l EXCEPT !.f = g]
  BY <1>1, <1>2, <1>3, <1>4, <1>5, <1>6 DEF Moved
<1>8. f \in Iob /\ e \in Desc /\ z \in Int /\ y \subseteq Flags
  <2>1. a.f.flags \subseteq Flags
    BY <1>0, Fields
  <2>2. y \subseteq a.f.flags
    BY <1>2
  <2>3. y \subseteq Flags
    BY <2>1, <2>2
  <2> QED BY <1>0, <1>1, <2>3
<1>9. /\ g \in Iob /\ g.flags = y /\ g.buf = f.buf /\ g.mem = f.mem /\ g.rp = f.rp /\ g.lp = f.lp /\ g.len = f.len
      /\ g.over = f.over
  BY <1>3, <1>8 DEF Iob
<1>10. d \in Desc /\ d.acc = e.acc
  BY <1>4, <1>8 DEF Desc
<1>11. k \in Machines /\ k.f = a.f /\ k.d = d /\ k.bad = a.bad /\ k.flushall = a.flushall
  BY <1>0, <1>5, <1>10, SetD
<1>12. l \in Machines /\ l.f = k.f /\ l.d = k.d /\ l.bad = k.bad /\ l.flushall = k.flushall
  BY <1>6, <1>8, <1>11, SetR
<1>13. n \in Machines /\ n.f = g /\ n.d = l.d /\ n.bad = l.bad /\ n.flushall = l.flushall
  BY <1>7, <1>9, <1>12, SetF
<1>14. Sound(g, a.bad \/ b, a.flushall)
  <2>1. Len(<< >>) = 0
    BY EmptySeq
  <2>2. CASE "RW" \in f.flags
    <3>1. f.rp = 0 /\ (f.mem = << >> \/ (~Reading(f) /\ (a.bad \/ b))) /\ y = f.flags \ {"EOF", "READ", "WRITE"}
      BY <1>1, <1>2, <2>2 DEF Movable, Unset
    <3>2. Sound(f, a.bad \/ b, a.flushall)
      BY <1>0, <1>1
    <3> QED BY <1>9, <3>1, <3>2 DEF Sound, Reading, Loose
  <2>3. CASE "RW" \notin f.flags
    <3>1. y = f.flags \ {"EOF"}
      BY <1>1, <1>2, <2>3 DEF Unset
    <3>2. Sound(f, a.bad \/ b, a.flushall)
      BY <1>0, <1>1
    <3> QED BY <1>9, <3>1, <3>2 DEF Sound, Reading, Loose
  <2> QED BY <2>2, <2>3
<1>15. Working(g, d)
  BY <1>0, <1>1, <1>2, <1>9, <1>10 DEF Working, Dirs, Unset
<1>17. "RW" \in f.flags /\ Reading(f) => f.mem = << >>
  BY <1>1 DEF Movable
<1>16. Clean(a) => Clean(n)
  BY <1>1, <1>2, <1>9, <1>13, <1>17 DEF Clean, Reading, Loose, Unset
<1> QED BY <1>0, <1>1, <1>9, <1>11, <1>12, <1>13, <1>14, <1>15, <1>16 DEF Fit, Quiet

LEMMA fseekFit ==
    ASSUME NEW m, NEW b \in BOOLEAN, NEW fa \in BOOLEAN, Fit(m, b, fa), Seekable(m.f), NEW off \in Int, NEW whence,
           NEW n, n = fseek(m, off, whence)
    PROVE  Fit(n, b, fa) /\ (Quiet(m) => Quiet(n)) /\ (Clean(m) => Clean(n))
<1>0. /\ m \in Machines /\ Sound(m.f, m.bad \/ b, m.flushall) /\ Working(m.f, m.d) /\ (fa => m.flushall)
      /\ m.bad \in BOOLEAN /\ m.flushall \in BOOLEAN /\ m.f \in Iob /\ m.f.mem \in Seq(Nat) /\ m.f.rp \in Nat
  BY FitFacts, Fields
<1>9. PICK e, z : e = EOF /\ z = 0
  OBVIOUS
<1>8. e \in Int /\ z \in Int /\ EOF # 0
  BY <1>9 DEF EOF
<1>1. CASE "ERR" \in m.f.flags
  <2>1. n = [m EXCEPT !.r = e]
    BY <1>1, <1>9 DEF fseek
  <2>2. n \in Fitting(b, fa) /\ n.f = m.f
    BY <1>8, <2>1, FitR
  <2>3. n.bad = m.bad
    BY <1>0, <1>8, <2>1, SetR
  <2> QED BY <2>2, <2>3 DEF Fitting, Quiet, Clean
<1>2. CASE "ERR" \notin m.f.flags
  <2> DEFINE A == IF "WRITE" \in m.f.flags THEN _flsbuf(m) ELSE [m EXCEPT !.r = 0]
             O == IF whence = "CUR" /\ "READ" \in m.f.flags THEN off - (wp(m) - m.f.rp) ELSE off
             P(y) == O + (CASE whence = "SET" -> 0 [] whence = "CUR" -> y.d.off [] OTHER -> Len(y.t))
             G(y) == [y EXCEPT !.d.off = P(y), !.r = 0,
                               !.f.flags = (@ \ {"EOF"}) \ (IF "RW" \in @ THEN {"READ", "WRITE"} ELSE {})]
             X == IF A.r = EOF THEN A ELSE IF P(A) < 0 THEN [A EXCEPT !.r = EOF] ELSE G(A)
  <2>1. fseek(m, off, whence) = X
    <3>1. fseek(m, off, whence) = IF "ERR" \in m.f.flags THEN [m EXCEPT !.r = EOF] ELSE X
      BY DEF fseek
    <3> HIDE DEF X
    <3> QED BY <1>2, <3>1
  <2>2. PICK a : a = A
    OBVIOUS
  <2>3. /\ Fit(a, b, fa) /\ (Quiet(m) => Quiet(a)) /\ (Clean(m) => Clean(a))
        /\ a.r # EOF /\ "RW" \in a.f.flags => a.f.rp = 0 /\ (a.f.mem = << >> \/ (~Reading(a.f) /\ (a.bad \/ b)))
    <3>0. Len(m.f.mem) = 0 => m.f.mem = << >>
      BY <1>0, EmptySeq
    <3>1. CASE "WRITE" \in m.f.flags
      <4>1. a = _flsbuf(m)
        BY <2>2, <3>1
      <4>2. /\ a.f.rp = m.f.rp
            /\ \/ a.r = 0 /\ a.f = m.f /\ a.bad = m.bad /\ Reading(m.f)
               \/ a.r = 0 /\ a.f.flags = m.f.flags /\ a.f.mem = << >> /\ a.bad = m.bad /\ ~Reading(m.f)
               \/ a.r = EOF
        BY <1>0, <4>1, FlushFacts
      <4>3. a.r # EOF /\ "RW" \in a.f.flags => a.f.rp = 0 /\ a.f.mem = << >>
        BY <3>0, <4>2 DEF Seekable, Reading
      <4> QED BY <4>1, <4>3, FlushFit
    <3>2. CASE "WRITE" \notin m.f.flags
      <4>1. a = [m EXCEPT !.r = z]
        BY <1>9, <2>2, <3>2
      <4>2. a \in Fitting(b, fa) /\ a.f = m.f
        BY <1>8, <4>1, FitR
      <4>3. a.bad = m.bad
        BY <1>0, <1>8, <4>1, SetR
      <4>4. "RW" \in m.f.flags => m.f.rp = 0 /\ (m.f.mem = << >> \/ (~Reading(m.f) /\ (m.bad \/ b)))
        BY <1>0, <3>0, <3>2 DEF Seekable, Sound
      <4> QED BY <4>2, <4>3, <4>4 DEF Fitting, Quiet, Clean
    <3> QED BY <3>1, <3>2
  <2>4. PICK p : p = P(a)
    OBVIOUS
  <2>5. p \in Int
    <3>1. a.d.off \in Nat /\ a.t \in Seq(Nat)
      BY <2>3, Fields DEF Fit
    <3>2. Len(a.t) \in Nat /\ wp(m) \in Nat
      BY <1>0, <3>1, LenProperties DEF wp
    <3>3. O \in Int
      BY <1>0, <3>2
    <3> HIDE DEF O
    <3> QED BY <2>4, <3>1, <3>2, <3>3
  <2>6. X = IF a.r = EOF THEN a ELSE IF p < 0 THEN [a EXCEPT !.r = e] ELSE G(a)
    <3>1. X = IF A.r = EOF THEN A ELSE IF P(A) < 0 THEN [A EXCEPT !.r = EOF] ELSE G(A)
      OBVIOUS
    <3> HIDE DEF A, P, G, X
    <3> QED BY <1>9, <2>2, <2>4, <3>1
  <2>7. CASE a.r = EOF
    BY <2>1, <2>3, <2>6, <2>7
  <2>8. CASE a.r # EOF /\ p < 0
    <3>1. n = [a EXCEPT !.r = e]
      <4> HIDE DEF X, G
      <4> QED BY <2>1, <2>6, <2>8
    <3>2. n \in Fitting(b, fa) /\ n.f = a.f
      BY <1>8, <2>3, <3>1, FitR
    <3>3. n.bad = a.bad
      BY <1>8, <2>3, <3>1, SetR DEF Fit
    <3> QED BY <2>3, <3>2, <3>3 DEF Fitting, Quiet, Clean
  <2>9. CASE a.r # EOF /\ ~(p < 0)
    <3>2. Moved(G(a), a, p)
      <4>1. PICK y : y = (a.f.flags \ {"EOF"}) \ (IF "RW" \in a.f.flags THEN {"READ", "WRITE"} ELSE {})
        OBVIOUS
      <4>2. y = a.f.flags \ Unset(a)
        BY <4>1 DEF Unset
      <4>3. PICK q : q = P(a)
        OBVIOUS
      <4>4. G(a) = [a EXCEPT !.d.off = q, !.r = 0, !.f.flags = y]
        <5> HIDE DEF P
        <5> QED BY <4>1, <4>3
      <4> HIDE DEF G, P
      <4> QED BY <2>4, <4>2, <4>3, <4>4 DEF Moved
    <3>3. n = G(a)
      <4> HIDE DEF X, G
      <4> QED BY <2>1, <2>6, <2>9
    <3>4. p \in Nat
      BY <2>5, <2>9
    <3>5. Moved(n, a, p)
      <4> HIDE DEF G
      <4> QED BY <3>2, <3>3
    <3> HIDE DEF X, G
    <3>6. Fit(n, b, fa) /\ (Quiet(a) => Quiet(n)) /\ (Clean(a) => Clean(n))
      BY <2>3, <2>9, <3>4, <3>5, MoveFit DEF Movable
    <3> QED BY <2>3, <3>6
  <2> QED BY <2>7, <2>8, <2>9
<1> QED BY <1>1, <1>2

LEMMA Marked == Marks({"ERR"}) /\ Marks({"EOF", "ERR"})
  BY DEF Marks

LEMMA rewindFit ==
    ASSUME NEW m, NEW b \in BOOLEAN, NEW fa \in BOOLEAN, Fit(m, b, fa), ~b, ~m.bad, Seekable(m.f), NEW n, n = rewind(m)
    PROVE  Fit(n, b, fa)
<1>1. PICK er, eo : er = {"ERR"} /\ eo = {"EOF", "ERR"}
  OBVIOUS
<1>2. PICK k : k = [m EXCEPT !.f.flags = m.f.flags \ er]
  OBVIOUS
<1>3. PICK z : z = 0
  OBVIOUS
<1>4. PICK a : a = fseek(k, z, "SET")
  OBVIOUS
<1>5. PICK l : l = [a EXCEPT !.f.flags = a.f.flags \ eo]
  OBVIOUS
<1>6. n = [l EXCEPT !.r = z]
  <2>1. k = [m EXCEPT !.f.flags = @ \ {"ERR"}]
    BY <1>1, <1>2
  <2>2. n = [fseek([m EXCEPT !.f.flags = @ \ {"ERR"}], 0, "SET") EXCEPT !.f.flags = @ \ {"ERR", "EOF"}, !.r = 0]
    BY DEF rewind
  <2>3. PICK y : y = [m EXCEPT !.f.flags = @ \ {"ERR"}]
    OBVIOUS
  <2>4. n = [fseek(y, 0, "SET") EXCEPT !.f.flags = @ \ {"ERR", "EOF"}, !.r = 0]
    BY <2>2, <2>3
  <2>5. y = k
    BY <2>1, <2>3
  <2>6. a = fseek(y, 0, "SET")
    BY <1>3, <1>4, <2>5
  <2>7. n = [a EXCEPT !.f.flags = @ \ {"ERR", "EOF"}, !.r = 0]
    BY <2>4, <2>6
  <2>8. a.f.flags \ {"ERR", "EOF"} = a.f.flags \ eo
    BY <1>1
  <2>9. n = [a EXCEPT !.f.flags = a.f.flags \ {"ERR", "EOF"}, !.r = 0]
    BY <2>7
  <2>10. n = [a EXCEPT !.f.flags = a.f.flags \ eo, !.r = 0]
    <3>1. PICK v, w : v = a.f.flags \ {"ERR", "EOF"} /\ w = a.f.flags \ eo
      OBVIOUS
    <3>2. v = w /\ n = [a EXCEPT !.f.flags = v, !.r = 0]
      BY <2>8, <2>9, <3>1
    <3> QED BY <3>1, <3>2
  <2> QED BY <1>3, <1>5, <2>10
<1>7. Clean(m)
  BY DEF Fit, Sound, Clean
<1>8. Marks(er) /\ Marks(eo) /\ z \in Int
  BY <1>1, <1>3, Marked
<1>9. Drops(k, m, er) /\ Drops(l, a, eo)
  BY <1>2, <1>5 DEF Drops
<1>10. Fit(k, b, fa) /\ Clean(k) /\ k.f.flags = m.f.flags \ er /\ k.f.mem = m.f.mem /\ k.f.rp = m.f.rp
  BY <1>7, <1>8, <1>9, DropFlags
<1>11. Seekable(k.f)
  BY <1>1, <1>10 DEF Seekable, Reading
<1>12. Fit(a, b, fa) /\ Clean(a)
  BY <1>4, <1>8, <1>10, <1>11, fseekFit
<1>13. Fit(l, b, fa)
  BY <1>8, <1>9, <1>12, DropFlags
<1> QED BY <1>6, <1>8, <1>13, FitR DEF Fitting

LEMMA clearerrFit ==
    ASSUME NEW m, NEW b \in BOOLEAN, NEW fa \in BOOLEAN, Fit(m, b, fa), ~b, ~m.bad, NEW n, n = clearerr(m)
    PROVE  Fit(n, b, fa) /\ (Quiet(m) => Quiet(n))
<1>1. PICK eo, z : eo = {"EOF", "ERR"} /\ z = 0
  OBVIOUS
<1>2. PICK l : l = [m EXCEPT !.f.flags = m.f.flags \ eo]
  OBVIOUS
<1>3. n = [l EXCEPT !.r = z]
  <2>1. n = [m EXCEPT !.f.flags = m.f.flags \ {"ERR", "EOF"}, !.r = 0]
    BY DEF clearerr
  <2>2. PICK v, w : v = m.f.flags \ {"ERR", "EOF"} /\ w = m.f.flags \ eo
    OBVIOUS
  <2>3. v = w
    BY <1>1, <2>2
  <2>4. n = [m EXCEPT !.f.flags = v, !.r = 0]
    BY <2>1, <2>2
  <2> QED BY <1>1, <1>2, <2>2, <2>3, <2>4
<1>4. Clean(m)
  BY DEF Fit, Sound, Clean
<1>5. Marks(eo) /\ z \in Int
  BY <1>1, Marked
<1>6. Drops(l, m, eo)
  BY <1>2 DEF Drops
<1>7. Fit(l, b, fa) /\ (Quiet(m) => Quiet(l))
  BY <1>4, <1>5, <1>6, DropFlags
<1>8. n \in Fitting(b, fa) /\ n.f = l.f
  BY <1>3, <1>5, <1>7, FitR
<1>9. n.bad = l.bad
  BY <1>3, <1>5, <1>7, SetR DEF Fit
<1> QED BY <1>7, <1>8, <1>9 DEF Fitting, Quiet

LEMMA ftellFit ==
    ASSUME NEW m, NEW b \in BOOLEAN, NEW fa \in BOOLEAN, Fit(m, b, fa), NEW n, n = ftell(m)
    PROVE  Fit(n, b, fa) /\ (Quiet(m) => Quiet(n))
<1>1. PICK r : r = IF "ERR" \in m.f.flags THEN EOF
                   ELSE IF "READ" \in m.f.flags THEN m.d.off - (wp(m) - m.f.rp)
                   ELSE IF "WRITE" \in m.f.flags
                   THEN m.d.off + (IF "LBF" \in m.f.flags THEN m.f.lp ELSE wp(m))
                   ELSE m.d.off
  OBVIOUS
<1>2. n = [m EXCEPT !.r = r]
  BY <1>1 DEF ftell
<1>3. m \in Machines
  BY DEF Fit
<1>4. m.d.off \in Nat /\ m.f.mem \in Seq(Nat) /\ m.f.rp \in Nat /\ m.f.lp \in Nat
  BY <1>3, Fields
<1>5. wp(m) \in Nat
  BY <1>4, LenProperties DEF wp
<1>6. r \in Int
  BY <1>1, <1>4, <1>5 DEF EOF
<1>7. n \in Fitting(b, fa) /\ n.f = m.f
  BY <1>2, <1>6, FitR
<1>8. n.bad = m.bad
  BY <1>2, <1>3, <1>6, SetR
<1> QED BY <1>7, <1>8 DEF Fitting, Quiet

LEMMA setvbufFit ==
    ASSUME NEW m, NEW b \in BOOLEAN, NEW fa \in BOOLEAN, Fit(m, b, fa), ~b, Quiet(m), NEW len \in Nat, NEW mode, NEW n, n = setvbuf(m, len, mode)
    PROVE  Fit(n, b, fa) /\ Quiet(n)
<1>1. PICK a : a = _flsbuf(m)
  OBVIOUS
<1>2. PICK l : l = CASE mode = "NBF" -> 1 [] mode # "NBF" /\ len # 0 -> len [] OTHER -> m.f.len
  OBVIOUS
<1>3. PICK p : p = CASE mode = "NBF" -> "unbuf" [] mode # "NBF" /\ len # 0 -> "user" [] OTHER -> m.f.buf
  OBVIOUS
<1>4. setvbuf(m, len, mode) =
        IF a.r = EOF THEN a
        ELSE IF mode \notin Modes THEN [a EXCEPT !.r = EOF]
        ELSE [a EXCEPT !.f.mem = << >>, !.f.rp = 0, !.f.lp = l, !.f.buf = p, !.f.len = l, !.r = 0,
                       !.f.flags = (@ \ Modes) \cup {mode}]
  BY <1>1, <1>2, <1>3 DEF setvbuf
<1>5. /\ m \in Machines /\ m.f \in Iob /\ m.f.len \in Nat /\ m.f.buf \in {"NULL", "alloc", "unbuf", "user"}
      /\ Sound(m.f, m.bad \/ b, m.flushall)
  BY Fields DEF Fit
<1>6. Fit(a, b, fa) /\ Quiet(a)
  BY <1>1, FlushFit
<1>7. a \in Machines /\ a.f.buf = m.f.buf /\ a.f.len = m.f.len
  BY <1>1, <1>5, FlushFacts
<1>8. CASE a.r = EOF
  BY <1>4, <1>6, <1>8
<1>9. CASE a.r # EOF /\ mode \notin Modes
  <2>1. PICK e : e = EOF
    OBVIOUS
  <2>2. e \in Int /\ n = [a EXCEPT !.r = e]
    BY <1>4, <1>9, <2>1 DEF EOF
  <2>3. n \in Fitting(b, fa) /\ n.f = a.f
    <3>1. Fit(a, b, fa)
      BY <1>6
    <3> QED BY <2>2, <3>1, FitR
  <2>4. n.bad = a.bad
    BY <1>7, <2>2, SetR
  <2> QED BY <1>6, <2>3, <2>4 DEF Fitting, Quiet
<1>10. CASE a.r # EOF /\ mode \in Modes
  <2>1. n = [a EXCEPT !.f.mem = << >>, !.f.rp = 0, !.f.lp = l, !.f.buf = p, !.f.len = l, !.r = 0,
                      !.f.flags = (@ \ Modes) \cup {mode}]
    BY <1>4, <1>10
  <2>2. PICK f, e, z, y : f = a.f /\ e = << >> /\ z = 0 /\ y = (a.f.flags \ Modes) \cup {mode}
    OBVIOUS
  <2>3. f \in Iob /\ e \in Seq(Nat) /\ z \in Int /\ z \in Nat
    <3>1. a.f \in Iob /\ << >> \in Seq(Nat)
      BY <1>7, Fields, EmptySeq
    <3> QED BY <2>2, <3>1
  <2>4. y \subseteq Flags
    <3>1. a.f.flags \subseteq Flags
      BY <1>7, Fields
    <3> QED BY <1>10, <2>2, <3>1 DEF Flags
  <2>5. l \in Nat
    BY <1>2, <1>5
  <2>6. p \in {"NULL", "alloc", "unbuf", "user"}
    BY <1>3, <1>5
  <2>7. PICK g : g = [f EXCEPT !.mem = e, !.rp = z, !.lp = l, !.buf = p, !.len = l, !.flags = y]
    OBVIOUS
  <2>8. g = [flags |-> y, buf |-> p, mem |-> e, rp |-> z, lp |-> l, len |-> l, over |-> f.over]
    BY <2>3, <2>7 DEF Iob
  <2>9. g \in Iob
    BY <2>3, <2>4, <2>5, <2>6, <2>8 DEF Iob
  <2>10. /\ g.flags = y /\ g.buf = p /\ g.mem = << >> /\ g.rp = 0 /\ g.lp = l /\ g.len = l /\ g.over = f.over
    BY <2>2, <2>8
  <2>11. PICK k : k = [a EXCEPT !.f = g]
    OBVIOUS
  <2>12. n = [k EXCEPT !.r = z]
    <3>1. n = [a EXCEPT !.f.mem = e, !.f.rp = z, !.f.lp = l, !.f.buf = p, !.f.len = l, !.r = z, !.f.flags = y]
      BY <2>1, <2>2
    <3>2. n = [a EXCEPT !.f = [a.f EXCEPT !.mem = e, !.rp = z, !.lp = l, !.buf = p, !.len = l, !.flags = y], !.r = z]
      BY <3>1
    <3> QED BY <2>2, <2>7, <2>11, <3>2
  <2>13. k \in Machines /\ k.f = g /\ k.d = a.d /\ k.bad = a.bad /\ k.flushall = a.flushall
    BY <1>7, <2>9, <2>11, SetF
  <2>14. n \in Machines /\ n.f = k.f /\ n.d = k.d /\ n.bad = k.bad /\ n.flushall = k.flushall
    BY <2>3, <2>12, <2>13, SetR
  <2>15. Sound(g, a.bad \/ b, a.flushall)
    <3>1. ~f.over
      BY <1>6, <2>2 DEF Fit, Sound
    <3>2. p # "NULL" => l # 0
      BY <1>2, <1>3, <1>5 DEF Sound
    <3>3. Len(<< >>) = 0
      BY EmptySeq
    <3> QED BY <2>5, <2>10, <3>1, <3>2, <3>3 DEF Sound
  <2>16. Working(g, a.d)
    <3>1. Working(a.f, a.d)
      BY <1>6 DEF Fit
    <3> QED BY <1>10, <2>2, <2>10, <3>1 DEF Working, Dirs, Modes
  <2> QED BY <1>6, <2>10, <2>13, <2>14, <2>15, <2>16 DEF Fit, Quiet
<1> QED BY <1>8, <1>9, <1>10

\* A machine whose stream is closed.
Closeds == [f : Iob, d : {NoFd}, t : Seq(Nat), mood : Moods, r : Int, got : Seq(Int), bad : BOOLEAN, flushall : BOOLEAN]
Shut(n, fa) == n \in Closeds /\ ~n.f.over /\ n.f.flags \subseteq Modes /\ n.flushall = fa

LEMMA ClosedFields ==
    ASSUME NEW m \in Closeds
    PROVE  m.f \in Iob /\ m.d = NoFd /\ m.t \in Seq(Nat) /\ m.bad \in BOOLEAN /\ m.flushall \in BOOLEAN /\ m.r \in Int
  BY DEF Closeds

LEMMA CloseF ==
    ASSUME NEW f \in Iob, NEW g, g = [f EXCEPT !.flags = f.flags \cap Modes]
    PROVE  g \in Iob /\ g.over = f.over /\ g.flags \subseteq Modes
<1>1. PICK y : y = f.flags \cap Modes
  OBVIOUS
<1>2. y \subseteq Flags /\ y \subseteq Modes
  BY <1>1 DEF Flags
<1>3. g = [f EXCEPT !.flags = y]
  BY <1>1
<1> QED BY <1>2, <1>3 DEF Iob

LEMMA fcloseOpen ==
    ASSUME NEW m, NEW b \in BOOLEAN, NEW fa \in BOOLEAN, Fit(m, b, fa), m.flushall = fa, ~m.bad, NEW n, n = fclose(m)
    PROVE  Shut(n, fa) /\ (n.r # EOF => ~n.bad)
<1>1. m \in Machines /\ m.f.flags \cap Dirs # {} /\ ~m.f.over
  BY DEF Fit, Working, Sound
<1>2. PICK a : a = _flsbuf(m)
  OBVIOUS
<1>3. n = [a EXCEPT !.d = NoFd, !.f.flags = a.f.flags \cap Modes]
  BY <1>1, <1>2 DEF fclose
<1>4. /\ a \in Machines /\ Apart(a, m) /\ a.f.over = m.f.over
      /\ \/ a.r = 0 /\ a.bad = m.bad
         \/ a.r = EOF
  BY <1>1, <1>2, FlushFacts
<1>5. PICK f : f = a.f
  OBVIOUS
<1>6. PICK g : g = [f EXCEPT !.flags = f.flags \cap Modes]
  OBVIOUS
<1>7. f \in Iob
  BY <1>4, <1>5, Fields
<1>8. g \in Iob /\ g.over = f.over /\ g.flags \subseteq Modes
  BY <1>6, <1>7, CloseF
<1>9. n = [a EXCEPT !.d = NoFd, !.f = g]
  BY <1>3, <1>5, <1>6
<1>10. n = [f |-> g, d |-> NoFd, t |-> a.t, mood |-> a.mood, r |-> a.r, got |-> a.got, bad |-> a.bad, flushall |-> a.flushall]
  BY <1>4, <1>9 DEF Machines
<1>11. n.f = g /\ n.r = a.r /\ n.bad = a.bad /\ n.flushall = a.flushall
  BY <1>10
<1>12. n \in Closeds
  BY <1>4, <1>8, <1>10 DEF Closeds, Machines
<1> QED BY <1>1, <1>4, <1>5, <1>8, <1>11, <1>12 DEF Shut, Apart

LEMMA fcloseClosed ==
    ASSUME NEW m, NEW fa \in BOOLEAN, Shut(m, fa), ~m.bad, NEW n, n = fclose(m)
    PROVE  Shut(n, fa) /\ n.r = EOF /\ ~n.bad /\ n.t = m.t
<1>1. m.f.flags \cap Dirs = {} /\ m \in Closeds
  BY DEF Shut, Modes, Dirs
<1>2. PICK f : f = m.f
  OBVIOUS
<1>3. PICK g : g = [f EXCEPT !.flags = f.flags \cap Modes]
  OBVIOUS
<1>4. PICK e : e = EOF
  OBVIOUS
<1>5. n = [m EXCEPT !.r = e, !.d = NoFd, !.f = g]
  <2>1. PICK k : k = [m EXCEPT !.r = e]
    OBVIOUS
  <2>2. k.f = m.f
    BY <1>1, <2>1 DEF Closeds
  <2>3. n = [k EXCEPT !.d = NoFd, !.f.flags = k.f.flags \cap Modes]
    BY <1>1, <1>4, <2>1 DEF fclose
  <2>4. g = [k.f EXCEPT !.flags = k.f.flags \cap Modes]
    BY <1>2, <1>3, <2>2
  <2>5. n = [k EXCEPT !.d = NoFd, !.f = [k.f EXCEPT !.flags = k.f.flags \cap Modes]]
    BY <2>3
  <2> QED BY <2>1, <2>4, <2>5
<1>6. f \in Iob
  BY <1>1, <1>2, ClosedFields
<1>7. g \in Iob /\ g.over = f.over /\ g.flags \subseteq Modes
  BY <1>3, <1>6, CloseF
<1>8. n = [f |-> g, d |-> NoFd, t |-> m.t, mood |-> m.mood, r |-> e, got |-> m.got, bad |-> m.bad, flushall |-> m.flushall]
  BY <1>1, <1>5 DEF Closeds
<1>9. n.f = g /\ n.r = e /\ n.bad = m.bad /\ n.flushall = m.flushall /\ n.t = m.t
  BY <1>8
<1>10. e \in Int
  BY <1>4 DEF EOF
<1>11. n \in Closeds
  BY <1>1, <1>7, <1>8, <1>10 DEF Closeds
<1> QED BY <1>2, <1>4, <1>7, <1>9, <1>11 DEF Shut

LEMMA AccType == ASSUME NEW mode PROVE Acc(mode) \subseteq {"in", "out", "app"}
  BY DEF Acc

\* The stream is open and empty, or nothing was done.
Opens(n, m, fa) ==
    \/ n.r = NULL /\ Shut(n, fa) /\ n.t = m.t /\ n.bad = m.bad
    \/ /\ n.r = 0 /\ n \in Machines /\ Sound(n.f, FALSE, fa) /\ Working(n.f, n.d) /\ n.flushall = fa
       /\ n.bad = m.bad /\ n.f.mem = << >> /\ n.f.rp = 0

LEMMA _fpopenFacts ==
    ASSUME NEW m, NEW fa \in BOOLEAN, Shut(m, fa), NEW f \in Files, NEW mode, NEW there, NEW n, n = _fpopen(m, f, mode, there)
    PROVE  Opens(n, m, fa)
<1>0. m \in Closeds /\ m.f \in Iob /\ m.t \in Seq(Nat) /\ m.f.flags \subseteq Modes /\ ~m.f.over
  BY ClosedFields DEF Shut
<1>1. CASE Acc(mode) = {} \/ ~_open(mode, there)
  <2>1. PICK e : e = NULL
    OBVIOUS
  <2>2. n = [m EXCEPT !.r = e] /\ e \in Int
    BY <1>1, <2>1 DEF _fpopen, NULL
  <2>3. n.f = m.f /\ n.flushall = m.flushall /\ n.r = e /\ n.t = m.t /\ n.bad = m.bad
    BY <1>0, <2>2 DEF Closeds
  <2>4. n \in Closeds
    BY <1>0, <2>2 DEF Closeds
  <2> QED BY <2>1, <2>3, <2>4 DEF Shut, Opens
<1>2. CASE ~(Acc(mode) = {} \/ ~_open(mode, there))
  <2>1. PICK d, t, e, z : d = Fd(f, Acc(mode)) /\ t = (IF Head(mode) = "w" THEN << >> ELSE m.t) /\ e = << >> /\ z = 0
    OBVIOUS
  <2>2. PICK x : x = CASE {"in", "out"} \subseteq Acc(mode) -> {"RW"}
                       [] "out" \notin Acc(mode) -> {"READ"}
                       [] "in" \notin Acc(mode) -> {"WRITE"}
    OBVIOUS
  <2>3. PICK y, h : y = m.f.flags \cup x /\ h = m.f
    OBVIOUS
  <2>4. PICK g : g = [h EXCEPT !.buf = "NULL", !.mem = e, !.rp = z, !.lp = z, !.flags = y]
    OBVIOUS
  <2>5. n = [m EXCEPT !.d = d, !.t = t, !.f = g, !.r = z]
    <3>1. n = [m EXCEPT !.d = Fd(f, Acc(mode)), !.t = IF Head(mode) = "w" THEN << >> ELSE @,
                        !.f.buf = "NULL", !.f.mem = << >>, !.f.rp = 0, !.f.lp = 0,
                        !.f.flags = @ \cup (CASE {"in", "out"} \subseteq Acc(mode) -> {"RW"}
                                              [] "out" \notin Acc(mode) -> {"READ"}
                                              [] "in" \notin Acc(mode) -> {"WRITE"}),
                        !.r = 0]
      BY <1>2 DEF _fpopen
    <3>2. n = [m EXCEPT !.d = Fd(f, Acc(mode)), !.t = IF Head(mode) = "w" THEN << >> ELSE @,
                        !.f.buf = "NULL", !.f.mem = << >>, !.f.rp = 0, !.f.lp = 0,
                        !.f.flags = @ \cup x, !.r = 0]
      BY <2>2, <3>1
    <3>3. n = [m EXCEPT !.d = d, !.t = t, !.f.buf = "NULL", !.f.mem = e, !.f.rp = z, !.f.lp = z, !.f.flags = y, !.r = z]
      BY <2>1, <2>3, <3>2
    <3>4. n = [m EXCEPT !.d = d, !.t = t, !.f = [m.f EXCEPT !.buf = "NULL", !.mem = e, !.rp = z, !.lp = z, !.flags = y], !.r = z]
      BY <3>3
    <3> QED BY <2>3, <2>4, <3>4
  <2>6. d \in Desc /\ d.acc = Acc(mode)
    <3>1. d = [open |-> TRUE, file |-> f, off |-> 0, acc |-> Acc(mode)]
      BY <2>1 DEF Fd
    <3>2. Acc(mode) \subseteq {"in", "out", "app"}
      BY AccType
    <3> QED BY <3>1, <3>2 DEF Desc
  <2>7. /\ x \subseteq Dirs /\ x \cap Dirs # {} /\ ("RW" \in x => {"in", "out"} \subseteq Acc(mode))
    <3>1. CASE {"in", "out"} \subseteq Acc(mode)
      <4>1. x = {"RW"}
        BY <2>2, <3>1
      <4> QED BY <3>1, <4>1 DEF Dirs
    <3>2. CASE "out" \notin Acc(mode)
      <4>1. x \in {{"READ"}, {"WRITE"}}
        BY <2>2, <3>2
      <4> QED BY <4>1 DEF Dirs
    <3>3. CASE "in" \notin Acc(mode)
      <4>1. x \in {{"READ"}, {"WRITE"}}
        BY <2>2, <3>3
      <4> QED BY <4>1 DEF Dirs
    <3> QED BY <3>1, <3>2, <3>3
  <2>8. h \in Iob /\ e \in Seq(Nat) /\ z \in Nat /\ z \in Int /\ t \in Seq(Nat)
    <3>1. << >> \in Seq(Nat)
      BY EmptySeq
    <3> QED BY <1>0, <2>1, <2>3, <3>1
  <2>9. y \subseteq Flags
    BY <1>0, <2>3, <2>7 DEF Flags
  <2>10. g = [flags |-> y, buf |-> "NULL", mem |-> e, rp |-> z, lp |-> z, len |-> h.len, over |-> h.over]
    BY <2>4, <2>8 DEF Iob
  <2>11. g \in Iob
    BY <2>8, <2>9, <2>10 DEF Iob
  <2>12. g.flags = y /\ g.buf = "NULL" /\ g.mem = << >> /\ g.rp = 0 /\ ~g.over
    BY <1>0, <2>1, <2>3, <2>10
  <2>13. n = [f |-> g, d |-> d, t |-> t, mood |-> m.mood, r |-> z, got |-> m.got, bad |-> m.bad, flushall |-> m.flushall]
    BY <1>0, <2>5 DEF Closeds
  <2>14. n \in Machines
    BY <1>0, <2>6, <2>8, <2>11, <2>13 DEF Machines, Closeds
  <2>15. n.f = g /\ n.d = d /\ n.r = 0 /\ n.bad = m.bad /\ n.flushall = fa
    BY <2>1, <2>13 DEF Shut
  <2>16. Sound(g, FALSE, fa)
    <3>1. Len(<< >>) = 0
      BY EmptySeq
    <3> QED BY <2>12, <3>1 DEF Sound
  <2>17. Working(g, d)
    BY <1>0, <2>3, <2>6, <2>7, <2>12 DEF Working, Dirs, Modes
  <2> QED BY <2>12, <2>14, <2>15, <2>16, <2>17 DEF Opens
<1> QED BY <1>1, <1>2

-----------------------------------------------------------------------------
(* The state.                                                              *)

LEMMA MachineFields ==
    ASSUME NEW s, NEW e
    PROVE  /\ Machine(s, e).f = iob[s] /\ Machine(s, e).d = fds[s] /\ Machine(s, e).bad = FALSE
           /\ Machine(s, e).flushall = flushall
           /\ Machine(s, e).t = IF fds[s].open THEN file[fds[s].file] ELSE << >>
  BY DEF Machine

LEMMA MachineOpen ==
    ASSUME StateOK, NEW s \in Slots, fds[s].open, NEW e \in Moods
    PROVE  OpenOK(s) /\ Fit(Machine(s, e), s \in bad, flushall)
<1>1. OpenOK(s)
  BY DEF StateOK, ClosedOK, NoFd
<1>2. iob[s] \in Iob /\ fds[s] \in Desc /\ flushall \in BOOLEAN
  BY <1>1 DEF StateOK, OpenOK
<1>3. file[fds[s].file] \in Seq(Nat)
  BY <1>2 DEF StateOK, Desc
<1>4. PICK t, g : t = file[fds[s].file] /\ g = << >>
  OBVIOUS
<1>5. t \in Seq(Nat) /\ g \in Seq(Int)
  BY <1>3, <1>4, EmptySeq
<1>6. Machine(s, e) = [f |-> iob[s], d |-> fds[s], t |-> t, mood |-> e, r |-> 0, got |-> g, bad |-> FALSE,
                       flushall |-> flushall]
  BY <1>4 DEF Machine
<1>7. Machine(s, e) \in Machines
  BY <1>2, <1>5, <1>6 DEF Machines
<1>8. Sound(iob[s], s \in bad, flushall) /\ Working(iob[s], fds[s])
  BY <1>1 DEF OpenOK
<1>9. PICK m : m = Machine(s, e)
  OBVIOUS
<1>10. m.f = iob[s] /\ m.d = fds[s] /\ m.bad = FALSE /\ m.flushall = flushall
  BY <1>9, MachineFields
<1>11. Sound(m.f, m.bad \/ s \in bad, m.flushall)
  <2>1. PICK l, k : l = (s \in bad) /\ k = (m.bad \/ s \in bad)
    OBVIOUS
  <2>2. l \in BOOLEAN /\ k \in BOOLEAN /\ l = k
    BY <1>10, <2>1
  <2>3. Sound(m.f, k, m.flushall)
    BY <1>8, <1>10, <2>1, <2>2
  <2> QED BY <2>1, <2>3
<1>12. Fit(m, s \in bad, flushall)
  BY <1>7, <1>8, <1>9, <1>10, <1>11 DEF Fit
<1> QED BY <1>1, <1>9, <1>12

LEMMA MachineShut ==
    ASSUME StateOK, NEW s \in Slots, ~fds[s].open, NEW e \in Moods
    PROVE  ClosedOK(s) /\ Shut(Machine(s, e), flushall)
<1>1. ClosedOK(s)
  BY DEF StateOK, OpenOK, Desc
<1>2. iob[s] \in Iob /\ fds[s] = NoFd /\ flushall \in BOOLEAN
  BY <1>1 DEF StateOK, ClosedOK
<1>3. PICK t, g : t = << >> /\ g = << >>
  OBVIOUS
<1>4. t \in Seq(Nat) /\ g \in Seq(Int)
  BY <1>3, EmptySeq
<1>5. Machine(s, e) = [f |-> iob[s], d |-> NoFd, t |-> t, mood |-> e, r |-> 0, got |-> g, bad |-> FALSE,
                       flushall |-> flushall]
  BY <1>2, <1>3 DEF Machine
<1>6. Machine(s, e) \in Closeds
  BY <1>2, <1>4, <1>5 DEF Closeds
<1> QED BY <1>1, <1>6, MachineFields DEF Shut, ClosedOK

\* A step of one stream; the others only see _flushall set.
LEMMA StepOK ==
    ASSUME StateOK, NEW s \in Slots, NEW f \in Iob, NEW d, NEW w,
           iob' = [iob EXCEPT ![s] = f], fds' = [fds EXCEPT ![s] = d], dir' = [dir EXCEPT ![s] = w],
           main' = main, flushall' \in BOOLEAN, flushall => flushall', file' \in [Files -> Seq(Nat)],
           bad' \subseteq Slots, \A x \in Slots \ {s} : x \in bad' <=> x \in bad,
           \/ d \in Desc /\ Sound(f, s \in bad', flushall') /\ Working(f, d) /\ (w = "fresh" => Fresh(f, s \in bad'))
           \/ d = NoFd /\ ~f.over /\ f.flags \subseteq Modes
    PROVE  StateOK'
<1>1. iob' \in [Slots -> Iob] /\ DOMAIN fds' = Slots /\ DOMAIN dir' = Slots /\ main' \in Used
  BY DEF StateOK
<1>2. iob'[s] = f /\ fds'[s] = d /\ dir'[s] = w
  BY DEF StateOK
<1>3. \A x \in Slots \ {s} : iob'[x] = iob[x] /\ fds'[x] = fds[x] /\ dir'[x] = dir[x]
  BY DEF StateOK
<1>4. OpenOK(s)' \/ ClosedOK(s)'
  BY <1>2 DEF OpenOK, ClosedOK
<1>5. ASSUME NEW x \in Slots \ {s} PROVE OpenOK(x)' \/ ClosedOK(x)'
  <2>1. CASE OpenOK(x)
    <3>1. PICK g, l, k, a, b : g = iob[x] /\ l = (x \in bad) /\ k = (x \in bad') /\ a = flushall /\ b = flushall'
      OBVIOUS
    <3>2. l \in BOOLEAN /\ k \in BOOLEAN /\ a \in BOOLEAN /\ b \in BOOLEAN /\ (l => k) /\ (a => b) /\ l = k
      BY <3>1 DEF StateOK
    <3>3. Sound(g, l, a)
      BY <2>1, <3>1 DEF OpenOK
    <3>4. Sound(g, k, b)
      BY <3>2, <3>3, SoundLater
    <3>5. fds[x] \in Desc /\ Working(g, fds[x]) /\ (dir[x] = "fresh" => Fresh(g, k))
      BY <2>1, <3>1, <3>2 DEF OpenOK
    <3>6. OpenOK(x)'
      BY <1>3, <3>1, <3>4, <3>5 DEF OpenOK
    <3> QED BY <3>6
  <2>2. CASE ClosedOK(x)
    BY <1>3, <2>2 DEF ClosedOK
  <2> QED BY <2>1, <2>2 DEF StateOK
<1>6. \A x \in Slots : OpenOK(x)' \/ ClosedOK(x)'
  BY <1>4, <1>5
<1> QED BY <1>1, <1>6 DEF StateOK

\* A call on an open stream.
LEMMA OnOK ==
    ASSUME StateOK, NEW c, c.s \in Slots, OpenOK(c.s), NEW m, Done(m, c.s \in bad, flushall), NEW d, On(c, m, d),
           d = "fresh" => m.f.mem = << >> /\ m.f.rp = 0 /\ ~m.bad /\ c.s \notin bad
    PROVE  StateOK'
<1>1. PICK s : s = c.s
  OBVIOUS
<1>2. /\ iob' = [iob EXCEPT ![s] = m.f] /\ fds' = [fds EXCEPT ![s] = m.d] /\ dir' = [dir EXCEPT ![s] = d]
      /\ main' = main /\ flushall' = m.flushall
  BY <1>1 DEF On, Commit
<1>3. fds[s].open /\ fds[s].file \in Files
  BY <1>1 DEF OpenOK, Desc
<1>4. file' = [file EXCEPT ![fds[s].file] = m.t] /\ bad' = bad \cup (IF m.bad THEN {s} ELSE {})
  BY <1>1, <1>3 DEF On
<1>5. file' \in [Files -> Seq(Nat)]
  BY <1>3, <1>4 DEF StateOK, Done
<1>6. bad' \subseteq Slots /\ \A x \in Slots \ {s} : x \in bad' <=> x \in bad
  BY <1>1, <1>4 DEF StateOK
<1>7. (s \in bad') <=> (m.bad \/ s \in bad)
  BY <1>1, <1>4
<1>8. m.f \in Iob /\ m.d \in Desc /\ flushall' \in BOOLEAN /\ (flushall => flushall') /\ Working(m.f, m.d)
  BY <1>2 DEF Done
<1>9. Sound(m.f, s \in bad', flushall')
  <2>1. PICK l, k : l = (m.bad \/ s \in bad) /\ k = (s \in bad')
    OBVIOUS
  <2>2. l \in BOOLEAN /\ k \in BOOLEAN /\ (l => k)
    BY <1>7, <2>1
  <2>3. Sound(m.f, l, flushall')
    BY <1>1, <1>2, <2>1 DEF Done
  <2>4. Sound(m.f, k, flushall')
    BY <1>8, <2>2, <2>3, SoundLater
  <2> QED BY <2>1, <2>4
<1>10. d = "fresh" => Fresh(m.f, s \in bad')
  BY <1>1, <1>7 DEF Fresh
<1>11. s \in Slots
  BY <1>1
<1> HIDE DEF On
<1> QED BY <1>2, <1>5, <1>6, <1>8, <1>9, <1>10, <1>11, StepOK

-----------------------------------------------------------------------------
(* The steps.                                                              *)

\* The program clears no error of a stream on which the system failed, and
\* keeps to what fseek() of this library can do.
Careful == Deviations \cap {"retry", "seekread", "seekfull"} = {}

LEMMA FileRecord ==
    ASSUME NEW fl \in SUBSET Flags, NEW b \in {"NULL", "unbuf"}, NEW l \in Nat, NEW f, f = FILE(fl, b, l)
    PROVE  f \in Iob /\ ~f.over /\ f.mem = << >> /\ f.rp = 0 /\ f.flags = fl /\ f.buf = b /\ f.len = l
<1>1. PICK e : e = << >>
  OBVIOUS
<1>2. e \in Seq(Nat)
  BY <1>1, EmptySeq
<1>3. f = [flags |-> fl, buf |-> b, mem |-> e, rp |-> 0, lp |-> 0, len |-> l, over |-> FALSE]
  BY <1>1 DEF FILE
<1> QED BY <1>1, <1>2, <1>3 DEF Iob

\* The streams a program starts with.
Flags0(s) == IF s = 0 THEN {"READ"} ELSE IF s = 1 THEN {"WRITE", "LBF"} ELSE IF s = 2 THEN {"WRITE", "NBF"} ELSE {}
Buf0(s) == IF s = 2 THEN "unbuf" ELSE "NULL"
Len0(s) == IF s = 2 THEN 1 ELSE 0

LEMMA InitStream ==
    ASSUME Init, NEW s \in Slots, NEW f, f = iob[s]
    PROVE  f \in Iob /\ ~f.over /\ f.mem = << >> /\ f.rp = 0 /\ f.flags = Flags0(s) /\ f.buf = Buf0(s) /\ f.len = Len0(s)
<1>1. Flags0(s) \in SUBSET Flags /\ Buf0(s) \in {"NULL", "unbuf"} /\ Len0(s) \in Nat
  BY DEF Flags, Dirs, Modes, Flags0, Buf0, Len0
<1>2. iob[s] = CASE s = 0 -> FILE({"READ"}, "NULL", 0) [] s = 1 -> FILE({"WRITE", "LBF"}, "NULL", 0)
                 [] s = 2 -> FILE({"WRITE", "NBF"}, "unbuf", 1) [] OTHER -> FILE({}, "NULL", 0)
  BY DEF Init, iob0
<1>3. FOPEN_MAX \in Nat /\ s \in Int
  BY SizeAssumption DEF Slots
<1>4. f = FILE(Flags0(s), Buf0(s), Len0(s))
  <2>1. CASE s = 0
    BY <1>2, <2>1 DEF Flags0, Buf0, Len0
  <2>2. CASE s = 1
    BY <1>2, <2>2 DEF Flags0, Buf0, Len0
  <2>3. CASE s = 2
    BY <1>2, <2>3 DEF Flags0, Buf0, Len0
  <2>4. CASE s \notin {0, 1, 2}
    BY <1>2, <1>3, <2>4 DEF Flags0, Buf0, Len0
  <2> QED BY <2>1, <2>2, <2>3, <2>4
<1>5. PICK fl, b, l : fl = Flags0(s) /\ b = Buf0(s) /\ l = Len0(s)
  OBVIOUS
<1>6. fl \in SUBSET Flags /\ b \in {"NULL", "unbuf"} /\ l \in Nat /\ f = FILE(fl, b, l)
  BY <1>1, <1>4, <1>5
<1>7. f \in Iob /\ ~f.over /\ f.mem = << >> /\ f.rp = 0 /\ f.flags = fl /\ f.buf = b /\ f.len = l
  BY <1>6, FileRecord
<1> QED BY <1>5, <1>7

LEMMA InitOK == Init => StateOK
<1> SUFFICES ASSUME Init PROVE StateOK
  OBVIOUS
<1>1. FOPEN_MAX \in Nat /\ FOPEN_MAX > 2
  BY SizeAssumption
<1>2. Len(<< >>) = 0
  BY EmptySeq
<1>3. ASSUME NEW s \in Slots PROVE iob[s] \in Iob
  <2>1. PICK f : f = iob[s]
    OBVIOUS
  <2>2. f \in Iob
    BY <2>1, InitStream
  <2> QED BY <2>1, <2>2
<1>4. iob \in [Slots -> Iob]
  BY <1>3 DEF Init, iob0
<1>5. file \in [Files -> Seq(Nat)]
  BY TextAssumption DEF Init
<1>6. \A s \in Slots : fds[s] = CASE s = 0 -> Fd(StdFile[0], {"in"}) [] s \in 1 .. 2 -> Fd(StdFile[s], {"out"}) [] OTHER -> NoFd
  BY DEF Init
<1>7. bad = {} /\ flushall = FALSE /\ DOMAIN fds = Slots /\ DOMAIN dir = Slots /\ main \in Used
  BY DEF Init
<1>8. ASSUME NEW s \in Slots PROVE OpenOK(s) \/ ClosedOK(s)
  <2>1. s \in Int
    BY <1>1 DEF Slots
  <2>2. PICK f, fl, b, l : f = iob[s] /\ fl = Flags0(s) /\ b = Buf0(s) /\ l = Len0(s)
    OBVIOUS
  <2>3. f \in Iob /\ ~f.over /\ f.mem = << >> /\ f.rp = 0 /\ f.flags = fl /\ f.buf = b /\ f.len = l
    <3>1. f \in Iob /\ ~f.over /\ f.mem = << >> /\ f.rp = 0 /\ f.flags = Flags0(s) /\ f.buf = Buf0(s) /\ f.len = Len0(s)
      BY <2>2, InitStream
    <3> QED BY <2>2, <3>1
  <2>4. CASE s \in {0, 1, 2}
    <3>1. s \in 0 .. 2 /\ StdFile[s] \in Files
      BY <2>4, FileAssumption
    <3>2. PICK a : a = IF s = 0 THEN {"in"} ELSE {"out"}
      OBVIOUS
    <3>3. fds[s] = Fd(StdFile[s], a)
      <4>1. CASE s = 0
        BY <1>6, <3>2, <4>1
      <4>2. CASE s # 0
        <5>1. s \in 1 .. 2
          BY <2>1, <2>4, <4>2
        <5> QED BY <1>6, <3>2, <4>2, <5>1
      <4> QED BY <4>1, <4>2
    <3>4. fds[s] \in Desc
      <4>1. fds[s] = [open |-> TRUE, file |-> StdFile[s], off |-> 0, acc |-> a]
        BY <3>3 DEF Fd
      <4>2. a \in SUBSET {"in", "out", "app"}
        BY <3>2
      <4> QED BY <3>1, <4>1, <4>2 DEF Desc
    <3>5. fl \cap Dirs # {} /\ "RW" \notin fl /\ ("LBF" \in fl => b = "NULL")
      BY <2>2, <2>4 DEF Dirs, Flags0, Buf0
    <3>6. Sound(f, FALSE, FALSE)
      BY <1>2, <2>2, <2>3, <3>5 DEF Sound, Reading, Loose, Buf0, Len0
    <3>7. Working(f, fds[s])
      BY <2>3, <3>5 DEF Working
    <3>8. Sound(iob[s], s \in bad, flushall) /\ Fresh(iob[s], s \in bad)
      <4>1. PICK k : k = (s \in bad)
        OBVIOUS
      <4>2. k \in BOOLEAN /\ (FALSE => k)
        BY <4>1
      <4>3. Sound(f, k, flushall)
        BY <1>7, <3>6, <4>2, SoundLater
      <4>4. Sound(iob[s], s \in bad, flushall)
        BY <2>2, <4>1, <4>3
      <4>5. s \notin bad
        BY <1>7
      <4> QED BY <2>2, <2>3, <4>4, <4>5 DEF Fresh
    <3> QED BY <2>2, <3>4, <3>7, <3>8 DEF OpenOK
  <2>5. CASE s \notin {0, 1, 2}
    <3>1. fds[s] = NoFd
      BY <1>6, <2>1, <2>5
    <3>2. iob[s].flags = {}
      BY <2>2, <2>3, <2>5 DEF Flags0
    <3> QED BY <2>2, <2>3, <3>1, <3>2 DEF ClosedOK
  <2> QED BY <2>4, <2>5
<1> QED BY <1>4, <1>5, <1>7, <1>8 DEF StateOK

LEMMA AbleMain ==
    ASSUME StateOK, NEW s, NEW e, Able(s, e)
    PROVE  s \in Slots
  BY CallAssumption DEF Able, StateOK

\* The program calls a function with a stream that is open.
Ready(m, s, e, b, fa) == m = Machine(s, e) /\ b = (s \in bad) /\ fa = flushall

LEMMA ReadyFit ==
    ASSUME StateOK, NEW s, NEW e \in Moods, Able(s, e), fds[s].open, NEW m, NEW b, NEW fa, Ready(m, s, e, b, fa)
    PROVE  /\ s \in Slots /\ OpenOK(s) /\ b \in BOOLEAN /\ fa \in BOOLEAN /\ (b <=> s \in bad) /\ fa = flushall
           /\ Fit(m, b, fa) /\ m.f = iob[s] /\ m.d = fds[s] /\ m.flushall = fa /\ ~m.bad
<1>1. s \in Slots /\ (b <=> s \in bad) /\ b \in BOOLEAN /\ fa = flushall /\ fa \in BOOLEAN
  <2>1. s \in Slots
    BY AbleMain
  <2>2. b = (s \in bad) /\ fa = flushall
    BY DEF Ready
  <2>3. b \in BOOLEAN
    BY <2>2
  <2>4. b <=> s \in bad
    BY <2>2, Zenon
  <2>5. fa \in BOOLEAN
    BY <2>2 DEF StateOK
  <2> QED BY <2>1, <2>2, <2>3, <2>4, <2>5
<1>2. OpenOK(s) /\ Fit(Machine(s, e), s \in bad, flushall)
  BY <1>1, MachineOpen
<1>3. Fit(m, b, fa) /\ m.f = iob[s] /\ m.d = fds[s] /\ m.flushall = fa /\ ~m.bad
  BY <1>2, MachineFields DEF Ready
<1> QED BY <1>1, <1>2, <1>3

LEMMA DoneOK ==
    ASSUME StateOK, NEW c, NEW e \in Moods, Able(c.s, e), fds[c.s].open, NEW m, NEW b, NEW fa, Ready(m, c.s, e, b, fa),
           NEW n, Done(n, b, fa), NEW d, On(c, n, d), d = "fresh" => Quiet(n) /\ ~b
    PROVE  StateOK'
<1>1. c.s \in Slots /\ OpenOK(c.s) /\ (b <=> c.s \in bad)
  BY ReadyFit
<1>2. Done(n, c.s \in bad, flushall)
  BY DEF Ready
<1>3. d = "fresh" => n.f.mem = << >> /\ n.f.rp = 0 /\ ~n.bad /\ c.s \notin bad
  BY <1>1 DEF Quiet
<1> HIDE DEF On, Done
<1> QED BY <1>1, <1>2, <1>3, OnOK

\* What is left as it was stays fresh if it was.
Keeps(d, n, b) == d = "fresh" => Quiet(n) /\ ~b

LEMMA KeepOK ==
    ASSUME StateOK, NEW c, NEW e \in Moods, Able(c.s, e), fds[c.s].open, NEW m, NEW b, NEW fa, Ready(m, c.s, e, b, fa),
           NEW n, Done(n, b, fa), NEW d, On(c, n, d), Keeps(d, n, b)
    PROVE  StateOK'
<1>1. c.s \in Slots /\ OpenOK(c.s) /\ (b <=> c.s \in bad)
  BY ReadyFit
<1>2. Done(n, c.s \in bad, flushall)
  BY DEF Ready
<1>3. d = "fresh" => n.f.mem = << >> /\ n.f.rp = 0 /\ ~n.bad /\ c.s \notin bad
  BY <1>1 DEF Keeps, Quiet
<1> HIDE DEF On, Done
<1> QED BY <1>1, <1>2, <1>3, OnOK

LEMMA MoodsAll == ReadMoods \subseteq Moods /\ WriteMoods \subseteq Moods /\ FlushMoods \subseteq Moods /\ "well" \in Moods
  BY DEF Moods, ReadMoods, WriteMoods, FlushMoods

\* Reading.
LEMMA ReadReady ==
    ASSUME StateOK, NEW s, NEW e \in Moods, Able(s, e), MayRead(s), NEW m, NEW b, NEW fa, Ready(m, s, e, b, fa)
    PROVE  fds[s].open /\ b \in BOOLEAN /\ fa \in BOOLEAN /\ Fit(m, b, fa) /\ "ERR" \notin m.f.flags
<1>1. fds[s].open /\ ~Is("ERR", s)
  BY DEF MayRead
<1>2. b \in BOOLEAN /\ fa \in BOOLEAN /\ Fit(m, b, fa) /\ m.f = iob[s]
  BY <1>1, ReadyFit
<1> QED BY <1>1, <1>2 DEF Is

LEMMA GetcOK ==
    ASSUME StateOK, NEW c, NEW e \in Moods, Getc(c, e)
    PROVE  StateOK'
<1>1. Able(c.s, e) /\ MayRead(c.s) /\ On(c, getc(Machine(c.s, e)), "in")
  BY DEF Getc
<1>2. PICK m, b, fa : Ready(m, c.s, e, b, fa)
  BY DEF Ready
<1>3. fds[c.s].open /\ b \in BOOLEAN /\ fa \in BOOLEAN /\ Fit(m, b, fa) /\ "ERR" \notin m.f.flags
  BY <1>1, <1>2, ReadReady
<1>4. PICK n : n = getc(m)
  OBVIOUS
<1>5. Done(n, b, fa)
  BY <1>3, <1>4, getcFit, FitDone
<1>6. On(c, n, "in")
  BY <1>1, <1>2, <1>4 DEF Ready
<1> QED BY <1>1, <1>2, <1>3, <1>5, <1>6, DoneOK

LEMMA FgetsOK ==
    ASSUME StateOK, NEW c, NEW e \in Moods, Fgets(c, e), c.n \in Nat \ {0}
    PROVE  StateOK'
<1>1. Able(c.s, e) /\ MayRead(c.s) /\ On(c, fgets(Machine(c.s, e), c.n), "in")
  BY DEF Fgets
<1>2. PICK m, b, fa : Ready(m, c.s, e, b, fa)
  BY DEF Ready
<1>3. fds[c.s].open /\ b \in BOOLEAN /\ fa \in BOOLEAN /\ Fit(m, b, fa) /\ "ERR" \notin m.f.flags
  BY <1>1, <1>2, ReadReady
<1>4. PICK n, k : n = fgets(m, k) /\ k = c.n
  OBVIOUS
<1>5. Done(n, b, fa)
  BY <1>3, <1>4, fgetsDone
<1>6. On(c, n, "in")
  BY <1>1, <1>2, <1>4 DEF Ready
<1> QED BY <1>1, <1>2, <1>3, <1>5, <1>6, DoneOK

LEMMA GetsOK ==
    ASSUME StateOK, NEW c, NEW e \in Moods, Gets(c, e), c.s = 0
    PROVE  StateOK'
<1>1. Able(c.s, e) /\ MayRead(c.s) /\ On(c, gets(Machine(c.s, e)), "in")
  BY DEF Gets
<1>2. PICK m, b, fa : Ready(m, c.s, e, b, fa)
  BY DEF Ready
<1>3. fds[c.s].open /\ b \in BOOLEAN /\ fa \in BOOLEAN /\ Fit(m, b, fa) /\ "ERR" \notin m.f.flags
  BY <1>1, <1>2, ReadReady
<1>4. PICK n : n = gets(m)
  OBVIOUS
<1>5. Done(n, b, fa)
  BY <1>3, <1>4, getsDone
<1>6. On(c, n, "in")
  BY <1>1, <1>2, <1>4 DEF Ready
<1> QED BY <1>1, <1>2, <1>3, <1>5, <1>6, DoneOK

LEMMA FreadOK ==
    ASSUME StateOK, NEW c, NEW e \in Moods, Fread(c, e), c.n \in Nat \ {0}, c.size \in Nat \ {0}
    PROVE  StateOK'
<1>1. Able(c.s, e) /\ MayRead(c.s) /\ On(c, fread(Machine(c.s, e), c.size, c.n), "in")
  BY DEF Fread
<1>2. PICK m, b, fa : Ready(m, c.s, e, b, fa)
  BY DEF Ready
<1>3. fds[c.s].open /\ b \in BOOLEAN /\ fa \in BOOLEAN /\ Fit(m, b, fa) /\ "ERR" \notin m.f.flags
  BY <1>1, <1>2, ReadReady
<1>4. PICK n, size, k : n = fread(m, size, k) /\ size = c.size /\ k = c.n
  OBVIOUS
<1>5. Done(n, b, fa)
  BY <1>3, <1>4, freadDone
<1>6. On(c, n, "in")
  BY <1>1, <1>2, <1>4 DEF Ready
<1> QED BY <1>1, <1>2, <1>3, <1>5, <1>6, DoneOK

\* Writing.
LEMMA PutcOK ==
    ASSUME StateOK, NEW c, NEW e \in Moods, Putc(c, e), c.bytes \in Seq(Nat), c.bytes # << >>
    PROVE  StateOK'
<1>1. Able(c.s, e) /\ MayWrite(c.s, c.bytes) /\ On(c, putc(Machine(c.s, e), c.bytes[1]), "out")
  BY DEF Putc
<1>2. PICK m, b, fa : Ready(m, c.s, e, b, fa)
  BY DEF Ready
<1>3. fds[c.s].open
  BY <1>1 DEF MayWrite
<1>4. b \in BOOLEAN /\ fa \in BOOLEAN /\ Fit(m, b, fa)
  BY <1>1, <1>2, <1>3, ReadyFit
<1>5. PICK n, ch : n = putc(m, ch) /\ ch = c.bytes[1]
  OBVIOUS
<1>6. ch \in Nat
  <2>1. Len(c.bytes) \in Nat /\ Len(c.bytes) # 0 /\ c.bytes \in [1 .. Len(c.bytes) -> Nat]
    BY EmptySeq, LenProperties
  <2> QED BY <1>5, <2>1
<1>7. Done(n, b, fa)
  BY <1>4, <1>5, <1>6, putcFit, FitDone
<1>8. On(c, n, "out")
  BY <1>1, <1>2, <1>5 DEF Ready
<1> QED BY <1>1, <1>2, <1>3, <1>7, <1>8, DoneOK

LEMMA FputsOK ==
    ASSUME StateOK, NEW c, NEW e \in Moods, Fputs(c, e), c.bytes \in Seq(Nat)
    PROVE  StateOK'
<1>1. Able(c.s, e) /\ MayWrite(c.s, c.bytes) /\ On(c, fputs(Machine(c.s, e), c.bytes), "out")
  BY DEF Fputs
<1>2. PICK m, b, fa : Ready(m, c.s, e, b, fa)
  BY DEF Ready
<1>3. fds[c.s].open
  BY <1>1 DEF MayWrite
<1>4. b \in BOOLEAN /\ fa \in BOOLEAN /\ Fit(m, b, fa)
  BY <1>1, <1>2, <1>3, ReadyFit
<1>5. PICK n, bs : n = fputs(m, bs) /\ bs = c.bytes
  OBVIOUS
<1>6. n \in Fitting(b, fa)
  BY <1>4, <1>5, fputsFit
<1>7. Done(n, b, fa)
  BY <1>6, FitDone DEF Fitting
<1>8. On(c, n, "out")
  BY <1>1, <1>2, <1>5 DEF Ready
<1> QED BY <1>1, <1>2, <1>3, <1>7, <1>8, DoneOK

LEMMA PutsOK ==
    ASSUME StateOK, NEW c, NEW e \in Moods, Puts(c, e), c.bytes \in Seq(Nat), c.s = 1
    PROVE  StateOK'
<1>1. Able(c.s, e) /\ MayWrite(c.s, c.bytes \o <<NL>>) /\ On(c, puts(Machine(c.s, e), c.bytes), "out")
  BY DEF Puts
<1>2. PICK m, b, fa : Ready(m, c.s, e, b, fa)
  BY DEF Ready
<1>3. fds[c.s].open
  BY <1>1 DEF MayWrite
<1>4. b \in BOOLEAN /\ fa \in BOOLEAN /\ Fit(m, b, fa)
  BY <1>1, <1>2, <1>3, ReadyFit
<1>5. PICK n, bs : n = puts(m, bs) /\ bs = c.bytes
  OBVIOUS
<1>6. Done(n, b, fa)
  BY <1>4, <1>5, putsDone
<1>7. On(c, n, "out")
  BY <1>1, <1>2, <1>5 DEF Ready
<1> QED BY <1>1, <1>2, <1>3, <1>6, <1>7, DoneOK

LEMMA FwriteOK ==
    ASSUME StateOK, NEW c, NEW e \in Moods, Fwrite(c, e), c.bytes \in Seq(Nat), c.size \in Nat \ {0}
    PROVE  StateOK'
<1>1. Able(c.s, e) /\ MayWrite(c.s, c.bytes) /\ On(c, fwrite(Machine(c.s, e), c.bytes, c.size), "out")
  BY DEF Fwrite
<1>2. PICK m, b, fa : Ready(m, c.s, e, b, fa)
  BY DEF Ready
<1>3. fds[c.s].open
  BY <1>1 DEF MayWrite
<1>4. b \in BOOLEAN /\ fa \in BOOLEAN /\ Fit(m, b, fa)
  BY <1>1, <1>2, <1>3, ReadyFit
<1>5. PICK n, bs, size : n = fwrite(m, bs, size) /\ bs = c.bytes /\ size = c.size
  OBVIOUS
<1>6. n \in Fitting(b, fa)
  BY <1>4, <1>5, fwriteFit
<1>7. Done(n, b, fa)
  BY <1>6, FitDone DEF Fitting
<1>8. On(c, n, "out")
  BY <1>1, <1>2, <1>5 DEF Ready
<1> QED BY <1>1, <1>2, <1>3, <1>7, <1>8, DoneOK

\* A byte is never pushed back: while some of the buffer is read, wp is not 0.
LEMMA UngetcOK ==
    ASSUME StateOK, NEW c, Ungetc(c)
    PROVE  StateOK'
<1>1. PICK e : e = "well"
  OBVIOUS
<1>2. e \in Moods
  BY <1>1, MoodsAll
<1>3. /\ Able(c.s, e) /\ fds[c.s].open /\ iob[c.s].rp \in 1 .. Len(Bytes(c.s))
      /\ On(c, ungetc(Machine(c.s, e), Bytes(c.s)[iob[c.s].rp]), "in")
  BY <1>1 DEF Ungetc
<1>4. PICK m, b, fa : Ready(m, c.s, e, b, fa)
  BY DEF Ready
<1>5. b \in BOOLEAN /\ fa \in BOOLEAN /\ Fit(m, b, fa) /\ m.f = iob[c.s]
  BY <1>2, <1>3, <1>4, ReadyFit
<1>6. PICK n, ch, r : n = ungetc(m, ch) /\ ch = Bytes(c.s)[iob[c.s].rp] /\ r = EOF
  OBVIOUS
<1>7. wp(m) # 0
  <2>1. m.f.mem \in Seq(Nat) /\ m.f.rp \in Nat
    BY <1>5, Fields DEF Fit
  <2>2. Len(m.f.mem) \in Nat
    BY <2>1, LenProperties
  <2> QED BY <1>3, <1>5, <2>1, <2>2 DEF wp, Bytes
<1>8. n = [m EXCEPT !.r = r] /\ r \in Int
  BY <1>6, <1>7 DEF ungetc, EOF
<1>9. n \in Fitting(b, fa)
  BY <1>5, <1>8, FitR
<1>10. Done(n, b, fa)
  BY <1>9, FitDone DEF Fitting
<1>11. On(c, n, "in")
  BY <1>3, <1>4, <1>6 DEF Ready
<1> QED BY <1>2, <1>3, <1>4, <1>10, <1>11, DoneOK

LEMMA FtellOK ==
    ASSUME StateOK, NEW c, Ftell(c)
    PROVE  StateOK'
<1>1. PICK e, d : e = "well" /\ d = dir[c.s]
  OBVIOUS
<1>2. e \in Moods
  BY <1>1, MoodsAll
<1>3. Able(c.s, e) /\ fds[c.s].open /\ On(c, ftell(Machine(c.s, e)), d)
  BY <1>1 DEF Ftell, MayTell
<1>4. PICK m, b, fa : Ready(m, c.s, e, b, fa)
  BY DEF Ready
<1>5. OpenOK(c.s) /\ b \in BOOLEAN /\ fa \in BOOLEAN /\ Fit(m, b, fa) /\ m.f = iob[c.s] /\ ~m.bad /\ (b <=> c.s \in bad)
  BY <1>2, <1>3, <1>4, ReadyFit
<1>6. PICK n : n = ftell(m)
  OBVIOUS
<1>7. Fit(n, b, fa) /\ (Quiet(m) => Quiet(n))
  BY <1>5, <1>6, ftellFit
<1>8. d = "fresh" => Quiet(m) /\ ~b
  BY <1>1, <1>5 DEF OpenOK, Fresh, Quiet
<1>9. On(c, n, d) /\ Done(n, b, fa)
  BY <1>3, <1>4, <1>6, <1>7, FitDone DEF Ready
<1>10. Keeps(d, n, b)
  BY <1>7, <1>8 DEF Keeps
<1> QED BY <1>2, <1>3, <1>4, <1>9, <1>10, KeepOK

\* Where a careful program seeks.
LEMMA CarefulSeek ==
    ASSUME Careful, NEW s, MaySeek(s), OpenOK(s), iob[s] \in Iob
    PROVE  Seekable(iob[s])
<1>1. "seekread" \notin Deviations /\ "seekfull" \notin Deviations
  BY DEF Careful
<1>2. "RW" \in iob[s].flags => Both(s)
  BY DEF OpenOK, Working, Both
<1>3. Reading(iob[s]) => iob[s].rp = Len(iob[s].mem) /\ (Both(s) => iob[s].rp = 0)
  BY <1>1 DEF MaySeek, Is, Bytes, Reading
<1>4. ~Reading(iob[s]) /\ Both(s) => ~(iob[s].rp > 0)
  BY <1>1 DEF MaySeek, Is, Reading
<1>5. iob[s].rp \in Nat
  BY DEF Iob
<1> QED BY <1>2, <1>3, <1>4, <1>5 DEF Seekable

LEMMA FreshQuiet ==
    ASSUME StateOK, NEW s, NEW e \in Moods, Able(s, e), fds[s].open, dir[s] = "fresh",
           NEW m, NEW b, NEW fa, Ready(m, s, e, b, fa)
    PROVE  Quiet(m) /\ ~b
<1>1. OpenOK(s) /\ m.f = iob[s] /\ ~m.bad /\ (b <=> s \in bad)
  BY ReadyFit
<1> QED BY <1>1 DEF OpenOK, Fresh, Quiet

LEMMA FseekOK ==
    ASSUME Careful, StateOK, NEW c, NEW e \in Moods, Fseek(c, e), c.off \in Int
    PROVE  StateOK'
<1>1. Able(c.s, e) /\ MaySeek(c.s) /\ fds[c.s].open
  BY DEF Fseek, MaySeek
<1>2. PICK m, b, fa : Ready(m, c.s, e, b, fa)
  BY DEF Ready
<1>3. c.s \in Slots /\ OpenOK(c.s) /\ b \in BOOLEAN /\ fa \in BOOLEAN /\ Fit(m, b, fa) /\ m.f = iob[c.s]
  BY <1>1, <1>2, ReadyFit
<1>4. PICK n, off, wh : n = fseek(m, off, wh) /\ off = c.off /\ wh = c.whence
  OBVIOUS
<1>5. Seekable(m.f)
  BY <1>1, <1>3, CarefulSeek DEF StateOK
<1>6. Fit(n, b, fa) /\ (Quiet(m) => Quiet(n))
  BY <1>3, <1>4, <1>5, fseekFit
<1>7. PICK d : d = IF n.r = 0 THEN "none" ELSE dir[c.s]
  OBVIOUS
<1>8. On(c, n, d) /\ Done(n, b, fa)
  BY <1>2, <1>4, <1>6, <1>7, FitDone DEF Ready, Fseek
<1>9. Keeps(d, n, b)
  <2>1. d = "fresh" => dir[c.s] = "fresh"
    BY <1>7
  <2>2. dir[c.s] = "fresh" => Quiet(m) /\ ~b
    BY <1>1, <1>2, FreshQuiet
  <2> QED BY <1>6, <2>1, <2>2 DEF Keeps
<1> QED BY <1>1, <1>2, <1>8, <1>9, KeepOK

LEMMA RewindOK ==
    ASSUME Careful, StateOK, NEW c, NEW e \in Moods, Rewind(c, e)
    PROVE  StateOK'
<1>1. Able(c.s, e) /\ MaySeek(c.s) /\ MayClear(c.s) /\ fds[c.s].open /\ On(c, rewind(Machine(c.s, e)), "none")
  BY DEF Rewind, MaySeek
<1>2. PICK m, b, fa : Ready(m, c.s, e, b, fa)
  BY DEF Ready
<1>3. /\ c.s \in Slots /\ OpenOK(c.s) /\ b \in BOOLEAN /\ fa \in BOOLEAN /\ Fit(m, b, fa) /\ m.f = iob[c.s]
      /\ (b <=> c.s \in bad) /\ ~m.bad
  BY <1>1, <1>2, ReadyFit
<1>4. PICK n : n = rewind(m)
  OBVIOUS
<1>5. Seekable(m.f)
  BY <1>1, <1>3, CarefulSeek DEF StateOK
<1>6. ~b
  BY <1>1, <1>3 DEF MayClear, Careful
<1>7. Fit(n, b, fa)
  BY <1>3, <1>4, <1>5, <1>6, rewindFit
<1>8. On(c, n, "none") /\ Done(n, b, fa)
  BY <1>1, <1>2, <1>4, <1>7, FitDone DEF Ready
<1> QED BY <1>1, <1>2, <1>8, DoneOK

LEMMA ClearerrOK ==
    ASSUME Careful, StateOK, NEW c, Clearerr(c)
    PROVE  StateOK'
<1>1. PICK e, d : e = "well" /\ d = dir[c.s]
  OBVIOUS
<1>2. e \in Moods
  BY <1>1, MoodsAll
<1>3. Able(c.s, e) /\ MayClear(c.s) /\ fds[c.s].open /\ On(c, clearerr(Machine(c.s, e)), d)
  BY <1>1 DEF Clearerr, MayClear
<1>4. PICK m, b, fa : Ready(m, c.s, e, b, fa)
  BY DEF Ready
<1>5. /\ b \in BOOLEAN /\ fa \in BOOLEAN /\ Fit(m, b, fa) /\ (b <=> c.s \in bad) /\ ~m.bad
  BY <1>2, <1>3, <1>4, ReadyFit
<1>6. PICK n : n = clearerr(m)
  OBVIOUS
<1>7. ~b
  BY <1>3, <1>5 DEF MayClear, Careful
<1>8. Fit(n, b, fa) /\ (Quiet(m) => Quiet(n))
  BY <1>5, <1>6, <1>7, clearerrFit
<1>9. On(c, n, d) /\ Done(n, b, fa)
  BY <1>3, <1>4, <1>6, <1>8, FitDone DEF Ready
<1>10. Keeps(d, n, b)
  <2>1. dir[c.s] = "fresh" => Quiet(m)
    BY <1>2, <1>3, <1>4, FreshQuiet
  <2> QED BY <1>1, <1>7, <1>8, <2>1 DEF Keeps
<1> QED BY <1>2, <1>3, <1>4, <1>9, <1>10, KeepOK

LEMMA FflushOK ==
    ASSUME StateOK, NEW c, NEW e \in Moods, Fflush(c, e)
    PROVE  StateOK'
<1>1. Able(c.s, e) /\ fds[c.s].open /\ On(c, _flsbuf(Machine(c.s, e)), "none")
  BY DEF Fflush
<1>2. PICK m, b, fa : Ready(m, c.s, e, b, fa)
  BY DEF Ready
<1>3. b \in BOOLEAN /\ fa \in BOOLEAN /\ Fit(m, b, fa)
  BY <1>1, <1>2, ReadyFit
<1>4. PICK n : n = _flsbuf(m)
  OBVIOUS
<1>5. Fit(n, b, fa)
  BY <1>3, <1>4, FlushFit
<1>6. On(c, n, "none") /\ Done(n, b, fa)
  BY <1>1, <1>2, <1>4, <1>5, FitDone DEF Ready
<1> QED BY <1>1, <1>2, <1>6, DoneOK

LEMMA SetvbufOK ==
    ASSUME StateOK, NEW c, NEW e \in Moods, Setvbuf(c, e), c.len \in Nat
    PROVE  StateOK'
<1>1. Able(c.s, e) /\ fds[c.s].open /\ dir[c.s] = "fresh" /\ On(c, setvbuf(Machine(c.s, e), c.len, c.mode), "fresh")
  BY DEF Setvbuf
<1>2. PICK m, b, fa : Ready(m, c.s, e, b, fa)
  BY DEF Ready
<1>3. b \in BOOLEAN /\ fa \in BOOLEAN /\ Fit(m, b, fa)
  BY <1>1, <1>2, ReadyFit
<1>4. Quiet(m) /\ ~b
  BY <1>1, <1>2, FreshQuiet
<1>5. PICK n, len, mode : n = setvbuf(m, len, mode) /\ len = c.len /\ mode = c.mode
  OBVIOUS
<1>6. Fit(n, b, fa) /\ Quiet(n)
  BY <1>3, <1>4, <1>5, setvbufFit
<1>7. On(c, n, "fresh") /\ Done(n, b, fa)
  BY <1>1, <1>2, <1>5, <1>6, FitDone DEF Ready
<1>8. Keeps("fresh", n, b)
  BY <1>4, <1>6 DEF Keeps
<1> QED BY <1>1, <1>2, <1>7, <1>8, KeepOK

\* A step that closes a stream, and one that opens it.
Changes(s, n, w) ==
    /\ iob' = [iob EXCEPT ![s] = n.f] /\ fds' = [fds EXCEPT ![s] = n.d] /\ dir' = [dir EXCEPT ![s] = w]
    /\ main' = main /\ flushall' = n.flushall /\ file' \in [Files -> Seq(Nat)]
    /\ bad' \subseteq Slots /\ \A x \in Slots \ {s} : x \in bad' <=> x \in bad

LEMMA ShutOK ==
    ASSUME StateOK, NEW s \in Slots, NEW n, Shut(n, flushall), NEW w, Changes(s, n, w)
    PROVE  StateOK'
<1>1. n.f \in Iob /\ n.d = NoFd /\ ~n.f.over /\ n.f.flags \subseteq Modes /\ n.flushall = flushall
  BY ClosedFields DEF Shut
<1>2. flushall' \in BOOLEAN /\ (flushall => flushall')
  BY <1>1 DEF Changes, StateOK
<1>3. PICK f, d : f = n.f /\ d = n.d
  OBVIOUS
<1>4. /\ iob' = [iob EXCEPT ![s] = f] /\ fds' = [fds EXCEPT ![s] = d] /\ dir' = [dir EXCEPT ![s] = w]
      /\ main' = main /\ file' \in [Files -> Seq(Nat)]
      /\ bad' \subseteq Slots /\ \A x \in Slots \ {s} : x \in bad' <=> x \in bad
  BY <1>3 DEF Changes
<1>5. f \in Iob /\ d = NoFd /\ ~f.over /\ f.flags \subseteq Modes
  BY <1>1, <1>3
<1> QED BY <1>2, <1>4, <1>5, StepOK

LEMMA OpenedOK ==
    ASSUME StateOK, NEW s \in Slots, NEW n \in Machines, Sound(n.f, FALSE, flushall), Working(n.f, n.d),
           n.flushall = flushall, n.f.mem = << >>, n.f.rp = 0, NEW w, Changes(s, n, w), s \notin bad'
    PROVE  StateOK'
<1>1. n.f \in Iob /\ n.d \in Desc
  BY Fields
<1>2. flushall' = flushall /\ flushall' \in BOOLEAN /\ (flushall => flushall')
  BY DEF Changes, StateOK
<1>3. PICK f, d : f = n.f /\ d = n.d
  OBVIOUS
<1>4. /\ iob' = [iob EXCEPT ![s] = f] /\ fds' = [fds EXCEPT ![s] = d] /\ dir' = [dir EXCEPT ![s] = w]
      /\ main' = main /\ file' \in [Files -> Seq(Nat)]
      /\ bad' \subseteq Slots /\ \A x \in Slots \ {s} : x \in bad' <=> x \in bad
  BY <1>3 DEF Changes
<1>5. PICK k : k = (s \in bad')
  OBVIOUS
<1>6. k \in BOOLEAN /\ (FALSE => k)
  BY <1>5
<1>7. Sound(f, FALSE, flushall)
  BY <1>3
<1>8. flushall \in BOOLEAN
  BY DEF StateOK
<1>9. Sound(f, k, flushall)
  BY <1>6, <1>7, <1>8, SoundLater
<1>10. Sound(f, s \in bad', flushall')
  BY <1>2, <1>5, <1>9
<1>11. Fresh(f, s \in bad')
  BY <1>3 DEF Fresh
<1>12. f \in Iob /\ d \in Desc /\ Working(f, d)
  BY <1>1, <1>3
<1> HIDE DEF Changes
<1> QED BY <1>2, <1>4, <1>10, <1>11, <1>12, StepOK

LEMMA ShutT ==
    ASSUME NEW m, NEW fa \in BOOLEAN, Shut(m, fa), NEW t \in Seq(Nat), NEW n, n = [m EXCEPT !.t = t]
    PROVE  Shut(n, fa) /\ n.t = t /\ n.bad = m.bad /\ n.f = m.f /\ n.d = m.d
<1>1. m \in Closeds
  BY DEF Shut
<1>2. n.t = t /\ n.bad = m.bad /\ n.f = m.f /\ n.d = m.d /\ n.flushall = m.flushall
  BY <1>1 DEF Closeds
<1>3. n \in Closeds
  BY <1>1 DEF Closeds
<1> QED BY <1>2, <1>3 DEF Shut

LEMMA ShutR ==
    ASSUME NEW m, NEW fa \in BOOLEAN, Shut(m, fa), NEW r \in Int, NEW n, n = [m EXCEPT !.r = r]
    PROVE  Shut(n, fa) /\ n.r = r /\ n.bad = m.bad
<1>1. m \in Closeds
  BY DEF Shut
<1>2. n.r = r /\ n.bad = m.bad /\ n.f = m.f /\ n.flushall = m.flushall
  BY <1>1 DEF Closeds
<1>3. n \in Closeds
  BY <1>1 DEF Closeds
<1> QED BY <1>2, <1>3 DEF Shut

\* fclose() leaves the entry closed, also when the last bytes were not written.
LEMMA Closing ==
    ASSUME StateOK, NEW s, NEW e \in Moods, Able(s, e), NEW n, n = fclose(Machine(s, e))
    PROVE  /\ s \in Slots /\ Shut(n, flushall) /\ (n.r # EOF => ~n.bad) /\ (n.bad => fds[s].open)
           /\ (IF fds[s].open THEN [file EXCEPT ![fds[s].file] = n.t] ELSE file) \in [Files -> Seq(Nat)]
<1>1. s \in Slots
  BY AbleMain
<1>2. PICK m, b, fa : Ready(m, s, e, b, fa)
  BY DEF Ready
<1>3. n = fclose(m) /\ fa = flushall /\ fa \in BOOLEAN
  BY <1>2 DEF Ready, StateOK
<1>4. CASE fds[s].open
  <2>1. OpenOK(s) /\ b \in BOOLEAN /\ Fit(m, b, fa) /\ m.flushall = fa /\ ~m.bad
    BY <1>2, <1>4, ReadyFit
  <2>2. Shut(n, fa) /\ (n.r # EOF => ~n.bad)
    BY <1>3, <2>1, fcloseOpen
  <2>3. fds[s].file \in Files /\ n.t \in Seq(Nat)
    BY <2>1, <2>2, ClosedFields DEF OpenOK, Desc, Shut
  <2>4. [file EXCEPT ![fds[s].file] = n.t] \in [Files -> Seq(Nat)]
    BY <2>3 DEF StateOK
  <2> QED BY <1>1, <1>3, <1>4, <2>2, <2>4
<1>5. CASE ~fds[s].open
  <2>1. Shut(Machine(s, e), flushall)
    BY <1>1, <1>5, MachineShut
  <2>2. Shut(m, fa) /\ ~m.bad
    BY <1>2, <2>1, MachineFields DEF Ready
  <2>3. Shut(n, fa) /\ n.r = EOF /\ ~n.bad
    BY <1>3, <2>2, fcloseClosed
  <2> QED BY <1>1, <1>3, <1>5, <2>3 DEF StateOK
<1> QED BY <1>4, <1>5

LEMMA FcloseOK ==
    ASSUME StateOK, NEW c, NEW e \in Moods, Fclose(c, e)
    PROVE  StateOK'
<1>1. PICK n, s : n = fclose(Machine(c.s, e)) /\ s = c.s
  OBVIOUS
<1>2. Able(s, e) /\ On(c, n, "none") /\ n = fclose(Machine(s, e))
  BY <1>1 DEF Fclose
<1>3. /\ s \in Slots /\ Shut(n, flushall)
      /\ (IF fds[s].open THEN [file EXCEPT ![fds[s].file] = n.t] ELSE file) \in [Files -> Seq(Nat)]
  BY <1>2, Closing
<1>4. bad' = bad \cup (IF n.bad THEN {s} ELSE {})
  BY <1>1, <1>2 DEF On
<1>5. bad' \subseteq Slots /\ \A x \in Slots \ {s} : x \in bad' <=> x \in bad
  BY <1>3, <1>4 DEF StateOK
<1>6. Changes(s, n, "none")
  BY <1>1, <1>2, <1>3, <1>5 DEF On, Commit, Changes
<1> QED BY <1>3, <1>6, ShutOK

LEMMA LeastSlot ==
    ASSUME FreeSlots # {}
    PROVE  Min(FreeSlots) \in FreeSlots
<1>1. FreeSlots \subseteq Nat
  BY SizeAssumption DEF FreeSlots, Slots
<1>2. \E x \in FreeSlots : \A y \in FreeSlots : x <= y
  BY <1>1, Least
<1> QED BY <1>2 DEF Min

LEMMA OpensOr ==
    ASSUME NEW m, NEW fa \in BOOLEAN, Shut(m, fa), NEW f \in Files, NEW mode, NEW there, NEW n, n = _fpopen(m, f, mode, there)
    PROVE  Opens(n, m, fa) /\ n.t \in Seq(Nat) /\ n.bad = m.bad
<1>1. Opens(n, m, fa)
  BY _fpopenFacts
<1>2. n.t \in Seq(Nat)
  BY <1>1, ClosedFields, Fields DEF Opens, Shut
<1> QED BY <1>1, <1>2 DEF Opens

\* What _fpopen() makes of a closed entry.
LEMMA Opening ==
    ASSUME StateOK, NEW s \in Slots, NEW a, Shut(a, flushall), NEW f \in Files, NEW mode, NEW there,
           NEW n, n = _fpopen(a, f, mode, there), NEW w, Changes(s, n, w), n.r # NULL => s \notin bad'
    PROVE  StateOK'
<1>1. flushall \in BOOLEAN
  BY DEF StateOK
<1>2. Opens(n, a, flushall)
  BY <1>1, OpensOr
<1>3. CASE n.r = NULL /\ Shut(n, flushall)
  BY <1>3, ShutOK
<1>4. CASE /\ n.r = 0 /\ n \in Machines /\ Sound(n.f, FALSE, flushall) /\ Working(n.f, n.d) /\ n.flushall = flushall
           /\ n.f.mem = << >> /\ n.f.rp = 0
  <2>1. s \notin bad'
    BY <1>4 DEF NULL
  <2> QED BY <1>4, <2>1, OpenedOK
<1> QED BY <1>2, <1>3, <1>4 DEF Opens

LEMMA FopenOK ==
    ASSUME StateOK, NEW c, Fopen(c), c.file \in Files
    PROVE  StateOK'
<1>1. CASE FreeSlots = {}
  <2>1. PICK n : n = Machine(0, "well")
    OBVIOUS
  <2>2. Commit(c, 0, n, dir[0], NULL) /\ file' = file /\ bad' = bad
    BY <1>1, <2>1 DEF Fopen
  <2>3. n.f = iob[0] /\ n.d = fds[0] /\ n.flushall = flushall
    BY <2>1, MachineFields
  <2>4. /\ iob' = iob /\ DOMAIN fds' = Slots /\ DOMAIN dir' = Slots /\ flushall' = flushall /\ main' = main
        /\ \A s \in Slots : fds'[s] = fds[s] /\ dir'[s] = dir[s]
    <3>1. /\ iob' = [iob EXCEPT ![0] = iob[0]] /\ fds' = [fds EXCEPT ![0] = fds[0]]
          /\ dir' = [dir EXCEPT ![0] = dir[0]] /\ flushall' = flushall /\ main' = main
      BY <2>2, <2>3 DEF Commit
    <3> QED BY <3>1 DEF StateOK
  <2> QED BY <2>2, <2>4 DEF StateOK, OpenOK, ClosedOK
<1>2. CASE FreeSlots # {}
  <2>1. PICK s : s = Min(FreeSlots)
    OBVIOUS
  <2>2. s \in FreeSlots
    BY <1>2, <2>1, LeastSlot
  <2>3. s \in Slots /\ iob[s].flags \cap Dirs = {}
    BY <2>2 DEF FreeSlots
  <2>4. ~fds[s].open
    BY <2>3 DEF StateOK, OpenOK, ClosedOK, Working, NoFd
  <2>5. PICK m, a, n, there, f : /\ m = Machine(s, "well") /\ a = [m EXCEPT !.t = file[f]] /\ f = c.file
                                 /\ there = (f \in exists) /\ n = _fpopen(a, f, c.mode, there)
    OBVIOUS
  <2>6. /\ Commit(c, s, n, "fresh", IF n.r = NULL THEN NULL ELSE s)
        /\ file' = [file EXCEPT ![f] = n.t] /\ bad' = (IF n.r = NULL THEN bad ELSE bad \ {s}) /\ main = s
    BY <1>2, <2>1, <2>5 DEF Fopen
  <2>7. Shut(m, flushall) /\ flushall \in BOOLEAN
    BY <2>3, <2>4, <2>5, MoodsAll, MachineShut DEF StateOK
  <2>8. f \in Files /\ file[f] \in Seq(Nat)
    BY <2>5 DEF StateOK
  <2>9. Shut(a, flushall)
    BY <2>5, <2>7, <2>8, ShutT
  <2>10. n.t \in Seq(Nat)
    BY <2>5, <2>7, <2>8, <2>9, OpensOr
  <2>11. file' \in [Files -> Seq(Nat)]
    BY <2>6, <2>8, <2>10 DEF StateOK
  <2>12. bad' \subseteq Slots /\ \A x \in Slots \ {s} : x \in bad' <=> x \in bad
    BY <2>6 DEF StateOK
  <2>13. Changes(s, n, "fresh")
    BY <2>6, <2>11, <2>12 DEF Commit, Changes
  <2>14. n.r # NULL => s \notin bad'
    BY <2>6
  <2> QED BY <2>3, <2>5, <2>8, <2>9, <2>13, <2>14, Opening
<1> QED BY <1>1, <1>2

LEMMA FreopenOK ==
    ASSUME StateOK, NEW c, NEW e \in Moods, Freopen(c, e), c.file \in Files
    PROVE  StateOK'
<1>1. PICK s, a, f, mode, there :
        s = c.s /\ a = fclose(Machine(s, e)) /\ f = c.file /\ mode = c.mode /\ there = (f \in exists)
  OBVIOUS
<1>2. PICK closed : closed = IF fds[s].open THEN [file EXCEPT ![fds[s].file] = a.t] ELSE file
  OBVIOUS
<1>3. Able(s, e)
  BY <1>1 DEF Freopen
<1>4. s \in Slots /\ Shut(a, flushall) /\ (a.r # EOF => ~a.bad) /\ closed \in [Files -> Seq(Nat)] /\ f \in Files
  BY <1>1, <1>2, <1>3, Closing
<1>5. flushall \in BOOLEAN
  BY DEF StateOK
<1>6. PICK m : m = IF a.r = EOF THEN [a EXCEPT !.r = NULL]
                   ELSE _fpopen([a EXCEPT !.t = closed[f]], f, mode, there)
  OBVIOUS
<1>7. /\ Commit(c, s, m, "fresh", IF m.r = NULL THEN NULL ELSE s)
      /\ file' = IF a.r = EOF THEN closed ELSE [closed EXCEPT ![f] = m.t]
      /\ bad' = IF m.bad THEN bad \cup {s} ELSE bad \ {s}
  BY <1>1, <1>2, <1>6 DEF Freopen
<1>8. bad' \subseteq Slots /\ \A x \in Slots \ {s} : x \in bad' <=> x \in bad
  BY <1>4, <1>7 DEF StateOK
<1>9. CASE a.r = EOF
  <2>1. PICK r : r = NULL
    OBVIOUS
  <2>2. r \in Int /\ m = [a EXCEPT !.r = r]
    BY <1>6, <1>9, <2>1 DEF NULL
  <2>3. Shut(m, flushall)
    BY <1>4, <1>5, <2>2, ShutR
  <2>4. file' \in [Files -> Seq(Nat)]
    BY <1>4, <1>7, <1>9
  <2>5. Changes(s, m, "fresh")
    BY <1>7, <1>8, <2>4 DEF Commit, Changes
  <2> QED BY <1>4, <2>3, <2>5, ShutOK
<1>10. CASE a.r # EOF
  <2>1. PICK b, t : b = [a EXCEPT !.t = t] /\ t = closed[f]
    OBVIOUS
  <2>2. t \in Seq(Nat) /\ m = _fpopen(b, f, mode, there)
    BY <1>4, <1>6, <1>10, <2>1
  <2>3. Shut(b, flushall) /\ b.bad = a.bad /\ b.t = t
    BY <1>4, <1>5, <2>1, <2>2, ShutT
  <2>4. m.t \in Seq(Nat) /\ m.bad = b.bad
    BY <1>4, <1>5, <2>2, <2>3, OpensOr
  <2>5. file' \in [Files -> Seq(Nat)]
    BY <1>4, <1>7, <1>10, <2>4
  <2>6. Changes(s, m, "fresh")
    BY <1>7, <1>8, <2>5 DEF Commit, Changes
  <2>7. s \notin bad'
    BY <1>4, <1>7, <1>10, <2>3, <2>4
  <2> QED BY <1>4, <2>2, <2>3, <2>6, <2>7, Opening
<1> QED BY <1>9, <1>10

\* What cleanup() makes of a stream.
Cleaned(s, e) == IF flushall /\ Is("WRITE", s) THEN _flsbuf(Machine(s, e)) ELSE Machine(s, e)

\* It leaves bytes to write only where the system failed.
LEMMA CleanedOpen ==
    ASSUME StateOK, NEW s \in Slots, fds[s].open, NEW e \in Moods, NEW n, n = Cleaned(s, e),
           NEW b, b = (s \in bad)
    PROVE  /\ Fit(n, b, flushall) /\ n.flushall = flushall /\ (dir[s] = "fresh" => Quiet(n) /\ ~b)
           /\ ~n.bad /\ ~b /\ ~Reading(n.f) => n.f.mem = << >>
<1>1. PICK m, fa : m = Machine(s, e) /\ fa = flushall
  OBVIOUS
<1>2. OpenOK(s) /\ Fit(Machine(s, e), s \in bad, flushall)
  BY MachineOpen
<1>3. b \in BOOLEAN /\ fa \in BOOLEAN
  BY <1>1 DEF StateOK
<1>4. Fit(m, b, fa) /\ m.f = iob[s] /\ ~m.bad /\ m.flushall = fa
  BY <1>1, <1>2, MachineFields
<1>5. b <=> s \in bad
  BY Zenon
<1>6. dir[s] = "fresh" => Quiet(m) /\ ~b
  BY <1>2, <1>4, <1>5 DEF OpenOK, Fresh, Quiet
<1>7. m \in Machines /\ Sound(m.f, m.bad \/ b, fa)
  BY <1>4 DEF Fit
<1>8. CASE flushall /\ Is("WRITE", s)
  <2>1. n = _flsbuf(m)
    BY <1>1, <1>8 DEF Cleaned
  <2>2. Fit(n, b, fa) /\ (Quiet(m) => Quiet(n))
    BY <1>3, <1>4, <2>1, FlushFit
  <2>3. n.flushall = fa /\ (~n.bad => Reading(n.f) \/ n.f.mem = << >>)
    BY <1>4, <1>7, <2>1, FlushFacts DEF Apart
  <2> QED BY <1>1, <1>6, <2>2, <2>3
<1>9. CASE ~(flushall /\ Is("WRITE", s))
  <2>1. n = m
    BY <1>1, <1>9 DEF Cleaned
  <2>2. ~("WRITE" \in m.f.flags /\ fa)
    BY <1>1, <1>4, <1>9 DEF Is
  <2>3. ~b /\ ~Reading(m.f) => m.f.mem = << >>
    BY <1>4, <1>7, <2>2 DEF Sound
  <2> QED BY <1>1, <1>4, <1>6, <2>1, <2>3
<1> QED BY <1>8, <1>9

LEMMA CleanedShut ==
    ASSUME StateOK, NEW s \in Slots, ~fds[s].open, NEW e, NEW n, n = Cleaned(s, e)
    PROVE  ClosedOK(s) /\ n.f = iob[s] /\ n.d = fds[s] /\ ~n.bad
<1>1. ClosedOK(s)
  BY DEF StateOK, OpenOK, Desc
<1>2. ~Is("WRITE", s)
  BY <1>1 DEF ClosedOK, Is, Modes
<1> QED BY <1>1, <1>2, MachineFields DEF Cleaned

LEMMA ExitFields ==
    ASSUME NEW c, NEW e, Exit(c, e)
    PROVE  /\ iob' = [s \in Slots |-> Cleaned(s, e).f] /\ fds' = [s \in Slots |-> Cleaned(s, e).d]
           /\ file' = [f \in Files |-> IF InUse(f)
                                       THEN Cleaned(CHOOSE s \in Slots : fds[s].open /\ fds[s].file = f, e).t
                                       ELSE file[f]]
           /\ bad' = bad \cup {s \in Slots : Cleaned(s, e).bad}
           /\ flushall' = flushall /\ main' = main /\ dir' = dir
<1> DEFINE m == [s \in Slots |-> IF flushall /\ Is("WRITE", s) THEN _flsbuf(Machine(s, e)) ELSE Machine(s, e)]
<1>1. \A s \in Slots : m[s] = Cleaned(s, e)
  BY DEF Cleaned
<1>2. /\ iob' = [s \in Slots |-> m[s].f] /\ fds' = [s \in Slots |-> m[s].d]
      /\ file' = [f \in Files |-> IF InUse(f) THEN m[CHOOSE s \in Slots : fds[s].open /\ fds[s].file = f].t
                                  ELSE file[f]]
      /\ bad' = bad \cup {s \in Slots : m[s].bad}
      /\ flushall' = flushall /\ main' = main /\ dir' = dir
  BY DEF Exit
<1> HIDE DEF m
<1>3. \A f \in Files : InUse(f) => (CHOOSE s \in Slots : fds[s].open /\ fds[s].file = f) \in Slots
  BY DEF InUse
<1> QED BY <1>1, <1>2, <1>3

LEMMA ExitOK ==
    ASSUME StateOK, NEW c, NEW e \in Moods, Exit(c, e)
    PROVE  StateOK' /\ NothingLost'
<1>1. /\ iob' = [s \in Slots |-> Cleaned(s, e).f] /\ fds' = [s \in Slots |-> Cleaned(s, e).d]
      /\ file' = [f \in Files |-> IF InUse(f)
                                  THEN Cleaned(CHOOSE s \in Slots : fds[s].open /\ fds[s].file = f, e).t
                                  ELSE file[f]]
      /\ bad' = bad \cup {s \in Slots : Cleaned(s, e).bad}
      /\ flushall' = flushall /\ main' = main /\ dir' = dir
  BY ExitFields
<1>2. ASSUME NEW s \in Slots, fds[s].open
      PROVE  /\ OpenOK(s)' /\ iob'[s] \in Iob /\ Cleaned(s, e).t \in Seq(Nat)
             /\ s \notin bad' => Unwritten(s)' = << >>
  <2>1. PICK n, b : n = Cleaned(s, e) /\ b = (s \in bad)
    OBVIOUS
  <2>2. /\ Fit(n, b, flushall) /\ n.flushall = flushall /\ (dir[s] = "fresh" => Quiet(n) /\ ~b)
        /\ ~n.bad /\ ~b /\ ~Reading(n.f) => n.f.mem = << >>
    BY <1>2, <2>1, CleanedOpen
  <2>3. iob'[s] = n.f /\ fds'[s] = n.d /\ dir'[s] = dir[s]
    BY <1>1, <2>1
  <2>4. b \in BOOLEAN /\ n.bad \in BOOLEAN /\ flushall \in BOOLEAN
    <3>1. b \in BOOLEAN
      BY <2>1
    <3>2. n.bad \in BOOLEAN
      BY <2>2, Fields DEF Fit
    <3> QED BY <3>1, <3>2 DEF StateOK
  <2>5. b <=> s \in bad
    BY <2>1, Zenon
  <2>6. s \in bad' <=> (n.bad \/ b)
    BY <1>1, <2>1, <2>5
  <2>7. PICK l, k : l = (n.bad \/ b) /\ k = (s \in bad')
    OBVIOUS
  <2>8. l \in BOOLEAN /\ k \in BOOLEAN
    BY <2>7
  <2>9. l => k
    BY <2>6, <2>7, Zenon
  <2>10. Sound(n.f, l, flushall)
    BY <2>2, <2>7 DEF Fit
  <2>11. Sound(n.f, k, flushall)
    BY <2>4, <2>8, <2>9, <2>10, SoundLater
  <2>12. Sound(iob'[s], s \in bad', flushall')
    BY <1>1, <2>3, <2>7, <2>11
  <2>13. n.f \in Iob /\ n.d \in Desc /\ Working(n.f, n.d) /\ n.t \in Seq(Nat)
    BY <2>2, Fields DEF Fit
  <2>14. dir'[s] = "fresh" => Fresh(iob'[s], s \in bad')
    BY <2>2, <2>3, <2>6 DEF Fresh, Quiet
  <2>15. OpenOK(s)'
    BY <2>3, <2>12, <2>13, <2>14 DEF OpenOK
  <2>16. s \notin bad' => Unwritten(s)' = << >>
    BY <2>2, <2>3, <2>6 DEF Unwritten, Is, Reading, Bytes
  <2> QED BY <2>1, <2>3, <2>13, <2>15, <2>16
<1>3. ASSUME NEW s \in Slots, ~fds[s].open
      PROVE  ClosedOK(s)' /\ iob'[s] \in Iob /\ ~fds'[s].open
  <2>1. PICK n : n = Cleaned(s, e)
    OBVIOUS
  <2>2. ClosedOK(s) /\ n.f = iob[s] /\ n.d = fds[s]
    BY <1>3, <2>1, CleanedShut
  <2>3. iob'[s] = iob[s] /\ fds'[s] = fds[s]
    BY <1>1, <2>1, <2>2
  <2> QED BY <1>3, <2>2, <2>3 DEF ClosedOK, StateOK
<1>4. iob' \in [Slots -> Iob] /\ DOMAIN fds' = Slots /\ DOMAIN dir' = Slots /\ main' \in Used
  BY <1>1, <1>2, <1>3 DEF StateOK
<1>5. file' \in [Files -> Seq(Nat)]
  <2>1. ASSUME NEW f \in Files, InUse(f)
        PROVE  Cleaned(CHOOSE s \in Slots : fds[s].open /\ fds[s].file = f, e).t \in Seq(Nat)
    <3>1. PICK x : x = CHOOSE s \in Slots : fds[s].open /\ fds[s].file = f
      OBVIOUS
    <3>2. x \in Slots /\ fds[x].open
      BY <2>1, <3>1 DEF InUse
    <3> QED BY <1>2, <3>1, <3>2
  <2> QED BY <1>1, <2>1 DEF StateOK
<1>6. flushall' \in BOOLEAN /\ bad' \subseteq Slots
  BY <1>1 DEF StateOK
<1>7. StateOK'
  BY <1>2, <1>3, <1>4, <1>5, <1>6 DEF StateOK
<1>8. \A s \in Slots : fds'[s].open /\ s \notin bad' => Unwritten(s)' = << >>
  BY <1>2, <1>3
<1> QED BY <1>7, <1>8 DEF NothingLost

\* A call that returns to the program.
LEMMA Returns ==
    ASSUME NEW c, NEW s, NEW m, NEW d, NEW v, Commit(c, s, m, d, v), c.op # "exit"
    PROVE  NothingLost'
<1>1. ret'.call = c
  BY DEF Commit
<1> QED BY <1>1 DEF NothingLost, Running

LEMMA ReturnsOn ==
    ASSUME NEW c, NEW m, NEW d, On(c, m, d), c.op # "exit"
    PROVE  NothingLost'
  BY Returns DEF On

\* What the arguments of a call are.
Arguments(c) ==
    /\ c.op \in {"fopen", "freopen"} => c.file \in Files
    /\ c.op \in {"putc", "fputs", "puts", "fwrite"} => c.bytes \in Seq(Nat) /\ c.bytes # << >>
    /\ c.op \in {"fgets", "fread"} => c.n \in Nat \ {0}
    /\ c.op \in {"fread", "fwrite"} => c.size \in Nat \ {0}
    /\ c.op = "gets" => c.s = 0
    /\ c.op = "puts" => c.s = 1
    /\ c.op = "fseek" => c.off \in Int
    /\ c.op = "setvbuf" => c.len \in Nat

LEMMA CallsOfOp ==
    ASSUME NEW op \in Ops, NEW c \in CallsOf[op]
    PROVE  c.op = op /\ Arguments(c)
  BY CallAssumption DEF CallsOf, Arguments

LEMMA ReadStep ==
    ASSUME StateOK, NEW e \in Moods,
           \/ \E c \in CallsOf["getc"]  : Getc(c, e)
           \/ \E c \in CallsOf["fgets"] : Fgets(c, e)
           \/ \E c \in CallsOf["gets"]  : Gets(c, e)
           \/ \E c \in CallsOf["fread"] : Fread(c, e)
    PROVE  StateOK' /\ NothingLost'
<1>1. ASSUME NEW c \in CallsOf["getc"], Getc(c, e) PROVE StateOK' /\ NothingLost'
  <2>1. c.op = "getc"
    BY CallsOfOp DEF Ops
  <2>2. StateOK'
    BY <1>1, GetcOK
  <2>3. NothingLost'
    BY <1>1, <2>1, ReturnsOn DEF Getc
  <2> QED BY <2>2, <2>3
<1>2. ASSUME NEW c \in CallsOf["fgets"], Fgets(c, e) PROVE StateOK' /\ NothingLost'
  <2>1. c.op = "fgets" /\ c.n \in Nat \ {0}
    BY CallsOfOp DEF Ops, Arguments
  <2>2. StateOK'
    BY <1>2, <2>1, FgetsOK
  <2>3. NothingLost'
    BY <1>2, <2>1, ReturnsOn DEF Fgets
  <2> QED BY <2>2, <2>3
<1>3. ASSUME NEW c \in CallsOf["gets"], Gets(c, e) PROVE StateOK' /\ NothingLost'
  <2>1. c.op = "gets" /\ c.s = 0
    BY CallsOfOp DEF Ops, Arguments
  <2>2. StateOK'
    BY <1>3, <2>1, GetsOK
  <2>3. NothingLost'
    BY <1>3, <2>1, ReturnsOn DEF Gets
  <2> QED BY <2>2, <2>3
<1>4. ASSUME NEW c \in CallsOf["fread"], Fread(c, e) PROVE StateOK' /\ NothingLost'
  <2>1. c.op = "fread" /\ c.n \in Nat \ {0} /\ c.size \in Nat \ {0}
    BY CallsOfOp DEF Ops, Arguments
  <2>2. StateOK'
    BY <1>4, <2>1, FreadOK
  <2>3. NothingLost'
    BY <1>4, <2>1, ReturnsOn DEF Fread
  <2> QED BY <2>2, <2>3
<1> QED BY <1>1, <1>2, <1>3, <1>4

LEMMA WriteStep ==
    ASSUME StateOK, NEW e \in Moods,
           \/ \E c \in CallsOf["putc"]   : Putc(c, e)
           \/ \E c \in CallsOf["fputs"]  : Fputs(c, e)
           \/ \E c \in CallsOf["puts"]   : Puts(c, e)
           \/ \E c \in CallsOf["fwrite"] : Fwrite(c, e)
    PROVE  StateOK' /\ NothingLost'
<1>1. ASSUME NEW c \in CallsOf["putc"], Putc(c, e) PROVE StateOK' /\ NothingLost'
  <2>1. c.op = "putc" /\ c.bytes \in Seq(Nat) /\ c.bytes # << >>
    BY CallsOfOp DEF Ops, Arguments
  <2>2. StateOK'
    BY <1>1, <2>1, PutcOK
  <2>3. NothingLost'
    BY <1>1, <2>1, ReturnsOn DEF Putc
  <2> QED BY <2>2, <2>3
<1>2. ASSUME NEW c \in CallsOf["fputs"], Fputs(c, e) PROVE StateOK' /\ NothingLost'
  <2>1. c.op = "fputs" /\ c.bytes \in Seq(Nat)
    BY CallsOfOp DEF Ops, Arguments
  <2>2. StateOK'
    BY <1>2, <2>1, FputsOK
  <2>3. NothingLost'
    BY <1>2, <2>1, ReturnsOn DEF Fputs
  <2> QED BY <2>2, <2>3
<1>3. ASSUME NEW c \in CallsOf["puts"], Puts(c, e) PROVE StateOK' /\ NothingLost'
  <2>1. c.op = "puts" /\ c.bytes \in Seq(Nat) /\ c.s = 1
    BY CallsOfOp DEF Ops, Arguments
  <2>2. StateOK'
    BY <1>3, <2>1, PutsOK
  <2>3. NothingLost'
    BY <1>3, <2>1, ReturnsOn DEF Puts
  <2> QED BY <2>2, <2>3
<1>4. ASSUME NEW c \in CallsOf["fwrite"], Fwrite(c, e) PROVE StateOK' /\ NothingLost'
  <2>1. c.op = "fwrite" /\ c.bytes \in Seq(Nat) /\ c.size \in Nat \ {0}
    BY CallsOfOp DEF Ops, Arguments
  <2>2. StateOK'
    BY <1>4, <2>1, FwriteOK
  <2>3. NothingLost'
    BY <1>4, <2>1, ReturnsOn DEF Fwrite
  <2> QED BY <2>2, <2>3
<1> QED BY <1>1, <1>2, <1>3, <1>4

LEMMA FlushStep ==
    ASSUME Careful, StateOK, NEW e \in Moods,
           \/ \E c \in CallsOf["fseek"]   : Fseek(c, e)
           \/ \E c \in CallsOf["rewind"]  : Rewind(c, e)
           \/ \E c \in CallsOf["fflush"]  : Fflush(c, e)
           \/ \E c \in CallsOf["setvbuf"] : Setvbuf(c, e)
           \/ \E c \in CallsOf["fclose"]  : Fclose(c, e)
           \/ \E c \in CallsOf["freopen"] : Freopen(c, e)
           \/ \E c \in CallsOf["exit"]    : Exit(c, e)
    PROVE  StateOK' /\ NothingLost'
<1>1. ASSUME NEW c \in CallsOf["fseek"], Fseek(c, e) PROVE StateOK' /\ NothingLost'
  <2>1. c.op = "fseek" /\ c.off \in Int
    BY CallsOfOp DEF Ops, Arguments
  <2>2. StateOK'
    BY <1>1, <2>1, FseekOK
  <2>3. NothingLost'
    BY <1>1, <2>1, ReturnsOn DEF Fseek
  <2> QED BY <2>2, <2>3
<1>2. ASSUME NEW c \in CallsOf["rewind"], Rewind(c, e) PROVE StateOK' /\ NothingLost'
  <2>1. c.op = "rewind"
    BY CallsOfOp DEF Ops
  <2>2. StateOK'
    BY <1>2, RewindOK
  <2>3. NothingLost'
    BY <1>2, <2>1, ReturnsOn DEF Rewind
  <2> QED BY <2>2, <2>3
<1>3. ASSUME NEW c \in CallsOf["fflush"], Fflush(c, e) PROVE StateOK' /\ NothingLost'
  <2>1. c.op = "fflush"
    BY CallsOfOp DEF Ops
  <2>2. StateOK'
    BY <1>3, FflushOK
  <2>3. NothingLost'
    BY <1>3, <2>1, ReturnsOn DEF Fflush
  <2> QED BY <2>2, <2>3
<1>4. ASSUME NEW c \in CallsOf["setvbuf"], Setvbuf(c, e) PROVE StateOK' /\ NothingLost'
  <2>1. c.op = "setvbuf" /\ c.len \in Nat
    BY CallsOfOp DEF Ops, Arguments
  <2>2. StateOK'
    BY <1>4, <2>1, SetvbufOK
  <2>3. NothingLost'
    BY <1>4, <2>1, ReturnsOn DEF Setvbuf
  <2> QED BY <2>2, <2>3
<1>5. ASSUME NEW c \in CallsOf["fclose"], Fclose(c, e) PROVE StateOK' /\ NothingLost'
  <2>1. c.op = "fclose"
    BY CallsOfOp DEF Ops
  <2>2. StateOK'
    BY <1>5, FcloseOK
  <2>3. NothingLost'
    BY <1>5, <2>1, ReturnsOn DEF Fclose
  <2> QED BY <2>2, <2>3
<1>6. ASSUME NEW c \in CallsOf["freopen"], Freopen(c, e) PROVE StateOK' /\ NothingLost'
  <2>1. c.op = "freopen" /\ c.file \in Files
    BY CallsOfOp DEF Ops, Arguments
  <2>2. StateOK'
    BY <1>6, <2>1, FreopenOK
  <2>3. PICK m, v : Commit(c, c.s, m, "fresh", v)
    BY <1>6 DEF Freopen
  <2>4. NothingLost'
    BY <2>1, <2>3, Returns
  <2> QED BY <2>2, <2>4
<1>7. ASSUME NEW c \in CallsOf["exit"], Exit(c, e) PROVE StateOK' /\ NothingLost'
  BY <1>7, ExitOK
<1> QED BY <1>1, <1>2, <1>3, <1>4, <1>5, <1>6, <1>7

LEMMA OtherStep ==
    ASSUME Careful, StateOK,
           \/ \E c \in CallsOf["ungetc"]   : Ungetc(c)
           \/ \E c \in CallsOf["ftell"]    : Ftell(c)
           \/ \E c \in CallsOf["clearerr"] : Clearerr(c)
           \/ \E c \in CallsOf["fopen"]    : Fopen(c)
    PROVE  StateOK' /\ NothingLost'
<1>1. ASSUME NEW c \in CallsOf["ungetc"], Ungetc(c) PROVE StateOK' /\ NothingLost'
  <2>1. c.op = "ungetc"
    BY CallsOfOp DEF Ops
  <2>2. StateOK'
    BY <1>1, UngetcOK
  <2>3. NothingLost'
    BY <1>1, <2>1, ReturnsOn DEF Ungetc
  <2> QED BY <2>2, <2>3
<1>2. ASSUME NEW c \in CallsOf["ftell"], Ftell(c) PROVE StateOK' /\ NothingLost'
  <2>1. c.op = "ftell"
    BY CallsOfOp DEF Ops
  <2>2. StateOK'
    BY <1>2, FtellOK
  <2>3. NothingLost'
    BY <1>2, <2>1, ReturnsOn DEF Ftell
  <2> QED BY <2>2, <2>3
<1>3. ASSUME NEW c \in CallsOf["clearerr"], Clearerr(c) PROVE StateOK' /\ NothingLost'
  <2>1. c.op = "clearerr"
    BY CallsOfOp DEF Ops
  <2>2. StateOK'
    BY <1>3, ClearerrOK
  <2>3. NothingLost'
    BY <1>3, <2>1, ReturnsOn DEF Clearerr
  <2> QED BY <2>2, <2>3
<1>4. ASSUME NEW c \in CallsOf["fopen"], Fopen(c) PROVE StateOK' /\ NothingLost'
  <2>1. c.op = "fopen" /\ c.file \in Files
    BY CallsOfOp DEF Ops, Arguments
  <2>2. StateOK'
    BY <1>4, <2>1, FopenOK
  <2>3. \E s, m, d, v : Commit(c, s, m, d, v)
    <3>1. CASE FreeSlots = {}
      BY <1>4, <3>1 DEF Fopen
    <3>2. CASE FreeSlots # {}
      BY <1>4, <3>2 DEF Fopen
    <3> QED BY <3>1, <3>2
  <2>4. NothingLost'
    BY <2>1, <2>3, Returns
  <2> QED BY <2>2, <2>4
<1> QED BY <1>1, <1>2, <1>3, <1>4

\* Every call keeps the streams sound, and exit() leaves nothing unwritten.
LEMMA NextOK == Careful /\ StateOK /\ NothingLost /\ [Next]_vars => StateOK' /\ NothingLost'
<1> SUFFICES ASSUME Careful, StateOK, NothingLost, [Next]_vars PROVE StateOK' /\ NothingLost'
  OBVIOUS
<1>1. ASSUME UNCHANGED vars PROVE StateOK' /\ NothingLost'
  BY <1>1 DEF vars, StateOK, OpenOK, ClosedOK, NothingLost, Running, Unwritten, Is, Bytes
<1>2. CASE Next
  <2>1. ASSUME NEW e \in ReadMoods,
               \/ \E c \in CallsOf["getc"]  : Getc(c, e)
               \/ \E c \in CallsOf["fgets"] : Fgets(c, e)
               \/ \E c \in CallsOf["gets"]  : Gets(c, e)
               \/ \E c \in CallsOf["fread"] : Fread(c, e)
        PROVE  StateOK' /\ NothingLost'
    BY <2>1, MoodsAll, ReadStep
  <2>2. ASSUME NEW e \in WriteMoods,
               \/ \E c \in CallsOf["putc"]   : Putc(c, e)
               \/ \E c \in CallsOf["fputs"]  : Fputs(c, e)
               \/ \E c \in CallsOf["puts"]   : Puts(c, e)
               \/ \E c \in CallsOf["fwrite"] : Fwrite(c, e)
        PROVE  StateOK' /\ NothingLost'
    BY <2>2, MoodsAll, WriteStep
  <2>3. ASSUME NEW e \in FlushMoods,
               \/ \E c \in CallsOf["fseek"]   : Fseek(c, e)
               \/ \E c \in CallsOf["rewind"]  : Rewind(c, e)
               \/ \E c \in CallsOf["fflush"]  : Fflush(c, e)
               \/ \E c \in CallsOf["setvbuf"] : Setvbuf(c, e)
               \/ \E c \in CallsOf["fclose"]  : Fclose(c, e)
               \/ \E c \in CallsOf["freopen"] : Freopen(c, e)
               \/ \E c \in CallsOf["exit"]    : Exit(c, e)
        PROVE  StateOK' /\ NothingLost'
    BY <2>3, MoodsAll, FlushStep
  <2>4. CASE \/ \E c \in CallsOf["ungetc"]   : Ungetc(c)
             \/ \E c \in CallsOf["ftell"]    : Ftell(c)
             \/ \E c \in CallsOf["clearerr"] : Clearerr(c)
             \/ \E c \in CallsOf["fopen"]    : Fopen(c)
    BY <2>4, OtherStep
  <2>5. CASE Terminated
    BY <1>1, <2>5 DEF Terminated
  <2> QED BY <1>2, <2>1, <2>2, <2>3, <2>4, <2>5 DEF Next
<1> QED BY <1>1, <1>2

LEMMA SoundAlways == ASSUME Careful PROVE Spec => [](StateOK /\ NothingLost)
<1>1. Init => StateOK /\ NothingLost
  <2>1. Init => NothingLost
    BY DEF Init, NothingLost, Running
  <2> QED BY <2>1, InitOK
<1>2. (StateOK /\ NothingLost) /\ [Next]_vars => (StateOK /\ NothingLost)'
  BY NextOK
<1> QED BY <1>1, <1>2, PTL DEF Spec

\* No byte is stored outside of a buffer, whatever its size: putc() stores below
\* rp, which is never past the end, and __putc() looks for room in each of its
\* three ways; after a read, rp is never past wp.
THEOREM StoresInBounds == ASSUME Careful PROVE Spec => []InBounds
<1>1. StateOK => InBounds
  BY DEF StateOK, OpenOK, ClosedOK, Sound, InBounds, Is, Bytes, Reading, Modes
<1>2. Spec => [](StateOK /\ NothingLost)
  BY SoundAlways
<1> QED BY <1>1, <1>2, PTL

\* exit() writes every byte that putc() and its callers took, but for streams on
\* which a write failed: cleanup() looks at _IOWRITE, and no stream has bytes to
\* write without that flag and _flushall.
THEOREM ExitWritesAll == ASSUME Careful PROVE Spec => []NothingLost
<1>1. Spec => [](StateOK /\ NothingLost)
  BY SoundAlways
<1> QED BY <1>1, PTL
=============================================================================
