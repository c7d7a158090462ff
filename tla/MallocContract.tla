--------------------------- MODULE MallocContract ---------------------------
(***************************************************************************)
(* Proofs that the allocator keeps what the program stores and implements  *)
(* the abstract heap, for every heap, header size and set of requests none *)
(* of which makes morecore's product wrap (RequestsFit).                   *)
(***************************************************************************)
EXTENDS MCMalloc, MallocProofs, SequenceTheorems

-----------------------------------------------------------------------------
(* The contents of the blocks                                              *)

\* A block has exactly the units its bytes need, and unit k holds k.
Whole(h, s, r, d) ==
    /\ s[h] = Reach(r[h]) + 1
    /\ \A k \in 1 .. Reach(r[h]) : d[h + k] = k

\* Stronger than Intact: realloc that shrinks a block needs to know that the
\* block was no larger than the program had filled it.
Contents == \A h \in Live : Whole(h, size, req, data)

\* A size that is not refused takes the header and the units it reaches into.
LEMMA UnitsReach ==
    ASSUME NEW n \in Nat, ~Refused(n) PROVE Units(n) = Reach(n) + 1 /\ Reach(n) \in Nat
<1>1. n + HSize - 1 \in Nat /\ n + HSize - 1 <= SIZE_MAX
  BY UnitAssumption, RequestAssumption DEF Refused
<1>2. Wrap(n + HSize - 1) = n + HSize - 1
  BY <1>1, WrapSmall
<1> QED BY <1>2, ReachType DEF Units, Reach

\* A unit of a block's payload is an address, and in no other chunk.
LEMMA PayloadApart ==
    ASSUME Inv, NEW h \in Live, NEW g \in Chunks, g # h, NEW a \in Addr,
           h < a, a < h + size[h]
    PROVE  a # g /\ (a < g \/ g + size[g] <= a)
<1>1. h \in Chunks /\ h \in Addr /\ Chunks \subseteq Addr /\ size \in [Addr -> Nat]
  BY LiveFacts DEF Inv, TypeOK, Chunks, Live, Pending, LocalsOK
<1>2. h + size[h] <= g \/ g + size[g] <= h
  BY <1>1 DEF Inv, Tiled, Tiles
<1>3. h \in Int /\ g \in Int /\ a \in Int /\ size[h] \in Nat /\ size[g] \in Nat
  BY <1>1, HeapAssumption DEF Addr, base
<1> QED BY <1>2, <1>3

\* The payload of a block is inside the heap.
LEMMA PayloadAddr ==
    ASSUME Inv, NEW h \in Live, NEW k \in Int, 0 < k, k < size[h]
    PROVE  h + k \in Addr /\ h < h + k /\ h + k < h + size[h]
<1>1. h \in Addr /\ h + size[h] <= brk /\ brk \in HeapStart .. HeapEnd /\ size[h] \in Nat
  BY LiveFacts DEF Inv, TypeOK
<1>2. h \in Int /\ 1 <= h /\ HeapEnd \in Int /\ HeapStart \in Int /\ brk \in Int /\ brk <= HeapEnd
  BY <1>1, HeapAssumption DEF Addr, base
<1>3. h + k \in 1 .. HeapEnd
  BY <1>1, <1>2
<1> QED BY <1>1, <1>2, <1>3 DEF Addr, base

\* A block that a step does not touch is as it was.
LEMMA KeptWhole ==
    ASSUME Inv, Contents, NEW h \in Live, size'[h] = size[h], req'[h] = req[h],
           \A a \in Addr : h < a /\ a < h + size[h] => data'[a] = data[a]
    PROVE  Whole(h, size', req', data')
<1>1. Whole(h, size, req, data)
  BY DEF Contents
<1>2. Reach(req[h]) \in Nat
  <2>1. req[h] \in Nat
    BY LiveFacts DEF Inv, TypeOK
  <2> QED BY <2>1, ReachType
<1>3. ASSUME NEW k \in 1 .. Reach(req[h]) PROVE data'[h + k] = k
  <2>1. k \in Int /\ 0 < k /\ k < size[h]
    BY <1>1, <1>2 DEF Whole
  <2>2. h + k \in Addr /\ h < h + k /\ h + k < h + size[h]
    BY <2>1, PayloadAddr
  <2> QED BY <1>1, <2>2 DEF Whole
<1> QED BY <1>1, <1>3 DEF Whole

\* A step that touches no block.
LEMMA KeptContents ==
    ASSUME Inv, Contents, Live' \subseteq Live,
           \A h \in Live' : size'[h] = size[h] /\ req'[h] = req[h],
           \A h \in Live' : \A a \in Addr : h < a /\ a < h + size[h] => data'[a] = data[a]
    PROVE  Contents'
  BY KeptWhole DEF Contents

\* The calls that only enter or go round a loop.
LEMMA QuietContents == ASSUME Inv, Contents, UNCHANGED <<size, req, data>> PROVE Contents'
<1>1. Live' = Live
  BY DEF Live
<1> QED BY <1>1, KeptContents

\* free(): the pending chunk is no block any more.
LEMMA CallFreeContents ==
    ASSUME Inv, Contents, NEW h \in Live, CallFree(h) PROVE Contents'
<1>1. h \in Addr /\ h # NULL /\ h \in Chunks
  BY LiveFacts, HeapAssumption DEF Addr, NULL, base
<1>2. /\ req' = [req EXCEPT ![h] = 0] /\ size' = size
      /\ data' = Erase(data, h, h + size[h])
  BY <1>1 DEF CallFree
<1>3. Live' = Live \ {h}
  BY <1>1, <1>2 DEF Live, Inv, TypeOK
<1>4. \A g \in Live' : req'[g] = req[g]
  BY <1>1, <1>2, <1>3 DEF Live, Inv, TypeOK
<1>5. ASSUME NEW g \in Live', NEW a \in Addr, g < a, a < g + size[g] PROVE data'[a] = data[a]
  <2>1. a < h \/ h + size[h] <= a
    BY <1>1, <1>3, <1>5, PayloadApart
  <2>2. a \in Int /\ h \in Int /\ size[h] \in Nat
    BY <1>1, HeapAssumption DEF Addr, base, Inv, TypeOK
  <2>3. ~(h <= a /\ a < h + size[h])
    BY <2>1, <2>2
  <2> QED BY <1>2, <2>3 DEF Erase
<1> QED BY <1>2, <1>3, <1>4, <1>5, KeptContents

\* Filling a block from where the program had filled it.
LEMMA FillWhole ==
    ASSUME NEW h \in Addr, NEW d \in [Addr -> Nat], NEW m \in Nat, NEW n \in Nat,
           \A k \in 1 .. n : h + k \in Addr /\ (k <= m => d[h + k] = k)
    PROVE  \A k \in 1 .. n : Fill(d, h, m, n)[h + k] = k
<1>1. h \in Int
  BY HeapAssumption DEF Addr, base
<1>2. ASSUME NEW k \in 1 .. n PROVE Fill(d, h, m, n)[h + k] = k
  <2>1. Fill(d, h, m, n)[h + k] = IF h + m < h + k /\ h + k <= h + n THEN (h + k) - h ELSE d[h + k]
    BY DEF Fill
  <2>2. CASE k <= m
    BY <1>1, <2>1, <2>2
  <2>3. CASE m < k
    BY <1>1, <2>1, <2>3
  <2> QED BY <2>2, <2>3
<1> QED BY <1>2

\* Filling touches no unit outside the range.
LEMMA FillOutside ==
    ASSUME NEW h \in Addr, NEW d \in [Addr -> Nat], NEW m \in Nat, NEW n \in Nat, NEW a \in Addr,
           a <= h \/ h + n < a
    PROVE  Fill(d, h, m, n)[a] = d[a]
<1>1. h \in Int /\ a \in Int
  BY HeapAssumption DEF Addr, base
<1>2. ~(h + m < a /\ a <= h + n)
  BY <1>1
<1> QED BY <1>2 DEF Fill

\* What Inv' says of a block.
LEMMA LiveFactsNext ==
    ASSUME Inv', NEW h \in Live'
    PROVE  /\ h \in Addr /\ h \in Chunks' /\ Chunks' \subseteq Addr /\ size' \in [Addr -> Nat]
           /\ 0 < size'[h] /\ h + size'[h] <= HeapEnd
           /\ \A k \in Int : 0 < k /\ k < size'[h] => h + k \in Addr
<1>1. /\ h \in Addr /\ h \in Chunks' /\ Chunks' \subseteq Addr /\ size' \in [Addr -> Nat] /\ h # base
      /\ brk' \in HeapStart .. HeapEnd
  BY DEF Inv, TypeOK, Chunks, Live, Pending, LocalsOK, Linked, Tiled, OneOwner
<1>2. 0 < size'[h] /\ h + size'[h] <= brk'
  BY <1>1 DEF Inv, Tiled, Tiles
<1>3. h \in Int /\ 1 <= h /\ size'[h] \in Nat /\ brk' \in Int /\ brk' <= HeapEnd /\ HeapEnd \in Int
  BY <1>1, HeapAssumption DEF Addr, base
<1>4. \A k \in Int : 0 < k /\ k < size'[h] => h + k \in 1 .. HeapEnd
  BY <1>2, <1>3
<1> QED BY <1>1, <1>2, <1>3, <1>4 DEF Addr, base

\* A step that is about one block: what it writes lies in that block or in a
\* chunk that is no block.
LEMMA OneBlock ==
    ASSUME Inv, Inv', Contents, NEW h \in Live', Live' \ {h} \subseteq Live,
           Whole(h, size', req', data'),
           \A g \in Live' \ {h} : size'[g] = size[g] /\ req'[g] = req[g],
           \A a \in Addr : data'[a] # data[a] =>
              \E c \in Chunks' : c \notin Live' \ {h} /\ c <= a /\ a < c + size'[c]
    PROVE  Contents'
<1>1. ASSUME NEW g \in Live', g # h PROVE Whole(g, size', req', data')
  <2>1. g \in Live /\ size'[g] = size[g] /\ req'[g] = req[g]
    BY <1>1
  <2>2. ASSUME NEW a \in Addr, g < a, a < g + size[g], data'[a] # data[a] PROVE FALSE
    <3>1. PICK c \in Chunks' : c \notin Live' \ {h} /\ c <= a /\ a < c + size'[c]
      BY <2>2
    <3>2. c # g
      BY <1>1, <3>1
    <3>3. g \in Chunks' /\ Chunks' \subseteq Addr /\ size' \in [Addr -> Nat] /\ g \in Addr
      BY LiveFactsNext
    <3>4. g + size'[g] <= c \/ c + size'[c] <= g
      BY <3>2, <3>3 DEF Inv, Tiled, Tiles
    <3>5. g \in Int /\ c \in Int /\ a \in Int /\ size'[g] \in Nat /\ size'[c] \in Nat
      BY <3>3, HeapAssumption DEF Addr, base
    <3> QED BY <2>1, <2>2, <3>1, <3>4, <3>5
  <2> QED BY <2>1, <2>2, KeptWhole
<1> QED BY <1>1 DEF Contents

\* realloc() in place: the block is filled from where it was filled before.
LEMMA ResizedWhole ==
    ASSUME Inv, Inv', Contents, NEW h \in Live, h \in Live', NEW n \in Nat, ~Refused(n),
           size'[h] = Units(n), req'[h] = n, size[h] <= Units(n), NEW d \in [Addr -> Nat],
           \A a \in Addr : h < a /\ a < h + size[h] => d[a] = data[a],
           data' = Fill(d, h, Reach(req[h]), Reach(n))
    PROVE  /\ Whole(h, size', req', data')
           /\ \A a \in Addr : data'[a] # d[a] => h <= a /\ a < h + size'[h]
<1>1. Units(n) = Reach(n) + 1 /\ Reach(n) \in Nat
  BY UnitsReach
<1>2. h \in Addr /\ size[h] \in Nat /\ req[h] \in Nat /\ h \in Int
  <2>1. h \in Addr /\ size[h] \in Nat
    BY LiveFacts
  <2>2. req[h] \in Nat
    BY <2>1 DEF Inv, TypeOK
  <2> QED BY <2>1, <2>2, HeapAssumption DEF Addr, base
<1>3. Reach(req[h]) \in Nat /\ size[h] = Reach(req[h]) + 1 /\ \A k \in 1 .. Reach(req[h]) : data[h + k] = k
  BY <1>2, ReachType DEF Contents, Whole
<1>4. \A k \in Int : 0 < k /\ k < size'[h] => h + k \in Addr
  BY LiveFactsNext
<1>5. ASSUME NEW k \in 1 .. Reach(n) PROVE h + k \in Addr /\ (k <= Reach(req[h]) => d[h + k] = k)
  <2>1. h + k \in Addr
    BY <1>1, <1>4
  <2>2. k <= Reach(req[h]) => h < h + k /\ h + k < h + size[h] /\ k \in 1 .. Reach(req[h])
    BY <1>2, <1>3
  <2> QED BY <1>3, <2>1, <2>2
<1>6. \A k \in 1 .. Reach(n) : data'[h + k] = k
  <2> DEFINE from == Reach(req[h])
             to == Reach(n)
  <2>1. from \in Nat /\ to \in Nat /\ data' = Fill(d, h, from, to)
        /\ \A k \in 1 .. to : h + k \in Addr /\ (k <= from => d[h + k] = k)
    BY <1>1, <1>3, <1>5
  <2> HIDE DEF from, to
  <2>2. \A k \in 1 .. to : Fill(d, h, from, to)[h + k] = k
    BY <1>2, <2>1, FillWhole
  <2> QED BY <2>1, <2>2 DEF to
<1>7. ASSUME NEW a \in Addr, data'[a] # d[a] PROVE h <= a /\ a < h + size'[h]
  <2>1. ~(a <= h \/ h + Reach(n) < a)
    BY <1>1, <1>2, <1>3, <1>7, FillOutside
  <2>2. a \in Int
    BY HeapAssumption DEF Addr, base
  <2> QED BY <1>1, <1>2, <2>1, <2>2
<1> QED BY <1>1, <1>6, <1>7 DEF Whole

\* realloc() to as many units.
LEMMA ReallocSameContents ==
    ASSUME Inv, Inv', Contents, NEW h \in Live, NEW n \in Requests, ~Refused(n), ReallocSame(h, n)
    PROVE  Contents'
<1>1. h \in Addr /\ n \in Nat /\ 0 < n
  BY LiveFacts, RequestAssumption DEF Refused
<1>2. /\ size[h] = Units(n) /\ req' = [req EXCEPT ![h] = n] /\ size' = size
      /\ data' = Fill(data, h, Reach(req[h]), Reach(n))
  BY DEF ReallocSame
<1>3. Live' = Live /\ req'[h] = n /\ \A g \in Live \ {h} : req'[g] = req[g]
  BY <1>1, <1>2 DEF Live, Inv, TypeOK
<1>4. data \in [Addr -> Nat] /\ size[h] <= Units(n)
  BY <1>1, <1>2 DEF Inv, TypeOK
<1>5. /\ Whole(h, size', req', data')
      /\ \A a \in Addr : data'[a] # data[a] => h <= a /\ a < h + size'[h]
  BY <1>1, <1>2, <1>3, <1>4, ResizedWhole
<1>6. h \in Chunks'
  BY <1>3, LiveFactsNext
<1> QED BY <1>2, <1>3, <1>5, <1>6, OneBlock

\* realloc() to fewer units.
LEMMA ReallocShrinkContents ==
    ASSUME Inv, Inv', Contents, pc = "idle", NEW h \in Live, NEW n \in Requests, ~Refused(n),
           ReallocShrink(h, n)
    PROVE  Contents'
<1> DEFINE new == h + Units(n)
<1>1. h \in Addr /\ n \in Nat /\ 0 < n /\ size[h] \in Nat /\ h \in Chunks
  BY LiveFacts, RequestAssumption DEF Refused
<1>2. Units(n) = Reach(n) + 1 /\ Reach(n) \in Nat /\ Units(n) < size[h]
  BY <1>1, UnitsReach DEF ReallocShrink
<1>3. new \in Addr /\ new # h /\ h < new /\ new < h + size[h]
  <2>1. h + Units(n) \in Addr
    BY <1>1, <1>2, PayloadAddr
  <2> QED BY <1>1, <1>2, <2>1, HeapAssumption DEF Addr, base
<1>4. /\ size' = [size EXCEPT ![new] = size[h] - Units(n), ![h] = Units(n)]
      /\ req' = [req EXCEPT ![h] = n] /\ data' = Erase(data, new, h + size[h])
      /\ StartWalk(new, "user", NoCall)
  BY DEF ReallocShrink
<1>5. Live' = Live /\ req'[h] = n /\ \A g \in Live \ {h} : req'[g] = req[g]
  BY <1>1, <1>4 DEF Live, Inv, TypeOK
<1>6. pc' = "walk" /\ call'.hp = new /\ call'.then = "user"
  BY <1>3, <1>4, NoCallType, StartWalkFacts
<1>7. new \in Chunks' /\ new \notin Live'
  BY <1>6 DEF Inv, Tiled, OneOwner, Chunks, Pending
<1> HIDE DEF new
<1>8. size'[h] = Units(n) /\ size'[new] = size[h] - Units(n) /\ \A g \in Live \ {h} : size'[g] = size[g]
  BY <1>1, <1>3, <1>4, <1>5, <1>7 DEF Live, Inv, TypeOK
<1>9. h \in Int /\ new = h + Units(n)
  BY <1>1, HeapAssumption DEF Addr, base, new
<1>10. Whole(h, size', req', data')
  <2>1. size[h] = Reach(req[h]) + 1 /\ \A k \in 1 .. Reach(req[h]) : data[h + k] = k
    BY DEF Contents, Whole
  <2>2. Reach(req[h]) \in Nat
    BY <1>1, ReachType DEF Inv, TypeOK
  <2>3. ASSUME NEW k \in 1 .. Reach(n) PROVE data'[h + k] = k
    <3>1. k \in 1 .. Reach(req[h]) /\ 0 < k /\ k < size[h] /\ ~(new <= h + k)
      BY <1>1, <1>2, <1>9, <2>1, <2>2
    <3>2. h + k \in Addr
      BY <3>1, PayloadAddr
    <3> QED BY <1>4, <2>1, <3>1, <3>2 DEF Erase
  <2> QED BY <1>2, <1>5, <1>8, <2>3 DEF Whole
<1>11. ASSUME NEW a \in Addr, data'[a] # data[a]
       PROVE  new <= a /\ a < new + size'[new]
  <2>1. new <= a /\ a < h + size[h]
    BY <1>4, <1>11 DEF Erase
  <2> QED BY <1>1, <1>2, <1>8, <1>9, <2>1
<1> QED BY <1>5, <1>7, <1>8, <1>10, <1>11, OneBlock

\* The rest of free() writes only headers of chunks that are no blocks.
LEMMA JoinContents ==
    ASSUME Inv, Contents, pc = "walk", call.then \in {"user", "morecore"},
           Found(call.p, call.hp), JoinChunk(call.p, call.hp), req' = req
    PROVE  Contents'
<1> DEFINE p == call.p
           hp == call.hp
           nx == next[p]
<1>1. /\ p \in free /\ hp \in Addr /\ nx \in free /\ p \in Addr /\ nx \in Addr
      /\ hp \in Chunks /\ hp \notin Live
      /\ Live \cap free = {}
  BY NextFree DEF Inv, LocalsOK, Tiled, OneOwner, Pending, Chunks, TypeOK
<1>2. data' = [data EXCEPT ![hp] = 0]
  BY DEF JoinChunk
<1>3. PICK x, y, z : size' = [size EXCEPT ![nx] = x, ![hp] = y, ![p] = z]
  BY DEF JoinChunk
<1>4. Live' = Live
  BY DEF Live
<1> HIDE DEF p, hp, nx
<1>5. \A h \in Live : size'[h] = size[h]
  BY <1>1, <1>3 DEF Inv, TypeOK, Live
<1>6. ASSUME NEW h \in Live, NEW a \in Addr, h < a, a < h + size[h] PROVE data'[a] = data[a]
  BY <1>1, <1>2, <1>6, PayloadApart DEF Inv, TypeOK
<1> QED BY <1>4, <1>5, <1>6, KeptContents

\* What SizeOK says of the block the running call asks for.
LEMMA UnitsOfCall ==
    ASSUME NoWrap, Inv, SizeOK
    PROVE  /\ call.nbytes \in Nat /\ 0 < call.nbytes /\ ~Refused(call.nbytes)
           /\ call.nunits = Units(call.nbytes)
           /\ call.nunits = Reach(call.nbytes) + 1 /\ Reach(call.nbytes) \in Nat
<1>1. call.nbytes \in Nat /\ 0 < call.nbytes
  BY SizeFacts DEF Inv
<1>2. ~Refused(call.nbytes) /\ call.nunits = Units(call.nbytes)
  BY DEF SizeOK
<1> QED BY <1>1, <1>2, UnitsReach

\* realloc() takes the free chunk behind the block.
LEMMA GrowExactContents == ASSUME NoWrap, Inv, Inv', Contents, GrowExact PROVE Contents'
<1> DEFINE oh == call.hp
           nx == next[call.p]
           n == call.nbytes
<1>1. /\ pc = "walk" /\ call.then = "grow" /\ Found(call.p, oh) /\ Touches(oh, nx) /\ SizeOK
  BY DEF GrowExact, Inv, LocalsOK
<1>2. /\ oh \in Live /\ oh \in Addr /\ nx \in free /\ nx \in Addr /\ nx # oh
      /\ size[oh] < call.nunits /\ size[oh] \in Nat /\ call.nunits \in Nat
  BY <1>1, GrowFacts
<1>3. n \in Nat /\ 0 < n /\ ~Refused(n) /\ call.nunits = Units(n)
  BY <1>1, UnitsOfCall
<1>4. /\ size' = [size EXCEPT ![oh] = call.nunits, ![nx] = 0]
      /\ data' = Fill(data, oh, Reach(req[oh]), Reach(n)) /\ req' = [req EXCEPT ![oh] = n]
  BY DEF GrowExact, Grown
<1> HIDE DEF oh, nx, n
<1>5. /\ Live' = Live /\ req'[oh] = n /\ size'[oh] = Units(n) /\ size[oh] <= Units(n)
      /\ data \in [Addr -> Nat]
      /\ \A g \in Live \ {oh} : req'[g] = req[g] /\ size'[g] = size[g]
  BY <1>2, <1>3, <1>4 DEF Live, Inv, TypeOK, Tiled, OneOwner
<1>6. /\ Whole(oh, size', req', data')
      /\ \A a \in Addr : data'[a] # data[a] => oh <= a /\ a < oh + size'[oh]
  BY <1>2, <1>3, <1>4, <1>5, ResizedWhole
<1>7. oh \in Chunks'
  BY <1>2, <1>5, LiveFactsNext
<1> QED BY <1>2, <1>5, <1>6, <1>7, OneBlock

\* realloc() takes a part of the free chunk behind the block.
LEMMA GrowSplitContents == ASSUME NoWrap, Inv, Inv', Contents, GrowSplit PROVE Contents'
<1> DEFINE oh == call.hp
           nx == next[call.p]
           n == call.nbytes
           avail == size[oh] + size[nx]
           new == oh + call.nunits
           d == [data EXCEPT ![new] = 0]
<1>1. /\ pc = "walk" /\ call.then = "grow" /\ Found(call.p, oh) /\ Touches(oh, nx) /\ SizeOK
  BY DEF GrowSplit, Inv, LocalsOK
<1>2. /\ oh \in Live /\ oh \in Addr /\ nx \in free /\ nx \in Addr /\ nx # oh
      /\ size[oh] < call.nunits /\ size[oh] \in Nat /\ call.nunits \in Nat
  BY <1>1, GrowFacts
<1>3. n \in Nat /\ 0 < n /\ ~Refused(n) /\ call.nunits = Units(n)
  BY <1>1, UnitsOfCall
<1>4. /\ size' = [size EXCEPT ![oh] = call.nunits, ![nx] = 0, ![new] = avail - call.nunits]
      /\ free' = (free \ {nx}) \cup {new}
      /\ data' = Fill(d, oh, Reach(req[oh]), Reach(n)) /\ req' = [req EXCEPT ![oh] = n]
  BY DEF GrowSplit, Grown
<1>5. Live' = Live /\ req'[oh] = n /\ \A g \in Live \ {oh} : req'[g] = req[g]
  BY <1>2, <1>3, <1>4 DEF Live, Inv, TypeOK
<1>6. new \in free' /\ new \in Addr /\ new \notin Live /\ new \in Chunks' /\ new # base /\ 0 < size'[new]
  <2>1. oh \in Int /\ HeapStart \in Int /\ base < HeapStart /\ HeapStart <= oh
    BY <1>2, LiveFacts, HeapAssumption DEF Addr, base
  <2>2. new # base
    BY <1>2, <2>1 DEF base
  <2>3. new \in free' /\ new \in Chunks'
    BY <1>4 DEF Chunks
  <2>4. new \in Addr /\ new \notin Live'
    BY <2>3 DEF Inv, TypeOK, Tiled, OneOwner
  <2> QED BY <1>5, <2>2, <2>3, <2>4 DEF Inv, Tiled, Tiles
<1>7. oh \in Int /\ new = oh + call.nunits /\ oh # new
  BY <1>2, HeapAssumption DEF Addr, base
<1> HIDE DEF oh, nx, n, new, avail
<1>8. /\ size'[oh] = Units(n) /\ size[oh] <= Units(n) /\ d \in [Addr -> Nat]
      /\ \A g \in Live \ {oh} : size'[g] = size[g]
  BY <1>2, <1>3, <1>4, <1>6, <1>7 DEF Live, Inv, TypeOK, Tiled, OneOwner
<1>9. \A a \in Addr : a # new => d[a] = data[a]
  BY <1>6 DEF Inv, TypeOK
<1>10. \A a \in Addr : oh < a /\ a < oh + size[oh] => d[a] = data[a]
  BY <1>2, <1>7, <1>9 DEF Addr, base
<1> HIDE DEF d
<1>11. /\ Whole(oh, size', req', data')
       /\ \A a \in Addr : data'[a] # d[a] => oh <= a /\ a < oh + size'[oh]
  BY <1>2, <1>3, <1>4, <1>5, <1>8, <1>10, ResizedWhole
<1>12. oh \in Chunks'
  BY <1>2, <1>5, LiveFactsNext
<1>13. new \in Int /\ size'[new] \in Nat /\ new <= new /\ new < new + size'[new]
  <2>1. size'[new] \in Nat
    BY <1>6 DEF Inv, TypeOK
  <2> QED BY <1>6, <2>1, HeapAssumption DEF Addr, base
<1>14. ASSUME NEW a \in Addr, data'[a] # data[a]
       PROVE \E c \in Chunks' : c \notin Live' \ {oh} /\ c <= a /\ a < c + size'[c]
  <2>1. CASE a = new
    BY <1>5, <1>6, <1>13, <2>1
  <2>2. CASE a # new
    BY <1>9, <1>11, <1>12, <1>14, <2>2
  <2> QED BY <2>1, <2>2
<1> QED BY <1>2, <1>5, <1>8, <1>11, <1>14, OneBlock

\* malloc() hands a chunk to the program.
LEMMA GrantNewContents ==
    ASSUME NoWrap, Inv, Inv', Contents, pc = "scan", call.old = NULL, NEW h \in Addr, h \notin Live,
           Grant(h, [data EXCEPT ![h] = 0]), size'[h] = call.nunits,
           \A g \in Live : size'[g] = size[g]
    PROVE  Contents'
<1> DEFINE n == call.nbytes
           to == Reach(n)
           d == [data EXCEPT ![h] = 0]
<1>1. n \in Nat /\ 0 < n /\ call.nunits = to + 1 /\ to \in Nat
  BY UnitsOfCall DEF Inv, LocalsOK
<1>2. req' = [req EXCEPT ![h] = n] /\ data' = Fill(d, h, 0, to)
  BY DEF Grant
<1>3. d \in [Addr -> Nat] /\ \A a \in Addr : a # h => d[a] = data[a]
  BY DEF Inv, TypeOK
<1> HIDE DEF n, d
<1>4. Live' = Live \cup {h} /\ req'[h] = n /\ \A g \in Live : req'[g] = req[g]
  BY <1>1, <1>2 DEF Live, Inv, TypeOK
<1>5. h \in Int /\ h \in Chunks' /\ \A k \in Int : 0 < k /\ k < size'[h] => h + k \in Addr
  BY <1>4, LiveFactsNext, HeapAssumption DEF Addr, base
<1> HIDE DEF to
<1>6. \A k \in 1 .. to : h + k \in Addr /\ ~(k <= 0)
  BY <1>1, <1>5
<1>7. \A k \in 1 .. to : Fill(d, h, 0, to)[h + k] = k
  <2>1. 0 \in Nat /\ \A k \in 1 .. to : h + k \in Addr /\ (k <= 0 => d[h + k] = k)
    BY <1>6
  <2> QED BY <1>1, <1>3, <2>1, FillWhole
<1>8. Whole(h, size', req', data')
  BY <1>1, <1>2, <1>4, <1>7 DEF Whole, to
<1>9. ASSUME NEW a \in Addr, data'[a] # data[a] PROVE h <= a /\ a < h + size'[h]
  <2>1. a \in Int
    BY HeapAssumption DEF Addr, base
  <2>2. CASE a = h
    BY <1>1, <1>5, <2>2
  <2>3. CASE a # h
    <3>1. Fill(d, h, 0, to)[a] # d[a]
      BY <1>2, <1>3, <1>9, <2>3
    <3>2. 0 \in Nat
      OBVIOUS
    <3>3. ~(a <= h \/ h + to < a)
      BY <1>1, <1>3, <3>1, <3>2, FillOutside
    <3> QED BY <1>1, <1>5, <2>1, <3>3
  <2> QED BY <2>2, <2>3
<1> QED BY <1>4, <1>5, <1>8, <1>9, OneBlock

\* realloc() moves a block: the new one holds what the old one held, up to the
\* lesser of the two sizes, and the old one is no block any more.
LEMMA GrantMoveContents ==
    ASSUME NoWrap, Inv, Inv', Contents, pc = "scan", call.old # NULL, NEW h \in Addr, h \notin Live,
           Grant(h, [data EXCEPT ![h] = 0]), size'[h] = call.nunits,
           \A g \in Live : size'[g] = size[g]
    PROVE  Contents'
<1> DEFINE n == call.nbytes
           to == Reach(n)
           d == [data EXCEPT ![h] = 0]
           old == call.old
           copy == Reach(CopyBytes(old, n))
           kept == Reach(Lesser(req[old], n))
           copied == [a \in Addr |-> IF h < a /\ a <= h + copy THEN d[old + (a - h)] ELSE d[a]]
           e == Erase(copied, old, old + size[old])
<1>1. n \in Nat /\ 0 < n /\ call.nunits = to + 1 /\ to \in Nat
  BY UnitsOfCall DEF Inv, LocalsOK
<1>2. old \in Live /\ old # h /\ old \in Addr /\ size[old] \in Nat /\ 0 < size[old]
  <2>1. old \in Live
    BY DEF Inv, LocalsOK
  <2> QED BY <2>1, LiveFacts
<1>3. /\ req' = [req EXCEPT ![h] = n, ![old] = 0] /\ data' = Fill(e, h, kept, to)
      /\ pc' = "walk"
      /\ call' = [NoCall EXCEPT !.p = call.prev, !.hp = old, !.then = "user"]
  BY DEF Grant
<1>4. d \in [Addr -> Nat] /\ \A a \in Addr : a # h => d[a] = data[a]
  BY DEF Inv, TypeOK
<1>5. Pending' = {old}
  BY <1>3 DEF Pending, NoCall
<1>6. (size[old] - 1) * HSize >= req[old] /\ req[old] \in Nat /\ size[old] = Reach(req[old]) + 1
      /\ \A k \in 1 .. Reach(req[old]) : data[old + k] = k
  <2>1. req[old] \in Nat
    BY <1>2 DEF Inv, TypeOK
  <2>2. Whole(old, size, req, data)
    BY <1>2 DEF Contents
  <2>3. Reach(req[old]) \in Nat /\ req[old] <= Reach(req[old]) * HSize
    BY <2>1, ReachType, ReachFacts
  <2>4. size[old] - 1 = Reach(req[old])
    BY <2>2, <2>3 DEF Whole
  <2>5. Reach(req[old]) * HSize \in Nat
    BY <2>3, UnitAssumption
  <2>6. (size[old] - 1) * HSize = Reach(req[old]) * HSize
    BY <2>4
  <2> QED BY <2>1, <2>2, <2>3, <2>5, <2>6 DEF Whole
<1>7. copy \in Nat /\ copy <= size[old] - 1 /\ kept <= copy /\ copy <= to
  <2>1. copy \in Nat /\ copy <= size[old] - 1 /\ kept <= copy
    BY <1>1, <1>2, <1>6, CopyReach
  <2>2. (size[old] - 1) * HSize \in Nat
    <3>1. size[old] - 1 \in Nat /\ HSize \in Nat
      BY <1>2, UnitAssumption
    <3> QED BY <3>1
  <2>3. CopyBytes(old, n) \in Nat /\ CopyBytes(old, n) <= n
    <3> DEFINE m == (size[old] - 1) * HSize
    <3>1. m \in Nat /\ CopyBytes(old, n) = Lesser(m, n)
      BY <2>2 DEF CopyBytes
    <3> HIDE DEF m
    <3> QED BY <1>1, <3>1 DEF Lesser
  <2>4. copy <= to
    BY <1>1, <2>3, ReachFacts
  <2> QED BY <2>1, <2>4
<1>8. kept \in Nat /\ kept <= Reach(req[old])
  <2>1. Lesser(req[old], n) \in Nat /\ Lesser(req[old], n) <= req[old]
    BY <1>1, <1>6 DEF Lesser
  <2> QED BY <1>6, <2>1, ReachType, ReachFacts
<1> HIDE DEF n, d, old
<1>9. /\ Live' = (Live \cup {h}) \ {old} /\ req'[h] = n
      /\ \A g \in Live \ {old} : req'[g] = req[g]
  BY <1>1, <1>2, <1>3 DEF Live, Inv, TypeOK
<1>10. /\ h \in Int /\ h \in Live' /\ h \in Chunks' /\ old \in Chunks' /\ old \notin Live'
       /\ old \in Int /\ size'[old] = size[old]
       /\ \A k \in Int : 0 < k /\ k < size'[h] => h + k \in Addr
  <2>1. h \in Live' /\ old \in Chunks' /\ old \notin Live' /\ size'[old] = size[old]
    BY <1>2, <1>5, <1>9 DEF Chunks
  <2> QED BY <1>2, <2>1, LiveFactsNext, HeapAssumption DEF Addr, base
<1>11. h + size'[h] <= old \/ old + size[old] <= h
  BY <1>2, <1>10 DEF Inv, Tiled, Tiles
<1> HIDE DEF to, copy, kept
<1>12. e \in [Addr -> Nat]
  <2>1. ASSUME NEW a \in Addr, h < a, a <= h + copy PROVE d[old + (a - h)] \in Nat
    <3>1. a \in Int
      BY HeapAssumption DEF Addr, base
    <3> DEFINE k == a - h
    <3>2. k \in Int /\ 0 < k /\ k < size[old]
      BY <1>2, <1>7, <1>10, <2>1, <3>1
    <3> HIDE DEF k
    <3>3. old + k \in Addr
      BY <1>2, <3>2, PayloadAddr
    <3> QED BY <1>4, <3>3 DEF k
  <2>2. copied \in [Addr -> Nat]
    BY <1>4, <2>1
  <2> QED BY <2>2, EraseType
<1>13. ASSUME NEW k \in 1 .. to PROVE h + k \in Addr /\ (k <= kept => e[h + k] = k)
  <2>1. h + k \in Addr
    BY <1>1, <1>10
  <2>2. ASSUME k <= kept PROVE e[h + k] = k
    <3>1. k \in Int /\ 0 < k /\ k < size[old] /\ k <= copy /\ k \in 1 .. Reach(req[old])
      BY <1>1, <1>2, <1>6, <1>7, <1>8, <2>2, ReachType
    <3>2. old + k \in Addr /\ old + k # h
      <4>1. old + k \in Addr
        BY <1>2, <3>1, PayloadAddr
      <4> QED BY <1>1, <1>2, <1>10, <1>11, <3>1, <4>1
    <3>3. d[old + k] = k
      BY <1>4, <1>6, <3>1, <3>2
    <3>4. h < h + k /\ h + k <= h + copy /\ old + ((h + k) - h) = old + k
      BY <1>7, <1>10, <3>1
    <3>5. copied[h + k] = k
      BY <2>1, <3>3, <3>4
    <3>6. ~(old <= h + k /\ h + k < old + size[old])
      BY <1>1, <1>2, <1>10, <1>11, <3>1
    <3> HIDE DEF copied
    <3> QED BY <2>1, <3>5, <3>6 DEF Erase
  <2> QED BY <2>1, <2>2
<1>14. ASSUME NEW a \in Addr, e[a] # data[a], a # h
       PROVE  (old <= a /\ a < old + size[old]) \/ (h <= a /\ a < h + size'[h])
  <2>1. a \in Int
    BY HeapAssumption DEF Addr, base
  <2>2. (old <= a /\ a < old + size[old]) \/ e[a] = copied[a]
    <3> HIDE DEF copied
    <3> QED BY DEF Erase
  <2>3. copied[a] = d[a] \/ (h < a /\ a <= h + copy)
    OBVIOUS
  <2>4. h < a /\ a <= h + copy => h <= a /\ a < h + size'[h]
    BY <1>1, <1>7, <1>10, <2>1
  <2> QED BY <1>4, <1>14, <2>2, <2>3, <2>4
<1> HIDE DEF e
<1>15. \A k \in 1 .. to : Fill(e, h, kept, to)[h + k] = k
  BY <1>1, <1>8, <1>12, <1>13, FillWhole
<1>16. Whole(h, size', req', data')
  BY <1>1, <1>3, <1>9, <1>15 DEF Whole, to
<1>17. ASSUME NEW a \in Addr, data'[a] # data[a]
       PROVE  (old <= a /\ a < old + size[old]) \/ (h <= a /\ a < h + size'[h])
  <2>1. a \in Int
    BY HeapAssumption DEF Addr, base
  <2>2. CASE a = h
    BY <1>1, <1>10, <2>2
  <2>3. CASE a # h /\ e[a] # data[a]
    BY <1>14, <2>3
  <2>4. CASE e[a] = data[a]
    <3>1. Fill(e, h, kept, to)[a] # e[a]
      BY <1>3, <1>17, <2>4
    <3>2. ~(a <= h \/ h + to < a)
      BY <1>1, <1>8, <1>12, <3>1, FillOutside
    <3> QED BY <1>1, <1>10, <2>1, <3>2
  <2> QED BY <2>2, <2>3, <2>4
<1>18. Live' \ {h} \subseteq Live /\ \A g \in Live' \ {h} : size'[g] = size[g] /\ req'[g] = req[g]
  BY <1>9
<1> QED BY <1>10, <1>16, <1>17, <1>18, OneBlock

\* malloc() unlinks a chunk.
LEMMA ScanExactContents == ASSUME NoWrap, Inv, Inv', Contents, ScanExact PROVE Contents'
<1>1. /\ pc = "scan" /\ call.prev \in free /\ cur = next[call.prev]
      /\ size[cur] = call.nunits /\ size' = size /\ Grant(cur, [data EXCEPT ![cur] = 0])
  BY DEF ScanExact, Inv, LocalsOK, cur
<1>2. cur \in free /\ cur \in Addr
  BY <1>1, NextFree
<1>3. cur \notin Live
  BY <1>2 DEF Inv, Tiled, OneOwner
<1> HIDE DEF cur
<1> QED BY <1>1, <1>2, <1>3, GrantNewContents, GrantMoveContents

\* malloc() cuts a block off a chunk.
LEMMA ScanSplitContents == ASSUME NoWrap, Inv, Inv', Contents, ScanSplit PROVE Contents'
<1> DEFINE new == RightPart(cur, call.nunits)
           rest == size[cur] - call.nunits
<1>1. /\ pc = "scan" /\ call.prev \in free /\ cur = next[call.prev] /\ SizeOK
      /\ size[cur] > call.nunits /\ size' = [size EXCEPT ![cur] = rest, ![new] = call.nunits]
      /\ Grant(new, [data EXCEPT ![new] = 0])
  BY DEF ScanSplit, Inv, LocalsOK, cur
<1>2. /\ cur \in free /\ cur \in Addr /\ cur \notin Live /\ cur \in Chunks /\ size \in [Addr -> Nat]
      /\ Chunks \subseteq Addr /\ Tiles(Chunks, size, brk) /\ brk \in HeapStart .. HeapEnd
  <2>1. cur \in free /\ cur \in Addr
    BY <1>1, NextFree
  <2> QED BY <1>1, <2>1 DEF Inv, Tiled, OneOwner, Chunks, TypeOK, Live, Pending
<1>3. call.nunits \in Nat /\ 0 < call.nunits
  BY <1>1, SizeFacts DEF Inv
<1>4. cur # base
  BY <1>1, <1>3 DEF Inv, Linked
<1> HIDE DEF cur
<1>5. HeapStart <= cur /\ cur + size[cur] <= brk
  BY <1>2, <1>4 DEF Tiles
<1>6. new \in Addr /\ cur < new /\ new < cur + size[cur]
  <2>1. cur \in Int /\ 1 <= cur /\ HeapEnd \in Int /\ HeapStart \in Int /\ brk \in Int /\ brk <= HeapEnd
        /\ new = cur + (size[cur] - call.nunits) /\ size[cur] \in Nat
    BY <1>2, HeapAssumption DEF Addr, base, RightPart
  <2>2. new \in 1 .. HeapEnd
    <3> HIDE DEF new
    <3> QED BY <1>1, <1>3, <1>5, <2>1
  <2> QED BY <1>1, <1>3, <2>1, <2>2 DEF Addr, base
<1> HIDE DEF new, rest
<1>7. new \notin Chunks
  BY <1>2, <1>4, <1>6, InsideNoChunk
<1>8. new \notin Live
  BY <1>7 DEF Chunks
<1>9. size'[new] = call.nunits /\ \A g \in Live : size'[g] = size[g]
  BY <1>1, <1>2, <1>6, <1>8 DEF Live
<1> QED BY <1>1, <1>6, <1>8, <1>9, GrantNewContents, GrantMoveContents

\* morecore() writes a header above the heap.
LEMMA MoreCoreContents == ASSUME Inv, Contents, MoreCore PROVE Contents'
<1>1. UNCHANGED <<data, req>> /\ size' = [size EXCEPT ![brk] = CoreUnits(call.nunits)]
  BY DEF MoreCore
<1>2. \A h \in Live : h # brk /\ h \in Addr
  <2>1. ASSUME NEW h \in Live PROVE h # brk /\ h \in Addr
    <3>1. 0 < size[h] /\ h + size[h] <= brk /\ h \in Addr /\ size[h] \in Nat
      BY LiveFacts
    <3> QED BY <3>1, HeapAssumption DEF Addr, base
  <2> QED BY <2>1
<1>3. Live' = Live
  BY <1>1 DEF Live
<1>4. \A h \in Live : size'[h] = size[h]
  BY <1>1, <1>2 DEF Inv, TypeOK
<1> QED BY <1>1, <1>3, <1>4, KeptContents

\* Every step of every call keeps the contents.
LEMMA StepContents == ASSUME NoWrap, Inv, Inv', Contents, [Next]_vars PROVE Contents'
<1>1. ASSUME UNCHANGED heapVars PROVE Contents'
  BY <1>1, QuietContents DEF heapVars
<1>2. ASSUME NEW n \in Requests, CallMalloc(n) PROVE Contents'
  BY <1>1, <1>2 DEF CallMalloc, vars
<1>3. ASSUME NEW m \in Members, NEW n \in Members, CallCalloc(m, n) PROVE Contents'
  BY <1>1, <1>3 DEF CallCalloc, vars
<1>4. ASSUME NEW h \in Live \cup {NULL}, CallFree(h) PROVE Contents'
  <2>1. CASE h = NULL
    BY <1>1, <1>4, <2>1 DEF CallFree, vars
  <2>2. CASE h # NULL
    BY <1>4, <2>2, CallFreeContents
  <2> QED BY <2>1, <2>2
<1>5. ASSUME NEW h \in Live \cup {NULL}, NEW n \in Requests, CallRealloc(h, n) PROVE Contents'
  <2>1. CASE Refused(n) \/ h = NULL
    <3>1. UNCHANGED heapVars
      BY <1>5, <2>1 DEF CallRealloc, vars
    <3> QED BY <1>1, <3>1
  <2>2. CASE ~Refused(n) /\ h # NULL
    <3>1. pc = "idle" /\ h \in Live
      BY <1>5, <2>2 DEF CallRealloc
    <3>2. CASE ReallocGrow(h, n)
      BY <1>1, <3>2 DEF ReallocGrow
    <3> QED BY <1>5, <2>2, <3>1, <3>2, ReallocSameContents, ReallocShrinkContents DEF CallRealloc
  <2> QED BY <2>1, <2>2
<1>6. ASSUME FreeChunk \/ FreeCore PROVE Contents'
  <2>1. /\ pc = "walk" /\ call.then \in {"user", "morecore"} /\ Found(call.p, call.hp)
        /\ JoinChunk(call.p, call.hp) /\ req' = req
    BY <1>6 DEF FreeChunk, FreeCore
  <2> QED BY <2>1, JoinContents
<1>7. ASSUME WalkNext \/ GrowMove \/ ScanNext \/ NoCore PROVE Contents'
  BY <1>1, <1>7 DEF WalkNext, GrowMove, ScanNext, NoCore
<1>8. ASSUME Library PROVE Contents'
  BY <1>6, <1>7, <1>8, GrowExactContents, GrowSplitContents, ScanExactContents,
     ScanSplitContents, MoreCoreContents DEF Library
<1>9. ASSUME UNCHANGED vars PROVE Contents'
  BY <1>1, <1>9 DEF vars
<1> QED BY <1>2, <1>3, <1>4, <1>5, <1>8, <1>9 DEF Next, Program

\* There is no block at first.
LEMMA InitContents == Init => Contents
  BY DEF Init, Contents, Live

\* The invariant says more than Intact.
LEMMA ContentsIntact == ASSUME Inv, Contents PROVE Intact
<1>1. ASSUME NEW h \in Live
      PROVE  (size[h] - 1) * HSize >= req[h] /\ \A k \in 1 .. Reach(req[h]) : data[h + k] = k
  <2>1. req[h] \in Nat
    BY LiveFacts DEF Inv, TypeOK
  <2>2. Reach(req[h]) \in Nat /\ req[h] <= Reach(req[h]) * HSize
    BY <2>1, ReachType, ReachFacts
  <2>3. size[h] - 1 = Reach(req[h]) /\ \A k \in 1 .. Reach(req[h]) : data[h + k] = k
    BY <2>2 DEF Contents, Whole
  <2>4. Reach(req[h]) * HSize \in Nat
    BY <2>2, UnitAssumption
  <2>5. (size[h] - 1) * HSize = Reach(req[h]) * HSize
    BY <2>3
  <2> QED BY <2>1, <2>2, <2>3, <2>4, <2>5
<1> QED BY <1>1 DEF Intact

(***************************************************************************)
(* A block is as large as the program asked for and holds what it put      *)
(* there: no header falls on a payload, and realloc keeps the contents up  *)
(* to the lesser of the two sizes, whether the block stays, shrinks, grows *)
(* into the chunk behind it or moves.                                      *)
(***************************************************************************)
THEOREM BlocksIntact == Spec => []Intact
<1>1. Init => Inv /\ Contents
  BY InitInv, InitContents
<1>2. Inv /\ Contents /\ [Next]_vars => Inv' /\ Contents'
  BY RequestsFit, StepInv, StepContents
<1>3. Inv /\ Contents => Intact
  BY ContentsIntact
<1> QED BY <1>1, <1>2, <1>3, PTL DEF Spec

(***************************************************************************)
(* The header and all the units of a block are memory that the break       *)
(* covers: what malloc.c says of nunits is true of every request that does *)
(* not make the product in morecore wrap.                                  *)
(***************************************************************************)
THEOREM BlocksInHeap == Spec => []BlockInHeap
<1>1. Init => Inv /\ Contents
  BY InitInv, InitContents
<1>2. Inv /\ Contents /\ [Next]_vars => Inv' /\ Contents'
  BY RequestsFit, StepInv, StepContents
<1>3. ASSUME Inv, Contents, NEW h \in Live PROVE h + Reach(req[h]) < brk
  <2>1. h \in Addr /\ h + size[h] <= brk /\ brk \in HeapStart .. HeapEnd
    BY <1>3, LiveFacts DEF Inv, TypeOK
  <2>2. req[h] \in Nat
    BY <1>3, <2>1 DEF Inv, TypeOK
  <2>3. Reach(req[h]) \in Nat /\ size[h] = Reach(req[h]) + 1
    BY <1>3, <2>2, ReachType DEF Contents, Whole
  <2>4. h \in Int /\ brk \in Int
    BY <2>1, HeapAssumption DEF Addr, base
  <2> QED BY <2>1, <2>3, <2>4
<1>4. Inv /\ Contents => BlockInHeap
  BY <1>3 DEF BlockInHeap
<1> QED BY <1>1, <1>2, <1>4, PTL DEF Spec

-----------------------------------------------------------------------------
(* malloc gives up only when nothing fits                                  *)

\* The members of the list the scan has passed: those on the way round from
\* _freep, without it, to the cursor.
Passed(q, from, to) ==
    \/ from < q /\ q <= to
    \/ to < from /\ (from < q \/ q <= to)

\* The scan passes a chunk only when it is too small.
ScanOK == pc = "scan" => \A q \in free : Passed(q, freep, call.prev) => size[q] < call.nunits

\* The scan starts at _freep and has passed nothing.
LEMMA ScanStart == ASSUME Inv', call'.prev = freep' PROVE ScanOK'
<1>1. freep' \in Int /\ \A q \in free' : q \in Int
  BY HeapAssumption DEF Inv, TypeOK, Addr, base
<1> QED BY <1>1 DEF ScanOK, Passed

\* One turn of the loop passes one chunk.
LEMMA PassOne ==
    ASSUME NEW F \in SUBSET Addr, NEW nx, Circular(F, nx), base \in F, NEW from \in F, NEW p \in F,
           nx[p] # from, NEW q \in F, Passed(q, from, nx[p])
    PROVE  q = nx[p] \/ Passed(q, from, p)
<1>1. nx[p] \in F /\ (nx[p] = base \/ p < nx[p]) /\ (q <= p \/ (nx[p] # base /\ nx[p] <= q))
      /\ (from <= p \/ (nx[p] # base /\ nx[p] <= from))
  BY DEF Circular
<1>2. q \in Int /\ p \in Int /\ from \in Int /\ base \in Int
      /\ base <= q /\ base <= p /\ base <= from
  BY HeapAssumption DEF Addr, base
<1> DEFINE c == nx[p]
<1>3. c \in Addr /\ c # from /\ (c = base \/ p < c) /\ (q <= p \/ (c # base /\ c <= q))
      /\ (from <= p \/ (c # base /\ c <= from)) /\ Passed(q, from, c)
  BY <1>1, <1>2
<1> HIDE DEF c
<1>4. c \in Int
  BY <1>3, HeapAssumption DEF Addr, base
<1>5. q = c \/ Passed(q, from, p)
  BY <1>2, <1>3, <1>4 DEF Passed
<1> QED BY <1>5 DEF c

\* Back at _freep the scan has passed all the others.
LEMMA PassAll ==
    ASSUME NEW F \in SUBSET Addr, NEW nx, Circular(F, nx), base \in F, NEW from \in F, NEW p \in F,
           nx[p] = from, NEW q \in F
    PROVE  q = from \/ Passed(q, from, p)
<1>1. (from = base \/ p < from) /\ (q <= p \/ (from # base /\ from <= q))
  BY DEF Circular
<1>2. q \in Int /\ p \in Int /\ from \in Int /\ base \in Int /\ base <= q /\ base <= p /\ base <= from
  BY HeapAssumption DEF Addr, base
<1> QED BY <1>1, <1>2 DEF Passed

\* Every step keeps ScanOK.
LEMMA StepScan == ASSUME NoWrap, Inv, Inv', ScanOK, [Next]_vars PROVE ScanOK'
<1>1. ASSUME UNCHANGED vars PROVE ScanOK'
  BY <1>1 DEF ScanOK, Passed, vars, heapVars
<1>2. ASSUME NEW n, NEW old, StartMalloc(n, old), UNCHANGED heapVars PROVE ScanOK'
  <2>1. call'.prev = freep'
    BY <1>2 DEF StartMalloc, NoCall, heapVars
  <2> QED BY <2>1, ScanStart
<1>3. ASSUME pc' # "scan" PROVE ScanOK'
  BY <1>3 DEF ScanOK
<1>4. CASE Program
  <2>1. ASSUME NEW n \in Requests, CallMalloc(n) PROVE ScanOK'
    BY <1>1, <1>2, <2>1 DEF CallMalloc
  <2>2. ASSUME NEW m \in Members, NEW n \in Members, CallCalloc(m, n) PROVE ScanOK'
    BY <1>1, <1>2, <2>2 DEF CallCalloc
  <2>3. ASSUME NEW h, CallFree(h) PROVE ScanOK'
    BY <1>1, <1>3, <2>3 DEF CallFree, StartWalk
  <2>4. ASSUME NEW h, NEW n \in Requests, CallRealloc(h, n) PROVE ScanOK'
    <3>1. CASE ReallocSame(h, n) /\ pc = "idle"
      BY <1>3, <3>1 DEF ReallocSame
    <3>2. CASE ReallocShrink(h, n) \/ ReallocGrow(h, n)
      <4>1. pc' = "walk"
        BY <3>2 DEF ReallocShrink, ReallocGrow, StartWalk
      <4> QED BY <1>3, <4>1
    <3> QED BY <1>1, <1>2, <2>4, <3>1, <3>2 DEF CallRealloc
  <2> QED BY <1>4, <2>1, <2>2, <2>3, <2>4 DEF Program
<1>5. CASE GrowMove
  BY <1>2, <1>5 DEF GrowMove
<1>6. CASE FreeCore
  <2>1. call'.prev = freep'
    BY <1>6 DEF FreeCore, Inv, TypeOK, Locals
  <2> QED BY <2>1, ScanStart
<1>7. CASE ScanNext
  <2>1. /\ pc = "scan" /\ call.prev \in free /\ freep \in free /\ free \in SUBSET Addr
        /\ Circular(free, next) /\ base \in free /\ next[call.prev] # freep
        /\ ~(size[next[call.prev]] >= call.nunits)
    BY <1>7 DEF ScanNext, Fits, WentRound, cur, Inv, LocalsOK, TypeOK, Linked
  <2>2. call'.prev = next[call.prev] /\ call'.nunits = call.nunits /\ UNCHANGED <<free, freep, size>>
    BY <1>7 DEF ScanNext, cur, heapVars, Inv, TypeOK, Locals
  <2>3. size[next[call.prev]] < call.nunits
    <3>1. size[next[call.prev]] \in Nat /\ call.nunits \in Nat
      BY <2>1, NextFree DEF Inv, TypeOK, Locals
    <3> QED BY <2>1, <3>1
  <2>4. ASSUME NEW q \in free, Passed(q, freep, next[call.prev]) PROVE size[q] < call.nunits
    <3>1. q = next[call.prev] \/ Passed(q, freep, call.prev)
      BY <2>1, <2>4, PassOne
    <3> QED BY <2>1, <2>3, <3>1 DEF ScanOK
  <2> QED BY <2>2, <2>4 DEF ScanOK
<1>8. CASE WalkNext \/ FreeChunk \/ GrowExact \/ GrowSplit \/ MoreCore \/ NoCore
  <2>1. pc' # "scan"
    BY <1>8 DEF WalkNext, FreeChunk, GrowExact, GrowSplit, MoreCore, NoCore, Return, Grown, StartWalk
  <2> QED BY <1>3, <2>1
<1>9. CASE ScanExact \/ ScanSplit
  <2>1. pc' # "scan"
    BY <1>9 DEF ScanExact, ScanSplit, Grant, Return
  <2> QED BY <1>3, <2>1
<1> QED BY <1>1, <1>4, <1>5, <1>6, <1>7, <1>8, <1>9 DEF Next, Library

\* The chunk that malloc finds, or cuts off, is no block yet.
LEMMA GrantedIsNew ==
    ASSUME NoWrap, Inv, ScanExact \/ ScanSplit
    PROVE  pc = "scan" /\ \E h \in Addr : \E d : h \notin Live /\ Grant(h, d)
<1>1. /\ pc = "scan" /\ cur \in free /\ cur \in Addr /\ cur \notin Live /\ SizeOK
  <2>1. pc = "scan" /\ call.prev \in free /\ SizeOK
    BY DEF ScanExact, ScanSplit, Inv, LocalsOK
  <2> QED BY <2>1, NextFree DEF cur, Inv, Tiled, OneOwner
<1>2. CASE ScanExact
  BY <1>1, <1>2 DEF ScanExact
<1>3. CASE ScanSplit
  <2> DEFINE new == RightPart(cur, call.nunits)
  <2>1. Grant(new, [data EXCEPT ![new] = 0]) /\ size[cur] > call.nunits
    BY <1>3 DEF ScanSplit
  <2>2. call.nunits \in Nat /\ 0 < call.nunits
    BY <1>1, SizeFacts DEF Inv
  <2>3. cur # base /\ cur \in Chunks /\ Chunks \in SUBSET Addr
        /\ Tiles(Chunks, size, brk) /\ size \in [Addr -> Nat] /\ brk \in HeapStart .. HeapEnd
    BY <1>1, <2>1, <2>2 DEF Inv, Linked, Chunks, Tiled, TypeOK, Live, Pending
  <2>4. cur + size[cur] <= brk
    BY <2>3 DEF Tiles
  <2> HIDE DEF cur
  <2>5. new = cur + (size[cur] - call.nunits) /\ cur \in Int /\ 1 <= cur /\ brk <= HeapEnd
        /\ brk \in Int /\ HeapEnd \in Int /\ size[cur] \in Nat
    BY <1>1, <2>3, HeapAssumption DEF RightPart, Addr, base
  <2> HIDE DEF new
  <2>6. new \in 1 .. HeapEnd /\ cur < new /\ new < cur + size[cur]
    BY <2>1, <2>2, <2>4, <2>5
  <2>7. new \in Addr
    BY <2>6 DEF Addr, base
  <2>8. new \notin Chunks
    BY <2>3, <2>6, <2>7, InsideNoChunk
  <2> QED BY <1>1, <2>1, <2>7, <2>8 DEF Chunks
<1> QED BY <1>1, <1>2, <1>3

\* A step of the scan that returns without a block is NoCore.
LEMMA GivesUpIsNoCore == ASSUME NoWrap, Inv, Next, GivesUp PROVE NoCore
<1>1. pc = "scan" /\ pc' = "idle" /\ req' = req
  BY DEF GivesUp
<1>2. ASSUME ScanExact \/ ScanSplit PROVE FALSE
  <2>1. PICK h \in Addr : \E d : h \notin Live /\ Grant(h, d)
    BY <1>2, GrantedIsNew
  <2>2. call.nbytes \in Nat /\ 0 < call.nbytes
    BY <1>1, SizeFacts DEF Inv, LocalsOK
  <2>3. req[h] = 0 /\ req \in [Addr -> Nat] /\ h \in Addr
    BY <2>1 DEF Inv, TypeOK, Live
  <2>4. req' = [req EXCEPT ![h] = call.nbytes]
    BY <1>1, <2>1 DEF Grant
  <2> QED BY <1>1, <2>1, <2>2, <2>3, <2>4
<1>3. ~Program
  BY <1>1 DEF Program, CallMalloc, CallCalloc, CallFree, CallRealloc
<1> QED BY <1>1, <1>2, <1>3 DEF Next, Library, WalkNext, FreeChunk, FreeCore, GrowExact, GrowSplit,
           GrowMove, ScanNext, MoreCore, StartWalk

(***************************************************************************)
(* malloc returns a null pointer only when no chunk of the free list is    *)
(* large enough, wherever in the list _freep was when the scan began.      *)
(***************************************************************************)
THEOREM GivesUpHonestly == Spec => NoFitWhenNull
<1>1. Init => Inv /\ ScanOK
  BY InitInv DEF Init, ScanOK
<1>2. Inv /\ ScanOK /\ [Next]_vars => Inv' /\ ScanOK'
  BY RequestsFit, StepInv, StepScan
<1>3. ASSUME Inv, ScanOK, Next, GivesUp, NEW h \in free PROVE size[h] < call.nunits
  <2>1. NoCore
    BY <1>3, RequestsFit, GivesUpIsNoCore
  <2>2. /\ pc = "scan" /\ call.prev \in free /\ freep \in free /\ free \in SUBSET Addr
        /\ Circular(free, next) /\ base \in free /\ next[call.prev] = freep
        /\ ~(size[freep] >= call.nunits)
    BY <1>3, <2>1 DEF NoCore, Fits, WentRound, cur, Inv, LocalsOK, TypeOK, Linked
  <2>3. size[freep] \in Nat /\ call.nunits \in Nat
    BY <1>3, <2>2 DEF Inv, TypeOK, Locals
  <2>4. h = freep \/ Passed(h, freep, call.prev)
    BY <1>3, <2>2, PassAll
  <2> QED BY <1>3, <2>2, <2>3, <2>4 DEF ScanOK
<1>4. Inv /\ ScanOK /\ [Next]_vars => [GivesUp => \A h \in free : size[h] < call.nunits]_vars
  BY <1>3
<1> QED BY <1>1, <1>2, <1>4, PTL DEF Spec, NoFitWhenNull

-----------------------------------------------------------------------------
(* The allocator implements the abstract heap                              *)

\* The contents of a block of r bytes.
Held(r) == [k \in 1 .. Reach(r) |-> k]

\* It is a sequence as long as the bytes reach.
LEMMA HeldSeq ==
    ASSUME NEW r \in Nat
    PROVE  Len(Held(r)) = Reach(r) /\ Reach(r) \in Nat /\ \A k \in 1 .. Reach(r) : Held(r)[k] = k
<1>1. Reach(r) \in Nat
  BY ReachType
<1> DEFINE n == Reach(r)
<1>2. Held(r) \in Seq(Nat)
  <2>1. n \in Nat
    BY <1>1
  <2> HIDE DEF n
  <2>2. [k \in 1 .. n |-> k] \in Seq(Nat)
    BY <2>1, IsASeq
  <2> QED BY <2>2 DEF Held, n
<1>3. Len(Held(r)) \in Nat /\ DOMAIN Held(r) = 1 .. Len(Held(r))
  BY <1>2, LenProperties
<1>4. DOMAIN Held(r) = 1 .. n
  BY DEF Held
<1> QED BY <1>1, <1>3, <1>4 DEF Held

\* As the abstract heap sees them, the blocks are told by their sizes.
LEMMA OwnedHeld ==
    ASSUME NEW L, NEW r, NEW d, \A h \in L : \A k \in 1 .. Reach(r[h]) : d[h + k] = k
    PROVE  [h \in L |-> [k \in 1 .. Reach(r[h]) |-> d[h + k]]] = [h \in L |-> Held(r[h])]
<1>1. ASSUME NEW h \in L PROVE [k \in 1 .. Reach(r[h]) |-> d[h + k]] = Held(r[h])
  BY DEF Held
<1> QED BY <1>1

\* Before a step...
LEMMA OwnedNow ==
    ASSUME Contents
    PROVE  /\ DOMAIN Owned = Live /\ Owned = [h \in Live |-> Held(req[h])]
           /\ \A h \in Live : Owned[h] = Held(req[h])
<1>1. Owned = [h \in Live |-> Held(req[h])]
  BY OwnedHeld DEF Owned, Contents, Whole
<1> QED BY <1>1

\* ... and after it.
LEMMA OwnedNext ==
    ASSUME Contents'
    PROVE  /\ DOMAIN Owned' = Live' /\ Owned' = [h \in Live' |-> Held(req'[h])]
           /\ \A h \in Live' : Owned'[h] = Held(req'[h])
<1>1. \A h \in Live' : \A k \in 1 .. Reach(req'[h]) : data'[h + k] = k
  BY DEF Contents, Whole
<1>2. Owned' = [h \in Live' |-> [k \in 1 .. Reach(req'[h]) |-> data'[h + k]]]
  BY DEF Owned
<1>3. Owned' = [h \in Live' |-> Held(req'[h])]
  <2> DEFINE L == Live'
             r == req'
             d == data'
  <2>1. \A h \in L : \A k \in 1 .. Reach(r[h]) : d[h + k] = k
    BY <1>1
  <2> HIDE DEF L, r, d
  <2>2. [h \in L |-> [k \in 1 .. Reach(r[h]) |-> d[h + k]]] = [h \in L |-> Held(r[h])]
    BY <2>1, OwnedHeld
  <2> QED BY <1>2, <2>2 DEF L, r, d
<1> QED BY <1>3

\* No two blocks touch: there is a header between them.
LEMMA OwnedApart == ASSUME Inv', Contents' PROVE Contract!Apart(Owned')
<1>1. DOMAIN Owned' = Live' /\ \A h \in Live' : Owned'[h] = Held(req'[h])
  BY OwnedNext
<1>2. ASSUME NEW h \in Live'
      PROVE  /\ h \in Int /\ h \in Chunks' /\ Reach(req'[h]) \in Nat
             /\ Len(Owned'[h]) = Reach(req'[h]) /\ size'[h] = Reach(req'[h]) + 1
  <2>1. h \in Addr /\ h \in Chunks'
    BY LiveFactsNext
  <2>2. req'[h] \in Nat
    BY <2>1 DEF Inv, TypeOK
  <2>3. size'[h] = Reach(req'[h]) + 1
    BY DEF Contents, Whole
  <2> QED BY <1>1, <2>1, <2>2, <2>3, HeldSeq, HeapAssumption DEF Addr, base
<1>3. ASSUME NEW g \in Live', NEW h \in Live', g # h
      PROVE  g + Len(Owned'[g]) < h \/ h + Len(Owned'[h]) < g
  <2>1. g + size'[g] <= h \/ h + size'[h] <= g
    BY <1>2, <1>3 DEF Inv, Tiled, Tiles
  <2>2. size'[g] = Len(Owned'[g]) + 1 /\ size'[h] = Len(Owned'[h]) + 1
        /\ Len(Owned'[g]) \in Nat /\ Len(Owned'[h]) \in Nat /\ g \in Int /\ h \in Int
    BY <1>2
  <2> DEFINE m == Len(Owned'[g])
             n == Len(Owned'[h])
  <2> HIDE DEF m, n
  <2>3. g + m < h \/ h + n < g
    BY <2>1, <2>2 DEF m, n
  <2> QED BY <2>3 DEF m, n
<1> QED BY <1>1, <1>3 DEF Contract!Apart

\* A step that is about the blocks in B and leaves the sizes of the others.
LEMMA OthersHeld ==
    ASSUME Contents, Contents', NEW B, Live \ B = Live' \ B, \A h \in Live \ B : req'[h] = req[h]
    PROVE  Contract!Others(B)
<1>1. DOMAIN Owned = Live /\ \A h \in Live : Owned[h] = Held(req[h])
  BY OwnedNow
<1>2. DOMAIN Owned' = Live' /\ \A h \in Live' : Owned'[h] = Held(req'[h])
  BY OwnedNext
<1>3. ASSUME NEW h \in (Live \cup Live') \ B PROVE h \in Live /\ h \in Live' /\ Owned'[h] = Owned[h]
  <2>1. h \in Live /\ h \in Live'
    OBVIOUS
  <2> QED BY <1>1, <1>2, <2>1
<1> QED BY <1>1, <1>2, <1>3 DEF Contract!Others

\* malloc() gives the program a block.
LEMMA IsAlloc ==
    ASSUME Inv, Contents, Inv', Contents', NEW h \in Addr, h \notin Live, NEW n \in Nat, 0 < n,
           req' = [req EXCEPT ![h] = n]
    PROVE  Contract!Next
<1>1. Live' = Live \cup {h} /\ \A g \in Live : req'[g] = req[g]
  BY DEF Live, Inv, TypeOK
<1>2. h \in DOMAIN Owned' \ DOMAIN Owned
  BY <1>1, OwnedNow, OwnedNext
<1>3. Contract!Others({h})
  BY <1>1, OthersHeld
<1> QED BY <1>2, <1>3, OwnedApart DEF Contract!Next, Contract!Alloc

\* free() takes one back.
LEMMA IsRelease ==
    ASSUME Inv, Contents, Inv', Contents', NEW h \in Live, req' = [req EXCEPT ![h] = 0]
    PROVE  Contract!Next
<1>1. Live' = Live \ {h} /\ \A g \in Live \ {h} : req'[g] = req[g]
  BY DEF Live, Inv, TypeOK
<1>2. h \in DOMAIN Owned \ DOMAIN Owned'
  BY <1>1, OwnedNow, OwnedNext
<1>3. Contract!Others({h})
  BY <1>1, OthersHeld
<1> QED BY <1>2, <1>3, OwnedApart DEF Contract!Next, Contract!Release

\* Two blocks hold the same up to the lesser length.
LEMMA HeldPrefix ==
    ASSUME NEW r \in Nat, NEW s \in Nat, NEW k \in 1 .. Len(Held(r)), k <= Len(Held(s))
    PROVE  Held(s)[k] = Held(r)[k]
<1>1. Len(Held(r)) = Reach(r) /\ Reach(r) \in Nat /\ \A i \in 1 .. Reach(r) : Held(r)[i] = i
  BY HeldSeq
<1>2. Len(Held(s)) = Reach(s) /\ Reach(s) \in Nat /\ \A i \in 1 .. Reach(s) : Held(s)[i] = i
  BY HeldSeq
<1>3. k \in 1 .. Reach(r) /\ k \in 1 .. Reach(s)
  BY <1>1, <1>2
<1> QED BY <1>1, <1>2, <1>3

\* realloc() resizes one, in its place or in another.
LEMMA IsResize ==
    ASSUME Inv, Contents, Inv', Contents', NEW g \in Live, NEW h \in Live',
           g # h => h \notin Live /\ g \notin Live',
           Live \ {g, h} = Live' \ {g, h}, \A x \in Live \ {g, h} : req'[x] = req[x]
    PROVE  Contract!Next
<1>1. DOMAIN Owned = Live /\ Owned[g] = Held(req[g])
  BY OwnedNow
<1>2. DOMAIN Owned' = Live' /\ Owned'[h] = Held(req'[h])
  BY OwnedNext
<1>3. req[g] \in Nat /\ req'[h] \in Nat
  BY DEF Live, Inv, TypeOK
<1>4. \A k \in 1 .. Len(Owned[g]) : k <= Len(Owned'[h]) => Owned'[h][k] = Owned[g][k]
  BY <1>1, <1>2, <1>3, HeldPrefix
<1>5. Contract!Others({g, h})
  BY OthersHeld
<1>6. g \in DOMAIN Owned /\ h \in DOMAIN Owned'
      /\ (g # h => h \notin DOMAIN Owned /\ g \notin DOMAIN Owned')
  BY <1>1, <1>2
<1>7. Contract!Resize
  BY <1>4, <1>5, <1>6 DEF Contract!Resize
<1> QED BY <1>7, OwnedApart DEF Contract!Next

\* A block keeps its place.
LEMMA IsResizeInPlace ==
    ASSUME Inv, Contents, Inv', Contents', NEW h \in Live, NEW n \in Nat, 0 < n,
           req' = [req EXCEPT ![h] = n]
    PROVE  Contract!Next
<1>1. Live' = Live /\ \A g \in Live \ {h} : req'[g] = req[g]
  BY DEF Live, Inv, TypeOK
<1> QED BY <1>1, IsResize

\* What Grant does is an allocation, or the move of the old block.
LEMMA GrantContract ==
    ASSUME NoWrap, Inv, Contents, Inv', Contents', pc = "scan", NEW h \in Addr, h \notin Live,
           NEW d, Grant(h, d)
    PROVE  Contract!Next
<1> DEFINE n == call.nbytes
           old == call.old
<1>1. n \in Nat /\ 0 < n /\ old \in Live \cup {NULL}
  <2>1. SizeOK /\ old \in Live \cup {NULL}
    BY DEF Inv, LocalsOK
  <2> QED BY <2>1, UnitsOfCall
<1>2. CASE old = NULL
  <2>1. req' = [req EXCEPT ![h] = n]
    BY <1>2 DEF Grant
  <2> QED BY <1>1, <2>1, IsAlloc
<1>3. CASE old # NULL
  <2>1. req' = [req EXCEPT ![h] = n, ![old] = 0] /\ old \in Live
    BY <1>1, <1>3 DEF Grant
  <2> HIDE DEF old, n
  <2>2. old # h /\ old \in Addr /\ req \in [Addr -> Nat]
    BY <2>1 DEF Live, Inv, TypeOK
  <2>3. Live' = (Live \ {old}) \cup {h} /\ \A x \in Live \ {old, h} : req'[x] = req[x]
    BY <1>1, <2>1, <2>2 DEF Live
  <2>4. h \in Live' /\ old \notin Live' /\ Live \ {old, h} = Live' \ {old, h}
    BY <2>2, <2>3
  <2> QED BY <2>1, <2>2, <2>3, <2>4, IsResize
<1> QED BY <1>2, <1>3

\* Every step of the allocator is a step of the abstract heap or leaves it.
LEMMA StepContract ==
    ASSUME NoWrap, Inv, Contents, Inv', Contents', [Next]_vars
    PROVE  Contract!Next \/ UNCHANGED Owned
<1>1. ASSUME req' = req PROVE UNCHANGED Owned
  <2>1. Live' = Live
    BY <1>1 DEF Live
  <2> QED BY <1>1, <2>1, OwnedNow, OwnedNext
<1>2. CASE UNCHANGED vars
  BY <1>1, <1>2 DEF vars, heapVars
<1>3. CASE Program
  <2>1. ASSUME NEW n \in Requests, CallMalloc(n) PROVE req' = req
    BY <2>1 DEF CallMalloc, vars, heapVars
  <2>2. ASSUME NEW m \in Members, NEW n \in Members, CallCalloc(m, n) PROVE req' = req
    BY <2>2 DEF CallCalloc, vars, heapVars
  <2>3. ASSUME NEW h \in Live \cup {NULL}, CallFree(h) PROVE req' = req \/ Contract!Next
    <3>1. CASE h = NULL
      BY <2>3, <3>1 DEF CallFree, vars, heapVars
    <3>2. CASE h # NULL
      BY <2>3, <3>2, IsRelease DEF CallFree
    <3> QED BY <3>1, <3>2
  <2>4. ASSUME NEW h \in Live \cup {NULL}, NEW n \in Requests, CallRealloc(h, n)
        PROVE  req' = req \/ Contract!Next
    <3>1. CASE Refused(n) \/ h = NULL
      BY <2>4, <3>1 DEF CallRealloc, vars, heapVars
    <3>2. CASE ~Refused(n) /\ h # NULL
      <4>1. n \in Nat /\ 0 < n /\ h \in Live
        BY <3>2, RequestAssumption DEF Refused
      <4>2. CASE ReallocSame(h, n) \/ ReallocShrink(h, n)
        <5>1. req' = [req EXCEPT ![h] = n]
          BY <4>2 DEF ReallocSame, ReallocShrink
        <5> QED BY <4>1, <5>1, IsResizeInPlace
      <4>3. CASE ReallocGrow(h, n)
        BY <4>3 DEF ReallocGrow, heapVars
      <4> QED BY <2>4, <3>2, <4>2, <4>3 DEF CallRealloc
    <3> QED BY <3>1, <3>2
  <2> QED BY <1>1, <1>3, <2>1, <2>2, <2>3, <2>4 DEF Program
<1>4. CASE ScanExact \/ ScanSplit
  BY <1>4, GrantedIsNew, GrantContract
<1>5. CASE GrowExact \/ GrowSplit
  <2>1. req' = [req EXCEPT ![call.hp] = call.nbytes] /\ SizeOK /\ call.hp \in Live
    BY <1>5 DEF GrowExact, GrowSplit, Grown, Inv, LocalsOK
  <2>2. call.nbytes \in Nat /\ 0 < call.nbytes
    BY <2>1, UnitsOfCall
  <2> QED BY <2>1, <2>2, IsResizeInPlace
<1>6. CASE WalkNext \/ FreeChunk \/ FreeCore \/ GrowMove \/ ScanNext \/ MoreCore \/ NoCore
  <2>1. req' = req
    BY <1>6 DEF WalkNext, FreeChunk, FreeCore, GrowMove, ScanNext, MoreCore, NoCore, heapVars
  <2> QED BY <1>1, <2>1
<1> QED BY <1>2, <1>3, <1>4, <1>5, <1>6 DEF Next, Library

(***************************************************************************)
(* The allocator implements the abstract heap: every step of every call    *)
(* gives the program a block apart from the others, takes one back, or     *)
(* resizes one keeping its contents, or changes nothing the program sees.  *)
(***************************************************************************)
THEOREM MallocImplementsHeap == Spec => ImplementsHeap
<1>1. Init => Inv /\ Contents /\ Contract!Init
  <2>1. ASSUME Init PROVE Inv /\ Contents /\ Live = {}
    BY <2>1, InitInv, InitContents DEF Init, Live
  <2>2. ASSUME Live = {} PROVE Owned = [h \in {} |-> <<>>]
    BY <2>2 DEF Owned
  <2> QED BY <2>1, <2>2 DEF Contract!Init
<1>2. Inv /\ Contents /\ [Next]_vars => Inv' /\ Contents' /\ [Contract!Next]_Owned
  BY RequestsFit, StepInv, StepContents, StepContract
<1> QED BY <1>1, <1>2, PTL DEF Spec, ImplementsHeap, Contract!Spec

=============================================================================
