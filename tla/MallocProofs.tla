---------------------------- MODULE MallocProofs ----------------------------
(***************************************************************************)
(* Proofs about Malloc, for every heap, header size and set of requests.   *)
(***************************************************************************)
EXTENDS Malloc, TLAPS

-----------------------------------------------------------------------------
(* Tilings.  Every change the allocator makes to the chunks is one of:     *)
(* merge two neighbours, split a chunk, append a chunk at the break.       *)

\* Two chunks that touch may be replaced by one: what free and realloc do when
\* they join a chunk to its neighbour leaves a tiling.
LEMMA MergeTiles ==
    ASSUME NEW C \in SUBSET Addr, NEW s \in [Addr -> Nat], NEW t \in [Addr -> Nat],
           NEW top \in Nat, NEW g \in C, NEW h \in C,
           Tiles(C, s, top), g # h, h # base, g + s[g] = h,
           t[g] = s[g] + s[h], \A x \in C \ {g, h} : t[x] = s[x]
    PROVE  Tiles(C \ {h}, t, top)
<1>0. \A x \in C : x \in Int /\ s[x] \in Nat /\ t[x] \in Nat
  BY HeapAssumption DEF Addr, base
<1>1. ASSUME NEW x \in C, x # h, NEW y \in C, y # h, x # y
      PROVE  x + t[x] <= y \/ y + t[y] <= x
  BY <1>0, <1>1 DEF Tiles
<1>2. ASSUME NEW x \in C, x # h, x # base
      PROVE  HeapStart <= x /\ 0 < t[x] /\ x + t[x] <= top
  BY <1>0, <1>2 DEF Tiles
<1>3. ASSUME NEW u \in HeapStart .. top - 1
      PROVE  \E x \in C \ {h} : x <= u /\ u < x + t[x]
  <2>1. PICK x \in C : x <= u /\ u < x + s[x]
    BY <1>3 DEF Tiles
  <2>2. u \in Int
    BY HeapAssumption
  <2>3. CASE x \in {g, h}
    <3>1. g <= u /\ u < g + t[g]
      BY <1>0, <2>1, <2>2, <2>3
    <3> QED BY <3>1
  <2>4. CASE x \notin {g, h}
    BY <2>1, <2>4
  <2> QED BY <2>3, <2>4
<1> QED BY <1>1, <1>2, <1>3 DEF Tiles

\* No chunk begins inside another one.
LEMMA InsideNoChunk ==
    ASSUME NEW C \in SUBSET Addr, NEW s \in [Addr -> Nat], NEW top,
           NEW g \in C, NEW h \in Addr, Tiles(C, s, top), g # base, g < h, h < g + s[g]
    PROVE  h \notin C
<1>1. /\ \A x \in C : x \in Int /\ s[x] \in Nat
      /\ h \in Int
  BY HeapAssumption DEF Addr, base
<1> QED BY <1>1 DEF Tiles

\* A chunk may be cut in two: what malloc and realloc do to a chunk that is
\* larger than needed leaves a tiling.
LEMMA SplitTiles ==
    ASSUME NEW C \in SUBSET Addr, NEW s \in [Addr -> Nat], NEW t \in [Addr -> Nat],
           NEW top \in Nat, NEW g \in C, NEW h \in Addr,
           Tiles(C, s, top), g # base, g < h, h < g + s[g],
           t[g] = h - g, t[h] = (g + s[g]) - h, \A x \in C \ {g} : t[x] = s[x]
    PROVE  h \notin C /\ Tiles(C \cup {h}, t, top)
<1>0. /\ \A x \in C : x \in Int /\ s[x] \in Nat /\ t[x] \in Nat
      /\ h \in Int /\ t[h] \in Nat /\ HeapStart \in Int
  BY HeapAssumption DEF Addr, base
<1>1. h \notin C
  BY <1>0 DEF Tiles
<1>2. ASSUME NEW z \in C, z # g
      PROVE  (z + t[z] <= h \/ h + t[h] <= z) /\ (z + t[z] <= g \/ g + t[g] <= z)
  BY <1>0, <1>2 DEF Tiles
<1>3. ASSUME NEW x \in C \cup {h}, NEW y \in C \cup {h}, x # y
      PROVE  x + t[x] <= y \/ y + t[y] <= x
  <2>1. g + t[g] = h
    BY <1>0
  <2>2. CASE x \in C \ {g} /\ y \in C \ {g}
    BY <1>0, <1>3, <2>2 DEF Tiles
  <2> QED BY <1>0, <1>1, <1>2, <1>3, <2>1, <2>2
<1>4. ASSUME NEW x \in C \cup {h}, x # base
      PROVE  HeapStart <= x /\ 0 < t[x] /\ x + t[x] <= top
  BY <1>0, <1>4 DEF Tiles
<1>5. ASSUME NEW u \in HeapStart .. top - 1
      PROVE  \E x \in C \cup {h} : x <= u /\ u < x + t[x]
  <2>1. PICK x \in C : x <= u /\ u < x + s[x]
    BY <1>5 DEF Tiles
  <2>2. u \in Int
    BY HeapAssumption
  <2>3. CASE x = g
    <3>1. (g <= u /\ u < g + t[g]) \/ (h <= u /\ u < h + t[h])
      BY <1>0, <2>1, <2>2, <2>3
    <3> QED BY <3>1
  <2>4. CASE x # g
    BY <2>1, <2>4
  <2> QED BY <2>3, <2>4
<1> QED BY <1>1, <1>3, <1>4, <1>5 DEF Tiles

\* No chunk begins at the break.
LEMMA BreakNoChunk ==
    ASSUME NEW C \in SUBSET Addr, NEW s \in [Addr -> Nat], NEW top \in Addr,
           HeapStart <= top, Tiles(C, s, top)
    PROVE  top \notin C
<1>1. /\ \A x \in C : x \in Int /\ s[x] \in Nat
      /\ top \in Int /\ base < HeapStart /\ HeapStart \in Int /\ base \in Int
  BY HeapAssumption DEF Addr, base
<1> QED BY <1>1 DEF Tiles

\* A chunk may be appended at the break: what morecore does.
LEMMA ExtendTiles ==
    ASSUME NEW C \in SUBSET Addr, NEW s \in [Addr -> Nat], NEW t \in [Addr -> Nat],
           NEW top \in Addr, NEW n \in Nat, HeapStart <= top, base \in C,
           Tiles(C, s, top), s[base] = 0, 0 < n, t[top] = n, \A x \in C : t[x] = s[x]
    PROVE  top \notin C /\ Tiles(C \cup {top}, t, top + n)
<1>0. /\ \A x \in C : x \in Int /\ s[x] \in Nat /\ t[x] \in Nat
      /\ top \in Int /\ HeapStart \in Int /\ base < HeapStart /\ base \in Int
  BY HeapAssumption DEF Addr, base
<1>1. \A x \in C : x < top /\ x + t[x] <= top
  BY <1>0 DEF Tiles
<1>2. ASSUME NEW x \in C \cup {top}, NEW y \in C \cup {top}, x # y
      PROVE  x + t[x] <= y \/ y + t[y] <= x
  BY <1>0, <1>1, <1>2 DEF Tiles
<1>3. ASSUME NEW x \in C \cup {top}, x # base
      PROVE  HeapStart <= x /\ 0 < t[x] /\ x + t[x] <= top + n
  BY <1>0, <1>1, <1>3 DEF Tiles
<1>4. ASSUME NEW u \in HeapStart .. (top + n) - 1
      PROVE  \E x \in C \cup {top} : x <= u /\ u < x + t[x]
  <2>0. u \in Int /\ HeapStart <= u /\ u < top + n
    BY <1>0
  <2>1. CASE u < top
    <3>0. u \in HeapStart .. top - 1
      BY <1>0, <2>0, <2>1
    <3>1. PICK x \in C : x <= u /\ u < x + s[x]
      BY <3>0 DEF Tiles
    <3> QED BY <3>1
  <2>2. CASE top <= u
    BY <2>0, <2>2
  <2> QED BY <1>0, <2>0, <2>1, <2>2
<1> QED BY <1>0, <1>1, <1>2, <1>3, <1>4 DEF Tiles

-----------------------------------------------------------------------------
(* Circular lists.                                                         *)

\* _prevchunk stops at the member just below hp: no member lies between them.
LEMMA FoundIsPredecessor ==
    ASSUME NEW F \in SUBSET Addr, NEW nx \in [Addr -> Addr \cup {NULL}],
           base \in F, Circular(F, nx), NEW p \in F, NEW h \in Addr, h \notin F,
           \/ p < h /\ h < nx[p]
           \/ nx[p] <= p /\ (h < nx[p] \/ h > p)
    PROVE  /\ p < h
           /\ nx[p] = base \/ h < nx[p]
           /\ \A q \in F : q <= p \/ h < q
<1>0. (\A x \in F : x \in Int /\ base <= x) /\ h \in Int /\ base <= h /\ base \in Int
  BY HeapAssumption DEF Addr, base
<1>1. /\ nx[p] \in F
      /\ nx[p] = base \/ p < nx[p]
      /\ \A q \in F : q <= p \/ (nx[p] # base /\ nx[p] <= q)
  BY DEF Circular
<1>2. p \in Int /\ nx[p] \in Int /\ base <= p
  BY <1>0, <1>1
<1>3. p < h /\ (nx[p] = base \/ h < nx[p])
  BY <1>0, <1>1, <1>2
<1>4. ASSUME NEW q \in F PROVE q <= p \/ h < q
  BY <1>0, <1>1, <1>2, <1>3
<1> QED BY <1>3, <1>4

\* Linking a chunk in behind its predecessor keeps the list circular.
LEMMA InsertCircular ==
    ASSUME NEW F \in SUBSET Addr, NEW nx \in [Addr -> Addr \cup {NULL}],
           NEW my \in [Addr -> Addr \cup {NULL}],
           base \in F, Circular(F, nx), NEW p \in F, NEW h \in Addr, h \notin F,
           p < h, nx[p] = base \/ h < nx[p],
           my[p] = h, my[h] = nx[p], \A x \in F \ {p} : my[x] = nx[x]
    PROVE  Circular(F \cup {h}, my)
<1>0. (\A x \in F : x \in Int /\ base <= x) /\ h \in Int /\ base < h /\ base \in Int
  BY HeapAssumption DEF Addr, base
<1>1. \A x \in F :
        /\ nx[x] \in F
        /\ nx[x] = base \/ x < nx[x]
        /\ \A q \in F : q <= x \/ (nx[x] # base /\ nx[x] <= q)
  BY DEF Circular
<1>2. ASSUME NEW x \in F, x # p
      PROVE  /\ my[x] \in F \cup {h}
             /\ my[x] = base \/ x < my[x]
             /\ \A q \in F \cup {h} : q <= x \/ (my[x] # base /\ my[x] <= q)
  <2>1. my[x] = nx[x] /\ nx[x] \in F /\ x \in Int /\ nx[x] \in Int /\ p \in Int
    BY <1>0, <1>1, <1>2
  <2>2. x < p \/ p < x
    BY <2>1, <1>2
  <2>3. h <= x \/ (nx[x] # base /\ nx[x] <= h)
    <3>1. CASE x < p
      BY <1>0, <1>1, <2>1, <3>1
    <3>2. CASE p < x
      <4>1. nx[p] \in F /\ (x <= p \/ (nx[p] # base /\ nx[p] <= x))
        BY <1>1
      <4>2. nx[p] \in Int
        BY <1>0, <4>1
      <4>3. ~(x <= p)
        BY <2>1, <3>2
      <4>4. nx[p] # base /\ nx[p] <= x
        BY <4>2, <4>3, <4>1
      <4> QED BY <1>0, <2>1, <4>2, <4>4
    <3> QED BY <2>2, <3>1, <3>2
  <2>4. /\ nx[x] = base \/ x < nx[x]
        /\ \A q \in F : q <= x \/ (nx[x] # base /\ nx[x] <= q)
    BY <1>1
  <2> QED BY <2>1, <2>3, <2>4
<1>3. /\ my[p] \in F \cup {h}
      /\ my[p] = base \/ p < my[p]
      /\ \A q \in F \cup {h} : q <= p \/ (my[p] # base /\ my[p] <= q)
  <2>1. ASSUME NEW q \in F PROVE q <= p \/ h <= q
    <3>1. nx[p] \in Int /\ q \in Int /\ p \in Int
      BY <1>0, <1>1
    <3>2. q <= p \/ (nx[p] # base /\ nx[p] <= q)
      BY <1>1
    <3> QED BY <1>0, <3>1, <3>2
  <2> QED BY <1>0, <2>1
<1>4. /\ my[h] \in F \cup {h}
      /\ my[h] = base \/ h < my[h]
      /\ \A q \in F \cup {h} : q <= h \/ (my[h] # base /\ my[h] <= q)
  <2>1. ASSUME NEW q \in F PROVE q <= h \/ (nx[p] # base /\ nx[p] <= q)
    <3>1. q \in Int /\ p \in Int
      BY <1>0
    <3>2. q <= p \/ (nx[p] # base /\ nx[p] <= q)
      BY <1>1
    <3> QED BY <1>0, <3>1, <3>2
  <2> QED BY <1>0, <1>1, <2>1
<1> QED BY <1>2, <1>3, <1>4 DEF Circular

\* Unlinking the chunk behind p keeps the list circular.
LEMMA UnlinkCircular ==
    ASSUME NEW F \in SUBSET Addr, NEW nx \in [Addr -> Addr \cup {NULL}],
           NEW my \in [Addr -> Addr \cup {NULL}],
           base \in F, Circular(F, nx), NEW p \in F, NEW h \in F,
           nx[p] = h, h # base,
           my[p] = nx[h], \A x \in F \ {p, h} : my[x] = nx[x]
    PROVE  Circular(F \ {h}, my)
<1>0. (\A x \in F : x \in Int /\ base <= x) /\ base \in Int
  BY HeapAssumption DEF Addr, base
<1>1. \A x \in F :
        /\ nx[x] \in F /\ nx[x] \in Int
        /\ nx[x] = base \/ x < nx[x]
        /\ \A q \in F : q <= x \/ (nx[x] # base /\ nx[x] <= q)
  BY <1>0 DEF Circular
<1>2. p < h /\ p \in Int /\ h \in Int
  BY <1>0, <1>1
<1>3. ASSUME NEW x \in F, x # p, x # h
      PROVE  /\ my[x] \in F \ {h}
             /\ my[x] = base \/ x < my[x]
             /\ \A q \in F \ {h} : q <= x \/ (my[x] # base /\ my[x] <= q)
  <2>1. my[x] = nx[x] /\ x \in Int
    BY <1>0, <1>3
  <2>2. x < p \/ h < x
    BY <1>1, <1>2, <1>3, <2>1
  <2>3. nx[x] # h
    <3>1. CASE x < p
      BY <1>1, <1>2, <2>1, <3>1
    <3>2. CASE h < x
      BY <1>1, <1>2, <2>1, <3>2
    <3> QED BY <2>2, <3>1, <3>2
  <2> QED BY <1>1, <2>1, <2>3
<1>4. /\ my[p] \in F \ {h}
      /\ my[p] = base \/ p < my[p]
      /\ \A q \in F \ {h} : q <= p \/ (my[p] # base /\ my[p] <= q)
  <2>1. nx[h] \in F /\ nx[h] \in Int /\ (nx[h] = base \/ h < nx[h])
    BY <1>1
  <2>2. nx[h] # h
    BY <1>2, <2>1
  <2>3. ASSUME NEW q \in F, q # h PROVE q <= p \/ (nx[h] # base /\ nx[h] <= q)
    <3>1. q \in Int /\ (q <= p \/ h <= q) /\ (q <= h \/ (nx[h] # base /\ nx[h] <= q))
      BY <1>0, <1>1
    <3> QED BY <1>2, <2>3, <3>1
  <2> QED BY <1>2, <2>1, <2>2, <2>3
<1> QED BY <1>3, <1>4 DEF Circular

-----------------------------------------------------------------------------
(* Sizes.                                                                  *)

\* The numbers that fit a size_t are their own residue.
LEMMA WrapSmall == ASSUME NEW n \in Nat, n <= SIZE_MAX PROVE Wrap(n) = n
  BY RequestAssumption DEF Wrap

\* A request takes at least the header's unit.
LEMMA UnitsType == ASSUME NEW n \in Nat PROVE Units(n) \in Nat /\ 0 < Units(n)
<1> DEFINE w == Wrap(n + HSize - 1)
<1>1. w \in Nat
  BY UnitAssumption, RequestAssumption DEF Wrap
<1>2. w \div HSize \in Nat
  BY <1>1, UnitAssumption
<1> QED BY <1>2 DEF Units

\* A number of bytes reaches into a number of units.
LEMMA ReachType == ASSUME NEW n \in Nat PROVE Reach(n) \in Nat
<1>1. n + HSize - 1 \in Nat
  BY UnitAssumption
<1> QED BY <1>1, UnitAssumption DEF Reach

\* m whole units hold m * sizeof(Header) bytes, and more bytes reach as far.
LEMMA ReachFacts ==
    /\ \A m \in Nat : Reach(m * HSize) = m
    /\ \A m, n \in Nat : m <= n => Reach(m) <= Reach(n)
    /\ \A n \in Nat : n <= Reach(n) * HSize
<1>1. HSize \in Nat /\ 0 < HSize
  BY UnitAssumption
<1>2. ASSUME NEW H \in Nat, 0 < H
      PROVE  /\ \A m \in Nat : (m * H + H - 1) \div H = m
             /\ \A m, n \in Nat : m <= n => (m + H - 1) \div H <= (n + H - 1) \div H
             /\ \A n \in Nat : n <= ((n + H - 1) \div H) * H
  <2>1. ASSUME NEW m \in Nat PROVE (m * H + H - 1) \div H = m
    BY <1>2, Z3
  <2>2. ASSUME NEW m \in Nat, NEW n \in Nat, m <= n
        PROVE  (m + H - 1) \div H <= (n + H - 1) \div H
    BY <1>2, <2>2, Z3
  <2>3. ASSUME NEW n \in Nat PROVE n <= ((n + H - 1) \div H) * H
    BY <1>2, Z3
  <2> QED BY <2>1, <2>2, <2>3
<1> QED BY <1>1, <1>2 DEF Reach

\* Filling and erasing keep the memory's type.
LEMMA FillType ==
    ASSUME NEW d \in [Addr -> Nat], NEW h \in Addr, NEW m \in Nat, NEW n \in Nat
    PROVE  Fill(d, h, m, n) \in [Addr -> Nat]
<1>1. \A a \in Addr : a \in Int /\ h \in Int
  BY HeapAssumption DEF Addr, base
<1>2. \A a \in Addr : h + m < a => a - h \in Nat
  BY <1>1
<1> QED BY <1>2 DEF Fill

\* Erasing keeps the memory's type.
LEMMA EraseType ==
    ASSUME NEW d \in [Addr -> Nat], NEW m, NEW n PROVE Erase(d, m, n) \in [Addr -> Nat]
  BY DEF Erase

\* When the product does not wrap, sbrk moves the break by CoreUnits units.
LEMMA CoreExact ==
    ASSUME NEW n \in Nat, CoreUnits(n) * HSize <= SIZE_MAX
    PROVE  CoreBytes(n) \div HSize = CoreUnits(n) /\ CoreUnits(n) \in Nat /\ 0 < CoreUnits(n)
<1>1. CoreUnits(n) \in Nat /\ 0 < CoreUnits(n)
  BY UnitAssumption DEF CoreUnits, Larger
<1>2. CoreUnits(n) * HSize \in Nat
  BY <1>1, UnitAssumption
<1>3. CoreBytes(n) = CoreUnits(n) * HSize
  BY <1>2, WrapSmall DEF CoreBytes
<1>4. \A a, b \in Nat : b # 0 => (a * b) \div b = a
  BY Z3
<1> QED BY <1>1, <1>3, <1>4, UnitAssumption

-----------------------------------------------------------------------------
(* The inductive invariant.                                                *)

\* The locals of the running call point where the code expects them to: the
\* cursors into the free list, hp at a chunk that is not in it.
SizeOK ==
    /\ call.nbytes \in Sizes
    /\ call.nbytes <= SIZE_MAX /\ ~Refused(call.nbytes)
    /\ call.nunits = Units(call.nbytes)
LocalsOK ==
    /\ pc = "scan" => SizeOK /\ call.prev \in free /\ call.old \in Live \cup {NULL}
    /\ pc = "walk" => /\ call.p \in free /\ call.hp \in Addr \ {base}
                      /\ call.then \in {"user", "grow", "morecore"}
    /\ pc = "walk" /\ call.then = "grow" =>
           SizeOK /\ call.hp \in Live /\ size[call.hp] < call.nunits
    /\ pc = "walk" /\ call.then = "morecore" =>
           SizeOK /\ call.old \in Live \cup {NULL}

Inv == TypeOK /\ Tiled /\ Linked /\ Coalesced /\ LocalsOK

\* What the rest of free() does to a chunk hp that is in no list, once the walk
\* found its predecessor: the list stays circular, the chunks tile the heap
\* without the pending one, and no two free chunks touch.
LEMMA JoinLemma ==
    ASSUME TypeOK, Linked, Coalesced, NEW p \in free, NEW hp \in Addr,
           hp # base, hp \notin free, hp \notin Live, Live \cap free = {},
           Tiles(Live \cup free \cup {hp}, size, brk),
           Found(p, hp), JoinChunk(p, hp)
    PROVE  /\ size' \in [Addr -> Nat] /\ next' \in [Addr -> Addr \cup {NULL}]
           /\ data' \in [Addr -> Nat] /\ free' \subseteq Addr /\ freep' \in free'
           /\ freep' = p /\ Linked' /\ Coalesced'
           /\ Live \cap free' = {} /\ Tiles(Live \cup free', size', brk)
<1> DEFINE nx == next[p]
           C == Live \cup free \cup {hp}
           joinN == hp + size[hp] = nx
           joinP == p + size[p] = hp
           hpSize == IF joinN THEN size[hp] + size[nx] ELSE size[hp]
           hpNext == IF joinN THEN next[nx] ELSE nx
<1>1. /\ size \in [Addr -> Nat] /\ next \in [Addr -> Addr \cup {NULL}]
      /\ data \in [Addr -> Nat] /\ free \subseteq Addr
      /\ base \in free /\ size[base] = 0 /\ Circular(free, next)
      /\ C \subseteq Addr
  BY DEF TypeOK, Linked, Live
<1>2. (\A x \in Addr : x \in Int /\ base <= x /\ size[x] \in Nat) /\ brk \in Nat
  <2>1. brk \in Nat
    BY HeapAssumption DEF TypeOK
  <2> QED BY <1>1, <2>1, HeapAssumption DEF Addr, base
<1>3. /\ p < hp /\ (nx = base \/ hp < nx)
      /\ \A q \in free : q <= p \/ hp < q
  BY <1>1, FoundIsPredecessor DEF Found
<1>4. /\ nx \in free /\ nx \in Addr /\ p \in Addr
      /\ \A q \in free : q <= p \/ (nx # base /\ nx <= q)
  BY <1>1 DEF Circular
<1>5. p # hp /\ nx # hp /\ HeapStart <= hp /\ 0 < size[hp] /\ base < HeapStart
  BY <1>4, HeapAssumption DEF Tiles, base
<1>6. joinN => nx # base /\ hp < nx /\ nx # p
  BY <1>2, <1>3, <1>4, <1>5
<1>7. joinP => p # base
  BY <1>1, <1>2, <1>5
<1>8. /\ size' = [size EXCEPT ![nx] = IF joinN THEN 0 ELSE @,
                               ![hp] = IF joinP THEN 0 ELSE hpSize,
                               ![p] = IF joinP THEN @ + hpSize ELSE @]
      /\ next' = [next EXCEPT ![nx] = IF joinN THEN NULL ELSE @,
                              ![hp] = IF joinP THEN NULL ELSE hpNext,
                              ![p] = IF joinP THEN hpNext ELSE hp]
      /\ free' = (IF joinN THEN free \ {nx} ELSE free) \cup (IF joinP THEN {} ELSE {hp})
      /\ data' = [data EXCEPT ![hp] = 0]
      /\ freep' = p
  BY DEF JoinChunk, Touches, SetFreep
<1>9. hpSize \in Nat /\ hpNext \in Addr \cup {NULL}
  BY <1>1, <1>2, <1>4
<1>10. /\ size' \in [Addr -> Nat]
       /\ \A x \in Addr \ {nx, hp, p} : size'[x] = size[x]
       /\ joinP => size'[p] = size[p] + hpSize
       /\ ~joinP => size'[p] = size[p] /\ size'[hp] = hpSize
       /\ ~joinN => nx = p \/ size'[nx] = size[nx]
  <2> HIDE DEF joinN, joinP, hpSize
  <2> QED BY <1>1, <1>2, <1>4, <1>5, <1>6, <1>8, <1>9
<1>11. /\ next' \in [Addr -> Addr \cup {NULL}]
       /\ \A x \in Addr \ {nx, hp, p} : next'[x] = next[x]
       /\ joinP => next'[p] = hpNext
       /\ ~joinP => next'[p] = hp /\ next'[hp] = hpNext
       /\ ~joinN => nx = p \/ next'[nx] = next[nx]
  <2> HIDE DEF joinN, joinP, hpNext
  <2> QED BY <1>1, <1>4, <1>5, <1>6, <1>8, <1>9
<1>12. data' \in [Addr -> Nat]
  BY <1>1, <1>8
<1>13. ASSUME NEW q \in free, q + size[q] = hp PROVE q = p
  <2>1. q \in Int /\ size[q] \in Nat /\ p \in Int /\ size[p] \in Nat /\ hp \in Int
    BY <1>1, <1>2
  <2>2. q <= p
    BY <1>3, <1>13, <2>1
  <2>3. q # p => q + size[q] <= p \/ p + size[p] <= q
    BY DEF Tiles
  <2> QED BY <1>3, <1>13, <2>1, <2>2, <2>3
<1>14. ASSUME NEW q \in free, hp + size[hp] = q PROVE q = nx
  <2>1. q \in Int /\ nx \in Int /\ size[nx] \in Nat /\ hp \in Int /\ size[hp] \in Nat /\ p \in Int
    BY <1>1, <1>2, <1>4
  <2>2. nx # base /\ nx <= q
    BY <1>3, <1>4, <1>5, <1>14, <2>1
  <2>3. hp + size[hp] <= nx \/ nx + size[nx] <= hp
    BY <1>4, <1>5 DEF Tiles
  <2> QED BY <1>3, <1>14, <2>1, <2>2, <2>3
<1> DEFINE Goal == /\ free' \subseteq Addr /\ base \in free' /\ p \in free'
                   /\ size'[base] = 0 /\ Circular(free', next')
                   /\ Live \cap free' = {} /\ Tiles(Live \cup free', size', brk)
                   /\ \A x, y \in free' : x + size'[x] # y \/ x = y
<1>15. ASSUME ~joinN, ~joinP PROVE Goal
  <2>1. free' = free \cup {hp} /\ Live \cup free' = C
    BY <1>8, <1>15
  <2>2. \A x \in C : size'[x] = size[x]
    BY <1>1, <1>4, <1>10, <1>15
  <2>3. Tiles(C, size', brk)
    BY <2>2 DEF Tiles
  <2>4. \A x \in free \ {p} : next'[x] = next[x]
    BY <1>1, <1>11, <1>15
  <2>5. Circular(free', next')
    BY <1>1, <1>3, <1>11, <1>15, <2>1, <2>4, InsertCircular
  <2>6. ASSUME NEW x \in free', NEW y \in free', x # y PROVE x + size'[x] # y
    <3>1. CASE x \in free /\ y \in free
      BY <2>2, <2>6, <3>1 DEF Coalesced
    <3>2. CASE x = hp \/ y = hp
      BY <1>13, <1>14, <1>15, <2>1, <2>2, <2>6, <3>2
    <3> QED BY <2>1, <3>1, <3>2
  <2>7. size'[base] = 0
    BY <1>1, <2>2
  <2>8. free' \subseteq Addr /\ base \in free' /\ p \in free' /\ Live \cap free' = {}
    BY <1>1, <2>1
  <2> HIDE DEF C
  <2> QED BY <2>1, <2>3, <2>5, <2>6, <2>7, <2>8
<1>16. ASSUME joinN, ~joinP PROVE Goal
  <2> DEFINE F == free \ {nx}
             g == [next EXCEPT ![p] = next[nx]]
  <2>1. free' = F \cup {hp} /\ Live \cup free' = C \ {nx} /\ nx \in C
    BY <1>4, <1>5, <1>8, <1>16
  <2>2. \A x \in C \ {hp, nx} : size'[x] = size[x]
    BY <1>1, <1>10, <1>16
  <2>3. size'[hp] = size[hp] + size[nx]
    BY <1>10, <1>16
  <2>4. Tiles(C \ {nx}, size', brk)
    <3>1. C \in SUBSET Addr /\ hp \in C /\ hp # nx /\ nx # base /\ hp + size[hp] = nx
      BY <1>1, <1>5, <1>6, <1>16
    <3> HIDE DEF C, nx
    <3> QED BY <1>1, <1>2, <1>10, <2>1, <2>2, <2>3, <3>1, MergeTiles DEF C
  <2>5. F \in SUBSET Addr /\ base \in F /\ p \in F /\ hp \notin F
    BY <1>1, <1>6, <1>16
  <2>6. g \in [Addr -> Addr \cup {NULL}] /\ g[p] = next[nx]
           /\ \A x \in free \ {p, nx} : g[x] = next[x]
    BY <1>1, <1>4
  <2>7. Circular(F, g)
    <3> HIDE DEF g
    <3> QED BY <1>1, <1>4, <1>6, <1>16, <2>6, UnlinkCircular
  <2>8. next[nx] = base \/ hp < next[nx]
    <3>1. next[nx] \in free /\ (next[nx] = base \/ nx < next[nx])
      BY <1>1, <1>4 DEF Circular
    <3> QED BY <1>1, <1>2, <1>4, <1>6, <1>16, <3>1
  <2>9. \A x \in F \ {p} : next'[x] = g[x]
    BY <1>1, <1>11, <2>6
  <2>10. next'[p] = hp /\ next'[hp] = g[p]
    BY <1>11, <1>16, <2>6
  <2>11. Circular(free', next')
    <3> HIDE DEF F, g
    <3> QED BY <1>3, <1>11, <2>1, <2>5, <2>6, <2>7, <2>8, <2>9, <2>10, InsertCircular
  <2>12. ASSUME NEW x \in free', NEW y \in free', x # y PROVE x + size'[x] # y
    <3>1. CASE x \in F /\ y \in F
      BY <2>2, <2>12, <3>1, <1>5 DEF Coalesced
    <3>2. CASE x = hp
      <4>1. y \in free /\ y # nx
        BY <2>1, <2>12, <3>2
      <4>2. nx + size[nx] # y
        BY <1>4, <4>1 DEF Coalesced
      <4>3. hp \in Int /\ size[hp] \in Nat /\ size[nx] \in Nat /\ y \in Int
        BY <1>1, <1>2, <1>4, <4>1
      <4> QED BY <1>16, <2>3, <3>2, <4>2, <4>3
    <3>3. CASE y = hp
      BY <1>13, <1>16, <2>1, <2>2, <2>12, <3>3
    <3> QED BY <2>1, <3>1, <3>2, <3>3
  <2>13. size'[base] = 0
    BY <1>1, <1>6, <1>16, <2>2
  <2>14. free' \subseteq Addr /\ base \in free' /\ p \in free' /\ Live \cap free' = {}
    BY <1>1, <2>1, <2>5
  <2> HIDE DEF C
  <2> QED BY <2>1, <2>4, <2>11, <2>12, <2>13, <2>14
<1>17. ASSUME ~joinN, joinP PROVE Goal
  <2>1. free' = free /\ Live \cup free' = C \ {hp} /\ hp \in C /\ p \in C
    BY <1>5, <1>8, <1>17
  <2>2. \A x \in C \ {p, hp} : size'[x] = size[x]
    BY <1>1, <1>4, <1>10, <1>17
  <2>3. size'[p] = size[p] + size[hp]
    BY <1>10, <1>17
  <2>4. Tiles(C \ {hp}, size', brk)
    <3>1. C \in SUBSET Addr /\ p # hp /\ hp # base /\ p + size[p] = hp
      BY <1>1, <1>5, <1>17
    <3> HIDE DEF C
    <3> QED BY <1>1, <1>2, <1>10, <2>1, <2>2, <2>3, <3>1, MergeTiles
  <2>5. \A x \in free : next'[x] = next[x]
    BY <1>1, <1>11, <1>17
  <2>6. Circular(free', next')
    BY <1>1, <2>1, <2>5 DEF Circular
  <2>7. ASSUME NEW x \in free', NEW y \in free', x # y PROVE x + size'[x] # y
    <3>1. CASE x # p
      BY <2>1, <2>2, <2>7, <3>1 DEF Coalesced
    <3>2. CASE x = p
      <4>1. hp + size[hp] # y
        BY <1>14, <1>17, <2>1
      <4>2. p \in Int /\ hp \in Int /\ size[hp] \in Nat /\ size[p] \in Nat /\ y \in Int
        BY <1>1, <1>2, <1>4, <2>1
      <4> QED BY <1>17, <2>3, <3>2, <4>1, <4>2
    <3> QED BY <3>1, <3>2
  <2>8. size'[base] = 0
    BY <1>1, <1>7, <1>17, <2>2
  <2>9. free' \subseteq Addr /\ base \in free' /\ p \in free' /\ Live \cap free' = {}
    BY <1>1, <2>1
  <2> HIDE DEF C
  <2> QED BY <2>1, <2>4, <2>6, <2>7, <2>8, <2>9
<1>18. ASSUME joinN, joinP PROVE Goal
  <2> DEFINE s1 == [size EXCEPT ![hp] = size[hp] + size[nx]]
             C1 == C \ {nx}
  <2>1. free' = free \ {nx} /\ Live \cup free' = C1 \ {hp} /\ hp \in C1 /\ p \in C1 /\ nx \in C
    BY <1>4, <1>5, <1>6, <1>8, <1>18
  <2>2. /\ s1 \in [Addr -> Nat] /\ s1[hp] = size[hp] + size[nx]
        /\ \A x \in C \ {hp, nx} : s1[x] = size[x]
    BY <1>1, <1>2, <1>4
  <2>3. C \in SUBSET Addr /\ hp \in C /\ hp # nx /\ nx # base /\ hp + size[hp] = nx
    BY <1>1, <1>5, <1>6, <1>18
  <2>4. Tiles(C1, s1, brk)
    <3>1. Tiles(C, size, brk)
      OBVIOUS
    <3> HIDE DEF C, nx, s1
    <3> QED BY <1>1, <1>2, <2>1, <2>2, <2>3, <3>1, MergeTiles
  <2>5. size'[p] = s1[p] + s1[hp] /\ p + s1[p] = hp
    BY <1>2, <1>4, <1>5, <1>6, <1>10, <1>18, <2>2
  <2>6. \A x \in C1 \ {p, hp} : size'[x] = s1[x]
    BY <1>1, <1>10, <2>2
  <2>7. Tiles(C1 \ {hp}, size', brk)
    <3>1. C1 \in SUBSET Addr /\ p # hp /\ hp # base
      BY <1>1, <1>5
    <3> HIDE DEF C1, s1
    <3> QED BY <1>2, <1>10, <2>1, <2>2, <2>4, <2>5, <2>6, <3>1, MergeTiles
  <2>8. next'[p] = next[nx] /\ \A x \in free \ {p, nx} : next'[x] = next[x]
    BY <1>1, <1>11, <1>18
  <2>9. Circular(free', next')
    <3> HIDE DEF nx
    <3> QED BY <1>1, <1>4, <1>11, <2>1, <2>3, <2>8, UnlinkCircular DEF nx
  <2>10. ASSUME NEW x \in free', NEW y \in free', x # y PROVE x + size'[x] # y
    <3>0. x \in free /\ y \in free /\ x # nx /\ y # nx
      BY <2>1
    <3>1. CASE x # p
      <4>1. size'[x] = size[x]
        BY <1>1, <1>10, <3>0, <3>1
      <4> QED BY <2>10, <3>0, <4>1 DEF Coalesced
    <3>2. CASE x = p
      <4>1. nx + size[nx] # y
        BY <1>4, <3>0 DEF Coalesced
      <4>2. /\ p \in Int /\ hp \in Int /\ size[hp] \in Nat /\ size[p] \in Nat /\ y \in Int
            /\ size[nx] \in Nat
        BY <1>1, <1>2, <1>4, <3>0
      <4>3. size'[p] = size[p] + (size[hp] + size[nx])
        BY <1>10, <1>18
      <4> QED BY <1>18, <3>2, <4>1, <4>2, <4>3
    <3> QED BY <3>1, <3>2
  <2>11. size'[base] = 0
    BY <1>1, <1>5, <1>6, <1>7, <1>10, <1>18
  <2>12. free' \subseteq Addr /\ base \in free' /\ p \in free' /\ Live \cap free' = {}
    BY <1>1, <1>6, <1>18, <2>1
  <2> HIDE DEF C1
  <2> QED BY <2>1, <2>7, <2>9, <2>10, <2>11, <2>12
<1>19. Goal
  BY <1>15, <1>16, <1>17, <1>18
<1> HIDE DEF joinN, joinP
<1> QED BY <1>8, <1>10, <1>11, <1>12, <1>19 DEF Linked, Coalesced

-----------------------------------------------------------------------------
(* Every step preserves the invariant.                                     *)

\* What SizeOK says about the units the running call needs.
LEMMA SizeFacts ==
    ASSUME NoWrap, TypeOK, SizeOK
    PROVE  /\ call.nbytes \in Nat /\ 0 < call.nbytes
           /\ call.nunits \in Nat /\ 0 < call.nunits
           /\ CoreUnits(call.nunits) * HSize <= SIZE_MAX
<1>1. call.nbytes \in Nat
  BY DEF TypeOK, Locals
<1>2. Wrap(call.nbytes) = call.nbytes
  BY <1>1, WrapSmall DEF SizeOK
<1>3. CoreUnits(Units(call.nbytes)) * HSize <= SIZE_MAX
  BY <1>2 DEF SizeOK, NoWrap
<1>4. call.nbytes # 0
  BY DEF SizeOK, Refused
<1> QED BY <1>1, <1>3, <1>4, UnitsType DEF SizeOK

\* The calls that only enter a loop, or return, leave the heap alone.
LEMMA QuietLemma ==
    ASSUME Inv, UNCHANGED heapVars, Pending' = Pending,
           pc' \in {"idle", "scan", "walk"}, call' \in Locals, LocalsOK'
    PROVE  Inv'
<1>1. Live' = Live /\ Chunks' = Chunks
  BY DEF Live, Chunks, heapVars
<1>2. Tiled' /\ Linked' /\ Coalesced'
  BY <1>1 DEF Inv, Tiled, OneOwner, Tiles, Linked, Circular, Coalesced, heapVars
<1>3. TypeOK'
  BY DEF Inv, TypeOK, heapVars
<1> QED BY <1>2, <1>3 DEF Inv

\* Entering malloc's loop.
LEMMA StartMallocLemma ==
    ASSUME Inv, Pending = {}, UNCHANGED heapVars,
           NEW n \in Sizes, n \in Nat, n <= SIZE_MAX,
           ~Refused(n), NEW old \in Live \cup {NULL}, StartMalloc(n, old)
    PROVE  Inv'
<1>1. Wrap(n) = n /\ Units(n) \in Nat
  BY WrapSmall, UnitsType
<1>3. freep \in free /\ freep \in Addr /\ old \in Addr \cup {NULL}
  BY DEF Inv, TypeOK, Live
<1>4. NoCall \in Locals
  BY DEF NoCall, Locals
<1>2. /\ call' \in Locals /\ pc' = "scan"
      /\ call'.nbytes = n /\ call'.nunits = Units(n) /\ call'.prev = freep /\ call'.old = old
  <2>1. pc' = "scan" /\ call' = [NoCall EXCEPT !.nbytes = n, !.nunits = Units(n),
                                              !.prev = freep, !.old = old]
    BY <1>1 DEF StartMalloc
  <2> QED BY <1>1, <1>3, <1>4, <2>1 DEF Locals
<1>5. Pending' = {}
  BY <1>2 DEF Pending
<1>6. Live' = Live /\ free' = free
  BY DEF Live, heapVars
<1>7. LocalsOK'
  BY <1>2, <1>3, <1>6 DEF LocalsOK, SizeOK
<1> QED BY <1>2, <1>4, <1>5, <1>7, QuietLemma

\* malloc() enters its loop, or refuses the size.
LEMMA CallMallocInv ==
    ASSUME Inv, NEW n \in Requests, CallMalloc(n), ~Refused(n) PROVE Inv'
<1>1. n \in Nat /\ n <= SIZE_MAX
  BY RequestAssumption
<1>2. Pending = {}
  BY DEF CallMalloc, Pending
<1> QED BY <1>1, <1>2, StartMallocLemma DEF CallMalloc, Sizes

\* calloc() does so with the product, which its test keeps from wrapping.
LEMMA CallCallocInv ==
    ASSUME Inv, NEW m \in Members, NEW k \in Members, CallCalloc(m, k),
           ~CallocRefused(m, k), ~Refused(Wrap(m * k))
    PROVE  Inv'
<1>1. m \in Nat /\ k \in Nat /\ SIZE_MAX \in Nat /\ k # 0 /\ m <= SIZE_MAX \div k
  BY RequestAssumption DEF CallocRefused
<1>2. \A a, b, c \in Nat : b # 0 /\ a <= c \div b => a * b <= c
  BY Z3
<1>3. m * k \in Nat /\ m * k <= SIZE_MAX
  BY <1>1, <1>2
<1>4. Wrap(m * k) = m * k
  BY <1>3, WrapSmall
<1>5. Pending = {}
  BY DEF CallCalloc, Pending
<1> QED BY <1>3, <1>4, <1>5, StartMallocLemma DEF CallCalloc, Sizes

\* Entering _prevchunk's loop.
LEMMA StartWalkFacts ==
    ASSUME Inv, NEW c \in Locals, NEW hp \in Addr, NEW th \in {"user", "grow", "morecore"},
           StartWalk(hp, th, c)
    PROVE  /\ pc' = "walk" /\ call' \in Locals
           /\ call'.p = freep /\ call'.hp = hp /\ call'.then = th
           /\ call'.nbytes = c.nbytes /\ call'.nunits = c.nunits /\ call'.old = c.old
<1>1. freep \in Addr
  BY DEF Inv, TypeOK
<1> QED BY <1>1 DEF StartWalk, Locals

\* No call has locals of the right type.
LEMMA NoCallType == NoCall \in Locals
  BY DEF NoCall, Locals

\* A live block is a chunk of its own, inside the heap.
LEMMA LiveFacts ==
    ASSUME Inv, NEW h \in Live
    PROVE  /\ h \in Addr /\ h # base /\ h \in Chunks /\ h \notin free
           /\ size[h] \in Nat /\ 0 < size[h] /\ HeapStart <= h /\ h + size[h] <= brk
<1>1. h \in Addr /\ h \in Chunks /\ h \notin free /\ h # base /\ size[h] \in Nat
  BY DEF Inv, Live, Chunks, Tiled, OneOwner, Linked, TypeOK
<1> QED BY <1>1 DEF Inv, Tiled, Tiles

\* free() takes the block from the program and makes it the pending chunk.
LEMMA CallFreeInv ==
    ASSUME Inv, NEW h \in Live, CallFree(h) PROVE Inv'
<1>1. h \in Addr /\ h # base /\ h \notin free /\ h # NULL
  BY LiveFacts, HeapAssumption DEF Addr, NULL, base
<1>2. /\ pc = "idle" /\ StartWalk(h, "user", NoCall) /\ req' = [req EXCEPT ![h] = 0]
      /\ data' = Erase(data, h, h + size[h]) /\ UNCHANGED <<size, next, brk, freep, free>>
  BY <1>1 DEF CallFree
<1>3. /\ pc' = "walk" /\ call' \in Locals
      /\ call'.p = freep /\ call'.hp = h /\ call'.then = "user"
  BY <1>1, <1>2, NoCallType, StartWalkFacts
<1>4. Live' = Live \ {h}
  BY <1>1, <1>2 DEF Live, Inv, TypeOK
<1>5. Pending = {} /\ Pending' = {h}
  BY <1>2, <1>3 DEF Pending
<1>6. Chunks' = Chunks
  BY <1>2, <1>4, <1>5 DEF Chunks
<1>7. TypeOK'
  BY <1>2, <1>3 DEF Inv, TypeOK, Erase
<1>8. Tiled'
  BY <1>1, <1>2, <1>4, <1>5, <1>6 DEF Inv, Tiled, OneOwner, Tiles
<1>9. Linked' /\ Coalesced'
  BY <1>2 DEF Inv, Linked, Circular, Coalesced
<1>10. LocalsOK'
  BY <1>1, <1>2, <1>3 DEF LocalsOK, Inv, TypeOK
<1> QED BY <1>7, <1>8, <1>9, <1>10 DEF Inv

\* realloc() to as many units moves nothing.
LEMMA ReallocSameInv ==
    ASSUME Inv, pc = "idle", NEW h \in Live, NEW n \in Requests, ~Refused(n),
           ReallocSame(h, n)
    PROVE  Inv'
<1>1. h \in Addr /\ n \in Nat /\ 0 < n
  BY LiveFacts, RequestAssumption DEF Refused
<1>2. Live' = Live
  BY <1>1 DEF Live, Inv, TypeOK, ReallocSame
<1>3. Chunks' = Chunks /\ Pending' = {} /\ Pending = {}
  BY <1>2 DEF Chunks, Pending, ReallocSame
<1>4. TypeOK'
  <2>1. data \in [Addr -> Nat] /\ req[h] \in Nat
    BY <1>1 DEF Inv, TypeOK
  <2>2. data' \in [Addr -> Nat]
    BY <1>1, <2>1, ReachType, FillType DEF ReallocSame
  <2> QED BY <1>1, <2>2 DEF Inv, TypeOK, ReallocSame
<1>5. Tiled'
  BY <1>2, <1>3 DEF Inv, Tiled, OneOwner, Tiles, ReallocSame
<1>6. Linked' /\ Coalesced'
  BY DEF Inv, Linked, Circular, Coalesced, ReallocSame
<1>7. LocalsOK'
  BY DEF LocalsOK, ReallocSame
<1> QED BY <1>4, <1>5, <1>6, <1>7 DEF Inv

\* realloc() to fewer units cuts a chunk off, which becomes the pending one.
LEMMA ReallocShrinkInv ==
    ASSUME Inv, pc = "idle", NEW h \in Live, NEW n \in Requests, ~Refused(n),
           ReallocShrink(h, n)
    PROVE  Inv'
<1> DEFINE new == h + Units(n)
<1>1. /\ h \in Addr /\ h # base /\ h \in Chunks /\ h \notin free /\ size[h] \in Nat
      /\ HeapStart <= h /\ h + size[h] <= brk
  BY LiveFacts
<1>2. n \in Nat /\ 0 < n /\ Units(n) \in Nat /\ 0 < Units(n)
  BY RequestAssumption, UnitsType DEF Refused
<1>3. brk \in Nat /\ brk <= HeapEnd /\ h \in Nat /\ HeapEnd \in Nat
  BY <1>1, HeapAssumption DEF Inv, TypeOK, Addr, base
<1>4. Units(n) < size[h]
  BY DEF ReallocShrink
<1>5. new \in Addr /\ h < new /\ new < h + size[h] /\ new # base
  BY <1>1, <1>2, <1>3, <1>4, HeapAssumption DEF Addr, base
<1>6. /\ size' = [size EXCEPT ![new] = size[h] - Units(n), ![h] = Units(n)]
      /\ req' = [req EXCEPT ![h] = n] /\ data' = Erase(data, new, h + size[h])
      /\ StartWalk(new, "user", NoCall) /\ UNCHANGED <<next, brk, freep, free>>
  BY DEF ReallocShrink
<1>7. /\ pc' = "walk" /\ call' \in Locals
      /\ call'.p = freep /\ call'.hp = new /\ call'.then = "user"
  BY <1>5, <1>6, NoCallType, StartWalkFacts
<1>8. /\ size' \in [Addr -> Nat] /\ size'[h] = new - h /\ size'[new] = (h + size[h]) - new
      /\ \A x \in Addr \ {h, new} : size'[x] = size[x]
  BY <1>1, <1>2, <1>3, <1>4, <1>5, <1>6 DEF Inv, TypeOK
<1>9. Live' = Live
  BY <1>1, <1>2, <1>6 DEF Live, Inv, TypeOK
<1>10. Pending = {} /\ Pending' = {new}
  BY <1>7 DEF Pending
<1>11. Chunks' = Chunks \cup {new} /\ Chunks \subseteq Addr
  BY <1>6, <1>9, <1>10 DEF Chunks, Inv, TypeOK, Live
<1>12. Tiles(Chunks, size, brk) /\ size \in [Addr -> Nat]
  BY DEF Inv, Tiled, TypeOK
<1>13. new \notin Chunks
  <2> HIDE DEF new
  <2> QED BY <1>1, <1>5, <1>11, <1>12, InsideNoChunk
<1>14. \A x \in Chunks \ {h} : size'[x] = size[x]
  BY <1>8, <1>11, <1>13
<1>15. Tiles(Chunks \cup {new}, size', brk)
  <2> HIDE DEF new
  <2> QED BY <1>1, <1>3, <1>5, <1>8, <1>11, <1>12, <1>14, SplitTiles
<1>16. Tiled'
  <2> HIDE DEF new
  <2>1. OneOwner'
    BY <1>6, <1>9, <1>10, <1>13 DEF Inv, Tiled, OneOwner, Chunks
  <2> QED BY <1>6, <1>11, <1>15, <2>1 DEF Tiled, Tiles
<1>17. \A x \in free : size'[x] = size[x]
  BY <1>1, <1>8, <1>13 DEF Chunks, Inv, TypeOK
<1>18. Linked' /\ Coalesced'
  BY <1>6, <1>17 DEF Inv, Linked, Circular, Coalesced
<1>19. TypeOK'
  BY <1>2, <1>6, <1>7, <1>8, EraseType DEF Inv, TypeOK
<1>20. LocalsOK'
  BY <1>5, <1>6, <1>7 DEF LocalsOK, Inv, TypeOK
<1> QED BY <1>16, <1>18, <1>19, <1>20 DEF Inv

\* realloc() to more units looks for the neighbours of the block.
LEMMA ReallocGrowInv ==
    ASSUME Inv, pc = "idle", NEW h \in Live, NEW n \in Requests, ~Refused(n),
           ReallocGrow(h, n)
    PROVE  Inv'
<1> DEFINE c == [NoCall EXCEPT !.nbytes = n, !.nunits = Units(n)]
<1>1. h \in Addr /\ h # base
  BY LiveFacts
<1>2. n \in Nat /\ n <= SIZE_MAX /\ Units(n) \in Nat
  BY RequestAssumption, UnitsType
<1>3. c \in Locals /\ c.nbytes = n /\ c.nunits = Units(n)
  BY <1>2 DEF NoCall, Locals
<1>4. /\ pc' = "walk" /\ call' \in Locals
      /\ call'.p = freep /\ call'.hp = h /\ call'.then = "grow"
      /\ call'.nbytes = n /\ call'.nunits = Units(n)
  <2>1. StartWalk(h, "grow", c)
    BY DEF ReallocGrow
  <2> HIDE DEF c
  <2> QED BY <1>1, <1>3, <2>1, StartWalkFacts
<1>5. Pending = {} /\ Pending' = {}
  BY <1>4 DEF Pending
<1>6. UNCHANGED heapVars /\ size[h] < Units(n)
  BY DEF ReallocGrow
<1>7. Live' = Live
  BY <1>6 DEF Live, heapVars
<1>8. LocalsOK'
  <2>1. n \in Sizes
    BY DEF Sizes
  <2>2. free' = free /\ size' = size /\ freep \in free
    BY <1>6 DEF heapVars, Inv, TypeOK
  <2> QED BY <1>1, <1>2, <1>4, <1>6, <1>7, <2>1, <2>2 DEF LocalsOK, SizeOK
<1> QED BY <1>4, <1>5, <1>6, <1>8, QuietLemma

\* The successor of a member of the free list is a member.
LEMMA NextFree == ASSUME Inv, NEW p \in free PROVE next[p] \in free /\ next[p] \in Addr
  BY DEF Inv, Linked, Circular, TypeOK

\* _prevchunk() moves on, past members that are not the one looked for.
LEMMA WalkNextInv == ASSUME Inv, WalkNext PROVE Inv'
<1>1. call.p \in free /\ pc = "walk" /\ pc' = "walk" /\ UNCHANGED heapVars /\ call \in Locals
  BY DEF WalkNext, Inv, LocalsOK, TypeOK
<1>2. next[call.p] \in free /\ next[call.p] \in Addr
  BY <1>1, NextFree
<1>3. call' = [call EXCEPT !.p = next[call.p]]
  BY DEF WalkNext
<1>4. /\ call' \in Locals /\ call'.p = next[call.p] /\ call'.hp = call.hp
      /\ call'.then = call.then /\ call'.old = call.old
      /\ call'.nbytes = call.nbytes /\ call'.nunits = call.nunits
  BY <1>1, <1>2, <1>3 DEF Locals
<1>5. Pending' = Pending
  BY <1>1, <1>4 DEF Pending
<1>6. Live' = Live /\ free' = free /\ size' = size
  BY <1>1 DEF Live, heapVars
<1>7. SizeOK' <=> SizeOK
  BY <1>4 DEF SizeOK
<1>8. LocalsOK'
  BY <1>1, <1>2, <1>4, <1>6, <1>7 DEF Inv, LocalsOK
<1> QED BY <1>1, <1>4, <1>5, <1>8, QuietLemma

\* FreeChunk and FreeCore: JoinLemma applies to the pending chunk.
LEMMA JoinStep ==
    ASSUME Inv, pc = "walk", call.then \in {"user", "morecore"},
           Found(call.p, call.hp), JoinChunk(call.p, call.hp), UNCHANGED <<brk, req>>,
           pc' # "walk"
    PROVE  /\ Tiled' /\ Linked' /\ Coalesced' /\ Live' = Live
           /\ size' \in [Addr -> Nat] /\ next' \in [Addr -> Addr \cup {NULL}]
           /\ data' \in [Addr -> Nat] /\ free' \subseteq Addr /\ freep' \in free'
<1>1. call.p \in free /\ call.hp \in Addr /\ call.hp # base
  BY DEF Inv, LocalsOK
<1>2. Pending = {call.hp} /\ Pending' = {}
  BY DEF Pending
<1>3. /\ call.hp \notin free /\ call.hp \notin Live /\ Live \cap free = {}
      /\ Tiles(Live \cup free \cup {call.hp}, size, brk)
  BY <1>2 DEF Inv, Tiled, OneOwner, Chunks
<1>4. /\ size' \in [Addr -> Nat] /\ next' \in [Addr -> Addr \cup {NULL}]
      /\ data' \in [Addr -> Nat] /\ free' \subseteq Addr /\ freep' \in free'
      /\ Linked' /\ Coalesced'
      /\ Live \cap free' = {} /\ Tiles(Live \cup free', size', brk)
  BY <1>1, <1>3, JoinLemma DEF Inv
<1>5. Live' = Live /\ brk' = brk
  BY DEF Live
<1>6. Chunks' = Live \cup free'
  BY <1>2, <1>5 DEF Chunks
<1>7. Tiled'
  BY <1>2, <1>4, <1>5, <1>6 DEF Tiled, OneOwner, Tiles
<1> QED BY <1>4, <1>5, <1>7

\* free() of a block of the program joins the pending chunk to the list.
LEMMA FreeChunkInv == ASSUME Inv, FreeChunk PROVE Inv'
<1>1. pc' = "idle" /\ call' = NoCall
  BY DEF FreeChunk, Return
<1>2. /\ Tiled' /\ Linked' /\ Coalesced'
      /\ size' \in [Addr -> Nat] /\ next' \in [Addr -> Addr \cup {NULL}]
      /\ data' \in [Addr -> Nat] /\ free' \subseteq Addr /\ freep' \in free'
  BY <1>1, JoinStep DEF FreeChunk
<1>3. TypeOK'
  BY <1>1, <1>2, NoCallType DEF Inv, TypeOK, FreeChunk
<1>4. LocalsOK'
  BY <1>1 DEF LocalsOK
<1> QED BY <1>2, <1>3, <1>4 DEF Inv

\* So does free() of what morecore() got; malloc() goes on from there.
LEMMA FreeCoreInv == ASSUME Inv, FreeCore PROVE Inv'
<1>1. /\ pc = "walk" /\ call.then = "morecore" /\ pc' = "scan" /\ call \in Locals
      /\ call' = [call EXCEPT !.prev = freep', !.p = NULL, !.hp = NULL, !.then = "none"]
  BY DEF FreeCore, Inv, TypeOK
<1>2. /\ Tiled' /\ Linked' /\ Coalesced' /\ Live' = Live
      /\ size' \in [Addr -> Nat] /\ next' \in [Addr -> Addr \cup {NULL}]
      /\ data' \in [Addr -> Nat] /\ free' \subseteq Addr /\ freep' \in free'
  BY <1>1, JoinStep DEF FreeCore
<1>3. freep' \in Addr
  BY <1>2
<1>4. /\ call' \in Locals /\ call'.prev = freep' /\ call'.old = call.old
      /\ call'.nbytes = call.nbytes /\ call'.nunits = call.nunits
  BY <1>1, <1>3 DEF Locals
<1>5. TypeOK'
  BY <1>1, <1>2, <1>4 DEF Inv, TypeOK, FreeCore
<1>6. LocalsOK'
  BY <1>1, <1>2, <1>4 DEF Inv, LocalsOK, SizeOK
<1> QED BY <1>2, <1>5, <1>6 DEF Inv

\* malloc() without core returns NULL and changes nothing.
LEMMA NoCoreInv == ASSUME Inv, NoCore PROVE Inv'
<1>1. pc = "scan" /\ pc' = "idle" /\ call' = NoCall /\ UNCHANGED heapVars
  BY DEF NoCore, Return
<1>2. Pending' = Pending /\ LocalsOK'
  BY <1>1 DEF Pending, LocalsOK
<1> QED BY <1>1, <1>2, NoCallType, QuietLemma

\* malloc() moves on in the list.
LEMMA ScanNextInv == ASSUME Inv, ScanNext PROVE Inv'
<1>1. /\ call.prev \in free /\ pc = "scan" /\ pc' = "scan" /\ UNCHANGED heapVars
      /\ call \in Locals
  BY DEF ScanNext, Inv, LocalsOK, TypeOK
<1>2. next[call.prev] \in free /\ next[call.prev] \in Addr
  BY <1>1, NextFree
<1>3. call' = [call EXCEPT !.prev = next[call.prev]]
  BY DEF ScanNext, cur
<1>4. /\ call' \in Locals /\ call'.prev = next[call.prev] /\ call'.old = call.old
      /\ call'.nbytes = call.nbytes /\ call'.nunits = call.nunits
  BY <1>1, <1>2, <1>3 DEF Locals
<1>5. Pending' = Pending
  BY <1>1 DEF Pending
<1>6. Live' = Live /\ free' = free
  BY <1>1 DEF Live, heapVars
<1>7. LocalsOK'
  BY <1>1, <1>2, <1>4, <1>6 DEF Inv, LocalsOK, SizeOK
<1> QED BY <1>1, <1>4, <1>5, <1>7, QuietLemma

\* realloc() that cannot grow in place enters the loop of malloc().
LEMMA GrowMoveInv == ASSUME Inv, GrowMove PROVE Inv'
<1>1. /\ pc = "walk" /\ call.then = "grow" /\ StartMalloc(call.nbytes, call.hp)
      /\ UNCHANGED heapVars
  BY DEF GrowMove
<1>2. SizeOK /\ call.hp \in Live
  BY <1>1 DEF Inv, LocalsOK
<1>3. call.nbytes \in Sizes /\ call.nbytes \in Nat /\ call.nbytes <= SIZE_MAX
      /\ ~Refused(call.nbytes)
  BY <1>2 DEF SizeOK, Inv, TypeOK, Locals
<1>4. Pending = {}
  BY <1>1 DEF Pending
<1> QED BY <1>1, <1>2, <1>3, <1>4, StartMallocLemma

\* morecore() appends a chunk at the break, pending until it is freed.
LEMMA MoreCoreInv == ASSUME NoWrap, Inv, MoreCore PROVE Inv'
<1> DEFINE n == CoreUnits(call.nunits)
<1>1. /\ pc = "scan" /\ call \in Locals /\ SizeOK /\ call.old \in Live \cup {NULL}
      /\ freep \in free
  BY DEF MoreCore, Inv, LocalsOK, TypeOK
<1>2. call.nunits \in Nat /\ n * HSize <= SIZE_MAX
  BY <1>1, SizeFacts DEF Inv
<1>3. CoreBytes(call.nunits) \div HSize = n /\ n \in Nat /\ 0 < n
  BY <1>2, CoreExact
<1>4. /\ brk' = brk + n /\ brk + n <= HeapEnd /\ size' = [size EXCEPT ![brk] = n]
      /\ StartWalk(brk, "morecore", call) /\ UNCHANGED <<next, data, freep, free, req>>
  BY <1>3 DEF MoreCore
<1>5. brk \in Addr /\ HeapStart <= brk /\ brk # base /\ brk + n \in HeapStart .. HeapEnd
  <2>1. brk \in HeapStart .. HeapEnd
    BY DEF Inv, TypeOK
  <2> HIDE DEF n
  <2> QED BY <1>3, <1>4, <2>1, HeapAssumption DEF Addr, base
<1>6. Chunks \subseteq Addr /\ Tiles(Chunks, size, brk) /\ size \in [Addr -> Nat]
      /\ base \in Chunks /\ size[base] = 0
  BY DEF Inv, Tiled, TypeOK, Chunks, Live, Pending, LocalsOK, Linked
<1>7. brk \notin Chunks
  BY <1>5, <1>6, BreakNoChunk
<1>8. size' \in [Addr -> Nat] /\ size'[brk] = n /\ \A x \in Chunks : size'[x] = size[x]
  <2> HIDE DEF n
  <2> QED BY <1>3, <1>4, <1>5, <1>6, <1>7
<1>9. Tiles(Chunks \cup {brk}, size', brk + n)
  <2> HIDE DEF n
  <2> QED BY <1>3, <1>5, <1>6, <1>8, ExtendTiles
<1>10. /\ pc' = "walk" /\ call' \in Locals
       /\ call'.p = freep /\ call'.hp = brk /\ call'.then = "morecore"
       /\ call'.nbytes = call.nbytes /\ call'.nunits = call.nunits /\ call'.old = call.old
  BY <1>1, <1>4, <1>5, StartWalkFacts
<1>11. Live' = Live /\ Pending = {} /\ Pending' = {brk}
  BY <1>1, <1>4, <1>10 DEF Live, Pending
<1>12. Chunks' = Chunks \cup {brk}
  BY <1>4, <1>11 DEF Chunks
<1>13. Tiled'
  <2> HIDE DEF n
  <2>1. OneOwner'
    BY <1>4, <1>7, <1>11 DEF Inv, Tiled, OneOwner, Chunks
  <2> QED BY <1>4, <1>9, <1>12, <2>1 DEF Tiled, Tiles
<1>14. \A x \in free : size'[x] = size[x]
  BY <1>8 DEF Chunks
<1>15. Linked' /\ Coalesced'
  BY <1>4, <1>14 DEF Inv, Linked, Circular, Coalesced
<1>16. TypeOK'
  BY <1>4, <1>5, <1>8, <1>10 DEF Inv, TypeOK
<1>17. LocalsOK'
  BY <1>1, <1>4, <1>5, <1>10, <1>11 DEF LocalsOK, SizeOK
<1> QED BY <1>13, <1>15, <1>16, <1>17 DEF Inv

\* realloc copies no more units than the old block has, and all that the
\* program had asked for.
LEMMA CopyReach ==
    ASSUME Inv, NEW h \in Live, NEW m \in Nat
    PROVE  /\ Reach(CopyBytes(h, m)) \in Nat /\ Reach(CopyBytes(h, m)) <= size[h] - 1
           /\ (size[h] - 1) * HSize >= req[h] =>
                 Reach(Lesser(req[h], m)) <= Reach(CopyBytes(h, m))
<1> DEFINE n == (size[h] - 1) * HSize
<1>1. size[h] - 1 \in Nat /\ HSize \in Nat /\ req[h] \in Nat
  BY LiveFacts, UnitAssumption DEF Inv, TypeOK
<1>2. n \in Nat /\ Reach(n) = size[h] - 1
  BY <1>1, ReachFacts
<1>3. CopyBytes(h, m) \in Nat /\ CopyBytes(h, m) <= n
  BY <1>2 DEF CopyBytes, Lesser
<1>4. n >= req[h] => Lesser(req[h], m) <= CopyBytes(h, m) /\ Lesser(req[h], m) \in Nat
  BY <1>1, <1>2 DEF CopyBytes, Lesser
<1> HIDE DEF n
<1>5. Reach(CopyBytes(h, m)) \in Nat /\ Reach(CopyBytes(h, m)) <= size[h] - 1
  BY <1>2, <1>3, ReachFacts, ReachType
<1>6. n >= req[h] => Reach(Lesser(req[h], m)) <= Reach(CopyBytes(h, m))
  BY <1>3, <1>4, ReachFacts
<1> QED BY <1>5, <1>6 DEF n

\* Handing a chunk out: it goes to the program, and inside realloc the old
\* block leaves the program and becomes the chunk to free.
LEMMA GrantFacts ==
    ASSUME NoWrap, Inv, pc = "scan", NEW h \in Addr, h \notin Live,
           NEW d \in [Addr -> Nat], Grant(h, d)
    PROVE  /\ data' \in [Addr -> Nat] /\ req' \in [Addr -> Nat] /\ call' \in Locals
           /\ pc' \in {"idle", "scan", "walk"}
           /\ Live' \cup Pending' = Live \cup {h} /\ Live' \cap Pending' = {}
           /\ call.prev \in free' => LocalsOK'
<1> DEFINE old == call.old
           n == CopyBytes(old, call.nbytes)
           kept == Reach(Lesser(req[old], call.nbytes))
           copied == [a \in Addr |-> IF h < a /\ a <= h + Reach(n)
                                     THEN d[old + (a - h)] ELSE d[a]]
<1>1. /\ call \in Locals /\ call.prev \in free /\ old \in Live \cup {NULL}
      /\ call.nbytes \in Nat /\ 0 < call.nbytes /\ call.prev \in Addr
  <2>1. /\ call \in Locals /\ call.prev \in free /\ old \in Live \cup {NULL}
        /\ call.prev \in Addr /\ SizeOK /\ TypeOK
    BY DEF Inv, LocalsOK, TypeOK
  <2> QED BY <2>1, SizeFacts
<1>2. Reach(call.nbytes) \in Nat /\ req \in [Addr -> Nat] /\ h # NULL
  <2>1. h # NULL
    BY HeapAssumption DEF Addr, base, NULL
  <2> QED BY <1>1, <2>1, ReachType DEF Inv, TypeOK
<1>3. CASE old = NULL
  <2>1. /\ req' = [req EXCEPT ![h] = call.nbytes] /\ pc' = "idle" /\ call' = NoCall
        /\ data' = Fill(d, h, 0, Reach(call.nbytes))
    BY <1>3 DEF Grant, Return
  <2>2. Live' = Live \cup {h} /\ Pending' = {}
    BY <1>1, <1>2, <2>1 DEF Live, Pending
  <2>3. data' \in [Addr -> Nat]
    BY <1>2, <2>1, FillType
  <2> QED BY <1>1, <1>2, <2>1, <2>2, <2>3, NoCallType DEF LocalsOK
<1>4. CASE old # NULL
  <2>1. old \in Live /\ old \in Addr /\ old # base /\ old # h /\ size[old] \in Nat
    BY <1>1, <1>4, LiveFacts
  <2>2. /\ req' = [req EXCEPT ![h] = call.nbytes, ![old] = 0] /\ pc' = "walk"
        /\ call' = [NoCall EXCEPT !.p = call.prev, !.hp = old, !.then = "user"]
        /\ data' = Fill(Erase(copied, old, old + size[old]), h, kept, Reach(call.nbytes))
    BY <1>4 DEF Grant
  <2>3. call' \in Locals /\ call'.p = call.prev /\ call'.hp = old /\ call'.then = "user"
    BY <1>1, <2>1, <2>2 DEF NoCall, Locals
  <2>4. Live' = (Live \cup {h}) \ {old} /\ Pending' = {old}
    <3> HIDE DEF old
    <3> QED BY <1>1, <1>2, <2>1, <2>2, <2>3 DEF Live, Pending
  <2>5. copied \in [Addr -> Nat] /\ kept \in Nat
    <3>1. Reach(n) \in Nat /\ Reach(n) <= size[old] - 1
      BY <1>1, <2>1, CopyReach
    <3>2. ASSUME NEW a \in Addr, h < a, a <= h + Reach(n) PROVE d[old + (a - h)] \in Nat
      <4>1. old + size[old] <= brk /\ brk \in HeapStart .. HeapEnd
        BY <2>1, LiveFacts DEF Inv, TypeOK
      <4>2. a \in Int /\ h \in Int /\ old \in Int /\ 1 <= old /\ HeapStart \in Int /\ HeapEnd \in Int
        BY <2>1, HeapAssumption DEF Addr, base
      <4>3. old + (a - h) \in 1 .. HeapEnd
        <5> HIDE DEF n, old
        <5> QED BY <2>1, <3>1, <3>2, <4>1, <4>2
      <4> QED BY <4>3 DEF Addr, base
    <3>3. copied \in [Addr -> Nat]
      <4> HIDE DEF n, old
      <4> QED BY <3>2
    <3>4. Lesser(req[old], call.nbytes) \in Nat
      BY <1>1, <1>2, <2>1 DEF Lesser
    <3> QED BY <3>3, <3>4, ReachType
  <2> QED BY <1>1, <1>2, <2>1, <2>2, <2>3, <2>4, <2>5, EraseType, FillType DEF LocalsOK
<1> QED BY <1>3, <1>4

\* malloc() unlinks a chunk of the right size.
LEMMA ScanExactInv == ASSUME NoWrap, Inv, ScanExact PROVE Inv'
<1>1. /\ pc = "scan" /\ call.prev \in free /\ SizeOK /\ TypeOK
  BY DEF ScanExact, Inv, LocalsOK
<1>2. /\ cur \in free /\ cur \in Addr /\ size[cur] = call.nunits /\ 0 < call.nunits
      /\ cur = next[call.prev] /\ call.prev \in Addr
  BY <1>1, NextFree, SizeFacts DEF cur, ScanExact, TypeOK
<1>3. cur # base /\ cur \notin Live /\ base \in free
  BY <1>2 DEF Inv, Linked, Tiled, OneOwner
<1>4. cur # call.prev
  BY <1>1, <1>2, <1>3, HeapAssumption DEF Inv, Linked, Circular, TypeOK, Addr, base
<1>5. /\ next' = [next EXCEPT ![call.prev] = next[cur], ![cur] = NULL]
      /\ free' = free \ {cur} /\ freep' = call.prev
      /\ Grant(cur, [data EXCEPT ![cur] = 0]) /\ UNCHANGED <<size, brk>>
  BY DEF ScanExact, SetFreep
<1> HIDE DEF cur
<1>6. [data EXCEPT ![cur] = 0] \in [Addr -> Nat]
  BY <1>2 DEF Inv, TypeOK
<1>7. /\ data' \in [Addr -> Nat] /\ req' \in [Addr -> Nat] /\ call' \in Locals
      /\ pc' \in {"idle", "scan", "walk"}
      /\ Live' \cup Pending' = Live \cup {cur} /\ Live' \cap Pending' = {} /\ LocalsOK'
  BY <1>1, <1>2, <1>3, <1>4, <1>5, <1>6, GrantFacts
<1>8. /\ next' \in [Addr -> Addr \cup {NULL}] /\ next'[call.prev] = next[cur]
      /\ \A x \in free \ {call.prev, cur} : next'[x] = next[x]
  BY <1>2, <1>4, <1>5 DEF Inv, TypeOK
<1>9. Circular(free', next')
  <2>1. /\ free \in SUBSET Addr /\ next \in [Addr -> Addr \cup {NULL}]
        /\ Circular(free, next) /\ next[call.prev] = cur
    BY <1>2 DEF Inv, TypeOK, Linked
  <2>2. Circular(free \ {cur}, next')
    BY <1>1, <1>2, <1>3, <1>8, <2>1, UnlinkCircular
  <2> QED BY <1>5, <2>2
<1>10. Linked' /\ Coalesced'
  BY <1>3, <1>5, <1>9 DEF Inv, Linked, Coalesced
<1>11. Chunks' = Chunks
  <2>1. Pending = {}
    BY <1>1 DEF Pending
  <2> QED BY <1>2, <1>5, <1>7, <2>1 DEF Chunks
<1>12. OneOwner'
  BY <1>3, <1>5, <1>7 DEF Inv, Tiled, OneOwner
<1>13. Tiled'
  BY <1>5, <1>11, <1>12 DEF Inv, Tiled, Tiles
<1>14. TypeOK'
  BY <1>1, <1>4, <1>5, <1>7, <1>8 DEF TypeOK
<1> QED BY <1>7, <1>10, <1>13, <1>14 DEF Inv

\* malloc() cuts the right part off a larger chunk.
LEMMA ScanSplitInv == ASSUME NoWrap, Inv, ScanSplit PROVE Inv'
<1> DEFINE rest == size[cur] - call.nunits
           new == RightPart(cur, call.nunits)
<1>1. /\ pc = "scan" /\ call.prev \in free /\ SizeOK /\ TypeOK /\ size[cur] > call.nunits
  BY DEF ScanSplit, Inv, LocalsOK
<1>2. /\ cur \in free /\ cur \in Addr /\ 0 < call.nunits /\ call.nunits \in Nat
      /\ call.prev \in Addr /\ size[cur] \in Nat
  BY <1>1, NextFree, SizeFacts DEF cur, TypeOK
<1>3. cur # base /\ cur \notin Live /\ base \in free /\ cur \in Chunks
  BY <1>1, <1>2 DEF Inv, Linked, Tiled, OneOwner, Chunks
<1>4. /\ size' = [size EXCEPT ![cur] = rest, ![new] = call.nunits]
      /\ next' = [next EXCEPT ![new] = NULL] /\ freep' = call.prev
      /\ Grant(new, [data EXCEPT ![new] = 0]) /\ UNCHANGED <<brk, free>>
  BY DEF ScanSplit, SetFreep
<1> HIDE DEF cur
<1>5. /\ Tiles(Chunks, size, brk) /\ size \in [Addr -> Nat] /\ Chunks \subseteq Addr
      /\ brk \in HeapStart .. HeapEnd
  BY <1>1 DEF Inv, Tiled, TypeOK, Chunks, Live, Pending
<1>6. HeapStart <= cur /\ cur + size[cur] <= brk
  BY <1>3, <1>5 DEF Tiles
<1>7. /\ new \in Addr /\ cur < new /\ new < cur + size[cur] /\ rest \in Nat
      /\ rest = new - cur /\ call.nunits = (cur + size[cur]) - new
  <2>1. cur \in Int /\ HeapStart \in Int /\ HeapEnd \in Int /\ 1 < HeapStart /\ brk \in Int
        /\ brk <= HeapEnd /\ new = cur + (size[cur] - call.nunits)
    BY <1>2, <1>5, HeapAssumption DEF Addr, base, RightPart
  <2>2. new \in 1 .. HeapEnd
    <3> HIDE DEF new
    <3> QED BY <1>1, <1>2, <1>6, <2>1
  <2> QED BY <1>1, <1>2, <2>1, <2>2 DEF Addr, base
<1> HIDE DEF new, rest
<1>8. new \notin Chunks
  BY <1>3, <1>5, <1>7, InsideNoChunk
<1>9. new \notin Live /\ new \notin free /\ new # cur
  BY <1>3, <1>8 DEF Chunks
<1>10. /\ size' \in [Addr -> Nat] /\ size'[cur] = new - cur /\ size'[new] = (cur + size[cur]) - new
       /\ \A x \in Chunks \ {cur} : size'[x] = size[x]
  BY <1>2, <1>4, <1>5, <1>7, <1>8, <1>9
<1>11. Tiles(Chunks \cup {new}, size', brk)
  <2>1. brk \in Nat
    BY <1>5, HeapAssumption
  <2> QED BY <1>3, <1>5, <1>7, <1>10, <2>1, SplitTiles
<1>12. [data EXCEPT ![new] = 0] \in [Addr -> Nat]
  BY <1>7 DEF Inv, TypeOK
<1>13. /\ data' \in [Addr -> Nat] /\ req' \in [Addr -> Nat] /\ call' \in Locals
       /\ pc' \in {"idle", "scan", "walk"}
       /\ Live' \cup Pending' = Live \cup {new} /\ Live' \cap Pending' = {} /\ LocalsOK'
  BY <1>1, <1>4, <1>7, <1>9, <1>12, GrantFacts
<1>14. Chunks' = Chunks \cup {new}
  <2>1. Pending = {}
    BY <1>1 DEF Pending
  <2> QED BY <1>4, <1>13, <2>1 DEF Chunks
<1>15. OneOwner'
  BY <1>4, <1>9, <1>13 DEF Inv, Tiled, OneOwner
<1>16. Tiled'
  BY <1>4, <1>11, <1>14, <1>15 DEF Tiled, Tiles
<1>17. next' \in [Addr -> Addr \cup {NULL}] /\ \A x \in free : next'[x] = next[x]
  BY <1>1, <1>4, <1>7, <1>9 DEF TypeOK
<1>18. Linked'
  <2>1. base \in free' /\ size'[base] = 0
    BY <1>3, <1>4, <1>10 DEF Inv, Linked, Chunks
  <2>2. Circular(free', next')
    BY <1>4, <1>17 DEF Inv, Linked, Circular
  <2> QED BY <2>1, <2>2 DEF Linked
<1>19. Coalesced'
  <2>1. ASSUME NEW x \in free, NEW y \in free, x # y PROVE x + size'[x] # y
    <3>1. CASE x # cur
      BY <1>10, <2>1, <3>1 DEF Inv, Coalesced, Chunks
    <3>2. CASE x = cur
      <4>1. cur + size'[cur] = new
        BY <1>2, <1>7, <1>10 DEF Addr, base
      <4> QED BY <1>9, <3>2, <4>1
    <3> QED BY <3>1, <3>2
  <2> QED BY <1>4, <2>1 DEF Coalesced
<1>20. TypeOK'
  BY <1>1, <1>4, <1>10, <1>13, <1>17 DEF TypeOK
<1> QED BY <1>13, <1>16, <1>18, <1>19, <1>20 DEF Inv

\* realloc that may use the free chunk behind the block oh.
LEMMA GrowFacts ==
    ASSUME NoWrap, Inv, pc = "walk", call.then = "grow", Found(call.p, call.hp),
           Touches(call.hp, next[call.p])
    PROVE  /\ call.p \in free /\ call.p \in Addr /\ call.hp \in Live /\ call.hp \in Addr
           /\ call.hp # base /\ call.hp \notin free /\ call.hp \in Chunks
           /\ next[call.p] \in free /\ next[call.p] \in Addr /\ next[call.p] # base
           /\ next[call.p] # call.p /\ next[call.p] # call.hp /\ call.p # call.hp
           /\ call.p < call.hp /\ call.hp < next[call.p]
           /\ call.hp + size[call.hp] = next[call.p]
           /\ call.nbytes \in Nat /\ 0 < call.nbytes
           /\ call.nunits \in Nat /\ size[call.hp] < call.nunits
           /\ size[call.hp] \in Nat /\ size[next[call.p]] \in Nat /\ HeapStart <= call.hp
<1>1. /\ call.p \in free /\ call.hp \in Live /\ SizeOK /\ size[call.hp] < call.nunits
      /\ call.p \in Addr /\ free \in SUBSET Addr /\ next \in [Addr -> Addr \cup {NULL}]
      /\ base \in free /\ Circular(free, next) /\ size \in [Addr -> Nat]
  BY DEF Inv, LocalsOK, TypeOK, Linked
<1>2. /\ call.hp \in Addr /\ call.hp # base /\ call.hp \notin free /\ call.hp \in Chunks
      /\ size[call.hp] \in Nat /\ 0 < size[call.hp] /\ HeapStart <= call.hp
  BY <1>1, LiveFacts
<1>3. call.p < call.hp
  BY <1>1, <1>2, FoundIsPredecessor DEF Found
<1>4. next[call.p] \in free /\ next[call.p] \in Addr
  BY <1>1, NextFree
<1>5. call.hp + size[call.hp] = next[call.p]
  BY DEF Touches
<1>6. call.p \in Int /\ call.hp \in Int /\ next[call.p] \in Int /\ HeapStart \in Int /\ base < HeapStart
      /\ base \in Int
  BY <1>1, <1>2, <1>4, HeapAssumption DEF Addr, base
<1>7. call.hp < next[call.p]
  BY <1>2, <1>5, <1>6
<1>8. next[call.p] # base /\ next[call.p] # call.p /\ next[call.p] # call.hp /\ call.p # call.hp
  BY <1>2, <1>3, <1>6, <1>7
<1>9. call.nbytes \in Nat /\ 0 < call.nbytes /\ call.nunits \in Nat
  BY <1>1, SizeFacts DEF Inv
<1> QED BY <1>1, <1>2, <1>3, <1>4, <1>5, <1>7, <1>8, <1>9

\* realloc() takes the chunk behind the block as a whole.
LEMMA GrowExactInv == ASSUME NoWrap, Inv, GrowExact PROVE Inv'
<1> DEFINE p == call.p
           oh == call.hp
           nx == next[p]
<1>0. pc = "walk" /\ call.then = "grow" /\ Found(p, oh) /\ Touches(oh, nx)
  BY DEF GrowExact
<1>1. /\ p \in free /\ p \in Addr /\ oh \in Live /\ oh \in Addr /\ oh # base
      /\ oh \notin free /\ oh \in Chunks /\ nx \in free /\ nx \in Addr /\ nx # base
      /\ nx # p /\ nx # oh /\ p # oh /\ oh + size[oh] = nx
      /\ call.nbytes \in Nat /\ 0 < call.nbytes
      /\ size[oh] \in Nat /\ size[nx] \in Nat
  BY <1>0, GrowFacts
<1>2. /\ size' = [size EXCEPT ![oh] = call.nunits, ![nx] = 0]
      /\ call.nunits = size[oh] + size[nx]
      /\ next' = [next EXCEPT ![p] = next[nx], ![nx] = NULL]
      /\ free' = free \ {nx} /\ freep' = p
      /\ data' = Fill(data, oh, Reach(req[oh]), Reach(call.nbytes))
      /\ req' = [req EXCEPT ![oh] = call.nbytes] /\ pc' = "idle" /\ call' = NoCall
      /\ brk' = brk
  BY DEF GrowExact, SetFreep, Grown, Return
<1> HIDE DEF p, oh, nx
<1>3. /\ size \in [Addr -> Nat] /\ next \in [Addr -> Addr \cup {NULL}] /\ data \in [Addr -> Nat]
      /\ req \in [Addr -> Nat] /\ free \in SUBSET Addr /\ base \in free /\ size[base] = 0
      /\ Circular(free, next) /\ Tiles(Chunks, size, brk) /\ next[p] = nx
      /\ brk \in HeapStart .. HeapEnd
  BY DEF Inv, TypeOK, Linked, Tiled, nx
<1>4. /\ size' \in [Addr -> Nat] /\ size'[oh] = size[oh] + size[nx]
      /\ \A x \in Addr \ {oh, nx} : size'[x] = size[x]
  BY <1>1, <1>2, <1>3
<1>5. /\ next' \in [Addr -> Addr \cup {NULL}] /\ next'[p] = next[nx]
      /\ \A x \in free \ {p, nx} : next'[x] = next[x]
  BY <1>1, <1>2, <1>3
<1>6. Circular(free', next')
  <2>1. Circular(free \ {nx}, next')
    BY <1>1, <1>3, <1>5, UnlinkCircular
  <2> QED BY <1>2, <2>1
<1>7. Linked'
  BY <1>1, <1>2, <1>3, <1>4, <1>6 DEF Linked
<1>8. Coalesced'
  <2>1. \A x \in free' : x \in free /\ size'[x] = size[x]
    BY <1>1, <1>2, <1>3, <1>4
  <2> QED BY <2>1 DEF Inv, Coalesced
<1>9. Live' = Live /\ Pending = {} /\ Pending' = {}
  BY <1>0, <1>1, <1>2, <1>3 DEF Live, Pending
<1>10. Chunks' = Chunks \ {nx} /\ Chunks \subseteq Addr /\ nx \in Chunks
  BY <1>1, <1>2, <1>3, <1>9 DEF Inv, Tiled, OneOwner, Chunks, Live
<1>11. Tiles(Chunks \ {nx}, size', brk)
  <2>1. brk \in Nat
    BY <1>3, HeapAssumption
  <2> QED BY <1>1, <1>3, <1>4, <1>10, <2>1, MergeTiles
<1>12. Tiled'
  <2>1. OneOwner'
    BY <1>2, <1>9 DEF Inv, Tiled, OneOwner
  <2> QED BY <1>2, <1>10, <1>11, <2>1 DEF Tiled, Tiles
<1>13. TypeOK'
  <2>1. data' \in [Addr -> Nat]
    BY <1>1, <1>2, <1>3, ReachType, FillType
  <2> QED BY <1>1, <1>2, <1>3, <1>4, <1>5, <2>1, NoCallType DEF TypeOK
<1>14. LocalsOK'
  BY <1>2 DEF LocalsOK
<1> QED BY <1>7, <1>8, <1>12, <1>13, <1>14 DEF Inv

\* realloc() takes the left part of the chunk behind the block.
LEMMA GrowSplitInv == ASSUME NoWrap, Inv, GrowSplit PROVE Inv'
<1> DEFINE p == call.p
           oh == call.hp
           nx == next[p]
           avail == size[oh] + size[nx]
           new == oh + call.nunits
<1>0. pc = "walk" /\ call.then = "grow" /\ Found(p, oh) /\ Touches(oh, nx) /\ call.nunits < avail
  BY DEF GrowSplit
<1>1. /\ p \in free /\ p \in Addr /\ oh \in Live /\ oh \in Addr /\ oh # base
      /\ oh \notin free /\ oh \in Chunks /\ nx \in free /\ nx \in Addr /\ nx # base
      /\ nx # p /\ nx # oh /\ p # oh /\ oh + size[oh] = nx /\ p < oh /\ oh < nx
      /\ call.nbytes \in Nat /\ 0 < call.nbytes /\ call.nunits \in Nat
      /\ size[oh] < call.nunits /\ size[oh] \in Nat /\ size[nx] \in Nat /\ HeapStart <= oh
  BY <1>0, GrowFacts
<1>2. /\ size' = [size EXCEPT ![oh] = call.nunits, ![nx] = 0, ![new] = avail - call.nunits]
      /\ next' = [next EXCEPT ![p] = new, ![nx] = NULL, ![new] = next[nx]]
      /\ free' = (free \ {nx}) \cup {new} /\ freep' = new
      /\ data' = Fill([data EXCEPT ![new] = 0], oh, Reach(req[oh]), Reach(call.nbytes))
      /\ req' = [req EXCEPT ![oh] = call.nbytes] /\ pc' = "idle" /\ call' = NoCall
      /\ brk' = brk
  BY DEF GrowSplit, SetFreep, Grown, Return
<1>3. /\ size \in [Addr -> Nat] /\ next \in [Addr -> Addr \cup {NULL}] /\ data \in [Addr -> Nat]
      /\ req \in [Addr -> Nat] /\ free \in SUBSET Addr /\ base \in free /\ size[base] = 0
      /\ Circular(free, next) /\ Tiles(Chunks, size, brk)
      /\ brk \in HeapStart .. HeapEnd
  BY DEF Inv, TypeOK, Linked, Tiled
<1>4. Pending = {} /\ nx \in Chunks /\ Chunks \subseteq Addr
  BY <1>0, <1>1, <1>3 DEF Pending, Chunks, Live
<1>5. nx + size[nx] <= brk /\ brk \in Nat /\ brk <= HeapEnd
  BY <1>1, <1>3, <1>4, HeapAssumption DEF Tiles
<1>6. oh \in Int /\ nx \in Int /\ p \in Int /\ 1 < HeapStart /\ HeapStart \in Int /\ HeapEnd \in Int
  BY <1>1, HeapAssumption DEF Addr, base
<1>7. /\ new \in Addr /\ nx < new /\ new < oh + avail /\ new < nx + size[nx] /\ new # base
      /\ avail \in Nat /\ avail - call.nunits \in Nat /\ oh < new /\ p < new
      /\ avail - call.nunits = (oh + avail) - new /\ call.nunits = new - oh
  <2>1. new \in 1 .. HeapEnd
    BY <1>0, <1>1, <1>5, <1>6
  <2> QED BY <1>0, <1>1, <1>5, <1>6, <2>1 DEF Addr, base
<1>8. new \notin Chunks
  <2> HIDE DEF new, nx
  <2> QED BY <1>1, <1>3, <1>4, <1>7, InsideNoChunk
<1>9. new # nx /\ new # oh /\ new # p /\ new \notin free /\ new \notin Live
  BY <1>1, <1>4, <1>8 DEF Chunks
<1>10. next[p] = nx
  OBVIOUS
<1> HIDE DEF p, oh, nx, avail, new
<1>11. avail = size[oh] + size[nx]
  BY DEF avail
<1>12. /\ size' \in [Addr -> Nat] /\ size'[oh] = new - oh /\ size'[new] = (oh + avail) - new
       /\ \A x \in Addr \ {oh, nx, new} : size'[x] = size[x]
  BY <1>1, <1>2, <1>3, <1>7, <1>9
<1>13. /\ next' \in [Addr -> Addr \cup {NULL}] /\ next'[p] = new /\ next'[new] = next[nx]
       /\ \A x \in free \ {p, nx} : next'[x] = next[x]
  BY <1>1, <1>2, <1>3, <1>7, <1>9
<1>14. Tiles((Chunks \ {nx}) \cup {new}, size', brk)
  <2> DEFINE s1 == [size EXCEPT ![oh] = avail]
             C1 == Chunks \ {nx}
  <2>1. /\ s1 \in [Addr -> Nat] /\ s1[oh] = size[oh] + size[nx]
        /\ \A x \in Addr \ {oh} : s1[x] = size[x]
    BY <1>1, <1>3, <1>7, <1>11
  <2> HIDE DEF s1
  <2>2. Tiles(C1, s1, brk)
    BY <1>1, <1>3, <1>4, <1>5, <2>1, MergeTiles
  <2>3. /\ C1 \in SUBSET Addr /\ oh \in C1 /\ oh < new /\ new < oh + s1[oh]
        /\ size'[new] = (oh + s1[oh]) - new
    BY <1>1, <1>4, <1>7, <1>11, <1>12, <2>1
  <2>4. \A x \in C1 \ {oh} : size'[x] = s1[x]
    BY <1>4, <1>8, <1>12, <2>1
  <2> HIDE DEF C1
  <2>5. Tiles(C1 \cup {new}, size', brk)
    BY <1>1, <1>5, <1>7, <1>12, <2>1, <2>2, <2>3, <2>4, SplitTiles
  <2> QED BY <2>5 DEF C1
<1>15. Circular(free', next')
  <2> DEFINE g == [next EXCEPT ![p] = next[nx]]
             F == free \ {nx}
  <2>1. /\ g \in [Addr -> Addr \cup {NULL}] /\ g[p] = next[nx]
        /\ \A x \in free \ {p, nx} : g[x] = next[x]
    BY <1>1, <1>3
  <2> HIDE DEF g
  <2>2. Circular(F, g)
    BY <1>1, <1>3, <1>10, <2>1, UnlinkCircular
  <2>3. next[nx] = base \/ new < next[nx]
    <3>1. next[nx] \in free /\ (next[nx] = base \/ nx < next[nx])
      BY <1>1, <1>3 DEF Circular
    <3>2. next[nx] \in Chunks /\ next[nx] \in Int /\ size[next[nx]] \in Nat
      <4>1. next[nx] \in Addr /\ next[nx] \in Chunks
        BY <1>3, <3>1 DEF Chunks
      <4>2. \A x \in Addr : x \in Int
        BY HeapAssumption DEF Addr, base
      <4> QED BY <1>3, <4>1, <4>2
    <3>3. nx < next[nx] => nx + size[nx] <= next[nx]
      <4>1. nx # next[nx] =>
               nx + size[nx] <= next[nx] \/ next[nx] + size[next[nx]] <= nx
        BY <1>3, <1>4, <3>2 DEF Tiles
      <4> QED BY <1>1, <1>6, <3>2, <4>1
    <3>4. new \in Int
      BY <1>7, HeapAssumption DEF Addr, base
    <3> QED BY <1>1, <1>6, <1>7, <3>1, <3>2, <3>3, <3>4
  <2>4. F \in SUBSET Addr /\ base \in F /\ p \in F /\ new \notin F
    BY <1>1, <1>3, <1>9
  <2>5. next'[p] = new /\ next'[new] = g[p] /\ \A x \in F \ {p} : next'[x] = g[x]
    BY <1>13, <2>1
  <2> HIDE DEF F
  <2>6. Circular(F \cup {new}, next')
    BY <1>7, <1>13, <2>1, <2>2, <2>3, <2>4, <2>5, InsertCircular
  <2> QED BY <1>2, <2>6 DEF F
<1>16. \A x \in free \ {nx} : size'[x] = size[x]
  BY <1>1, <1>3, <1>9, <1>12
<1>17. Linked'
  BY <1>1, <1>2, <1>3, <1>15, <1>16 DEF Linked
<1>18. Coalesced'
  <2>0. oh + avail = nx + size[nx]
    BY <1>1, <1>6, <1>11
  <2>1. ASSUME NEW x \in free', NEW y \in free', x # y PROVE x + size'[x] # y
    <3>1. CASE x \in free \ {nx} /\ y \in free \ {nx}
      BY <1>16, <2>1, <3>1 DEF Inv, Coalesced
    <3>2. CASE x = new
      <4>1. y \in free /\ y # nx
        BY <1>2, <2>1, <3>2
      <4>2. nx + size[nx] # y
        BY <1>1, <4>1 DEF Inv, Coalesced
      <4>3. new + size'[new] = nx + size[nx]
        BY <1>1, <1>6, <1>7, <1>12, <2>0 DEF Addr, base
      <4> QED BY <3>2, <4>2, <4>3
    <3>3. CASE y = new
      <4>1. x \in free /\ x # nx /\ size'[x] = size[x]
        BY <1>2, <1>16, <2>1, <3>3
      <4>2. x + size[x] <= nx \/ nx + size[nx] <= x
        BY <1>1, <1>3, <1>4, <4>1 DEF Tiles, Chunks
      <4>3. x \in Int /\ size[x] \in Nat /\ new \in Int
        BY <1>3, <1>7, <4>1, HeapAssumption DEF Addr, base
      <4> QED BY <1>1, <1>6, <1>7, <3>3, <4>1, <4>2, <4>3
    <3> QED BY <1>2, <3>1, <3>2, <3>3
  <2> QED BY <2>1 DEF Coalesced
<1>19. Live' = Live /\ Pending' = {}
  BY <1>1, <1>2, <1>3 DEF Live, Pending
<1>20. Chunks' = (Chunks \ {nx}) \cup {new}
  BY <1>1, <1>2, <1>4, <1>19 DEF Inv, Tiled, OneOwner, Chunks
<1>21. Tiled'
  <2>1. OneOwner'
    BY <1>2, <1>9, <1>19 DEF Inv, Tiled, OneOwner
  <2> QED BY <1>2, <1>14, <1>20, <2>1 DEF Tiled, Tiles
<1>22. TypeOK'
  <2>1. [data EXCEPT ![new] = 0] \in [Addr -> Nat]
    BY <1>3, <1>7
  <2>2. data' \in [Addr -> Nat]
    BY <1>1, <1>2, <1>3, <2>1, ReachType, FillType
  <2> QED BY <1>1, <1>2, <1>3, <1>7, <1>12, <1>13, <2>2, NoCallType DEF TypeOK
<1>23. LocalsOK'
  BY <1>2 DEF LocalsOK
<1> QED BY <1>17, <1>18, <1>21, <1>22, <1>23 DEF Inv

-----------------------------------------------------------------------------
(* The theorems.                                                           *)

\* The empty heap satisfies the invariant.
LEMMA InitInv == Init => Inv
<1> SUFFICES ASSUME Init PROVE Inv
  OBVIOUS
<1>1. base \in Addr /\ HeapStart \in HeapStart .. HeapEnd /\ base < HeapStart
  BY HeapAssumption DEF Addr, base
<1>2. TypeOK
  BY <1>1, NoCallType DEF Init, TypeOK, NULL
<1>3. Live = {} /\ Pending = {} /\ Chunks = {base}
  BY <1>1 DEF Init, Live, Pending, Chunks
<1>4. Tiled
  <2>1. HeapStart .. brk - 1 = {}
    BY HeapAssumption DEF Init
  <2> QED BY <1>3, <2>1 DEF Tiled, OneOwner, Tiles, Init
<1>5. Linked
  BY <1>1 DEF Linked, Circular, Init, base
<1>6. Coalesced /\ LocalsOK
  BY DEF Init, Coalesced, LocalsOK
<1> QED BY <1>2, <1>4, <1>5, <1>6 DEF Inv

\* Every step of every call preserves it.
LEMMA StepInv == ASSUME NoWrap PROVE Inv /\ [Next]_vars => Inv'
<1> SUFFICES ASSUME Inv, [Next]_vars PROVE Inv'
  OBVIOUS
<1>1. ASSUME UNCHANGED vars PROVE Inv'
  BY <1>1 DEF Inv, TypeOK, Tiled, OneOwner, Tiles, Linked, Circular, Coalesced, LocalsOK,
              SizeOK, Live, Pending, Chunks, vars, heapVars
<1>2. ASSUME NEW n \in Requests, CallMalloc(n) PROVE Inv'
  BY <1>1, <1>2, CallMallocInv DEF CallMalloc
<1>3. ASSUME NEW m \in Members, NEW n \in Members, CallCalloc(m, n) PROVE Inv'
  BY <1>1, <1>3, CallCallocInv DEF CallCalloc
<1>4. ASSUME NEW h \in Live \cup {NULL}, CallFree(h) PROVE Inv'
  BY <1>1, <1>4, CallFreeInv DEF CallFree
<1>5. ASSUME NEW h \in Live \cup {NULL}, NEW n \in Requests, CallRealloc(h, n) PROVE Inv'
  <2>1. CASE Refused(n)
    BY <1>1, <1>5, <2>1 DEF CallRealloc
  <2>2. CASE ~Refused(n) /\ h = NULL
    <3>1. CallMalloc(n)
      BY <1>5, <2>2 DEF CallRealloc, CallMalloc
    <3> QED BY <1>2, <3>1
  <2>3. CASE ~Refused(n) /\ h # NULL
    BY <1>5, <2>3, ReallocSameInv, ReallocShrinkInv, ReallocGrowInv DEF CallRealloc
  <2> QED BY <2>1, <2>2, <2>3
<1>6. ASSUME Library PROVE Inv'
  BY <1>6, WalkNextInv, FreeChunkInv, FreeCoreInv, GrowExactInv, GrowSplitInv, GrowMoveInv,
     ScanNextInv, ScanExactInv, ScanSplitInv, MoreCoreInv, NoCoreInv DEF Library
<1> QED BY <1>1, <1>2, <1>3, <1>4, <1>5, <1>6 DEF Next, Program

(***************************************************************************)
(* For every heap, header size and set of requests none of which makes     *)
(* morecore's product wrap: the variables keep their types and _freep      *)
(* points into the free list.                                              *)
(***************************************************************************)
THEOREM TypeCorrect == ASSUME NoWrap PROVE Spec => []TypeOK
<1>1. Inv => TypeOK
  BY DEF Inv
<1> QED BY <1>1, InitInv, StepInv, PTL DEF Spec

(***************************************************************************)
(* The chunks tile the heap at every step of every call: malloc hands out  *)
(* no unit twice, and free and realloc lose none.                          *)
(***************************************************************************)
THEOREM HeapTiled == ASSUME NoWrap PROVE Spec => []Tiled
<1>1. Inv => Tiled
  BY DEF Inv
<1> QED BY <1>1, InitInv, StepInv, PTL DEF Spec

(***************************************************************************)
(* The free list is circular and in address order at every step of every   *)
(* call, so the scan and the walk can neither leave it nor miss a chunk.   *)
(***************************************************************************)
THEOREM FreeListOrdered == ASSUME NoWrap PROVE Spec => []Linked
<1>1. Inv => Linked
  BY DEF Inv
<1> QED BY <1>1, InitInv, StepInv, PTL DEF Spec

(***************************************************************************)
(* free and realloc join what they free with both neighbours: no two free  *)
(* chunks touch.                                                           *)
(***************************************************************************)
THEOREM FreeListCoalesced == ASSUME NoWrap PROVE Spec => []Coalesced
<1>1. Inv => Coalesced
  BY DEF Inv
<1> QED BY <1>1, InitInv, StepInv, PTL DEF Spec
=============================================================================
