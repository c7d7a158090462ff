------------------------------- MODULE Malloc -------------------------------
(***************************************************************************)
(* The allocator of the scc libc: malloc, free, realloc and calloc.        *)
(*                                                                         *)
(* Memory is counted in units of sizeof(Header) bytes.  A chunk is a       *)
(* header unit followed by its payload units; the free chunks form a       *)
(* circular list, in address order, that always holds the static, empty    *)
(* chunk base.  The two loops of the code (the scan of malloc and the walk *)
(* of _prevchunk) take one step per iteration; what the code does between  *)
(* two iterations is one step.  The library is single threaded, so a call  *)
(* runs to its end before the program makes the next one.                  *)
(***************************************************************************)
EXTENDS Integers, FiniteSets

CONSTANTS
    NALLOC,         \* units morecore asks for at least
    HSize,          \* sizeof(Header), in bytes
    SIZE_MAX,       \* the largest size_t
    HeapStart,      \* what _getheap() returns, in units
    HeapEnd,        \* _brk() refuses every address above it, in units
    Requests,       \* the sizes the program passes to malloc and realloc
    Members         \* the factors the program passes to calloc

ASSUME UnitAssumption == HSize \in Nat \ {0} /\ NALLOC \in Nat \ {0}
ASSUME HeapAssumption ==
    HeapStart \in Nat /\ HeapEnd \in Nat /\ 1 < HeapStart /\ HeapStart <= HeapEnd
ASSUME RequestAssumption ==
    /\ SIZE_MAX \in Nat /\ HSize < SIZE_MAX
    /\ Requests \subseteq 0 .. SIZE_MAX /\ Members \subseteq 0 .. SIZE_MAX

VARIABLES
    size, next,     \* the two words of a header, for every unit of memory
    data,           \* what the program stored in each payload unit (see Fill)
    brk,            \* sbrk's static heap: the first unit above the heap
    freep,          \* _freep
    free,           \* the members of the free list (history)
    req,            \* bytes the program asked for; 0 where it owns no block
    pc,             \* idle, or the loop the running call is in
    call            \* the locals of the running call

heapVars == <<size, next, data, brk, freep, free, req>>
vars == <<heapVars, pc, call>>

NULL == 0
base == 1
Addr == base .. HeapEnd

Live == {h \in Addr : req[h] > 0}

\* The locals: prev is malloc's cursor, p and hp those of _prevchunk and free,
\* then is where the code goes on after _prevchunk, old is realloc's oh while
\* it looks for a new place.
NoCall == [nbytes |-> 0, nunits |-> 0, prev |-> NULL, p |-> NULL,
           hp |-> NULL, then |-> "none", old |-> NULL]

Init ==
    /\ size = [a \in Addr |-> 0]
    /\ next = [a \in Addr |-> IF a = base THEN base ELSE NULL]
    /\ data = [a \in Addr |-> 0]
    /\ brk = HeapStart
    /\ freep = base
    /\ free = {base}
    /\ req = [a \in Addr |-> 0]
    /\ pc = "idle"
    /\ call = NoCall

-----------------------------------------------------------------------------
(* Sizes.  SIZE_MAX + 1 is the modulus of size_t.                          *)

Wrap(n) == n % (SIZE_MAX + 1)
Refused(nbytes) == nbytes = 0 \/ nbytes > SIZE_MAX - HSize - 1
\* (fault) calloc without the overflow test
CallocRefusedZeroOnly(nmemb, sz) == nmemb = 0 \/ sz = 0
CallocRefused(nmemb, sz) == nmemb = 0 \/ sz = 0 \/ nmemb > SIZE_MAX \div sz
Units(nbytes) == Wrap(nbytes + HSize - 1) \div HSize + 1
\* The payload units that n bytes reach into.
Reach(n) == (n + HSize - 1) \div HSize

Lesser(m, n) == IF m < n THEN m ELSE n
Larger(m, n) == IF m < n THEN n ELSE m

(***************************************************************************)
(* The program stores the value k in unit k of a block it owns.  A header  *)
(* written over a unit, and the end of the block's life, leave a 0.        *)
(* Fill(d, h, from, to): the program fills units from+1 .. to of block h.  *)
(***************************************************************************)
Fill(d, h, from, to) ==
    [a \in Addr |-> IF h + from < a /\ a <= h + to THEN a - h ELSE d[a]]
Erase(d, from, to) == [a \in Addr |-> IF from <= a /\ a < to THEN 0 ELSE d[a]]

-----------------------------------------------------------------------------
(* The tests and the pointer arithmetic the calls share.                   *)

\* (fault) the end of a chunk is taken for its last unit
TouchesInside(h, g) == h + size[h] - 1 = g
\* chunk g begins where chunk h ends
Touches(h, g) == h + size[h] = g

\* (fault) the right part begins one unit late
RightPartLate(h, n) == h + (size[h] - n) + 1
\* the start of the right part, of n units, of chunk h
RightPart(h, n) == h + (size[h] - n)

\* (fault) units for bytes
CopyUnits(h, nbytes) == Lesser(size[h] - 1, nbytes)
\* what realloc copies from block h into a block of nbytes
CopyBytes(h, nbytes) == Lesser((size[h] - 1) * HSize, nbytes)

\* (fault) _freep is left on the chunk behind, which may just have been taken
SetFreepBehind(h) == freep' = next[h]
SetFreep(h) == freep' = h

-----------------------------------------------------------------------------
(* Entering the loops.                                                     *)

StartMalloc(nbytes, old) ==
    /\ pc' = "scan"
    /\ call' = [NoCall EXCEPT !.nbytes = nbytes, !.nunits = Units(Wrap(nbytes)),
                              !.prev = freep, !.old = old]

\* free(hp + 1) begins with _prevchunk(hp), which starts at _freep.
StartWalk(hp, then, c) ==
    /\ pc' = "walk"
    /\ call' = [c EXCEPT !.p = freep, !.hp = hp, !.then = then]

Return == pc' = "idle" /\ call' = NoCall

-----------------------------------------------------------------------------
(* The calls of the program.                                               *)

CallMalloc(nbytes) ==
    /\ pc = "idle"
    /\ IF Refused(nbytes) THEN UNCHANGED vars
       ELSE StartMalloc(nbytes, NULL) /\ UNCHANGED heapVars

CallCalloc(nmemb, sz) ==
    /\ pc = "idle"
    /\ IF CallocRefused(nmemb, sz) \/ Refused(Wrap(nmemb * sz)) THEN UNCHANGED vars
       ELSE StartMalloc(nmemb * sz, NULL) /\ UNCHANGED heapVars

\* h is the header of the block, mem - 1; free(NULL) returns at once.
CallFree(h) ==
    /\ pc = "idle"
    /\ IF h = NULL THEN UNCHANGED vars
       ELSE /\ StartWalk(h, "user", NoCall)
            /\ req' = [req EXCEPT ![h] = 0]
            /\ data' = Erase(data, h, h + size[h])
            /\ UNCHANGED <<size, next, brk, freep, free>>

\* realloc of a block that needs as many units as it has
ReallocSame(oh, nbytes) ==
    /\ size[oh] = Units(nbytes)
    /\ req' = [req EXCEPT ![oh] = nbytes]
    /\ data' = Fill(data, oh, Reach(req[oh]), Reach(nbytes))
    /\ UNCHANGED <<size, next, brk, freep, free, pc, call>>

\* realloc that cuts the tail of the block off and frees it
ReallocShrink(oh, nbytes) ==
    LET nunits == Units(nbytes)
        new == oh + nunits
    IN  /\ nunits < size[oh]
        /\ size' = [size EXCEPT ![new] = size[oh] - nunits, ![oh] = nunits]
        /\ req' = [req EXCEPT ![oh] = nbytes]
        /\ data' = Erase(data, new, oh + size[oh])
        /\ StartWalk(new, "user", NoCall)
        /\ UNCHANGED <<next, brk, freep, free>>

\* realloc of a block that has to grow: it asks for its free neighbours
ReallocGrow(oh, nbytes) ==
    /\ size[oh] < Units(nbytes)
    /\ StartWalk(oh, "grow", [NoCall EXCEPT !.nbytes = nbytes, !.nunits = Units(nbytes)])
    /\ UNCHANGED heapVars

CallRealloc(oh, nbytes) ==
    /\ pc = "idle"
    /\ IF Refused(nbytes) THEN UNCHANGED vars
       ELSE \/ oh = NULL /\ StartMalloc(nbytes, NULL) /\ UNCHANGED heapVars
            \/ oh # NULL /\ \/ ReallocSame(oh, nbytes)
                            \/ ReallocShrink(oh, nbytes)
                            \/ ReallocGrow(oh, nbytes)

-----------------------------------------------------------------------------
(* _prevchunk(hp)                                                          *)

\* (fault) the last chunk of the list always ends the walk
FoundAtLast(p, hp) == (p < hp /\ hp < next[p]) \/ next[p] <= p
\* (fault) no test for the end of the list
FoundBetween(p, hp) == p < hp /\ hp < next[p]
\* the loop's exit: hp lies between p and its successor, or p is the last
\* chunk of the list and hp lies outside it
Found(p, hp) ==
    \/ p < hp /\ hp < next[p]
    \/ next[p] <= p /\ (hp < next[p] \/ hp > p)

WalkNext ==
    /\ pc = "walk"
    /\ ~Found(call.p, call.hp)
    /\ call' = [call EXCEPT !.p = next[call.p]]
    /\ UNCHANGED <<heapVars, pc>>

(***************************************************************************)
(* The rest of free(hp + 1), once _prevchunk returned prev.  A header that *)
(* a join swallows is no header any more: its words read 0 from then on,   *)
(* so that a step that still used them would break Linked or Tiled.        *)
(***************************************************************************)
JoinChunk(prev, hp) ==
    LET nx      == next[prev]
        joinN   == Touches(hp, nx)
        joinP   == Touches(prev, hp)
        hpSize  == IF joinN THEN size[hp] + size[nx] ELSE size[hp]
        hpNext  == IF joinN THEN next[nx] ELSE nx
    IN  /\ size' = [size EXCEPT ![nx] = IF joinN THEN 0 ELSE @,
                                ![hp] = IF joinP THEN 0 ELSE hpSize,
                                ![prev] = IF joinP THEN @ + hpSize ELSE @]
        /\ next' = [next EXCEPT ![nx] = IF joinN THEN NULL ELSE @,
                                ![hp] = IF joinP THEN NULL ELSE hpNext,
                                ![prev] = IF joinP THEN hpNext ELSE hp]
        /\ free' = (IF joinN THEN free \ {nx} ELSE free)
                      \cup (IF joinP THEN {} ELSE {hp})
        /\ data' = [data EXCEPT ![hp] = 0]
        /\ SetFreep(prev)

FreeChunk ==
    /\ pc = "walk" /\ call.then = "user"
    /\ Found(call.p, call.hp)
    /\ JoinChunk(call.p, call.hp)
    /\ Return
    /\ UNCHANGED <<brk, req>>

\* morecore returns _freep and malloc's loop goes on with prev = cur = _freep
FreeCore ==
    /\ pc = "walk" /\ call.then = "morecore"
    /\ Found(call.p, call.hp)
    /\ JoinChunk(call.p, call.hp)
    /\ pc' = "scan"
    /\ call' = [call EXCEPT !.prev = freep', !.p = NULL, !.hp = NULL, !.then = "none"]
    /\ UNCHANGED <<brk, req>>

-----------------------------------------------------------------------------
(* realloc, after _prevchunk(oh) returned prev                             *)

Grown(prev, oh) ==
    /\ req' = [req EXCEPT ![oh] = call.nbytes]
    /\ Return

\* the free chunk behind the block is just big enough
GrowExact ==
    LET prev == call.p  oh == call.hp  nx == next[prev] IN
    /\ pc = "walk" /\ call.then = "grow"
    /\ Found(prev, oh)
    /\ Touches(oh, nx) /\ size[oh] + size[nx] = call.nunits
    /\ size' = [size EXCEPT ![oh] = call.nunits, ![nx] = 0]
    /\ next' = [next EXCEPT ![prev] = next[nx], ![nx] = NULL]
    /\ free' = free \ {nx}
    /\ SetFreep(prev)
    /\ data' = Fill(data, oh, Reach(req[oh]), Reach(call.nbytes))
    /\ Grown(prev, oh)
    /\ UNCHANGED brk

\* ... or bigger: what is left of it stays in the list
GrowSplit ==
    LET prev == call.p  oh == call.hp  nx == next[prev]
        avail == size[oh] + size[nx]
        new == oh + call.nunits
    IN
    /\ pc = "walk" /\ call.then = "grow"
    /\ Found(prev, oh)
    /\ Touches(oh, nx) /\ call.nunits < avail
    /\ size' = [size EXCEPT ![oh] = call.nunits, ![nx] = 0, ![new] = avail - call.nunits]
    /\ next' = [next EXCEPT ![prev] = new, ![nx] = NULL, ![new] = next[nx]]
    /\ free' = (free \ {nx}) \cup {new}
    /\ SetFreep(new)
    /\ data' = Fill([data EXCEPT ![new] = 0], oh, Reach(req[oh]), Reach(call.nbytes))
    /\ Grown(prev, oh)
    /\ UNCHANGED brk

\* ... or there is none, or it is too small: malloc(nbytes)
GrowMove ==
    LET prev == call.p  oh == call.hp  nx == next[prev] IN
    /\ pc = "walk" /\ call.then = "grow"
    /\ Found(prev, oh)
    /\ ~(Touches(oh, nx) /\ call.nunits <= size[oh] + size[nx])
    /\ StartMalloc(call.nbytes, oh)
    /\ UNCHANGED heapVars

-----------------------------------------------------------------------------
(* malloc's loop                                                           *)

cur == next[call.prev]
Fits == size[cur] >= call.nunits
\* (fault) the scan stops one chunk early
WentAlmostRound == next[cur] = freep
WentRound == cur = freep

ScanNext ==
    /\ pc = "scan" /\ ~Fits /\ ~WentRound
    /\ call' = [call EXCEPT !.prev = cur]
    /\ UNCHANGED <<heapVars, pc>>

(***************************************************************************)
(* The chunk malloc found goes to the program or, inside realloc, receives *)
(* the contents of the old block, which is then freed.  memcpy copies      *)
(* min(payload of the old block, nbytes) bytes; the program then fills     *)
(* what it did not have before.                                            *)
(***************************************************************************)
Grant(h, d) ==
    LET old == call.old
        n == CopyBytes(old, call.nbytes)
        kept == Reach(Lesser(req[old], call.nbytes))
        copied == [a \in Addr |-> IF h < a /\ a <= h + Reach(n)
                                  THEN d[old + (a - h)] ELSE d[a]]
    IN  IF old = NULL
        THEN /\ req' = [req EXCEPT ![h] = call.nbytes]
             /\ data' = Fill(d, h, 0, Reach(call.nbytes))
             /\ Return
        ELSE /\ req' = [req EXCEPT ![h] = call.nbytes, ![old] = 0]
             /\ data' = Fill(Erase(copied, old, old + size[old]),
                             h, kept, Reach(call.nbytes))
             /\ pc' = "walk"
             /\ call' = [NoCall EXCEPT !.p = call.prev, !.hp = old, !.then = "user"]

\* the chunk has the right size: unlink it
ScanExact ==
    /\ pc = "scan" /\ size[cur] = call.nunits
    /\ next' = [next EXCEPT ![call.prev] = next[cur], ![cur] = NULL]
    /\ free' = free \ {cur}
    /\ SetFreep(call.prev)
    /\ Grant(cur, [data EXCEPT ![cur] = 0])
    /\ UNCHANGED <<size, brk>>

\* it is larger: cut the block off its right end
ScanSplit ==
    LET rest == size[cur] - call.nunits
        new == RightPart(cur, call.nunits)
    IN  /\ pc = "scan" /\ size[cur] > call.nunits
        /\ size' = [size EXCEPT ![cur] = rest, ![new] = call.nunits]
        /\ next' = [next EXCEPT ![new] = NULL]
        /\ SetFreep(call.prev)
        /\ Grant(new, [data EXCEPT ![new] = 0])
        /\ UNCHANGED <<brk, free>>

(***************************************************************************)
(* The scan came back to _freep: morecore.  nunits * sizeof(Header) is a   *)
(* size_t.  The kernel may refuse _brk() whenever it likes.                *)
(***************************************************************************)
CoreUnits(nunits) == Larger(nunits, NALLOC)
CoreBytes(nunits) == Wrap(CoreUnits(nunits) * HSize)

MoreCore ==
    LET inc == CoreBytes(call.nunits) IN
    /\ pc = "scan" /\ ~Fits /\ WentRound
    /\ brk * HSize < SIZE_MAX - inc
    /\ brk + inc \div HSize <= HeapEnd
    /\ brk' = brk + inc \div HSize
    /\ size' = [size EXCEPT ![brk] = CoreUnits(call.nunits)]
    /\ StartWalk(brk, "morecore", call)
    /\ UNCHANGED <<next, data, freep, free, req>>

NoCore ==
    /\ pc = "scan" /\ ~Fits /\ WentRound
    /\ Return
    /\ UNCHANGED heapVars


\* The sizes the program asks for.
Sizes == Requests \cup {m * k : m, k \in Members}

\* No request makes nunits * sizeof(Header) wrap in morecore.
NoWrap ==
    \A n \in Sizes :
        Refused(Wrap(n)) \/ CoreUnits(Units(Wrap(n))) * HSize <= SIZE_MAX

-----------------------------------------------------------------------------

Program ==
    \/ \E n \in Requests : CallMalloc(n)
    \/ \E m, n \in Members : CallCalloc(m, n)
    \/ \E h \in Live \cup {NULL} : CallFree(h)
    \/ \E h \in Live \cup {NULL} : \E n \in Requests : CallRealloc(h, n)

Library ==
    \/ WalkNext \/ FreeChunk \/ FreeCore
    \/ GrowExact \/ GrowSplit \/ GrowMove
    \/ ScanNext \/ ScanExact \/ ScanSplit \/ MoreCore \/ NoCore

Next == Program \/ Library

Spec == Init /\ [][Next]_vars

\* A call that has begun keeps running: it is sequential code.
FairSpec == Spec /\ WF_vars(Library)

-----------------------------------------------------------------------------
(* What the allocator promises.                                            *)

Locals ==
    [nbytes : Nat, nunits : Nat, prev : Addr \cup {NULL}, p : Addr \cup {NULL},
     hp : Addr \cup {NULL}, then : {"none", "user", "grow", "morecore"},
     old : Addr \cup {NULL}]

\* The variables have their types and _freep points into the free list.
TypeOK ==
    /\ size \in [Addr -> Nat]
    /\ next \in [Addr -> Addr \cup {NULL}]
    /\ data \in [Addr -> Nat]
    /\ brk \in HeapStart .. HeapEnd
    /\ freep \in free
    /\ free \subseteq Addr
    /\ req \in [Addr -> Nat]
    /\ pc \in {"idle", "scan", "walk"}
    /\ call \in Locals

\* The chunk that is being freed: no block of the program any more and not in
\* the free list yet.
Pending == IF pc = "walk" /\ call.then # "grow" THEN {call.hp} ELSE {}

Chunks == Live \cup free \cup Pending

(***************************************************************************)
(* The chunks tile the heap: every unit between the start of the heap and  *)
(* the break belongs to exactly one chunk and every chunk to exactly one   *)
(* of the program, the free list and the running free, whatever calls led  *)
(* here and at every step inside a call.  No two blocks overlap, no unit   *)
(* is lost.                                                                *)
(***************************************************************************)
Tiles(C, s, top) ==
    /\ \A g, h \in C : g # h => g + s[g] <= h \/ h + s[h] <= g
    /\ \A h \in C \ {base} : HeapStart <= h /\ 0 < s[h] /\ h + s[h] <= top
    /\ \A u \in HeapStart .. top - 1 : \E h \in C : h <= u /\ u < h + s[h]

OneOwner == Live \cap free = {} /\ Pending \cap (Live \cup free) = {}

Tiled == OneOwner /\ Tiles(Chunks, size, brk)

(***************************************************************************)
(* The free list is circular and in address order: the next word of every  *)
(* member is its successor among the members, and that of the last is base.*)
(***************************************************************************)
Circular(F, nx) ==
    \A p \in F :
        /\ nx[p] \in F
        /\ nx[p] = base \/ p < nx[p]
        /\ \A q \in F : q <= p \/ (nx[p] # base /\ nx[p] <= q)

Linked == base \in free /\ size[base] = 0 /\ Circular(free, next)

\* free and realloc leave no two adjacent free chunks.
Coalesced ==
    \A p, q \in free : p + size[p] # q \/ p = q

(***************************************************************************)
(* A block is as large as the program asked for, and holds what the        *)
(* program put there: no header the allocator writes falls on a payload,   *)
(* and realloc keeps the contents up to the lesser of the two sizes.       *)
(***************************************************************************)
Intact ==
    \A h \in Live :
        /\ (size[h] - 1) * HSize >= req[h]
        /\ \A k \in 1 .. Reach(req[h]) : data[h + k] = k

(***************************************************************************)
(* "1 unit for header plus enough units to fit nbytes" (malloc.c:142): the *)
(* header and all units of a block are memory the break covers.  It holds  *)
(* unless nunits * sizeof(Header) wraps to less in morecore.               *)
(***************************************************************************)
BlockInHeap == \A h \in Live : h + Reach(req[h]) < brk

(***************************************************************************)
(* malloc gives up only when no chunk of the free list would do.           *)
(***************************************************************************)
GivesUp == pc = "scan" /\ pc' = "idle" /\ req' = req
NoFitWhenNull == [][GivesUp => \A h \in free : size[h] < call.nunits]_vars

\* Every call returns: the scan and the walk both end.
CallsReturn == (pc # "idle") ~> (pc = "idle")
=============================================================================
