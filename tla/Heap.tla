-------------------------------- MODULE Heap --------------------------------
(***************************************************************************)
(* What malloc, free and realloc promise to the program: a set of blocks   *)
(* that do not overlap, each with the contents the program gave it, of     *)
(* which a call changes at most the block it is about.                     *)
(***************************************************************************)
EXTENDS Integers, Sequences

VARIABLE blocks     \* address of a block |-> the contents of its units

Init == blocks = [h \in {} |-> <<>>]

Apart(b) ==
    \A g, h \in DOMAIN b : g # h => g + Len(b[g]) < h \/ h + Len(b[h]) < g

\* Every block but those in changed is as it was.
Others(changed) ==
    \A h \in (DOMAIN blocks \cup DOMAIN blocks') \ changed :
        h \in DOMAIN blocks /\ h \in DOMAIN blocks' /\ blocks'[h] = blocks[h]

Alloc == \E h \in DOMAIN blocks' \ DOMAIN blocks : Others({h})

Release == \E h \in DOMAIN blocks \ DOMAIN blocks' : Others({h})

\* The block keeps its place or moves, and its contents up to the lesser length.
Resize ==
    \E g \in DOMAIN blocks, h \in DOMAIN blocks' :
        /\ g # h => h \notin DOMAIN blocks /\ g \notin DOMAIN blocks'
        /\ \A k \in 1 .. Len(blocks[g]) :
              k <= Len(blocks'[h]) => blocks'[h][k] = blocks[g][k]
        /\ Others({g, h})

Next == (Alloc \/ Release \/ Resize) /\ Apart(blocks')

Spec == Init /\ [][Next]_blocks
=============================================================================
