------------------------------ MODULE MCMalloc ------------------------------
(* Malloc on a heap of a few units, and the contract it implements.        *)
EXTENDS Malloc

\* The requests of the passing run do not make morecore's product wrap.
ASSUME RequestsFit == NoWrap

\* The blocks the program owns, as the abstract heap sees them.
Owned == [h \in Live |-> [k \in 1 .. Reach(req[h]) |-> data[h + k]]]

Contract == INSTANCE Heap WITH blocks <- Owned

(***************************************************************************)
(* The allocator implements the abstract heap: a block belongs to the      *)
(* program from the step malloc cuts it off, realloc that moves a block is *)
(* one step of the contract although it runs malloc, memcpy and free, and  *)
(* no step changes the contents of a block the call is not about.          *)
(***************************************************************************)
ImplementsHeap == Contract!Spec
=============================================================================
