--------------------------- MODULE MCSymbolTable ---------------------------
(* Two names that share a bucket.                                          *)
EXTENDS SymbolTable, TLC

MCBucket == "a" :> 0 @@ "b" :> 0
MCNames == {"a", "b"}

\* Nothing depends on which address a symbol is given.
Addresses == Permutations(Ptr)

\* The table implements the block structure of C.
Blocks == INSTANCE Scopes WITH
              Depth <- NR_BLOCK + 1,
              Declaration <- {"IDEN", "TAG"} \X Name,
              depth <- curctx,
              scope <- [l \in 0 .. NR_BLOCK + 1 |-> ScopeOf(l)]
ImplementsScopes == Blocks!Spec
=============================================================================
