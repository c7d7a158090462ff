------------------------------- MODULE Scopes -------------------------------
(***************************************************************************)
(* What the symbol table of cc1 promises: the block structure of C.        *)
(* scope[l] is the set of declarations <<namespace, name>> of the scope at *)
(* depth l; the file scope is at depth 0 and stays.                        *)
(***************************************************************************)
EXTENDS Integers

CONSTANTS Depth, Declaration

VARIABLES depth, scope

Init == depth = 0 /\ scope = [l \in 0 .. Depth |-> {}]

Enter ==
    /\ depth < Depth
    /\ depth' = depth + 1
    /\ UNCHANGED scope

\* Only the innermost scope gains a declaration, and none twice.
Declare ==
    \E d \in Declaration \ scope[depth] :
        /\ scope' = [scope EXCEPT ![depth] = @ \cup {d}]
        /\ UNCHANGED depth

\* Leaving a scope forgets what was declared in it and nothing else.
Leave ==
    /\ depth > 0
    /\ depth' = depth - 1
    /\ scope' = [scope EXCEPT ![depth] = {}]

Next == Enter \/ Declare \/ Leave
Spec == Init /\ [][Next]_<<depth, scope>>
=============================================================================
