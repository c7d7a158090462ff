------------------------------- MODULE Compile -------------------------------
(***************************************************************************)
(* A function on its way through the compiler: cc1 makes the intermediate  *)
(* code, cc2 reads it, optimises the list of statements and generates      *)
(* code, which is written out and run.  What it does is compared with what *)
(* C says of the program.                                                  *)
(*                                                                         *)
(* The stages are the ones of the drivers: main() of cc1 up to emit, and   *)
(* the loop of main() in cc2: parse(), apply(optm_dep), apply(sethi),      *)
(* apply(cgen), getbblocks(), writeout().  What a stage makes of its input *)
(* is a parameter; module Passes has the operators for it.                 *)
(***************************************************************************)
CONSTANTS Programs,     \* bodies of int g(...), syntax trees of CSem
          Inputs,       \* values of the parameters: name -> integer
          cc1pass(_), readpass(_), optmpass(_), codepass(_), printpass(_), runpass(_, _),
          meaning(_, _),    \* what C says of a call
          readable(_)       \* whether QBE accepts the text

VARIABLES stage,        \* how far the program has come
          prog,         \* the program
          ir,           \* cc1: lines of intermediate code
          tree,         \* cc2: the statements and the symbols
          asm,          \* the instructions, then the text for QBE
          run           \* the execution: the input and what came of it

vars == <<stage, prog, ir, tree, asm, run>>

Init == /\ stage = "source" /\ prog \in Programs
        /\ ir = <<>> /\ tree = <<>> /\ asm = <<>> /\ run = <<>>

After(err, next) == IF err = "" THEN next ELSE err

Translate ==
    /\ stage = "source"
    /\ LET r == cc1pass(prog) IN stage' = After(r.err, "ir") /\ ir' = r.ir
    /\ UNCHANGED <<prog, tree, asm, run>>

Parse ==
    /\ stage = "ir"
    /\ LET r == readpass(ir) IN stage' = After(r.err, "tree") /\ tree' = r.tree
    /\ ir' = <<>>
    /\ UNCHANGED <<prog, asm, run>>

Optimise ==
    /\ stage = "tree" /\ stage' = "opt"
    /\ tree' = optmpass(tree)
    /\ UNCHANGED <<prog, ir, asm, run>>

Generate ==
    /\ stage = "opt"
    /\ LET r == codepass(tree) IN stage' = After(r.err, "code") /\ asm' = r.asm
    /\ tree' = <<>>
    /\ UNCHANGED <<prog, ir, run>>

Write ==
    /\ stage = "code" /\ stage' = "text"
    /\ asm' = printpass(asm)
    /\ UNCHANGED <<prog, ir, tree, run>>

\* The function is called with some values of its parameters.
Execute ==
    /\ stage = "text" /\ stage' = "run"
    /\ \E in \in Inputs : run' = [in |-> in, did |-> runpass(asm, in)]
    /\ UNCHANGED <<prog, ir, tree, asm>>

Finished == stage \notin {"source", "ir", "tree", "opt", "code", "text"}
Done == Finished /\ UNCHANGED vars

Next == Translate \/ Parse \/ Optimise \/ Generate \/ Write \/ Execute \/ Done

Spec == Init /\ [][Next]_vars

-----------------------------------------------------------------------------
(* Properties.                                                             *)

Stages == {"source", "ir", "tree", "opt", "code", "text", "run"}

\* Every program of the family is valid C99: cc1 accepts it and cc2 reads
\* what cc1 wrote (the operations of parser.c find their operands on the
\* stack and leave none), no assertion or abort() of cgen.c is reached.
Accepted == stage \in Stages

\* What writeout() prints is a function QBE can read: getbblocks() has found
\* every place where a block begins and optm_dep() has closed the last one.
Readable == stage = "text" => readable(asm)

\* The function computes what C99 says: the same calls of f with the same
\* arguments in the same order, the same result.
Agrees ==
    stage = "run" =>
        LET c == meaning(prog, run.in)
        IN  \/ c.ub
            \/ /\ run.did.err = "done"
               /\ run.did.calls = c.calls
               /\ c.returns => run.did.ret = c.ret

=============================================================================
