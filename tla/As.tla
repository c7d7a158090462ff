--------------------------------- MODULE As ---------------------------------
(***************************************************************************)
(* The assembler (src/cmd/as): main.c, the two passes over the source      *)
(* files, the stack of inputs and the output file.  What a line does to    *)
(* the tables is the parameter statement, like the instructions, which are *)
(* linked to main.c for a target; module AsIns defines it.                 *)
(***************************************************************************)
EXTENDS AsIns

CONSTANTS statement(_, _, _),   \* (tables, pass, line): Statement of AsIns
          NR_INPUTS,   \* the depth of the stack of inputs
          MAXERR       \* the number of errors after which the assembler dies

ASSUME AsAssumption == /\ {NR_INPUTS, MAXERR, maxaddr, NARGS} \subseteq Nat \ {0}
                       /\ TUINT_MAX \in Nat

VARIABLES prog,     \* the program: its source files src and the operands argv
          pass,     \* 1 or 2
          argn,     \* the index in argv of the file of this pass
          inputs,   \* the stack of inputs: [file, pos], pos lines are read
          m,        \* the tables
          endpass,  \* .END was read
          nerrors,
          lost,     \* the sections whose temporary file has lost bytes
          status,   \* begin, lines, write, done, fail, ioerror, abort, crash, undefined
          out       \* the output file: none, old, or new with its bytes

vars == <<prog, pass, argn, inputs, m, endpass, nerrors, lost, status, out>>

-----------------------------------------------------------------------------
(* The process.                                                            *)

\* The start of main() on a program of the set P; the output file may be there
\* from an earlier run.
Init(P) ==
    /\ prog \in P
    /\ pass = 1 /\ argn = 1
    /\ inputs = <<>>
    /\ m = ibinfmt
    /\ endpass = FALSE
    /\ nerrors = 0 /\ lost = {}
    /\ status = "begin"
    /\ out = [what |-> "old", bytes |-> <<>>]

\* (fault) the output file stays.
BadExit(how) == status' = how /\ UNCHANGED out

\* exit(EXIT_FAILURE) runs cleanup(), which removes the output file; "fail" is
\* the fault of the program, "ioerror" of the system.
Exit(how) == status' = how /\ out' = [what |-> "none", bytes |-> <<>>]

\* addinput(): <<>> if the file cannot be opened or the stack is full.
addinput(stack, file) ==
    IF Len(stack) = NR_INPUTS \/ file \notin DOMAIN prog.src THEN <<>>
    ELSE Append(stack, [file |-> file, pos |-> 0])

\* The start of dopass().
BeginPass ==
    /\ status = "begin"
    /\ LET stack == addinput(inputs, prog.argv[argn])
       IN  IF stack = <<>>
           THEN Exit("fail") /\ UNCHANGED <<inputs, m, endpass>>
           ELSE /\ inputs' = stack
                /\ m' = cleansecs(m, pass)
                /\ endpass' = FALSE
                /\ status' = "lines"
                /\ UNCHANGED out
    /\ UNCHANGED <<prog, pass, argn, nerrors, lost>>

\* tmpfile() fails in cleansecs().
NoTmpfile ==
    /\ status = "begin" /\ pass = 2
    /\ Exit("ioerror")
    /\ UNCHANGED <<prog, pass, argn, inputs, m, endpass, nerrors, lost>>

Reading == status = "lines" /\ ~endpass /\ inputs # <<>>

\* A line is read and executed.
NextLine ==
    /\ Reading
    /\ LET ip == Last(inputs)
           rest == [inputs EXCEPT ![Len(inputs)].pos = @ + 1]
           r == statement(m, pass, prog.src[ip.file][ip.pos + 1])
           stack == addinput(rest, r.file)
       IN  /\ ip.pos < Len(prog.src[ip.file])
           /\ m' = r.m
           /\ endpass' = (r.how = "end")
           /\ nerrors' = IF r.how = "error" THEN nerrors + 1 ELSE nerrors
           /\ inputs' = IF r.how = "include" /\ stack # <<>> THEN stack ELSE rest
           /\ CASE \/ r.how = "die"
                   \/ r.how = "error" /\ nerrors' = MAXERR
                   \/ r.how = "include" /\ stack = <<>> -> Exit("fail")
                [] r.how \in {"abort", "crash", "undefined"} ->
                     status' = r.how /\ UNCHANGED out
                [] OTHER -> UNCHANGED <<status, out>>
    /\ UNCHANGED <<prog, pass, argn, lost>>

\* The end of an input: delinput().
EndInput ==
    /\ Reading
    /\ Last(inputs).pos = Len(prog.src[Last(inputs).file])
    /\ inputs' = Front(inputs)
    /\ UNCHANGED <<prog, pass, argn, m, endpass, nerrors, lost, status, out>>

\* The end of dopass() and the next turn of the loops of asm().
EndPass ==
    /\ status = "lines"
    /\ endpass \/ inputs = <<>>
    /\ IF nerrors > 0 THEN Exit("fail") /\ UNCHANGED <<pass, argn>>
       ELSE /\ UNCHANGED out
            /\ IF argn < Len(prog.argv)
               THEN argn' = argn + 1 /\ status' = "begin" /\ UNCHANGED pass
               ELSE IF pass = 1
               THEN argn' = 1 /\ status' = "begin" /\ pass' = 2
               ELSE status' = "write" /\ UNCHANGED <<pass, argn>>
    /\ UNCHANGED <<prog, inputs, m, endpass, nerrors, lost>>

\* A write to the temporary file of a section fails, and the file ends before
\* its last bytes.  emit() does not look at fwrite(), and rewind() in dumpsec()
\* flushes what is left and clears the error that ferror() should find.  Nobody
\* reads the file before writeout(), so what is lost is lost here.
Unstored ==
    /\ status = "write"
    /\ \E i \in DOMAIN m.secs \ lost :
          \E n \in 0 .. Len(m.secs[i].fp) - 1 :
             /\ m' = [m EXCEPT !.secs[i].fp = SubSeq(@, 1, n)]
             /\ lost' = lost \cup {i}
    /\ UNCHANGED <<prog, pass, argn, inputs, endpass, nerrors, status, out>>

\* The file is written and flushed, or that fails.
writeout ==
    /\ status = "write"
    /\ \/ /\ status' = "done"
          /\ out' = [what |-> "new", bytes |-> Dump(m.secs)]
       \/ Exit("ioerror")
    /\ UNCHANGED <<prog, pass, argn, inputs, m, endpass, nerrors, lost>>

Ended == status \in {"done", "fail", "ioerror", "abort", "crash", "undefined"}

Terminated == Ended /\ UNCHANGED vars

Next == BeginPass \/ NoTmpfile \/ NextLine \/ EndInput \/ EndPass \/ Unstored
        \/ writeout \/ Terminated

Spec(P) == Init(P) /\ [][Next]_vars

-----------------------------------------------------------------------------
(* Properties.                                                             *)

\* The passes agree: as long as there is no error, no line of the second pass
\* changes the value of a label or of a constant that the first pass has
\* defined, so that a reference to a label further down, which dopass() resolves
\* with the value of the first pass, is right.
PassesAgree ==
    [][pass = 2 /\ nerrors' = 0 => \A n \in DOMAIN m.syms :
          "FDEF" \in m.syms[n].flags => m'.syms[n].value = m.syms[n].value]_vars

\* The output file and the exit status agree: there is a new file exactly when
\* the assembler succeeds, every section fills the size that the first pass gave
\* it, and a failure leaves no file behind.  A section whose temporary file could
\* not be written is shorter, and the assembler succeeds all the same.
OutputHonest ==
    /\ status = "done" =>
          /\ out.what = "new"
          /\ \A i \in DOMAIN m.secs \ lost : "c" \in m.secs[i].flags =>
                Len(m.secs[i].fp) = m.secs[i].size
    /\ status \in {"fail", "ioerror"} => out.what = "none"

=============================================================================
