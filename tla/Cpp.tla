-------------------------------- MODULE Cpp --------------------------------
(***************************************************************************)
(* The preprocessor of cc1, cpp.c, over the input stack of lex.c: files,   *)
(* conditional groups and macro expansion.                                 *)
(*                                                                         *)
(* The text is a sequence of lines and a line a directive or a sequence of *)
(* tokens.  A token is a sequence of atoms, so that ## is concatenation.   *)
(* The functions next(), expand(), parsepars(), copymacro() and expandarg()*)
(* call each other recursively; calls is their C stack and input the stack *)
(* of inputs they read from.  One step is a line read, a token read, an    *)
(* element of a macro body copied or an input closed.                      *)
(*                                                                         *)
(* After the first error the output is closed and cc1 will fail whatever   *)
(* it reads (error.c), so an error ends the model.                         *)
(***************************************************************************)
EXTENDS Integers, Sequences, SequencesExt, FiniteSets

CONSTANTS
    Main,           \* the file on the command line
    Header,         \* the other files that can be included: file -> its lines
    Lines(_),       \* the lines that may follow the given ones in Main
    Dflags,         \* the definitions of icpp() and of -D, in order
    Uflags,         \* the names of -U
    NR_COND,        \* nesting of conditional groups
    NR_MACROARG,    \* arguments of a macro, and size of a hide set
    INPUTSIZ,       \* tokens an expansion may have
    FOPEN_MAX       \* files open at once

ASSUME BoundAssumption ==
    /\ NR_COND \in Nat \ {0} /\ NR_MACROARG \in Nat /\ INPUTSIZ \in Nat
    /\ FOPEN_MAX \in Nat \ {0}
ASSUME FileAssumption == Main \notin DOMAIN Header

VARIABLES
    input,      \* the inputs, the current one first
    lineno,     \* line number of the current input
    text,       \* the lines of Main read so far
    macros,     \* NS_CPP: name -> definition
    cppctx,     \* conditional groups that are open
    cppoff,     \* how many of them are disabled
    ifstate,    \* their states
    hide,       \* the names whose hide flag is set
    disexpand,  \* no macro is expanded
    calls,      \* the functions waiting for a token, the innermost first
    out,        \* the tokens passed to the parser, or printed by outcpp()
    status,     \* "run", "end", "error" or "crash"
    argdir      \* a directive has been read inside the arguments of a macro
                \* (a record for the properties; cc1 has no such variable)

cond == <<cppctx, cppoff, ifstate>>
flags == <<disexpand, argdir>>
vars == <<input, lineno, text, macros, cond, hide, flags, calls, out, status>>

LP == <<"(">>
RP == <<")">>
Comma == <<",">>
Hash == <<"#">>
HashHash == <<"##">>
EndLine == <<"\n">>

-----------------------------------------------------------------------------
(* The input stack                                                         *)

Frame(type, file, rest, mac) ==
    [type |-> type, file |-> file, pos |-> 0, lineno |-> 0, rest |-> rest,
     mac |-> mac, hideset |-> {}]

\* addinput(): the line number of the input that is left is saved in it.
addinput(ip, in, line) ==
    <<ip>> \o [in EXCEPT ![1].lineno = line]

\* What is read next is no directive and no new line.
Reading == input[1].rest # << >>
AtLineEnd == input[1].type = "file" /\ input[1].rest = << >>

\* error(), errorp() and cpperror().
Fail == /\ status' = "error"
        /\ UNCHANGED <<input, lineno, macros, cond, hide, flags, calls, out>>

\* The functions that wait: the parser, ahead() before "(" and before the ")" of
\* a macro without parameters, the rest of parsepars(), copymacro(), expandarg()
\* and pragma().
Top == [at |-> "top"]
InAhead == calls[1].at \in {"ahead", "empty"}
Collecting == calls[1].at \in {"empty", "args"}
Closed == calls[1].at = "args" /\ calls[1].closed

\* Somebody waits for a token, or for what comes next.
Wanted == status = "run" /\ calls[1].at # "copy" /\ ~Closed

-----------------------------------------------------------------------------
(* Definitions                                                             *)

\* getdefs(): a parameter becomes its number, and # takes its parameter.
Item(k, t, n) == [k |-> k, t |-> t, n |-> n]
IsPar(pars, t) == \E n \in 1 .. Len(pars) : pars[n] = t
ParNo(pars, t) == CHOOSE n \in 1 .. Len(pars) : pars[n] = t
WrongDef(l) ==
    LET b == l.body IN
    \/ b # << >> /\ (b[1] = HashHash \/ b[Len(b)] = HashHash)
    \/ \E i \in 1 .. Len(b) :
          b[i] = Hash /\ ~(i < Len(b) /\ IsPar(l.pars, b[i + 1]))
getdefs(l) ==
    LET b == l.body IN
    FlattenSeq([i \in 1 .. Len(b) |->
        CASE b[i] = Hash -> << >>
          [] b[i] = HashHash -> <<Item("cat", b[i], 0)>>
          [] IsPar(l.pars, b[i]) ->
                <<Item(IF i > 1 /\ b[i - 1] = Hash THEN "str" ELSE "par", b[i],
                       ParNo(l.pars, b[i]))>>
          [] OTHER -> <<Item("tok", b[i], 0)>>])

Macro(l) == [npars |-> IF l.fn THEN Len(l.pars) ELSE -1, def |-> getdefs(l)]

\* defdefine(): a definition that exists is replaced.
Defined(ms, l) == [m \in DOMAIN ms \cup {l.x} |-> IF m = l.x THEN Macro(l) ELSE ms[m]]
Undefined(ms, x) == [m \in DOMAIN ms \ {x} |-> ms[m]]

\* icpp(), then -D, then -U, whatever their order on the command line.
Predefined ==
    LET ms == FoldLeft(Defined, << >>, Dflags) IN
    [m \in DOMAIN ms \ Uflags |-> ms[m]]

Init ==
    /\ input = <<Frame("file", Main, << >>, << >>)>>
    /\ lineno = 0
    /\ text = << >>
    /\ macros = Predefined
    /\ cppctx = 0 /\ cppoff = 0
    /\ ifstate = [n \in 0 .. NR_COND - 1 |-> [enabled |-> FALSE, iselse |-> FALSE]]
    /\ hide = {} /\ disexpand = FALSE
    /\ calls = <<Top>>
    /\ out = << >>
    /\ status = "run" /\ argdir = FALSE

-----------------------------------------------------------------------------
(* Directives.  Each operator takes the line and says what the function of *)
(* the same name changes besides input and lineno.                         *)

\* "#if 1", "#if 0" and "#if defined(x)".
Truth(x) == x = <<"1">> \/ (x # <<"0">> /\ x \in DOMAIN macros)

\* (fault) the level of the new group is counted from one.
BadIfclause(ctx, off, st, negate, x) ==
    LET value == (off = 0) /\ (Truth(x) # negate) IN
    /\ cppctx' = ctx + 1
    /\ cppoff' = IF value \/ off > 0 THEN off ELSE off + 1
    /\ ifstate' = [st EXCEPT ![ctx] = [enabled |-> value, iselse |-> FALSE]]

\* In a disabled group the expression is not looked at.
ifclause(ctx, off, st, negate, x) ==
    LET value == (off = 0) /\ (Truth(x) # negate) IN
    /\ cppctx' = ctx + 1
    /\ cppoff' = IF value THEN off ELSE off + 1
    /\ ifstate' = [st EXCEPT ![ctx] = [enabled |-> value, iselse |-> FALSE]]

cppif(l, negate) ==
    IF cppctx = NR_COND - 1 THEN Fail
    ELSE ifclause(cppctx, cppoff, ifstate, negate, l.x)
         /\ UNCHANGED <<macros, status>>

CanElse == cppctx > 0 /\ ~ifstate[cppctx - 1].iselse
Toggled == [ifstate EXCEPT ![cppctx - 1].enabled = ~@]
ElseOff == IF ifstate[cppctx - 1].enabled THEN cppoff + 1 ELSE cppoff - 1

cppelse ==
    IF ~CanElse THEN Fail
    ELSE /\ ifstate' = [Toggled EXCEPT ![cppctx - 1].iselse = TRUE]
         /\ cppoff' = ElseOff
         /\ UNCHANGED <<cppctx, macros, status>>

\* (fault) the new condition is not looked at.
BadElif(l) ==
    IF ~CanElse THEN Fail
    ELSE /\ cppoff' = ElseOff
         /\ ifstate' = Toggled
         /\ UNCHANGED <<cppctx, macros, status>>

\* elseclause(), and ifclause() in the same place of the stack when the group
\* before was disabled.
elif(l) ==
    IF ~CanElse THEN Fail
    ELSE /\ IF Toggled[cppctx - 1].enabled
            THEN ifclause(cppctx - 1, ElseOff, Toggled, FALSE, l.x)
            ELSE cppoff' = ElseOff /\ ifstate' = Toggled /\ UNCHANGED cppctx
         /\ UNCHANGED <<macros, status>>

endif ==
    IF cppctx = 0 THEN Fail
    ELSE /\ cppctx' = cppctx - 1
         /\ cppoff' = IF ifstate[cppctx - 1].enabled THEN cppoff ELSE cppoff - 1
         /\ UNCHANGED <<ifstate, macros, status>>

\* A definition that is wrong is deleted; one that exists is replaced.  With
\* NR_MACROARG parameters it is deleted as well, but only a body that follows
\* them is an error.  What the name stood for before is freed twice then.
define(l) ==
    IF cppoff > 0 THEN UNCHANGED <<macros, cond, status>>
    ELSE IF Len(l.pars) < NR_MACROARG /\ ~WrongDef(l)
    THEN macros' = Defined(macros, l) /\ UNCHANGED <<cond, status>>
    ELSE IF Len(l.pars) = NR_MACROARG /\ l.body = << >>
    THEN /\ status' = IF l.x \in DOMAIN macros THEN "crash" ELSE status
         /\ UNCHANGED <<macros, cond>>
    ELSE Fail

undef(l) ==
    /\ macros' = IF cppoff > 0 THEN macros ELSE Undefined(macros, l.x)
    /\ UNCHANGED <<cond, status>>

\* #error, and a line that starts with # and is no directive (which is an
\* error in a disabled group too).
usererr(l) ==
    IF cppoff > 0 /\ l.d = "error" THEN UNCHANGED <<macros, cond, status>> ELSE Fail

\* "#" alone.
null == UNCHANGED <<macros, cond, status>>

Directive(l) ==
    \/ l.d \in {"if", "ifdef"} /\ cppif(l, FALSE)
    \/ l.d = "ifndef" /\ cppif(l, TRUE)
    \/ l.d = "elif" /\ elif(l)
    \/ l.d = "else" /\ cppelse
    \/ l.d = "endif" /\ endif
    \/ l.d = "define" /\ define(l)
    \/ l.d = "undef" /\ undef(l)
    \/ l.d \in {"error", "bad"} /\ usererr(l)
    \/ l.d = "null" /\ null

-----------------------------------------------------------------------------
(* readline() and cpp() for the line l of the current file                 *)

Opened == Len(SelectSeq(input, LAMBDA ip : ip.type = "file"))

Advance(line) == [input EXCEPT ![1].pos = @ + 1, ![1].rest = line]

\* The line is text: it is passed on, or dropped in a disabled group.  For
\* pragma() the end of an empty line is a token, and all it waits for.
TextLine(l) ==
    /\ l.d = "text"
    /\ input' = Advance(IF cppoff > 0 THEN << >> ELSE l.toks)
    /\ lineno' = lineno + 1
    /\ IF calls[1].at = "pragma" /\ calls[1].nl /\ l.toks = << >>
       THEN calls' = Tail(calls) /\ disexpand' = FALSE
       ELSE UNCHANGED <<calls, disexpand>>
    /\ UNCHANGED <<macros, cond, hide, out, status, argdir>>

\* The function that waits when a directive is processed finds the end of that
\* line in yytext, and lexmode, which made a line's end a token, set back.
Interrupted(c) == CASE c.at = "ahead" -> [c EXCEPT !.name = EndLine]
                    [] c.at = "pragma" -> [c EXCEPT !.nl = FALSE]
                    [] OTHER -> c

\* The end of cpp(), with the functions more called by the directive: disexpand
\* is cleared for whoever waits, parsepars() as well.
Processed(cs, more) ==
    /\ calls' = more \o [cs EXCEPT ![1] = Interrupted(@)]
    /\ disexpand' = (more # << >>)
    /\ argdir' = (argdir \/ Collecting)

\* The include directories are searched in order; a file that is missing or
\* that cannot be opened is an error.
include(l) ==
    /\ l.d = "include"
    /\ IF cppoff > 0
       THEN /\ input' = Advance(<< >>) /\ lineno' = lineno + 1
            /\ Processed(calls, << >>)
            /\ UNCHANGED <<macros, cond, hide, out, status>>
       ELSE IF l.x \in DOMAIN Header /\ Opened < FOPEN_MAX
       THEN /\ input' = addinput(Frame("file", l.x, << >>, << >>), Advance(<< >>), lineno + 1)
            /\ lineno' = 0
            /\ Processed(calls, << >>)
            /\ UNCHANGED <<macros, cond, hide, out, status>>
       ELSE Fail

\* setloc(): the number given is that of the next line.
line(l) ==
    /\ l.d = "line"
    /\ IF cppoff = 0 /\ l.n = 0 THEN Fail
       ELSE /\ input' = Advance(<< >>)
            /\ lineno' = IF cppoff > 0 THEN lineno + 1 ELSE l.n - 1
            /\ Processed(calls, << >>)
            /\ UNCHANGED <<macros, cond, hide, out, status>>

\* The rest of the line is dropped and next() called, which reads the lines that
\* follow: a token there is a trailing character of #pragma.
pragma(l) ==
    /\ l.d = "pragma"
    /\ input' = Advance(<< >>) /\ lineno' = lineno + 1
    /\ Processed(calls, IF cppoff > 0 THEN << >> ELSE <<[at |-> "pragma", nl |-> TRUE]>>)
    /\ UNCHANGED <<macros, cond, hide, out, status>>

\* #define and #undef free the definition of x, to which the Macro of an
\* expand() that waits for more of its call still points.
Freed == <<Item("freed", << >>, 0)>>
Free(cs, x) ==
    [i \in 1 .. Len(cs) |->
        IF cs[i].at \in {"ahead", "empty", "args"} /\ cs[i].mp = x
        THEN [cs[i] EXCEPT !.def = Freed] ELSE cs[i]]

Clause(l) ==
    /\ l.d \notin {"text", "include", "line", "pragma"}
    /\ Directive(l)
    /\ IF status' = "error" THEN TRUE
       ELSE /\ input' = Advance(<< >>) /\ lineno' = lineno + 1
            /\ Processed(IF l.d \in {"define", "undef"} /\ cppoff = 0
                         THEN Free(calls, l.x) ELSE calls, << >>)
            /\ UNCHANGED <<hide, out>>

readline(l) == TextLine(l) \/ include(l) \/ line(l) \/ pragma(l) \/ Clause(l)

\* A directive inside the arguments of a macro is processed as any other.
ReadLine ==
    /\ Wanted /\ AtLineEnd
    /\ IF input[1].file = Main
       THEN \E l \in Lines(text) : text' = Append(text, l) /\ readline(l)
       ELSE /\ input[1].pos < Len(Header[input[1].file])
            /\ readline(Header[input[1].file][input[1].pos + 1])
            /\ UNCHANGED text

\* (fault) the line number of the file below is not restored.
BadDelinput(in) == lineno

\* delinput(): the location of the input below is restored.
delinput(in) == in[1].lineno

\* Who gets the end of the input: pragma() returns, and its caller reads on.
Waiting == SelectSeq(calls, LAMBDA c : c.at # "pragma")[1]

\* The end of an included file, and of Main, where a group may still be open.
\* ahead() then uses an input that is gone.
EndOfFile ==
    /\ Wanted /\ AtLineEnd
    /\ IF input[1].file = Main THEN Len(input) = 1 ELSE input[1].pos = Len(Header[input[1].file])
    /\ UNCHANGED text
    /\ IF Len(input) > 1
       THEN /\ input' = Tail(input) /\ lineno' = delinput(Tail(input))
            /\ UNCHANGED <<macros, cond, hide, flags, calls, out, status>>
       ELSE IF Waiting.at = "args" \/ (cppctx > 0 /\ calls[1].at \in {"top", "pragma"}) THEN Fail
       ELSE /\ status' = IF Waiting.at = "top" THEN "end" ELSE "crash"
            /\ UNCHANGED <<input, lineno, macros, cond, hide, flags, calls, out>>

-----------------------------------------------------------------------------
(* Macro expansion                                                         *)

\* moreinput() at the end of an expansion, and delmacro(): its names are
\* visible again.
EndOfMacro ==
    /\ Wanted /\ input[1].type = "macro" /\ input[1].rest = << >>
    /\ hide' = hide \ input[1].hideset
    /\ input' = Tail(input)
    /\ lineno' = delinput(Tail(input))
    /\ UNCHANGED <<text, macros, cond, flags, calls, out, status>>

\* The function at the top of the C stack gets the token t: the parser, the
\* argument loop of parsepars() with paren(), or the loop of expandarg().
Deliver(cs, t) ==
    LET c == cs[1] IN
    /\ out' = IF c.at = "top" THEN Append(out, t) ELSE out
    /\ calls' =
         CASE c.at = "top" -> cs
           [] c.at = "param" -> [cs EXCEPT ![1].buf = Append(@, t)]
           [] c.at = "args" /\ t = EndLine -> cs        \* space in an argument
           [] c.at = "args" /\ c.depth = 0 /\ t \in {Comma, RP} ->
                [cs EXCEPT ![1].args = Append(@, c.cur), ![1].cur = << >>,
                           ![1].closed = (t = RP)]
           [] OTHER -> [cs EXCEPT ![1].cur = Append(@, t),
                                  ![1].depth = CASE t = LP -> c.depth + 1
                                                 [] t = RP -> c.depth - 1
                                                 [] OTHER -> c.depth]

\* next() returns the token t; cpp() does not accept one behind #pragma.
Pass(in, cs, t) ==
    IF cs[1].at = "pragma" THEN Fail
    ELSE /\ Deliver(cs, t)
         /\ input' = in
         /\ UNCHANGED <<lineno, macros, cond, hide, flags, status>>

\* The first tests of expand().
Expandable(t) == t \in DOMAIN macros /\ t \notin hide /\ ~disexpand

Read1(in) == [in EXCEPT ![1].rest = Tail(@)]

\* A token that is no macro to expand.
Token ==
    /\ Wanted /\ Reading /\ ~InAhead
    /\ ~Expandable(input[1].rest[1])
    /\ Pass(Read1(input), calls, input[1].rest[1])
    /\ UNCHANGED text

\* newmacro() and addinput(IMACRO): the expansion is an input from now on,
\* empty until copymacro() has ended.
BeginCopy(in, cs, m, def, args) ==
    /\ input' = addinput(Frame("macro", in[1].file, << >>, m), in, lineno)
    /\ calls' = <<[at |-> "copy", mp |-> m, def |-> def, args |-> args, pos |-> 1,
                   buf |-> << >>, glue |-> FALSE]>> \o cs

ExpandObject ==
    /\ Wanted /\ Reading /\ ~InAhead
    /\ LET t == input[1].rest[1] IN
       /\ Expandable(t) /\ macros[t].npars = -1
       /\ BeginCopy(Read1(input), calls, t, macros[t].def, << >>)
    /\ UNCHANGED <<lineno, text, macros, cond, hide, flags, out, status>>

\* The name of a function-like macro: parsepars() looks for "(" with ahead(),
\* which closes every expansion that has ended and reads lines.
ExpandFunction ==
    /\ Wanted /\ Reading /\ ~InAhead
    /\ LET t == input[1].rest[1] IN
       /\ Expandable(t) /\ macros[t].npars >= 0
       /\ calls' = <<[at |-> "ahead", mp |-> t, npars |-> macros[t].npars,
                      def |-> macros[t].def, name |-> t]>> \o calls
    /\ input' = Read1(input)
    /\ UNCHANGED <<lineno, text, macros, cond, hide, flags, out, status>>

\* parsepars() goes on at p.
Call(c, p, closed) ==
    [at |-> p, mp |-> c.mp, npars |-> c.npars, def |-> c.def, args |-> << >>,
     cur |-> << >>, depth |-> 0, closed |-> closed]

\* Without "(" what iden() finds in yytext is the token.
Ahead ==
    /\ status = "run" /\ calls[1].at = "ahead"
    /\ Reading \/ input[1].type = "param"
    /\ LET c == calls[1] IN
       IF ~Reading \/ input[1].rest[1] # LP
       THEN Pass(input, Tail(calls), c.name)
       ELSE /\ input' = Read1(input)
            /\ calls' = <<Call(c, IF c.npars = 0 THEN "empty" ELSE "args", FALSE)>> \o Tail(calls)
            /\ disexpand' = TRUE
            /\ UNCHANGED <<lineno, macros, cond, hide, argdir, out, status>>
    /\ UNCHANGED text

\* For a macro without parameters ")" is looked for in the same way, and "()"
\* has no empty argument.
AheadEmpty ==
    /\ status = "run" /\ calls[1].at = "empty"
    /\ Reading \/ input[1].type = "param"
    /\ LET found == Reading /\ input[1].rest[1] = RP IN
       /\ input' = IF found THEN Read1(input) ELSE input
       /\ calls' = <<Call(calls[1], "args", found)>> \o Tail(calls)
    /\ UNCHANGED <<lineno, text, macros, cond, hide, flags, out, status>>

\* The end of parsepars(): the number of arguments is checked.
ArgsRead ==
    /\ status = "run" /\ Closed
    /\ LET c == calls[1] IN
       IF Len(c.args) >= NR_MACROARG \/ Len(c.args) # c.npars
       THEN Fail
       ELSE /\ BeginCopy(input, Tail(calls), c.mp, c.def, c.args)
            /\ disexpand' = FALSE
            /\ UNCHANGED <<lineno, macros, cond, hide, argdir, out, status>>
    /\ UNCHANGED text

\* nextcpp(): the input ends before the arguments do.
Unterminated ==
    /\ status = "run" /\ calls[1].at = "args" /\ ~Closed
    /\ input[1].type = "param" /\ input[1].rest = << >>
    /\ Fail /\ UNCHANGED text

-----------------------------------------------------------------------------
(* copymacro()                                                             *)

Copying == calls[1].at = "copy"

\* The text s is written behind the buffer; ## has removed the space between.
Write(c, s) ==
    IF c.glue /\ c.buf # << >> /\ s # << >>
    THEN Front(c.buf) \o <<Last(c.buf) \o s[1]>> \o Tail(s)
    ELSE c.buf \o s

\* A parameter next to ## is not expanded.
concatoper(c) ==
    \/ c.pos < Len(c.def) /\ c.def[c.pos + 1].k = "cat"
    \/ c.pos > 1 /\ c.def[c.pos - 1].k = "cat"

\* The string of an argument.
Stringize(arg) == <<"str">> \o FlattenSeq(arg)

Copied(c, s) ==
    IF Len(Write(c, s)) > INPUTSIZ THEN Fail
    ELSE /\ calls' = <<[c EXCEPT !.buf = Write(c, s), !.glue = FALSE, !.pos = @ + 1]>> \o Tail(calls)
         /\ UNCHANGED <<input, lineno, macros, cond, hide, flags, out, status>>

CopyItem ==
    /\ status = "run" /\ Copying
    /\ LET c == calls[1] IN
       /\ c.pos <= Len(c.def)
       /\ LET i == c.def[c.pos] IN
          CASE i.k = "tok" -> Copied(c, <<i.t>>)
            [] i.k = "str" -> Copied(c, <<Stringize(c.args[i.n])>>)
            [] i.k = "par" /\ concatoper(c) -> Copied(c, c.args[i.n])
            [] i.k = "cat" ->
                 /\ calls' = <<[c EXCEPT !.glue = TRUE, !.pos = @ + 1]>> \o Tail(calls)
                 /\ UNCHANGED <<input, lineno, macros, cond, hide, flags, out, status>>
            [] i.k = "freed" ->         \* the definition is read where it was
                 /\ status' = "crash"
                 /\ UNCHANGED <<input, lineno, macros, cond, hide, flags, calls, out>>
            [] OTHER ->         \* expandarg(): the argument becomes an input
                 /\ input' = addinput(Frame("param", input[1].file, c.args[i.n], << >>), input, lineno)
                 /\ calls' = <<[at |-> "param", buf |-> << >>]>> \o calls
                 /\ UNCHANGED <<lineno, macros, cond, hide, flags, out, status>>
    /\ UNCHANGED text

\* The end of expandarg().
EndOfParam ==
    /\ status = "run" /\ calls[1].at = "param"
    /\ input[1].type = "param" /\ input[1].rest = << >>
    /\ LET c == calls[2]
           s == calls[1].buf IN
       IF Len(Write(c, s)) > INPUTSIZ THEN Fail
       ELSE /\ calls' = <<[c EXCEPT !.buf = Write(c, s), !.glue = FALSE, !.pos = @ + 1]>>
                            \o SubSeq(calls, 3, Len(calls))
            /\ input' = Tail(input) /\ lineno' = delinput(Tail(input))
            /\ UNCHANGED <<macros, cond, hide, flags, out, status>>
    /\ UNCHANGED text

\* addhideset() for every expansion on the stack of inputs.
addhideset(in, m) ==
    [i \in 1 .. Len(in) |->
        IF in[i].type = "macro" THEN [in[i] EXCEPT !.hideset = @ \cup {m}] ELSE in[i]]

\* (fault) the name of the expansion itself is forgotten.
BadHidden(in) == hide \cup (in[1].hideset \ {in[1].mac})

\* What was expanded while the arguments were is hidden with the macro.
Hidden(in) == hide \cup in[1].hideset

\* The end of copymacro() and of expand().
CopyDone ==
    /\ status = "run" /\ Copying
    /\ LET c == calls[1]
           in == addhideset(input, c.mp) IN
       /\ c.pos > Len(c.def)
       /\ IF \E i \in 1 .. Len(in) : Cardinality(in[i].hideset) > NR_MACROARG
          THEN Fail
          ELSE /\ input' = [in EXCEPT ![1].rest = c.buf]
               /\ hide' = Hidden(in)
               /\ calls' = Tail(calls)
               /\ UNCHANGED <<lineno, macros, cond, flags, out, status>>
    /\ UNCHANGED text

-----------------------------------------------------------------------------

Ended1 == status # "run" /\ UNCHANGED vars

Step == \/ ReadLine \/ EndOfFile
        \/ EndOfMacro \/ Token \/ ExpandObject \/ ExpandFunction
        \/ Ahead \/ AheadEmpty \/ ArgsRead \/ Unterminated
        \/ CopyItem \/ EndOfParam \/ CopyDone

Next == Step \/ Ended1

\* The preprocessor is sequential code: it goes on while it can.
Spec == Init /\ [][Next]_vars /\ WF_vars(Step)

-----------------------------------------------------------------------------
\* The groups that are open and disabled.
Off == {n \in 0 .. cppctx - 1 : ~ifstate[n].enabled}

\* The counter that decides whether a line is compiled (cpp.c:1001, cppoff) is
\* the number of open groups that are disabled, through every nesting of #if,
\* #elif, #else and #endif and across the files they are spread over: one
\* missed step and the rest of the program would be dropped, or compiled twice.
OffCounts == cppoff = Cardinality(Off)

\* While the expansion of a macro is read its name is not expanded again
\* (addhideset() and hide(), cpp.c:366): two expansions of a name are on the
\* input stack only if the inner one is inside an argument of the outer one,
\* which is not read yet.  Otherwise a macro that names itself, directly or
\* through others and through the text behind it, would never end.  It holds
\* until a directive is read among the arguments of a macro, of which C99 says
\* nothing (6.10.3, 11): it clears disexpand (cpp.c:1036), and arguments that
\* are expanded while they are collected can name the macro they belong to.
NoReentry ==
    argdir \/ \A i, j \in 1 .. Len(input) :
        (i < j /\ input[i].type = "macro" /\ input[j].type = "macro" /\ input[i].mac = input[j].mac)
            => \E k \in i + 1 .. j - 1 : input[k].type = "param"
=============================================================================
