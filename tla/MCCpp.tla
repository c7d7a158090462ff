------------------------------- MODULE MCCpp -------------------------------
(***************************************************************************)
(* What C99 says a text means (6.10.1, 6.10.2, 6.10.3), as recursive       *)
(* operators over the whole text, and the texts that are checked.          *)
(***************************************************************************)
EXTENDS Cpp, TLC

CONSTANTS
    Meaning(_),     \* what a text means: Reference below
    MaxLines, MaxTokens,
    Features    \* texts on which cc1 is known to differ from C99:
                \*   "elif"     an #elif or #else behind a group that was taken and an #elif
                \*   "empty"    ## with an empty left operand behind another token
                \*   "nested"   an argument that uses a macro the body uses as well
                \*   "name"     a directive behind the name of a function-like macro
                \*              that is not called
                \*   "long"     a macro with NR_MACROARG parameters and an empty body
                \*   "pragma"   a text behind #pragma with no empty line between

-----------------------------------------------------------------------------
(* Lines                                                                   *)

n(x) == <<x>>
A == n("A")
MCMain == n("main")
Txt(toks) == [d |-> "text", toks |-> toks]
Cond(d, x) == [d |-> d, x |-> x]
Def0(x, fn, pars, body) == [d |-> "define", x |-> x, fn |-> fn, pars |-> pars, body |-> body]

Fun(x, pars, body) == Def0(n(x), TRUE, [i \in 1 .. Len(pars) |-> n(pars[i])],
                           [i \in 1 .. Len(body) |-> n(body[i])])
Obj(x, body) == Def0(n(x), FALSE, << >>, [i \in 1 .. Len(body) |-> n(body[i])])

Null == [d |-> "null"]
\* #define L(1,2,3,4), which has NR_MACROARG parameters.
Long(body) == Def0(n("L"), TRUE, <<n("1"), n("2"), n("3"), n("4")>>, body)

\* cc1 -DD=w -DA=w -UA
DLine == Obj("D", <<"w">>)
MCDflags == <<Obj("A", <<"w">>), Obj("D", <<"v">>), DLine>>
MCUflags == {A}

-----------------------------------------------------------------------------
(* The reference.  A token carries the names that may not replace it any   *)
(* more.                                                                   *)

Tok(t, hs) == [t |-> t, hs |-> hs]
Plain(ts) == [i \in 1 .. Len(ts) |-> Tok(ts[i], {})]
Names(ts) == [i \in 1 .. Len(ts) |-> ts[i].t]
Mark == Tok(<<"error">>, {<<"error">>})

Depth(ts, i) == Cardinality({j \in 2 .. i : ts[j].t = LP}) - Cardinality({j \in 2 .. i : ts[j].t = RP})
Closing(ts) == {i \in 3 .. Len(ts) : ts[i].t = RP /\ Depth(ts, i) = 0}
Commas(ts, end) == {i \in 3 .. end - 1 : ts[i].t = Comma /\ Depth(ts, i) = 1}
Args(ts, end) ==
    LET cut == SetToSortSeq({2, end} \cup Commas(ts, end), <) IN
    [i \in 1 .. Len(cut) - 1 |-> SubSeq(ts, cut[i] + 1, cut[i + 1] - 1)]

Joined(acc, s) ==
    Front(acc) \o <<Tok(Last(acc).t \o s[1].t, Last(acc).hs \cap s[1].hs)>> \o Tail(s)

RECURSIVE RefExpand(_, _), Substituted(_, _, _, _)
Substituted(mac, args, hs, M) ==
    LET def == mac.def
        Beside(i) == (i > 1 /\ def[i - 1].k = "cat") \/ (i < Len(def) /\ def[i + 1].k = "cat")
        Piece(i) ==
            CASE def[i].k = "tok" -> <<Tok(def[i].t, {})>>
              [] def[i].k = "cat" -> << >>
              [] def[i].k = "str" -> <<Tok(<<"str">> \o FlattenSeq(Names(args[def[i].n])), {})>>
              [] def[i].k = "par" /\ Beside(i) ->
                    IF args[def[i].n] = << >> THEN <<Tok(<< >>, {})>> ELSE args[def[i].n]
              [] OTHER -> RefExpand(args[def[i].n], M)
        all[i \in 0 .. Len(def)] ==
            IF i = 0 THEN << >>
            ELSE IF i > 1 /\ def[i - 1].k = "cat" THEN Joined(all[i - 1], Piece(i))
            ELSE all[i - 1] \o Piece(i)
        left == SelectSeq(all[Len(def)], LAMBDA x : x.t # << >>) IN
    [i \in 1 .. Len(left) |-> Tok(left[i].t, left[i].hs \cup hs)]

RefExpand(ts, M) ==
    IF ts = << >> THEN << >>
    ELSE LET h == ts[1]
             end == CHOOSE i \in Closing(ts) : \A j \in Closing(ts) : i <= j
             found == Args(ts, end)
             args == IF M[h.t].npars = 0 /\ found = << << >> >> THEN << >> ELSE found IN
         CASE h.t \in h.hs \/ h.t \notin DOMAIN M -> <<h>> \o RefExpand(Tail(ts), M)
           [] M[h.t].npars = -1 ->
                RefExpand(Substituted(M[h.t], << >>, h.hs \cup {h.t}, M) \o Tail(ts), M)
           [] Len(ts) = 1 \/ ts[2].t # LP -> <<h>> \o RefExpand(Tail(ts), M)
           [] Closing(ts) = {} -> <<Mark>>
           [] Len(args) # M[h.t].npars -> <<Mark>>
           [] OTHER -> RefExpand(Substituted(M[h.t], args, (h.hs \cap ts[end].hs) \cup {h.t}, M)
                                     \o SubSeq(ts, end + 1, Len(ts)), M)

\* A group: taken, when it or one before it was processed.
Group(active, taken, els) == [active |-> active, taken |-> taken, els |-> els]
Active(st) == \A i \in 1 .. Len(st.groups) : st.groups[i].active

RefStart == [groups |-> << >>, macros |-> (n("D") :> Macro(DLine)), out |-> << >>, buf |-> << >>,
             lineno |-> 0, err |-> FALSE, waits |-> FALSE]

\* The text up to a directive.  It waits when its last token is the name of a
\* function-like macro.
Flush(st) ==
    LET rs == RefExpand(Plain(st.buf), st.macros)
        ts == Names(rs) IN
    [st EXCEPT !.out = @ \o ts, !.buf = << >>,
               !.err = @ \/ \E i \in 1 .. Len(ts) : ts[i] = <<"error">>,
               !.waits = /\ rs # << >> /\ Last(ts) \in DOMAIN st.macros \ Last(rs).hs
                         /\ st.macros[Last(ts)].npars >= 0]
Holds(st, x) == x = <<"1">> \/ (x # <<"0">> /\ x \in DOMAIN st.macros)
Begin(st, v) ==
    IF Len(st.groups) = NR_COND - 1 THEN [st EXCEPT !.err = TRUE]
    ELSE [st EXCEPT !.groups = <<Group(v, v, FALSE)>> \o @]
Else(st, v, els) ==
    IF st.groups = << >> \/ st.groups[1].els THEN [st EXCEPT !.err = TRUE]
    ELSE [st EXCEPT !.groups[1] = Group(v /\ ~st.groups[1].taken,
                                        v \/ st.groups[1].taken, els)]

RECURSIVE RefLine(_, _, _)
RefLines(lines, st, depth) ==
    LET at[i \in 0 .. Len(lines)] ==
            IF i = 0 THEN st ELSE RefLine(lines[i], at[i - 1], depth) IN
    at[Len(lines)]
RefLine(l, s, depth) ==
    LET st == [(IF l.d \in {"text", "null"} THEN s ELSE Flush(s)) EXCEPT !.lineno = @ + 1] IN
    CASE st.err -> st
      [] l.d = "text" -> IF Active(st) THEN [st EXCEPT !.buf = @ \o l.toks] ELSE st
      [] l.d \in {"if", "ifdef"} -> Begin(st, Active(st) /\ Holds(st, l.x))
      [] l.d = "ifndef" -> Begin(st, Active(st) /\ ~Holds(st, l.x))
      [] l.d = "elif" -> Else(st, Holds(st, l.x), FALSE)
      [] l.d = "else" -> Else(st, TRUE, TRUE)
      [] l.d = "endif" -> IF st.groups = << >> THEN [st EXCEPT !.err = TRUE]
                          ELSE [st EXCEPT !.groups = Tail(@)]
      [] l.d = "bad" -> [st EXCEPT !.err = TRUE]
      [] ~Active(st) -> st
      [] l.d = "define" -> IF WrongDef(l) \/ Len(l.pars) >= NR_MACROARG THEN [st EXCEPT !.err = TRUE]
                           ELSE [st EXCEPT !.macros = [m \in DOMAIN @ \cup {l.x} |->
                                                         IF m = l.x THEN Macro(l) ELSE @[m]]]
      [] l.d = "undef" -> [st EXCEPT !.macros = [m \in DOMAIN @ \ {l.x} |-> @[m]]]
      [] l.d = "line" -> IF l.n = 0 THEN [st EXCEPT !.err = TRUE] ELSE [st EXCEPT !.lineno = l.n - 1]
      [] l.d = "include" -> IF l.x \notin DOMAIN Header \/ depth = FOPEN_MAX
                            THEN [st EXCEPT !.err = TRUE]
                            ELSE [Flush(RefLines(Header[l.x], [st EXCEPT !.lineno = 0], depth + 1))
                                    EXCEPT !.lineno = st.lineno]
      [] l.d = "error" -> [st EXCEPT !.err = TRUE]
      [] OTHER -> st

Reference(t) == LET st == RefLines(t, RefStart, 1) IN Flush(st)

-----------------------------------------------------------------------------
(* The texts                                                               *)

\* Texts of conditional groups, of files and of line numbers: an include file
\* with a guard, one that leaves a group open, and one that includes itself.
Groups ==
    {Txt(<< <<"x">> >>), Cond("if", <<"0">>), Cond("if", <<"1">>), Cond("ifdef", A),
     Cond("ifndef", A), Cond("elif", <<"0">>), Cond("elif", <<"1">>), [d |-> "else"],
     [d |-> "endif"], Def0(A, FALSE, << >>, << <<"y">> >>), Cond("undef", A),
     Cond("include", <<"guard">>), Cond("include", <<"open">>), Cond("include", <<"self">>),
     Cond("include", <<"none">>), [d |-> "line", n |-> 7], [d |-> "line", n |-> 0],
     [d |-> "error"], [d |-> "bad"], [d |-> "pragma"], Null, Txt(<< >>), Txt(<<n("D")>>),
     Obj("d", <<"##">>), Long(<<n("D")>>)} \cup (IF "long" \in Features THEN {Long(<< >>)} ELSE {})
MCHeader ==
    [f \in {n("guard"), n("open"), n("self")} |->
        CASE f = n("guard") -> <<Cond("ifndef", <<"G">>), Def0(<<"G">>, FALSE, << >>, << >>),
                              Txt(<< <<"h">> >>), [d |-> "endif"]>>
          [] f = n("open") -> <<Cond("ifdef", A), Txt(<< <<"o">> >>)>>
          [] f = n("self") -> <<Cond("include", <<"self">>)>>]

\* Sets of macros, and the names a text that uses them may have.
MacroSets == <<
    << Fun("f", <<"a">>, <<"f", "(", "x", "a", ")">>), Obj("g", <<"f">>) >>,
    << Obj("B", <<"C", "x">>), Obj("C", <<"B", "(">>), Fun("i", <<"a">>, <<"a">>), Obj("o", <<"i", "(">>) >>,
    << Fun("c", <<"a", "b">>, <<"a", "##", "b">>), Fun("s", <<"a">>, <<"#", "a">>), Obj("x", <<"c">>) >>,
    << Fun("p", << >>, <<"y">>), Fun("e", <<"a">>, <<"a", "##", "y">>) >> >>
    \o (IF "empty" \in Features THEN << << Fun("k", <<"a">>, <<"x", "a", "##", "y">>) >> >> ELSE << >>)
    \o (IF "nested" \in Features
        THEN << << Fun("j", <<"a">>, <<"i", "(", "a", ")">>), Fun("i", <<"a">>, <<"a">>) >> >> ELSE << >>)
Tokens(k) == {MacroSets[k][i].x : i \in 1 .. Len(MacroSets[k])}
             \cup {LP, RP, n("x")} \cup (IF k = 3 THEN {Comma} ELSE {})

\* Short texts, and longer ones inside a call.
Sources(k) ==
    LET short == BoundedSeq(Tokens(k), MaxTokens) IN
    (short \ {<< >>}) \cup
    {<<m.x, LP>> \o s \o <<RP>> : s \in short, m \in {d \in ToSet(MacroSets[k]) : d.fn}}

\* The text of a set, then perhaps "#", then the rest of the text.
TextsOf(k, m) ==
    CASE m < Len(MacroSets[k]) -> {MacroSets[k][m + 1]}
      [] m = Len(MacroSets[k]) -> {Txt(s) : s \in Sources(k)}
      [] m = Len(MacroSets[k]) + 1 -> {Txt(<<n(";")>>), Null}
      [] m = Len(MacroSets[k]) + 2 -> {Txt(<<RP>>), Txt(<<LP, n("x"), RP>>)}
      [] OTHER -> {}

\* The name of a function-like macro waits for "(".
NamePending(t) == Meaning(t).waits /\ ~Meaning(t).err

\* An #elif behind a group that was taken: cc1 forgets that it was.
LateElif(t, l) ==
    /\ l.d = "elif"
    /\ LET st == RefLines(t, RefStart, 1) IN
       st.groups # << >> /\ st.groups[1].taken

\* #pragma waits for a line: a text is an error unless it is empty and next.
Waits(t) ==
    \E i \in 1 .. Len(t) :
        /\ t[i].d = "pragma" /\ Active(RefLines(SubSeq(t, 1, i - 1), RefStart, 1))
        /\ i < Len(t) => t[i + 1] # Txt(<< >>)
Trailing(t, l) ==
    /\ l.d \in {"text", "include"} /\ Waits(t)
    /\ ~(l = Txt(<< >>) /\ Last(t).d = "pragma")

\* In the run, "" is the line behind #pragma.
MCLines(t) ==
    LET of == {k \in 1 .. Len(MacroSets) : t # << >> /\ t[1] = MacroSets[k][1]} IN
    IF t = << >> THEN (Groups \ {Txt(<< >>)}) \cup {MacroSets[k][1] : k \in 1 .. Len(MacroSets)}
    ELSE IF of # {}
    THEN {l \in TextsOf(CHOOSE k \in of : TRUE, Len(t)) :
            /\ Last(t).d = "text" => l.d \in {"text", "null"}
            /\ "name" \in Features \/ ~NamePending(t) \/ l = Null \/ l.toks[1] = LP \/ Last(t).d # "null"}
    ELSE IF Len(t) < MaxLines
    THEN {l \in Groups :
            /\ l = Txt(<< >>) => Last(t).d = "pragma"
            /\ "elif" \in Features \/ ~LateElif(t, l)
            /\ "pragma" \in Features \/ ~Trailing(t, l)}
    ELSE {}

-----------------------------------------------------------------------------

\* A point where nothing is pending.
Quiet == \/ status = "end"
         \/ status = "run" /\ Len(input) = 1 /\ AtLineEnd /\ calls = <<Top>>

\* Whenever nothing is pending, the tokens passed to the parser, the macros, the
\* open groups and the line number are the ones that C99 6.10 gives to the
\* lines read so far, and cpp.c reports an error only for a text that has one
\* or that ends inside a group: through every order of directives, files and
\* nested expansions, of which next(), expand() and readline() keep the state
\* in three stacks that the others change while they wait.  Only at the end of
\* a text whose last token is the name of a function-like macro cc1 has no input
\* to look at any more (ahead(), lex.c:930).  A text with a directive inside the
\* arguments of a macro has no meaning (C99 6.10.3, 11).
Preprocessed ==
    LET ref == Meaning(text) IN
    argdir \/
    /\ Quiet => /\ ~ref.err
                /\ out = ref.out /\ lineno = ref.lineno
                /\ macros = ref.macros /\ cppctx = Len(ref.groups)
                /\ (cppoff = 0) = Active(ref)
    /\ status = "error" => ref.err \/ ref.groups # << >>
    /\ status = "crash" => ref.err \/ ref.waits
=============================================================================
