------------------------------- MODULE MCMake -------------------------------
(* Makefiles for Make.  A makefile record holds what make reads:           *)
(*   rules     the rules in order: target, prerequisites, recipe lines     *)
(*   srcs      files the inference rules can make a target from            *)
(*   default   .DEFAULT is defined                                         *)
(*   phony     targets whose recipe writes no file                         *)
(*   precious, ignore, silent   prerequisites of the special targets       *)
(*   flags, goals               the command line                           *)
(*   old       the times of the files before the run, -1: no such file     *)
EXTENDS Make, TLC

Names == {"all", "x", "y", "d", "s"}

Rule(t, ds, lines) == [target |-> t, deps |-> ds, lines |-> lines]
With(S) == [f \in {"k", "i", "n", "q", "t"} |-> f \in S]
Plain == [srcs |-> [t \in Names |-> << >>], default |-> FALSE, phony |-> {},
          precious |-> {}, ignore |-> {}, silent |-> {}, goals |-> << >>]
Mk(rules, S, old, more) == more @@ Plain @@ [rules |-> rules, flags |-> With(S), old |-> old]

\* times: all x y d s
Old(a, x, y, d, s) == "all" :> a @@ "x" :> x @@ "y" :> y @@ "d" :> d @@ "s" :> s

Diamond(lx, ly, ld) ==
    << Rule("all", <<"x", "y">>, << >>), Rule("x", <<"d">>, lx), Rule("y", <<"d">>, ly),
       Rule("d", <<"s">>, ld) >>
One == <<"plain">>

\* y is reached from all, and before that from x
Ladder == << Rule("all", <<"x", "y">>, << >>), Rule("x", <<"d", "y">>, One), Rule("y", <<"d">>, One),
             Rule("d", <<"s">>, One) >>

NoMore == [goals |-> << >>]
MCMakefiles ==
    { Mk(Diamond(One, One, <<"plain", "plain">>), S, Old(-1, 1, 1, 0, 1), NoMore) : S \in {{}, {"k"}, {"t"}} }
    \cup
    { Mk(Diamond(One, One, One), {}, Old(-1, x, y, 0, 0), [precious |-> {"d", "x"}]) : x, y \in {-1, 0, 1} }
    \cup
    { Mk(Ladder, S, Old(-1, x, y, d, s), NoMore) :
        S \in {{}, {"k"}, {"q"}}, x, y, d \in {-1, 0, 1}, s \in {0, 1} }
    \cup
    { Mk(Diamond(<<"plus", "plain">>, <<"plus">>, One), S, Old(-1, 0, 1, 1, 0), NoMore) : S \in {{"n"}, {"q"}, {"i"}, {"t"}} }
    \cup
    { Mk(Diamond(<<"minus", "plain">>, One, One), {"k"}, Old(-1, 1, 0, -1, 0), [goals |-> <<"y", "x">>]),
      Mk(Diamond(One, One, One), {"k"}, Old(-1, 1, 0, 1, 0), [phony |-> {"d"}, ignore |-> {"x"}, goals |-> <<"all", "y">>]),
      Mk(Diamond(One, << >>, << >>), {"t"}, Old(-1, 1, 0, 1, -1), [default |-> TRUE, silent |-> {"x"}]),
      Mk(<<Rule("all", <<"x", "y">>, One), Rule("y", <<"x">>, << >>)>>, {"q"}, Old(1, 1, 1, 0, 0), NoMore),
      Mk(<<Rule("x", << >>, << >>)>>, {"k"}, Old(-1, 0, -1, 0, 1),
         [srcs |-> [Plain.srcs EXCEPT !["x"] = <<"d", "s">>, !["y"] = <<"s">>], goals |-> <<"x", "y">>]),
      Mk(<<Rule("x", <<"d", "y">>, One)>>, {"k"}, Old(-1, 0, -1, 0, 1), NoMore),
      Mk(<< >>, {}, Old(-1, 0, -1, 0, 1), NoMore) }
    \cup
    \* what Steady and Earnest except, visited twice: prerequisites that every parent touches,
    \* a prerequisite .DEFAULT makes, one that is made from a source but also has a header
    { Mk(Diamond(<<"plus">>, <<"plus">>, <<"plain", "minus">>), S, Old(-1, 0, 0, 0, 1), [goals |-> <<"all", "x">>]) :
        S \in {{"t"}, {"n"}, {"k"}} }
    \cup
    { Mk(Diamond(One, One, << >>), {"k"}, Old(-1, 0, 0, 0, 1),
         [default |-> def, goals |-> <<"all", "x">>, srcs |-> [Plain.srcs EXCEPT !["d"] = <<"x">>]]) :
        def \in BOOLEAN }

\* make -k with two targets above d
KeepGoingMakefiles ==
    { Mk(Diamond(One, One, One), {"k"}, Old(-1, 1, 1, 0, 1), NoMore) }

\* x is made from s by an inference rule and also depends on the header d, as in
\* "main.o: make.h" of cmd/make/deps.mk; d is newer than x, s is not
HeaderMakefiles ==
    { Mk(<<Rule("x", <<"d">>, << >>)>>, {}, Old(-1, 0, -1, d, 0),
         [srcs |-> [Plain.srcs EXCEPT !["x"] = <<"s">>]]) : d \in {0, 1} }
=============================================================================
