----------------------------- MODULE MCCcDriver -----------------------------
(* Command lines for CcDriver.                                             *)
EXTENDS CcDriver, TLC

NoFlags == [M |-> FALSE, E |-> FALSE, S |-> FALSE, c |-> FALSE, k |-> FALSE,
            o |-> FALSE, Q |-> FALSE]
With(S) == [x \in DOMAIN NoFlags |-> x \in S]
Op(kind, stem) == [kind |-> kind, stem |-> stem]
Cmd(S, chain) == [flags |-> With(S), chain |-> chain]

\* cc -q a.c liba b.s     cc -q -c a.c b.c     cc -Q a.c      cc -c -o x a.qbe
\* cc -q -S a.c           cc -E -o x a.c       cc -M a.c      cc -q -c -k a.ir
\* cc a.s b.xyz           cc -c a.o            cc -Q -k -S a.ir
MCJobs ==
    { Cmd({}, <<Op("c", "a"), Op("lib", "l"), Op("s", "b")>>),
      Cmd({"c"}, <<Op("c", "a"), Op("c", "b")>>),
      Cmd({"Q"}, <<Op("c", "a")>>),
      Cmd({"c", "o", "Q"}, <<Op("qbe", "a")>>),
      Cmd({"S"}, <<Op("c", "a")>>),
      Cmd({"E", "o"}, <<Op("c", "a")>>),
      Cmd({"M"}, <<Op("c", "a")>>),
      Cmd({"c", "k"}, <<Op("ir", "a")>>),
      Cmd({}, <<Op("s", "a"), Op("bad", "b")>>),
      Cmd({"c"}, <<Op("o", "a")>>),
      Cmd({"S", "k", "Q"}, <<Op("ir", "a")>>) }

\* cc -c -q a.c: cc1 | cc2 | as
PipeJobs == { Cmd({"c"}, <<Op("c", "a")>>) }

\* cc -S a.s
StrayJobs == { Cmd({"S"}, <<Op("s", "a")>>) }
=============================================================================
