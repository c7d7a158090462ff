-------------------------------- MODULE Make --------------------------------
(***************************************************************************)
(* The make of cmd/make: rules.c (the dependency graph and the traversal   *)
(* that rebuilds it), the goal loop and the signal handler of main.c, and  *)
(* launch() of posix.c.  rebuild() is recursive; its activation records    *)
(* are the frames of the variable stack.                                   *)
(***************************************************************************)
EXTENDS Integers, Sequences, SequencesExt, FiniteSetsExt

CONSTANTS
    Target,     \* names of targets and files
    Makefiles,  \* makefile, command line and file times: see MCMake
    Signals,    \* TRUE: SIGINT, SIGHUP, SIGTERM or SIGQUIT may arrive
    MaxTime     \* last second of the clock

None == "none"

ASSUME TimeAssumption == MaxTime \in Nat \ {0} /\ Signals \in BOOLEAN /\ None \notin Target
ASSUME MakefileType == \A m \in Makefiles :
    /\ m.rules \in Seq([target : Target, deps : Seq(Target), lines : Seq({"plain", "minus", "plus"})])
    /\ m.goals \in Seq(Target) /\ m.srcs \in [Target -> Seq(Target)]
    /\ m.phony \subseteq Target /\ m.ignore \subseteq Target /\ m.default \in BOOLEAN
    /\ m.flags \in [{"k", "i", "n", "q", "t"} -> BOOLEAN]
\* The files are older than the run, which begins in the second MaxTime - 1.
ASSUME FilesAssumption == \A m \in Makefiles : m.old \in [Target -> -1 .. MaxTime - 2]

VARIABLES
    mk,         \* what make reads: see MCMake
    nrule,      \* rules parsed
    deps, actions, defined, deftarget,  \* the Target structures (rules.c)
    pc,         \* parse | main | loop | run | child | failed | exited
    goal,       \* index into the goals of the command line
    stack,      \* rebuild()'s frames [tp, p, err, need], the innermost last
    stamp,      \* tp->stamp
    cmds,       \* the commands run() has still to execute for the top frame
    exitstatus, stop,
    status,     \* how make ended: running, 0, 1 or signal
    mtime,      \* time of every file, -1 when it does not exist
    clock,      \* the second it is
    partial,    \* files last written by a recipe that did not complete (history)
    hit,        \* files whose recipe ran when a signal arrived (history)
    log         \* how update() of a target ended, in order: [t, ok] (history)

tree == <<nrule, deps, actions, defined, deftarget>>
disk == <<mtime, clock, partial>>
vars == <<mk, tree, pc, goal, stack, stamp, cmds, exitstatus, stop, status, disk, hit, log>>

fl == mk.flags

-----------------------------------------------------------------------------
(* The makefile.                                                           *)

\* As the code has it: the strcmp compares with the target asked about.
depends(ds, target, dep) == target \in Range(ds[target])

adddep(ds, target, dep) ==
    IF depends(ds, dep, target) \/ dep \in Range(ds[target]) THEN ds
    ELSE [ds EXCEPT ![target] = Append(@, dep)]

Init ==
    /\ mk \in Makefiles
    /\ nrule = 0 /\ defined = {} /\ deftarget = None
    /\ deps = [t \in Target |-> << >>] /\ actions = [t \in Target |-> << >>]
    /\ pc = "parse" /\ goal = 1 /\ stack = << >> /\ cmds = << >>
    /\ stamp = [t \in Target |-> 0]
    /\ exitstatus = 0 /\ stop = FALSE /\ status = "running"
    /\ mtime = mk.old /\ clock = MaxTime - 1 /\ partial = {}
    /\ hit = {} /\ log = << >>

\* The prerequisites of a rule are added one by one.
adddeps(r) ==
    LET ds[n \in 0 .. Len(r.deps)] ==
            IF n = 0 THEN deps ELSE adddep(ds[n - 1], r.target, r.deps[n])
    IN  ds[Len(r.deps)]

\* rule(): addtarget(), adddep() for every prerequisite, addrule()
ParseRule ==
    /\ pc = "parse" /\ nrule < Len(mk.rules)
    /\ LET r == mk.rules[nrule + 1]
       IN  /\ deps' = adddeps(r)
           /\ defined' = defined \cup {r.target}
           /\ deftarget' = IF deftarget = None THEN r.target ELSE deftarget
           /\ actions' = IF r.lines = << >> THEN actions
                         ELSE [actions EXCEPT ![r.target] = r.lines]
    /\ nrule' = nrule + 1
    /\ UNCHANGED <<mk, pc, goal, stack, stamp, cmds, exitstatus, stop, status, disk, hit, log>>

EndParse ==
    /\ pc = "parse" /\ nrule = Len(mk.rules)
    /\ pc' = "main"
    /\ UNCHANGED <<mk, tree, goal, stack, stamp, cmds, exitstatus, stop, status, disk, hit, log>>

-----------------------------------------------------------------------------
(* main(): build() every goal, or the default target; exit(exitstatus).    *)

Goals == IF mk.goals # << >> THEN mk.goals
         ELSE IF deftarget = None THEN << >> ELSE <<deftarget>>

\* the beginning of rebuild(t)
Enter(t) ==
    /\ stamp' = [stamp EXCEPT ![t] = mtime[t]]
    /\ stack' = Append(stack, [tp |-> t, p |-> 1, err |-> FALSE, need |-> FALSE])

Build ==
    /\ pc = "main" /\ goal <= Len(Goals)
    /\ Enter(Goals[goal])
    /\ pc' = "loop"
    /\ UNCHANGED <<mk, tree, goal, cmds, exitstatus, stop, status, disk, hit, log>>

Finish ==
    /\ pc = "main" /\ goal > Len(Goals)
    /\ pc' = "exited" /\ status' = IF exitstatus = 0 THEN "0" ELSE "1"
    /\ UNCHANGED <<mk, tree, goal, stack, stamp, cmds, exitstatus, stop, disk, hit, log>>

-----------------------------------------------------------------------------
(* rebuild(): the loop over the prerequisites.                             *)

top == Last(stack)
tp == top.tp
AtEnd == top.p > Len(deps[tp])

\* (fault) the index is not advanced
CheckedStay(f, q, r, build) ==
    [f EXCEPT !.err = @ \/ r, !.need = @ \/ (~r /\ (build \/ stamp[q] > stamp[f.tp]))]
\* (fault) equal times count as newer
CheckedSameAge(f, q, r, build) ==
    [f EXCEPT !.p = @ + 1, !.err = @ \/ r,
              !.need = @ \/ (~r /\ (build \/ stamp[q] >= stamp[f.tp]))]
\* (fault) the error of a prerequisite is forgotten
CheckedNoErr(f, q, r, build) ==
    [f EXCEPT !.p = @ + 1, !.need = @ \/ build \/ stamp[q] > stamp[f.tp]]
\* (fault) only the time of the prerequisite is looked at
CheckedStampOnly(f, q, r, build) ==
    [f EXCEPT !.p = @ + 1, !.err = @ \/ r, !.need = @ \/ (~r /\ stamp[q] > stamp[f.tp])]

\* The frame f after rebuild(q) returned r (TRUE: an error) and *buildp.
Checked(f, q, r, build) ==
    [f EXCEPT !.p = @ + 1, !.err = @ \/ r,
              !.need = @ \/ (~r /\ (build \/ stamp[q] > stamp[f.tp]))]

Return(r, build) ==
    IF Len(stack) = 1
    THEN stack' = << >> /\ goal' = goal + 1 /\ pc' = "main"
    ELSE /\ stack' = Append(SubSeq(stack, 1, Len(stack) - 2),
                            Checked(stack[Len(stack) - 1], tp, r, build))
         /\ pc' = "loop" /\ UNCHANGED goal

\* Remove the target unless it is precious, and die of the signal.
cleanup ==
    /\ mtime' = IF tp \in mk.precious THEN mtime ELSE [mtime EXCEPT ![tp] = -1]
    /\ partial' = IF tp \in mk.precious THEN partial ELSE partial \ {tp}
    /\ pc' = "exited" /\ status' = "signal"

Interrupted ==
    /\ pc = "loop" /\ ~AtEnd /\ stop
    /\ cleanup
    /\ UNCHANGED <<mk, tree, goal, stack, stamp, cmds, exitstatus, stop, clock, hit, log>>

Descend ==
    /\ pc = "loop" /\ ~AtEnd /\ ~stop
    /\ Enter(deps[tp][top.p])
    /\ UNCHANGED <<mk, tree, pc, goal, cmds, exitstatus, stop, status, disk, hit, log>>

NotRemade ==
    /\ pc = "loop" /\ AtEnd /\ top.err
    /\ Return(TRUE, FALSE)
    /\ UNCHANGED <<mk, tree, stamp, cmds, exitstatus, stop, status, disk, hit, log>>

Need == top.need \/ stamp[tp] = -1

UpToDate ==
    /\ pc = "loop" /\ AtEnd /\ ~top.err /\ ~Need
    /\ Return(FALSE, FALSE)
    /\ UNCHANGED <<mk, tree, stamp, cmds, exitstatus, stop, status, disk, hit, log>>

-----------------------------------------------------------------------------
(* update(): which rule remakes the target.  A command is a line with its  *)
(* prefix, or a touch of -t; ignore: its errors do not count.              *)

\* The first file an inference rule can make t from: newer than t.
inference(t) == SelectInSeq(mk.srcs[t], LAMBDA s : mtime[s] # -1 /\ mtime[s] > stamp[t])

Line(prefix, ignore, target) ==
    [op |-> "line", plus |-> prefix = "plus", ignore |-> ignore \/ fl.i \/ prefix = "minus",
     file |-> target]
Touch(f, ignore) == [op |-> "touch", plus |-> FALSE, ignore |-> ignore \/ fl.i, file |-> f]

\* run() of a rule called name, for target.  -t touches the prerequisites first;
\* touchdeps() passes its two flags to touch() in the wrong order.
run(name, target, touched, lines) ==
    LET ignore == name \in mk.ignore
        silent == name \in mk.silent
    IN  (IF fl.t THEN [j \in 1 .. Len(touched) |-> Touch(touched[j], silent)] ELSE << >>)
        \o [j \in 1 .. Len(lines) |-> Line(lines[j], ignore, target)]
        \o (IF fl.t THEN <<Touch(target, ignore)>> ELSE << >>)

\* actions of the inference rules and of .DEFAULT, whose names are no target here
RuleLines == <<"plain">>

Update ==
    /\ pc = "loop" /\ AtEnd /\ ~top.err /\ Need
    /\ LET from == inference(tp)
       IN  \/ /\ actions[tp] # << >>
              /\ cmds' = run(tp, tp, deps[tp], actions[tp])
           \/ /\ actions[tp] = << >> /\ from # 0
              /\ cmds' = run(None, tp, <<mk.srcs[tp][from]>> \o deps[tp], RuleLines)
           \/ /\ actions[tp] = << >> /\ from = 0 /\ mk.default
              /\ cmds' = run(None, None, << >>, RuleLines)
    /\ pc' = "run"
    /\ UNCHANGED <<mk, tree, goal, stack, stamp, exitstatus, stop, status, disk, hit, log>>

NoRule == actions[tp] = << >> /\ inference(tp) = 0 /\ ~mk.default

NothingToRun ==
    /\ pc = "loop" /\ AtEnd /\ ~top.err /\ Need /\ NoRule
    /\ tp \in defined
    /\ Return(FALSE, TRUE)
    /\ UNCHANGED <<mk, tree, stamp, cmds, exitstatus, stop, status, disk, hit, log>>

\* error("don't know how to make")
DontKnow ==
    /\ pc = "loop" /\ AtEnd /\ ~top.err /\ Need /\ NoRule
    /\ tp \notin defined
    /\ pc' = "exited" /\ status' = "1"
    /\ UNCHANGED <<mk, tree, goal, stack, stamp, cmds, exitstatus, stop, disk, hit, log>>

-----------------------------------------------------------------------------
(* run() and execline(): the commands in order.                            *)

Skipped(c) == c.op = "line" /\ ~c.plus /\ (fl.t \/ fl.n \/ fl.q)

Skip ==
    /\ pc = "run" /\ cmds # << >> /\ Skipped(Head(cmds))
    /\ exitstatus' = IF fl.q /\ ~fl.t THEN 1 ELSE exitstatus
    /\ cmds' = Tail(cmds)
    /\ UNCHANGED <<mk, tree, pc, goal, stack, stamp, stop, status, disk, hit, log>>

launch ==
    /\ pc = "run" /\ cmds # << >> /\ ~Skipped(Head(cmds))
    /\ pc' = "child"
    /\ UNCHANGED <<mk, tree, goal, stack, stamp, cmds, exitstatus, stop, status, disk, hit, log>>

\* run() returned 0
Remade ==
    /\ pc = "run" /\ cmds = << >>
    /\ Return(FALSE, TRUE)
    /\ log' = Append(log, [t |-> tp, ok |-> TRUE])
    /\ UNCHANGED <<mk, tree, stamp, cmds, exitstatus, stop, status, disk, hit>>

-----------------------------------------------------------------------------
(* The child: a shell or a touch.                                          *)

Writes(c) == c.op = "touch" \/ c.file \notin mk.phony

\* Write the file of c, now or a second later; whole: the recipe is complete.
WriteFile(c, whole) ==
    \E now \in clock .. MaxTime :
        /\ now <= clock + 1 /\ clock' = now
        /\ IF c.file \in Target
           THEN /\ mtime' = [mtime EXCEPT ![c.file] = now]
                /\ partial' = IF c.op = "touch" THEN partial
                              ELSE IF whole THEN partial \ {c.file} ELSE partial \cup {c.file}
           ELSE UNCHANGED <<mtime, partial>>

\* no line that will be run follows
LastLine(c) ==
    /\ c.op = "line"
    /\ \A j \in 2 .. Len(cmds) : cmds[j].op = "touch" \/ Skipped(cmds[j])

Succeeds ==
    /\ pc = "child"
    /\ LET c == Head(cmds)
       IN  IF Writes(c) THEN WriteFile(c, LastLine(c)) ELSE UNCHANGED disk
    /\ pc' = "run" /\ cmds' = Tail(cmds)
    /\ UNCHANGED <<mk, tree, goal, stack, stamp, exitstatus, stop, status, hit, log>>

\* a failing command may leave a partial file
Spoil(c) == UNCHANGED disk \/ (c.op = "line" /\ Writes(c) /\ WriteFile(c, FALSE))

IgnoredFailure ==
    /\ pc = "child" /\ Head(cmds).ignore
    /\ Spoil(Head(cmds))
    /\ pc' = "run" /\ cmds' = Tail(cmds)
    /\ UNCHANGED <<mk, tree, goal, stack, stamp, exitstatus, stop, status, hit, log>>

Failure ==
    /\ pc = "child" /\ ~Head(cmds).ignore
    /\ Spoil(Head(cmds))
    /\ pc' = "failed" /\ cmds' = << >>
    /\ log' = Append(log, [t |-> tp, ok |-> FALSE])
    /\ UNCHANGED <<mk, tree, goal, stack, stamp, exitstatus, stop, status, hit>>

-----------------------------------------------------------------------------
(* rebuild() after update() failed.                                        *)

\* (fault) a failed command never counts as interrupted
StopNever == FALSE
StopOnError == stop

FailInterrupted ==
    /\ pc = "failed" /\ StopOnError
    /\ cleanup
    /\ UNCHANGED <<mk, tree, goal, stack, stamp, cmds, exitstatus, stop, clock, hit, log>>

\* (fault) -k forgets the failure
KeepGoingQuietly ==
    /\ pc = "failed" /\ ~StopOnError /\ fl.k
    /\ Return(TRUE, TRUE)
    /\ UNCHANGED <<mk, tree, stamp, cmds, exitstatus, stop, status, disk, hit, log>>

KeepGoing ==
    /\ pc = "failed" /\ ~StopOnError /\ fl.k
    /\ exitstatus' = 1
    /\ Return(TRUE, TRUE)
    /\ UNCHANGED <<mk, tree, stamp, cmds, stop, status, disk, hit, log>>

GiveUp ==
    /\ pc = "failed" /\ ~StopOnError /\ ~fl.k
    /\ exitstatus' = 1 /\ pc' = "exited" /\ status' = "1"
    /\ UNCHANGED <<mk, tree, goal, stack, stamp, cmds, stop, disk, hit, log>>

-----------------------------------------------------------------------------

sighandler ==
    /\ Signals /\ ~stop /\ pc # "exited"
    /\ stop' = TRUE
    /\ hit' = IF pc = "child" /\ Head(cmds).op = "line" THEN hit \cup {Head(cmds).file} ELSE hit
    /\ UNCHANGED <<mk, tree, pc, goal, stack, stamp, cmds, exitstatus, status, disk, log>>

Child == Succeeds \/ IgnoredFailure \/ Failure
Self ==
    \/ ParseRule \/ EndParse \/ Build \/ Finish
    \/ Interrupted \/ Descend \/ NotRemade \/ UpToDate
    \/ Update \/ NothingToRun \/ DontKnow
    \/ Skip \/ launch \/ Remade
    \/ FailInterrupted \/ KeepGoing \/ GiveUp

Done == pc = "exited" /\ UNCHANGED vars
Next == Self \/ Child \/ sighandler \/ Done
Spec == Init /\ [][Next]_vars

\* make keeps running and every command ends, one way or the other.
FairSpec == Spec /\ WF_vars(Self \/ Child)

-----------------------------------------------------------------------------
(* Properties.                                                             *)

Frame == [tp : Target, p : Nat \ {0}, err : BOOLEAN, need : BOOLEAN]
Command == [op : {"line", "touch"}, plus : BOOLEAN, ignore : BOOLEAN, file : Target \cup {None}]

\* The graph, the frames of rebuild() and the files have their types; in
\* particular every frame's index points to a prerequisite or just behind them.
TypeOK ==
    /\ nrule \in 0 .. Len(mk.rules)
    /\ deps \in [Target -> Seq(Target)] /\ actions \in [Target -> Seq({"plain", "minus", "plus"})]
    /\ defined \subseteq Target /\ deftarget \in Target \cup {None}
    /\ pc \in {"parse", "main", "loop", "run", "child", "failed", "exited"}
    /\ goal \in 1 .. Len(Goals) + 1
    /\ stack \in Seq(Frame) /\ \A j \in DOMAIN stack : stack[j].p <= Len(deps[stack[j].tp]) + 1
    /\ stamp \in [Target -> -1 .. MaxTime] /\ cmds \in Seq(Command)
    /\ exitstatus \in {0, 1} /\ stop \in BOOLEAN /\ status \in {"running", "0", "1", "signal"}
    /\ mtime \in [Target -> -1 .. MaxTime] /\ clock \in 0 .. MaxTime
    /\ partial \subseteq Target /\ hit \subseteq Target \cup {None}
    /\ log \in Seq([t : Target, ok : BOOLEAN])

\* The targets of S and all they depend on.
Closed(U) == \A u \in U : Range(deps[u]) \subseteq U
Reach(S) == {t \in Target : \A U \in SUBSET Target : S \subseteq U /\ Closed(U) => t \in U}
Below(t) == Reach(Range(deps[t]))

\* Rules that make no file: update() of their targets may have to be done again.
Phony(t) == t \in mk.phony \/ (actions[t] = << >> /\ (t \in defined \/ mk.default))
\* Rules whose errors are ignored.
Lax(t) == fl.i \/ t \in mk.ignore \/ "minus" \in Range(actions[t])
\* Targets whose state only real files decide.
Steady(t) == \A u \in Reach({t}) : ~Phony(u) /\ ~Lax(u)

Sources(t) == Range(deps[t]) \cup (IF actions[t] = << >> THEN Range(mk.srcs[t]) ELSE {})
Remakings(t) == {j \in DOMAIN log : log[j] = [t |-> t, ok |-> TRUE]}

\* t is in the state its sources demand.
Current(t) ==
    /\ mtime[t] # -1
    /\ \A d \in Sources(t) :
          /\ mtime[d] <= mtime[t]
          /\ \A j \in Remakings(d) : \E l \in Remakings(t) : j < l

\* make reports success: everything was really done, or with -q is not needed.
Success == status = "0" /\ ~fl.n /\ ~fl.t

(***************************************************************************)
(* Exit status 0 means that the goals are up to date: every file below     *)
(* them that has a recipe exists and is no older than what it is made      *)
(* from, and when a prerequisite was remade in this run so was the target, *)
(* and later, whatever order a diamond of dependencies is visited in.      *)
(* With -q it means that they already were.                                *)
(***************************************************************************)
Fresh ==
    Success => \A t \in Reach(Range(Goals)) : Steady(t) /\ actions[t] # << >> => Current(t)

(***************************************************************************)
(* The same for the targets an inference rule makes: "$(OBJS): make.h"     *)
(* (cmd/make/Makefile:20) says that the objects, which the rule .c.o makes, *)
(* depend on the header.                                                   *)
(***************************************************************************)
InferredFresh ==
    Success => \A t \in Reach(Range(Goals)) :
                   Steady(t) /\ actions[t] = << >> /\ Sources(t) # {} => Current(t)

\* make really executes the recipes.
Earnest == ~fl.n /\ ~fl.q /\ ~fl.t

(***************************************************************************)
(* A target that several others depend on is visited several times, as     *)
(* rebuild() keeps no mark of what it has done: real files are still       *)
(* remade at most once, because the first remaking shows in their time.    *)
(* (With -t every parent touches them again; with -n and -q what is not    *)
(* executed is still to be done the next time.)                            *)
(***************************************************************************)
AtMostOnce == Earnest => \A t \in Target : Steady(t) => \A i, j \in Remakings(t) : i = j

\* update() of d failed the last time it was done.
FailedLast(d) ==
    \E j \in DOMAIN log : /\ log[j].t = d /\ ~log[j].ok
                          /\ \A i \in DOMAIN log : i > j => log[i].t # d

(***************************************************************************)
(* No recipe runs while something below its target failed the last time it *)
(* was tried, with -k and on every path of the graph; a failed recipe that *)
(* leaves a file behind is excepted, see NotRemadeOnError.                 *)
(***************************************************************************)
NoRunAfterFailure ==
    Earnest /\ pc \in {"run", "child"} =>
        \A d \in Target \ partial : Steady(d) /\ FailedLast(d) => d \notin Below(tp)

(***************************************************************************)
(* "target %s not remade because of errors" (rules.c:486), for every       *)
(* target above one that failed.                                           *)
(***************************************************************************)
NotRemadeOnError ==
    pc \in {"run", "child"} => \A d \in Below(tp) : ~FailedLast(d)

(***************************************************************************)
(* The exit status is 0 only if no recipe failed, and 1 only if one did,   *)
(* if some file has no rule, or if -q found work to do.                    *)
(***************************************************************************)
ExitHonest ==
    LET failed == \E j \in DOMAIN log : ~log[j].ok
        unknown == \E t \in Reach(Range(Goals)) : mtime[t] = -1 /\ t \notin defined
    IN  /\ status = "0" => ~failed
        /\ status = "1" => failed \/ unknown \/ fl.q

(***************************************************************************)
(* A recipe interrupted by a signal leaves no half-written file: it is     *)
(* removed before make dies, unless it is precious or its errors are       *)
(* ignored.                                                                *)
(***************************************************************************)
InterruptedGone ==
    pc = "exited" => \A t \in hit \cap partial : t \in mk.precious \/ Lax(t)

(***************************************************************************)
(* make ends, whatever fails and whenever a signal arrives.                *)
(***************************************************************************)
Terminates == <>(pc = "exited")
=============================================================================
