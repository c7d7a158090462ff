------------------------------ MODULE CcDriver ------------------------------
(***************************************************************************)
(* The compiler driver, cmd/cc/posix/cc.c: for every operand it starts a   *)
(* pipeline of tools (cc1 | tee | cc2 | tee | qbe | tee | as), waits for   *)
(* them in order, removes what a broken pipeline left behind, and in the   *)
(* end links the objects.  The driver, the tools and the user's signals    *)
(* run concurrently; pipes hold a bounded number of blocks, and a pipe end *)
(* stays open as long as some process holds a copy of it, so that the      *)
(* descriptors a child inherits matter.                                    *)
(***************************************************************************)
EXTENDS Integers, Sequences, SequencesExt, FiniteSetsExt

CONSTANTS
    Jobs,       \* command lines: [flags, chain], see MCCcDriver
    Cap,        \* blocks a pipe holds
    MaxOut,     \* blocks a tool writes at most
    Signals,    \* TRUE: SIGHUP, SIGINT or SIGTERM may arrive
    Exhaust     \* TRUE: pipe() and fork() may fail

ASSUME PipeAssumption == Cap \in Nat \ {0} /\ MaxOut \in Nat
\* What main() lets through (usage() otherwise).
ASSUME JobAssumption ==
    \A j \in Jobs :
        /\ ~(j.flags.E /\ j.flags.M)
        /\ ~((j.flags.E \/ j.flags.M) /\ (j.flags.S \/ j.flags.k))
        /\ Len(j.chain) > 0
        /\ ~(Len(j.chain) > 1 /\ j.flags.c /\ j.flags.o)
\* The flags of cc.c are 0 or 1, and chain lists operands.
ASSUME JobType ==
    \A j \in Jobs :
        /\ j.chain \in Seq(Range(j.chain))
        /\ {j.flags.M, j.flags.E, j.flags.S, j.flags.c, j.flags.k, j.flags.o, j.flags.Q}
              \subseteq BOOLEAN
ASSUME FlagAssumption == Signals \in BOOLEAN /\ Exhaust \in BOOLEAN

\* enum of cc.c
CC1 == 0
TEEIR == 1
CC2 == 2
TEEQBE == 3
QBE == 4
TEEAS == 5
AS == 6
LD == 7
LAST_TOOL == 8
Tool == CC1 .. LD
NoTool == -1

VARIABLES
    job,        \* the command line, after main's option loop
    pc,         \* operand | spawn | wait | link | linkwait | exited
    i,          \* build()'s index into the chain
    tool,       \* buildfile()'s tool
    fdin,       \* settool()'s static fdin: the tool whose output it reads
    fds,        \* the pipe ends the driver has open
    pid,        \* the tools with a pid: started and not waited for
    out,        \* tools[].outfile
    objfile,    \* the global objfile
    objtmp, objout, linkargs,   \* the lists of those names
    failure,    \* the exit status
    failed,     \* validatetools()'s failed
    broke,      \* the operands one of whose tools failed (history)
    bye,        \* how the driver ended: running, return, die or signal
    proc,       \* the tools' processes: none, run, ok or bad
    held,       \* the pipe ends each process has open
    src,        \* the tool whose output each process reads, or NoTool
    left,       \* blocks each process has still to write to its pipe
    pipe,       \* blocks in the pipe each tool writes
    files       \* the files these steps created that exist

driver == <<pc, i, tool, fdin, fds, pid, out, objfile, objtmp, objout, linkargs,
            failure, failed, bye>>
world == <<proc, held, src, left, pipe>>
vars == <<job, driver, broke, world, files>>

-----------------------------------------------------------------------------
(* Names of files: <<suffix, stem>>; a temporary carries its operand's     *)
(* index instead, mkstemp makes it unique.  outfname drops the directory   *)
(* and the suffix of the operand.                                          *)

NoFile == <<"none", 0>>
OutFile == <<"outfile", 0>>     \* -o, or a.out
TempFile(n) == <<"tmp", n>>
IsTemp(name) == name[1] = "tmp"

fl == job.flags
operand == job.chain[i]
ArgName == <<"arg", operand.stem>>      \* an operand that goes to the linker as it is
Linking == ~(fl.M \/ fl.E \/ fl.S \/ fl.c)

\* the names settool() gives to a tool's outfile
ObjName ==
    IF fl.c /\ fl.o THEN OutFile
    ELSE IF fl.c \/ fl.k THEN <<"o", operand.stem>> ELSE TempFile(i)

OutName(t) ==
    CASE t = LD     -> OutFile
      [] t = TEEIR  -> IF fl.E /\ fl.o THEN OutFile ELSE <<"ir", operand.stem>>
      [] t = TEEQBE -> <<"qbe", operand.stem>>
      [] t = TEEAS  -> <<"s", operand.stem>>
      [] t = AS     -> ObjName
      [] OTHER      -> NoFile

Unrecognized == -2      \* toolfor() dies
toolfor(kind) ==
    IF fl.E THEN CC1
    ELSE CASE kind = "c" -> CC1 [] kind = "ir" -> CC2 [] kind = "qbe" -> QBE
           [] kind = "s" -> AS  [] kind = "o" -> LD
           [] OTHER -> Unrecognized

\* buildfile()'s switch
nexttool(t) ==
    CASE t = CC1    -> IF fl.E /\ fl.o THEN TEEIR
                       ELSE IF fl.E \/ fl.M THEN LAST_TOOL
                       ELSE IF fl.k THEN TEEIR ELSE CC2
      [] t = TEEIR  -> IF fl.E THEN LAST_TOOL ELSE CC2
      [] t = CC2    -> IF fl.Q THEN (IF fl.k THEN TEEQBE ELSE QBE)
                       ELSE IF fl.S \/ fl.k THEN TEEAS ELSE AS
      [] t = TEEQBE -> QBE
      [] t = QBE    -> IF fl.S \/ fl.k THEN TEEAS ELSE AS
      [] t = TEEAS  -> IF fl.S THEN LAST_TOOL ELSE AS
      [] OTHER      -> LAST_TOOL

-----------------------------------------------------------------------------

Init ==
    /\ job \in Jobs
    /\ pc = "operand" /\ i = 1 /\ tool = LAST_TOOL
    /\ fdin = NoTool /\ fds = {} /\ pid = {}
    /\ out = [t \in Tool |-> NoFile]
    /\ objfile = NoFile /\ objtmp = {} /\ objout = {} /\ linkargs = << >>
    /\ failure = FALSE /\ failed = LAST_TOOL /\ bye = "running" /\ broke = {}
    /\ proc = [t \in Tool |-> "none"]
    /\ held = [t \in Tool |-> {}]
    /\ src = [t \in Tool |-> NoTool]
    /\ left = [t \in Tool |-> 0]
    /\ pipe = [t \in Tool |-> 0]
    /\ files = {}

-----------------------------------------------------------------------------
(* The end of the driver.  exit() runs terminate() through atexit(), the   *)
(* signal handler calls it itself; both close the driver's descriptors.    *)

\* (fault) the sense of kflag is inverted
terminateKept(fs) == IF fl.k THEN fs \ objtmp ELSE fs
terminate(fs) == IF fl.k THEN fs ELSE fs \ objtmp

Leave(how, fs) ==
    /\ pc' = "exited" /\ bye' = how
    /\ files' = terminate(fs)
    /\ fds' = {}

Signal ==
    /\ Signals /\ pc # "exited"
    /\ Leave("signal", files)
    /\ failure' = TRUE
    /\ UNCHANGED <<job, i, tool, fdin, pid, out, objfile, objtmp, objout, linkargs, failed, broke, world>>

-----------------------------------------------------------------------------
(* build(): the next operand.                                              *)

AddLinkArg ==
    /\ pc = "operand" /\ i <= Len(job.chain)
    /\ operand.kind = "lib" \/ toolfor(operand.kind) = LD
    /\ linkargs' = Append(linkargs, ArgName)
    /\ i' = i + 1
    /\ UNCHANGED <<job, pc, tool, fdin, fds, pid, out, objfile, objtmp, objout,
                   failure, failed, bye, broke, world, files>>

BadOperand ==
    /\ pc = "operand" /\ i <= Len(job.chain)
    /\ operand.kind # "lib" /\ toolfor(operand.kind) = Unrecognized
    /\ Leave("die", files) /\ failure' = TRUE
    /\ UNCHANGED <<job, i, tool, fdin, pid, out, objfile, objtmp, objout, linkargs, failed, broke, world>>

StartBuild ==
    /\ pc = "operand" /\ i <= Len(job.chain)
    /\ operand.kind # "lib" /\ toolfor(operand.kind) \in CC1 .. AS
    /\ pc' = "spawn" /\ tool' = toolfor(operand.kind) /\ failed' = LAST_TOOL
    /\ UNCHANGED <<job, i, fdin, fds, pid, out, objfile, objtmp, objout, linkargs,
                   failure, bye, broke, world, files>>

-----------------------------------------------------------------------------
(* settool() and spawn().                                                  *)

\* The descriptors pipe() opens for the output of t, when a tool follows.
Opened(t, nxt) == IF nxt < LAST_TOOL THEN {<<"r", t>>, <<"w", t>>} ELSE {}

\* After the fork the driver closes t->in and t->out.
\* (fault) the driver keeps the write end
KeepsWriteEnd(t) == {<<"r", fdin>>}
\* (fault) the driver keeps the read end
KeepsReadEnd(t) == {<<"w", t>>}
ClosedBySpawn(t) == {<<"r", fdin>>, <<"w", t>>}

\* mkstemp() creates the temporary object, nothing else exists yet.
SetNames(t) ==
    /\ out' = [out EXCEPT ![t] = OutName(t)]
    /\ objfile' = IF t = AS THEN ObjName ELSE objfile
Created(t) == IF t = AS /\ IsTemp(ObjName) THEN {ObjName} ELSE {}

SpawnTool(t, nxt) ==
    /\ SetNames(t)
    /\ files' = files \cup Created(t)
    /\ fds' = (fds \cup Opened(t, nxt)) \ ClosedBySpawn(t)
    /\ fdin' = IF nxt < LAST_TOOL THEN t ELSE NoTool
    /\ pid' = pid \cup {t}
    /\ proc' = [proc EXCEPT ![t] = "run"]
    /\ held' = [held EXCEPT ![t] = fds \cup Opened(t, nxt)]
    /\ src' = [src EXCEPT ![t] = fdin]
    /\ \E n \in 0 .. MaxOut :
          left' = [left EXCEPT ![t] = IF nxt < LAST_TOOL THEN n ELSE 0]
    /\ pipe' = [pipe EXCEPT ![t] = 0]

Spawn ==
    /\ pc = "spawn" /\ tool < LAST_TOOL
    /\ SpawnTool(tool, nexttool(tool))
    /\ tool' = nexttool(tool)
    /\ UNCHANGED <<job, pc, i, objtmp, objout, linkargs, failure, failed, bye, broke>>

\* mkstemp(), pipe() or fork() fails: die(), with the tools started so far
\* still running
SpawnFails ==
    /\ Exhaust
    /\ pc \in {"spawn", "link"} /\ tool < LAST_TOOL
    /\ \/ SetNames(tool) /\ Leave("die", files \cup Created(tool))
       \/ /\ Created(tool) # {} /\ objfile' = NoFile /\ UNCHANGED out
          /\ Leave("die", files)
    /\ failure' = TRUE
    /\ UNCHANGED <<job, i, tool, fdin, pid, objtmp, objout, linkargs, failed, broke, world>>

AllSpawned ==
    /\ pc = "spawn" /\ tool = LAST_TOOL
    /\ pc' = "wait"
    /\ UNCHANGED <<job, i, tool, fdin, fds, pid, out, objfile, objtmp, objout, linkargs,
                   failure, failed, bye, broke, world, files>>

-----------------------------------------------------------------------------
(* validatetools(): waitpid() in the order of the tools.                   *)

\* What is unlinked for tool t when the last tool that failed so far is bad.
\* (fault) the output of the failed tool itself stays
DiscardedAfter(t, bad) == IF t > bad THEN {out[t]} ELSE {}
Discarded(t, bad) == IF t >= bad THEN {out[t]} ELSE {}

Waitable(t) == proc[t] \in {"ok", "bad"}

Reap ==
    /\ pc \in {"wait", "linkwait"} /\ pid # {}
    /\ LET t == Min(pid)
           bad == proc[t] = "bad"
           nfailed == IF bad THEN t ELSE failed
       IN  /\ Waitable(t)
           /\ failure' = (failure \/ bad)
           /\ failed' = nfailed
           /\ files' = files \ Discarded(t, nfailed)
           /\ pid' = pid \ {t}
           /\ proc' = [proc EXCEPT ![t] = "none"]
    /\ UNCHANGED <<job, pc, i, tool, fdin, fds, out, objfile, objtmp, objout, linkargs, bye, broke,
                   held, src, left, pipe>>

\* the pipeline of an operand is complete: back in build()
BuildOk ==
    /\ pc = "wait" /\ pid = {} /\ failed = LAST_TOOL
    /\ linkargs' = Append(linkargs, objfile)
    /\ IF ~Linking \/ fl.k
       THEN objout' = objout \cup {objfile} /\ UNCHANGED objtmp
       ELSE objtmp' = objtmp \cup {objfile} /\ UNCHANGED objout
    /\ pc' = "operand" /\ i' = i + 1
    /\ UNCHANGED <<job, tool, fdin, fds, pid, out, objfile, failure, failed, bye, broke, world, files>>

BuildFailed ==
    /\ pc = "wait" /\ pid = {} /\ failed < LAST_TOOL
    /\ files' = files \ {objfile}
    /\ pc' = "operand" /\ i' = i + 1
    /\ UNCHANGED <<job, tool, fdin, fds, pid, out, objfile, objtmp, objout, linkargs,
                   failure, failed, bye, broke, world>>

-----------------------------------------------------------------------------
(* main() after build().                                                   *)

\* (fault) the link does not look at the status
StartLinkAnyway ==
    /\ pc = "operand" /\ i > Len(job.chain) /\ Linking
    /\ pc' = "link" /\ tool' = LD /\ failed' = LAST_TOOL
    /\ UNCHANGED <<job, i, fdin, fds, pid, out, objfile, objtmp, objout, linkargs,
                   failure, bye, broke, world, files>>

StartLink ==
    /\ pc = "operand" /\ i > Len(job.chain) /\ Linking /\ ~failure
    /\ pc' = "link" /\ tool' = LD /\ failed' = LAST_TOOL
    /\ UNCHANGED <<job, i, fdin, fds, pid, out, objfile, objtmp, objout, linkargs,
                   failure, bye, broke, world, files>>

SpawnLd ==
    /\ pc = "link"
    /\ SpawnTool(LD, LAST_TOOL)
    /\ pc' = "linkwait" /\ tool' = LAST_TOOL
    /\ UNCHANGED <<job, i, objtmp, objout, linkargs, failure, failed, bye, broke>>

\* validatetools() after LD: when it failed, unlink(objfile) too
LinkDone ==
    /\ pc = "linkwait" /\ pid = {}
    /\ Leave("return", IF failed < LAST_TOOL THEN files \ {objfile} ELSE files)
    /\ UNCHANGED <<job, i, tool, fdin, pid, out, objfile, objtmp, objout, linkargs,
                   failure, failed, broke, world>>

NoLink ==
    /\ pc = "operand" /\ i > Len(job.chain) /\ (~Linking \/ failure)
    /\ Leave("return", files)
    /\ UNCHANGED <<job, i, tool, fdin, pid, out, objfile, objtmp, objout, linkargs,
                   failure, failed, broke, world>>

Driver ==
    \/ AddLinkArg \/ BadOperand \/ StartBuild
    \/ Spawn \/ SpawnFails \/ AllSpawned
    \/ Reap \/ BuildOk \/ BuildFailed
    \/ StartLink \/ SpawnLd \/ LinkDone \/ NoLink

-----------------------------------------------------------------------------
(* The tools: processes that read their input to its end, write their      *)
(* output, and may fail at any point.                                      *)

\* Some process, the driver included, has that end of the pipe of t open.
Open(end, t) ==
    \/ <<end, t>> \in fds
    \/ \E u \in Tool : proc[u] = "run" /\ <<end, t>> \in held[u]

EndOfInput(t) == src[t] # NoTool => pipe[src[t]] = 0 /\ ~Open("w", src[t])

Read(t) ==
    /\ proc[t] = "run" /\ src[t] # NoTool /\ pipe[src[t]] > 0
    /\ pipe' = [pipe EXCEPT ![src[t]] = @ - 1]
    /\ UNCHANGED <<job, driver, broke, proc, held, src, left, files>>

Write(t) ==
    /\ proc[t] = "run" /\ left[t] > 0 /\ pipe[t] < Cap /\ Open("r", t)
    /\ pipe' = [pipe EXCEPT ![t] = @ + 1]
    /\ left' = [left EXCEPT ![t] = @ - 1]
    /\ UNCHANGED <<job, driver, broke, proc, held, src, files>>

Exit(t, st, fs) ==
    /\ proc' = [proc EXCEPT ![t] = st]
    /\ files' = fs
    /\ broke' = IF st = "bad" THEN broke \cup {i} ELSE broke
    /\ held' = [held EXCEPT ![t] = {}]
    /\ left' = [left EXCEPT ![t] = 0]
    /\ UNCHANGED <<job, driver, src, pipe>>

Written(t) == IF out[t] = NoFile THEN {} ELSE {out[t]}

\* The linker's arguments that the driver built.
Objects == {n \in Range(linkargs) : n[1] \in {"o", "tmp"}}

\* A tool that succeeds has read all its input and written all its output; the
\* linker needs the objects.
Succeed(t) ==
    /\ proc[t] = "run" /\ left[t] = 0 /\ EndOfInput(t)
    /\ t = LD => Objects \subseteq files
    /\ Exit(t, "ok", files \cup Written(t))

\* A tool that fails (an error, a signal, EPIPE) may leave a partial outfile.
Fail(t) ==
    /\ proc[t] = "run"
    /\ \/ Exit(t, "bad", files)
       \/ Exit(t, "bad", files \cup Written(t))

ToolStep(t) == Read(t) \/ Write(t) \/ Succeed(t) \/ Fail(t)

\* What a tool does of its own accord: an error is never owed, except that a
\* write to a pipe nobody reads fails and a link without its objects fails.
MustFail(t) ==
    /\ \/ left[t] > 0 /\ ~Open("r", t)
       \/ t = LD /\ ~(Objects \subseteq files)
    /\ Fail(t)
Progress(t) == Read(t) \/ Write(t) \/ Succeed(t) \/ MustFail(t)

Done == pc = "exited" /\ (\A t \in Tool : proc[t] # "run") /\ UNCHANGED vars

Next == Driver \/ Signal \/ (\E t \in Tool : ToolStep(t)) \/ Done

Spec == Init /\ [][Next]_vars

(***************************************************************************)
(* The driver keeps running, except for the calls that only fail when      *)
(* resources run out, and every tool makes progress whenever it can.       *)
(***************************************************************************)
Fairness ==
    /\ WF_vars(Driver)
    /\ \A t \in Tool : WF_vars(Progress(t))
FairSpec == Spec /\ Fairness

-----------------------------------------------------------------------------
(* Properties.                                                             *)

Names == ({"o", "ir", "qbe", "s", "arg"} \X {o.stem : o \in UNION {Range(j.chain) : j \in Jobs}})
         \cup {OutFile, NoFile} \cup ({"tmp"} \X (1 .. Max({Len(j.chain) : j \in Jobs})))

\* The driver's globals, the child processes and the pipes have their types; in
\* particular build() stops behind the last operand and no pipe overflows.
TypeOK ==
    /\ job \in Jobs
    /\ pc \in {"operand", "spawn", "wait", "link", "linkwait", "exited"}
    /\ i \in 1 .. Len(job.chain) + 1 /\ tool \in Tool \cup {LAST_TOOL}
    /\ fdin \in Tool \cup {NoTool} /\ fds \subseteq {"r", "w"} \X Tool /\ pid \subseteq Tool
    /\ out \in [Tool -> Names] /\ objfile \in Names
    /\ objtmp \subseteq Names /\ objout \subseteq Names /\ linkargs \in Seq(Names)
    /\ failure \in BOOLEAN /\ failed \in Tool \cup {LAST_TOOL}
    /\ bye \in {"running", "return", "die", "signal"}
    /\ proc \in [Tool -> {"none", "run", "ok", "bad"}]
    /\ held \in [Tool -> SUBSET ({"r", "w"} \X Tool)]
    /\ src \in [Tool -> Tool \cup {NoTool}]
    /\ left \in [Tool -> 0 .. MaxOut] /\ pipe \in [Tool -> 0 .. Cap]
    /\ files \subseteq Names /\ broke \subseteq 1 .. Len(job.chain) + 1

\* The file an operand (or, behind the last one, the link) is to produce.
Product(k) ==
    IF k > Len(job.chain) THEN OutFile
    ELSE LET o == job.chain[k] IN
         IF o.kind = "lib" \/ (o.kind = "o" /\ ~fl.E) THEN NoFile
         ELSE IF fl.E THEN (IF fl.o THEN OutFile ELSE NoFile)
         ELSE IF fl.M /\ o.kind = "c" THEN NoFile
         ELSE IF fl.S /\ o.kind # "s" THEN <<"s", o.stem>>
         ELSE IF fl.c /\ fl.o THEN OutFile
         ELSE IF fl.c \/ fl.k THEN <<"o", o.stem>> ELSE TempFile(k)

Returned == pc = "exited" /\ bye = "return"

(***************************************************************************)
(* The exit status tells the truth: the driver returns 0 exactly when no   *)
(* tool failed, and then everything asked for exists; when an operand's    *)
(* pipeline broke, its object, assembler file or executable does not,      *)
(* although other tools of that pipeline may have written it.              *)
(***************************************************************************)
StatusHonest ==
    Returned =>
        /\ failure = (broke # {})
        /\ ~failure => \A k \in 1 .. Len(job.chain) :
                           Product(k) \in files \cup {NoFile} \/ IsTemp(Product(k))
        /\ ~failure /\ Linking => OutFile \in files
        /\ \A k \in broke : Product(k) \notin files

(***************************************************************************)
(* Without -k no temporary object outlives the driver.  A driver that is   *)
(* stopped half-way leaves at most the object of the operand it was        *)
(* building, which is in no list yet.                                      *)
(***************************************************************************)
TempsGone ==
    pc = "exited" =>
        {n \in files : IsTemp(n)} \subseteq (IF bye = "return" THEN {} ELSE {objfile})

(***************************************************************************)
(* The linker runs only after every operand was built, on objects that     *)
(* exist, in the order of the command line.                                *)
(***************************************************************************)
LinkComplete ==
    proc[LD] = "run" /\ pc # "exited" =>
        /\ broke = {} /\ Objects \subseteq files
        /\ Len(linkargs) = Len(job.chain)
        /\ \A k \in 1 .. Len(job.chain) :
              linkargs[k] = IF job.chain[k].kind \in {"lib", "o"}
                            THEN <<"arg", job.chain[k].stem>> ELSE Product(k)

(***************************************************************************)
(* Between two operands the driver holds no pipe end and has no child: no  *)
(* descriptor or process is lost however long the command line is.         *)
(***************************************************************************)
Tidy ==
    pc \in {"operand", "link"} \/ Returned =>
        fds = {} /\ pid = {} /\ fdin = NoTool /\ \A t \in Tool : proc[t] = "none"

\* A tool with output to write whose reader has gone.
Orphan(t) ==
    /\ proc[t] = "run" /\ left[t] > 0
    /\ \A u \in Tool : proc[u] = "run" => src[u] # t
    /\ fdin # t

(***************************************************************************)
(* The driver ends, as every tool sees the end of its input: no process    *)
(* keeps the write end of a pipe it does not write to.  It is only said    *)
(* for pipelines in which no reader dies before its writer.                *)
(***************************************************************************)
EndsUnlessOrphaned == <>(pc = "exited" \/ \E t \in Tool : Orphan(t))

(***************************************************************************)
(* The driver ends whatever the tools do: a tool that dies is noticed, as  *)
(* the diagnostic "internal error" (cc.c:442) intends, and does not leave  *)
(* the driver waiting for another one.                                     *)
(***************************************************************************)
Terminates == <>(pc = "exited")
=============================================================================
