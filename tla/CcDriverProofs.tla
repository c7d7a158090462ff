--------------------------- MODULE CcDriverProofs ---------------------------
(***************************************************************************)
(* Proofs about the compiler driver, for every set of command lines, every *)
(* pipe capacity and every interleaving of the driver, its tools, signals  *)
(* and failing system calls.                                               *)
(***************************************************************************)
EXTENDS CcDriver, SequenceTheorems, TLAPS

-----------------------------------------------------------------------------
(* The inductive invariant.                                                *)

Stem == {o.stem : o \in UNION {Range(j.chain) : j \in Jobs}}
FileName == ({"o", "ir", "qbe", "s", "arg"} \X Stem) \cup ({"tmp", "outfile", "none"} \X Nat)

\* The variables the arguments below look at have their types.
Typed ==
    /\ job \in Jobs
    /\ pc \in {"operand", "spawn", "wait", "link", "linkwait", "exited"}
    /\ i \in 1 .. Len(job.chain) + 1
    /\ tool \in Tool \cup {LAST_TOOL} /\ failed \in Tool \cup {LAST_TOOL}
    /\ pid \subseteq Tool /\ DOMAIN out = Tool /\ DOMAIN proc = Tool
    /\ objfile \in FileName /\ linkargs \in Seq(FileName)
    /\ failure \in BOOLEAN

Building == pc \in {"spawn", "wait"}

\* Where the driver is in a pipeline, and what it has open there: the read end
\* of the newest pipe while it starts tools, and nothing otherwise.
Shape ==
    /\ pc # "exited" <=> bye = "running"
    /\ pc # "exited" => \A t \in Tool : t \in pid <=> proc[t] # "none"
    /\ pc \in {"operand", "wait", "link", "linkwait"} => fds = {} /\ fdin = NoTool
    /\ pc \in {"operand", "link"} => pid = {}
    /\ pc = "wait" => tool = LAST_TOOL /\ pid \subseteq CC1 .. AS
    /\ pc = "link" => tool = LD
    /\ pc = "linkwait" => pid \subseteq {LD}
    /\ pc = "spawn" => /\ tool \in (CC1 .. AS) \cup {LAST_TOOL}
                       /\ \A t \in pid : t < tool /\ t <= AS
                       /\ fdin # NoTool => fdin \in pid /\ tool # LAST_TOOL
                       /\ fds = IF fdin = NoTool THEN {} ELSE {<<"r", fdin>>}
    /\ Building => /\ i <= Len(job.chain) /\ operand.kind # "lib"
                   /\ toolfor(operand.kind) \in CC1 .. AS /\ toolfor(operand.kind) <= tool
    /\ pc \in {"link", "linkwait"} => i = Len(job.chain) + 1 /\ Linking
    /\ Returned => fds = {} /\ pid = {} /\ fdin = NoTool /\ \A t \in Tool : proc[t] = "none"

\* The outfiles of the tools that run.
Named ==
    /\ pc # "exited" => \A t \in pid : out[t] = OutName(t)
    /\ proc[AS] = "run" => out[AS] = objfile
    /\ \A t \in Tool \ {AS} : ~IsTemp(out[t])

\* A failure is known to the driver, or will be once it has waited for the tools.
Counted ==
    /\ \A t \in Tool : proc[t] = "bad" => broke # {}
    /\ pc # "exited" =>
          /\ failed < LAST_TOOL \/ failure => broke # {}
          /\ broke # {} => failure \/ \E t \in pid : proc[t] = "bad"
    /\ pc = "link" => broke = {}
    /\ pc = "linkwait" /\ proc[LD] \in {"run", "ok"} => broke = {}
    /\ Returned => failure = (broke # {})

\* The tool that writes the product of the operand.
Maker == IF fl.E THEN TEEIR ELSE IF fl.S /\ operand.kind # "s" THEN TEEAS ELSE AS

\* What has been produced when nothing failed.
Delivered ==
    pc # "exited" /\ broke = {} =>
        /\ \A k \in 1 .. i - 1 : Product(k) \in files \cup {NoFile}
        /\ Building /\ Product(i) # NoFile =>
              \/ tool <= Maker
              \/ out[Maker] = Product(i) /\ (Product(i) \in files \/ proc[Maker] = "run")
        /\ pc = "linkwait" => OutFile \in files \/ (proc[LD] = "run" /\ out[LD] = OutFile)

\* What the linker is given for operand k.
LinkArg(k) ==
    IF job.chain[k].kind \in {"lib", "o"} THEN <<"arg", job.chain[k].stem>> ELSE Product(k)

Listed ==
    /\ Building /\ Maker = AS /\ AS < tool /\ Product(i) # NoFile => objfile = Product(i)
    /\ pc # "exited" /\ broke = {} /\ Linking =>
          /\ Len(linkargs) = i - 1
          /\ \A k \in 1 .. i - 1 : linkargs[k] = LinkArg(k)
    /\ \A n \in objtmp : IsTemp(n)

\* The tools buildfile() never gets to.
Route ==
    pc = "spawn" /\ tool # LAST_TOOL =>
        /\ fl.E => tool \in {CC1, TEEIR}
        /\ fl.M /\ operand.kind = "c" => tool = CC1
        /\ fl.S /\ operand.kind # "s" => tool # AS

LinkInv == Typed /\ Shape /\ Named /\ Counted /\ Delivered /\ Listed

\* With -S or -M and no -c, no operand goes to the assembler.
NoStray ==
    \A j \in Jobs :
        ~j.flags.c /\ ~j.flags.k =>
            \A k \in 1 .. Len(j.chain) :
                /\ j.flags.S => j.chain[k].kind # "s"
                /\ j.flags.M => j.chain[k].kind \notin {"ir", "qbe", "s"}

\* The temporary objects that exist.
Temps == {n \in files : IsTemp(n)}

Listing ==
    /\ IsTemp(objfile) \/ Temps # {} => Linking /\ ~fl.k
    /\ pc # "exited" =>
          Temps \subseteq objtmp \cup (IF Building /\ tool = LAST_TOOL THEN {objfile} ELSE {})

\* No two operands are built into files of the same name.
SeparateFiles ==
    \A j \in Jobs :
        /\ j.flags.E /\ j.flags.o => Len(j.chain) = 1
        /\ \A k, l \in 1 .. Len(j.chain) :
              k # l /\ j.chain[k].kind # "lib" /\ j.chain[l].kind # "lib" =>
                  j.chain[k].stem # j.chain[l].stem

\* The maker of the product is the last tool of its pipeline.
Final ==
    Building /\ Product(i) # NoFile =>
        /\ tool # LAST_TOOL => tool <= Maker
        /\ tool = LAST_TOOL => /\ \A t \in pid : t <= Maker
                               /\ pc = "spawn" \/ pid # {} => Maker \in pid

\* The last tool that failed, once it was waited for.
LastFailed ==
    /\ pc = "link" => failed = LAST_TOOL
    /\ pc = "linkwait" /\ pid # {} => failed = LAST_TOOL
    /\ Building /\ failed < LAST_TOOL => pc = "wait" /\ \A t \in pid : failed < t

\* What is left of the operands whose pipelines broke.
Cleaned ==
    /\ NoFile \notin files
    /\ pc # "exited" =>
          /\ broke \subseteq 1 .. i
          /\ \A k \in broke \ {i} : Product(k) \notin files
          /\ pc = "operand" => i \notin broke
          /\ Building /\ i \in broke => failed < LAST_TOOL \/ \E t \in pid : proc[t] = "bad"
          /\ pc = "wait" /\ pid = {} /\ failed < LAST_TOOL => Product(i) \notin files
          /\ pc = "linkwait" => broke \subseteq {i}
          /\ pc = "linkwait" /\ pid = {} /\ broke # {} => OutFile \notin files

-----------------------------------------------------------------------------
(* Facts about the operators.                                              *)

\* The command line.
LEMMA JobFacts ==
    ASSUME Typed
    PROVE  /\ Len(job.chain) \in Nat /\ i \in Nat /\ 1 <= i
           /\ {fl.M, fl.E, fl.S, fl.c, fl.k, fl.o, fl.Q} \subseteq BOOLEAN
           /\ ~(fl.E /\ fl.M) /\ ~((fl.E \/ fl.M) /\ (fl.S \/ fl.k))
           /\ ~(Len(job.chain) > 1 /\ fl.c /\ fl.o)
           /\ \A k \in 1 .. Len(job.chain) : job.chain[k].stem \in Stem
<1>1. job \in Jobs /\ job.chain \in Seq(Range(job.chain))
  BY JobType DEF Typed
<1>2. Len(job.chain) \in Nat /\ DOMAIN job.chain = 1 .. Len(job.chain)
  BY <1>1, LenProperties
<1>3. i \in Nat /\ 1 <= i
  BY <1>2 DEF Typed
<1>4. ASSUME NEW k \in 1 .. Len(job.chain) PROVE job.chain[k].stem \in Stem
  <2>1. job.chain[k] \in Range(job.chain)
    BY <1>2 DEF Range
  <2> QED BY <1>1, <2>1 DEF Stem
<1>5. /\ {fl.M, fl.E, fl.S, fl.c, fl.k, fl.o, fl.Q} \subseteq BOOLEAN
      /\ ~(fl.E /\ fl.M) /\ ~((fl.E \/ fl.M) /\ (fl.S \/ fl.k))
      /\ ~(Len(job.chain) > 1 /\ fl.c /\ fl.o)
  BY <1>1, JobType, JobAssumption DEF fl
<1> QED BY <1>2, <1>3, <1>4, <1>5

\* The tools are numbered.
LEMMA ToolFacts ==
    /\ Tool = {0, 1, 2, 3, 4, 5, 6, 7} /\ CC1 .. AS = {0, 1, 2, 3, 4, 5, 6}
    /\ CC1 .. AS \subseteq Tool /\ LD \in Tool /\ LD \notin CC1 .. AS
    /\ LAST_TOOL \notin Tool /\ NoTool \notin Tool
    /\ \A t \in Tool : t \in Int /\ t < LAST_TOOL
    /\ AS \in Tool
  BY DEF Tool, CC1, AS, LD, LAST_TOOL, NoTool

\* A set of tools has a least one.
LEMMA MinTool ==
    ASSUME NEW S \in SUBSET Tool, S # {}
    PROVE  Min(S) \in S /\ \A t \in S : Min(S) <= t
<1>1. \E x \in S : \A y \in S : x <= y
  <2>1. \A x \in S : x \in {0, 1, 2, 3, 4, 5, 6, 7}
    BY ToolFacts
  <2>2. CASE 0 \in S
    BY <2>1, <2>2
  <2>3. CASE 0 \notin S /\ 1 \in S
    BY <2>1, <2>3
  <2>4. CASE {0, 1} \cap S = {} /\ 2 \in S
    BY <2>1, <2>4
  <2>5. CASE {0, 1, 2} \cap S = {} /\ 3 \in S
    BY <2>1, <2>5
  <2>6. CASE {0, 1, 2, 3} \cap S = {} /\ 4 \in S
    BY <2>1, <2>6
  <2>7. CASE {0, 1, 2, 3, 4} \cap S = {} /\ 5 \in S
    BY <2>1, <2>7
  <2>8. CASE {0, 1, 2, 3, 4, 5} \cap S = {} /\ 6 \in S
    BY <2>1, <2>8
  <2>9. CASE {0, 1, 2, 3, 4, 5, 6} \cap S = {}
    BY <2>1, <2>9
  <2> QED BY <2>2, <2>3, <2>4, <2>5, <2>6, <2>7, <2>8, <2>9
<1> QED BY <1>1 DEF Min

\* buildfile() only goes forward, and stops with the tool that has no next.
LEMMA NextTool ==
    ASSUME NEW t \in CC1 .. AS
    PROVE  nexttool(t) \in (CC1 .. AS) \cup {LAST_TOOL} /\ t < nexttool(t)
<1>1. t \in {0, 1, 2, 3, 4, 5, 6}
  BY ToolFacts
<1>2. CASE t = 0
  BY <1>2 DEF nexttool, CC1, TEEIR, CC2, TEEQBE, QBE, TEEAS, AS, LAST_TOOL
<1>3. CASE t = 1
  BY <1>3 DEF nexttool, CC1, TEEIR, CC2, TEEQBE, QBE, TEEAS, AS, LAST_TOOL
<1>4. CASE t = 2
  BY <1>4 DEF nexttool, CC1, TEEIR, CC2, TEEQBE, QBE, TEEAS, AS, LAST_TOOL
<1>5. CASE t = 3
  BY <1>5 DEF nexttool, CC1, TEEIR, CC2, TEEQBE, QBE, TEEAS, AS, LAST_TOOL
<1>6. CASE t = 4
  BY <1>6 DEF nexttool, CC1, TEEIR, CC2, TEEQBE, QBE, TEEAS, AS, LAST_TOOL
<1>7. CASE t = 5
  BY <1>7 DEF nexttool, CC1, TEEIR, CC2, TEEQBE, QBE, TEEAS, AS, LAST_TOOL
<1>8. CASE t = 6
  BY <1>8 DEF nexttool, CC1, TEEIR, CC2, TEEQBE, QBE, TEEAS, AS, LAST_TOOL
<1> QED BY <1>1, <1>2, <1>3, <1>4, <1>5, <1>6, <1>7, <1>8

\* The names the driver makes up are file names.
LEMMA NameTypes ==
    ASSUME Typed
    PROVE  /\ NoFile \in FileName /\ OutFile \in FileName
           /\ i <= Len(job.chain) => ArgName \in FileName /\ ObjName \in FileName
<1>1. i \in Nat /\ (i <= Len(job.chain) => i \in 1 .. Len(job.chain))
  BY JobFacts
<1>2. i <= Len(job.chain) => operand.stem \in Stem
  BY <1>1, JobFacts DEF operand
<1> QED BY <1>1, <1>2 DEF FileName, NoFile, OutFile, ArgName, ObjName, TempFile

-----------------------------------------------------------------------------
(* The types.                                                              *)

\* The actions of the driver and the tools keep the types.
LEMMA StepTyped == ASSUME Typed, Shape, [Next]_vars PROVE Typed'
<1>1. Len(job.chain) \in Nat /\ i \in Nat /\ 1 <= i
  BY JobFacts
<1>2. CASE UNCHANGED vars
  BY <1>2 DEF Typed, vars, driver, world
<1>3. CASE AddLinkArg
  <2>1. i + 1 \in 1 .. Len(job.chain) + 1 /\ ArgName \in FileName
    BY <1>1, <1>3, NameTypes DEF AddLinkArg
  <2>2. linkargs' \in Seq(FileName)
    BY <1>3, <2>1 DEF AddLinkArg, Typed
  <2> QED BY <1>3, <2>1, <2>2 DEF AddLinkArg, Typed, world
<1>4. CASE BadOperand \/ Signal \/ LinkDone \/ NoLink
  BY <1>4 DEF BadOperand, Signal, LinkDone, NoLink, Leave, Typed, world
<1>5. CASE StartBuild
  BY <1>5, ToolFacts DEF StartBuild, Typed, world
<1>6. ASSUME NEW t \in Tool, NEW nxt, SpawnTool(t, nxt), i <= Len(job.chain) \/ t = LD
      PROVE  pid' \subseteq Tool /\ DOMAIN out' = Tool /\ DOMAIN proc' = Tool /\ objfile' \in FileName
  <2>1. i <= Len(job.chain) => ObjName \in FileName
    BY NameTypes
  <2>2. LD # AS
    BY DEF LD, AS
  <2> QED BY <1>6, <2>1, <2>2 DEF SpawnTool, SetNames, Typed
<1>7. CASE Spawn
  <2>1. tool \in CC1 .. AS /\ i <= Len(job.chain) /\ tool \in Tool
    BY <1>7, ToolFacts DEF Spawn, Shape, Building, LAST_TOOL
  <2>2. nexttool(tool) \in Tool \cup {LAST_TOOL}
    BY <2>1, NextTool, ToolFacts
  <2>3. pid' \subseteq Tool /\ DOMAIN out' = Tool /\ DOMAIN proc' = Tool /\ objfile' \in FileName
    BY <1>6, <1>7, <2>1 DEF Spawn
  <2> QED BY <1>7, <2>2, <2>3 DEF Spawn, Typed
<1>8. CASE SpawnFails
  <2>1. tool \in Tool /\ (i <= Len(job.chain) \/ tool # AS)
    BY <1>8, ToolFacts DEF SpawnFails, Typed, Shape, Building, LD, AS, LAST_TOOL
  <2>2. objfile' \in FileName /\ DOMAIN out' = Tool
    BY <1>8, <2>1, NameTypes DEF SpawnFails, SetNames, Typed
  <2> QED BY <1>8, <2>2 DEF SpawnFails, Leave, Typed, world
<1>9. CASE AllSpawned
  BY <1>9 DEF AllSpawned, Typed, world
<1>10. CASE Reap
  BY <1>10, MinTool DEF Reap, Typed
<1>11. CASE BuildOk
  <2>1. i + 1 \in 1 .. Len(job.chain) + 1
    BY <1>1, <1>11 DEF BuildOk, Shape, Building
  <2> QED BY <1>11, <2>1 DEF BuildOk, Typed, world
<1>12. CASE BuildFailed
  <2>1. i + 1 \in 1 .. Len(job.chain) + 1
    BY <1>1, <1>12 DEF BuildFailed, Shape, Building
  <2> QED BY <1>12, <2>1 DEF BuildFailed, Typed, world
<1>13. CASE StartLink
  BY <1>13, ToolFacts DEF StartLink, Typed, world
<1>14. CASE SpawnLd
  <2>1. pid' \subseteq Tool /\ DOMAIN out' = Tool /\ DOMAIN proc' = Tool /\ objfile' \in FileName
    BY <1>6, <1>14, ToolFacts DEF SpawnLd
  <2> QED BY <1>14, <2>1 DEF SpawnLd, Typed
<1>15. ASSUME NEW t \in Tool, ToolStep(t) PROVE Typed'
  BY <1>15 DEF ToolStep, Read, Write, Succeed, Fail, Exit, Typed, driver
<1>16. CASE Done
  BY <1>2, <1>16 DEF Done
<1> QED BY <1>2, <1>3, <1>4, <1>5, <1>7, <1>8, <1>9, <1>10, <1>11, <1>12, <1>13, <1>14, <1>15, <1>16
        DEF Next, Driver

-----------------------------------------------------------------------------
(* What the driver has open.                                               *)

\* A tool that takes a step runs, and is not gone after it.
LEMMA ToolStepFacts ==
    ASSUME Typed, NEW t \in Tool, ToolStep(t)
    PROVE  /\ UNCHANGED <<job, pc, i, tool, fdin, fds, pid, out, objfile, objtmp, objout, linkargs,
                          failure, failed, bye>>
           /\ proc[t] = "run" /\ proc'[t] \in {"run", "ok", "bad"}
           /\ \A u \in Tool \ {t} : proc'[u] = proc[u]
           /\ DOMAIN proc' = Tool
           /\ broke' = IF proc'[t] = "bad" THEN broke \cup {i} ELSE broke
           /\ files \subseteq files' /\ files' \subseteq files \cup Written(t)
           /\ proc'[t] = "ok" => Written(t) \subseteq files'
<1>1. CASE Read(t) \/ Write(t)
  BY <1>1 DEF Read, Write, driver, Typed
<1>2. CASE Succeed(t)
  BY <1>2 DEF Succeed, Exit, driver, Typed
<1>3. CASE Fail(t)
  BY <1>3 DEF Fail, Exit, driver, Typed
<1> QED BY <1>1, <1>2, <1>3 DEF ToolStep

\* Starting a tool: the driver keeps the read end of the new pipe only.
LEMMA SpawnFds ==
    ASSUME NEW t \in Tool, NEW nxt, SpawnTool(t, nxt), fdin # t,
           fds = IF fdin = NoTool THEN {} ELSE {<<"r", fdin>>}
    PROVE  /\ fdin' = (IF nxt < LAST_TOOL THEN t ELSE NoTool)
           /\ fds' = (IF nxt < LAST_TOOL THEN {<<"r", t>>} ELSE {})
<1>1. fds' = (fds \cup Opened(t, nxt)) \ {<<"r", fdin>>, <<"w", t>>}
  BY DEF SpawnTool, ClosedBySpawn
<1>2. fds \subseteq {<<"r", fdin>>}
  OBVIOUS
<1>3. <<"r", t>> # <<"r", fdin>> /\ <<"r", t>> # <<"w", t>> /\ <<"w", t>> # <<"r", fdin>>
  OBVIOUS
<1>4. CASE nxt < LAST_TOOL
  <2>1. Opened(t, nxt) = {<<"r", t>>, <<"w", t>>}
    BY <1>4 DEF Opened
  <2> QED BY <1>1, <1>2, <1>3, <1>4, <2>1 DEF SpawnTool
<1>5. CASE ~(nxt < LAST_TOOL)
  <2>1. Opened(t, nxt) = {}
    BY <1>5 DEF Opened
  <2> QED BY <1>1, <1>2, <1>5, <2>1 DEF SpawnTool
<1> QED BY <1>4, <1>5

LEMMA StepShape == ASSUME Typed, Shape, [Next]_vars PROVE Shape'
<1>1. Len(job.chain) \in Nat /\ i \in Nat /\ 1 <= i /\ pid \subseteq Tool /\ DOMAIN proc = Tool
  BY JobFacts DEF Typed
<1>2. CASE UNCHANGED vars
  BY <1>2 DEF Shape, Building, Returned, vars, driver, world, operand, toolfor, fl, Linking
<1>3. CASE AddLinkArg
  BY <1>3 DEF AddLinkArg, Shape, Building, Returned, world
<1>4. CASE BadOperand \/ Signal \/ SpawnFails
  BY <1>4 DEF BadOperand, Signal, SpawnFails, Leave, Shape, Building, Returned
<1>5. CASE LinkDone
  BY <1>5 DEF LinkDone, Leave, Shape, Building, Returned, world
<1>6. CASE NoLink
  BY <1>6 DEF NoLink, Leave, Shape, Building, Returned, world
<1>7. CASE StartBuild
  <2>1. /\ pc = "operand" /\ pc' = "spawn" /\ tool' = toolfor(operand.kind) /\ i <= Len(job.chain)
        /\ operand.kind # "lib" /\ toolfor(operand.kind) \in CC1 .. AS
        /\ UNCHANGED <<job, i, fdin, fds, pid, bye, proc>>
    BY <1>7 DEF StartBuild, world
  <2>2. toolfor(operand.kind)' = toolfor(operand.kind) /\ operand' = operand
    BY <2>1 DEF toolfor, operand, fl
  <2>3. toolfor(operand.kind) <= tool'
    BY <2>1, ToolFacts
  <2> QED BY <2>1, <2>2, <2>3 DEF Shape, Building, Returned
<1>8. CASE Spawn
  <2>1. /\ pc = "spawn" /\ tool \in CC1 .. AS /\ SpawnTool(tool, nexttool(tool)) /\ tool' = nexttool(tool)
        /\ UNCHANGED <<job, pc, i, bye>> /\ pid' = pid \cup {tool}
        /\ proc' = [proc EXCEPT ![tool] = "run"]
    <3>1. pc = "spawn" /\ tool \in CC1 .. AS
      BY <1>8, ToolFacts DEF Spawn, Shape, LAST_TOOL
    <3> QED BY <1>8, <3>1 DEF Spawn, SpawnTool
  <2>2. nexttool(tool) \in (CC1 .. AS) \cup {LAST_TOOL} /\ tool < nexttool(tool) /\ tool \in Tool
    BY <2>1, NextTool, ToolFacts
  <2>3. fdin # tool
    BY <2>1, ToolFacts DEF Shape, Typed
  <2>4. /\ fdin' = (IF nexttool(tool) < LAST_TOOL THEN tool ELSE NoTool)
        /\ fds' = (IF nexttool(tool) < LAST_TOOL THEN {<<"r", tool>>} ELSE {})
    BY <2>1, <2>2, <2>3, SpawnFds DEF Shape
  <2>5. toolfor(operand.kind)' = toolfor(operand.kind) /\ operand' = operand
    BY <2>1 DEF toolfor, operand, fl
  <2>6. \A t \in pid' : t < tool' /\ t <= AS
    <3>1. \A t \in pid : t < tool /\ t <= AS /\ t \in Int
      BY <1>1, <2>1, ToolFacts DEF Shape
    <3> QED BY <2>1, <2>2, <3>1, ToolFacts DEF AS, LAST_TOOL
  <2>7. \A t \in Tool : t \in pid' <=> proc'[t] # "none"
    BY <1>1, <2>1, <2>2 DEF Shape
  <2>8. toolfor(operand.kind) <= tool'
    <3>1. toolfor(operand.kind) \in CC1 .. AS /\ toolfor(operand.kind) <= tool
      BY <2>1 DEF Shape, Building
    <3> QED BY <2>1, <2>2, <3>1, ToolFacts DEF LAST_TOOL
  <2>9. tool # NoTool
    BY <2>2, ToolFacts
  <2>10. nexttool(tool) < LAST_TOOL <=> nexttool(tool) # LAST_TOOL
    BY <2>2, ToolFacts DEF LAST_TOOL
  <2>11. /\ fdin' # NoTool => fdin' \in pid' /\ tool' # LAST_TOOL
         /\ fds' = IF fdin' = NoTool THEN {} ELSE {<<"r", fdin'>>}
    BY <2>1, <2>4, <2>9, <2>10
  <2>12. /\ pc' = "spawn" /\ bye' = "running" /\ tool' \in (CC1 .. AS) \cup {LAST_TOOL}
         /\ i' <= Len(job'.chain) /\ operand'.kind # "lib" /\ toolfor(operand.kind)' \in CC1 .. AS
    BY <2>1, <2>2, <2>5 DEF Shape, Building
  <2> QED BY <2>5, <2>6, <2>7, <2>8, <2>11, <2>12 DEF Shape, Building, Returned
<1>9. CASE AllSpawned
  <2>1. /\ pc = "spawn" /\ pc' = "wait" /\ tool = LAST_TOOL
        /\ UNCHANGED <<job, i, tool, fdin, fds, pid, bye, proc>>
    BY <1>9 DEF AllSpawned, world
  <2>2. toolfor(operand.kind)' = toolfor(operand.kind) /\ operand' = operand
    BY <2>1 DEF toolfor, operand, fl
  <2>3. pid \subseteq CC1 .. AS
    BY <1>1, <2>1, ToolFacts DEF Shape, AS
  <2> QED BY <2>1, <2>2, <2>3 DEF Shape, Building, Returned
<1>10. CASE Reap
  <2>1. PICK t \in pid : /\ pid' = pid \ {t} /\ proc' = [proc EXCEPT ![t] = "none"]
    BY <1>1, <1>10, MinTool DEF Reap
  <2>2. /\ pc \in {"wait", "linkwait"} /\ UNCHANGED <<job, pc, i, tool, fdin, fds, bye>>
    BY <1>10 DEF Reap
  <2>3. toolfor(operand.kind)' = toolfor(operand.kind) /\ operand' = operand /\ Linking' = Linking
    BY <2>2 DEF toolfor, operand, fl, Linking
  <2>4. \A u \in Tool : u \in pid' <=> proc'[u] # "none"
    BY <1>1, <2>1, <2>2 DEF Shape
  <2> QED BY <1>1, <2>1, <2>2, <2>3, <2>4 DEF Shape, Building, Returned
<1>11. CASE BuildOk \/ BuildFailed
  BY <1>11 DEF BuildOk, BuildFailed, Shape, Building, Returned, world
<1>12. CASE StartLink
  <2>1. Linking' = Linking /\ i = Len(job.chain) + 1
    BY <1>1, <1>12 DEF StartLink, Linking, fl, Typed
  <2> QED BY <1>12, <2>1 DEF StartLink, Shape, Building, Returned, world
<1>13. CASE SpawnLd
  <2>1. /\ pc = "link" /\ pc' = "linkwait" /\ SpawnTool(LD, LAST_TOOL) /\ pid = {} /\ fdin = NoTool
        /\ UNCHANGED <<job, i, bye>> /\ pid' = {LD} /\ proc' = [proc EXCEPT ![LD] = "run"] /\ fds = {}
    BY <1>13 DEF SpawnLd, Shape, SpawnTool
  <2>2. fdin' = NoTool /\ fds' = {}
    <3>1. ~(LAST_TOOL < LAST_TOOL) /\ LD \in Tool /\ fdin # LD
      BY <2>1, ToolFacts DEF LAST_TOOL, LD, NoTool
    <3> QED BY <2>1, <3>1, SpawnFds
  <2>3. Linking' = Linking
    BY <2>1 DEF Linking, fl
  <2>4. \A t \in Tool : t \in pid' <=> proc'[t] # "none"
    BY <1>1, <2>1, ToolFacts DEF Shape
  <2> QED BY <2>1, <2>2, <2>3, <2>4 DEF Shape, Building, Returned
<1>14. ASSUME NEW t \in Tool, ToolStep(t) PROVE Shape'
  <2>1. /\ UNCHANGED <<job, pc, i, tool, fdin, fds, pid, bye>> /\ proc[t] = "run"
        /\ proc'[t] \in {"run", "ok", "bad"} /\ \A u \in Tool \ {t} : proc'[u] = proc[u]
    BY <1>14, ToolStepFacts
  <2>2. toolfor(operand.kind)' = toolfor(operand.kind) /\ operand' = operand /\ Linking' = Linking
    BY <2>1 DEF toolfor, operand, fl, Linking
  <2>3. pc # "exited" => \A u \in Tool : u \in pid' <=> proc'[u] # "none"
    BY <2>1 DEF Shape
  <2>4. ~Returned
    BY <1>14, <2>1 DEF Shape
  <2>5. pc = pc' /\ bye = bye' /\ ~Returned'
    BY <2>1, <2>4 DEF Returned
  <2> QED BY <2>1, <2>2, <2>3, <2>5 DEF Shape, Building
<1>15. CASE Done
  BY <1>2, <1>15 DEF Done
<1> QED BY <1>2, <1>3, <1>4, <1>5, <1>6, <1>7, <1>8, <1>9, <1>10, <1>11, <1>12, <1>13, <1>14, <1>15
        DEF Next, Driver

-----------------------------------------------------------------------------
(* The outfiles, and the failures.                                         *)

\* What depends on the command line and the operand only.
LEMMA SameNames ==
    ASSUME job' = job
    PROVE  /\ fl' = fl /\ Linking' = Linking /\ \A k : Product(k)' = Product(k)
           /\ i' = i => operand' = operand /\ Maker' = Maker /\ ObjName' = ObjName
                        /\ (\A t : OutName(t)' = OutName(t)) /\ \A t : nexttool(t)' = nexttool(t)
<1>1. fl' = fl /\ Linking' = Linking
  BY DEF fl, Linking
<1>2. \A k : Product(k)' = Product(k)
  BY <1>1 DEF Product
<1>3. ASSUME i' = i PROVE operand' = operand /\ Maker' = Maker /\ ObjName' = ObjName
                          /\ (\A t : OutName(t)' = OutName(t)) /\ \A t : nexttool(t)' = nexttool(t)
  <2>1. operand' = operand
    BY <1>3 DEF operand
  <2>2. ObjName' = ObjName
    BY <1>1, <1>3, <2>1 DEF ObjName
  <2>3. Maker' = Maker
    BY <1>1, <2>1 DEF Maker
  <2>4. \A t : OutName(t)' = OutName(t)
    BY <1>1, <2>1, <2>2 DEF OutName
  <2>5. \A t : nexttool(t)' = nexttool(t)
    BY <1>1 DEF nexttool
  <2> QED BY <2>1, <2>2, <2>3, <2>4, <2>5
<1> QED BY <1>1, <1>2, <1>3

\* Only the assembler writes a temporary object.
LEMMA OutNames ==
    /\ OutName(AS) = ObjName /\ OutName(LD) = OutFile
    /\ \A t \in Tool \ {AS} : ~IsTemp(OutName(t))
    /\ ~IsTemp(NoFile) /\ ~IsTemp(OutFile)
    /\ \A t : Created(t) # {} => t = AS
<1>1. OutName(AS) = ObjName /\ OutName(LD) = OutFile
  BY DEF OutName, AS, LD, TEEIR, TEEQBE, TEEAS
<1>2. ~IsTemp(NoFile) /\ ~IsTemp(OutFile)
  BY DEF IsTemp, NoFile, OutFile
<1>3. ASSUME NEW t \in Tool \ {AS} PROVE ~IsTemp(OutName(t))
  <2>1. OutName(t) \in {OutFile, NoFile, <<"ir", operand.stem>>, <<"qbe", operand.stem>>, <<"s", operand.stem>>}
    BY <1>3, ToolFacts DEF OutName, LD, TEEIR, TEEQBE, TEEAS, AS
  <2> QED BY <1>2, <2>1 DEF IsTemp
<1>4. \A t : Created(t) # {} => t = AS
  BY DEF Created
<1> QED BY <1>1, <1>2, <1>3, <1>4

LEMMA StepNamed == ASSUME Typed, Shape, Named, [Next]_vars PROVE Named'
<1>1. pid \subseteq Tool /\ DOMAIN proc = Tool /\ DOMAIN out = Tool /\ AS \in Tool /\ LD \in Tool
      /\ AS # LD
  BY ToolFacts DEF Typed, AS, LD
<1>2. ASSUME UNCHANGED <<job, i, pc, pid, out, objfile, proc>> PROVE Named'
  BY <1>2, SameNames DEF Named, IsTemp
<1>3. ASSUME UNCHANGED <<out, objfile, proc, pid>>, pid = {} \/ pc' = "exited" PROVE Named'
  BY <1>3 DEF Named, IsTemp
<1>4. CASE AddLinkArg \/ BadOperand \/ Signal \/ LinkDone \/ NoLink \/ StartBuild \/ BuildOk
           \/ BuildFailed \/ StartLink
  <2>1. UNCHANGED <<out, objfile, proc, pid>> /\ (pid = {} \/ pc' = "exited")
    BY <1>4 DEF AddLinkArg, BadOperand, Signal, LinkDone, NoLink, StartBuild, BuildOk,
                BuildFailed, StartLink, Leave, world, Shape
  <2> QED BY <1>3, <2>1
<1>5. CASE AllSpawned
  <2>1. UNCHANGED <<job, i, out, objfile, proc, pid>> /\ pc # "exited"
    BY <1>5 DEF AllSpawned, world
  <2> QED BY <2>1, SameNames DEF Named, IsTemp
<1>6. ASSUME NEW t \in Tool, NEW nxt, SpawnTool(t, nxt), UNCHANGED <<job, i>>, pc # "exited"
      PROVE  Named'
  <2>1. /\ out' = [out EXCEPT ![t] = OutName(t)] /\ objfile' = (IF t = AS THEN ObjName ELSE objfile)
        /\ pid' = pid \cup {t} /\ proc' = [proc EXCEPT ![t] = "run"]
    BY <1>6 DEF SpawnTool, SetNames
  <2>2. out'[t] = OutName(t) /\ \A u \in Tool \ {t} : out'[u] = out[u] /\ proc'[u] = proc[u]
    BY <1>1, <2>1
  <2>3. \A u : OutName(u)' = OutName(u)
    BY <1>6, SameNames
  <2>4. \A u \in pid' : out'[u] = OutName(u)'
    BY <1>1, <1>6, <2>1, <2>2, <2>3 DEF Named
  <2>5. proc'[AS] = "run" => out'[AS] = objfile'
    <3>1. CASE t = AS
      BY <2>1, <2>2, <3>1, OutNames
    <3>2. CASE t # AS
      BY <1>1, <2>1, <2>2, <3>2 DEF Named
    <3> QED BY <3>1, <3>2
  <2>6. \A u \in Tool \ {AS} : ~IsTemp(out'[u])
    BY <2>2, OutNames DEF Named
  <2> QED BY <2>4, <2>5, <2>6 DEF Named, IsTemp
<1>7. CASE Spawn
  <2>1. tool \in Tool
    BY <1>7, ToolFacts DEF Spawn, Typed, LAST_TOOL
  <2> QED BY <1>6, <1>7, <2>1 DEF Spawn
<1>8. CASE SpawnLd
  BY <1>1, <1>6, <1>8 DEF SpawnLd
<1>9. CASE SpawnFails
  <2>1. /\ tool \in Tool /\ pc \in {"spawn", "link"} /\ pc' = "exited" /\ UNCHANGED <<pid, proc>>
        /\ \/ SetNames(tool)
           \/ tool = AS /\ UNCHANGED out
    BY <1>9, ToolFacts, OutNames DEF SpawnFails, Typed, Leave, world, LAST_TOOL
  <2>2. tool \notin pid
    BY <1>1, <2>1, ToolFacts DEF Shape
  <2>3. CASE tool = AS
    <3>1. proc[AS] = "none"
      BY <1>1, <2>1, <2>2, <2>3 DEF Shape
    <3>2. \A u \in Tool \ {AS} : out'[u] = out[u]
      BY <1>1, <2>1, <2>3 DEF SetNames
    <3> QED BY <2>1, <3>1, <3>2 DEF Named, IsTemp
  <2>4. CASE tool # AS
    <3>1. out' = [out EXCEPT ![tool] = OutName(tool)] /\ objfile' = objfile
      BY <2>1, <2>4 DEF SetNames
    <3>2. \A u \in Tool \ {AS} : ~IsTemp(out'[u])
      BY <1>1, <2>1, <2>4, <3>1, OutNames DEF Named
    <3> QED BY <1>1, <2>1, <2>4, <3>1, <3>2 DEF Named, IsTemp
  <2> QED BY <2>3, <2>4
<1>10. CASE Reap
  <2>1. PICK t \in pid : /\ pid' = pid \ {t} /\ proc' = [proc EXCEPT ![t] = "none"]
    BY <1>1, <1>10, MinTool DEF Reap
  <2>2. UNCHANGED <<job, i, pc, out, objfile>>
    BY <1>10 DEF Reap
  <2>3. proc'[AS] = "run" => proc[AS] = "run"
    BY <1>1, <2>1
  <2> QED BY <2>1, <2>2, <2>3, SameNames DEF Named, IsTemp
<1>11. ASSUME NEW t \in Tool, ToolStep(t) PROVE Named'
  <2>1. UNCHANGED <<job, i, pc, pid, out, objfile>> /\ (proc'[AS] = "run" => proc[AS] = "run")
    BY <1>1, <1>11, ToolStepFacts
  <2> QED BY <2>1, SameNames DEF Named, IsTemp
<1>12. CASE UNCHANGED vars \/ Done
  BY <1>2, <1>12 DEF Done, vars, driver, world
<1> QED BY <1>4, <1>5, <1>7, <1>8, <1>9, <1>10, <1>11, <1>12 DEF Next, Driver

LEMMA StepCounted == ASSUME Typed, Shape, Counted, [Next]_vars PROVE Counted'
<1>1. pid \subseteq Tool /\ DOMAIN proc = Tool /\ LD \in Tool
  BY ToolFacts DEF Typed
<1>2. CASE UNCHANGED vars \/ Done
  BY <1>2 DEF Done, vars, driver, world, Counted, Returned
<1>3. CASE AddLinkArg
  BY <1>3 DEF AddLinkArg, world, Counted, Returned
<1>4. CASE BadOperand \/ Signal \/ SpawnFails
  BY <1>4 DEF BadOperand, Signal, SpawnFails, Leave, world, Counted, Returned
<1>5. CASE LinkDone
  <2>1. pc = "linkwait" /\ pid = {} /\ pc' = "exited" /\ UNCHANGED <<proc, broke, failure>>
    BY <1>5 DEF LinkDone, Leave, world
  <2> QED BY <2>1 DEF Counted, Returned, Typed
<1>6. CASE NoLink
  <2>1. pc = "operand" /\ pid = {} /\ pc' = "exited" /\ UNCHANGED <<proc, broke, failure>>
    BY <1>6 DEF NoLink, Leave, world, Shape
  <2> QED BY <2>1 DEF Counted, Returned, Typed
<1>7. CASE StartBuild
  <2>1. /\ pc = "operand" /\ pc' = "spawn" /\ failed' = LAST_TOOL
        /\ UNCHANGED <<pid, proc, broke, failure, bye>>
    BY <1>7 DEF StartBuild, world
  <2> QED BY <2>1 DEF Counted, Returned, LAST_TOOL
<1>8. CASE Spawn
  <2>1. /\ pc = "spawn" /\ tool \in Tool /\ tool \notin pid /\ pid' = pid \cup {tool}
        /\ proc' = [proc EXCEPT ![tool] = "run"] /\ UNCHANGED <<pc, broke, failure, failed>>
    <3>1. pc = "spawn" /\ tool \in Tool
      BY <1>8, ToolFacts DEF Spawn, Typed, LAST_TOOL
    <3>2. tool \notin pid
      BY <1>1, <3>1, ToolFacts DEF Shape
    <3> QED BY <1>8, <3>1, <3>2 DEF Spawn, SpawnTool
  <2>2. \A t \in Tool : proc'[t] = "bad" <=> proc[t] = "bad" /\ t # tool
    BY <1>1, <2>1
  <2> QED BY <1>1, <2>1, <2>2 DEF Counted, Returned
<1>9. CASE AllSpawned
  BY <1>9 DEF AllSpawned, world, Counted, Returned
<1>10. CASE Reap
  <2>1. PICK t \in pid : /\ pid' = pid \ {t} /\ proc' = [proc EXCEPT ![t] = "none"]
                         /\ failure' = (failure \/ proc[t] = "bad")
                         /\ failed' = (IF proc[t] = "bad" THEN t ELSE failed)
    BY <1>1, <1>10, MinTool DEF Reap
  <2>2. pc \in {"wait", "linkwait"} /\ UNCHANGED <<pc, broke, bye>>
    BY <1>10 DEF Reap
  <2>3. \A u \in Tool : proc'[u] = "bad" <=> proc[u] = "bad" /\ u # t
    BY <1>1, <2>1
  <2>4. pc = "linkwait" => proc'[LD] \notin {"run", "ok"}
    BY <1>1, <2>1 DEF Shape
  <2> QED BY <1>1, <2>1, <2>2, <2>3, <2>4 DEF Counted, Returned, Typed
<1>11. CASE BuildOk \/ BuildFailed
  <2>1. /\ pc = "wait" /\ pc' = "operand" /\ UNCHANGED <<pid, proc, broke, failure, failed, bye>>
    BY <1>11 DEF BuildOk, BuildFailed, world
  <2> QED BY <2>1 DEF Counted, Returned
<1>12. CASE StartLink
  <2>1. /\ pc = "operand" /\ pc' = "link" /\ ~failure /\ pid = {} /\ failed' = LAST_TOOL
        /\ UNCHANGED <<pid, proc, broke, failure, bye>>
    BY <1>12 DEF StartLink, world, Shape
  <2> QED BY <2>1 DEF Counted, Returned, LAST_TOOL
<1>13. CASE SpawnLd
  <2>1. /\ pc = "link" /\ pc' = "linkwait" /\ pid = {} /\ proc' = [proc EXCEPT ![LD] = "run"]
        /\ UNCHANGED <<broke, failure, failed, bye>>
    BY <1>13 DEF SpawnLd, SpawnTool, Shape
  <2>2. \A t \in Tool : proc'[t] = "bad" => proc[t] = "bad"
    BY <1>1, <2>1
  <2> QED BY <2>1, <2>2 DEF Counted, Returned
<1>14. ASSUME NEW t \in Tool, ToolStep(t) PROVE Counted'
  <2>1. /\ UNCHANGED <<pc, pid, failure, failed, bye>> /\ proc[t] = "run"
        /\ proc'[t] \in {"run", "ok", "bad"} /\ \A u \in Tool \ {t} : proc'[u] = proc[u]
        /\ broke' = IF proc'[t] = "bad" THEN broke \cup {i} ELSE broke
    BY <1>14, ToolStepFacts
  <2>2. pc # "exited" => t \in pid
    BY <2>1 DEF Shape
  <2>3. pc # "link" /\ ~Returned /\ (pc = "linkwait" => t = LD)
    BY <1>14, <2>1, <2>2 DEF Shape, Returned
  <2>4. ~Returned' /\ pc' # "link"
    BY <2>1, <2>3 DEF Returned
  <2>5. \A u \in Tool : proc'[u] = "bad" => broke' # {}
    BY <2>1 DEF Counted
  <2>6. pc # "exited" =>
          /\ failed < LAST_TOOL \/ failure => broke' # {}
          /\ broke' # {} => failure \/ \E u \in pid : proc'[u] = "bad"
    BY <1>1, <2>1, <2>2 DEF Counted
  <2>7. pc = "linkwait" /\ proc'[LD] \in {"run", "ok"} => broke' = {}
    BY <2>1, <2>3 DEF Counted
  <2> QED BY <2>1, <2>4, <2>5, <2>6, <2>7 DEF Counted
<1> QED BY <1>2, <1>3, <1>4, <1>5, <1>6, <1>7, <1>8, <1>9, <1>10, <1>11, <1>12, <1>13, <1>14
        DEF Next, Driver

-----------------------------------------------------------------------------
(* What is produced when nothing fails.                                    *)

\* The kinds of operand a pipeline is started for.
LEMMA Kinds ==
    ASSUME toolfor(operand.kind) \in CC1 .. AS
    PROVE  \/ fl.E /\ toolfor(operand.kind) = CC1
           \/ ~fl.E /\ operand.kind = "c" /\ toolfor(operand.kind) = CC1
           \/ ~fl.E /\ operand.kind = "ir" /\ toolfor(operand.kind) = CC2
           \/ ~fl.E /\ operand.kind = "qbe" /\ toolfor(operand.kind) = QBE
           \/ ~fl.E /\ operand.kind = "s" /\ toolfor(operand.kind) = AS
<1>1. LD \notin CC1 .. AS /\ Unrecognized \notin CC1 .. AS
  BY DEF LD, AS, CC1, Unrecognized
<1>2. CASE fl.E
  BY <1>2 DEF toolfor
<1>3. CASE ~fl.E
  <2>1. CASE operand.kind \in {"c", "ir", "qbe", "s"}
    BY <1>3, <2>1 DEF toolfor
  <2>2. CASE operand.kind = "o"
    BY <1>1, <1>3, <2>2 DEF toolfor
  <2>3. CASE operand.kind \notin {"c", "ir", "qbe", "s", "o"}
    <3>1. toolfor(operand.kind) = Unrecognized
      BY <1>3, <2>3 DEF toolfor
    <3> QED BY <1>1, <3>1
  <2> QED BY <2>1, <2>2, <2>3
<1> QED BY <1>2, <1>3

\* The product of an operand that is built.
LEMMA ProductOf ==
    ASSUME Typed, i <= Len(job.chain), operand.kind # "lib", toolfor(operand.kind) \in CC1 .. AS
    PROVE  Product(i) = IF fl.E THEN (IF fl.o THEN OutFile ELSE NoFile)
                        ELSE IF fl.M /\ operand.kind = "c" THEN NoFile
                        ELSE IF fl.S /\ operand.kind # "s" THEN <<"s", operand.stem>>
                        ELSE ObjName
<1>1. ~(i > Len(job.chain))
  BY JobFacts
<1>2. ~(operand.kind = "lib" \/ (operand.kind = "o" /\ ~fl.E))
  BY Kinds
<1> QED BY <1>1, <1>2 DEF Product, operand, ObjName

\* The pipeline goes through the tool that writes the product, and ends there.
LEMMA MakerFacts ==
    ASSUME Typed, i <= Len(job.chain), operand.kind # "lib", toolfor(operand.kind) \in CC1 .. AS,
           Product(i) # NoFile
    PROVE  /\ Maker \in CC1 .. AS /\ Maker \in Tool /\ toolfor(operand.kind) <= Maker
           /\ OutName(Maker) = Product(i) /\ nexttool(Maker) = LAST_TOOL
           /\ \A t \in CC1 .. AS : toolfor(operand.kind) <= t /\ t < Maker => nexttool(t) <= Maker
<1>1. /\ {fl.M, fl.E, fl.S, fl.c, fl.k, fl.o, fl.Q} \subseteq BOOLEAN
      /\ ~(fl.E /\ fl.M) /\ ~((fl.E \/ fl.M) /\ (fl.S \/ fl.k))
  BY JobFacts
<1>2. CASE fl.E
  <2>1. fl.o /\ Maker = TEEIR /\ toolfor(operand.kind) = CC1 /\ Product(i) = OutFile
    BY <1>2, ProductOf, Kinds DEF Maker
  <2>2. OutName(TEEIR) = OutFile /\ nexttool(TEEIR) = LAST_TOOL
    BY <1>2, <2>1 DEF OutName, nexttool, CC1, TEEIR, CC2, TEEQBE, QBE, TEEAS, AS, LD, LAST_TOOL, Unrecognized
  <2>3. \A t \in CC1 .. AS : t < TEEIR => nexttool(t) <= TEEIR
    BY <1>2, <2>1 DEF nexttool, CC1, TEEIR, CC2, TEEQBE, QBE, TEEAS, AS, LD, LAST_TOOL, Unrecognized
  <2> QED BY <2>1, <2>2, <2>3, ToolFacts DEF TEEIR, CC1
<1>3. CASE ~fl.E /\ fl.S /\ operand.kind # "s"
  <2>1. ~fl.M /\ Maker = TEEAS /\ Product(i) = <<"s", operand.stem>>
    BY <1>1, <1>3, ProductOf DEF Maker
  <2>2. toolfor(operand.kind) \in {CC1, CC2, QBE}
    BY <1>3, Kinds
  <2>3. OutName(TEEAS) = <<"s", operand.stem>> /\ nexttool(TEEAS) = LAST_TOOL
    BY <1>3 DEF OutName, nexttool, CC1, TEEIR, CC2, TEEQBE, QBE, TEEAS, AS, LD, LAST_TOOL, Unrecognized
  <2>4. ASSUME NEW t \in CC1 .. AS, t < TEEAS PROVE nexttool(t) <= TEEAS
    <3>1. t \in {0, 1, 2, 3, 4}
      BY <2>4, ToolFacts DEF TEEAS
    <3>2. CASE t \in {0, 1, 2}
      BY <1>3, <2>1, <3>2 DEF nexttool, CC1, TEEIR, CC2, TEEQBE, QBE, TEEAS, AS, LD, LAST_TOOL, Unrecognized
    <3>3. CASE t \in {3, 4}
      BY <1>3, <2>1, <3>3 DEF nexttool, CC1, TEEIR, CC2, TEEQBE, QBE, TEEAS, AS, LD, LAST_TOOL, Unrecognized
    <3> QED BY <3>1, <3>2, <3>3
  <2>5. toolfor(operand.kind) <= TEEAS /\ TEEAS \in CC1 .. AS /\ TEEAS \in Tool
    BY <2>2 DEF CC1, CC2, QBE, AS, TEEAS, Tool, LD
  <2> QED BY <2>1, <2>3, <2>4, <2>5
<1>4. CASE ~fl.E /\ ~(fl.S /\ operand.kind # "s")
  <2>1. ~(fl.M /\ operand.kind = "c") /\ Maker = AS /\ Product(i) = ObjName
    BY <1>4, ProductOf DEF Maker
  <2>2. toolfor(operand.kind) \in {CC1, CC2, QBE, AS} /\ (toolfor(operand.kind) = CC1 => operand.kind = "c")
        /\ (operand.kind = "s" => toolfor(operand.kind) = AS)
    BY <1>4, Kinds DEF CC1, CC2, QBE, AS
  <2>3. OutName(AS) = ObjName /\ nexttool(AS) = LAST_TOOL
    BY DEF OutName, nexttool, CC1, TEEIR, CC2, TEEQBE, QBE, TEEAS, AS, LD, LAST_TOOL, Unrecognized
  <2>4. ASSUME NEW t \in CC1 .. AS, toolfor(operand.kind) <= t, t < AS PROVE nexttool(t) <= AS
    <3>1. t \in {0, 1, 2, 3, 4, 5}
      BY <2>4, ToolFacts DEF AS
    <3>2. ~fl.S
      <4>1. operand.kind # "s"
        BY <2>2, <2>4, <3>1 DEF AS
      <4> QED BY <1>4, <4>1
    <3>3. CASE t = 0
      <4>1. toolfor(operand.kind) = CC1
        BY <2>2, <2>4, <3>3 DEF CC1, CC2, QBE, AS
      <4>2. ~fl.M
        BY <2>1, <2>2, <4>1
      <4> QED BY <1>4, <3>3, <4>2 DEF nexttool, CC1, TEEIR, CC2, TEEQBE, QBE, TEEAS, AS, LD, LAST_TOOL, Unrecognized
    <3>4. CASE t \in {1, 2}
      BY <1>4, <3>2, <3>4 DEF nexttool, CC1, TEEIR, CC2, TEEQBE, QBE, TEEAS, AS, LD, LAST_TOOL, Unrecognized
    <3>5. CASE t \in {3, 4, 5}
      BY <1>4, <3>2, <3>5 DEF nexttool, CC1, TEEIR, CC2, TEEQBE, QBE, TEEAS, AS, LD, LAST_TOOL, Unrecognized
    <3> QED BY <3>1, <3>3, <3>4, <3>5
  <2>5. toolfor(operand.kind) <= AS /\ AS \in CC1 .. AS /\ AS \in Tool
    BY <2>2 DEF CC1, CC2, QBE, AS, Tool, LD
  <2> QED BY <2>1, <2>3, <2>4, <2>5
<1> QED BY <1>2, <1>3, <1>4

\* The product of an operand that goes to the linker.
LEMMA LinkProduct ==
    ASSUME Typed, i <= Len(job.chain), Linking, operand.kind # "lib", toolfor(operand.kind) \in CC1 .. AS
    PROVE  /\ Maker = AS /\ Product(i) # NoFile /\ operand.kind \notin {"lib", "o"}
           /\ Product(i) = (IF fl.k THEN <<"o", operand.stem>> ELSE TempFile(i))
<1>1. ~fl.E /\ ~fl.M /\ ~fl.S /\ ~fl.c
  BY DEF Linking
<1>2. Product(i) = ObjName /\ Maker = AS
  BY <1>1, ProductOf DEF Maker
<1>3. ObjName = IF fl.k THEN <<"o", operand.stem>> ELSE TempFile(i)
  BY <1>1 DEF ObjName
<1>4. ObjName # NoFile
  BY <1>3 DEF NoFile, TempFile
<1>5. operand.kind \notin {"lib", "o"}
  BY <1>1, Kinds
<1> QED BY <1>2, <1>3, <1>4, <1>5

\* Reaping a tool when nothing failed removes nothing.
LEMMA ReapFacts ==
    ASSUME Typed, Reap
    PROVE  LET t == Min(pid)
               nf == IF proc[t] = "bad" THEN t ELSE failed
           IN  /\ t \in pid /\ t \in Tool /\ (\A u \in pid : t <= u) /\ proc[t] \in {"ok", "bad"}
               /\ pid' = pid \ {t} /\ DOMAIN proc' = Tool /\ proc'[t] = "none"
               /\ \A u \in Tool \ {t} : proc'[u] = proc[u]
               /\ failure' = (failure \/ proc[t] = "bad") /\ failed' = nf
               /\ files' = files \ (IF t >= nf THEN {out[t]} ELSE {})
               /\ (proc[t] # "bad" /\ failed = LAST_TOOL => files' = files)
               /\ pc \in {"wait", "linkwait"} /\ UNCHANGED <<job, pc, i, tool, out, objfile, objtmp, linkargs, broke, bye>>
<1> DEFINE t == Min(pid)
           nf == IF proc[t] = "bad" THEN t ELSE failed
<1>1. t \in pid /\ t \in Tool /\ \A u \in pid : t <= u
  BY MinTool DEF Reap, Typed
<1>2. /\ proc[t] \in {"ok", "bad"} /\ failure' = (failure \/ proc[t] = "bad") /\ failed' = nf
      /\ files' = files \ Discarded(t, nf) /\ pid' = pid \ {t} /\ proc' = [proc EXCEPT ![t] = "none"]
      /\ pc \in {"wait", "linkwait"} /\ UNCHANGED <<job, pc, i, tool, out, objfile, objtmp, linkargs, broke, bye>>
  BY DEF Reap, Waitable
<1> HIDE DEF t
<1>3. DOMAIN proc' = Tool /\ proc'[t] = "none" /\ \A u \in Tool \ {t} : proc'[u] = proc[u]
  BY <1>1, <1>2 DEF Typed
<1>4. files' = files \ (IF t >= nf THEN {out[t]} ELSE {})
  BY <1>2 DEF Discarded
<1>5. ASSUME proc[t] # "bad", failed = LAST_TOOL PROVE files' = files
  <2>1. ~(t >= nf)
    BY <1>1, <1>5, ToolFacts DEF LAST_TOOL
  <2> QED BY <1>4, <2>1
<1> QED BY <1>1, <1>2, <1>3, <1>4, <1>5 DEF t

LEMMA StepDelivered == ASSUME Typed, Shape, Named, Counted, Delivered, [Next]_vars PROVE Delivered'
<1>1. /\ pid \subseteq Tool /\ DOMAIN proc = Tool /\ DOMAIN out = Tool /\ LD \in Tool
      /\ Len(job.chain) \in Nat /\ i \in Nat /\ 1 <= i
  BY ToolFacts, JobFacts DEF Typed
<1>2. ASSUME Building
      PROVE  /\ i <= Len(job.chain) /\ operand.kind # "lib" /\ toolfor(operand.kind) \in CC1 .. AS
             /\ toolfor(operand.kind) <= tool
  BY <1>2 DEF Shape
<1>3. CASE UNCHANGED vars \/ Done
  <2>1. UNCHANGED <<job, i, pc, tool, out, proc, broke, files>>
    BY <1>3 DEF Done, vars, driver, world
  <2> QED BY <2>1, SameNames DEF Delivered, Building
<1>4. CASE BadOperand \/ Signal \/ SpawnFails \/ LinkDone \/ NoLink
  BY <1>4 DEF BadOperand, Signal, SpawnFails, LinkDone, NoLink, Leave, Delivered
<1>5. CASE AddLinkArg
  <2>1. /\ pc = "operand" /\ pc' = "operand" /\ i' = i + 1 /\ UNCHANGED <<job, broke, files>>
        /\ i <= Len(job.chain) /\ (operand.kind = "lib" \/ toolfor(operand.kind) = LD)
    BY <1>5 DEF AddLinkArg
  <2>2. operand.kind = "lib" \/ (operand.kind = "o" /\ ~fl.E)
    <3>1. CASE fl.E
      BY <2>1, <3>1 DEF toolfor, CC1, LD
    <3>2. CASE ~fl.E /\ operand.kind \notin {"c", "ir", "qbe", "s", "o"}
      <4>1. toolfor(operand.kind) = Unrecognized
        BY <3>2 DEF toolfor
      <4> QED BY <2>1, <4>1 DEF Unrecognized, LD
    <3>3. CASE ~fl.E /\ operand.kind \in {"c", "ir", "qbe", "s"}
      <4>1. toolfor(operand.kind) \in {CC1, CC2, QBE, AS}
        BY <3>3 DEF toolfor
      <4> QED BY <2>1, <3>3, <4>1 DEF CC1, CC2, QBE, AS, LD
    <3> QED BY <3>1, <3>2, <3>3
  <2>3. Product(i) = NoFile
    <3>1. ~(i > Len(job.chain))
      BY <1>1, <2>1
    <3> QED BY <2>2, <3>1 DEF Product, operand
  <2>4. \A k : Product(k)' = Product(k)
    BY <2>1, SameNames
  <2>5. \A k \in 1 .. i' - 1 : k \in 1 .. i - 1 \/ k = i
    BY <1>1, <2>1
  <2> QED BY <2>1, <2>3, <2>4, <2>5 DEF Delivered, Building
<1>6. CASE StartBuild
  <2>1. /\ pc = "operand" /\ pc' = "spawn" /\ tool' = toolfor(operand.kind) /\ i <= Len(job.chain)
        /\ operand.kind # "lib" /\ toolfor(operand.kind) \in CC1 .. AS
        /\ UNCHANGED <<job, i, broke, files>>
    BY <1>6 DEF StartBuild
  <2>2. Product(i) # NoFile => tool' <= Maker
    BY <2>1, MakerFacts
  <2> QED BY <2>1, <2>2, SameNames DEF Delivered, Building
<1>7. CASE Spawn
  <2>1. /\ pc = "spawn" /\ tool \in CC1 .. AS /\ tool \in Tool /\ tool' = nexttool(tool) /\ Building
        /\ UNCHANGED <<job, pc, i, broke>> /\ proc' = [proc EXCEPT ![tool] = "run"]
        /\ out' = [out EXCEPT ![tool] = OutName(tool)] /\ files \subseteq files'
    <3>1. pc = "spawn" /\ tool \in CC1 .. AS /\ tool \in Tool /\ Building
      BY <1>7, ToolFacts DEF Spawn, Shape, LAST_TOOL, Building
    <3> QED BY <1>7, <3>1 DEF Spawn, SpawnTool, SetNames
  <2>2. SUFFICES ASSUME broke = {}, Product(i) # NoFile
                 PROVE  \/ tool' <= Maker
                        \/ /\ out'[Maker] = Product(i)
                           /\ Product(i) \in files' \/ proc'[Maker] = "run"
    BY <2>1, SameNames DEF Delivered, Building
  <2>3. /\ Maker \in Tool /\ OutName(Maker) = Product(i)
        /\ tool < Maker => nexttool(tool) <= Maker
    BY <1>2, <2>1, <2>2, MakerFacts
  <2>4. CASE tool = Maker
    BY <1>1, <2>1, <2>3, <2>4
  <2>5. CASE tool < Maker
    BY <2>1, <2>3, <2>5
  <2>6. CASE tool # Maker /\ ~(tool < Maker)
    <3>1. ~(tool <= Maker)
      BY <2>1, <2>3, <2>6, ToolFacts
    <3> QED BY <1>1, <2>1, <2>2, <2>3, <2>6, <3>1 DEF Delivered
  <2> QED BY <2>4, <2>5, <2>6
<1>8. CASE AllSpawned
  <2>1. /\ pc = "spawn" /\ pc' = "wait" /\ UNCHANGED <<job, i, tool, out, proc, broke, files>>
    BY <1>8 DEF AllSpawned, world
  <2> QED BY <2>1, SameNames DEF Delivered, Building
<1>9. CASE Reap
  <2> DEFINE t == Min(pid)
  <2>1. /\ t \in pid /\ t \in Tool /\ proc[t] \in {"ok", "bad"}
        /\ \A u \in Tool \ {t} : proc'[u] = proc[u]
        /\ (proc[t] # "bad" /\ failed = LAST_TOOL => files' = files)
        /\ pc \in {"wait", "linkwait"} /\ UNCHANGED <<job, pc, i, tool, out, broke>>
    BY <1>9, ReapFacts
  <2> HIDE DEF t
  <2>2. ASSUME broke = {} PROVE files' = files
    <3>1. proc[t] # "bad" /\ ~(failed < LAST_TOOL)
      BY <2>1, <2>2 DEF Counted
    <3>2. failed = LAST_TOOL
      BY <3>1, ToolFacts DEF Typed
    <3> QED BY <2>1, <3>1, <3>2
  <2>3. \A u \in Tool : proc[u] = "run" => proc'[u] = "run"
    BY <2>1
  <2>4. ASSUME Building, Product(i) # NoFile PROVE Maker \in Tool
    BY <1>2, <2>4, MakerFacts
  <2> QED BY <1>1, <2>1, <2>2, <2>3, <2>4, SameNames DEF Delivered, Building
<1>10. CASE BuildOk
  <2>1. /\ pc = "wait" /\ pid = {} /\ pc' = "operand" /\ i' = i + 1 /\ tool = LAST_TOOL /\ Building
        /\ UNCHANGED <<job, broke, files>>
    BY <1>10 DEF BuildOk, Shape, Building
  <2>2. ASSUME broke = {}, Product(i) # NoFile PROVE Product(i) \in files
    <3>1. Maker \in Tool
      BY <1>2, <2>1, <2>2, MakerFacts
    <3>2. ~(tool <= Maker) /\ proc[Maker] # "run"
      BY <2>1, <3>1, ToolFacts DEF LAST_TOOL, Shape
    <3> QED BY <2>1, <2>2, <3>2 DEF Delivered
  <2>3. \A k : Product(k)' = Product(k)
    BY <2>1, SameNames
  <2>4. \A k \in 1 .. i' - 1 : k \in 1 .. i - 1 \/ k = i
    BY <1>1, <2>1
  <2> QED BY <2>1, <2>2, <2>3, <2>4 DEF Delivered, Building
<1>11. CASE BuildFailed
  <2>1. broke' # {}
    BY <1>11 DEF BuildFailed, Counted
  <2> QED BY <2>1 DEF Delivered
<1>12. CASE StartLink
  <2>1. pc = "operand" /\ pc' = "link" /\ UNCHANGED <<job, i, broke, files>>
    BY <1>12 DEF StartLink
  <2> QED BY <2>1, SameNames DEF Delivered, Building
<1>13. CASE SpawnLd
  <2>1. /\ pc = "link" /\ pc' = "linkwait" /\ UNCHANGED <<job, i, broke>> /\ files \subseteq files'
        /\ proc' = [proc EXCEPT ![LD] = "run"] /\ out' = [out EXCEPT ![LD] = OutName(LD)]
    BY <1>13 DEF SpawnLd, SpawnTool, SetNames
  <2>2. proc'[LD] = "run" /\ out'[LD] = OutFile
    BY <1>1, <2>1, OutNames
  <2> QED BY <2>1, <2>2, SameNames DEF Delivered, Building
<1>14. ASSUME NEW t \in Tool, ToolStep(t) PROVE Delivered'
  <2>1. /\ UNCHANGED <<job, pc, i, tool, out>> /\ proc[t] = "run"
        /\ proc'[t] \in {"run", "ok", "bad"} /\ \A u \in Tool \ {t} : proc'[u] = proc[u]
        /\ broke' = (IF proc'[t] = "bad" THEN broke \cup {i} ELSE broke)
        /\ files \subseteq files' /\ (proc'[t] = "ok" => Written(t) \subseteq files')
    BY <1>14, ToolStepFacts
  <2>2. SUFFICES ASSUME broke' = {} PROVE Delivered'
    BY DEF Delivered
  <2>3. broke = {} /\ proc'[t] \in {"run", "ok"}
    BY <2>1, <2>2
  <2>4. \A u \in Tool : proc[u] = "run" /\ out[u] # NoFile => proc'[u] = "run" \/ out[u] \in files'
    BY <2>1, <2>3 DEF Written
  <2>5. ASSUME Building, Product(i) # NoFile PROVE Maker \in Tool
    BY <1>2, <2>5, MakerFacts
  <2>6. OutFile # NoFile
    BY DEF OutFile, NoFile
  <2> QED BY <1>1, <2>1, <2>3, <2>4, <2>5, <2>6, SameNames DEF Delivered, Building
<1> QED BY <1>3, <1>4, <1>5, <1>6, <1>7, <1>8, <1>9, <1>10, <1>11, <1>12, <1>13, <1>14 DEF Next, Driver

-----------------------------------------------------------------------------
(* What the linker is given.                                               *)

\* An operand that goes to the linker as it is.
LEMMA PassedOn ==
    ASSUME operand.kind = "lib" \/ toolfor(operand.kind) = LD, ~fl.E
    PROVE  operand.kind \in {"lib", "o"}
<1>1. CASE operand.kind = "lib"
  BY <1>1
<1>2. CASE operand.kind \notin {"c", "ir", "qbe", "s", "o", "lib"}
  <2>1. toolfor(operand.kind) = Unrecognized
    BY <1>2 DEF toolfor
  <2> QED BY <1>2, <2>1 DEF Unrecognized, LD
<1>3. CASE operand.kind \in {"c", "ir", "qbe", "s"}
  <2>1. toolfor(operand.kind) \in {CC1, CC2, QBE, AS}
    BY <1>3 DEF toolfor
  <2> QED BY <1>3, <2>1 DEF CC1, CC2, QBE, AS, LD
<1> QED BY <1>1, <1>2, <1>3

LEMMA StepListed == ASSUME Typed, Shape, Named, Counted, Listed, [Next]_vars PROVE Listed'
<1>1. /\ Len(job.chain) \in Nat /\ i \in Nat /\ 1 <= i /\ AS \in Tool
      /\ linkargs \in Seq(FileName) /\ Len(linkargs) \in Nat
  BY ToolFacts, JobFacts, LenProperties DEF Typed
<1>2. ASSUME Building
      PROVE  /\ i <= Len(job.chain) /\ operand.kind # "lib" /\ toolfor(operand.kind) \in CC1 .. AS
             /\ toolfor(operand.kind) <= tool
  BY <1>2 DEF Shape
<1>3. ASSUME job' = job PROVE \A k : LinkArg(k)' = LinkArg(k)
  BY <1>3, SameNames DEF LinkArg
<1>4. ASSUME NEW a \in FileName, job' = job, linkargs' = Append(linkargs, a), i' = i + 1,
             pc # "exited", broke' = broke, broke = {} /\ Linking => a = LinkArg(i)
      PROVE  broke' = {} /\ Linking' => Len(linkargs') = i' - 1 /\ \A k \in 1 .. i' - 1 : linkargs'[k] = LinkArg(k)'
  <2>1. Len(linkargs') = Len(linkargs) + 1 /\ linkargs'[Len(linkargs) + 1] = a
        /\ \A k \in 1 .. Len(linkargs) : linkargs'[k] = linkargs[k]
    BY <1>1, <1>4, AppendProperties
  <2>2. SUFFICES ASSUME broke = {}, Linking
                 PROVE  Len(linkargs') = i' - 1 /\ \A k \in 1 .. i' - 1 : linkargs'[k] = LinkArg(k)
    BY <1>3, <1>4, SameNames
  <2>3. Len(linkargs) = i - 1 /\ \A k \in 1 .. i - 1 : linkargs[k] = LinkArg(k)
    BY <1>4, <2>2 DEF Listed
  <2>4. \A k \in 1 .. i' - 1 : k \in 1 .. i - 1 \/ k = i
    BY <1>1, <1>4
  <2> QED BY <1>1, <1>4, <2>1, <2>2, <2>3, <2>4
<1>5. CASE UNCHANGED vars \/ Done
  <2>1. UNCHANGED <<job, i, pc, tool, objfile, objtmp, linkargs, broke>>
    BY <1>5 DEF Done, vars, driver, world
  <2> QED BY <1>3, <2>1, SameNames DEF Listed, Building, IsTemp
<1>6. CASE BadOperand \/ Signal \/ SpawnFails \/ LinkDone \/ NoLink
  BY <1>6 DEF BadOperand, Signal, SpawnFails, LinkDone, NoLink, Leave, Listed, Building, IsTemp
<1>7. CASE AddLinkArg
  <2>1. /\ pc = "operand" /\ pc' = "operand" /\ i' = i + 1 /\ UNCHANGED <<job, broke, objtmp>>
        /\ linkargs' = Append(linkargs, ArgName) /\ i <= Len(job.chain)
        /\ operand.kind = "lib" \/ toolfor(operand.kind) = LD
    BY <1>7 DEF AddLinkArg
  <2>2. ArgName \in FileName
    BY <2>1, NameTypes
  <2>3. Linking => ArgName = LinkArg(i)
    <3>1. Linking => operand.kind \in {"lib", "o"}
      BY <2>1, PassedOn DEF Linking
    <3> QED BY <3>1 DEF LinkArg, operand, ArgName
  <2>4. broke' = {} /\ Linking' => Len(linkargs') = i' - 1 /\ \A k \in 1 .. i' - 1 : linkargs'[k] = LinkArg(k)'
    BY <1>4, <2>1, <2>2, <2>3
  <2> QED BY <2>1, <2>4 DEF Listed, Building, IsTemp
<1>8. CASE StartBuild
  <2>1. /\ pc = "operand" /\ pc' = "spawn" /\ tool' = toolfor(operand.kind)
        /\ toolfor(operand.kind) \in CC1 .. AS
        /\ UNCHANGED <<job, i, broke, objtmp, linkargs>>
    BY <1>8 DEF StartBuild
  <2>2. ~(AS < tool')
    BY <2>1 DEF CC1, AS
  <2> QED BY <1>3, <2>1, <2>2, SameNames DEF Listed, Building, IsTemp
<1>9. CASE Spawn
  <2>1. /\ pc = "spawn" /\ tool \in CC1 .. AS /\ tool' = nexttool(tool) /\ Building
        /\ objfile' = (IF tool = AS THEN ObjName ELSE objfile)
        /\ UNCHANGED <<job, pc, i, broke, objtmp, linkargs>>
    <3>1. pc = "spawn" /\ tool \in CC1 .. AS /\ Building
      BY <1>9, ToolFacts DEF Spawn, Shape, LAST_TOOL, Building
    <3> QED BY <1>9, <3>1 DEF Spawn, SpawnTool, SetNames
  <2>2. ASSUME Maker = AS, AS < tool', Product(i) # NoFile PROVE objfile' = Product(i)
    <3>1. OutName(AS) = Product(i) /\ (tool < AS => nexttool(tool) <= AS)
      BY <1>2, <2>1, <2>2, MakerFacts
    <3>2. ~(tool < AS)
      <4>1. nexttool(tool) \in Int
        BY <2>1, NextTool, ToolFacts DEF LAST_TOOL
      <4> QED BY <2>1, <2>2, <3>1, <4>1 DEF AS
    <3>3. tool = AS
      BY <2>1, <3>2 DEF AS, CC1
    <3> QED BY <2>1, <3>1, <3>3, OutNames
  <2> QED BY <1>3, <2>1, <2>2, SameNames DEF Listed, Building, IsTemp
<1>10. CASE AllSpawned
  <2>1. pc = "spawn" /\ pc' = "wait" /\ UNCHANGED <<job, i, tool, objfile, objtmp, linkargs, broke>>
    BY <1>10 DEF AllSpawned
  <2> QED BY <1>3, <2>1, SameNames DEF Listed, Building, IsTemp
<1>11. CASE Reap
  <2>1. UNCHANGED <<job, i, pc, tool, objfile, objtmp, linkargs, broke>>
    BY <1>11 DEF Reap
  <2> QED BY <1>3, <2>1, SameNames DEF Listed, Building, IsTemp
<1>12. CASE BuildOk
  <2>1. /\ pc = "wait" /\ pc' = "operand" /\ i' = i + 1 /\ tool = LAST_TOOL /\ Building
        /\ UNCHANGED <<job, broke>> /\ linkargs' = Append(linkargs, objfile)
        /\ objtmp' = IF ~Linking \/ fl.k THEN objtmp ELSE objtmp \cup {objfile}
    BY <1>12 DEF BuildOk, Shape, Building
  <2>2. ASSUME Linking PROVE objfile = LinkArg(i) /\ objfile = Product(i)
                             /\ (~fl.k => IsTemp(objfile))
    <3>1. /\ Maker = AS /\ Product(i) # NoFile /\ operand.kind \notin {"lib", "o"}
          /\ Product(i) = (IF fl.k THEN <<"o", operand.stem>> ELSE TempFile(i))
      BY <1>2, <2>1, <2>2, LinkProduct
    <3>2. objfile = Product(i)
      BY <2>1, <3>1 DEF Listed, AS, LAST_TOOL
    <3> QED BY <3>1, <3>2 DEF LinkArg, operand, IsTemp, TempFile
  <2>3. broke' = {} /\ Linking' => Len(linkargs') = i' - 1 /\ \A k \in 1 .. i' - 1 : linkargs'[k] = LinkArg(k)'
    BY <1>4, <2>1, <2>2 DEF Typed
  <2>4. \A n \in objtmp' : IsTemp(n)
    BY <2>1, <2>2 DEF Listed
  <2> QED BY <2>1, <2>3, <2>4 DEF Listed, Building, IsTemp
<1>13. CASE BuildFailed
  <2>1. broke' # {} /\ pc' = "operand" /\ objtmp' = objtmp
    BY <1>13 DEF BuildFailed, Counted
  <2> QED BY <2>1 DEF Listed, Building, IsTemp
<1>14. CASE StartLink
  <2>1. pc = "operand" /\ pc' = "link" /\ UNCHANGED <<job, i, objtmp, linkargs, broke>>
    BY <1>14 DEF StartLink
  <2> QED BY <1>3, <2>1, SameNames DEF Listed, Building, IsTemp
<1>15. CASE SpawnLd
  <2>1. pc = "link" /\ pc' = "linkwait" /\ UNCHANGED <<job, i, objtmp, linkargs, broke>>
    BY <1>15 DEF SpawnLd
  <2> QED BY <1>3, <2>1, SameNames DEF Listed, Building, IsTemp
<1>16. ASSUME NEW t \in Tool, ToolStep(t) PROVE Listed'
  <2>1. /\ UNCHANGED <<job, pc, i, tool, objfile, objtmp, linkargs>>
        /\ broke' = (IF proc'[t] = "bad" THEN broke \cup {i} ELSE broke)
    BY <1>16, ToolStepFacts
  <2>2. broke' = {} => broke = {}
    BY <2>1
  <2> QED BY <1>3, <2>1, <2>2, SameNames DEF Listed, Building, IsTemp
<1> QED BY <1>5, <1>6, <1>7, <1>8, <1>9, <1>10, <1>11, <1>12, <1>13, <1>14, <1>15, <1>16 DEF Next, Driver

-----------------------------------------------------------------------------
(* What holds for every command line.                                      *)

LEMMA InitLinkInv == Init => LinkInv
<1> SUFFICES ASSUME Init PROVE LinkInv
  OBVIOUS
<1>1. /\ job \in Jobs /\ job.chain \in Seq(Range(job.chain)) /\ Len(job.chain) \in Nat
  BY JobType, LenProperties DEF Init
<1>2. NoFile \in FileName
  BY DEF NoFile, FileName
<1>3. Typed
  <2>0. pc = "operand" /\ i = 1 /\ failure = FALSE
    BY DEF Init
  <2>1. i \in 1 .. Len(job.chain) + 1
    BY <1>1, <2>0
  <2>2. tool \in Tool \cup {LAST_TOOL} /\ failed \in Tool \cup {LAST_TOOL}
    BY DEF Init
  <2>3. pid \subseteq Tool /\ DOMAIN out = Tool /\ DOMAIN proc = Tool
    BY DEF Init
  <2>4. objfile \in FileName /\ linkargs \in Seq(FileName)
    BY <1>2 DEF Init
  <2> QED BY <1>1, <2>0, <2>1, <2>2, <2>3, <2>4 DEF Typed
<1>4. Shape
  BY <1>1 DEF Init, Shape, Building, Returned
<1>5. Named
  BY ToolFacts, OutNames DEF Init, Named
<1>6. Counted
  BY ToolFacts DEF Init, Counted, Returned, LAST_TOOL
<1>7. Delivered
  BY DEF Init, Delivered, Building
<1>8. Listed
  BY DEF Init, Listed, Building
<1> QED BY <1>3, <1>4, <1>5, <1>6, <1>7, <1>8 DEF LinkInv

\* LinkInv is an invariant of the driver.
LEMMA AlwaysLinkInv == Spec => []LinkInv
<1>1. LinkInv /\ [Next]_vars => LinkInv'
  BY StepTyped, StepShape, StepNamed, StepCounted, StepDelivered, StepListed DEF LinkInv
<1> QED BY <1>1, InitLinkInv, PTL DEF Spec

(***************************************************************************)
(* However long the command line, between two operands, before the link    *)
(* and when main() returns, the driver holds no pipe end and has no child  *)
(* left to wait for: settool() and spawn() close what they open, and       *)
(* validatetools() waits for every tool that was started (cc.c).           *)
(***************************************************************************)
THEOREM DriverTidy == Spec => []Tidy
<1>1. LinkInv => Tidy
  <2> SUFFICES ASSUME LinkInv PROVE Tidy
    OBVIOUS
  <2>1. Shape
    BY DEF LinkInv
  <2>2. pc \in {"operand", "link"} => \A t \in Tool : proc[t] = "none"
    BY <2>1 DEF Shape
  <2> QED BY <2>1, <2>2 DEF Shape, Tidy
<1> QED BY <1>1, AlwaysLinkInv, PTL

(***************************************************************************)
(* While the linker runs, no tool has failed, every operand has its        *)
(* argument on the linker's command line at its own place, and the objects *)
(* that build() made (cc.c) exist.                                         *)
(***************************************************************************)
THEOREM LinkIsComplete == Spec => []LinkComplete
<1>1. LinkInv => LinkComplete
  <2> SUFFICES ASSUME LinkInv, proc[LD] = "run", pc # "exited" PROVE LinkComplete
    BY DEF LinkComplete
  <2>1. Typed /\ Shape /\ Counted /\ Delivered /\ Listed
    BY DEF LinkInv
  <2>2. LD \in Tool /\ LD \notin CC1 .. AS /\ LD \in pid
    BY <2>1, ToolFacts DEF Shape
  <2>3. pc = "linkwait"
    <3>1. pc # "wait" /\ pc # "operand" /\ pc # "link"
      BY <2>1, <2>2 DEF Shape
    <3>2. pc # "spawn"
      BY <2>1, <2>2 DEF Shape, LD, AS
    <3> QED BY <2>1, <3>1, <3>2 DEF Typed
  <2>4. broke = {} /\ i = Len(job.chain) + 1 /\ Linking /\ Len(job.chain) \in Nat
    BY <2>1, <2>3, JobFacts DEF Counted, Shape
  <2>5. Len(linkargs) = Len(job.chain) /\ \A k \in 1 .. Len(job.chain) : linkargs[k] = LinkArg(k)
    BY <2>1, <2>3, <2>4 DEF Listed
  <2>6. \A k \in 1 .. Len(job.chain) : Product(k) \in files \cup {NoFile}
    BY <2>1, <2>3, <2>4 DEF Delivered
  <2>7. Objects \subseteq files
    <3> SUFFICES ASSUME NEW n \in Objects PROVE n \in files
      OBVIOUS
    <3>1. n \in Range(linkargs) /\ n[1] \in {"o", "tmp"}
      BY DEF Objects
    <3>2. PICK k \in 1 .. Len(job.chain) : n = linkargs[k]
      BY <2>1, <2>5, <3>1, LenProperties DEF Range, Typed
    <3>3. n = LinkArg(k)
      BY <2>5, <3>2
    <3>4. <<"arg", job.chain[k].stem>>[1] = "arg" /\ NoFile[1] = "none"
      BY DEF NoFile
    <3>5. n = Product(k) /\ n # NoFile
      BY <3>1, <3>3, <3>4 DEF LinkArg
    <3> QED BY <2>6, <3>5
  <2> QED BY <2>4, <2>5, <2>7 DEF LinkComplete, LinkArg
<1> QED BY <1>1, AlwaysLinkInv, PTL

-----------------------------------------------------------------------------
(* The temporary objects.                                                  *)

LEMMA StepRoute == ASSUME Typed, Shape, Route, [Next]_vars PROVE Route'
<1>1. /\ {fl.M, fl.E, fl.S, fl.c, fl.k, fl.o, fl.Q} \subseteq BOOLEAN
      /\ ~(fl.E /\ fl.M) /\ ~((fl.E \/ fl.M) /\ (fl.S \/ fl.k))
  BY JobFacts
<1>2. CASE StartBuild
  <2>1. /\ pc' = "spawn" /\ tool' = toolfor(operand.kind) /\ UNCHANGED <<job, i>>
        /\ toolfor(operand.kind) \in CC1 .. AS
    BY <1>2 DEF StartBuild
  <2>2. /\ fl.E => toolfor(operand.kind) = CC1
        /\ fl.M /\ operand.kind = "c" => toolfor(operand.kind) = CC1
        /\ fl.S /\ operand.kind # "s" => toolfor(operand.kind) # AS
    BY <1>1, <2>1, Kinds DEF CC1, CC2, QBE, AS
  <2> QED BY <2>1, <2>2, SameNames DEF Route
<1>3. CASE Spawn
  <2>1. pc = "spawn" /\ tool \in CC1 .. AS /\ tool # LAST_TOOL /\ tool' = nexttool(tool) /\ UNCHANGED <<job, pc, i>>
    BY <1>3, ToolFacts DEF Spawn, Shape, LAST_TOOL
  <2>2. /\ fl.E => tool \in {CC1, TEEIR}
        /\ fl.M /\ operand.kind = "c" => tool = CC1
        /\ fl.S /\ operand.kind # "s" => tool # AS
    BY <2>1 DEF Route
  <2>3. ASSUME fl.E PROVE nexttool(tool) \in {TEEIR, LAST_TOOL}
    <3>1. CASE tool = 0
      BY <2>3, <3>1 DEF nexttool, CC1, TEEIR, CC2, TEEQBE, QBE, TEEAS, AS, LD, LAST_TOOL
    <3>2. CASE tool = 1
      BY <2>3, <3>2 DEF nexttool, CC1, TEEIR, CC2, TEEQBE, QBE, TEEAS, AS, LD, LAST_TOOL
    <3> QED BY <2>2, <2>3, <3>1, <3>2 DEF CC1, TEEIR
  <2>4. ASSUME fl.M, operand.kind = "c" PROVE nexttool(tool) = LAST_TOOL
    <3>1. tool = 0 /\ ~fl.E
      BY <1>1, <2>2, <2>4 DEF CC1
    <3> QED BY <2>4, <3>1 DEF nexttool, CC1, TEEIR, CC2, TEEQBE, QBE, TEEAS, AS, LD, LAST_TOOL
  <2>5. ASSUME fl.S, operand.kind # "s" PROVE nexttool(tool) # AS
    <3>1. tool \in {0, 1, 2, 3, 4, 5}
      BY <2>1, <2>2, <2>5, ToolFacts DEF AS
    <3>2. CASE tool \in {0, 1, 2}
      BY <1>1, <2>5, <3>2 DEF nexttool, CC1, TEEIR, CC2, TEEQBE, QBE, TEEAS, AS, LD, LAST_TOOL
    <3>3. CASE tool \in {3, 4, 5}
      BY <1>1, <2>5, <3>3 DEF nexttool, CC1, TEEIR, CC2, TEEQBE, QBE, TEEAS, AS, LD, LAST_TOOL
    <3> QED BY <3>1, <3>2, <3>3
  <2> QED BY <2>1, <2>3, <2>4, <2>5, SameNames DEF Route
<1>4. CASE AddLinkArg \/ BadOperand \/ Signal \/ LinkDone \/ NoLink \/ BuildOk \/ BuildFailed
           \/ StartLink \/ SpawnLd \/ SpawnFails \/ AllSpawned \/ Reap
  <2>1. pc' # "spawn"
    BY <1>4 DEF AddLinkArg, BadOperand, Signal, LinkDone, NoLink, BuildOk, BuildFailed, StartLink,
                SpawnLd, SpawnFails, AllSpawned, Reap, Leave
  <2> QED BY <2>1 DEF Route
<1>5. ASSUME UNCHANGED <<job, pc, i, tool>> PROVE Route'
  BY <1>5, SameNames DEF Route
<1>6. ASSUME NEW t \in Tool, ToolStep(t) PROVE Route'
  BY <1>5, <1>6, ToolStepFacts
<1>7. CASE UNCHANGED vars \/ Done
  BY <1>5, <1>7 DEF Done, vars, driver
<1> QED BY <1>2, <1>3, <1>4, <1>6, <1>7 DEF Next, Driver

\* Only an object that will be linked is a temporary.
LEMMA TempObject ==
    ASSUME NoStray, Typed, Shape, Route, pc = "spawn", tool = AS, IsTemp(ObjName)
    PROVE  Linking /\ ~fl.k
<1>1. i \in 1 .. Len(job.chain) /\ job \in Jobs
  BY JobFacts DEF Shape, Building, Typed
<1>2. ~fl.c /\ ~fl.k
  BY DEF ObjName, IsTemp, OutFile
<1>3. ~fl.E /\ ~(fl.M /\ operand.kind = "c") /\ ~(fl.S /\ operand.kind # "s")
  BY DEF Route, AS, CC1, TEEIR, LAST_TOOL
<1>4. /\ fl.S => operand.kind # "s"
      /\ fl.M => operand.kind \notin {"ir", "qbe", "s"}
  BY <1>1, <1>2 DEF NoStray, fl, operand
<1>5. operand.kind \in {"c", "ir", "qbe", "s"}
  <2>1. toolfor(operand.kind) \in CC1 .. AS
    BY DEF Shape, Building
  <2> QED BY <1>3, <2>1, Kinds
<1> QED BY <1>2, <1>3, <1>4, <1>5 DEF Linking

\* What terminate() leaves of files whose temporaries are listed.
LEMMA AfterLeave ==
    ASSUME NEW fs, NEW how, NEW rest, Leave(how, fs), job' = job,
           \A n \in fs : IsTemp(n) => n \in objtmp \cup rest /\ Linking /\ ~fl.k
    PROVE  /\ pc' = "exited" /\ bye' = how
           /\ \A n \in files' : IsTemp(n) => n \in rest /\ Linking' /\ ~fl'.k
<1>1. fl' = fl /\ Linking' = Linking
  BY SameNames
<1>2. pc' = "exited" /\ bye' = how /\ files' = IF fl.k THEN fs ELSE fs \ objtmp
  BY DEF Leave, terminate
<1> QED BY <1>1, <1>2

LEMMA StepListing ==
    ASSUME NoStray, Typed, Shape, Named, Listed, Route, Listing, TempsGone, [Next]_vars
    PROVE  Listing' /\ TempsGone'
<1> DEFINE Late == IF Building /\ tool = LAST_TOOL THEN {objfile} ELSE {}
           Rest == IF bye = "return" THEN {} ELSE {objfile}
           Goal == /\ IsTemp(objfile') => Linking' /\ ~fl'.k
                   /\ \A n \in files' : IsTemp(n) => Linking' /\ ~fl'.k
                   /\ pc' # "exited" => \A n \in files' : IsTemp(n) => n \in objtmp' \cup Late'
                   /\ pc' = "exited" => \A n \in files' : IsTemp(n) => n \in Rest'
<1>1. /\ \A n \in files : IsTemp(n) => Linking /\ ~fl.k
      /\ IsTemp(objfile) => Linking /\ ~fl.k
      /\ pc # "exited" => \A n \in files : IsTemp(n) => n \in objtmp \cup Late
      /\ pc = "exited" => \A n \in files : IsTemp(n) => n \in Rest
  BY DEF Listing, TempsGone, Temps
<1>2. SUFFICES Goal
  <2>1. /\ \A n \in Temps' : n \in files' /\ IsTemp(n)
        /\ \A n \in {m \in files' : IsTemp(m)} : n \in files' /\ IsTemp(n)
    BY DEF Temps, IsTemp
  <2>2. Listing'
    BY <1>2, <2>1 DEF Listing, IsTemp
  <2>3. TempsGone'
    BY <1>2, <2>1 DEF TempsGone, IsTemp
  <2> QED BY <2>2, <2>3
<1>3. ASSUME job' = job PROVE Linking' = Linking /\ fl' = fl
  BY <1>3, SameNames
<1>4. ASSUME UNCHANGED <<job, pc, bye, tool, objfile, objtmp, files>>
      PROVE  Goal
  BY <1>1, <1>3, <1>4 DEF Building
<1>5. ASSUME job' = job, objfile' = objfile, objtmp' = objtmp, files' \subseteq files,
             pc # "exited", pc' # "exited", Late \subseteq Late' \/ files' \cap Late = {}
      PROVE  Goal
  BY <1>1, <1>3, <1>5
<1>6. ASSUME NEW how, NEW fs, Leave(how, fs), fs \subseteq files, UNCHANGED <<job, objfile>>,
             pc # "exited", how = "return" => Late = {}
      PROVE  Goal
  <2>1. \A n \in fs : IsTemp(n) => n \in objtmp \cup Late /\ Linking /\ ~fl.k
    BY <1>1, <1>6
  <2>2. /\ pc' = "exited" /\ bye' = how
        /\ \A n \in files' : IsTemp(n) => n \in Late /\ Linking' /\ ~fl'.k
    BY <1>6, <2>1, AfterLeave
  <2>3. Late \subseteq Rest'
    BY <1>6, <2>2
  <2> QED BY <1>1, <1>3, <1>6, <2>2, <2>3
<1>7. CASE UNCHANGED vars \/ Done
  BY <1>4, <1>7 DEF Done, vars, driver
<1>8. CASE BadOperand \/ Signal
  <2>1. PICK how \in {"die", "signal"} : Leave(how, files)
    BY <1>8 DEF BadOperand, Signal
  <2>2. UNCHANGED <<job, objfile>> /\ pc # "exited"
    BY <1>8 DEF BadOperand, Signal
  <2> QED BY <1>6, <2>1, <2>2
<1>9. CASE LinkDone \/ NoLink
  <2>1. PICK fs \in SUBSET files : Leave("return", fs)
    BY <1>9 DEF LinkDone, NoLink
  <2>2. UNCHANGED <<job, objfile>> /\ pc # "exited" /\ ~Building
    BY <1>9 DEF LinkDone, NoLink, Building
  <2> QED BY <1>6, <2>1, <2>2
<1>10. CASE AddLinkArg \/ StartBuild \/ StartLink
  <2>1. UNCHANGED <<job, objfile, objtmp, files>> /\ pc = "operand" /\ pc' # "exited" /\ ~Building
    BY <1>10 DEF AddLinkArg, StartBuild, StartLink, Building
  <2> QED BY <1>5, <2>1
<1>11. CASE AllSpawned
  <2>1. UNCHANGED <<job, objfile, objtmp, files, tool>> /\ pc = "spawn" /\ pc' = "wait"
    BY <1>11 DEF AllSpawned
  <2>2. Building /\ Building'
    BY <2>1 DEF Building
  <2> QED BY <1>5, <2>1, <2>2
<1>12. CASE Reap
  <2>1. UNCHANGED <<job, objfile, objtmp, pc, tool>> /\ files' \subseteq files /\ pc # "exited"
    BY <1>12 DEF Reap
  <2>2. Building' = Building
    BY <2>1 DEF Building
  <2> QED BY <1>5, <2>1, <2>2
<1>13. CASE BuildFailed
  <2>1. UNCHANGED <<job, objfile, objtmp>> /\ files' = files \ {objfile} /\ pc = "wait" /\ pc' = "operand"
    BY <1>13 DEF BuildFailed
  <2> QED BY <1>5, <2>1
<1>14. CASE BuildOk
  <2>1. /\ UNCHANGED <<job, objfile, files>> /\ pc = "wait" /\ pc' = "operand" 
        /\ objtmp' = IF ~Linking \/ fl.k THEN objtmp ELSE objtmp \cup {objfile}
    BY <1>14 DEF BuildOk
  <2> QED BY <1>1, <1>3, <2>1
<1>15. CASE SpawnLd
  <2>1. /\ UNCHANGED <<job, objtmp>> /\ pc = "link" /\ pc' = "linkwait" /\ SpawnTool(LD, LAST_TOOL)
    BY <1>15 DEF SpawnLd
  <2>2. Created(LD) = {} /\ LD # AS
    BY DEF Created, LD, AS
  <2>3. objfile' = objfile /\ files' = files
    BY <2>1, <2>2 DEF SpawnTool, SetNames
  <2>4. ~Building
    BY <2>1 DEF Building
  <2> QED BY <1>5, <2>1, <2>3, <2>4
<1>16. CASE Spawn
  <2>1. /\ UNCHANGED <<job, pc, i, objtmp>> /\ pc = "spawn" /\ SpawnTool(tool, nexttool(tool))
        /\ tool < LAST_TOOL /\ tool' = nexttool(tool)
    BY <1>16 DEF Spawn
  <2>2. files' = files \cup Created(tool) /\ objfile' = (IF tool = AS THEN ObjName ELSE objfile) /\ Late = {}
    BY <2>1 DEF SpawnTool, SetNames, LAST_TOOL
  <2>3. CASE Created(tool) = {} /\ tool # AS
    BY <1>1, <1>3, <2>1, <2>2, <2>3
  <2>4. CASE tool = AS
    <3>1. tool' = LAST_TOOL
      BY <2>1, <2>4 DEF nexttool, CC1, TEEIR, CC2, TEEQBE, QBE, TEEAS, AS, LAST_TOOL
    <3>2. Late' = {ObjName} /\ objfile' = ObjName
      BY <2>1, <2>2, <2>4, <3>1 DEF Building
    <3>3. Created(tool) \subseteq {ObjName}
      BY DEF Created
    <3>4. IsTemp(ObjName) => Linking /\ ~fl.k
      BY <2>1, <2>4, TempObject
    <3> HIDE DEF Late
    <3> QED BY <1>1, <1>3, <2>1, <2>2, <3>2, <3>3, <3>4
  <2> QED BY <2>3, <2>4, OutNames
<1>17. CASE SpawnFails
  <2>1. /\ job' = job /\ pc \in {"spawn", "link"} /\ tool < LAST_TOOL /\ UNCHANGED objtmp
        /\ \/ SetNames(tool) /\ Leave("die", files \cup Created(tool))
           \/ objfile' = NoFile /\ Leave("die", files)
    BY <1>17 DEF SpawnFails
  <2>2. Late = {}
    BY <2>1 DEF LAST_TOOL
  <2>3. CASE objfile' = NoFile /\ Leave("die", files)
    <3>1. \A n \in files : IsTemp(n) => n \in objtmp \cup Late /\ Linking /\ ~fl.k
      BY <1>1, <2>1
    <3>2. /\ pc' = "exited" /\ bye' = "die"
          /\ \A n \in files' : IsTemp(n) => n \in Late /\ Linking' /\ ~fl'.k
      BY <2>1, <2>3, <3>1, AfterLeave
    <3> QED BY <2>2, <2>3, <3>2, OutNames
  <2>4. CASE SetNames(tool) /\ Leave("die", files \cup Created(tool)) /\ tool # AS
    <3>1. objfile' = objfile /\ Created(tool) = {}
      BY <2>4, OutNames DEF SetNames
    <3>2. files \cup Created(tool) = files
      BY <3>1
    <3> QED BY <1>6, <2>1, <2>2, <2>4, <3>1, <3>2
  <2>5. CASE SetNames(tool) /\ Leave("die", files \cup Created(tool)) /\ tool = AS
    <3>1. objfile' = ObjName /\ Created(tool) \subseteq {ObjName}
      BY <2>5 DEF SetNames, Created
    <3>2. pc = "spawn"
      BY <2>1, <2>5 DEF Shape, AS, LD
    <3>3. IsTemp(ObjName) => Linking /\ ~fl.k
      BY <2>5, <3>2, TempObject
    <3>4. \A n \in files \cup Created(tool) : IsTemp(n) => n \in objtmp \cup {ObjName} /\ Linking /\ ~fl.k
      BY <1>1, <2>1, <2>2, <3>1, <3>3
    <3>5. /\ pc' = "exited" /\ bye' = "die"
          /\ \A n \in files' : IsTemp(n) => n \in {ObjName} /\ Linking' /\ ~fl'.k
      BY <2>1, <2>5, <3>4, AfterLeave
    <3>6. IsTemp(objfile') => Linking' /\ ~fl'.k
      BY <1>3, <2>1, <3>1, <3>3
    <3>7. Rest' = {ObjName}
      BY <3>1, <3>5
    <3> QED BY <3>5, <3>6, <3>7
  <2> QED BY <2>1, <2>3, <2>4, <2>5
<1>18. ASSUME NEW t \in Tool, ToolStep(t) PROVE Goal
  <2>1. /\ UNCHANGED <<job, pc, bye, tool, objfile, objtmp>>
        /\ proc[t] = "run" /\ files' \subseteq files \cup Written(t)
    BY <1>18, ToolStepFacts
  <2>2. Written(t) \subseteq {out[t]} /\ (IsTemp(out[t]) => t = AS /\ out[t] = objfile)
    BY <2>1 DEF Written, Named
  <2>3. pc = "exited" => Rest = {objfile}
    <3>1. ~Returned
      BY <1>18, <2>1 DEF Shape
    <3> QED BY <3>1 DEF Returned
  <2>4. pc # "exited" /\ t = AS => Late = {objfile}
    <3> SUFFICES ASSUME pc # "exited", t = AS PROVE Building /\ tool = LAST_TOOL
      OBVIOUS
    <3>1. AS \in pid
      BY <2>1 DEF Shape
    <3>2. pc \in {"spawn", "wait"}
      BY <3>1 DEF Shape, Typed, AS, LD
    <3>3. pc = "spawn" => tool = LAST_TOOL
      BY <3>1 DEF Shape, AS, CC1
    <3> QED BY <3>2, <3>3 DEF Shape, Building
  <2>5. Late' = Late /\ Rest' = Rest
    BY <2>1 DEF Building
  <2>6. \A n \in files' : IsTemp(n) => n \in files \/ (n = objfile /\ t = AS)
    BY <2>1, <2>2
  <2> HIDE DEF Late, Rest
  <2> QED BY <1>1, <1>3, <2>1, <2>3, <2>4, <2>5, <2>6
<1> QED BY <1>7, <1>8, <1>9, <1>10, <1>11, <1>12, <1>13, <1>14, <1>15, <1>16, <1>17, <1>18 DEF Next, Driver

(***************************************************************************)
(* Without -k no temporary object is left when main() returns, and a       *)
(* driver that a signal or a failing system call stops leaves at most the  *)
(* object of the operand it was building: what mkstemp() made for the      *)
(* operands before is in objtmp, which terminate() unlinks (cc.c).  The    *)
(* command line must not send an operand to the assembler under -S or -M.  *)
(***************************************************************************)
THEOREM TempsRemoved == ASSUME NoStray PROVE Spec => []TempsGone
<1> DEFINE I == LinkInv /\ Route /\ Listing /\ TempsGone
<1>1. Init => I
  <2> SUFFICES ASSUME Init PROVE Route /\ Listing /\ TempsGone
    BY InitLinkInv
  <2>1. pc = "operand" /\ files = {} /\ objfile = NoFile
    BY DEF Init
  <2> QED BY <2>1, OutNames DEF Route, Listing, Temps, TempsGone
<1>2. I /\ [Next]_vars => I'
  <2> SUFFICES ASSUME I, [Next]_vars PROVE I'
    OBVIOUS
  <2>1. LinkInv'
    BY StepTyped, StepShape, StepNamed, StepCounted, StepDelivered, StepListed DEF LinkInv
  <2>2. Route' /\ Listing' /\ TempsGone'
    BY StepRoute, StepListing DEF LinkInv
  <2> QED BY <2>1, <2>2
<1> QED BY <1>1, <1>2, PTL DEF Spec

-----------------------------------------------------------------------------
(* The exit status.                                                        *)

LEMMA StepFinal == ASSUME Typed, Shape, Final, [Next]_vars PROVE Final'
<1>1. pid \subseteq Tool /\ \A t \in Tool : t \in Int /\ t < LAST_TOOL
  BY ToolFacts DEF Typed
<1>2. ASSUME Building
      PROVE  /\ i <= Len(job.chain) /\ operand.kind # "lib" /\ toolfor(operand.kind) \in CC1 .. AS
             /\ toolfor(operand.kind) <= tool
  BY <1>2 DEF Shape
<1>3. CASE StartBuild
  <2>1. /\ pc' = "spawn" /\ tool' = toolfor(operand.kind) /\ i <= Len(job.chain)
        /\ operand.kind # "lib" /\ toolfor(operand.kind) \in CC1 .. AS /\ UNCHANGED <<job, i>>
    BY <1>3 DEF StartBuild
  <2>2. Product(i) # NoFile => tool' <= Maker
    BY <2>1, MakerFacts
  <2>3. tool' # LAST_TOOL
    BY <2>1, ToolFacts
  <2> QED BY <2>1, <2>2, <2>3, SameNames DEF Final
<1>4. CASE Spawn
  <2>1. /\ pc = "spawn" /\ tool \in CC1 .. AS /\ tool \in Tool /\ tool' = nexttool(tool) /\ Building
        /\ UNCHANGED <<job, pc, i>> /\ pid' = pid \cup {tool} /\ tool # LAST_TOOL
    <3>1. pc = "spawn" /\ tool \in CC1 .. AS /\ tool \in Tool /\ Building /\ tool # LAST_TOOL
      BY <1>4, ToolFacts DEF Spawn, Shape, LAST_TOOL, Building
    <3> QED BY <1>4, <3>1 DEF Spawn, SpawnTool
  <2>2. SUFFICES ASSUME Product(i) # NoFile
                 PROVE  /\ tool' # LAST_TOOL => tool' <= Maker
                        /\ tool' = LAST_TOOL => (\A t \in pid' : t <= Maker) /\ Maker \in pid'
    BY <2>1, SameNames DEF Final, Building
  <2>3. /\ Maker \in Tool /\ nexttool(Maker) = LAST_TOOL
        /\ tool < Maker => nexttool(tool) <= Maker
    BY <1>2, <2>1, <2>2, MakerFacts
  <2>4. tool <= Maker /\ \A t \in pid : t < tool
    BY <2>1, <2>2 DEF Final, Shape
  <2>5. CASE tool = Maker
    <3>1. \A t \in pid' : t <= Maker
      BY <1>1, <2>1, <2>3, <2>4, <2>5
    <3> QED BY <2>1, <2>3, <2>5, <3>1
  <2>6. CASE tool < Maker
    <3>1. Maker < LAST_TOOL /\ Maker \in Int
      BY <1>1, <2>3
    <3>2. tool' # LAST_TOOL /\ tool' <= Maker
      BY <2>1, <2>3, <2>6, <3>1 DEF LAST_TOOL
    <3> QED BY <3>2
  <2> QED BY <1>1, <2>1, <2>3, <2>4, <2>5, <2>6
<1>5. CASE AllSpawned
  <2>1. pc = "spawn" /\ pc' = "wait" /\ UNCHANGED <<job, i, tool, pid>>
    BY <1>5 DEF AllSpawned
  <2> QED BY <2>1, SameNames DEF Final, Building
<1>6. CASE Reap
  <2> DEFINE u == Min(pid)
  <2>1. /\ u \in pid /\ (\A t \in pid : u <= t) /\ pid' = pid \ {u}
        /\ pc \in {"wait", "linkwait"} /\ UNCHANGED <<job, pc, i, tool>>
    BY <1>6, ReapFacts
  <2> HIDE DEF u
  <2>2. SUFFICES ASSUME Building, Product(i) # NoFile, tool = LAST_TOOL, pc = "wait"
                 PROVE  (\A t \in pid' : t <= Maker) /\ (pid' # {} => Maker \in pid')
    BY <2>1, SameNames DEF Final, Building, Shape
  <2>3. (\A t \in pid : t <= Maker) /\ Maker \in pid
    BY <2>1, <2>2 DEF Final
  <2>4. ASSUME u = Maker PROVE pid' = {}
    BY <1>1, <2>1, <2>3, <2>4
  <2> QED BY <2>1, <2>3, <2>4
<1>7. CASE AddLinkArg \/ BadOperand \/ Signal \/ LinkDone \/ NoLink \/ BuildOk \/ BuildFailed
           \/ StartLink \/ SpawnLd \/ SpawnFails
  <2>1. pc' \notin {"spawn", "wait"}
    BY <1>7 DEF AddLinkArg, BadOperand, Signal, LinkDone, NoLink, BuildOk, BuildFailed, StartLink,
                SpawnLd, SpawnFails, Leave
  <2> QED BY <2>1 DEF Final, Building
<1>8. ASSUME UNCHANGED <<job, pc, i, tool, pid>> PROVE Final'
  BY <1>8, SameNames DEF Final, Building
<1>9. ASSUME NEW t \in Tool, ToolStep(t) PROVE Final'
  BY <1>8, <1>9, ToolStepFacts
<1>10. CASE UNCHANGED vars \/ Done
  BY <1>8, <1>10 DEF Done, vars, driver
<1> QED BY <1>3, <1>4, <1>5, <1>6, <1>7, <1>9, <1>10 DEF Next, Driver

LEMMA StepLastFailed == ASSUME Typed, Shape, LastFailed, [Next]_vars PROVE LastFailed'
<1>1. pid \subseteq Tool /\ (\A t \in Tool : t \in Int /\ t < LAST_TOOL) /\ ~(LAST_TOOL < LAST_TOOL)
  BY ToolFacts DEF Typed, LAST_TOOL
<1>2. CASE StartBuild \/ StartLink
  <2>1. pc' \in {"spawn", "link"} /\ failed' = LAST_TOOL
    BY <1>2 DEF StartBuild, StartLink
  <2> QED BY <1>1, <2>1 DEF LastFailed
<1>3. CASE Spawn
  <2>1. pc = "spawn" /\ UNCHANGED <<pc, failed>>
    BY <1>3 DEF Spawn
  <2> QED BY <2>1 DEF LastFailed, Building
<1>4. CASE AllSpawned
  <2>1. pc = "spawn" /\ pc' = "wait" /\ UNCHANGED failed
    BY <1>4 DEF AllSpawned
  <2> QED BY <2>1 DEF LastFailed, Building
<1>5. CASE Reap
  <2> DEFINE u == Min(pid)
  <2>1. /\ u \in pid /\ (\A t \in pid : u <= t) /\ pid' = pid \ {u}
        /\ failed' = (IF proc[u] = "bad" THEN u ELSE failed)
        /\ pc \in {"wait", "linkwait"} /\ UNCHANGED <<pc, i>>
    BY <1>5, ReapFacts
  <2> HIDE DEF u
  <2>2. CASE pc = "linkwait"
    <3>1. pid' = {}
      BY <2>1, <2>2 DEF Shape
    <3> QED BY <2>1, <2>2, <3>1 DEF LastFailed, Building
  <2>3. CASE pc = "wait"
    <3>1. \A t \in pid' : u < t
      BY <1>1, <2>1
    <3>2. failed < LAST_TOOL => \A t \in pid : failed < t
      BY <2>3 DEF LastFailed, Building
    <3> QED BY <1>1, <2>1, <2>3, <3>1, <3>2 DEF LastFailed, Building
  <2> QED BY <2>1, <2>2, <2>3
<1>6. CASE SpawnLd
  <2>1. pc = "link" /\ pc' = "linkwait" /\ UNCHANGED failed
    BY <1>6 DEF SpawnLd
  <2> QED BY <2>1 DEF LastFailed, Building
<1>7. CASE AddLinkArg \/ BadOperand \/ Signal \/ LinkDone \/ NoLink \/ BuildOk \/ BuildFailed \/ SpawnFails
  <2>1. pc' \in {"operand", "exited"}
    BY <1>7 DEF AddLinkArg, BadOperand, Signal, LinkDone, NoLink, BuildOk, BuildFailed, SpawnFails, Leave
  <2> QED BY <2>1 DEF LastFailed, Building
<1>8. ASSUME UNCHANGED <<pc, failed, pid>> PROVE LastFailed'
  BY <1>8 DEF LastFailed, Building
<1>9. ASSUME NEW t \in Tool, ToolStep(t) PROVE LastFailed'
  BY <1>8, <1>9, ToolStepFacts
<1>10. CASE UNCHANGED vars \/ Done
  BY <1>8, <1>10 DEF Done, vars, driver
<1> QED BY <1>2, <1>3, <1>4, <1>5, <1>6, <1>7, <1>9, <1>10 DEF Next, Driver

\* A tool never writes the product of another operand.
LEMMA NamesApart ==
    ASSUME SeparateFiles, Typed, i <= Len(job.chain), operand.kind # "lib",
           NEW t \in CC1 .. AS, NEW k \in 1 .. Len(job.chain), k # i, OutName(t) # NoFile
    PROVE  OutName(t) # Product(k)
<1>1. /\ i \in 1 .. Len(job.chain) /\ job \in Jobs /\ Len(job.chain) \in Nat
      /\ ~(Len(job.chain) > 1 /\ fl.c /\ fl.o)
  BY JobFacts DEF Typed
<1>2. Len(job.chain) > 1
  BY <1>1
<1>3. ~(fl.c /\ fl.o) /\ ~(fl.E /\ fl.o)
  BY <1>1, <1>2 DEF SeparateFiles, fl
<1>4. job.chain[k].kind # "lib" => job.chain[k].stem # operand.stem
  BY <1>1 DEF SeparateFiles, operand
<1>5. OutName(t) \in {<<"ir", operand.stem>>, <<"qbe", operand.stem>>, <<"s", operand.stem>>,
                      <<"o", operand.stem>>, TempFile(i)}
  <2>1. t # LD
    BY ToolFacts
  <2>2. ObjName \in {<<"o", operand.stem>>, TempFile(i)}
    BY <1>3 DEF ObjName
  <2> QED BY <1>3, <2>1, <2>2 DEF OutName, TEEIR, TEEQBE, TEEAS, AS
<1>6. CASE job.chain[k].kind = "lib"
  <2>1. Product(k) = NoFile
    BY <1>1, <1>6 DEF Product
  <2> QED BY <2>1
<1>7. CASE job.chain[k].kind # "lib"
  <2>1. ~(k > Len(job.chain))
    BY <1>1
  <2>2. Product(k) \in {NoFile, <<"s", job.chain[k].stem>>, <<"o", job.chain[k].stem>>, TempFile(k)}
    BY <1>3, <2>1 DEF Product
  <2> QED BY <1>4, <1>5, <1>7, <2>2 DEF NoFile, TempFile
<1> QED BY <1>6, <1>7

LEMMA StepCleaned ==
    ASSUME SeparateFiles, Typed, Shape, Named, Counted, Final, LastFailed, Cleaned, [Next]_vars
    PROVE  Cleaned'
<1>1. /\ pid \subseteq Tool /\ (\A t \in Tool : t \in Int /\ t < LAST_TOOL) /\ ~(LAST_TOOL < LAST_TOOL)
      /\ Len(job.chain) \in Nat /\ i \in Nat /\ 1 <= i /\ DOMAIN proc = Tool
  BY ToolFacts, JobFacts DEF Typed, LAST_TOOL
<1>2. ASSUME job' = job PROVE \A k : Product(k)' = Product(k)
  BY <1>2, SameNames
<1>3. ASSUME NEW how, NEW fs, Leave(how, fs), NoFile \notin fs PROVE Cleaned'
  BY <1>3 DEF Leave, terminate, Cleaned
<1>4. CASE BadOperand \/ Signal \/ LinkDone \/ NoLink
  <2>1. PICK how, fs : Leave(how, fs) /\ fs \subseteq files
    BY <1>4 DEF BadOperand, Signal, LinkDone, NoLink
  <2> QED BY <1>3, <2>1 DEF Cleaned
<1>5. \A t : NoFile \notin Created(t)
  BY OutNames DEF Created
<1>6. CASE SpawnFails
  <2>1. PICK fs : Leave("die", fs) /\ fs \subseteq files \cup Created(tool)
    BY <1>6 DEF SpawnFails
  <2> QED BY <1>3, <1>5, <2>1 DEF Cleaned
<1>7. CASE AddLinkArg
  <2>1. pc = "operand" /\ pc' = "operand" /\ i' = i + 1 /\ UNCHANGED <<job, broke, files>>
    BY <1>7 DEF AddLinkArg
  <2>2. broke \subseteq 1 .. i /\ i \notin broke /\ (\A k \in broke \ {i} : Product(k) \notin files)
    BY <2>1 DEF Cleaned
  <2>3. broke \subseteq 1 .. i' /\ i' \notin broke
    BY <1>1, <2>1, <2>2
  <2> QED BY <1>2, <2>1, <2>2, <2>3 DEF Cleaned, Building
<1>8. CASE StartBuild
  <2>1. pc = "operand" /\ pc' = "spawn" /\ UNCHANGED <<job, i, broke, files>>
    BY <1>8 DEF StartBuild
  <2> QED BY <1>2, <2>1 DEF Cleaned, Building
<1>9. CASE Spawn
  <2>1. /\ pc = "spawn" /\ tool \in Tool /\ tool \notin pid /\ Building /\ UNCHANGED <<job, i, pc, broke, failed>>
        /\ pid' = pid \cup {tool} /\ proc' = [proc EXCEPT ![tool] = "run"] /\ files' = files \cup Created(tool)
        /\ tool \in CC1 .. AS
    <3>1. pc = "spawn" /\ tool \in CC1 .. AS /\ tool \in Tool /\ Building
      BY <1>9, ToolFacts DEF Spawn, Shape, LAST_TOOL, Building
    <3>2. tool \notin pid
      BY <1>1, <3>1 DEF Shape
    <3> QED BY <1>9, <3>1, <3>2 DEF Spawn, SpawnTool
  <2>2. \A t \in pid : proc'[t] = proc[t] /\ t \in pid'
    BY <1>1, <2>1
  <2>3. i \in 1 .. Len(job.chain) /\ operand.kind # "lib"
    BY <1>1, <2>1 DEF Shape
  <2>4. \A k \in broke \ {i} : k \in 1 .. Len(job.chain) /\ k # i
    BY <1>1, <2>1, <2>3 DEF Cleaned
  <2>5. \A k \in broke \ {i} : Product(k) \notin files'
    <3> SUFFICES ASSUME NEW k \in broke \ {i} PROVE Product(k) \notin Created(tool)
      BY <2>1 DEF Cleaned
    <3>1. Created(tool) # {} => tool = AS /\ Created(tool) = {OutName(AS)}
      BY OutNames DEF Created
    <3>2. Created(tool) # {} => OutName(AS) # NoFile
      BY <1>5, <3>1
    <3> QED BY <2>1, <2>3, <2>4, <3>1, <3>2, NamesApart
  <2> QED BY <1>2, <1>5, <2>1, <2>2, <2>5 DEF Cleaned, Building
<1>10. CASE AllSpawned
  <2>1. pc = "spawn" /\ pc' = "wait" /\ Building /\ UNCHANGED <<job, i, broke, files, failed, pid, proc>>
    BY <1>10 DEF AllSpawned, Building, world
  <2>2. ~(failed < LAST_TOOL)
    BY <2>1 DEF LastFailed
  <2> QED BY <1>2, <2>1, <2>2 DEF Cleaned, Building
<1>11. CASE Reap
  <2> DEFINE u == Min(pid)
  <2>1. /\ u \in pid /\ u \in Tool /\ (\A t \in pid : u <= t) /\ pid' = pid \ {u}
        /\ proc[u] \in {"ok", "bad"} /\ (\A t \in Tool \ {u} : proc'[t] = proc[t])
        /\ failed' = (IF proc[u] = "bad" THEN u ELSE failed)
        /\ pc \in {"wait", "linkwait"} /\ UNCHANGED <<job, pc, i, tool, broke>>
    BY <1>11, ReapFacts
  <2>2. files' = files \ (IF u >= failed' THEN {out[u]} ELSE {})
    BY <1>11, ReapFacts
  <2> HIDE DEF u
  <2>3. files' \subseteq files
    BY <2>2
  <2>4. Building /\ i \in broke => failed' < LAST_TOOL \/ \E t \in pid' : proc'[t] = "bad"
    <3> SUFFICES ASSUME Building, i \in broke, proc[u] # "bad" PROVE failed < LAST_TOOL \/ \E t \in pid' : proc'[t] = "bad"
      BY <1>1, <2>1
    <3>1. failed < LAST_TOOL \/ \E t \in pid : proc[t] = "bad"
      BY <2>1 DEF Cleaned
    <3> QED BY <1>1, <2>1, <3>1
  <2>5. ASSUME pc = "wait", pid' = {}, failed' < LAST_TOOL PROVE Product(i) \notin files'
    <3>1. Building
      BY <2>5 DEF Building
    <3>2. tool = LAST_TOOL /\ i <= Len(job.chain) /\ operand.kind # "lib" /\ toolfor(operand.kind) \in CC1 .. AS
      BY <2>5, <3>1 DEF Shape
    <3>3. CASE Product(i) = NoFile
      BY <2>3, <3>3 DEF Cleaned
    <3>4. CASE Product(i) # NoFile
      <4>1. Maker = u
        BY <2>1, <2>5, <3>1, <3>2, <3>4 DEF Final
      <4>2. out[u] = Product(i)
        BY <2>1, <2>5, <3>2, <3>4, <4>1, MakerFacts DEF Named
      <4>3. u >= failed'
        <5>1. CASE proc[u] = "bad"
          BY <1>1, <2>1, <5>1
        <5>2. CASE proc[u] # "bad"
          <6>1. failed' = failed /\ failed < u
            BY <2>1, <2>5, <3>1, <5>2 DEF LastFailed
          <6>2. failed \in Int /\ u \in Int
            BY <1>1, <2>1 DEF Typed, LAST_TOOL
          <6> QED BY <6>1, <6>2
        <5> QED BY <5>1, <5>2
      <4> QED BY <2>2, <4>2, <4>3
    <3> QED BY <3>3, <3>4
  <2>6. ASSUME pc = "linkwait", broke # {} PROVE OutFile \notin files'
    <3>1. u = LD /\ out[u] = OutFile
      BY <2>1, <2>6, OutNames DEF Shape, Named
    <3>2. proc[u] = "bad"
      BY <2>1, <2>6, <3>1 DEF Counted
    <3>3. u >= failed'
      BY <1>1, <2>1, <3>2
    <3> QED BY <2>2, <3>1, <3>3
  <2>7. \A k \in broke' \ {i'} : Product(k)' \notin files'
    BY <1>2, <2>1, <2>3 DEF Cleaned
  <2>8. NoFile \notin files' /\ broke' \subseteq 1 .. i'
    BY <2>1, <2>3 DEF Cleaned
  <2> QED BY <1>2, <2>1, <2>4, <2>5, <2>6, <2>7, <2>8 DEF Cleaned, Building
<1>12. CASE BuildOk \/ BuildFailed
  <2>1. pc = "wait" /\ pid = {} /\ pc' = "operand" /\ i' = i + 1 /\ UNCHANGED <<job, broke>> /\ files' \subseteq files
    BY <1>12 DEF BuildOk, BuildFailed
  <2>2. i \in broke => Product(i) \notin files
    <3> SUFFICES ASSUME i \in broke PROVE Product(i) \notin files
      OBVIOUS
    <3>1. failed < LAST_TOOL
      BY <2>1 DEF Cleaned, Building
    <3> QED BY <2>1, <3>1 DEF Cleaned
  <2>3. broke \subseteq 1 .. i /\ (\A k \in broke : Product(k) \notin files)
    BY <2>1, <2>2 DEF Cleaned
  <2>4. broke \subseteq 1 .. i' /\ i' \notin broke
    BY <1>1, <2>1, <2>3
  <2> QED BY <1>2, <2>1, <2>3, <2>4 DEF Cleaned, Building
<1>13. CASE StartLink
  <2>1. pc = "operand" /\ pc' = "link" /\ UNCHANGED <<job, i, broke, files>>
    BY <1>13 DEF StartLink
  <2> QED BY <1>2, <2>1 DEF Cleaned, Building
<1>14. CASE SpawnLd
  <2>1. /\ pc = "link" /\ pc' = "linkwait" /\ broke = {} /\ UNCHANGED <<job, i, broke>>
        /\ files' = files \cup Created(LD)
    BY <1>14 DEF SpawnLd, SpawnTool, Counted
  <2> QED BY <1>5, <2>1 DEF Cleaned, Building
<1>15. ASSUME NEW t \in Tool, ToolStep(t) PROVE Cleaned'
  <2>1. /\ UNCHANGED <<job, pc, i, tool, pid, out, failed>> /\ proc[t] = "run"
        /\ proc'[t] \in {"run", "ok", "bad"} /\ (\A u \in Tool \ {t} : proc'[u] = proc[u])
        /\ broke' = (IF proc'[t] = "bad" THEN broke \cup {i} ELSE broke)
        /\ files' \subseteq files \cup Written(t)
    BY <1>15, ToolStepFacts
  <2>2. NoFile \notin files'
    BY <2>1 DEF Cleaned, Written
  <2>3. SUFFICES ASSUME pc # "exited" PROVE Cleaned'
    BY <2>1, <2>2 DEF Cleaned
  <2>4. t \in pid /\ out[t] = OutName(t) /\ pc \in {"spawn", "wait", "linkwait"}
    BY <2>1, <2>3 DEF Shape, Named, Typed
  <2>5. \A u \in Tool : proc[u] = "bad" => proc'[u] = "bad"
    BY <2>1
  <2>6. broke' \subseteq broke \cup {i} /\ broke \subseteq 1 .. i /\ broke' \subseteq 1 .. i
    BY <1>1, <2>1, <2>3 DEF Cleaned
  <2>7. Building /\ i \in broke' => failed < LAST_TOOL \/ \E u \in pid : proc'[u] = "bad"
    BY <1>1, <2>1, <2>3, <2>4, <2>5 DEF Cleaned
  <2>8. pc = "linkwait" => broke' \subseteq {i}
    BY <2>3, <2>6 DEF Cleaned
  <2>9. ASSUME NEW k \in broke \ {i} PROVE Product(k) \notin files'
    <3>1. Product(k) \notin files
      BY <2>3 DEF Cleaned
    <3>2. Building
      BY <2>3, <2>4 DEF Cleaned, Building
    <3>3. i <= Len(job.chain) /\ operand.kind # "lib" /\ t \in CC1 .. AS
      <4>1. pc = "spawn" => t \in CC1 .. AS
        BY <1>1, <2>4, ToolFacts DEF Shape, AS
      <4> QED BY <2>4, <3>2, <4>1 DEF Shape, Building
    <3>4. k \in 1 .. Len(job.chain) /\ k # i
      BY <1>1, <2>6, <3>3
    <3>5. Product(k) \notin Written(t)
      BY <2>4, <3>3, <3>4, NamesApart DEF Written
    <3> QED BY <2>1, <3>1, <3>5
  <2> QED BY <1>2, <2>1, <2>2, <2>4, <2>6, <2>7, <2>8, <2>9 DEF Cleaned, Building
<1>16. CASE UNCHANGED vars \/ Done
  <2>1. UNCHANGED <<job, pc, i, broke, files, failed, pid, proc>>
    BY <1>16 DEF Done, vars, driver, world
  <2> QED BY <1>2, <2>1 DEF Cleaned, Building
<1> QED BY <1>4, <1>6, <1>7, <1>8, <1>9, <1>10, <1>11, <1>12, <1>13, <1>14, <1>15, <1>16 DEF Next, Driver

\* When main() returns, the status is honest.
LEMMA ReturnsHonest ==
    ASSUME LinkInv, LastFailed, Cleaned, LinkDone \/ NoLink
    PROVE  StatusHonest'
<1>1. Typed /\ Shape /\ Counted /\ Delivered /\ Listed
  BY DEF LinkInv
<1>2. /\ pc # "exited" /\ UNCHANGED <<job, broke, failure>> /\ \A n : ~IsTemp(n) /\ n \in files /\ broke = {} => n \in files'
  <2>1. CASE NoLink
    BY <1>1, <2>1 DEF NoLink, Leave, terminate, Listed
  <2>2. CASE LinkDone
    <3>1. failed < LAST_TOOL => broke # {}
      BY <1>1, <2>2 DEF LinkDone, Counted
    <3> QED BY <1>1, <2>2, <3>1 DEF LinkDone, Leave, terminate, Listed
  <2> QED BY <2>1, <2>2
<1>3. Len(job.chain) \in Nat /\ i \in 1 .. Len(job.chain) + 1 /\ i > Len(job.chain)
  <2>1. LinkDone => i = Len(job.chain) + 1
    BY <1>1 DEF LinkDone, Shape
  <2> QED BY <1>1, <2>1, JobFacts DEF NoLink, Typed
<1>4. pid = {} /\ failure = (broke # {})
  BY <1>1 DEF LinkDone, NoLink, Shape, Counted, Typed
<1>5. files' \subseteq files
  BY DEF LinkDone, NoLink, Leave, terminate
<1>6. \A k : Product(k)' = Product(k)
  BY <1>2, SameNames
<1>7. ASSUME broke = {}, NEW k \in 1 .. Len(job.chain)
      PROVE  Product(k) \in files' \cup {NoFile} \/ IsTemp(Product(k))
  <2>1. k \in 1 .. i - 1
    BY <1>3
  <2>2. Product(k) \in files \cup {NoFile}
    BY <1>1, <1>2, <1>7, <2>1 DEF Delivered
  <2> QED BY <1>2, <1>7, <2>2
<1>8. ASSUME broke = {}, Linking PROVE OutFile \in files'
  <2>1. LinkDone
    BY <1>4, <1>8 DEF NoLink
  <2>2. proc[LD] # "run"
    BY <1>1, <1>2, <1>4, ToolFacts DEF Shape
  <2>3. OutFile \in files
    BY <1>1, <1>8, <2>1, <2>2 DEF LinkDone, Delivered
  <2> QED BY <1>2, <1>8, <2>3, OutNames
<1>9. ASSUME NEW k \in broke PROVE Product(k) \notin files'
  <2>1. CASE NoLink
    BY <1>2, <1>5, <2>1 DEF NoLink, Cleaned
  <2>2. CASE LinkDone
    <3>1. pc = "linkwait" /\ k = i
      BY <2>2 DEF LinkDone, Cleaned
    <3>2. Product(k) = OutFile
      BY <1>3, <3>1 DEF Product
    <3> QED BY <1>4, <1>5, <3>1, <3>2 DEF Cleaned
  <2> QED BY <2>1, <2>2
<1>10. Linking' = Linking /\ broke' = broke /\ failure' = failure /\ job' = job
  BY <1>2, SameNames
<1>11. \A k : IsTemp(Product(k))' = IsTemp(Product(k))
  BY <1>6 DEF IsTemp
<1> QED BY <1>4, <1>6, <1>7, <1>8, <1>9, <1>10, <1>11 DEF StatusHonest

(***************************************************************************)
(* The status main() returns tells the truth, however the tools and their  *)
(* failures interleave: it is 0 exactly when no tool failed, then every    *)
(* product exists, and the product of an operand whose pipeline broke      *)
(* does not, although the assembler or a tee may have written it           *)
(* (validatetools() and build() of cc.c).  Two operands must not be built  *)
(* into files of the same name.                                            *)
(***************************************************************************)
THEOREM StatusIsHonest == ASSUME SeparateFiles PROVE Spec => []StatusHonest
<1> DEFINE I == LinkInv /\ Final /\ LastFailed /\ Cleaned /\ StatusHonest
<1>1. Init => I
  <2> SUFFICES ASSUME Init PROVE Final /\ LastFailed /\ Cleaned /\ StatusHonest
    BY InitLinkInv
  <2>1. pc = "operand" /\ files = {} /\ broke = {}
    BY DEF Init
  <2> QED BY <2>1 DEF Final, LastFailed, Cleaned, StatusHonest, Returned, Building
<1>2. I /\ [Next]_vars => I'
  <2> SUFFICES ASSUME I, [Next]_vars PROVE I'
    OBVIOUS
  <2>1. LinkInv'
    BY StepTyped, StepShape, StepNamed, StepCounted, StepDelivered, StepListed DEF LinkInv
  <2>2. Final' /\ LastFailed' /\ Cleaned'
    BY StepFinal, StepLastFailed, StepCleaned DEF LinkInv
  <2>3. StatusHonest'
    <3>1. CASE LinkDone \/ NoLink
      BY <3>1, ReturnsHonest
    <3>2. CASE UNCHANGED vars \/ Done
      <4>1. UNCHANGED <<job, pc, bye, broke, failure, files>>
        BY <3>2 DEF Done, vars, driver
      <4> QED BY <4>1, SameNames DEF StatusHonest, Returned, IsTemp
    <3>3. CASE BadOperand \/ Signal \/ SpawnFails
      BY <3>3 DEF BadOperand, Signal, SpawnFails, Leave, StatusHonest, Returned
    <3>4. CASE AddLinkArg \/ StartBuild \/ Spawn \/ AllSpawned \/ Reap \/ BuildOk \/ BuildFailed
               \/ StartLink \/ SpawnLd
      <4>1. pc' # "exited"
        BY <3>4 DEF AddLinkArg, StartBuild, Spawn, AllSpawned, Reap, BuildOk, BuildFailed, StartLink, SpawnLd
      <4> QED BY <4>1 DEF StatusHonest, Returned
    <3>5. ASSUME NEW t \in Tool, ToolStep(t) PROVE StatusHonest'
      <4>1. Typed /\ Shape
        BY DEF LinkInv
      <4>2. proc[t] = "run" /\ UNCHANGED <<pc, bye>>
        BY <3>5, <4>1, ToolStepFacts
      <4>3. ~Returned
        BY <3>5, <4>1, <4>2 DEF Shape
      <4> QED BY <4>2, <4>3 DEF StatusHonest, Returned
    <3> QED BY <3>1, <3>2, <3>3, <3>4, <3>5 DEF Next, Driver
  <2> QED BY <2>1, <2>2, <2>3
<1> QED BY <1>1, <1>2, PTL DEF Spec

=============================================================================
