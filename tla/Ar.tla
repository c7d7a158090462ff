--------------------------------- MODULE Ar ---------------------------------
(***************************************************************************)
(* One run of the archiver after another (src/cmd/ar.c): the archive on     *)
(* the disk, the temporaries BEFORE, INDOT and AFTER the members are sorted *)
(* into, merge() that writes the archive again, and what an error, a full   *)
(* disk or a signal leaves behind at every point of it.                     *)
(*                                                                          *)
(* A file of the archive format is the sequence of what was written to it:  *)
(* the magic number, then members.  Writes are buffered, so a run that is   *)
(* stopped can leave a member "cut" (its header is whole, its data is not)  *)
(* or a "stub" (less than a header, or than the magic number).  Names,      *)
(* contents and times are abstract; -v only adds to the output.             *)
(***************************************************************************)
EXTENDS Archive

CONSTANTS
    Paths,            \* the operands that can be given
    canonical(_),     \* the name of a path without its directories
    Valid,            \* the paths whose name fits a header (checkfnames)
    Commands,         \* the command lines: [key, u, pos, b, l, argv]
    Archives,         \* what arfile can hold before the first run
    Directories,      \* the files of the operands before the first run
    Names, Contents,  \* what a header can name, and what can be in a file
    MaxRuns,          \* bound on the runs of one behaviour
    MaxFaults,        \* bound on signals and failing calls in a behaviour
    NoFile, NULL      \* model values

Magic == [kind |-> "magic"]
Stub == [kind |-> "stub"]
Entry == [kind : {"member", "cut"}, name : Names, date : Nat, data : Contents]
File == [date : Nat, data : Contents]

\* What an archive file can hold: the magic number at the start only.
Store(f) ==
    f \in Seq(Entry \cup {Magic, Stub}) /\ \A i \in 2..Len(f) : f[i] # Magic

ASSUME StoreAssumption ==
    /\ \A f \in Archives : f = NoFile \/ Store(f)
    /\ NoFile \notin Seq(Entry \cup {Magic, Stub})
ASSUME DirectoryAssumption ==
    /\ Directories \subseteq [Paths -> {NoFile} \cup File]
    /\ "part" \in Contents
    /\ \A p \in Paths : canonical(p) \in Names
ASSUME CommandAssumption ==
    /\ NULL \notin Paths /\ NULL # 0
    /\ \A c \in Commands :
          /\ c.key \in {"r", "m", "d", "t", "p", "x", "q"}
          /\ {c.u, c.b, c.l} \subseteq BOOLEAN
          /\ c.argv \in Seq(Paths)

BEFORE == 0
INDOT == 1
AFTER == 2

VARIABLES
    arfile,    \* the archive on the disk: NoFile or what is in it
    buf,       \* what was written to the open archive and may not be there yet
    files,     \* the directory: each path to [date, data], or NoFile
    tmps,      \* the temporaries: what is in them and whether writing failed
    names,     \* the temporaries that are visible files (-l): ar.tmp1 ...
    cmd,       \* the command line of this run
    argv,      \* its operands; inlist() takes one away by making it NULL
    out,       \* the members listed or printed
    pc, n, cur,     \* control, its counter (member, operand, temporary), m.cur
    status,    \* the exit status, or NULL
    at,        \* where the run ended
    old,       \* what the run started from, and how the one before it ended
    runs, faults

vars == <<arfile, buf, files, tmps, names, cmd, argv, out, pc, n, cur,
          status, at, old, runs, faults>>

Empty == [t \in 0..2 |-> [items |-> <<>>, err |-> FALSE]]

Init ==
    /\ arfile \in Archives
    /\ files \in Directories
    /\ cmd \in Commands
    /\ argv = cmd.argv
    /\ buf = <<>> /\ tmps = Empty /\ names = {} /\ out = <<>>
    /\ pc = "start" /\ n = 1 /\ cur = BEFORE
    /\ status = NULL /\ at = "none"
    /\ old = [arfile |-> arfile, files |-> files, status |-> status, faults |-> 0]
    /\ runs = 1
    /\ faults = 0

Fault == faults < MaxFaults /\ faults' = faults + 1

-----------------------------------------------------------------------------
(* The ends of a run.                                                       *)

\* What a signal can leave of w, written after what the disk holds.
Partial(disk, w) ==
    {disk \o SubSeq(w, 1, k) : k \in 0..Len(w)} \cup
    {disk \o SubSeq(w, 1, k - 1) \o <<Stub>> : k \in 1..Len(w)} \cup
    {disk \o SubSeq(w, 1, k - 1) \o <<[w[k] EXCEPT !.kind = "cut"]>> :
        k \in {j \in 1..Len(w) : w[j].kind = "member"}}

\* (fault) the loop stops one temporary too early.
BadCleanup == names' = names \ {BEFORE, INDOT}

\* cleanup(): the names of the temporaries are removed.
cleanup == names' = {}

\* The process is gone.
Gone(s) ==
    /\ cleanup
    /\ buf' = <<>>
    /\ status' = s
    /\ at' = pc
    /\ pc' = "end"
    /\ UNCHANGED <<cmd, old, runs>>

\* exit(s): cleanup() by atexit, then every open stream is flushed.
exit(s) == Gone(s) /\ arfile' = IF buf = <<>> THEN arfile ELSE arfile \o buf

\* error(): exit(EXIT_FAILURE).  What the failing operation changed is its own.
error == exit(1)

\* sigfun(): cleanup() and _Exit(1), which flushes nothing.
sigfun ==
    /\ pc # "end"
    /\ Fault
    /\ Gone(1)
    /\ arfile' \in IF buf = <<>> THEN {arfile} ELSE Partial(arfile, buf)
    /\ UNCHANGED <<files, tmps, argv, out, n, cur>>

\* fflush() or fclose() of the archive, which a full disk refuses.  No putc()
\* before it is looked at (ar.c:148, ar.c:469), so one that fails is found here,
\* and the file has any beginning of what was to be written.
Flush(next) ==
    \/ /\ arfile' = arfile \o buf
       /\ buf' = <<>>
       /\ pc' = next
       /\ UNCHANGED <<names, cmd, status, at, old, runs, faults>>
    \/ /\ Fault
       /\ Gone(1)
       /\ arfile' \in Partial(arfile, buf) \ {arfile \o buf}

\* The same command line once more, as a make that retries gives it.
Again ==
    /\ pc = "end"
    /\ runs < MaxRuns
    /\ runs' = runs + 1
    /\ argv' = cmd.argv
    /\ tmps' = Empty /\ out' = <<>>
    /\ pc' = "start" /\ n' = 1 /\ cur' = BEFORE
    /\ status' = NULL /\ at' = "none"
    /\ old' = [arfile |-> arfile, files |-> files, status |-> status,
               faults |-> faults]
    /\ UNCHANGED <<arfile, buf, files, names, cmd, faults>>

-----------------------------------------------------------------------------
(* Opening.                                                                 *)

\* main(): the letters that go together, then checkfnames().
checkfnames ==
    /\ pc = "start"
    /\ cmd.pos # NULL => cmd.key \in {"m", "r"}
    /\ cmd.u => cmd.key = "r"
    /\ IF \A i \in DOMAIN argv : argv[i] \in Valid
       THEN /\ pc' = "open"
            /\ UNCHANGED <<arfile, buf, names, cmd, status, at, old, runs>>
       ELSE error
    /\ UNCHANGED <<files, tmps, argv, out, n, cur, faults>>

Editing == cmd.key \in {"r", "d", "m"}

\* openar(): an archive that is not there is created whatever the key is.
openar ==
    /\ pc = "open"
    /\ \/ /\ arfile = NoFile
          /\ arfile' = <<>>
          /\ buf' = <<Magic>>
          /\ pc' = "magic"
          /\ UNCHANGED <<names, cmd, status, at, old, runs>>
       \/ /\ arfile # NoFile
          /\ arfile = <<>> \/ (arfile # <<>> /\ arfile[1] # Magic)
          /\ error
       \/ /\ arfile # NoFile
          /\ arfile # <<>> /\ arfile[1] = Magic
          /\ pc' = "ar"
          /\ UNCHANGED <<arfile, buf, names, cmd, status, at, old, runs>>
    /\ UNCHANGED <<files, tmps, argv, out, n, cur, faults>>

\* openar(): fflush() of the magic number.
FlushMagic ==
    /\ pc = "magic"
    /\ Flush("ar")
    /\ UNCHANGED <<files, tmps, argv, out, n, cur>>

\* ar(): nothing to do without operands; the temporaries of the key.
ar ==
    /\ pc = "ar"
    /\ \/ /\ argv = <<>> /\ cmd.key \in {"r", "d", "m", "q"}
          /\ pc' = "exit"
          /\ n' = n
       \/ /\ argv # <<>> /\ Editing
          /\ pc' = "tmps"
          /\ n' = 0
       \/ /\ cmd.key \in {"t", "p", "x"}
          /\ pc' = "run"
          /\ n' = 2
       \/ /\ argv # <<>> /\ cmd.key = "q"
          /\ pc' = "append"
          /\ n' = 1
    /\ UNCHANGED <<arfile, buf, files, tmps, names, cmd, argv, out, cur,
                   status, at, old, runs, faults>>

\* opentmp(): with -l a file in the directory, whose name is known before it
\* is created; otherwise one nobody sees.
opentmp ==
    /\ pc = "tmps"
    /\ \/ /\ names' = IF cmd.l THEN names \cup {n} ELSE names
          /\ IF n = (IF cmd.key = "d" THEN BEFORE ELSE AFTER)
             THEN pc' = "run" /\ n' = 2
             ELSE pc' = pc /\ n' = n + 1
          /\ UNCHANGED <<arfile, buf, cmd, status, at, old, runs, faults>>
       \/ /\ Fault
          /\ error
          /\ n' = n
    /\ UNCHANGED <<files, tmps, argv, out, cur>>

-----------------------------------------------------------------------------
(* The members of the archive, one after another.                           *)

\* (fault) the operand is compared with its directories.
BadNamed(name) == {i \in DOMAIN argv : argv[i] # NULL /\ argv[i] = name}

\* inlist(): the operand that names the member, if one is left.
Named(name) ==
    {i \in DOMAIN argv : argv[i] # NULL /\ canonical(argv[i]) = name}
inlist(name) == CHOOSE i \in Named(name) : \A j \in Named(name) : i <= j
Take(name) == argv' = [argv EXCEPT ![inlist(name)] = NULL]

older(m, path) == files[path].date > m.date

\* archive(): the member a file becomes.
archive(path) == [kind |-> "member", name |-> canonical(path),
                  date |-> files[path].date, data |-> files[path].data]

\* copy() and archive() into a temporary: a failing write is only remembered
\* by the stream.
Put(where, m) ==
    \/ /\ tmps' = [tmps EXCEPT ![where].items = Append(@, m)]
       /\ faults' = faults
    \/ /\ Fault
       /\ tmps' = [tmps EXCEPT ![where] =
             [items |-> Append(@.items, [m EXCEPT !.kind = "cut"]), err |-> TRUE]]

\* The end of one turn of run()'s loop.
Advance ==
    /\ pc' = pc
    /\ n' = n + 1
    /\ UNCHANGED <<arfile, buf, names, cmd, status, at, old, runs>>

\* (fault) with -b the members behind posname stay in BEFORE.
BadPlace(m) ==
    IF cmd.pos = m.name
    THEN /\ cur' = IF cmd.b THEN cur ELSE AFTER
         /\ Put(IF cmd.b THEN AFTER ELSE BEFORE, m)
    ELSE cur' = cur /\ Put(cur, m)

\* Where copy() puts a member that is not replaced or moved: posname switches
\* from BEFORE to AFTER.
Place(m) ==
    IF cmd.pos = m.name
    THEN /\ cur' = AFTER
         /\ Put(IF cmd.b THEN AFTER ELSE BEFORE, m)
    ELSE cur' = cur /\ Put(cur, m)

update(m) ==
    /\ UNCHANGED <<files, out>>
    /\ \/ /\ Named(m.name) = {}
          /\ Place(m) /\ Advance
          /\ UNCHANGED argv
       \/ /\ Named(m.name) # {}
          /\ Take(m.name)
          /\ LET path == argv[inlist(m.name)] IN
             \/ /\ files[path] = NoFile
                /\ error
                /\ UNCHANGED <<tmps, n, cur, faults>>
             \/ /\ files[path] # NoFile
                /\ cmd.u /\ ~older(m, path)
                /\ Place(m) /\ Advance
             \/ /\ files[path] # NoFile
                /\ ~cmd.u \/ older(m, path)
                /\ Put(cur, archive(path)) /\ Advance
                /\ cur' = cur

move(m) ==
    /\ UNCHANGED <<files, out>>
    /\ Advance
    /\ IF Named(m.name) # {}
       THEN Take(m.name) /\ Put(INDOT, m) /\ cur' = cur
       ELSE Place(m) /\ UNCHANGED argv

del(m) ==
    /\ UNCHANGED <<files, out, cur>>
    /\ Advance
    /\ IF Named(m.name) # {}
       THEN Take(m.name) /\ UNCHANGED <<tmps, faults>>
       ELSE Put(BEFORE, m) /\ UNCHANGED argv

\* extract(), print() and list() act on a member when there are no operands
\* or one of them names it.
Select(m) == IF argv = <<>> THEN UNCHANGED argv
             ELSE Named(m.name) # {} /\ Take(m.name)
Skip(m) == argv # <<>> /\ Named(m.name) = {} /\ UNCHANGED argv

\* list() and print(): the member goes to the standard output.
list(m) ==
    /\ Advance
    /\ UNCHANGED <<files, tmps, cur, faults>>
    /\ \/ Select(m) /\ out' = Append(out, m)
       \/ Skip(m) /\ UNCHANGED out

\* extract(): the file is overwritten and gets the member's time; a failing
\* write, and a signal, leave part of it.
extract(m) ==
    /\ UNCHANGED <<tmps, cur, out>>
    /\ \/ /\ Skip(m)
          /\ Advance
          /\ UNCHANGED <<files, faults>>
       \/ /\ Select(m)
          /\ files' = [files EXCEPT ![m.name] = [date |-> m.date,
                 data |-> IF m.kind = "cut" THEN "part" ELSE m.data]]
          /\ Advance
          /\ UNCHANGED faults
       \/ /\ Select(m)
          /\ Fault
          /\ files' = [files EXCEPT ![m.name] = [date |-> 9, data |-> "part"]]
          /\ error
          /\ n' = n

\* The loop of run(): the header is read where the previous member ends by
\* its own size.  Less than a header ends the loop as the end of the file
\* does; behind a cut member the header is not one.
AtEnd == IF n > Len(arfile) THEN TRUE ELSE arfile[n] = Stub /\ n = Len(arfile)
Misplaced == ~AtEnd /\ (arfile[n] = Stub \/ arfile[n - 1].kind = "cut")

Member ==
    /\ pc = "run" /\ ~AtEnd /\ ~Misplaced
    /\ LET m == arfile[n] IN
       \/ cmd.key = "r" /\ update(m)
       \/ cmd.key = "m" /\ move(m)
       \/ cmd.key = "d" /\ del(m)
       \/ cmd.key \in {"t", "p"} /\ list(m)
       \/ cmd.key = "x" /\ extract(m)

\* valid() is false, or the end of the file is found inside the header.
Corrupted ==
    /\ pc = "run" /\ Misplaced
    /\ \/ error /\ n' = n
       \/ /\ n' = Len(arfile) + 1
          /\ pc' = pc
          /\ UNCHANGED <<arfile, buf, names, cmd, status, at, old, runs>>
    /\ UNCHANGED <<files, tmps, argv, out, cur, faults>>

\* The archive cannot be read.
ReadError ==
    /\ pc = "run"
    /\ Fault
    /\ error
    /\ UNCHANGED <<files, tmps, argv, out, n, cur>>

EndRun ==
    /\ pc = "run" /\ AtEnd
    /\ pc' = (CASE cmd.key = "r" -> "insert"
                [] cmd.key \in {"m", "d"} -> "merge"
                [] OTHER -> "check")
    /\ n' = 1
    /\ UNCHANGED <<arfile, buf, files, tmps, names, cmd, argv, out, cur,
                   status, at, old, runs, faults>>

-----------------------------------------------------------------------------
(* The operands that are no members yet.                                    *)

\* insert(): what update() left of the operands.
insert ==
    /\ pc = "insert"
    /\ \/ /\ n > Len(argv)
          /\ pc' = "merge" /\ n' = 1
          /\ UNCHANGED <<arfile, buf, tmps, names, cmd, argv, status, at, old, runs,
                         faults>>
       \/ /\ n <= Len(argv) /\ argv[n] = NULL
          /\ Advance
          /\ UNCHANGED <<tmps, argv, faults>>
       \/ /\ n <= Len(argv) /\ argv[n] # NULL /\ files[argv[n]] = NoFile
          /\ error
          /\ UNCHANGED <<tmps, argv, n, faults>>
       \/ /\ n <= Len(argv) /\ argv[n] # NULL /\ files[argv[n]] # NoFile
          /\ Put(INDOT, archive(argv[n]))
          /\ argv' = [argv EXCEPT ![n] = NULL]
          /\ Advance
    /\ UNCHANGED <<files, out, cur>>

\* append(): at the end of the archive itself.  The operand is gone before
\* archive() can fail, and what was appended before it stays.
append ==
    /\ pc = "append"
    /\ n <= Len(argv)
    /\ argv' = [argv EXCEPT ![n] = NULL]
    /\ LET path == argv[n] IN
       \/ /\ files[path] = NoFile
          /\ error
          /\ UNCHANGED <<n, faults>>
       \/ /\ files[path] # NoFile
          /\ buf' = Append(buf, archive(path))
          /\ pc' = pc /\ n' = n + 1
          /\ UNCHANGED <<arfile, names, cmd, status, at, old, runs, faults>>
       \/ /\ files[path] # NoFile
          /\ Fault
          /\ Gone(1)
          /\ arfile' = arfile \o Append(buf, [archive(path) EXCEPT !.kind = "cut"])
          /\ n' = n
    /\ UNCHANGED <<files, tmps, out, cur>>

\* fclose() at the end of append().
CloseAppended ==
    /\ pc = "append"
    /\ n > Len(argv)
    /\ Flush("check")
    /\ UNCHANGED <<files, tmps, argv, out, n, cur>>

-----------------------------------------------------------------------------
(* merge(): the archive is written again.                                   *)

\* fopen(arfile, "wb"): from here on the old archive is gone.
Reopen ==
    /\ pc = "merge"
    /\ \/ /\ arfile' = <<>>
          /\ buf' = <<Magic>>
          /\ pc' = "merging" /\ n' = BEFORE
          /\ UNCHANGED <<names, cmd, status, at, old, runs, faults>>
       \/ /\ Fault
          /\ error
          /\ n' = n
    /\ UNCHANGED <<files, tmps, argv, out, cur>>

\* One temporary after another; ferror() also tells of what copy() could not
\* write to it.
merge ==
    /\ pc = "merging"
    /\ n <= AFTER
    /\ IF tmps[n].err
       THEN /\ Gone(1)
            /\ arfile' = arfile \o buf \o tmps[n].items
            /\ n' = n
       ELSE /\ buf' = buf \o tmps[n].items
            /\ n' = n + 1
            /\ UNCHANGED <<arfile, names, cmd, status, at, pc, old, runs>>
    /\ UNCHANGED <<files, tmps, argv, out, cur, faults>>

CloseMerged ==
    /\ pc = "merging"
    /\ n > AFTER
    /\ Flush("check")
    /\ UNCHANGED <<files, tmps, argv, out, n, cur>>

\* closetmp(), which can fail, then the operands that named no member: the
\* archive has been written already.
Leftover ==
    /\ pc = "check"
    /\ \/ /\ \E i \in DOMAIN argv : argv[i] # NULL
          /\ error
          /\ UNCHANGED faults
       \/ /\ \A i \in DOMAIN argv : argv[i] = NULL
          /\ pc' = "exit"
          /\ UNCHANGED <<arfile, buf, names, cmd, status, at, old, runs, faults>>
       \/ /\ Editing
          /\ Fault
          /\ error
    /\ UNCHANGED <<files, tmps, argv, out, n, cur>>

\* The end of main(): fflush(stdout), whose failure is an error too.
Exit ==
    /\ pc = "exit"
    /\ \/ exit(0) /\ UNCHANGED faults
       \/ error /\ Fault
    /\ UNCHANGED <<files, tmps, argv, out, n, cur>>

-----------------------------------------------------------------------------
Stopped == pc = "end" /\ runs = MaxRuns /\ UNCHANGED vars

Next ==
    \/ checkfnames \/ openar \/ FlushMagic \/ ar \/ opentmp
    \/ Member \/ Corrupted \/ ReadError \/ EndRun
    \/ insert \/ append \/ CloseAppended
    \/ Reopen \/ merge \/ CloseMerged \/ Leftover \/ Exit
    \/ sigfun \/ Again \/ Stopped

Spec == Init /\ [][Next]_vars

-----------------------------------------------------------------------------
(* Correctness.                                                             *)

Whole(f) == f = NoFile \/ (f # <<>> /\ f[1] = Magic
                           /\ \A i \in 2..Len(f) : f[i].kind = "member")
Members(f) == IF f = NoFile THEN <<>> ELSE Tail(f)

ArgNames == [i \in DOMAIN cmd.argv |-> canonical(cmd.argv[i])]
ArgMembers ==
    [i \in DOMAIN cmd.argv |->
        LET f == old.files[cmd.argv[i]]
        IN IF f = NoFile THEN NULL
           ELSE [kind |-> "member", name |-> ArgNames[i], date |-> f.date,
                 data |-> f.data]]

\* The run was given an archive, valid names and files that are there, and
\* not two members called posname with -a, which are moved together.
Sane ==
    /\ Whole(old.arfile)
    /\ \A i \in DOMAIN cmd.argv :
          /\ cmd.argv[i] \in Valid
          /\ cmd.key \in {"r", "q"} => old.files[cmd.argv[i]] # NoFile
    /\ cmd.b \/ Cardinality({i \in DOMAIN Members(old.arfile) :
                                Members(old.arfile)[i].name = cmd.pos}) < 2

Edited ==
    <<Magic>> \o Edit(cmd.key, cmd.u, cmd.pos, cmd.b, Members(old.arfile), ArgNames,
                      ArgMembers)

\* A run that succeeds, and every run nothing fails in, does what the list
\* of members says: the archive merge() or append() leaves is the edited
\* list, what list(), print() and extract() give is the selected members, and
\* the status is 0 exactly when every operand was found where one is needed.
EditsList ==
    pc = "end" /\ Sane /\ (status = 0 \/ faults = old.faults) =>
        /\ arfile = Edited
        /\ status = IF cmd.key \in {"r", "q"}
                       \/ AllFound(Members(old.arfile), ArgNames)
                    THEN 0 ELSE 1
        /\ cmd.key \in {"t", "p"} => out = Shown(Members(old.arfile), ArgNames)
        /\ cmd.key = "x" => files = Unpacked(Shown(Members(old.arfile), ArgNames), old.files)

\* A run that fails anywhere but inside merge() leaves the archive as it was,
\* or behind it what append() had got to, or the archive completely edited
\* (an operand without a member is only reported then); and in no case
\* ar.tmp1, ar.tmp2 or ar.tmp3.
FailsSafe ==
    pc = "end" /\ status = 1 =>
        /\ names = {}
        /\ at # "merging" /\ old.arfile # NoFile =>
              \/ arfile = old.arfile
              \/ cmd.key = "q" /\ IsPrefix(old.arfile, arfile)
              \/ at \in {"check", "exit"} /\ (Sane => arfile = Edited)

\* ar r given again after it succeeded changes nothing when its operands have
\* different names: the members insert() put in are found by update() and
\* replaced where they are.
Repeatable ==
    /\ pc = "end" /\ cmd.key = "r" /\ status = 0 /\ old.status = 0
    /\ Sane /\ IsInjective(ArgNames)
    => arfile = old.arfile
=============================================================================
