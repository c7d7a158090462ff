------------------------------- MODULE Stdio -------------------------------
(***************************************************************************)
(* The streams of the C library, libc/stdio: the entries of __iob, their   *)
(* buffers and flags, and the calls of a program on them.  The model has   *)
(* the files and descriptors of the system as well, which may read and     *)
(* write less than asked, fail, or have no memory left.                    *)
(*                                                                         *)
(* A FILE is a record.  Pointers are offsets from buf, and wp is the       *)
(* length of mem, the bytes of the buffer below wp: no byte at or above    *)
(* wp is ever read.  A call is a function from a machine, the record m of  *)
(* a stream, its descriptor, its file and a result r, to a machine.        *)
(***************************************************************************)
EXTENDS Integers, Sequences, SequencesExt, FiniteSetsExt

CONSTANTS
    FOPEN_MAX,      \* streams
    BUFSIZ,         \* bytes of a buffer the library allocates
    Files,
    Texts,          \* what a file may hold at first; << >> stands for no file too
    StdFile,        \* the files of descriptors 0, 1 and 2
    Used,           \* streams, of which a program works with one: they share
                    \* no state but _flushall
    Calls,          \* the calls the program makes
    MaxLen,         \* bytes of a file
    MaxFaults,      \* failures of the system
    Deviations      \* where the program ignores that the library is not C99

Slots == 0 .. FOPEN_MAX - 1
ASSUME SizeAssumption == BUFSIZ \in Nat \ {0} /\ FOPEN_MAX \in Nat /\ FOPEN_MAX > 2
ASSUME FileAssumption == StdFile \in [0 .. 2 -> Files]
ASSUME TextAssumption == \A f \in Files : Texts[f] \subseteq Seq(Nat)
\* The arguments of the calls.
ASSUME CallAssumption ==
    /\ Used \subseteq Slots /\ MaxLen \in Nat
    /\ \A c \in Calls :
          /\ c.op \in {"fopen", "freopen"} => c.file \in Files
          /\ c.op \in {"putc", "fputs", "puts", "fwrite"} => c.bytes \in Seq(Nat) /\ c.bytes # << >>
          /\ c.op \in {"fgets", "fread"} => c.n \in Nat \ {0}
          /\ c.op \in {"fread", "fwrite"} => c.size \in Nat \ {0}
          /\ c.op = "gets" => c.s = 0
          /\ c.op = "puts" => c.s = 1
          /\ c.op = "fseek" => c.off \in Int
          /\ c.op = "setvbuf" => c.len \in Nat

VARIABLES
    iob,        \* __iob
    fds,        \* the descriptor of each stream
    file,       \* the bytes of each file
    exists,     \* the files there are
    flushall,   \* _flushall is set
    ret,        \* the last call and its result
    bad,        \* the streams on which the system failed
    faults,     \* how often it failed
    main,       \* the stream the program works with
    dir         \* the program's side: "fresh", "none", "in" or "out"

vars == <<iob, fds, file, exists, flushall, ret, bad, faults, main, dir>>

\* Bytes are numbers.  A result is a tuple: what the function returns, and
\* the bytes that an input function stores.
EOF == -1
NULL == -2
NL == 10

Modes == {"FBF", "LBF", "NBF"}
Dirs == {"READ", "WRITE", "RW"}

\* _FILE and __iob
\* over: a byte was stored past the end of the buffer
FILE(flags, buf, len) == [flags |-> flags, buf |-> buf, mem |-> << >>, rp |-> 0, lp |-> 0, len |-> len,
                          over |-> FALSE]
iob0 == [s \in Slots |-> CASE s = 0 -> FILE({"READ"}, "NULL", 0)
                           [] s = 1 -> FILE({"WRITE", "LBF"}, "NULL", 0)
                           [] s = 2 -> FILE({"WRITE", "NBF"}, "unbuf", 1)
                           [] OTHER -> FILE({}, "NULL", 0)]

\* Open descriptors.
Fd(f, acc) == [open |-> TRUE, file |-> f, off |-> 0, acc |-> acc]
NoFd == [open |-> FALSE]

wp(m) == Len(m.f.mem)
Set(m, fl, r) == [m EXCEPT !.f.flags = @ \cup fl, !.r = r]
Failing(m, r) == [Set(m, {"ERR"}, r) EXCEPT !.bad = TRUE]

-----------------------------------------------------------------------------
(* The system                                                              *)

\* What the system does in a call: all that is asked, or one byte at a time
\* in reads; no bytes, one byte less in writes, or no memory.
ReadMoods == {"well", "short", "ioerr", "nomem"}
WriteMoods == {"well", "ioerr", "full", "nomem"}
FlushMoods == {"well", "ioerr", "full"}

Overlay(t, p, bs) ==
    [i \in 1 .. Max({Len(t), IF bs = << >> THEN 0 ELSE p + Len(bs)}) |->
        IF i > p /\ i <= p + Len(bs) THEN bs[i - p]
        ELSE IF i <= Len(t) THEN t[i] ELSE 0]

_write(m) ==
    LET cnt == CASE m.mood = "ioerr" -> 0 [] m.mood = "full" -> wp(m) - 1 [] OTHER -> wp(m)
        p == IF "app" \in m.d.acc THEN Len(m.t) ELSE m.d.off
    IN [m EXCEPT !.t = Overlay(@, p, SubSeq(m.f.mem, 1, cnt)), !.d.off = p + cnt, !.r = cnt]

_read(m) ==
    LET left == Max({Len(m.t) - m.d.off, 0})
        cnt == CASE m.mood = "ioerr" -> -1
                 [] m.mood = "short" -> Min({left, 1})
                 [] OTHER -> Min({left, m.f.len})
    IN IF cnt <= 0 THEN [m EXCEPT !.r = cnt]
       ELSE [m EXCEPT !.f.mem = SubSeq(m.t, m.d.off + 1, m.d.off + cnt), !.d.off = @ + cnt, !.r = cnt]

-----------------------------------------------------------------------------
(* Buffers and single bytes                                                *)

\* _IOALLOC is not set: the buffer is never freed.
_allocbuf(m) ==
    IF m.mood = "nomem" THEN Failing(m, EOF)
    ELSE [m EXCEPT !.f.len = BUFSIZ, !.f.buf = "alloc", !.f.mem = << >>, !.f.rp = 0,
                   !.f.lp = BUFSIZ, !.r = 0]

\* A fault: a short write is taken for a complete one.
BadFlsbuf(m) ==
    IF "READ" \in m.f.flags THEN [m EXCEPT !.r = 0]
    ELSE LET w == IF wp(m) > 0 THEN _write(m) ELSE m IN [w EXCEPT !.f.mem = << >>, !.r = 0]

_flsbuf(m) ==
    IF "READ" \in m.f.flags THEN [m EXCEPT !.r = 0]
    ELSE LET w == IF wp(m) > 0 THEN _write(m) ELSE [m EXCEPT !.r = 0] IN
         IF w.r # wp(m) THEN Failing(w, EOF)
         ELSE [w EXCEPT !.f.mem = << >>, !.r = 0]

__getc(m) ==
    IF m.f.flags \cap {"EOF", "ERR"} # {} THEN [m EXCEPT !.r = EOF]
    ELSE IF m.f.flags \cap {"READ", "RW"} = {} THEN Set(m, {"ERR"}, EOF)
    ELSE LET a == IF m.f.buf = "NULL" THEN _allocbuf(m) ELSE [m EXCEPT !.r = 0] IN
         IF a.r = EOF THEN a
         ELSE LET b == _read(a) IN
              CASE b.r = 0 -> Set(b, {"EOF"}, EOF)
                [] b.r < 0 -> Failing(b, EOF)
                [] OTHER   -> [Set(b, {"READ"}, Head(b.f.mem)) EXCEPT !.f.rp = 1]

getc(m) == IF m.f.rp >= wp(m) THEN __getc(m)
           ELSE [m EXCEPT !.r = m.f.mem[m.f.rp + 1], !.f.rp = @ + 1]

Store(m, ch) == [m EXCEPT !.f.mem = Append(@, ch), !.f.over = @ \/ wp(m) >= m.f.len, !.r = ch]

\* The three disciplines of __putc: line, full and no buffering.  A stream
\* of fopen() has no flag of its own and is not buffered either.
\* A fault: a line longer than the buffer is not looked for.
BadPutLine(m, ch) == LET b == Store(m, ch) IN IF ch = NL THEN _flsbuf(b) ELSE b

PutLine(m, ch) ==
    LET a == IF wp(m) = m.f.lp THEN _flsbuf(m) ELSE m
        b == Store(a, ch)
        c == IF ch = NL THEN _flsbuf(b) ELSE b
    IN IF a.r = EOF THEN a ELSE c
PutFull(m, ch) ==
    LET a == _flsbuf(m) IN
    IF a.r = EOF THEN a ELSE [Store(a, ch) EXCEPT !.f.rp = m.f.len]
PutNone(m, ch) == _flsbuf(Store(m, ch))

\* A fault: the stream is not marked as written.
BadPutc(m, ch) ==
    IF "ERR" \in m.f.flags THEN [m EXCEPT !.r = EOF]
    ELSE IF "READ" \in m.f.flags THEN Set(m, {"ERR"}, EOF)
    ELSE LET a == IF m.f.buf = "NULL" THEN _allocbuf(m) ELSE [m EXCEPT !.r = 0] IN
         IF a.r = EOF THEN a
         ELSE LET b == CASE "LBF" \in m.f.flags -> PutLine(a, ch)
                         [] "LBF" \notin m.f.flags /\ "FBF" \in m.f.flags -> PutFull(a, ch)
                         [] OTHER -> PutNone(a, ch)
                  c == [b EXCEPT !.flushall = TRUE]
              IN IF b.r = EOF THEN c ELSE Set(c, {}, ch)

__putc(m, ch) ==
    IF "ERR" \in m.f.flags THEN [m EXCEPT !.r = EOF]
    ELSE IF "READ" \in m.f.flags THEN Set(m, {"ERR"}, EOF)
    ELSE LET a == IF m.f.buf = "NULL" THEN _allocbuf(m) ELSE [m EXCEPT !.r = 0] IN
         IF a.r = EOF THEN a
         ELSE LET b == CASE "LBF" \in m.f.flags -> PutLine(a, ch)
                         [] "LBF" \notin m.f.flags /\ "FBF" \in m.f.flags -> PutFull(a, ch)
                         [] OTHER -> PutNone(a, ch)
                  c == [b EXCEPT !.flushall = TRUE]
              IN IF b.r = EOF THEN c ELSE Set(c, {"WRITE"}, ch)

putc(m, ch) == IF wp(m) >= m.f.rp THEN __putc(m, ch) ELSE Store(m, ch)

-----------------------------------------------------------------------------
(* Calls that move many bytes                                              *)

\* One byte more, unless x is at the end or the last one was in stop.
More(x, stop) ==
    IF x.r = EOF \/ (x.got # << >> /\ Last(x.got) \in stop) THEN x
    ELSE LET y == getc(x) IN
         IF y.r = EOF THEN y ELSE [y EXCEPT !.got = Append(@, y.r)]

\* Up to n bytes, until the end or a byte of stop; m.got are the bytes.
Take(m, n, stop) ==
    LET x[i \in 0 .. n] == IF i = 0 THEN [m EXCEPT !.r = 0] ELSE More(x[i - 1], stop)
    IN  x[n]

fgets(m, n) ==
    LET x == Take(m, n - 1, {NL}) IN
    [x EXCEPT !.r = IF x.r = EOF /\ x.got = << >> THEN NULL ELSE 0]

fread(m, size, n) ==
    LET x == Take(m, size * n, {}) IN [x EXCEPT !.r = Len(x.got) \div size]

\* gets() reads the standard input up to the end of a line.
gets(m) ==
    LET x == Take(m, MaxLen + 1, {NL}) IN
    [x EXCEPT !.r = IF x.r = EOF /\ x.got = << >> THEN NULL ELSE 0,
              !.got = SelectSeq(@, LAMBDA b : b # NL)]

\* fputs() goes on after an error and returns what the last byte gave.
fputs(m, bs) ==
    LET x[i \in 0 .. Len(bs)] == IF i = 0 THEN [m EXCEPT !.r = 0] ELSE putc(x[i - 1], bs[i])
    IN  x[Len(bs)]

puts(m, bs) == putc(fputs(m, bs), NL)

\* fwrite() looks for an error after each object, the k-th one here.
Object(x, bs, k) ==
    IF "ERR" \in x.f.flags THEN x
    ELSE LET y == fputs(x, bs) IN [y EXCEPT !.r = IF "ERR" \in y.f.flags THEN k - 1 ELSE k]

fwrite(m, bs, size) ==
    LET n == Len(bs) \div size
        x[k \in 0 .. n] == IF k = 0 THEN [m EXCEPT !.r = 0]
                           ELSE Object(x[k - 1], SubSeq(bs, (k - 1) * size + 1, k * size), k)
    IN  x[n]

-----------------------------------------------------------------------------
(* Position, buffering, opening and closing                                *)

ungetc(m, ch) ==
    IF "WRITE" \in m.f.flags \/ m.f.rp = 0 \/ wp(m) # 0 THEN [m EXCEPT !.r = EOF]
    ELSE [m EXCEPT !.f.rp = @ - 1, !.f.mem[m.f.rp] = ch, !.f.flags = @ \ {"EOF"}, !.r = ch]

\* The buffer is not discarded.
fseek(m, off, whence) ==
    IF "ERR" \in m.f.flags THEN [m EXCEPT !.r = EOF]
    ELSE LET a == IF "WRITE" \in m.f.flags THEN _flsbuf(m) ELSE [m EXCEPT !.r = 0]
             o == IF whence = "CUR" /\ "READ" \in m.f.flags THEN off - (wp(m) - m.f.rp) ELSE off
             p == o + (CASE whence = "SET" -> 0 [] whence = "CUR" -> a.d.off [] OTHER -> Len(a.t))
         IN IF a.r = EOF THEN a
            ELSE IF p < 0 THEN [a EXCEPT !.r = EOF]
            ELSE [a EXCEPT !.d.off = p, !.r = 0,
                           !.f.flags = (@ \ {"EOF"}) \ (IF "RW" \in @ THEN {"READ", "WRITE"} ELSE {})]

rewind(m) ==
    LET a == fseek([m EXCEPT !.f.flags = @ \ {"ERR"}], 0, "SET") IN
    [a EXCEPT !.f.flags = @ \ {"ERR", "EOF"}, !.r = 0]

ftell(m) ==
    [m EXCEPT !.r = IF "ERR" \in m.f.flags THEN EOF
                    ELSE IF "READ" \in m.f.flags THEN m.d.off - (wp(m) - m.f.rp)
                    ELSE IF "WRITE" \in m.f.flags
                    THEN m.d.off + (IF "LBF" \in m.f.flags THEN m.f.lp ELSE wp(m))
                    ELSE m.d.off]

\* setvbuf(), with a buffer of the program of len bytes or without (0).
setvbuf(m, len, mode) ==
    LET a == _flsbuf(m)
        l == CASE mode = "NBF" -> 1 [] mode # "NBF" /\ len # 0 -> len [] OTHER -> m.f.len
        p == CASE mode = "NBF" -> "unbuf" [] mode # "NBF" /\ len # 0 -> "user" [] OTHER -> m.f.buf
    IN IF a.r = EOF THEN a
       ELSE IF mode \notin Modes THEN [a EXCEPT !.r = EOF]
       ELSE [a EXCEPT !.f.mem = << >>, !.f.rp = 0, !.f.lp = l, !.f.buf = p, !.f.len = l, !.r = 0,
                      !.f.flags = (@ \ Modes) \cup {mode}]

clearerr(m) == [m EXCEPT !.f.flags = @ \ {"ERR", "EOF"}, !.r = 0]

\* The pointers keep their values, and the flags the buffering.
fclose(m) ==
    LET a == IF m.f.flags \cap Dirs = {} THEN [m EXCEPT !.r = EOF] ELSE _flsbuf(m)
    IN [a EXCEPT !.d = NoFd, !.f.flags = @ \cap Modes]

\* The mode of _fpopen: the directions, {} for EINVAL.
Acc(mode) ==
    IF \/ mode = << >> \/ Head(mode) \notin {"r", "w", "a"}
       \/ \E i \in 2 .. Len(mode) : mode[i] \notin {"+", "b", "t"}
       \/ \E i, j \in 2 .. Len(mode) : i # j /\ mode[i] = mode[j] /\ mode[i] # "t"
    THEN {}
    ELSE (IF Head(mode) = "r" \/ Contains(mode, "+") THEN {"in"} ELSE {})
         \cup (IF Head(mode) # "r" \/ Contains(mode, "+") THEN {"out"} ELSE {})
         \cup (IF Head(mode) = "a" THEN {"app"} ELSE {})

\* open(): O_CREAT with "w" and "a", and O_EXCL with "t".
_open(mode, there) == IF Head(mode) = "r" THEN there
                      ELSE ~(there /\ Contains(mode, "t"))

_fpopen(m, f, mode, there) ==
    IF Acc(mode) = {} \/ ~_open(mode, there) THEN [m EXCEPT !.r = NULL]
    ELSE [m EXCEPT !.d = Fd(f, Acc(mode)),
                   !.t = IF Head(mode) = "w" THEN << >> ELSE @,
                   !.f.buf = "NULL", !.f.mem = << >>, !.f.rp = 0, !.f.lp = 0,
                   !.f.flags = @ \cup (CASE {"in", "out"} \subseteq Acc(mode) -> {"RW"}
                                         [] "out" \notin Acc(mode) -> {"READ"}
                                         [] "in" \notin Acc(mode) -> {"WRITE"}),
                   !.r = 0]

-----------------------------------------------------------------------------
(* The program.  It keeps to C99 7.19.5.3p6 (input does not follow output, *)
(* or output input, without a call that separates them), calls setvbuf()   *)
(* first, opens a file once at a time, and leaves a stream alone after an  *)
(* error until the error is cleared.                                       *)

Running == ret.call.op # "exit"
Able(s, e) == Running /\ s = main /\ (faults < MaxFaults \/ e \in {"well", "short"})
Is(fl, s) == fl \in iob[s].flags
Both(s) == {"in", "out"} \subseteq fds[s].acc
Bytes(s) == iob[s].mem
Unwritten(s) == IF Is("READ", s) THEN << >> ELSE Bytes(s)

\* Where the bytes not written yet will go.
At(s) == IF "app" \in fds[s].acc /\ Unwritten(s) # << >> THEN Len(file[fds[s].file]) ELSE fds[s].off

MayRead(s) ==
    /\ fds[s].open /\ ~Is("ERR", s) /\ dir[s] # "out"
    /\ "in" \in fds[s].acc \/ Unwritten(s) = << >>
MayWrite(s, bs) ==
    /\ fds[s].open /\ ~Is("ERR", s)
    /\ At(s) + Len(Unwritten(s)) + Len(bs) <= MaxLen
    /\ "app" \in fds[s].acc => Len(file[fds[s].file]) + Len(Unwritten(s)) + Len(bs) <= MaxLen
    /\ Both(s) /\ dir[s] = "in" => Is("EOF", s) /\ ("eofwrite" \in Deviations \/ ~Is("READ", s))

\* fseek() keeps the buffer, so that what is read next is old and what is
\* written next goes out with it; and a full buffer of an update stream
\* takes bytes that __putc does not see.
MaySeek(s) ==
    /\ fds[s].open
    /\ \/ "seekread" \in Deviations
       \/ ~Is("READ", s)
       \/ iob[s].rp = Len(Bytes(s)) /\ (Both(s) => iob[s].rp = 0)
    /\ "seekfull" \in Deviations \/ Is("READ", s) \/ ~(Both(s) /\ iob[s].rp > 0)
\* ftell() takes lp for the end of the bytes not written, and adds them to
\* the offset also when they will be appended.
MayTell(s) ==
    /\ fds[s].open /\ ~Is("ERR", s)
    /\ "tell" \in Deviations \/ ~(Is("LBF", s) /\ Is("WRITE", s) /\ ~Is("READ", s) /\ iob[s].lp # Len(Bytes(s)))
    /\ "tell" \in Deviations \/ ~("app" \in fds[s].acc /\ Unwritten(s) # << >>)
\* What could not be written is still in the buffer.
MayClear(s) == fds[s].open /\ ("retry" \in Deviations \/ s \notin bad)

-----------------------------------------------------------------------------
(* The calls                                                               *)

Machine(s, mood) ==
    [f |-> iob[s], d |-> fds[s], t |-> IF fds[s].open THEN file[fds[s].file] ELSE << >>,
     mood |-> mood, r |-> 0, got |-> << >>, bad |-> FALSE, flushall |-> flushall]

Commit(c, s, m, d, val) ==
    /\ iob' = [iob EXCEPT ![s] = m.f]
    /\ fds' = [fds EXCEPT ![s] = m.d]
    /\ flushall' = m.flushall
    /\ ret' = [call |-> c, val |-> <<val>> \o m.got]
    /\ faults' = faults + (IF m.bad THEN 1 ELSE 0)
    /\ main' = main
    /\ dir' = [dir EXCEPT ![s] = d]

\* A call on an open stream.
On(c, m, d) ==
    /\ Commit(c, c.s, m, d, m.r)
    /\ file' = IF fds[c.s].open THEN [file EXCEPT ![fds[c.s].file] = m.t] ELSE file
    /\ bad' = bad \cup (IF m.bad THEN {c.s} ELSE {})
    /\ UNCHANGED exists

Getc(c, e) == Able(c.s, e) /\ MayRead(c.s) /\ On(c, getc(Machine(c.s, e)), "in")
Fgets(c, e) == Able(c.s, e) /\ MayRead(c.s) /\ On(c, fgets(Machine(c.s, e), c.n), "in")
Gets(c, e) == Able(0, e) /\ MayRead(0) /\ On(c, gets(Machine(0, e)), "in")
Fread(c, e) == Able(c.s, e) /\ MayRead(c.s) /\ On(c, fread(Machine(c.s, e), c.size, c.n), "in")
Putc(c, e) == Able(c.s, e) /\ MayWrite(c.s, c.bytes)
              /\ On(c, putc(Machine(c.s, e), c.bytes[1]), "out")
Fputs(c, e) == Able(c.s, e) /\ MayWrite(c.s, c.bytes)
               /\ On(c, fputs(Machine(c.s, e), c.bytes), "out")
Puts(c, e) == Able(1, e) /\ MayWrite(1, c.bytes \o <<NL>>)
              /\ On(c, puts(Machine(1, e), c.bytes), "out")
Fwrite(c, e) == Able(c.s, e) /\ MayWrite(c.s, c.bytes)
                /\ On(c, fwrite(Machine(c.s, e), c.bytes, c.size), "out")
\* The program pushes back the byte it has just read.
Ungetc(c) ==
    /\ Able(c.s, "well") /\ fds[c.s].open /\ dir[c.s] = "in" /\ iob[c.s].rp \in 1 .. Len(Bytes(c.s))
    /\ On(c, ungetc(Machine(c.s, "well"), Bytes(c.s)[iob[c.s].rp]), "in")
Fseek(c, e) ==
    /\ Able(c.s, e) /\ MaySeek(c.s) /\ ~Is("ERR", c.s)
    /\ LET m == fseek(Machine(c.s, e), c.off, c.whence) IN
       On(c, m, IF m.r = 0 THEN "none" ELSE dir[c.s])
Rewind(c, e) == Able(c.s, e) /\ MaySeek(c.s) /\ MayClear(c.s)
                /\ On(c, rewind(Machine(c.s, e)), "none")
Ftell(c) == Able(c.s, "well") /\ MayTell(c.s) /\ On(c, ftell(Machine(c.s, "well")), dir[c.s])
Clearerr(c) == Able(c.s, "well") /\ MayClear(c.s)
                  /\ On(c, clearerr(Machine(c.s, "well")), dir[c.s])
\* The stream of fflush() has not been read last.
Fflush(c, e) == Able(c.s, e) /\ fds[c.s].open /\ dir[c.s] # "in" /\ ~Is("ERR", c.s)
                /\ On(c, _flsbuf(Machine(c.s, e)), "none")
Setvbuf(c, e) == Able(c.s, e) /\ fds[c.s].open /\ dir[c.s] = "fresh"
                 /\ On(c, setvbuf(Machine(c.s, e), c.len, c.mode), "fresh")
Fclose(c, e) == Able(c.s, e) /\ On(c, fclose(Machine(c.s, e)), "none")

InUse(f) == \E s \in Slots : fds[s].open /\ fds[s].file = f

\* The first entry that no flag says is in use.
FreeSlots == {s \in Slots : iob[s].flags \cap Dirs = {}}
Fopen(c) ==
    /\ Running /\ ~InUse(c.file)
    /\ FreeSlots # {} => Min(FreeSlots) = main
    /\ IF FreeSlots = {}
       THEN /\ Commit(c, 0, Machine(0, "well"), dir[0], NULL)
            /\ UNCHANGED <<file, exists, bad>>
       ELSE LET s == Min(FreeSlots)
                m == _fpopen([Machine(s, "well") EXCEPT !.t = file[c.file]], c.file, c.mode, c.file \in exists)
            IN /\ Commit(c, s, m, "fresh", IF m.r = NULL THEN NULL ELSE s)
               /\ file' = [file EXCEPT ![c.file] = m.t]
               /\ exists' = IF m.r = NULL THEN exists ELSE exists \cup {c.file}
               /\ bad' = IF m.r = NULL THEN bad ELSE bad \ {s}

\* A stream that cannot be closed is not opened again.
Freopen(c, e) ==
    /\ Able(c.s, e) /\ (InUse(c.file) => fds[c.s].open /\ fds[c.s].file = c.file)
    /\ LET a == fclose(Machine(c.s, e))
           closed == IF fds[c.s].open THEN [file EXCEPT ![fds[c.s].file] = a.t] ELSE file
           m == IF a.r = EOF THEN [a EXCEPT !.r = NULL]
                ELSE _fpopen([a EXCEPT !.t = closed[c.file]], c.file, c.mode, c.file \in exists)
       IN /\ Commit(c, c.s, m, "fresh", IF m.r = NULL THEN NULL ELSE c.s)
          /\ file' = IF a.r = EOF THEN closed ELSE [closed EXCEPT ![c.file] = m.t]
          /\ exists' = IF m.r = NULL THEN exists ELSE exists \cup {c.file}
          /\ bad' = IF m.bad THEN bad \cup {c.s} ELSE bad \ {c.s}

\* exit(): cleanup() flushes the streams whose flags say they are written.
Exit(c, e) ==
    /\ Able(main, e)
    /\ LET m == [s \in Slots |-> IF flushall /\ Is("WRITE", s) THEN _flsbuf(Machine(s, e)) ELSE Machine(s, e)]
           failed == {s \in Slots : m[s].bad}
       IN /\ iob' = [s \in Slots |-> m[s].f]
          /\ fds' = [s \in Slots |-> m[s].d]
          /\ file' = [f \in Files |-> IF InUse(f)
                                      THEN m[CHOOSE s \in Slots : fds[s].open /\ fds[s].file = f].t
                                      ELSE file[f]]
          /\ bad' = bad \cup failed
          /\ faults' = faults + Cardinality(failed)
    /\ ret' = [call |-> c, val |-> <<0>>]
    /\ UNCHANGED <<exists, flushall, main, dir>>

Terminated == ~Running /\ UNCHANGED vars

Init ==
    /\ iob = iob0
    /\ fds = [s \in Slots |-> CASE s = 0 -> Fd(StdFile[0], {"in"})
                                [] s \in 1 .. 2 -> Fd(StdFile[s], {"out"})
                                [] OTHER -> NoFd]
    /\ file \in {t \in [Files -> UNION {Texts[f] : f \in Files}] : \A f \in Files : t[f] \in Texts[f]}
    /\ \E absent \in SUBSET {f \in Files \ ToSet([i \in 1 .. 3 |-> StdFile[i - 1]]) : file[f] = << >>} :
          exists = Files \ absent
    /\ flushall = FALSE
    /\ ret = [call |-> [op |-> "start"], val |-> <<0>>]
    /\ bad = {} /\ faults = 0
    /\ main \in Used
    /\ dir = [s \in Slots |-> "fresh"]

Ops == {"getc", "fgets", "gets", "fread", "putc", "fputs", "puts", "fwrite", "ungetc", "fseek", "rewind",
        "ftell", "clearerr", "fflush", "setvbuf", "fclose", "fopen", "freopen", "exit"}
CallsOf == [op \in Ops |-> {c \in Calls : c.op = op}]

Next ==
    \/ \E e \in ReadMoods :
        \/ \E c \in CallsOf["getc"]  : Getc(c, e)
        \/ \E c \in CallsOf["fgets"] : Fgets(c, e)
        \/ \E c \in CallsOf["gets"]  : Gets(c, e)
        \/ \E c \in CallsOf["fread"] : Fread(c, e)
    \/ \E e \in WriteMoods :
        \/ \E c \in CallsOf["putc"]   : Putc(c, e)
        \/ \E c \in CallsOf["fputs"]  : Fputs(c, e)
        \/ \E c \in CallsOf["puts"]   : Puts(c, e)
        \/ \E c \in CallsOf["fwrite"] : Fwrite(c, e)
    \/ \E e \in FlushMoods :
        \/ \E c \in CallsOf["fseek"]   : Fseek(c, e)
        \/ \E c \in CallsOf["rewind"]  : Rewind(c, e)
        \/ \E c \in CallsOf["fflush"]  : Fflush(c, e)
        \/ \E c \in CallsOf["setvbuf"] : Setvbuf(c, e)
        \/ \E c \in CallsOf["fclose"]  : Fclose(c, e)
        \/ \E c \in CallsOf["freopen"] : Freopen(c, e)
        \/ \E c \in CallsOf["exit"]    : Exit(c, e)
    \/ \E c \in CallsOf["ungetc"]   : Ungetc(c)
    \/ \E c \in CallsOf["ftell"]    : Ftell(c)
    \/ \E c \in CallsOf["clearerr"] : Clearerr(c)
    \/ \E c \in CallsOf["fopen"]    : Fopen(c)
    \/ Terminated

Spec == Init /\ [][Next]_vars

-----------------------------------------------------------------------------
(* Correctness                                                             *)

Content ==
    [f \in Files |-> IF InUse(f)
                     THEN LET s == CHOOSE s \in Slots : fds[s].open /\ fds[s].file = f
                          IN Overlay(file[f], At(s), Unwritten(s))
                     ELSE file[f]]
Streams ==
    [s \in Slots |->
        IF ~fds[s].open THEN [open |-> FALSE]
        ELSE [open |-> TRUE, file |-> fds[s].file, acc |-> fds[s].acc,
              eof |-> Is("EOF", s), err |-> Is("ERR", s),
              pos |-> IF Is("READ", s) THEN fds[s].off - (Len(Bytes(s)) - iob[s].rp)
                      ELSE At(s) + Len(Unwritten(s))]]

C99 == INSTANCE CStream WITH content <- Content, str <- Streams,
                             Pushback <- "ungetc" \in Deviations

\* Buffering cannot be seen: reads, writes, seeks and tells give the
\* results, and leave the files and indicators, of unbuffered streams, and
\* a failure of the system is reported by the call that meets it.
Unbuffered == C99!Spec

\* A program that ends with exit() has written all its bytes, except on
\* streams where the system failed: cleanup() was installed, and every
\* stream with bytes in its buffer has _IOWRITE.
NothingLost == ~Running => \A s \in Slots : fds[s].open /\ s \notin bad => Unwritten(s) = << >>

\* No byte is stored outside of a buffer: the macro putc() stores below rp,
\* and __putc() looks for room in each of its three ways.
InBounds == \A s \in Slots : /\ ~iob[s].over
                             /\ Is("READ", s) => iob[s].rp <= Len(Bytes(s))

\* A byte just read from a stream can be pushed back, which ungetc.c says
\* it does; this library never does.
PushedBack == ret.call.op = "ungetc" => ret.val # <<EOF>>
=============================================================================
