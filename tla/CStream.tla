------------------------------ MODULE CStream ------------------------------
(***************************************************************************)
(* What C99 7.19 promises of streams: a stream is a position in a file,    *)
(* two indicators and the directions it was opened for, and there are no   *)
(* buffers.  The last call and its result are ret.  A stream in bad has    *)
(* met a failure of the system: the call that met it must say so, and then *)
(* nothing is promised of the stream and of its file until it is closed.   *)
(***************************************************************************)
EXTENDS Integers, Sequences, SequencesExt, FiniteSetsExt

CONSTANTS
    Slots,      \* the entries of __iob
    Files,
    Calls,      \* the calls a program may make
    Pushback    \* one byte can always be pushed back

VARIABLES content, str, ret, bad

EOF == -1
NULL == -2
NL == 10

\* The text t after writing bs at offset p.
Overlay(t, p, bs) ==
    [i \in 1 .. Max({Len(t), IF bs = << >> THEN 0 ELSE p + Len(bs)}) |->
        IF i > p /\ i <= p + Len(bs) THEN bs[i - p]
        ELSE IF i <= Len(t) THEN t[i] ELSE 0]

Closed == [open |-> FALSE]
Opened(f, acc) == [open |-> TRUE, file |-> f, pos |-> 0, eof |-> FALSE, err |-> FALSE, acc |-> acc]

\* The directions of a mode, a sequence of characters; {} when it is none.
Plus(mode) == Contains(mode, "+")
Acc(mode) ==
    IF \/ mode = << >> \/ Head(mode) \notin {"r", "w", "a"}
       \/ \E i \in 2 .. Len(mode) : mode[i] \notin {"+", "b", "t"}
       \/ \E i, j \in 2 .. Len(mode) : i # j /\ mode[i] = mode[j] /\ mode[i] # "t"
    THEN {}
    ELSE (IF Head(mode) = "r" \/ Plus(mode) THEN {"in"} ELSE {})
         \cup (IF Head(mode) # "r" \/ Plus(mode) THEN {"out"} ELSE {})
         \cup (IF Head(mode) = "a" THEN {"app"} ELSE {})

-----------------------------------------------------------------------------

\* What the function returns, and the bytes an input function stores.
Result(val, got) == ret'.val = <<val>> \o got

\* The bytes an input call takes: at most max, up to the first in stop.
TakeUntil(t, max, stop) ==
    LET n == Min({max, Len(t)})
        hits == {i \in 1 .. n : t[i] \in stop}
    IN SubSeq(t, 1, IF hits = {} THEN n ELSE Min(hits))

\* An input call of at most max bytes; val(got) is its result and
\* keep(_) says which of the bytes it stores.
Input(s, max, stop, val(_), keep(_)) ==
    LET t == content[str[s].file]
        got == TakeUntil(IF str[s].eof \/ "in" \notin str[s].acc THEN << >>
                         ELSE SubSeq(t, str[s].pos + 1, Len(t)), max, stop)
        short == Len(got) < max /\ (got = << >> \/ Last(got) \notin stop)
    IN /\ Result(val(got), SelectSeq(got, keep))
       /\ str' = [str EXCEPT ![s].pos = @ + Len(got),
                             ![s].eof = @ \/ (short /\ "in" \in str[s].acc),
                             ![s].err = @ \/ "in" \notin str[s].acc]
       /\ UNCHANGED content

\* An output call of the bytes bs; ok is its result when they are written.
Output(s, bs, ok, fail) ==
    LET f == str[s].file
        p == IF "app" \in str[s].acc THEN Len(content[f]) ELSE str[s].pos
    IN IF "out" \in str[s].acc
       THEN /\ content' = [content EXCEPT ![f] = Overlay(@, p, bs)]
            /\ str' = [str EXCEPT ![s].pos = p + Len(bs)]
            /\ Result(ok, << >>)
       ELSE /\ str' = [str EXCEPT ![s].err = TRUE]
            /\ Result(fail, << >>)
            /\ UNCHANGED content

\* Pushing the last byte read back gives it to the next input call.
Ungetc(s) ==
    \/ /\ str' = [str EXCEPT ![s].pos = @ - 1, ![s].eof = FALSE]
       /\ Result(content[str[s].file][str[s].pos], << >>)
       /\ UNCHANGED content
    \/ ~Pushback /\ Result(EOF, << >>) /\ UNCHANGED <<content, str>>

SeekTo(s, p) ==
    /\ Result(IF p < 0 THEN EOF ELSE 0, << >>)
    /\ str' = IF p < 0 THEN str ELSE [str EXCEPT ![s].pos = p, ![s].eof = FALSE]
    /\ UNCHANGED content
Rewind(s) ==
    /\ Result(0, << >>)
    /\ str' = [str EXCEPT ![s].pos = 0, ![s].eof = FALSE, ![s].err = FALSE]
    /\ UNCHANGED content
Clearerr(s) ==
    /\ Result(0, << >>)
    /\ str' = [str EXCEPT ![s].eof = FALSE, ![s].err = FALSE]
    /\ UNCHANGED content

\* Opening takes a closed stream, or fails and changes nothing but the
\* stream that freopen() has closed.
OpenOn(s, strs, c) ==
    \/ /\ Acc(c.mode) # {}
       /\ str' = [strs EXCEPT ![s] = Opened(c.file, Acc(c.mode))]
       /\ content' = IF Head(c.mode) = "w" THEN [content EXCEPT ![c.file] = << >>] ELSE content
       /\ Result(s, << >>)
    \/ str' = strs /\ UNCHANGED content /\ Result(NULL, << >>)
Fclose(s) ==
    /\ Result(IF str[s].open THEN 0 ELSE EOF, << >>)
    /\ str' = [str EXCEPT ![s] = Closed]
    /\ UNCHANGED content

\* A call that met a failure of the system, or comes after one.  Only
\* rewind() and exit() have no way to tell.
Failed(s) ==
    /\ s \in bad'
    /\ s \notin bad /\ ret'.call.op \notin {"rewind", "exit"}
       => ret'.val[1] \in {EOF, NULL} \/ str'[s].err
    /\ \A x \in Slots \ {s} : str'[x] = str[x]
    /\ \A f \in Files : f = str[s].file \/ content'[f] = content[f]

OrNull(got) == IF got = << >> THEN NULL ELSE 0
All(b) == TRUE
None(b) == FALSE

Do(s, c) ==
    CASE c.op = "getc"   -> Input(s, 1, {}, LAMBDA got : IF got = << >> THEN EOF ELSE got[1], None)
      [] c.op = "fgets"  -> Input(s, c.n - 1, {NL}, OrNull, All)
      [] c.op = "fread"  -> Input(s, c.size * c.n, {}, LAMBDA got : Len(got) \div c.size, All)
      [] c.op = "gets"   -> Input(s, Len(content[str[s].file]) + 1, {NL},
                                  OrNull, LAMBDA b : b # NL)
      [] c.op = "putc"   -> Output(s, c.bytes, c.bytes[1], EOF)
      [] c.op = "fputs"  -> Output(s, c.bytes, Last(c.bytes), EOF)
      [] c.op = "puts"   -> Output(s, c.bytes \o <<NL>>, NL, EOF)
      [] c.op = "fwrite" -> Output(s, c.bytes, Len(c.bytes) \div c.size, 0)
      [] c.op = "ungetc" -> Ungetc(s)
      [] c.op = "fseek"  -> SeekTo(s, c.off + (CASE c.whence = "SET" -> 0
                                                 [] c.whence = "CUR" -> str[s].pos
                                                 [] c.whence = "END" -> Len(content[str[s].file])))
      [] c.op = "rewind"   -> Rewind(s)
      [] c.op = "clearerr" -> Clearerr(s)
      [] c.op = "ftell"    -> Result(str[s].pos, << >>) /\ UNCHANGED <<content, str>>
      [] c.op = "fflush"   -> Result(0, << >>) /\ UNCHANGED <<content, str>>
      [] c.op = "setvbuf"  -> ret'.val \in {<<0>>, <<EOF>>} /\ UNCHANGED <<content, str>>
      [] c.op = "fclose"   -> Fclose(s)
      [] c.op = "freopen"  -> OpenOn(s, [str EXCEPT ![s] = Closed], c)

Init ==
    /\ \A s \in Slots : str[s].open => str[s].pos = 0 /\ ~str[s].eof /\ ~str[s].err
    /\ bad = {}

Call(c) ==
    /\ ret'.call = c
    /\ CASE c.op = "exit"  -> UNCHANGED <<content, str>>
         [] c.op = "fopen" -> \/ \E s \in Slots : ~str[s].open /\ OpenOn(s, str, c)
                              \/ Result(NULL, << >>) /\ UNCHANGED <<content, str>>
         [] OTHER          -> Do(c.s, c)

Next == \E c \in Calls \cap {ret'.call} :
    \/ Call(c)
    \/ c.op \notin {"fopen", "exit"} /\ ret'.call = c /\ Failed(c.s)
    \/ c.op = "exit" /\ ret'.call = c /\ bad' # {}

Spec == Init /\ [][Next]_<<content, str, ret, bad>>
=============================================================================
