------------------------------ MODULE MCStdio ------------------------------
(***************************************************************************)
(* Calls for TLC.  The program works with the standard input, the standard *)
(* output or a stream that it opens in any mode.  A buffer has two bytes   *)
(* or one, and a file at most two.                                         *)
(***************************************************************************)
EXTENDS Stdio

MCFiles == {"in", "out", "err", "f"}
MCStdFile == [i \in 0 .. 2 |-> CASE i = 0 -> "in" [] i = 1 -> "out" [] i = 2 -> "err"]
MCTexts == [f \in MCFiles |-> CASE f = "in" -> {<<1, NL>>}
                                [] f = "f"  -> {<< >>, <<1, NL>>}
                                [] OTHER    -> {<< >>}]

MCModes == {<<"r">>, <<"w">>, <<"a">>, <<"r", "+">>, <<"w", "b", "+">>, <<"a", "+">>,
            <<"r", "+", "+">>, <<"w", "t">>}
\* What the next calls depend on: of the last call, only whether it was
\* exit(), and of a closed stream what _fpopen() does not set.
MCView == <<[s \in Slots |-> IF fds[s].open THEN iob[s] ELSE [flags |-> iob[s].flags, len |-> iob[s].len]],
            fds, file, exists, flushall, bad, faults, main, dir, Running>>

MCCalls ==
    [op : {"getc"}, s : {0, 3}] \cup [op : {"gets"}, s : {0}]
    \cup [op : {"putc"}, s : {1, 3}, bytes : {<<1>>}]
    \cup [op : {"puts"}, s : {1}, bytes : {<<1>>}]
    \cup [op : {"fflush", "fclose"}, s : {1, 3}]
    \cup [op : {"freopen"}, s : {1}, file : {"f"}, mode : {<<"a">>}]
    \cup [op : {"fopen"}, file : {"f"}, mode : MCModes]
    \cup [op : {"ftell", "rewind", "clearerr", "ungetc"}, s : {3}]
    \cup [op : {"fgets"}, s : {3}, n : {3}]
    \cup [op : {"fread"}, s : {3}, size : {2}, n : {2}]
    \cup [op : {"fputs"}, s : {3}, bytes : {<<NL, 1>>}]
    \cup [op : {"fwrite"}, s : {3}, bytes : {<<1, 1>>}, size : {1}]
    \cup [op : {"fseek"}, s : {3}, off : {1}, whence : {"SET"}]
    \cup [op : {"fseek"}, s : {3}, off : {-1}, whence : {"CUR"}]
    \cup [op : {"fseek"}, s : {3}, off : {0}, whence : {"END"}]
    \cup [op : {"setvbuf"}, s : {3}, len : {0}, mode : {"FBF", "LBF", "NBF"}]
    \cup [op : {"setvbuf"}, s : {3}, len : {1}, mode : {"FBF", "none"}]
    \cup [op : {"exit"}]
=============================================================================
