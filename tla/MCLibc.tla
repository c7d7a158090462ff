------------------------------- MODULE MCLibc -------------------------------
(***************************************************************************)
(* The computing functions of libc, composed: a program converts a string,  *)
(* or handles a date.  The types have six bits, the years end in 2001.      *)
(***************************************************************************)
EXTENDS Convert, Calendar

CONSTANTS
    Bases,       \* the bases given to the strto functions
    MaxDigits    \* bound on the characters behind the sign

CalendarIdle == feb = 28 /\ tm = <<>> /\ time = 0 /\ given = <<>> /\ turn = "idle"

Init ==
    \/ /\ CalendarIdle
       /\ \/ \E f \in Signed \cup Unsigned, s \in Strings, b \in Bases : Call(f, s, b)
          \/ \E f \in Ato, s \in Strings : Call(f, s, 10)
    \/ /\ feb = 28 /\ tm = <<>> /\ time = 0 /\ given = <<>> /\ turn = "start"
       /\ Call("atoi", <<"NUL">>, 10)

Next ==
    \/ turn = "idle" /\ NextConvert /\ UNCHANGED calendarVars
    \/ NextCalendar /\ UNCHANGED convertVars
    \/ turn = "idle" /\ ~Running /\ UNCHANGED <<convertVars, calendarVars>>

Spec == Init /\ [][Next]_<<convertVars, calendarVars>>

-----------------------------------------------------------------------------
Letters == {"0", "1", "2", "3", "f", "x"}
MCStrings ==
    {p \o b \o <<"NUL">> :
        p \in {<<>>, <<" ">>, <<"-">>, <<"+">>, <<" ", "-">>},
        b \in UNION {[1..k -> Letters] : k \in 0..MaxDigits}}

\* The ends of years and of Februaries, ordinary, leap and secular.
MCTimes ==
    {d * SECDAY + s : d \in {DaysTo(y, m) - 1 : y \in {1970, 1972, 1973, 1999, 2000, 2001},
                             m \in {1, 2}} \cup {0, 364, 789},
                      s \in {0, 86399}}

MCChanges == {<<"sec", -60>>, <<"sec", 121>>, <<"min", -61>>, <<"hour", 49>>, <<"mday", -1>>,
              <<"mday", 366>>, <<"mday", -400>>, <<"mon", -12>>, <<"mon", 13>>,
              <<"year", 1>>}
=============================================================================
