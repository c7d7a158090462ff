------------------------------ MODULE Calendar ------------------------------
(***************************************************************************)
(* gmtime() and mktime() (src/libc/time, _systime of src/libc/arch/posix):  *)
(* a caller that converts a time, changes fields of the result and converts *)
(* it back.  The functions share the table _daysmon, whose February is set  *)
(* for a year before the months of that year are counted.                   *)
(***************************************************************************)
EXTENDS Integers, Sequences, SequencesExt

CONSTANTS
    MAXYEAR,     \* _MAXYEAR of the architecture
    FIELD_MAX,   \* INT_MAX: the fields of struct tm
    Times,       \* what the caller gives to gmtime()
    Changes      \* the changes it makes: <<field, difference>>

EPOCH == 1970
MINYEAR == 1900
THU == 4
SECMIN == 60
SECHOUR == 60 * SECMIN
SECDAY == 24 * SECHOUR
JAN == 0
FEB == 1
DEC == 11

VARIABLES
    feb,       \* _daysmon[FEB], as the last call left it
    tm,        \* the structure of the caller
    time,      \* what mktime() returned, or the time given to gmtime()
    given,     \* the structure mktime() was called with
    turn       \* "start", "gmtime", "change", "changed", "mktime": the last step

calendarVars == <<feb, tm, time, given, turn>>

-----------------------------------------------------------------------------
\* Gregorian years.
_daysyear(year) ==
    IF year % 4 # 0 \/ (year % 100 = 0 /\ year % 400 # 0) THEN 365 ELSE 366
FEBDAYS(year) == IF _daysyear(year) = 366 THEN 29 ELSE 28

_daysmon(f) == [m \in 0..11 |-> IF m = FEB THEN f
                                ELSE <<31, 28, 31, 30, 31, 30, 31, 31, 30, 31, 30, 31>>[m + 1]]

_newyear(year) ==
    LET y == year + 1900 - 1
    IN (1 + y + y \div 4 - y \div 100 + y \div 400) % 7

\* The loops that take years, then months, from a number of days.
RECURSIVE TakeYears(_, _), TakeMonths(_, _, _)
TakeYears(day, i) ==
    IF day >= _daysyear(i) THEN TakeYears(day - _daysyear(i), i + 1)
    ELSE <<day, i>>
TakeMonths(day, i, f) ==
    IF day >= _daysmon(f)[i] THEN TakeMonths(day - _daysmon(f)[i], i + 1, f)
    ELSE <<day, i>>

Broken(t) ==
    LET day == t \div SECDAY
        sec == t % SECDAY
        y == TakeYears(day, EPOCH)
        m == TakeMonths(y[1], JAN, FEBDAYS(y[2]))
    IN [sec |-> sec % 60, min |-> (sec \div 60) % 60, hour |-> sec \div 3600,
        mday |-> m[1] + 1, mon |-> m[2], year |-> y[2] - 1900,
        wday |-> (day + THU) % 7, yday |-> y[1]]

gmtime ==
    /\ turn \in {"start", "mktime"}
    /\ \E t \in Times :
          /\ time' = t
          /\ tm' = Broken(t)
          /\ feb' = FEBDAYS(tm'.year + 1900)
    /\ turn' = "gmtime"
    /\ given' = <<>>

\* The caller: one field or two are changed.
Change ==
    /\ turn \in {"gmtime", "change"}
    /\ \E c \in Changes :
          /\ c[1] \in DOMAIN tm
          /\ tm' = [tm EXCEPT ![c[1]] = @ + c[2]]
    /\ turn' = IF turn = "gmtime" THEN "change" ELSE "changed"
    /\ UNCHANGED <<feb, time, given>>

-----------------------------------------------------------------------------
(* mktime().                                                                *)

\* norm(): the field val goes into 0..max-1 and next takes the carry.  A negative
\* value is raised once too often when max divides it, and lowered again.
norm(x, val, next, max) ==
    LET v == x[val]
        n == x[next]
        up == IF v < 0 THEN (-v) \div max + 1 ELSE 0
        v1 == v + up * max
        down == IF v1 >= max THEN v1 \div max ELSE 0
    IN IF (v < 0 /\ n > FIELD_MAX - up) \/ (v1 >= max /\ n - up < -FIELD_MAX - 1 + down)
       THEN [ok |-> FALSE, tm |-> x]
       ELSE [ok |-> TRUE, tm |-> [x EXCEPT ![val] = v1 - down * max, ![next] = n - up + down]]

\* The four calls of norm(); those before the one that fails have changed fields.
Normed(x) ==
    FoldLeft(LAMBDA r, c : IF r.ok THEN norm(r.tm, c[1], c[2], c[3]) ELSE r,
             [ok |-> TRUE, tm |-> x],
             <<<<"sec", "min", 60>>, <<"min", "hour", 60>>, <<"hour", "mday", 24>>,
               <<"mon", "year", 12>>>>)

\* Where the walk over the days is: a day of a month of a year, and February.
Day(day, mon, year, f) == [ok |-> TRUE, day |-> day, mon |-> mon, year |-> year, feb |-> f]
Refused(f) == [ok |-> FALSE, feb |-> f]

\* (fault) the table keeps the February of the year that the walk leaves.
RECURSIVE BadBack(_, _, _, _)
BadBack(day, mon, year, f) ==
    IF day >= 1 THEN Day(day, mon, year, f)
    ELSE IF mon > JAN THEN BadBack(day + _daysmon(f)[mon - 1], mon - 1, year, f)
    ELSE IF year = MINYEAR THEN Refused(f)
    ELSE BadBack(day + _daysmon(f)[DEC], DEC, year - 1, f)

\* The loops of normalize() over the days: back while day < 1, forward while
\* the month is over.  The year changes the table on the way.
RECURSIVE Back(_, _, _, _), Forward(_, _, _, _)
Back(day, mon, year, f) ==
    IF day >= 1 THEN Day(day, mon, year, f)
    ELSE IF mon > JAN THEN Back(day + _daysmon(f)[mon - 1], mon - 1, year, f)
    ELSE IF year = MINYEAR THEN Refused(f)
    ELSE Back(day + _daysmon(f)[DEC], DEC, year - 1, FEBDAYS(year - 1))
Forward(day, mon, year, f) ==
    LET length == _daysmon(f)[mon]
    IN IF day <= length THEN Day(day, mon, year, f)
       ELSE IF mon < DEC THEN Forward(day - length, mon + 1, year, f)
       ELSE IF year = MAXYEAR THEN Refused(f)
       ELSE Forward(day - length, JAN, year + 1, FEBDAYS(year + 1))

\* The days of the first mon months.
Before(mon, f) ==
    LET d[m \in 0..12] == IF m = 0 THEN 0 ELSE d[m - 1] + _daysmon(f)[m - 1]
    IN d[mon]

\* normalize(): the fields and the table it leaves, also when it refuses them.
normalize(x, f) ==
    LET r == Normed(x)
        year == MINYEAR + r.tm.year
        b == Back(r.tm.mday, r.tm.mon, year, FEBDAYS(year))
        d == IF b.ok THEN Forward(b.day, b.mon, b.year, b.feb) ELSE b
        yday == Before(d.mon, d.feb) + d.day - 1
    IN IF ~r.ok \/ r.tm.year < 0 \/ year > MAXYEAR
       THEN [ok |-> FALSE, tm |-> r.tm, feb |-> f]
       ELSE IF ~d.ok
       THEN [ok |-> FALSE, tm |-> r.tm, feb |-> d.feb]
       ELSE [ok |-> TRUE, feb |-> d.feb,
             tm |-> [r.tm EXCEPT !.mday = d.day, !.mon = d.mon, !.year = d.year - MINYEAR,
                                 !.yday = yday, !.wday = (_newyear(d.year - MINYEAR) + yday) % 7]]

\* _systime(): the years from EPOCH on, with the table as it is.
_systime(x, f) ==
    LET y[i \in EPOCH..(MAXYEAR + 1)] ==
            IF i = EPOCH THEN 0 ELSE y[i - 1] + _daysyear(i - 1) * SECDAY
        year == x.year + MINYEAR
    IN (IF year <= EPOCH THEN 0 ELSE y[year])
       + (Before(x.mon, f) + x.mday - 1) * SECDAY
       + x.sec + x.min * SECMIN + x.hour * SECHOUR

mktime ==
    /\ turn \in {"gmtime", "change", "changed"}
    /\ given' = tm
    /\ LET r == normalize(tm, feb)
       IN /\ tm' = r.tm
          /\ feb' = r.feb
          /\ time' = IF r.ok THEN _systime(r.tm, r.feb) ELSE -1
    /\ turn' = "mktime"

NextCalendar == gmtime \/ Change \/ mktime

-----------------------------------------------------------------------------
(* What they promise.                                                       *)

\* The days from 1970-01-01 to the first of a month, counted in years that
\* begin in March.
DaysTo(year, mon) ==
    LET y == IF mon < 2 THEN year - 1 ELSE year
        m == (mon + 10) % 12
    IN 365 * y + y \div 4 - y \div 100 + y \div 400
       + (153 * m + 2) \div 5 - 719468

\* The time the fields stand for, whatever their ranges.
Exact(x) ==
    (DaysTo(MINYEAR + x.year + x.mon \div 12, x.mon % 12) + x.mday - 1) * SECDAY
    + x.hour * SECHOUR + x.min * SECMIN + x.sec

\* mktime() takes fields out of their ranges for the time they add up to, and
\* gives back the fields, the day of the week and of the year that gmtime()
\* gives for it, whatever year the calls before it were about.  It refuses
\* only what is behind MAXYEAR.  Times before 1970 are not said.
Dates ==
    /\ turn = "gmtime" => Exact(tm) = time /\ tm.yday = Before(tm.mon, feb) + tm.mday - 1
    /\ turn = "mktime" =>
          LET exact == Exact(given)
          IN  /\ time # -1 /\ exact >= 0 => time = exact /\ tm = Broken(exact)
              /\ time = -1 /\ exact >= 0 =>
                    \/ MINYEAR + given.year + given.mon \div 12 > MAXYEAR
                    \/ Broken(exact).year + 1900 > MAXYEAR
=============================================================================
