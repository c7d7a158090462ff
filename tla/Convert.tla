------------------------------ MODULE Convert ------------------------------
(***************************************************************************)
(* The conversions of strings to integers: strtol() and its five copies     *)
(* (src/libc/stdlib, src/libc/inttypes), atoi(), atol() and atoll().  One   *)
(* action per turn of the loop over the digits, with the overflow tests in  *)
(* the order of the code.  The limits of the types are constants; the       *)
(* arithmetic of a type wraps, as the builds do.                            *)
(***************************************************************************)
EXTENDS Integers, Sequences

CONSTANTS
    INT_MAX, LONG_MAX, LLONG_MAX, INTMAX_MAX,   \* limits of the types
    Strings      \* what can be converted, each ending in "NUL"

INT_MIN == -INT_MAX - 1
LONG_MIN == -LONG_MAX - 1
LLONG_MIN == -LLONG_MAX - 1
INTMAX_MIN == -INTMAX_MAX - 1

\* The maximum of a type and of its unsigned counterpart.
MaxOf(min) == -(min + 1)
UMaxOf(min) == 2 * MaxOf(min) + 1

\* C truncates a quotient; min is negative and b positive.
Quotient(min, b) == -((-min) \div b)
Wrap(v, min) == ((v - min) % (-2 * min)) + min

\* _dtoi(): the value of a digit; the terminating character is found behind
\* the digits, as the 37th.
_dtoi(c) == CASE c = "0" -> 0 [] c = "1" -> 1 [] c = "2" -> 2 [] c = "3" -> 3
              [] c = "f" -> 15 [] c = "x" -> 33 [] c = "NUL" -> 36
              [] OTHER -> MaxOf(INT_MIN)

VARIABLES
    fn, str, base,    \* the call
    neg,              \* a minus sign was read
    from, t,          \* the first digit and the next character to look at
    n,                \* the number: not positive in the signed functions
    ret               \* [value, end, erange] once it has returned

convertVars == <<fn, str, base, neg, from, t, n, ret>>

Signed == {"strtol", "strtoll", "strtoimax"}
Unsigned == {"strtoul", "strtoull", "strtoumax"}
Ato == {"atoi", "atol", "atoll"}

\* The minimum of the type a function computes in.
Minimum == [f \in Signed \cup Unsigned \cup Ato |->
               CASE f = "atoi" -> INT_MIN
                 [] f \in {"strtol", "strtoul", "atol"} -> LONG_MIN
                 [] f \in {"strtoll", "strtoull", "atoll"} -> LLONG_MIN
                 [] OTHER -> INTMAX_MIN]

NotYet == [value |-> 0, end |-> -1, erange |-> FALSE]
Running == ret = NotYet

-----------------------------------------------------------------------------
(* The prefix of the string.                                                *)

SkipSpace(s) == CHOOSE i \in DOMAIN s :
                   s[i] # " " /\ \A j \in 1..(i - 1) : s[j] = " "
AfterSign(s, i) == IF s[i] \in {"-", "+"} THEN i + 1 ELSE i

\* Base 0 is decided by the string, and 0x is skipped in base 16.
Base(s, i, b) ==
    IF b # 0 THEN b
    ELSE IF s[i] # "0" THEN 10
    ELSE IF s[i + 1] = "x" THEN 16 ELSE 8
AfterX(s, i, b) ==
    IF b = 16 /\ s[i] = "0" /\ s[i + 1] = "x" THEN i + 2 ELSE i

Call(f, s, b) ==
    LET sign == SkipSpace(s)
        i == AfterSign(s, sign)
        radix == IF f \in Ato THEN 10 ELSE Base(s, i, b)
    IN  /\ fn = f /\ str = s /\ base = radix
        /\ neg = (s[sign] = "-")
        /\ from = IF f \in Ato THEN i ELSE AfterX(s, i, radix)
        /\ t = from
        /\ n = 0
        /\ ret = NotYet

-----------------------------------------------------------------------------
(* The digits.                                                              *)

digit == _dtoi(str[t])

Next1(v) ==
    /\ n' = v
    /\ t' = t + 1
    /\ UNCHANGED <<fn, str, base, neg, from, ret>>

Return(v, end, erange) ==
    /\ ret' = [value |-> v, end |-> end, erange |-> erange]
    /\ UNCHANGED <<fn, str, base, neg, from, t, n>>

\* (fault) the last test of the loop is missing.
BadSignedOverflow(min, edge) ==
    \/ n < Quotient(min, base)
    \/ -digit < min - n * base

\* The three tests of the loop: against the minimum before the
\* multiplication, before the subtraction, and for its positive counterpart.
SignedOverflow(min, edge) ==
    \/ n < Quotient(min, base)
    \/ -digit < min - n * base
    \/ n * base - digit = edge /\ ~neg

SignedDigit(min, edge) ==
    /\ Running /\ digit < base
    /\ IF SignedOverflow(min, edge)
       THEN Return(IF neg THEN min ELSE MaxOf(min), t, TRUE)
       ELSE Next1(n * base - digit)

UnsignedDigit(max) ==
    /\ Running /\ digit < base
    /\ IF n > max \div base \/ digit > max - n * base
       THEN Return(max, t, TRUE)
       ELSE Next1(n * base + digit)

\* No digit follows: end stays at the start of the string without one.
End == IF t = from THEN 1 ELSE t

SignedEnd(min) ==
    /\ Running /\ digit >= base
    /\ Return(Wrap(IF neg THEN n ELSE -n, min), End, FALSE)

UnsignedEnd(max) ==
    /\ Running /\ digit >= base
    /\ Return((IF neg THEN -n ELSE n) % (max + 1), End, FALSE)

strtol == fn = "strtol" /\ (SignedDigit(LONG_MIN, LONG_MIN) \/ SignedEnd(LONG_MIN))

\* The last test compares with LONG_MIN here too.
strtoll == fn = "strtoll" /\ (SignedDigit(LLONG_MIN, LONG_MIN) \/ SignedEnd(LLONG_MIN))

strtoimax == /\ fn = "strtoimax"
             /\ SignedDigit(INTMAX_MIN, INTMAX_MIN) \/ SignedEnd(INTMAX_MIN)

strtoul == /\ fn = "strtoul"
           /\ UnsignedDigit(UMaxOf(LONG_MIN)) \/ UnsignedEnd(UMaxOf(LONG_MIN))
strtoull == /\ fn = "strtoull"
            /\ UnsignedDigit(UMaxOf(LLONG_MIN)) \/ UnsignedEnd(UMaxOf(LLONG_MIN))
strtoumax == /\ fn = "strtoumax"
             /\ UnsignedDigit(UMaxOf(INTMAX_MIN)) \/ UnsignedEnd(UMaxOf(INTMAX_MIN))

\* The functions without tests.
Plain(min) ==
    /\ Running
    /\ IF digit < 10 THEN Next1(Wrap(n * 10 - digit, min))
       ELSE Return(Wrap(IF neg THEN n ELSE -n, min), End, FALSE)

atoi == fn = "atoi" /\ Plain(INT_MIN)
atol == fn = "atol" /\ Plain(LONG_MIN)
atoll == fn = "atoll" /\ Plain(LLONG_MIN)

NextConvert == \/ strtol \/ strtoll \/ strtoimax
               \/ strtoul \/ strtoull \/ strtoumax
               \/ atoi \/ atol \/ atoll

-----------------------------------------------------------------------------
(* What they promise.                                                       *)

\* The digits from position i on, and their value in base b.
Digits(s, i, b) ==
    LET stop == CHOOSE k \in i..Len(s) : _dtoi(s[k]) >= b
                   /\ \A j \in i..(k - 1) : _dtoi(s[j]) < b
    IN [k \in 1..(stop - i) |-> _dtoi(s[i + k - 1])]
Value(ds, b) ==
    LET v[k \in 0..Len(ds)] == IF k = 0 THEN 0 ELSE v[k - 1] * b + ds[k]
    IN v[Len(ds)]

\* The value of the string is returned when the type has it, and otherwise
\* the nearest limit, with errno; the signed functions reach the minimum
\* without leaving the type on the way.  end is behind the digits.  The
\* functions of the ato family are only bound by it inside the type.
Converts ==
    LET ds == Digits(str, from, base)
        v == Value(ds, base)
        min == Minimum[fn]
        exact == IF neg THEN -v ELSE v
        fits == IF fn \in Unsigned THEN v <= UMaxOf(min)
                ELSE exact \in min..MaxOf(min)
    IN  /\ fn \in Signed => n \in min..0
        /\ fn \in Unsigned => n \in 0..UMaxOf(min)
        /\ ~Running /\ fits =>
              ret = [value |-> IF fn \in Unsigned THEN exact % (UMaxOf(min) + 1)
                               ELSE exact,
                     end |-> IF ds = <<>> THEN 1 ELSE from + Len(ds),
                     erange |-> FALSE]
        /\ ~Running /\ ~fits /\ fn \notin Ato =>
              /\ ret.erange
              /\ ret.value = IF fn \in Unsigned THEN UMaxOf(min)
                             ELSE IF neg THEN min ELSE MaxOf(min)
=============================================================================
