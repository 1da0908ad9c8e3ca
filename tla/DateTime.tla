------------------------------- MODULE DateTime -------------------------------
(***************************************************************************)
(* The arithmetic of date_time_support.cpp: seconds(), which rounds a     *)
(* date's milliseconds since the epoch toward minus infinity; the         *)
(* millisecond field of DateParts and Iso8601DateParts; week(), the week  *)
(* of the year counted from Sundays; and validateFormat, the scanner of a *)
(* $dateToString format.  The calendar functions of timelib that week()   *)
(* calls (day of week, day of year) are outside the repository; their     *)
(* results are inputs, generated from the weekday of January 1 so that    *)
(* they are those of a real year.                                         *)
(*                                                                         *)
(* The functions are operators; the module's one variable is a call of    *)
(* one of them with arguments from a bounded set, so that each call is a  *)
(* state the properties are checked in.                                   *)
(***************************************************************************)
EXTENDS Integers, Sequences, FiniteSets, CInt

CONSTANTS
  FormatChars,   \* the characters format strings are made of
  MaxFormatLen   \* the longest format string

ASSUME "%" \in FormatChars

-----------------------------------------------------------------------------
(* seconds() and the millisecond field                                     *)

SecondsTruncates(millis) == CDiv(millis, 1000)

\* seconds(): for a negative date, 999 is taken off first (C++ division
\* truncates, "-1999 / 1000 != -2" holds), so that the truncating
\* durationCount<Seconds> rounds toward minus infinity.
Seconds(millis) ==
  LET m == IF millis < 0 /\ CDiv(-1999, 1000) /= -2 THEN Wrap(millis - (1000 - 1))
           ELSE millis
  IN CDiv(m, 1000)

\* DateParts / Iso8601DateParts: the remainder of the milliseconds, plus
\* 1000 "since dates before 1970 would have negative milliseconds".
DatePartsMillisecond(millis) ==
  LET ms == CMod(millis, 1000)
  IN IF ms >= 0 THEN ms ELSE 1000 + ms

-----------------------------------------------------------------------------
(* week()                                                                  *)

\* dayOfWeek and dayOfYear: timelib's 0-based day of the week (Sunday 0)
\* and day of the year, plus one.
DayOfWeek(tlDayOfWeek) == tlDayOfWeek + 1
DayOfYear(tlDayOfYear) == tlDayOfYear + 1

WeekFromPrevSunday(weekDay, yearDay) == CDiv(yearDay - weekDay, 7) + 1

\* week(): the one-based index of the week of the previous Sunday, taken
\* as the zero-based index of the week of the next one.
Week(weekDay, yearDay) ==
  LET prevSundayDayOfYear == yearDay - weekDay
      nextSundayDayOfYear == prevSundayDayOfYear + 7
  IN CDiv(nextSundayDayOfYear, 7)

-----------------------------------------------------------------------------
(* validateFormat                                                          *)

\* The characters that may follow '%' (the cases that fall through).
FormatModifiers ==
  {"%", "Y", "m", "d", "H", "M", "S", "L", "j", "w", "U", "G", "V", "u", "z", "Z"}

RECURSIVE ScanFormatNoEndCheck(_, _)
ScanFormatNoEndCheck(f, i) ==
  CASE i > Len(f) -> "ok"
    [] f[i] /= "%" -> ScanFormatNoEndCheck(f, i + 1)
    [] i + 1 > Len(f) -> "ok"
    [] f[i + 1] \in FormatModifiers -> ScanFormatNoEndCheck(f, i + 2)
    [] OTHER -> "18536"

RECURSIVE ScanFormat(_, _)

\* The loop of validateFormat from the i-th character: a character other
\* than '%' is passed over; a '%' takes the next character as its modifier,
\* uassert 18535 when there is none, 18536 when it is not a known one.
ScanFormat(f, i) ==
  CASE i > Len(f) -> "ok"
    [] f[i] /= "%" -> ScanFormat(f, i + 1)
    [] i + 1 > Len(f) -> "18535"
    [] f[i + 1] \in FormatModifiers -> ScanFormat(f, i + 2)
    [] OTHER -> "18536"

ValidateFormat(f) == ScanFormat(f, 1)

-----------------------------------------------------------------------------
(* The calls                                                               *)

Formats == UNION {[1..n -> FormatChars] : n \in 0..MaxFormatLen}

\* A call of seconds() and the DateParts constructor on one date, of week()
\* on day d of a year whose January 1 falls on weekday jan1, or of
\* validateFormat on one format.
Calls ==
  [fn : {"seconds"}, millis : Longs]
    \cup [fn : {"week"}, jan1 : 0..6, day : 0..365]
    \cup [fn : {"format"}, f : Formats]

VARIABLE call

DateInit == call \in Calls

DateSpec == DateInit /\ [][FALSE]_call

-----------------------------------------------------------------------------
(* Properties                                                              *)

\* The dates for which seconds()'s "millis -= 1000 - 1" stays inside a
\* long long.
NoOverflow(millis) == millis >= 0 \/ millis - (1000 - 1) >= MinLong

\* seconds() and the millisecond field of DateParts split every date the
\* same way: the seconds times 1000 plus the millisecond (in 0..999) give
\* back the date, for dates before 1970 too (seconds() must round toward
\* minus infinity, the millisecond field must be made non-negative).  The
\* dates within 999 ms of the smallest long long, where the subtraction
\* overflows, are excluded; see the README.
SecondsAgreeWithDateParts ==
  call.fn = "seconds" /\ NoOverflow(call.millis) =>
    /\ DatePartsMillisecond(call.millis) \in 0..999
    /\ Seconds(call.millis) * 1000 + DatePartsMillisecond(call.millis) = call.millis

\* week() is the number of Sundays of the year up to and including the
\* date ($week: days before the first Sunday are in week 0), for a year
\* starting on any weekday and every day of a leap year.
WeekCountsSundays ==
  call.fn = "week" =>
    Week(DayOfWeek((call.jan1 + call.day) % 7), DayOfYear(call.day))
      = Cardinality({e \in 0..call.day : (call.jan1 + e) % 7 = 0})

\* f splits into tokens: single characters other than '%', and '%'
\* followed by a modifier.  S is the set of positions where a two-character
\* token starts.
Tokenizes(f) ==
  \E S \in SUBSET (1..Len(f) - 1) :
    /\ \A i \in S : f[i] = "%" /\ f[i + 1] \in FormatModifiers /\ i + 1 \notin S
    /\ \A i \in 1..Len(f) : f[i] = "%" => i \in S \/ i - 1 \in S

\* validateFormat accepts exactly the formats that split into tokens: it
\* pairs every '%' with the character after it, so "%%" is one token and
\* cannot start another, and a '%' at the end is refused.
FormatValidIffTokens ==
  call.fn = "format" => (ValidateFormat(call.f) = "ok" <=> Tokenizes(call.f))
=============================================================================
