------------------------------ MODULE Calendar ------------------------------
(***************************************************************************)
(* The calendar arithmetic of the C library of the firmware                *)
(* (rt-thread/components/libc/compilers/common/time.c): gmtime_r breaks a  *)
(* count of seconds down into calendar fields, mktime puts the fields      *)
(* together again.  set_time and set_date of the real-time clock replace   *)
(* some fields in between.                                                 *)
(*                                                                         *)
(* The day is PerMinute * PerHour * PerDay seconds long (60 * 60 * 24 in   *)
(* the code), so that an instance with a short day reaches years whose     *)
(* seconds do not fit into the model checker's integers.                   *)
(*                                                                         *)
(* The specification walks through the days of the Gregorian calendar one  *)
(* by one.  The walk is the reference the two functions are held against.  *)
(***************************************************************************)
EXTENDS Integers, FiniteSetsExt

CONSTANTS
    PerMinute,  \* seconds of a minute
    PerHour,    \* minutes of an hour
    PerDay,     \* hours of a day
    MaxYear     \* bound: the last year of the walk

ASSUME UnitsAssumption ==
    /\ PerMinute \in Nat \ {0}
    /\ PerHour \in Nat \ {0}
    /\ PerDay \in Nat \ {0}

ASSUME MaxYearAssumption == MaxYear \in Nat /\ MaxYear >= 1970

VARIABLES
    day,        \* days since 1 January 1970
    date        \* the same day in the calendar: [year, mon, mday, wday]

vars == <<day, date>>

-----------------------------------------------------------------------------
(***************************************************************************)
(* The code.  Fields as in struct tm: tm_mon counts from 0, tm_year from   *)
(* 1900, tm_wday from Sunday = 0.                                          *)
(***************************************************************************)

\* Days of a common year before each month, and of the whole year.
spm == [m \in 0 .. 12 |->
          <<0, 31, 59, 90, 120, 151, 181, 212, 243, 273, 304, 334, 365>>[m + 1]]

\* Mutant: every fourth year is a leap year, century years included.
isleap_Julian(year) == year % 4 = 0

isleap(year) ==
    /\ year % 4 = 0
    /\ year % 100 # 0 \/ year % 400 = 0

DaysOfYear(year) == IF isleap(year) THEN 366 ELSE 365

SPD == PerDay * PerHour * PerMinute

\* A year, and days counted from its start.
YearFields == [year : Nat, yday : Nat]

\* The year loop of gmtime_r: the year and the days left over in it.
YearLoop[y \in YearFields] ==
    IF y.yday >= DaysOfYear(y.year)
    THEN YearLoop[[year |-> y.year + 1, yday |-> y.yday - DaysOfYear(y.year)]]
    ELSE y

\* 29 February is counted as the second first of March before the month is
\* looked up in the table of common years.
gmtime_r(timep) ==
    LET tod   == timep % SPD
        days  == timep \div SPD
        y     == YearLoop[[year |-> 1970, yday |-> days]]
        after == isleap(y.year) /\ y.yday > 58
        work  == IF after THEN y.yday - 1 ELSE y.yday
        mon   == Max({0} \cup {m \in 1 .. 11 : spm[m] <= work})
    IN  [tm_sec  |-> tod % PerMinute,
         tm_min  |-> (tod \div PerMinute) % PerHour,
         tm_hour |-> (tod \div PerMinute) \div PerHour,
         tm_wday |-> (4 + days) % 7,
         tm_year |-> y.year - 1900,
         tm_yday |-> y.yday,
         tm_mon  |-> mon,
         tm_mday |-> (IF after /\ y.yday = 59 THEN 2 ELSE 1) + work - spm[mon]]

\* One field of mktime's carries: lo overflows into hi only when it exceeds
\* the unit (a leap second, or hour 24, stays where it is).
Carry(tm, lo, hi, unit) ==
    IF tm[lo] > unit
    THEN [tm EXCEPT ![hi] = @ + tm[lo] \div unit, ![lo] = @ % unit]
    ELSE tm

\* The fields of struct tm that carry into each other by the calendar.  The
\* month is one of the table: from tm_mon = 12 on the loop would read behind
\* the end of __spm.
DateFields == [tm_mday : Nat, tm_mon : 0 .. 11, tm_year : Nat]

\* The month loop of mktime, which measures a day of the month by the days
\* of the year up to that month.
MonthLoop[tm \in DateFields] ==
    IF tm.tm_mday > spm[1 + tm.tm_mon]
    THEN LET leap == IF tm.tm_mon = 1 /\ isleap(tm.tm_year + 1900) THEN 1 ELSE 0
             roll == tm.tm_mon = 11
         IN  MonthLoop[[tm_mday |-> tm.tm_mday - leap - spm[tm.tm_mon],
                        tm_mon  |-> IF roll THEN 0 ELSE tm.tm_mon + 1,
                        tm_year |-> IF roll THEN tm.tm_year + 1 ELSE tm.tm_year]]
    ELSE tm

\* Mutant: no correction for the century years.
CenturyDays_None(years) == 0

\* What mktime takes off the day count after 2100 for the century years that
\* are no leap years; years counts from 1970.
CenturyDays(years) ==
    IF years < 131 THEN 0
    ELSE LET c == (years - 131) \div 100
             r == c % 4
         IN  (c \div 4) * 3 + 1 + (IF r = 3 THEN 2 ELSE r)

\* The year counts as it was before the carries.
mktime(t) ==
    LET years == t.tm_year - 70
        c == Carry(Carry(Carry(Carry(t, "tm_sec", "tm_min", PerMinute),
                               "tm_min", "tm_hour", PerHour),
                         "tm_hour", "tm_mday", PerDay),
                   "tm_mon", "tm_year", 12)
        d == MonthLoop[[tm_mday |-> c.tm_mday, tm_mon |-> c.tm_mon,
                        tm_year |-> c.tm_year]]
        yday == spm[d.tm_mon] + d.tm_mday - 1
                + (IF isleap(d.tm_year + 1900) /\ d.tm_mon > 1 THEN 1 ELSE 0)
        days == years * 365 + (years + 1) \div 4 - CenturyDays(years) + yday
    IN  IF d.tm_year < 70 THEN -1
        ELSE ((days * PerDay + c.tm_hour) * PerHour + c.tm_min) * PerMinute
             + c.tm_sec

\* The value set_time writes to the clock when it has read now.
SetTimeValue(now, hour, min, sec) ==
    mktime([gmtime_r(now) EXCEPT !.tm_hour = hour, !.tm_min = min, !.tm_sec = sec])

\* The value set_date writes to the clock when it has read now.
SetDateValue(now, year, mon, mday) ==
    mktime([gmtime_r(now) EXCEPT !.tm_year = year - 1900, !.tm_mon = mon - 1,
                                 !.tm_mday = mday])

-----------------------------------------------------------------------------
(***************************************************************************)
(* The reference: how the Gregorian calendar counts days.                  *)
(***************************************************************************)
GregorianLeap(year) ==
    IF year % 100 = 0 THEN year % 400 = 0 ELSE year % 4 = 0

MonthLength(year, mon) ==
    CASE mon = 1 -> IF GregorianLeap(year) THEN 29 ELSE 28
      [] mon \in {3, 5, 8, 10} -> 30
      [] OTHER -> 31

\* 1 January 1970 was a Thursday.
Init ==
    /\ day = 0
    /\ date = [year |-> 1970, mon |-> 0, mday |-> 1, wday |-> 4]

NextDate(d) ==
    LET wday == (d.wday + 1) % 7 IN
    IF d.mday < MonthLength(d.year, d.mon)
    THEN [d EXCEPT !.mday = @ + 1, !.wday = wday]
    ELSE IF d.mon < 11
    THEN [d EXCEPT !.mday = 1, !.mon = @ + 1, !.wday = wday]
    ELSE [year |-> d.year + 1, mon |-> 0, mday |-> 1, wday |-> wday]

Tomorrow ==
    /\ NextDate(date).year <= MaxYear
    /\ day' = day + 1
    /\ date' = NextDate(date)

Next == Tomorrow

Spec == Init /\ [][Next]_vars

-----------------------------------------------------------------------------
\* The first and the last second of a day, and one in the middle.
Moments == {day * SPD, day * SPD + SPD \div 2, day * SPD + SPD - 1}

(***************************************************************************)
(* gmtime_r gives every day the year, month, day and weekday the Gregorian *)
(* calendar gives it (leap days, century years and the ends of months and  *)
(* years included), and the time of day it has.                            *)
(***************************************************************************)
GmtimeIsCalendar ==
    \A t \in Moments :
        LET tm == gmtime_r(t) IN
        /\ tm.tm_year + 1900 = date.year
        /\ tm.tm_mon = date.mon
        /\ tm.tm_mday = date.mday
        /\ tm.tm_wday = date.wday
        /\ tm.tm_sec < PerMinute
        /\ tm.tm_min < PerHour
        /\ (tm.tm_hour * PerHour + tm.tm_min) * PerMinute + tm.tm_sec = t - day * SPD

(***************************************************************************)
(* What set_time and set_date write: set_time keeps the day of the time it *)
(* read and set_date its time of day, whichever day of the calendar it is  *)
(* and whichever it becomes, the leap day and both sides of a century      *)
(* included.                                                               *)
(***************************************************************************)
FieldsReplaced ==
    /\ \A t \in Moments :
          /\ mktime(gmtime_r(t)) = t
          /\ \A tod \in {0, SPD - 1} :
                LET tm == gmtime_r(tod) IN
                SetTimeValue(t, tm.tm_hour, tm.tm_min, tm.tm_sec) = day * SPD + tod
    /\ \A other \in {SPD - 1, 789 * SPD, 16495 * SPD + SPD \div 2} :
          SetDateValue(other, date.year, date.mon + 1, date.mday)
              = day * SPD + (other % SPD)

=============================================================================
