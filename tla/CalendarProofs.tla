--------------------------- MODULE CalendarProofs ---------------------------
(***************************************************************************)
(* Proofs about Calendar, for every length of a minute, an hour and a day  *)
(* and every last year: gmtime_r gives each day its date in the Gregorian  *)
(* calendar, and mktime with replaced fields gives the second they name.   *)
(*                                                                         *)
(* The two loops of the code are recursive functions.  That such functions *)
(* exist is shown first: the year loop has a closed form, and the month    *)
(* loop is built up along a number that falls with every turn.             *)
(***************************************************************************)
EXTENDS Calendar, ListLemmas, TLAPS

-----------------------------------------------------------------------------
(***************************************************************************)
(* Years.                                                                  *)
(***************************************************************************)

\* The days of all years before `year`, counted from the year 0.
DaysBefore(year) ==
    365 * year + (year + 3) \div 4 - (year + 99) \div 100 + (year + 399) \div 400

\* __isleap is the Gregorian rule.
LEMMA LeapRule ==
    ASSUME NEW year \in Nat
    PROVE  isleap(year) <=> GregorianLeap(year)
BY DEF isleap, GregorianLeap

\* A year has 365 or 366 days.
LEMMA YearDays ==
    ASSUME NEW year \in Nat
    PROVE  DaysOfYear(year) \in 365 .. 366
BY DEF DaysOfYear

\* A year follows the days before it.
LEMMA NextYear ==
    ASSUME NEW year \in Nat
    PROVE  /\ DaysBefore(year) \in Nat
           /\ DaysBefore(year + 1) = DaysBefore(year) + DaysOfYear(year)
<1>1. DaysBefore(year) \in Nat
  BY DEF DaysBefore
<1>2. (year + 4) \div 4 = (year + 3) \div 4 + (IF year % 4 = 0 THEN 1 ELSE 0)
  OBVIOUS
<1>3. (year + 100) \div 100 = (year + 99) \div 100 + (IF year % 100 = 0 THEN 1 ELSE 0)
  OBVIOUS
<1>4. (year + 400) \div 400 = (year + 399) \div 400 + (IF year % 400 = 0 THEN 1 ELSE 0)
  OBVIOUS
<1>5. (year % 400 = 0 => year % 100 = 0) /\ (year % 100 = 0 => year % 4 = 0)
  OBVIOUS
<1>6. DaysOfYear(year) = 365 + (IF year % 4 = 0 THEN 1 ELSE 0)
                         - (IF year % 100 = 0 THEN 1 ELSE 0) + (IF year % 400 = 0 THEN 1 ELSE 0)
  BY <1>5 DEF DaysOfYear, isleap
<1>7. DaysBefore(year + 1) = 365 * year + 365 + (year + 4) \div 4 - (year + 100) \div 100
                             + (year + 400) \div 400
  BY DEF DaysBefore
<1> QED
  BY <1>1, <1>2, <1>3, <1>4, <1>6, <1>7 DEF DaysBefore

\* Years follow each other.
LEMMA YearsGrow ==
    ASSUME NEW a \in Nat, NEW b \in Nat, a <= b
    PROVE  DaysBefore(a) <= DaysBefore(b)
<1>1. (a + 3) \div 4 <= (b + 3) \div 4 /\ (a + 399) \div 400 <= (b + 399) \div 400
  OBVIOUS
<1>2. (b + 99) \div 100 <= (a + 99) \div 100 + (b - a)
  OBVIOUS
<1> QED
  BY <1>1, <1>2 DEF DaysBefore

\* r is the year in which the day n lies, and its day in that year.
InYear(r, n) ==
    /\ r \in YearFields
    /\ r.yday < DaysOfYear(r.year)
    /\ DaysBefore(r.year) + r.yday = n

\* Every day lies in a year.
LEMMA YearOfDay ==
    ASSUME NEW n \in Nat
    PROVE  \E r : InYear(r, n)
<1> DEFINE S == {y \in Nat : n < DaysBefore(y + 1)}
           y == Min(S)
<1>1. n \in S
  BY DEF DaysBefore
<1>2. y \in S /\ \A x \in S : y <= x
  <2>1. S \in SUBSET Nat /\ S # {}
    BY <1>1
  <2> HIDE DEF S
  <2> QED
    BY <2>1, LeastOf
<1> HIDE DEF y
<1>3. y \in Nat /\ n < DaysBefore(y + 1)
  BY <1>2
<1>4. DaysBefore(y) <= n
  <2>1. CASE y = 0
    BY <2>1 DEF DaysBefore
  <2>2. CASE y # 0
    <3>1. y - 1 \in Nat /\ ~(y <= y - 1) /\ y - 1 + 1 = y
      BY <2>2, <1>3
    <3>2. y - 1 \notin S
      <4> HIDE DEF S
      <4> QED
        BY <3>1, <1>2
    <3>3. DaysBefore(y) \in Nat
      BY <1>3, NextYear
    <3> QED
      BY <3>1, <3>2, <3>3
  <2> QED
    BY <2>1, <2>2
<1>5. DaysBefore(y) \in Nat /\ DaysBefore(y + 1) = DaysBefore(y) + DaysOfYear(y)
      /\ DaysOfYear(y) \in Nat
  BY <1>3, NextYear, YearDays
<1> DEFINE r == [year |-> y, yday |-> n - DaysBefore(y)]
<1>6. r.year = y /\ r.yday = n - DaysBefore(y) /\ r.yday \in Nat /\ r \in YearFields
  BY <1>3, <1>4, <1>5 DEF YearFields
<1> HIDE DEF r
<1>7. InYear(r, n)
  BY <1>3, <1>5, <1>6 DEF InYear
<1> QED
  BY <1>7

\* ... and in one only.
LEMMA OneYear ==
    ASSUME NEW n \in Nat, NEW r, InYear(r, n), NEW s, InYear(s, n)
    PROVE  r = s
<1>1. /\ r.year \in Nat /\ r.yday \in Nat /\ s.year \in Nat /\ s.yday \in Nat
      /\ r = [year |-> r.year, yday |-> r.yday] /\ s = [year |-> s.year, yday |-> s.yday]
  BY DEF InYear, YearFields
<1>2. ASSUME NEW a \in Nat, NEW b \in Nat, NEW i \in Nat, NEW j \in Nat,
             i < DaysOfYear(a), DaysBefore(a) + i = DaysBefore(b) + j
      PROVE  b <= a
  <2> SUFFICES ASSUME a + 1 <= b PROVE FALSE
    OBVIOUS
  <2>1. DaysBefore(a + 1) <= DaysBefore(b)
    BY YearsGrow
  <2>2. /\ DaysBefore(a) \in Nat /\ DaysBefore(b) \in Nat /\ DaysOfYear(a) \in Nat
        /\ DaysBefore(a + 1) = DaysBefore(a) + DaysOfYear(a)
    BY NextYear, YearDays
  <2> QED
    BY <1>2, <2>1, <2>2
<1>3. s.year <= r.year /\ r.year <= s.year
  BY <1>1, <1>2 DEF InYear
<1>4. r.year = s.year
  BY <1>1, <1>3
<1>5. r.yday = s.yday
  <2>1. DaysBefore(r.year) \in Nat
    BY <1>1, NextYear
  <2> QED
    BY <1>1, <1>4, <2>1 DEF InYear
<1> QED
  BY <1>1, <1>4, <1>5

\* One turn of the year loop keeps the day.
YearStep(y) == [year |-> y.year + 1, yday |-> y.yday - DaysOfYear(y.year)]

\* The day that the fields of a year count to.
DayOf(y) == DaysBefore(y.year) + y.yday

\* What a turn does to the fields.
LEMMA YearTurn ==
    ASSUME NEW y \in YearFields
    PROVE  /\ DayOf(y) \in Nat
           /\ y.yday >= DaysOfYear(y.year) =>
                 /\ YearStep(y) \in YearFields /\ YearStep(y).yday < y.yday
                 /\ DayOf(YearStep(y)) = DayOf(y)
           /\ ~(y.yday >= DaysOfYear(y.year)) => InYear(y, DayOf(y))
<1>1. y.year \in Nat /\ y.yday \in Nat
  BY DEF YearFields
<1>2. /\ DaysBefore(y.year) \in Nat /\ DaysOfYear(y.year) \in 365 .. 366
      /\ DaysBefore(y.year + 1) = DaysBefore(y.year) + DaysOfYear(y.year)
  BY <1>1, NextYear, YearDays
<1>3. DayOf(y) \in Nat
  BY <1>1, <1>2 DEF DayOf
<1>4. ASSUME y.yday >= DaysOfYear(y.year)
      PROVE  /\ YearStep(y) \in YearFields /\ YearStep(y).yday < y.yday
             /\ DayOf(YearStep(y)) = DayOf(y)
  <2>1. /\ YearStep(y).year = y.year + 1 /\ YearStep(y).yday = y.yday - DaysOfYear(y.year)
        /\ YearStep(y) = [year |-> YearStep(y).year, yday |-> YearStep(y).yday]
    BY DEF YearStep
  <2>2. y.year + 1 \in Nat /\ y.yday - DaysOfYear(y.year) \in Nat
        /\ y.yday - DaysOfYear(y.year) < y.yday
    BY <1>1, <1>2, <1>4
  <2>3. YearStep(y) \in YearFields
    BY <2>2 DEF YearFields, YearStep
  <2> QED
    BY <1>1, <1>2, <2>1, <2>2, <2>3 DEF DayOf
<1>5. ASSUME ~(y.yday >= DaysOfYear(y.year))
      PROVE  InYear(y, DayOf(y))
  BY <1>1, <1>2, <1>5 DEF InYear, DayOf
<1> QED
  BY <1>3, <1>4, <1>5

\* The year loop does what its definition says, turn by turn.
LEMMA YearLoopUnfolds ==
    YearLoop = [y \in YearFields |->
                  IF y.yday >= DaysOfYear(y.year) THEN YearLoop[YearStep(y)] ELSE y]
<1> DEFINE loop(f) == [y \in YearFields |->
                         IF y.yday >= DaysOfYear(y.year) THEN f[YearStep(y)] ELSE y]
           F == [y \in YearFields |-> CHOOSE r : InYear(r, DayOf(y))]
<1>1. \A y \in YearFields : InYear(F[y], DayOf(y))
  <2> SUFFICES ASSUME NEW y \in YearFields PROVE InYear(F[y], DayOf(y))
    OBVIOUS
  <2>1. \E r : InYear(r, DayOf(y))
    BY YearTurn, YearOfDay
  <2> QED
    BY <2>1
<1>2. ASSUME NEW y \in YearFields
      PROVE  F[y] = IF y.yday >= DaysOfYear(y.year) THEN F[YearStep(y)] ELSE y
  <2>1. CASE y.yday >= DaysOfYear(y.year)
    <3>1. YearStep(y) \in YearFields /\ DayOf(YearStep(y)) = DayOf(y)
      BY <2>1, YearTurn
    <3> QED
      BY <2>1, <3>1
  <2>2. CASE ~(y.yday >= DaysOfYear(y.year))
    <3>1. InYear(y, DayOf(y)) /\ DayOf(y) \in Nat
      BY <2>2, YearTurn
    <3>2. F[y] = y
      <4> HIDE DEF F
      <4> QED
        BY <3>1, <1>1, OneYear
    <3> QED
      BY <2>2, <3>2
  <2> QED
    BY <2>1, <2>2
<1>3. F = loop(F)
  <2>1. DOMAIN F = YearFields /\ F = [y \in YearFields |-> F[y]]
    OBVIOUS
  <2> HIDE DEF F
  <2> QED
    BY <2>1, <1>2
<1> HIDE DEF F
<1>4. \E f : f = loop(f)
  BY <1>3
<1>5. YearLoop = CHOOSE f : f = loop(f)
  BY DEF YearLoop, YearStep
<1>6. YearLoop = loop(YearLoop)
  <2> HIDE DEF loop
  <2> QED
    BY <1>4, <1>5
<1> QED
  BY <1>6

\* The year loop of gmtime_r ends in the year of the day.
LEMMA YearLoopEnds ==
    ASSUME NEW y \in YearFields
    PROVE  InYear(YearLoop[y], DayOf(y))
<1> DEFINE Bad == {n \in Nat : \E z \in YearFields : z.yday = n /\ ~InYear(YearLoop[z], DayOf(z))}
<1>1. \A z \in YearFields : z.yday \in Nat
  BY DEF YearFields
<1>2. SUFFICES ASSUME Bad # {} PROVE FALSE
  BY <1>1
<1> DEFINE n == Min(Bad)
<1>3. n \in Bad /\ \A x \in Bad : n <= x
  <2>1. Bad \in SUBSET Nat
    OBVIOUS
  <2> HIDE DEF Bad
  <2> QED
    BY <2>1, <1>2, LeastOf
<1> HIDE DEF n
<1>4. PICK z \in YearFields : z.yday = n /\ ~InYear(YearLoop[z], DayOf(z))
  BY <1>3
<1>5. YearLoop[z] = IF z.yday >= DaysOfYear(z.year) THEN YearLoop[YearStep(z)] ELSE z
  BY YearLoopUnfolds
<1>6. CASE z.yday >= DaysOfYear(z.year)
  <2>1. YearStep(z) \in YearFields /\ YearStep(z).yday < z.yday /\ DayOf(YearStep(z)) = DayOf(z)
    BY <1>6, YearTurn
  <2>2. YearStep(z).yday \in Nat /\ ~(n <= YearStep(z).yday)
    BY <1>1, <1>4, <2>1
  <2>3. YearStep(z).yday \notin Bad
    <3> HIDE DEF Bad
    <3> QED
      BY <2>2, <1>3
  <2>4. InYear(YearLoop[YearStep(z)], DayOf(YearStep(z)))
    BY <2>1, <2>2, <2>3
  <2> QED
    BY <1>4, <1>5, <1>6, <2>1, <2>4
<1>7. CASE ~(z.yday >= DaysOfYear(z.year))
  BY <1>4, <1>5, <1>7, YearTurn
<1> QED
  BY <1>6, <1>7

-----------------------------------------------------------------------------
(***************************************************************************)
(* Months.                                                                 *)
(***************************************************************************)

\* The table __spm.
LEMMA Table ==
    /\ spm[0] = 0 /\ spm[1] = 31 /\ spm[2] = 59 /\ spm[3] = 90 /\ spm[4] = 120
    /\ spm[5] = 151 /\ spm[6] = 181 /\ spm[7] = 212 /\ spm[8] = 243 /\ spm[9] = 273
    /\ spm[10] = 304 /\ spm[11] = 334 /\ spm[12] = 365
BY DEF spm

\* The days of a year before a month, the leap day included.
MonthStart(year, mon) == spm[mon] + (IF isleap(year) /\ mon > 1 THEN 1 ELSE 0)

\* The table counts the days of the months of the Gregorian calendar.
LEMMA MonthDays ==
    ASSUME NEW year \in Nat, NEW mon \in 0 .. 11
    PROVE  /\ MonthStart(year, mon) \in Nat
           /\ MonthLength(year, mon) \in 28 .. 31
           /\ MonthStart(year, mon) + MonthLength(year, mon)
                 = IF mon < 11 THEN MonthStart(year, mon + 1) ELSE DaysOfYear(year)
<1>1. isleap(year) <=> GregorianLeap(year)
  BY LeapRule
<1>2. MonthLength(year, mon) = IF mon = 1 THEN (IF isleap(year) THEN 29 ELSE 28)
                               ELSE IF mon \in {3, 5, 8, 10} THEN 30 ELSE 31
  BY <1>1 DEF MonthLength
<1>3. spm[mon + 1] - spm[mon] = IF mon = 1 THEN 28 ELSE IF mon \in {3, 5, 8, 10} THEN 30 ELSE 31
  BY Table
<1>4. spm[mon] \in Nat /\ spm[mon + 1] \in Nat /\ (mon = 11 => spm[mon + 1] = 365)
  BY Table
<1> QED
  BY <1>2, <1>3, <1>4 DEF MonthStart, DaysOfYear

\* ... and so the days are numbers.
LEMMA MonthTypes ==
    ASSUME NEW year \in Nat, NEW mon \in 0 .. 11
    PROVE  MonthStart(year, mon) \in Nat /\ MonthLength(year, mon) \in 28 .. 31
BY MonthDays, Zenon

\* The months come in the order of the table.
LEMMA TableGrows ==
    ASSUME NEW m \in 0 .. 12, NEW n \in 0 .. 12, m <= n
    PROVE  spm[m] \in Nat /\ spm[n] \in Nat /\ spm[m] <= spm[n]
BY Table

\* The search through the table finds the month whose days hold the day.
LEMMA MonthFound ==
    ASSUME NEW mon \in 0 .. 11, NEW work \in Nat, spm[mon] <= work, work < spm[mon + 1]
    PROVE  Max({0} \cup {m \in 1 .. 11 : spm[m] <= work}) = mon
<1> DEFINE S == {0} \cup {m \in 1 .. 11 : spm[m] <= work}
<1>1. mon \in S
  OBVIOUS
<1>2. ASSUME NEW m \in S
      PROVE  m <= mon /\ m \in 0 .. 11
  <2>1. m \in 0 .. 11 /\ (m = 0 \/ spm[m] <= work)
    OBVIOUS
  <2>2. CASE m > mon
    <3>1. mon + 1 \in 0 .. 12 /\ m \in 0 .. 12 /\ mon + 1 <= m
      BY <2>1, <2>2
    <3>2. spm[mon + 1] \in Nat /\ spm[m] \in Nat /\ spm[mon + 1] <= spm[m]
      BY <3>1, TableGrows
    <3> QED
      BY <2>1, <2>2, <3>2
  <2> QED
    BY <2>1, <2>2
<1> HIDE DEF S
<1>3. \A x \in S : (\A y \in S : x >= y) <=> x = mon
  BY <1>1, <1>2
<1>4. Max(S) = mon
  BY <1>1, <1>3 DEF Max
<1> QED
  BY <1>4 DEF S

\* What gmtime_r makes of a day of a year: 29 February, and all days after it
\* in a leap year, are looked up one day earlier.
AfterLeapDay(y) == isleap(y.year) /\ y.yday > 58

LookedUp(y) == IF AfterLeapDay(y) THEN y.yday - 1 ELSE y.yday

MonthAt(work) == Max({0} \cup {m \in 1 .. 11 : spm[m] <= work})

DayAt(y) ==
    (IF AfterLeapDay(y) /\ y.yday = 59 THEN 2 ELSE 1) + LookedUp(y) - spm[MonthAt(LookedUp(y))]

\* The month and the day that gmtime_r finds are those of the calendar.
LEMMA MonthOfDay ==
    ASSUME NEW y, y.year \in Nat, NEW mon \in 0 .. 11,
           NEW mday \in 1 .. MonthLength(y.year, mon),
           y.yday = MonthStart(y.year, mon) + mday - 1
    PROVE  MonthAt(LookedUp(y)) = mon /\ DayAt(y) = mday
<1> DEFINE year == y.year
           yday == y.yday
           after == AfterLeapDay(y)
           work == LookedUp(y)
<1>0. /\ year \in Nat /\ mday \in 1 .. MonthLength(year, mon)
      /\ yday = MonthStart(year, mon) + mday - 1
      /\ after <=> isleap(year) /\ yday > 58
      /\ work = IF after THEN yday - 1 ELSE yday
  BY DEF AfterLeapDay, LookedUp
<1> HIDE DEF year, yday, after, work
<1>1. isleap(year) <=> GregorianLeap(year)
  BY <1>0, LeapRule
<1>2. MonthLength(year, mon) = IF mon = 1 THEN (IF isleap(year) THEN 29 ELSE 28)
                               ELSE IF mon \in {3, 5, 8, 10} THEN 30 ELSE 31
  BY <1>1 DEF MonthLength
<1>3. spm[mon + 1] = spm[mon] + (IF mon = 1 THEN 28 ELSE IF mon \in {3, 5, 8, 10} THEN 30 ELSE 31)
  BY Table
<1>4. /\ spm[mon] \in Nat /\ mday \in Nat /\ mday >= 1 /\ mday <= MonthLength(year, mon)
      /\ mon = 0 => spm[mon] = 0
      /\ mon = 1 => spm[mon] = 31
      /\ mon > 1 => spm[mon] >= 59
  BY <1>0, <1>2, Table
<1>5. yday = spm[mon] + (IF isleap(year) /\ mon > 1 THEN 1 ELSE 0) + mday - 1
  BY <1>0 DEF MonthStart
<1>6. after <=> isleap(year) /\ (mon > 1 \/ (mon = 1 /\ mday >= 29))
  <2>1. CASE mon > 1
    BY <2>1, <1>0, <1>4, <1>5
  <2>2. CASE mon = 1
    BY <2>2, <1>0, <1>4, <1>5
  <2>3. CASE mon = 0
    <3>1. mday <= 31
      BY <2>3, <1>2, <1>4
    <3> QED
      BY <2>3, <3>1, <1>0, <1>4, <1>5
  <2> QED
    BY <2>1, <2>2, <2>3
<1>7. work = spm[mon] + mday - 1 - (IF isleap(year) /\ mon = 1 /\ mday = 29 THEN 1 ELSE 0)
  <2>1. CASE isleap(year) /\ mon > 1
    BY <2>1, <1>0, <1>4, <1>5, <1>6
  <2>2. CASE isleap(year) /\ mon = 1 /\ mday >= 29
    <3>1. mday = 29
      BY <2>2, <1>2, <1>4
    <3> QED
      BY <2>2, <3>1, <1>0, <1>4, <1>5, <1>6
  <2>3. CASE isleap(year) /\ ~(mon > 1) /\ ~(mon = 1 /\ mday >= 29)
    BY <2>3, <1>0, <1>4, <1>5, <1>6
  <2>4. CASE ~isleap(year)
    BY <2>4, <1>0, <1>4, <1>5, <1>6
  <2> QED
    BY <2>1, <2>2, <2>3, <2>4
<1>8. work \in Nat /\ spm[mon] <= work /\ work < spm[mon + 1]
  BY <1>2, <1>3, <1>4, <1>7
<1>9. after /\ yday = 59 <=> isleap(year) /\ mon = 1 /\ mday = 29
  BY <1>2, <1>0, <1>4, <1>5, <1>6
<1>10. Max({0} \cup {m \in 1 .. 11 : spm[m] <= work}) = mon
  BY <1>8, MonthFound
<1>11. (IF after /\ yday = 59 THEN 2 ELSE 1) + work - spm[mon] = mday
  BY <1>4, <1>7, <1>9
<1> QED
  BY <1>10, <1>11 DEF MonthAt, DayAt, yday, after, work

-----------------------------------------------------------------------------
(***************************************************************************)
(* The time of day.                                                        *)
(***************************************************************************)

\* A number has one quotient and one remainder.
LEMMA Quotient ==
    ASSUME NEW a \in Int, NEW d \in Nat \ {0}, NEW q \in Int, NEW r \in 0 .. d - 1,
           a = q * d + r
    PROVE  a \div d = q /\ a % d = r
<1> DEFINE p == a \div d
           s == a % d
<1>1. p \in Int /\ s \in Nat /\ s < d /\ a = p * d + s /\ p * d \in Int
  BY Division
<1>2. q * d \in Int /\ (q + 1) * d = q * d + d /\ r \in Nat /\ r < d
  OBVIOUS
<1> HIDE DEF p, s
<1>3. (p + 1) * d = p * d + d
  BY <1>1
<1>4. q < p + 1
  <2>1. q * d < (p + 1) * d
    BY <1>1, <1>2, <1>3
  <2> QED
    BY <2>1, <1>1, TimesLess
<1>5. p < q + 1
  <2>1. p * d < (q + 1) * d
    BY <1>1, <1>2, <1>3
  <2> QED
    BY <2>1, <1>1, TimesLess
<1>6. p = q
  BY <1>1, <1>4, <1>5
<1>7. s = r
  BY <1>1, <1>2, <1>6
<1> QED
  BY <1>6, <1>7 DEF p, s

\* The day has at least one second, and its length is a product of the units.
LEMMA DayLength ==
    /\ SPD \in Nat \ {0} /\ PerDay * PerHour \in Nat \ {0}
    /\ SPD = (PerDay * PerHour) * PerMinute
<1>1. PerDay * PerHour \in Nat \ {0}
  BY UnitsAssumption
<1> DEFINE p == PerDay * PerHour
<1> HIDE DEF p
<1>2. p \in Nat \ {0} => p * PerMinute \in Nat \ {0}
  BY UnitsAssumption
<1> QED
  BY <1>1, <1>2 DEF SPD, p

\* The seconds that hour, minute and second name within a day.
Clock(hour, min, sec) == (hour * PerHour + min) * PerMinute + sec

\* The time of day as gmtime_r breaks it down, in every part below its unit.
LEMMA TimeOfDay ==
    ASSUME NEW tod \in 0 .. SPD - 1,
           NEW sec, sec = tod % PerMinute,
           NEW min, min = (tod \div PerMinute) % PerHour,
           NEW hour, hour = (tod \div PerMinute) \div PerHour
    PROVE  /\ sec \in Nat /\ sec < PerMinute
           /\ min \in Nat /\ min < PerHour
           /\ hour \in Nat /\ hour < PerDay
           /\ Clock(hour, min, sec) = tod
<1> DEFINE u == tod \div PerMinute
<1>1. tod \in Int /\ tod >= 0 /\ tod < SPD
  BY DayLength
<1>2. u \in Int /\ sec \in Nat /\ sec < PerMinute /\ tod = u * PerMinute + sec
      /\ u * PerMinute \in Int
  BY <1>1, Division, UnitsAssumption
<1>3. u \in Nat
  <2>1. (-1) * PerMinute < u * PerMinute
    BY <1>1, <1>2, UnitsAssumption
  <2>2. -1 < u
    BY <2>1, <1>2, TimesLess, UnitsAssumption
  <2> QED
    BY <2>2, <1>2
<1> HIDE DEF u
<1>4. hour = u \div PerHour /\ min = u % PerHour
  BY DEF u
<1>5. hour \in Int /\ min \in Nat /\ min < PerHour /\ u = hour * PerHour + min
      /\ hour * PerHour \in Int
  BY <1>3, <1>4, Division, UnitsAssumption
<1>6. hour \in Nat
  <2>1. (-1) * PerHour < hour * PerHour
    BY <1>3, <1>5, UnitsAssumption
  <2>2. -1 < hour
    BY <2>1, <1>5, TimesLess, UnitsAssumption
  <2> QED
    BY <2>2, <1>5
<1>7. hour < PerDay
  <2> DEFINE p == PerDay * PerHour
  <2>1. p \in Int /\ SPD = p * PerMinute
    BY DayLength
  <2> HIDE DEF p
  <2>2. u * PerMinute < p * PerMinute
    BY <1>1, <1>2, <2>1
  <2>3. u < p
    BY <2>1, <2>2, <1>3, TimesLess, UnitsAssumption
  <2>4. hour * PerHour < p
    BY <2>1, <2>3, <1>3, <1>5
  <2> QED
    BY <2>4, <1>5, TimesLess, UnitsAssumption DEF p
<1> QED
  BY <1>2, <1>3, <1>5, <1>6, <1>7 DEF Clock

\* A second of a day, taken apart and put together.
LEMMA SecondOfDay ==
    ASSUME NEW n \in Nat, NEW tod \in 0 .. SPD - 1, NEW t, t = n * SPD + tod
    PROVE  t \in Nat /\ t % SPD = tod /\ t \div SPD = n
<1> DEFINE d == SPD
<1>1. d \in Nat \ {0}
  BY DayLength
<1> HIDE DEF d
<1>2. n * d \in Nat
  BY <1>1
<1>3. t \in Nat /\ t = n * d + tod /\ tod \in 0 .. d - 1
  BY <1>1, <1>2 DEF d
<1>4. t % d = tod /\ t \div d = n
  <2>1. t \in Int /\ n \in Int
    BY <1>3
  <2>2. t = n * d + tod
    BY <1>3
  <2>3. tod \in 0 .. d - 1
    BY <1>3
  <2> QED
    BY <1>1, <2>1, <2>2, <2>3, Quotient
<1> QED
  BY <1>3, <1>4 DEF d

-----------------------------------------------------------------------------
(***************************************************************************)
(* The month loop of mktime.                                               *)
(***************************************************************************)

\* The condition of the loop, and one turn of it.
Overflows(tm) == tm.tm_mday > spm[1 + tm.tm_mon]

MonthStep(tm) ==
    LET leap == IF tm.tm_mon = 1 /\ isleap(tm.tm_year + 1900) THEN 1 ELSE 0
        roll == tm.tm_mon = 11
    IN  [tm_mday |-> tm.tm_mday - leap - spm[tm.tm_mon],
         tm_mon  |-> IF roll THEN 0 ELSE tm.tm_mon + 1,
         tm_year |-> IF roll THEN tm.tm_year + 1 ELSE tm.tm_year]

\* What falls with every turn: the day, or, in January, which takes no days
\* off, the bit that says so.
Left(tm) == 2 * tm.tm_mday + (IF tm.tm_mon = 0 THEN 1 ELSE 0)

\* Left falls.
LEMMA MonthTurn ==
    ASSUME NEW tm \in DateFields
    PROVE  /\ Left(tm) \in Nat
           /\ Overflows(tm) => MonthStep(tm) \in DateFields /\ Left(MonthStep(tm)) < Left(tm)
<1> DEFINE d == tm.tm_mday
           m == tm.tm_mon
           y == tm.tm_year
           s == MonthStep(tm)
           leap == IF m = 1 /\ isleap(y + 1900) THEN 1 ELSE 0
<1>1. d \in Nat /\ m \in 0 .. 11 /\ y \in Nat
  BY DEF DateFields
<1>2. leap \in 0 .. 1 /\ (m # 1 => leap = 0)
  OBVIOUS
<1>3. /\ s.tm_mday = d - leap - spm[m] /\ s.tm_mon = (IF m = 11 THEN 0 ELSE m + 1)
      /\ s.tm_year = (IF m = 11 THEN y + 1 ELSE y)
      /\ s = [tm_mday |-> s.tm_mday, tm_mon |-> s.tm_mon, tm_year |-> s.tm_year]
  BY DEF MonthStep
<1>4. Left(tm) = 2 * d + (IF m = 0 THEN 1 ELSE 0) /\ Left(tm) \in Nat
  BY <1>1 DEF Left
<1>5. Left(s) = 2 * s.tm_mday + (IF s.tm_mon = 0 THEN 1 ELSE 0)
  BY DEF Left
<1> HIDE DEF leap, s
<1>6. ASSUME d > spm[1 + m]
      PROVE  s \in DateFields /\ Left(s) < Left(tm)
  <2>1. /\ spm[m] \in Nat /\ spm[1 + m] \in Nat /\ spm[m] + 28 <= spm[1 + m]
        /\ m = 0 => spm[m] = 0
        /\ m # 0 => spm[m] >= 31
    BY <1>1, Table
  <2>2. s.tm_mday \in Nat /\ s.tm_mon \in 0 .. 11 /\ s.tm_year \in Nat
    BY <1>1, <1>2, <1>3, <1>6, <2>1
  <2>3. s \in DateFields
    BY <1>3, <2>2 DEF DateFields
  <2>4. Left(s) < Left(tm)
    <3>1. CASE m = 0
      BY <3>1, <1>1, <1>2, <1>3, <1>4, <1>5, <2>1, <2>2
    <3>2. CASE m # 0
      BY <3>2, <1>1, <1>2, <1>3, <1>4, <1>5, <2>1, <2>2
    <3> QED
      BY <3>1, <3>2
  <2> QED
    BY <2>3, <2>4
<1> QED
  BY <1>4, <1>6 DEF Overflows, s

\* g is the loop for the fields with at most n left.
LoopUpTo(g, n) ==
    g = [tm \in {tm \in DateFields : Left(tm) <= n} |->
            IF Overflows(tm) THEN g[MonthStep(tm)] ELSE tm]

\* The loop for at most n leads to the one for n + 1.
LEMMA LoopOneMore ==
    ASSUME NEW n \in Nat, NEW g, LoopUpTo(g, n)
    PROVE  \E h : LoopUpTo(h, n + 1)
<1> DEFINE L == {tm \in DateFields : Left(tm) <= n}
           M == {tm \in DateFields : Left(tm) <= n + 1}
           h == [tm \in M |-> IF Overflows(tm) THEN g[MonthStep(tm)] ELSE tm]
<1>1. \A tm \in L : g[tm] = IF Overflows(tm) THEN g[MonthStep(tm)] ELSE tm
  BY DEF LoopUpTo
<1>2. L \subseteq M
  BY MonthTurn
<1>3. \A tm \in L : h[tm] = g[tm]
  BY <1>1, <1>2
<1>4. ASSUME NEW tm \in M, Overflows(tm)
      PROVE  MonthStep(tm) \in L
  <2>1. tm \in DateFields /\ Left(tm) <= n + 1
    OBVIOUS
  <2>2. /\ Left(tm) \in Nat /\ MonthStep(tm) \in DateFields /\ Left(MonthStep(tm)) < Left(tm)
    BY <1>4, <2>1, MonthTurn
  <2>3. Left(MonthStep(tm)) \in Nat
    BY <2>2, MonthTurn
  <2> QED
    BY <2>1, <2>2, <2>3
<1>5. \A tm \in M : h[tm] = IF Overflows(tm) THEN h[MonthStep(tm)] ELSE tm
  BY <1>3, <1>4
<1>6. h = [tm \in M |-> IF Overflows(tm) THEN h[MonthStep(tm)] ELSE tm]
  BY <1>5
<1> HIDE DEF h
<1> QED
  BY <1>6 DEF LoopUpTo

\* So there is one for every n.
LEMMA LoopExists ==
    ASSUME NEW n \in Nat
    PROVE  \E g : LoopUpTo(g, n)
<1> DEFINE Bad == {k \in Nat : ~ \E g : LoopUpTo(g, k)}
<1>1. 0 \notin Bad
  <2> DEFINE Z == {tm \in DateFields : Left(tm) <= 0}
             g == [tm \in Z |-> tm]
  <2>1. \A tm \in Z : ~Overflows(tm)
    <3> SUFFICES ASSUME NEW tm \in DateFields, Left(tm) <= 0, Overflows(tm) PROVE FALSE
      OBVIOUS
    <3>1. Left(tm) \in Nat /\ MonthStep(tm) \in DateFields /\ Left(MonthStep(tm)) < Left(tm)
      BY MonthTurn
    <3>2. Left(MonthStep(tm)) \in Nat
      BY <3>1, MonthTurn
    <3> QED
      BY <3>1, <3>2
  <2>2. g = [tm \in Z |-> IF Overflows(tm) THEN g[MonthStep(tm)] ELSE tm]
    BY <2>1
  <2> HIDE DEF g
  <2>3. LoopUpTo(g, 0)
    BY <2>2 DEF LoopUpTo
  <2> QED
    BY <2>3
<1>2. Bad = {}
  <2> SUFFICES ASSUME Bad # {} PROVE FALSE
    OBVIOUS
  <2> DEFINE k == Min(Bad)
  <2>1. k \in Bad /\ \A x \in Bad : k <= x
    <3>1. Bad \in SUBSET Nat
      OBVIOUS
    <3> HIDE DEF Bad
    <3> QED
      BY <3>1, LeastOf
  <2> HIDE DEF k
  <2>2. k \in Nat /\ k # 0
    BY <1>1, <2>1
  <2>3. k - 1 \in Nat /\ k - 1 \notin Bad /\ k - 1 + 1 = k
    <3>1. k - 1 \in Nat /\ ~(k <= k - 1) /\ k - 1 + 1 = k
      BY <2>2
    <3> HIDE DEF Bad
    <3> QED
      BY <3>1, <2>1
  <2>4. PICK g : LoopUpTo(g, k - 1)
    BY <2>3
  <2>5. \E h : LoopUpTo(h, k - 1 + 1)
    BY <2>3, <2>4, LoopOneMore
  <2> QED
    BY <2>1, <2>3, <2>5
<1> QED
  BY <1>2

\* Two of them agree where both are defined.
LEMMA LoopsAgree ==
    ASSUME NEW n \in Nat, NEW g, LoopUpTo(g, n), NEW k \in Nat, NEW h, LoopUpTo(h, k),
           NEW tm \in DateFields, Left(tm) <= n, Left(tm) <= k
    PROVE  g[tm] = h[tm]
<1> DEFINE Bad == {l \in Nat : l <= n /\ l <= k /\
                      \E x \in DateFields : Left(x) = l /\ g[x] # h[x]}
<1>1. \A x \in DateFields : Left(x) \in Nat
  BY MonthTurn
<1>2. SUFFICES ASSUME Bad # {} PROVE FALSE
  BY <1>1
<1> DEFINE l == Min(Bad)
<1>3. l \in Bad /\ \A x \in Bad : l <= x
  <2>1. Bad \in SUBSET Nat
    OBVIOUS
  <2> HIDE DEF Bad
  <2> QED
    BY <2>1, <1>2, LeastOf
<1> HIDE DEF l
<1>4. l \in Nat /\ l <= n /\ l <= k
  BY <1>3
<1>5. PICK x \in DateFields : Left(x) = l /\ g[x] # h[x]
  BY <1>3
<1>6. /\ g[x] = IF Overflows(x) THEN g[MonthStep(x)] ELSE x
      /\ h[x] = IF Overflows(x) THEN h[MonthStep(x)] ELSE x
  BY <1>4, <1>5 DEF LoopUpTo
<1>7. Overflows(x)
  BY <1>5, <1>6
<1>8. MonthStep(x) \in DateFields /\ Left(MonthStep(x)) < l
  BY <1>5, <1>7, MonthTurn
<1>9. Left(MonthStep(x)) \in Nat /\ ~(l <= Left(MonthStep(x)))
      /\ Left(MonthStep(x)) <= n /\ Left(MonthStep(x)) <= k
  BY <1>1, <1>4, <1>8
<1>10. Left(MonthStep(x)) \notin Bad
  <2> HIDE DEF Bad
  <2> QED
    BY <1>3, <1>9
<1>11. g[MonthStep(x)] = h[MonthStep(x)]
  BY <1>8, <1>9, <1>10
<1> QED
  BY <1>5, <1>6, <1>7, <1>11

\* The month loop does what its definition says, turn by turn.
LEMMA MonthLoopUnfolds ==
    MonthLoop = [tm \in DateFields |-> IF Overflows(tm) THEN MonthLoop[MonthStep(tm)] ELSE tm]
<1> DEFINE loop(f) == [tm \in DateFields |-> IF Overflows(tm) THEN f[MonthStep(tm)] ELSE tm]
           G(n) == CHOOSE g : LoopUpTo(g, n)
           F == [tm \in DateFields |-> G(Left(tm))[tm]]
<1>1. \A n \in Nat : LoopUpTo(G(n), n)
  BY LoopExists
<1> HIDE DEF G
<1>2. ASSUME NEW tm \in DateFields
      PROVE  F[tm] = IF Overflows(tm) THEN F[MonthStep(tm)] ELSE tm
  <2> DEFINE n == Left(tm)
             s == MonthStep(tm)
  <2>1. n \in Nat /\ n <= n
    BY MonthTurn
  <2>2. G(n)[tm] = IF Overflows(tm) THEN G(n)[s] ELSE tm
    BY <1>1, <2>1 DEF LoopUpTo
  <2>3. ASSUME Overflows(tm) PROVE G(n)[s] = G(Left(s))[s] /\ s \in DateFields
    <3>1. s \in DateFields /\ Left(s) < n
      BY <2>3, MonthTurn
    <3>2. Left(s) \in Nat /\ Left(s) <= n /\ Left(s) <= Left(s)
      BY <2>1, <3>1, MonthTurn
    <3>3. LoopUpTo(G(n), n) /\ LoopUpTo(G(Left(s)), Left(s))
      BY <1>1, <2>1, <3>2
    <3> HIDE DEF s, n
    <3>4. G(n)[s] = G(Left(s))[s]
      BY <2>1, <3>1, <3>2, <3>3, LoopsAgree
    <3> QED
      BY <3>1, <3>4
  <2> QED
    BY <2>2, <2>3
<1>3. F = loop(F)
  <2>1. F = [tm \in DateFields |-> F[tm]]
    OBVIOUS
  <2> HIDE DEF F
  <2> QED
    BY <2>1, <1>2
<1> HIDE DEF F
<1>4. \E f : f = loop(f)
  BY <1>3
<1>5. MonthLoop = CHOOSE f : f = loop(f)
  BY DEF MonthLoop, MonthStep, Overflows
<1>6. MonthLoop = loop(MonthLoop)
  <2> HIDE DEF loop
  <2> QED
    BY <1>4, <1>5
<1> QED
  BY <1>6

\* The month loop leaves a date of the calendar alone.
LEMMA MonthLoopKeeps ==
    ASSUME NEW tm \in DateFields, tm.tm_mday <= 31
    PROVE  MonthLoop[tm] = tm
<1>1. MonthLoop[tm] = IF Overflows(tm) THEN MonthLoop[MonthStep(tm)] ELSE tm
  BY MonthLoopUnfolds
<1>2. tm.tm_mday \in Nat /\ tm.tm_mon \in 0 .. 11
  BY DEF DateFields
<1>3. spm[1 + tm.tm_mon] \in Nat /\ spm[1 + tm.tm_mon] >= 31
  BY <1>2, Table
<1>4. ~Overflows(tm)
  BY <1>2, <1>3 DEF Overflows
<1> QED
  BY <1>1, <1>4

-----------------------------------------------------------------------------
(***************************************************************************)
(* gmtime_r and mktime.                                                    *)
(***************************************************************************)

\* n days after 1 January 1970 it is the given date.
IsDate(n, year, mon, mday) ==
    /\ n \in Nat
    /\ year \in Nat /\ year >= 1970
    /\ mon \in 0 .. 11
    /\ mday \in 1 .. MonthLength(year, mon)
    /\ n = DaysBefore(year) - DaysBefore(1970) + MonthStart(year, mon) + mday - 1

\* The days of the year before its month, and the days of the month.
LEMMA DateTypes ==
    ASSUME NEW n, NEW year, NEW mon, NEW mday, IsDate(n, year, mon, mday)
    PROVE  MonthLength(year, mon) \in 28 .. 31 /\ MonthStart(year, mon) \in Nat
<1>1. year \in Nat
  BY DEF IsDate
<1>2. mon \in 0 .. 11
  BY DEF IsDate
<1> QED
  BY <1>1, <1>2, MonthTypes, Zenon

\* tm has the fields of struct tm.
IsTm(tm) ==
    tm = [tm_sec |-> tm.tm_sec, tm_min |-> tm.tm_min, tm_hour |-> tm.tm_hour,
          tm_wday |-> tm.tm_wday, tm_year |-> tm.tm_year, tm_yday |-> tm.tm_yday,
          tm_mon |-> tm.tm_mon, tm_mday |-> tm.tm_mday]

\* The time of day in tm is tod, each part below its unit.
HasClock(tm, tod) ==
    /\ tm.tm_sec \in Nat /\ tm.tm_sec < PerMinute
    /\ tm.tm_min \in Nat /\ tm.tm_min < PerHour
    /\ tm.tm_hour \in Nat /\ tm.tm_hour < PerDay
    /\ Clock(tm.tm_hour, tm.tm_min, tm.tm_sec) = tod

\* What gmtime_r has after its year loop.
YearAt(t) == YearLoop[[year |-> 1970, yday |-> t \div SPD]]

\* The fields that gmtime_r sets.
LEMMA GmtimeFields ==
    ASSUME NEW t, NEW tm, tm = gmtime_r(t), NEW y, y = YearAt(t)
    PROVE  /\ IsTm(tm)
           /\ tm.tm_sec = (t % SPD) % PerMinute
           /\ tm.tm_min = ((t % SPD) \div PerMinute) % PerHour
           /\ tm.tm_hour = ((t % SPD) \div PerMinute) \div PerHour
           /\ tm.tm_wday = (4 + (t \div SPD)) % 7
           /\ tm.tm_year = y.year - 1900
           /\ tm.tm_mon = MonthAt(LookedUp(y))
           /\ tm.tm_mday = DayAt(y)
<1>1. gmtime_r(t) =
           [tm_sec  |-> (t % SPD) % PerMinute,
            tm_min  |-> ((t % SPD) \div PerMinute) % PerHour,
            tm_hour |-> ((t % SPD) \div PerMinute) \div PerHour,
            tm_wday |-> (4 + (t \div SPD)) % 7,
            tm_year |-> YearAt(t).year - 1900,
            tm_yday |-> YearAt(t).yday,
            tm_mon  |-> MonthAt(LookedUp(YearAt(t))),
            tm_mday |-> DayAt(YearAt(t))]
  BY DEF gmtime_r, YearAt, AfterLeapDay, LookedUp, MonthAt, DayAt
<1> QED
  BY <1>1 DEF IsTm

\* gmtime_r returns the fields of struct tm, and the time of day, whatever
\* time it is given.
LEMMA GmtimeClock ==
    ASSUME NEW t \in Nat, NEW tm, tm = gmtime_r(t)
    PROVE  /\ IsTm(tm) /\ HasClock(tm, t % SPD)
           /\ tm.tm_wday = (4 + (t \div SPD)) % 7
<1> DEFINE tod == t % SPD
<1>1. /\ IsTm(tm)
      /\ tm.tm_sec = (t % SPD) % PerMinute
      /\ tm.tm_min = ((t % SPD) \div PerMinute) % PerHour
      /\ tm.tm_hour = ((t % SPD) \div PerMinute) \div PerHour
      /\ tm.tm_wday = (4 + (t \div SPD)) % 7
  BY GmtimeFields
<1>2. tod \in 0 .. SPD - 1
  <2>1. t \in Int /\ SPD \in Nat \ {0}
    BY DayLength
  <2>2. tod \in Nat /\ tod < SPD
    BY <2>1, Division
  <2> QED
    BY <2>1, <2>2
<1> HIDE DEF tod
<1>3. tm.tm_sec = tod % PerMinute /\ tm.tm_min = (tod \div PerMinute) % PerHour
      /\ tm.tm_hour = (tod \div PerMinute) \div PerHour
  BY <1>1 DEF tod
<1>4. HasClock(tm, tod)
  BY <1>2, <1>3, TimeOfDay DEF HasClock
<1> QED
  BY <1>1, <1>4 DEF tod

\* A date and its day of the year.
LEMMA DateInYear ==
    ASSUME NEW n, NEW year, NEW mon, NEW mday, IsDate(n, year, mon, mday),
           NEW r, r = [year |-> year, yday |-> MonthStart(year, mon) + mday - 1]
    PROVE  InYear(r, DaysBefore(1970) + n)
<1>1. /\ n \in Nat /\ year \in Nat /\ mon \in 0 .. 11 /\ mday \in 1 .. MonthLength(year, mon)
      /\ n = DaysBefore(year) - DaysBefore(1970) + MonthStart(year, mon) + mday - 1
  BY DEF IsDate
<1>2. /\ MonthStart(year, mon) \in Nat /\ MonthLength(year, mon) \in 28 .. 31
      /\ MonthStart(year, mon) + MonthLength(year, mon)
            = IF mon < 11 THEN MonthStart(year, mon + 1) ELSE DaysOfYear(year)
  <2>1. year \in Nat
    BY <1>1
  <2>2. mon \in 0 .. 11
    BY <1>1
  <2> QED
    BY <2>1, <2>2, MonthDays, Zenon
<1>3. MonthStart(year, mon) + MonthLength(year, mon) <= DaysOfYear(year)
  <2>1. ASSUME mon < 11 PROVE MonthStart(year, mon + 1) <= DaysOfYear(year)
    <3>1. spm[mon + 1] \in Nat /\ spm[mon + 1] <= 334
      BY <1>1, <2>1, Table
    <3> QED
      BY <3>1 DEF MonthStart, DaysOfYear
  <2>2. DaysOfYear(year) \in Nat
    BY <1>1, YearDays
  <2> QED
    BY <1>1, <1>2, <2>1, <2>2
<1>4. DaysBefore(year) \in Nat /\ DaysBefore(1970) \in Nat /\ DaysOfYear(year) \in Nat
  BY <1>1, NextYear, YearDays
<1> DEFINE yday == MonthStart(year, mon) + mday - 1
<1>5. yday \in Nat /\ yday < DaysOfYear(year) /\ DaysBefore(year) + yday = DaysBefore(1970) + n
  BY <1>1, <1>2, <1>3, <1>4
<1> HIDE DEF yday
<1>6. r.year = year /\ r.yday = yday /\ r \in YearFields
  BY <1>1, <1>5 DEF YearFields, yday
<1> QED
  BY <1>5, <1>6 DEF InYear

\* gmtime_r gives a time its date.
LEMMA GmtimeDate ==
    ASSUME NEW n, NEW year, NEW mon, NEW mday, IsDate(n, year, mon, mday),
           NEW t, t \div SPD = n, NEW tm, tm = gmtime_r(t)
    PROVE  tm.tm_year = year - 1900 /\ tm.tm_mon = mon /\ tm.tm_mday = mday
<1> DEFINE z == [year |-> 1970, yday |-> t \div SPD]
           y == YearAt(t)
           r == [year |-> year, yday |-> MonthStart(year, mon) + mday - 1]
<1>1. n \in Nat /\ year \in Nat /\ mon \in 0 .. 11 /\ mday \in 1 .. MonthLength(year, mon)
  BY DEF IsDate
<1>2. z \in YearFields /\ DayOf(z) = DaysBefore(1970) + n
  BY <1>1 DEF YearFields, DayOf
<1>3. InYear(y, DaysBefore(1970) + n)
  <2>1. y = YearLoop[z]
    BY DEF YearAt
  <2> HIDE DEF z, y
  <2> QED
    BY <1>2, <2>1, YearLoopEnds
<1>4. InYear(r, DaysBefore(1970) + n)
  BY DateInYear
<1>5. DaysBefore(1970) + n \in Nat
  BY <1>1, NextYear
<1>6. y = r
  <2> HIDE DEF y, r
  <2> QED
    BY <1>3, <1>4, <1>5, OneYear
<1>7. y.year = year /\ y.yday = MonthStart(year, mon) + mday - 1
  BY <1>6
<1>8. tm.tm_year = y.year - 1900 /\ tm.tm_mon = MonthAt(LookedUp(y)) /\ tm.tm_mday = DayAt(y)
  BY GmtimeFields
<1> HIDE DEF y
<1>9. MonthAt(LookedUp(y)) = mon /\ DayAt(y) = mday
  <2>1. y.year \in Nat /\ y.yday = MonthStart(y.year, mon) + mday - 1
    BY <1>1, <1>7
  <2>2. mday \in 1 .. MonthLength(y.year, mon)
    BY <1>1, <1>7
  <2> QED
    BY <1>1, <2>1, <2>2, MonthOfDay
<1> QED
  BY <1>7, <1>8, <1>9

\* The days that mktime counts for full years.
FullYears(years) == years * 365 + (years + 1) \div 4 - CenturyDays(years)

\* They are those of the calendar.
LEMMA DaysSince1970 ==
    ASSUME NEW year \in Nat, year >= 1970
    PROVE  FullYears(year - 1970) = DaysBefore(year) - DaysBefore(1970)
<1> DEFINE years == year - 1970
<1>1. DaysBefore(1970) = 719528
  BY DEF DaysBefore
<1>2. years \in Nat /\ year = years + 1970
  OBVIOUS
<1>3. (year + 3) \div 4 = (years + 1) \div 4 + 493
  BY <1>2
<1>4. (year + 99) \div 100 - (year + 399) \div 400 = CenturyDays(years) + 15
  <2>1. CASE years < 131
    <3>1. CenturyDays(years) = 0
      BY <2>1 DEF CenturyDays
    <3> QED
      BY <2>1, <3>1, <1>2
  <2>2. CASE years >= 131
    <3> DEFINE c == (years - 131) \div 100
               r == c % 4
               q == c \div 4
    <3>1. c \in Nat /\ r \in 0 .. 3 /\ q \in Nat /\ c = 4 * q + r
      BY <2>2, <1>2
    <3>2. CenturyDays(years) = q * 3 + 1 + (IF r = 3 THEN 2 ELSE r)
      BY <2>2, <1>2 DEF CenturyDays
    <3>3. (year + 99) \div 100 = c + 22
      BY <2>2, <1>2
    <3>4. (year + 399) \div 400 = q + 6 + (IF r = 3 THEN 1 ELSE 0)
      BY <2>2, <1>2
    <3> HIDE DEF c, r, q
    <3> QED
      BY <3>1, <3>2, <3>3, <3>4
  <2> QED
    BY <2>1, <2>2, <1>2
<1>5. CenturyDays(years) \in Int
  BY <1>2 DEF CenturyDays
<1> QED
  BY <1>1, <1>2, <1>3, <1>4, <1>5 DEF DaysBefore, FullYears

\* mktime gives fields within their units the second they name.
LEMMA MktimeDate ==
    ASSUME NEW tm, NEW n, IsDate(n, tm.tm_year + 1900, tm.tm_mon, tm.tm_mday),
           tm.tm_year \in Int, NEW tod \in Nat, HasClock(tm, tod)
    PROVE  mktime(tm) = n * SPD + tod
<1> DEFINE year == tm.tm_year + 1900
           h == tm.tm_hour
           m == tm.tm_min
           s == tm.tm_sec
           d == [tm_mday |-> tm.tm_mday, tm_mon |-> tm.tm_mon, tm_year |-> tm.tm_year]
           years == tm.tm_year - 70
           yday == spm[tm.tm_mon] + tm.tm_mday - 1
                   + (IF isleap(tm.tm_year + 1900) /\ tm.tm_mon > 1 THEN 1 ELSE 0)
           days == years * 365 + (years + 1) \div 4 - CenturyDays(years) + yday
<1>1. /\ n \in Nat /\ year \in Nat /\ year >= 1970 /\ tm.tm_mon \in 0 .. 11
      /\ tm.tm_mday \in 1 .. MonthLength(year, tm.tm_mon)
      /\ n = DaysBefore(year) - DaysBefore(1970) + MonthStart(year, tm.tm_mon) + tm.tm_mday - 1
  BY DEF IsDate
<1>2. s \in Nat /\ s < PerMinute /\ m \in Nat /\ m < PerHour /\ h \in Nat /\ h < PerDay
      /\ (h * PerHour + m) * PerMinute + s = tod
  BY DEF HasClock, Clock
<1>3. MonthLength(year, tm.tm_mon) \in 28 .. 31 /\ MonthStart(year, tm.tm_mon) \in Nat
  BY DateTypes
<1>4. tm.tm_mday \in Nat /\ tm.tm_mday <= 31 /\ tm.tm_year \in Nat /\ ~(tm.tm_year < 70)
  BY <1>1, <1>3
<1>5. /\ Carry(tm, "tm_sec", "tm_min", PerMinute) = tm
      /\ Carry(tm, "tm_min", "tm_hour", PerHour) = tm
      /\ Carry(tm, "tm_hour", "tm_mday", PerDay) = tm
      /\ Carry(tm, "tm_mon", "tm_year", 12) = tm
  BY <1>1, <1>2, UnitsAssumption DEF Carry
<1>6. MonthLoop[d] = d
  <2>1. d \in DateFields /\ d.tm_mday <= 31
    BY <1>1, <1>4 DEF DateFields
  <2> HIDE DEF d
  <2> QED
    BY <2>1, MonthLoopKeeps
<1>7. mktime(tm) = IF d.tm_year < 70 THEN -1
                   ELSE (((years * 365 + (years + 1) \div 4 - CenturyDays(years)
                           + (spm[d.tm_mon] + d.tm_mday - 1
                              + (IF isleap(d.tm_year + 1900) /\ d.tm_mon > 1 THEN 1 ELSE 0)))
                          * PerDay + tm.tm_hour) * PerHour + tm.tm_min) * PerMinute + tm.tm_sec
  <2> HIDE DEF d
  <2>1. MonthLoop[[tm_mday |-> tm.tm_mday, tm_mon |-> tm.tm_mon, tm_year |-> tm.tm_year]] = d
    BY <1>6 DEF d
  <2> QED
    BY <1>5, <2>1 DEF mktime
<1>8. mktime(tm) = ((days * PerDay + h) * PerHour + m) * PerMinute + s
  BY <1>4, <1>7
<1>9. yday = MonthStart(year, tm.tm_mon) + tm.tm_mday - 1
  <2>1. spm[tm.tm_mon] \in Nat
    BY <1>1, Table
  <2> QED
    BY <2>1, <1>4 DEF MonthStart
<1>10. days = n
  <2> HIDE DEF year, yday, years
  <2>1. years = year - 1970 /\ year \in Nat /\ year >= 1970
    BY <1>1, <1>4 DEF years, year
  <2>2. FullYears(years) = DaysBefore(year) - DaysBefore(1970)
    BY <2>1, DaysSince1970
  <2>3. DaysBefore(year) \in Nat /\ DaysBefore(1970) \in Nat
    BY <1>1, NextYear
  <2>4. days = FullYears(years) + yday
    BY DEF FullYears
  <2> HIDE DEF days
  <2> QED
    BY <2>2, <2>3, <2>4, <1>1, <1>3, <1>4, <1>9
<1> HIDE DEF days, h, m, s
<1>11. ((n * PerDay + h) * PerHour + m) * PerMinute + s
          = n * SPD + ((h * PerHour + m) * PerMinute + s)
  BY <1>1, <1>2, UnitsAssumption DEF SPD
<1> QED
  BY <1>2, <1>8, <1>10, <1>11

-----------------------------------------------------------------------------
(***************************************************************************)
(* The walk through the days.                                              *)
(***************************************************************************)

\* What the walk keeps of a date.
WalkDate == [year : Nat, mon : 0 .. 11, mday : Nat, wday : 0 .. 6]

\* The walk counts its days right: the date is the one `day` days after
\* 1 January 1970, and the weekday goes with it.
WalkInv ==
    /\ date \in WalkDate
    /\ IsDate(day, date.year, date.mon, date.mday)
    /\ date.wday = (4 + day) % 7

\* The walk starts on a Thursday.
LEMMA InitWalk == Init => WalkInv
<1> SUFFICES ASSUME Init PROVE WalkInv
  OBVIOUS
<1>1. day = 0 /\ date.year = 1970 /\ date.mon = 0 /\ date.mday = 1 /\ date.wday = 4
      /\ date \in WalkDate
  BY DEF Init, WalkDate
<1>2. MonthStart(1970, 0) = 0
  BY Table DEF MonthStart
<1>3. MonthLength(1970, 0) \in 28 .. 31 /\ DaysBefore(1970) \in Nat
  BY MonthTypes, NextYear
<1> QED
  BY <1>1, <1>2, <1>3 DEF WalkInv, IsDate

\* The next day of a month, the first of the next month, or of the next year.
LEMMA NextIsDate ==
    ASSUME NEW n, NEW year, NEW mon, NEW mday, IsDate(n, year, mon, mday)
    PROVE  /\ mday < MonthLength(year, mon) => IsDate(n + 1, year, mon, mday + 1)
           /\ mday >= MonthLength(year, mon) /\ mon < 11 => IsDate(n + 1, year, mon + 1, 1)
           /\ mday >= MonthLength(year, mon) /\ mon >= 11 => IsDate(n + 1, year + 1, 0, 1)
<1>1. /\ n \in Nat /\ year \in Nat /\ year >= 1970 /\ mon \in 0 .. 11
      /\ mday \in 1 .. MonthLength(year, mon)
      /\ n = DaysBefore(year) - DaysBefore(1970) + MonthStart(year, mon) + mday - 1
  BY DEF IsDate
<1>2. /\ MonthStart(year, mon) \in Nat /\ MonthLength(year, mon) \in 28 .. 31
      /\ MonthStart(year, mon) + MonthLength(year, mon)
            = IF mon < 11 THEN MonthStart(year, mon + 1) ELSE DaysOfYear(year)
  <2>1. year \in Nat
    BY <1>1
  <2>2. mon \in 0 .. 11
    BY <1>1
  <2> QED
    BY <2>1, <2>2, MonthDays, Zenon
<1>3. /\ DaysBefore(year) \in Nat /\ DaysBefore(1970) \in Nat /\ DaysOfYear(year) \in Nat
      /\ DaysBefore(year + 1) = DaysBefore(year) + DaysOfYear(year)
  BY <1>1, NextYear, YearDays
<1>4. ASSUME mday < MonthLength(year, mon)
      PROVE  IsDate(n + 1, year, mon, mday + 1)
  BY <1>1, <1>2, <1>3, <1>4 DEF IsDate
<1>5. ASSUME mday >= MonthLength(year, mon), mon < 11
      PROVE  IsDate(n + 1, year, mon + 1, 1)
  <2>1. mday = MonthLength(year, mon)
    BY <1>1, <1>2, <1>5
  <2>2. n + 1 = DaysBefore(year) - DaysBefore(1970) + MonthStart(year, mon + 1) + 1 - 1
    BY <1>1, <1>2, <1>3, <1>5, <2>1
  <2>3. mon + 1 \in 0 .. 11
    BY <1>1, <1>5
  <2>4. MonthLength(year, mon + 1) \in 28 .. 31
    <3> DEFINE next == mon + 1
    <3>1. next \in 0 .. 11 /\ year \in Nat
      BY <1>1, <2>3
    <3> HIDE DEF next
    <3>2. MonthLength(year, next) \in 28 .. 31
      BY <3>1, MonthTypes
    <3> QED
      BY <3>2 DEF next
  <2> QED
    BY <1>1, <2>2, <2>3, <2>4 DEF IsDate
<1>6. ASSUME mday >= MonthLength(year, mon), mon >= 11
      PROVE  IsDate(n + 1, year + 1, 0, 1)
  <2>1. mday = MonthLength(year, mon) /\ ~(mon < 11)
    BY <1>1, <1>2, <1>6
  <2>2. MonthStart(year + 1, 0) = 0
    BY Table DEF MonthStart
  <2>3. n + 1 = DaysBefore(year + 1) - DaysBefore(1970) + MonthStart(year + 1, 0) + 1 - 1
    BY <1>1, <1>2, <1>3, <2>1, <2>2
  <2>4. year + 1 \in Nat /\ year + 1 >= 1970
    BY <1>1
  <2>5. MonthLength(year + 1, 0) \in 28 .. 31
    <3> DEFINE next == year + 1
    <3>1. next \in Nat /\ 0 \in 0 .. 11
      BY <2>4
    <3> HIDE DEF next
    <3>2. MonthLength(next, 0) \in 28 .. 31
      BY <3>1, MonthTypes
    <3> QED
      BY <3>2 DEF next
  <2> QED
    BY <1>1, <2>3, <2>4, <2>5 DEF IsDate
<1> QED
  BY <1>4, <1>5, <1>6

\* The date of the next day.
LEMMA NextDateIs ==
    ASSUME NEW n, NEW d \in WalkDate, IsDate(n, d.year, d.mon, d.mday), d.wday = (4 + n) % 7,
           NEW e, e = NextDate(d)
    PROVE  e \in WalkDate /\ IsDate(n + 1, e.year, e.mon, e.mday) /\ e.wday = (4 + (n + 1)) % 7
<1> DEFINE w == (d.wday + 1) % 7
<1>1. /\ n \in Nat /\ d.year \in Nat /\ d.mon \in 0 .. 11 /\ d.mday \in Nat
      /\ d.wday \in 0 .. 6
  BY DEF IsDate, WalkDate
<1>2. MonthLength(d.year, d.mon) \in Int
  BY DateTypes
<1>3. w \in 0 .. 6 /\ w = (4 + (n + 1)) % 7
  BY <1>1
<1>4. e = IF d.mday < MonthLength(d.year, d.mon) THEN [d EXCEPT !.mday = d.mday + 1, !.wday = w]
          ELSE IF d.mon < 11 THEN [d EXCEPT !.mday = 1, !.mon = d.mon + 1, !.wday = w]
          ELSE [year |-> d.year + 1, mon |-> 0, mday |-> 1, wday |-> w]
  BY DEF NextDate
<1>5. /\ d.mday < MonthLength(d.year, d.mon) => IsDate(n + 1, d.year, d.mon, d.mday + 1)
      /\ d.mday >= MonthLength(d.year, d.mon) /\ d.mon < 11 => IsDate(n + 1, d.year, d.mon + 1, 1)
      /\ d.mday >= MonthLength(d.year, d.mon) /\ d.mon >= 11 => IsDate(n + 1, d.year + 1, 0, 1)
  BY NextIsDate
<1> HIDE DEF w
<1>6. CASE d.mday < MonthLength(d.year, d.mon)
  <2>1. e = [d EXCEPT !.mday = d.mday + 1, !.wday = w]
    BY <1>4, <1>6
  <2>2. e.year = d.year /\ e.mon = d.mon /\ e.mday = d.mday + 1 /\ e.wday = w
    BY <2>1 DEF WalkDate
  <2>3. e \in WalkDate
    <3>1. d.mday + 1 \in Nat
      BY <1>1
    <3>2. PICK f \in WalkDate : f = [d EXCEPT !.mday = d.mday + 1]
      BY <3>1 DEF WalkDate
    <3>3. e = [f EXCEPT !.wday = w]
      BY <2>1, <3>2
    <3> QED
      BY <3>3, <1>3 DEF WalkDate
  <2> QED
    BY <1>3, <1>5, <1>6, <2>2, <2>3
<1>7. CASE ~(d.mday < MonthLength(d.year, d.mon)) /\ d.mon < 11
  <2>1. e = [d EXCEPT !.mday = 1, !.mon = d.mon + 1, !.wday = w]
    BY <1>4, <1>7
  <2>2. e.year = d.year /\ e.mon = d.mon + 1 /\ e.mday = 1 /\ e.wday = w
    BY <2>1 DEF WalkDate
  <2>3. e \in WalkDate
    <3>1. d.mon + 1 \in 0 .. 11
      BY <1>1, <1>7
    <3>2. PICK f \in WalkDate : f = [d EXCEPT !.mday = 1]
      BY <1>1 DEF WalkDate
    <3>3. PICK g \in WalkDate : g = [f EXCEPT !.mon = d.mon + 1]
      BY <3>1 DEF WalkDate
    <3>4. e = [g EXCEPT !.wday = w]
      BY <2>1, <3>2, <3>3
    <3> QED
      BY <3>4, <1>3 DEF WalkDate
  <2>4. IsDate(n + 1, d.year, d.mon + 1, 1)
    BY <1>1, <1>2, <1>5, <1>7
  <2> QED
    BY <1>3, <2>2, <2>3, <2>4
<1>8. CASE ~(d.mday < MonthLength(d.year, d.mon)) /\ ~(d.mon < 11)
  <2>1. e = [year |-> d.year + 1, mon |-> 0, mday |-> 1, wday |-> w]
    BY <1>4, <1>8
  <2>2. e.year = d.year + 1 /\ e.mon = 0 /\ e.mday = 1 /\ e.wday = w /\ e \in WalkDate
    BY <2>1, <1>1, <1>3 DEF WalkDate
  <2>3. IsDate(n + 1, d.year + 1, 0, 1)
    BY <1>1, <1>2, <1>5, <1>8
  <2> QED
    BY <1>3, <2>2, <2>3
<1> QED
  BY <1>6, <1>7, <1>8

\* Every day keeps the count.
LEMMA WalkStep == WalkInv /\ [Next]_vars => WalkInv'
<1> SUFFICES ASSUME WalkInv, [Next]_vars PROVE WalkInv'
  OBVIOUS
<1>1. CASE UNCHANGED vars
  BY <1>1 DEF vars, WalkInv, IsDate
<1>2. CASE Tomorrow
  <2>1. day' = day + 1 /\ date' = NextDate(date)
    BY <1>2 DEF Tomorrow
  <2>2. /\ date \in WalkDate /\ IsDate(day, date.year, date.mon, date.mday)
        /\ date.wday = (4 + day) % 7
    BY DEF WalkInv
  <2>3. /\ date' \in WalkDate /\ IsDate(day + 1, date'.year, date'.mon, date'.mday)
        /\ date'.wday = (4 + (day + 1)) % 7
    BY <2>1, <2>2, NextDateIs
  <2>4. IsDate(day', date'.year, date'.mon, date'.mday)
    BY <2>1, <2>3
  <2> QED
    BY <2>1, <2>3, <2>4 DEF WalkInv, IsDate
<1> QED
  BY <1>1, <1>2 DEF Next

\* The walk counts right on every day.
LEMMA WalkInvariant == Spec => []WalkInv
BY InitWalk, WalkStep, PTL DEF Spec

\* The moments of a day lie within it.
LEMMA MomentsOfDay ==
    ASSUME day \in Nat, NEW t \in Moments
    PROVE  \E tod \in 0 .. SPD - 1 : t = day * SPD + tod
<1> DEFINE s == SPD
<1>1. s \in Nat \ {0}
  BY DayLength
<1> HIDE DEF s
<1> DEFINE x == day * s
<1>2. t \in {x, x + s \div 2, x + s - 1}
  BY DEF Moments, s
<1>3. x \in Int
  BY <1>1
<1> HIDE DEF x
<1>4. s \div 2 \in 0 .. s - 1 /\ s - 1 \in 0 .. s - 1 /\ 0 \in 0 .. s - 1
  BY <1>1
<1>5. t = x + 0 \/ t = x + s \div 2 \/ t = x + (s - 1)
  BY <1>1, <1>2, <1>3
<1>6. \E tod \in 0 .. s - 1 : t = x + tod
  BY <1>4, <1>5
<1> QED
  BY <1>6 DEF x, s

\* gmtime_r gives every day the year, month, day and weekday the Gregorian
\* calendar gives it, and the time of day it has, on every day of a walk of any
\* length.
THEOREM CalendarGmtime == Spec => []GmtimeIsCalendar
<1>1. WalkInv => GmtimeIsCalendar
  <2> SUFFICES ASSUME WalkInv, NEW t \in Moments, NEW tm, tm = gmtime_r(t)
               PROVE  /\ tm.tm_year + 1900 = date.year
                      /\ tm.tm_mon = date.mon
                      /\ tm.tm_mday = date.mday
                      /\ tm.tm_wday = date.wday
                      /\ tm.tm_sec < PerMinute
                      /\ tm.tm_min < PerHour
                      /\ (tm.tm_hour * PerHour + tm.tm_min) * PerMinute + tm.tm_sec
                            = t - day * SPD
    BY DEF GmtimeIsCalendar
  <2>1. day \in Nat /\ date.year \in Nat /\ IsDate(day, date.year, date.mon, date.mday)
    BY DEF WalkInv, IsDate
  <2>2. PICK tod \in 0 .. SPD - 1 : t = day * SPD + tod
    BY <2>1, MomentsOfDay
  <2>3. t \in Nat /\ t % SPD = tod /\ t \div SPD = day
    BY <2>1, <2>2, SecondOfDay
  <2>4. tm.tm_year = date.year - 1900 /\ tm.tm_mon = date.mon /\ tm.tm_mday = date.mday
    BY <2>1, <2>3, GmtimeDate
  <2>5. HasClock(tm, tod) /\ tm.tm_wday = (4 + day) % 7
    BY <2>3, GmtimeClock
  <2>6. tod = t - day * SPD
    <3> DEFINE x == day * SPD
    <3>1. x \in Int
      BY <2>1, DayLength
    <3> HIDE DEF x
    <3>2. t = x + tod /\ tod \in Int
      BY <2>2, DayLength DEF x
    <3>3. tod = t - x
      BY <3>1, <3>2
    <3> QED
      BY <3>3 DEF x
  <2>7. tm.tm_wday = date.wday
    BY <2>5 DEF WalkInv
  <2>8. tm.tm_year + 1900 = date.year
    BY <2>1, <2>4
  <2> QED
    BY <2>4, <2>5, <2>6, <2>7, <2>8 DEF HasClock, Clock
<1> QED
  BY <1>1, WalkInvariant, PTL

\* set_time keeps the day of the time it read and set_date its time of day, and
\* gmtime_r and mktime undo each other, on every day of a walk of any length.
THEOREM CalendarFields == Spec => []FieldsReplaced
<1>1. WalkInv => FieldsReplaced
  <2> SUFFICES ASSUME WalkInv PROVE FieldsReplaced
    OBVIOUS
  <2>1. /\ day \in Nat /\ date.year \in Nat /\ date.year >= 1970
        /\ IsDate(day, date.year, date.mon, date.mday)
    BY DEF WalkInv, IsDate
  <2>2. SPD \in Nat \ {0}
    BY DayLength
  <2>3. ASSUME NEW t \in Moments
        PROVE  /\ mktime(gmtime_r(t)) = t
               /\ \A tod \in {0, SPD - 1} :
                     SetTimeValue(t, gmtime_r(tod).tm_hour, gmtime_r(tod).tm_min, gmtime_r(tod).tm_sec)
                        = day * SPD + tod
    <3> DEFINE g == gmtime_r(t)
    <3>1. PICK now \in 0 .. SPD - 1 : t = day * SPD + now
      BY <2>1, MomentsOfDay
    <3>2. t \in Nat /\ t % SPD = now /\ t \div SPD = day
      BY <2>1, <3>1, SecondOfDay
    <3>3. g.tm_year = date.year - 1900 /\ g.tm_mon = date.mon /\ g.tm_mday = date.mday
      BY <2>1, <3>2, GmtimeDate
    <3>4. IsTm(g) /\ HasClock(g, now)
      BY <3>2, GmtimeClock
    <3>5. g.tm_year \in Int /\ g.tm_year + 1900 = date.year /\ now \in Nat
      BY <2>1, <2>2, <3>3
    <3> HIDE DEF g
    <3>6. IsDate(day, g.tm_year + 1900, g.tm_mon, g.tm_mday)
      BY <2>1, <3>3, <3>5
    <3>7. mktime(g) = day * SPD + now
      BY <3>4, <3>5, <3>6, MktimeDate
    <3>8. ASSUME NEW tod \in {0, SPD - 1}, NEW c, c = gmtime_r(tod)
          PROVE  SetTimeValue(t, c.tm_hour, c.tm_min, c.tm_sec) = day * SPD + tod
      <4>1. tod \in Nat /\ tod \in 0 .. SPD - 1
        BY <2>2
      <4>2. tod % SPD = tod
        <5>1. 0 \in Nat /\ tod = 0 * SPD + tod
          BY <2>2, <4>1
        <5> QED
          BY <4>1, <5>1, SecondOfDay
      <4>3. HasClock(c, tod)
        BY <3>8, <4>1, <4>2, GmtimeClock
      <4> DEFINE r == [g EXCEPT !.tm_hour = c.tm_hour, !.tm_min = c.tm_min, !.tm_sec = c.tm_sec]
      <4>4. /\ r.tm_hour = c.tm_hour /\ r.tm_min = c.tm_min /\ r.tm_sec = c.tm_sec
            /\ r.tm_year = g.tm_year /\ r.tm_mon = g.tm_mon /\ r.tm_mday = g.tm_mday
        BY <3>4 DEF IsTm
      <4>5. SetTimeValue(t, c.tm_hour, c.tm_min, c.tm_sec) = mktime(r)
        BY DEF SetTimeValue, g
      <4> HIDE DEF r
      <4>6. HasClock(r, tod)
        BY <4>3, <4>4 DEF HasClock
      <4>7. IsDate(day, r.tm_year + 1900, r.tm_mon, r.tm_mday) /\ r.tm_year \in Int
        BY <3>5, <3>6, <4>4
      <4>8. mktime(r) = day * SPD + tod
        BY <4>1, <4>6, <4>7, MktimeDate
      <4> QED
        BY <4>5, <4>8
    <3> QED
      BY <3>1, <3>7, <3>8 DEF g
  <2>4. ASSUME NEW other \in Nat
        PROVE  SetDateValue(other, date.year, date.mon + 1, date.mday) = day * SPD + (other % SPD)
    <3> DEFINE g == gmtime_r(other)
               tod == other % SPD
               r == [g EXCEPT !.tm_year = date.year - 1900, !.tm_mon = (date.mon + 1) - 1,
                              !.tm_mday = date.mday]
    <3>1. IsTm(g) /\ HasClock(g, tod)
      BY GmtimeClock
    <3>2. tod \in Nat
      BY <2>2, Division
    <3>3. (date.mon + 1) - 1 = date.mon
      BY <2>1 DEF IsDate
    <3>4. SetDateValue(other, date.year, date.mon + 1, date.mday) = mktime(r)
      BY DEF SetDateValue
    <3> HIDE DEF g, tod
    <3>5. /\ r.tm_hour = g.tm_hour /\ r.tm_min = g.tm_min /\ r.tm_sec = g.tm_sec
          /\ r.tm_year = date.year - 1900 /\ r.tm_mon = date.mon /\ r.tm_mday = date.mday
      BY <3>1, <3>3 DEF IsTm
    <3> HIDE DEF r
    <3>6. HasClock(r, tod)
      BY <3>1, <3>5 DEF HasClock
    <3>7. r.tm_year \in Int /\ r.tm_year + 1900 = date.year
      BY <2>1, <3>5
    <3>8. IsDate(day, r.tm_year + 1900, r.tm_mon, r.tm_mday)
      BY <2>1, <3>5, <3>7
    <3>9. mktime(r) = day * SPD + tod
      BY <3>2, <3>6, <3>7, <3>8, MktimeDate
    <3> QED
      BY <3>4, <3>9 DEF tod
  <2>5. {SPD - 1, 789 * SPD, 16495 * SPD + SPD \div 2} \subseteq Nat
    BY <2>2
  <2>6. \A other \in {SPD - 1, 789 * SPD, 16495 * SPD + SPD \div 2} :
           SetDateValue(other, date.year, date.mon + 1, date.mday) = day * SPD + (other % SPD)
    BY <2>4, <2>5
  <2> QED
    BY <2>3, <2>6 DEF FieldsReplaced
<1> QED
  BY <1>1, WalkInvariant, PTL

=============================================================================
