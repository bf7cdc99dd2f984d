------------------------------- MODULE PartsProofs -------------------------------
(***************************************************************************)
(* Proofs about the parts MCParts checks together.  The fiscal calendar is *)
(* right for every configuration and every date, the last period of the    *)
(* parser ends where the current one starts, a question fails on a date    *)
(* only at the edge of the calendar, no word of a question is read twice,  *)
(* and of two phrases of which one is a part of the other the longer is    *)
(* taken, whatever the question;                                           *)
(* the quantities of the mirror and their index come apart only where      *)
(* MismatchExplained says, for any number of clients and products; the     *)
(* baseline returns and reports what it should for any number of           *)
(* corrections and whatever the model answers; the insight detector        *)
(* counts the groups that fell between the last two periods of time, where *)
(* the columns of a period are written in its order; and the searches for  *)
(* join paths find what there is, and only that, for every schema and any  *)
(* number of hops.                                                         *)
(***************************************************************************)
EXTENDS TemporalParser, QuantMirror, MacSql, InsightDetector, JoinPaths, Recursion,
  SequenceTheorems, TLAPS

(***************************************************************************)
(* The fiscal calendar.                                                    *)
(***************************************************************************)

\* The months of a fiscal year lie in two calendar years.
LEMMA MonthArithmetic ==
  ASSUME NEW m \in 0..23
  PROVE  /\ m \div 12 = IF m < 12 THEN 0 ELSE 1
         /\ m % 12 = IF m < 12 THEN m ELSE m - 12
  BY SMT

\* The fiscal year of a day contains the day, for every configuration.
LEMMA YearOfADay ==
  ASSUME NEW c \in Config, NEW d \in Date
  PROVE  YearContains(c, d)
  BY SMT DEF YearContains, FiscalYearFor, FiscalYearBounds, IsCalendarYear, Within, Earlier, On, Config, Date

\* Months are counted from January of year 0.
MonthNumber(y, m) == 12 * y + m - 1
FirstMonth(c, fy) == MonthNumber(FiscalYearBounds(c, fy).start.year, FiscalYearBounds(c, fy).start.month)
MonthsSince(c, d) == MonthNumber(d.year, d.month) - FirstMonth(c, FiscalYearFor(c, d))

\* A day is before the first of a month exactly when its month is.
LEMMA BeforeAFirst ==
  ASSUME NEW d \in Date, NEW y \in Int, NEW m \in 1..12
  PROVE  Earlier(d, On(y, m, 1)) <=> MonthNumber(d.year, d.month) < MonthNumber(y, m)
  BY SMT DEF Earlier, On, MonthNumber, Date

\* The year bounds of a configuration are dates, its start the first of a year
\* or the day configured.
LEMMA WhereAYearStarts ==
  ASSUME NEW c \in Config, NEW fy \in Int
  PROVE  /\ FiscalYearBounds(c, fy).start.year \in Int
         /\ FiscalYearBounds(c, fy).start.month \in 1..12
  BY DEF FiscalYearBounds, IsCalendarYear, On, Config

\* A quarter starts on the first of a month, three months after the one before.
LEMMA WhereAQuarterStarts ==
  ASSUME NEW c \in Config, NEW fy \in Int, NEW q \in 0..4
  PROVE  \E y \in Int, m \in 1..12 :
           QuarterStart(c, fy, q) = On(y, m, 1) /\ MonthNumber(y, m) = FirstMonth(c, fy) + 3 * q
<1> DEFINE first == FiscalYearBounds(c, fy).start
           k == first.month - 1 + 3 * q
           y == first.year + k \div 12
           m == (k % 12) + 1
<1>1. first.year \in Int /\ first.month \in 1..12
  BY WhereAYearStarts
<1>2. k \in 0..23
  BY <1>1
<1>3. /\ k \div 12 = IF k < 12 THEN 0 ELSE 1
      /\ k % 12 = IF k < 12 THEN k ELSE k - 12
  BY <1>2, MonthArithmetic
<1>4. QuarterStart(c, fy, q) = On(y, m, 1)
  BY DEF QuarterStart
<1>5. y \in Int /\ m \in 1..12 /\ MonthNumber(y, m) = MonthNumber(first.year, first.month) + 3 * q
  <2> HIDE DEF first
  <2> QED BY <1>1, <1>2, <1>3 DEF MonthNumber
<1> QED BY <1>4, <1>5 DEF FirstMonth

\* A day lies in the quarter that its month lies in.
LEMMA InAQuarter ==
  ASSUME NEW c \in Config, NEW d \in Date, NEW q \in 1..4, FiscalYearFor(c, d) \in Int
  PROVE  Within(d, FiscalQuarterBounds(c, FiscalYearFor(c, d), q))
           <=> 3 * (q - 1) <= MonthsSince(c, d) /\ MonthsSince(c, d) < 3 * q
<1> DEFINE fy == FiscalYearFor(c, d)
           n == MonthNumber(d.year, d.month)
<1>1. PICK y1 \in Int, m1 \in 1..12 :
        QuarterStart(c, fy, q - 1) = On(y1, m1, 1) /\ MonthNumber(y1, m1) = FirstMonth(c, fy) + 3 * (q - 1)
  BY WhereAQuarterStarts
<1>2. PICK y2 \in Int, m2 \in 1..12 :
        QuarterStart(c, fy, q) = On(y2, m2, 1) /\ MonthNumber(y2, m2) = FirstMonth(c, fy) + 3 * q
  BY WhereAQuarterStarts
<1>3. Earlier(d, QuarterStart(c, fy, q - 1)) <=> n < FirstMonth(c, fy) + 3 * (q - 1)
  BY <1>1, BeforeAFirst
<1>4. Earlier(d, QuarterStart(c, fy, q)) <=> n < FirstMonth(c, fy) + 3 * q
  BY <1>2, BeforeAFirst
<1>5. Within(d, FiscalQuarterBounds(c, fy, q))
        <=> ~(n < FirstMonth(c, fy) + 3 * (q - 1)) /\ n < FirstMonth(c, fy) + 3 * q
  BY <1>3, <1>4 DEF Within, FiscalQuarterBounds
<1>6. n \in Int /\ FirstMonth(c, fy) \in Int
  BY WhereAYearStarts DEF FirstMonth, MonthNumber, Date
<1>7. MonthsSince(c, d) = n - FirstMonth(c, fy)
  BY DEF MonthsSince
<1> HIDE DEF n, fy
<1> QED BY <1>5, <1>6, <1>7 DEF n, fy

\* A day lies in one of the twelve months from the first of its fiscal year, or
\* in the thirteenth if it is left out.
LEMMA MonthsInAYear ==
  ASSUME NEW c \in Config, NEW d \in Date
  PROVE  /\ FiscalYearFor(c, d) \in Int
         /\ MonthsSince(c, d) \in Int
         /\ LeftOut(c, d) => MonthsSince(c, d) = 12
         /\ ~LeftOut(c, d) => MonthsSince(c, d) \in 0..11
  BY SMT DEF MonthsSince, FirstMonth, MonthNumber, FiscalYearFor, FiscalYearBounds, IsCalendarYear, Earlier,
       On, LeftOut, Config, Date

\* Exactly one quarter of its fiscal year contains a day that is not left out.
LEMMA QuarterOfADay ==
  ASSUME NEW c \in Config, NEW d \in Date
  PROVE  QuarterContains(c, d)
<1> DEFINE In(q) == Within(d, FiscalQuarterBounds(c, FiscalYearFor(c, d), q))
           n == MonthsSince(c, d)
<1>1. \A q \in 1..4 : In(q) <=> 3 * (q - 1) <= n /\ n < 3 * q
  BY InAQuarter, MonthsInAYear
<1>2. n \in Int
  BY MonthsInAYear
<1> HIDE DEF In, n
<1>3. n = 12 => \A q \in 1..4 : ~In(q)
  BY <1>1, <1>2
<1>4. n \in 0..11 => \E q \in 1..4 : \A p \in 1..4 : In(p) <=> p = q
  <2> SUFFICES ASSUME n \in 0..11
               PROVE  \E q \in 1..4 : \A p \in 1..4 : In(p) <=> p = q
    OBVIOUS
  <2>1. CASE n \in 0..2   BY <2>1, <1>1
  <2>2. CASE n \in 3..5   BY <2>2, <1>1
  <2>3. CASE n \in 6..8   BY <2>3, <1>1
  <2>4. CASE n \in 9..11  BY <2>4, <1>1
  <2> QED BY <2>1, <2>2, <2>3, <2>4
<1> QED BY <1>3, <1>4, MonthsInAYear DEF QuarterContains, In, n

\* The date and the calendar of a call are what was configured.
Settings == now \in Days /\ fiscal \in Calendars

\* The calendar's settings do not change.
LEMMA SettingsStay == ParserSpec => []Settings
<1>1. ParserInit => Settings
  BY DEF ParserInit, Settings
<1>2. Settings /\ [ParserNext]_parserVars => Settings'
  BY DEF Settings, ParserNext, parserVars, Parse, Find, FindersDone, Consider, Answer
<1> QED BY <1>1, <1>2, PTL DEF ParserSpec

\* The date of a question lies in its fiscal year, and in one quarter of it
\* unless it is left out: for every first day every year has and every date
\* (fiscal.py:31-73).
THEOREM FiscalCalendarIsRight == ParserSpec => []FiscalRight
<1>1. Settings => FiscalRight
  BY YearOfADay, QuarterOfADay, ParserAssumption DEF Settings, FiscalRight
<1> QED BY <1>1, SettingsStay, PTL

(***************************************************************************)
(* Days, months and years.                                                 *)
(***************************************************************************)

\* The numbers of the months and of their days.
MonthNumbers == 1..12
DayNumbers == 1..31

\* The months from one January to the next but one.
NearMonths == -12..12

\* A year starts a new four, hundred or four hundred years when they divide it.
LEMMA FourYears ==
  ASSUME NEW y \in Nat, y >= 1
  PROVE  y \div 4 = (y - 1) \div 4 + (IF y % 4 = 0 THEN 1 ELSE 0)
BY SMT

\* As above, with a hundred years.
LEMMA HundredYears ==
  ASSUME NEW y \in Nat, y >= 1
  PROVE  y \div 100 = (y - 1) \div 100 + (IF y % 100 = 0 THEN 1 ELSE 0)
BY SMT

\* As above, with four hundred years.
LEMMA FourHundredYears ==
  ASSUME NEW y \in Nat, y >= 1
  PROVE  y \div 400 = (y - 1) \div 400 + (IF y % 400 = 0 THEN 1 ELSE 0)
BY SMT

\* What four hundred divides a hundred divides, and what that divides four divides.
LEMMA Divisors ==
  ASSUME NEW y \in Nat
  PROVE  (y % 400 = 0 => y % 100 = 0) /\ (y % 100 = 0 => y % 4 = 0)
BY SMT

\* The months are as long as they are.
LEMMA MonthsAreCounted ==
  ASSUME NEW y \in KnownYears
  PROVE  /\ DaysBefore(y, 1) = 0
         /\ \A m \in MonthNumbers :
              /\ DaysBefore(y, m) \in Nat /\ DaysBefore(y, m + 1) \in Nat
              /\ DaysBefore(y, m) < DaysBefore(y, m + 1)
         /\ DaysBefore(y, 13) = 365 + (IF Leap(y) THEN 1 ELSE 0)
<1> DEFINE l == IF Leap(y) THEN 1 ELSE 0
<1>1. l \in {0, 1}
  OBVIOUS
<1>2. /\ DaysBefore(y, 1) = 0 /\ DaysBefore(y, 2) = 31 /\ DaysBefore(y, 3) = 59 + l
      /\ DaysBefore(y, 4) = 90 + l /\ DaysBefore(y, 5) = 120 + l /\ DaysBefore(y, 6) = 151 + l
      /\ DaysBefore(y, 7) = 181 + l /\ DaysBefore(y, 8) = 212 + l /\ DaysBefore(y, 9) = 243 + l
      /\ DaysBefore(y, 10) = 273 + l /\ DaysBefore(y, 11) = 304 + l /\ DaysBefore(y, 12) = 334 + l
      /\ DaysBefore(y, 13) = 365 + l
  BY DEF DaysBefore
<1> HIDE DEF l
<1>3. ASSUME NEW m \in MonthNumbers
      PROVE  /\ DaysBefore(y, m) \in Nat /\ DaysBefore(y, m + 1) \in Nat
             /\ DaysBefore(y, m) < DaysBefore(y, m + 1)
  <2>1. \/ m = 1 \/ m = 2 \/ m = 3 \/ m = 4 \/ m = 5 \/ m = 6
        \/ m = 7 \/ m = 8 \/ m = 9 \/ m = 10 \/ m = 11 \/ m = 12
    BY DEF MonthNumbers
  <2> QED BY <1>1, <1>2, <2>1
<1> QED BY <1>2, <1>3 DEF l

\* The days of the years before.
DaysUpTo(y) == 365 * (y - 1) + (y - 1) \div 4 - (y - 1) \div 100 + (y - 1) \div 400

\* A year adds its own days.
LEMMA DaysUpToNext ==
  ASSUME NEW y \in KnownYears
  PROVE  DaysUpTo(y) \in Nat /\ DaysUpTo(y + 1) = DaysUpTo(y) + DaysBefore(y, 13)
<1>1. y \in Nat /\ y >= 1 /\ (y + 1) - 1 = y /\ y - 1 \in Nat
  BY DEF KnownYears
<1> DEFINE a == (y - 1) \div 4
           b == (y - 1) \div 100
           c == (y - 1) \div 400
<1>2. a \in Nat /\ b \in Nat /\ c \in Nat /\ b <= a
  BY <1>1, SMT
<1>3. DaysUpTo(y) = 365 * (y - 1) + a - b + c
  BY DEF DaysUpTo
<1>4. DaysUpTo(y + 1) = 365 * y + y \div 4 - y \div 100 + y \div 400
  BY <1>1 DEF DaysUpTo
<1>5. /\ y \div 4 = a + (IF y % 4 = 0 THEN 1 ELSE 0)
      /\ y \div 100 = b + (IF y % 100 = 0 THEN 1 ELSE 0)
      /\ y \div 400 = c + (IF y % 400 = 0 THEN 1 ELSE 0)
  BY <1>1, FourYears, HundredYears, FourHundredYears
<1>6. (y % 400 = 0 => y % 100 = 0) /\ (y % 100 = 0 => y % 4 = 0)
  BY <1>1, Divisors
<1>7. DaysBefore(y, 13) = 365 + (IF Leap(y) THEN 1 ELSE 0)
  BY MonthsAreCounted
<1> HIDE DEF a, b, c
<1>8. DaysUpTo(y) \in Nat
  BY <1>1, <1>2, <1>3
<1> DEFINE p == y % 4 = 0
           q == y % 100 = 0
           r == y % 400 = 0
<1>9. Leap(y) <=> p /\ (~q \/ r)
  BY DEF Leap
<1>10. (r => q) /\ (q => p)
  BY <1>6
<1>11. DaysUpTo(y + 1) = 365 * y + (a + (IF p THEN 1 ELSE 0)) - (b + (IF q THEN 1 ELSE 0))
                           + (c + (IF r THEN 1 ELSE 0))
  BY <1>4, <1>5
<1> HIDE DEF p, q, r
<1>12. DaysUpTo(y + 1) = 365 * y + a - b + c + (IF Leap(y) THEN 1 ELSE 0)
  BY <1>1, <1>2, <1>9, <1>10, <1>11
<1> QED BY <1>1, <1>2, <1>3, <1>7, <1>8, <1>12

\* Every day of a year is counted from its first.
LEMMA DaysAreCounted ==
  ASSUME NEW y \in KnownYears
  PROVE  /\ Day(y, 1, 1) \in Nat /\ Day(y, 1, 1) >= 1
         /\ \A m \in MonthNumbers, d \in DayNumbers :
              Day(y, m, d) = Day(y, 1, 1) + DaysBefore(y, m) + d - 1
<1>1. \A m, d : Day(y, m, d) = DaysUpTo(y) + DaysBefore(y, m) + d
  BY DEF Day, DaysUpTo, KnownYears
<1>2. DaysUpTo(y) \in Nat /\ DaysBefore(y, 1) = 0
  BY DaysUpToNext, MonthsAreCounted
<1>3. Day(y, 1, 1) = DaysUpTo(y) + 1
  BY <1>1, <1>2
<1>4. ASSUME NEW m \in MonthNumbers, NEW d \in DayNumbers
      PROVE  Day(y, m, d) = Day(y, 1, 1) + DaysBefore(y, m) + d - 1
  <2>1. DaysBefore(y, m) \in Nat /\ d \in Nat
    BY MonthsAreCounted DEF DayNumbers
  <2>2. Day(y, m, d) = DaysUpTo(y) + DaysBefore(y, m) + d
    BY <1>1
  <2> QED BY <1>2, <1>3, <2>1, <2>2
<1> QED BY <1>2, <1>3, <1>4

\* The next year follows.
LEMMA YearFollows ==
  ASSUME NEW y \in KnownYears, y + 1 \in KnownYears
  PROVE  Day(y + 1, 1, 1) = Day(y, 1, 1) + DaysBefore(y, 13)
<1>1. ASSUME NEW z \in KnownYears PROVE Day(z, 1, 1) = DaysUpTo(z) + 1 /\ DaysUpTo(z) \in Nat
  <2>1. Day(z, 1, 1) = DaysUpTo(z) + DaysBefore(z, 1) + 1
    BY DEF Day, DaysUpTo, KnownYears
  <2>2. DaysUpTo(z) \in Nat /\ DaysBefore(z, 1) = 0
    BY DaysUpToNext, MonthsAreCounted
  <2> QED BY <2>1, <2>2
<1>2. DaysUpTo(y + 1) = DaysUpTo(y) + DaysBefore(y, 13) /\ DaysBefore(y, 13) \in Nat
  <2>1. DaysUpTo(y + 1) = DaysUpTo(y) + DaysBefore(y, 13)
    BY DaysUpToNext
  <2>2. 12 \in MonthNumbers /\ 12 + 1 = 13
    BY DEF MonthNumbers
  <2>3. DaysBefore(y, 12 + 1) \in Nat
    BY <2>2, MonthsAreCounted
  <2> QED BY <2>1, <2>2, <2>3
<1>3. Day(y, 1, 1) = DaysUpTo(y) + 1 /\ DaysUpTo(y) \in Nat
  BY <1>1
<1>4. Day(y + 1, 1, 1) = DaysUpTo(y + 1) + 1 /\ DaysUpTo(y + 1) \in Nat
  BY <1>1
<1> QED BY <1>2, <1>3, <1>4

\* The first day of the month that is k months after January of year y.
First(y, k) == Day(y + k \div 12, (k % 12) + 1, 1)

\* The months of three years, by their numbers from January of the middle one.
LEMMA MonthsOfThreeYears ==
  ASSUME NEW k \in -12..23
  PROVE  /\ k \div 12 = IF k < 0 THEN -1 ELSE IF k < 12 THEN 0 ELSE 1
         /\ k % 12 = IF k < 0 THEN k + 12 ELSE IF k < 12 THEN k ELSE k - 12
BY SMT

\* The first days of the months are in the order of the months.
LEMMA MonthFollows ==
  ASSUME NEW y \in MiddleYears, NEW k \in NearMonths, k + 1 \in NearMonths
  PROVE  First(y, k) \in Nat /\ First(y, k) < First(y, k + 1)
<1> DEFINE z == IF k < 0 THEN y - 1 ELSE y
           m == IF k < 0 THEN k + 13 ELSE k + 1
<1>0. y \in 2..9998 /\ k \in -12..11
  BY DEF MiddleYears, NearMonths
<1>1. z \in KnownYears /\ z + 1 \in KnownYears /\ m \in MonthNumbers /\ m \in 1..12
  BY <1>0 DEF KnownYears, MonthNumbers
<1>2. First(y, k) = Day(z, m, 1)
  <2>1. y + k \div 12 = z /\ (k % 12) + 1 = m
    BY <1>0, MonthsOfThreeYears
  <2> QED BY <2>1 DEF First
<1>3. First(y, k + 1) = IF m = 12 THEN Day(z + 1, 1, 1) ELSE Day(z, m + 1, 1)
  <2>1. k + 1 \in -12..23
    BY <1>0
  <2>2. /\ y + (k + 1) \div 12 = (IF m = 12 THEN z + 1 ELSE z)
        /\ ((k + 1) % 12) + 1 = (IF m = 12 THEN 1 ELSE m + 1)
    BY <1>0, <2>1, MonthsOfThreeYears
  <2> QED BY <2>2 DEF First
<1> HIDE DEF z, m
<1>4. /\ DaysBefore(z, m) \in Nat /\ DaysBefore(z, m + 1) \in Nat
      /\ DaysBefore(z, m) < DaysBefore(z, m + 1)
  BY <1>1, MonthsAreCounted
<1>5. \A n \in MonthNumbers : Day(z, n, 1) = Day(z, 1, 1) + DaysBefore(z, n) + 1 - 1
  <2>1. 1 \in DayNumbers
    BY DEF DayNumbers
  <2> QED BY <1>1, <2>1, DaysAreCounted
<1>6. Day(z, 1, 1) \in Nat
  BY <1>1, DaysAreCounted
<1>7. Day(z, m, 1) = Day(z, 1, 1) + DaysBefore(z, m) + 1 - 1
  BY <1>1, <1>5
<1>8. CASE m = 12
  <2>1. Day(z + 1, 1, 1) = Day(z, 1, 1) + DaysBefore(z, 13)
    BY <1>1, YearFollows
  <2>2. m + 1 = 13
    BY <1>8
  <2> QED BY <1>2, <1>3, <1>4, <1>6, <1>7, <1>8, <2>1, <2>2
<1>9. CASE m # 12
  <2>1. m + 1 \in MonthNumbers
    BY <1>1, <1>9 DEF MonthNumbers
  <2>2. Day(z, m + 1, 1) = Day(z, 1, 1) + DaysBefore(z, m + 1) + 1 - 1
    BY <1>5, <2>1
  <2> QED BY <1>2, <1>3, <1>4, <1>6, <1>7, <1>9, <2>2
<1> QED BY <1>8, <1>9

\* The day of a question is in its month.
LEMMA InItsMonth ==
  ASSUME NEW y \in MiddleYears, NEW m \in MonthNumbers, NEW d \in DayNumbers,
         d <= DaysBefore(y, m + 1) - DaysBefore(y, m)
  PROVE  /\ Day(y, m, d) \in Nat
         /\ First(y, m - 1) <= Day(y, m, d) /\ Day(y, m, d) < First(y, m)
<1>0. y \in 2..9998 /\ m \in 1..12
  BY DEF MiddleYears, MonthNumbers
<1>1. y \in KnownYears /\ y + 1 \in KnownYears /\ 1 \in DayNumbers
  BY <1>0 DEF KnownYears, DayNumbers
<1>2. \A n \in MonthNumbers, e \in DayNumbers :
        Day(y, n, e) = Day(y, 1, 1) + DaysBefore(y, n) + e - 1
  BY <1>1, DaysAreCounted
<1>3. Day(y, 1, 1) \in Nat
  BY <1>1, DaysAreCounted
<1>4. /\ DaysBefore(y, m) \in Nat /\ DaysBefore(y, m + 1) \in Nat
      /\ DaysBefore(y, m) < DaysBefore(y, m + 1)
  BY <1>1, MonthsAreCounted
<1>5. First(y, m - 1) = Day(y, m, 1)
  <2>1. m - 1 \in -12..23 /\ y + 0 = y /\ (m - 1) + 1 = m
    BY <1>0
  <2>2. (m - 1) \div 12 = 0 /\ (m - 1) % 12 = m - 1
    BY <1>0, <2>1, MonthsOfThreeYears
  <2> QED BY <2>1, <2>2 DEF First
<1>6. First(y, m) = Day(y, 1, 1) + DaysBefore(y, m + 1)
  <2>1. CASE m = 12
    <3>1. m \div 12 = 1 /\ (m % 12) + 1 = 1
      BY <2>1
    <3>2. First(y, m) = Day(y + 1, 1, 1)
      BY <3>1 DEF First
    <3>3. Day(y + 1, 1, 1) = Day(y, 1, 1) + DaysBefore(y, 13)
      BY <1>1, YearFollows
    <3>4. m + 1 = 13
      BY <2>1
    <3> QED BY <3>2, <3>3, <3>4
  <2>2. CASE m # 12
    <3>1. m \in -12..23 /\ m + 1 \in MonthNumbers /\ y + 0 = y
      BY <1>0, <2>2 DEF MonthNumbers
    <3>2. m \div 12 = 0 /\ m % 12 = m
      BY <1>0, <2>2, <3>1, MonthsOfThreeYears
    <3>3. First(y, m) = Day(y, m + 1, 1)
      BY <3>1, <3>2 DEF First
    <3>4. Day(y, m + 1, 1) = Day(y, 1, 1) + DaysBefore(y, m + 1) + 1 - 1
      BY <1>1, <1>2, <3>1
    <3> QED BY <1>3, <1>4, <3>3, <3>4
  <2> QED BY <2>1, <2>2
<1>7. Day(y, m, d) = Day(y, 1, 1) + DaysBefore(y, m) + d - 1
  BY <1>1, <1>2
<1>8. Day(y, m, 1) = Day(y, 1, 1) + DaysBefore(y, m) + 1 - 1
  BY <1>1, <1>2
<1>9. d \in Nat /\ d >= 1
  BY DEF DayNumbers
<1> QED BY <1>3, <1>4, <1>5, <1>6, <1>7, <1>8, <1>9

\* The first days of the months are in the order of the months, however far apart.
LEMMA FirstsInOrder ==
  ASSUME NEW y \in MiddleYears, NEW k \in NearMonths, NEW l \in NearMonths, k <= l
  PROVE  /\ First(y, k) \in Int /\ First(y, l) \in Int
         /\ First(y, k) <= First(y, l) /\ (k < l => First(y, k) < First(y, l))
<1>0. y \in 2..9998 /\ k \in -12..12 /\ l \in -12..12
  BY DEF MiddleYears, NearMonths
<1>1. ASSUME NEW n \in NearMonths, n + 1 \in NearMonths
      PROVE  First(y, n) \in Nat /\ First(y, n) < First(y, n + 1)
  BY <1>1, MonthFollows
<1>2. First(y, 12) \in Nat
  <2>1. 12 \div 12 = 1 /\ (12 % 12) + 1 = 1
    OBVIOUS
  <2>2. First(y, 12) = Day(y + 1, 1, 1)
    BY <2>1 DEF First
  <2>3. y + 1 \in KnownYears
    BY <1>0 DEF KnownYears
  <2> QED BY <2>2, <2>3, DaysAreCounted
<1>3. ASSUME NEW n \in NearMonths PROVE First(y, n) \in Nat
  <2>1. n + 1 \in NearMonths \/ n = 12
    BY DEF NearMonths
  <2> QED BY <1>1, <1>2, <2>1
<1> DEFINE f == [n \in NearMonths |-> First(y, n)]
<1>4. ASSUME NEW n \in -12..11
      PROVE  f[n] \in Nat /\ f[n + 1] \in Nat /\ f[n] < f[n + 1]
  <2>1. n \in NearMonths /\ n + 1 \in NearMonths
    BY DEF NearMonths
  <2>2. First(y, n) \in Nat /\ First(y, n + 1) \in Nat /\ First(y, n) < First(y, n + 1)
    BY <1>1, <1>3, <2>1
  <2>3. f[n] = First(y, n) /\ f[n + 1] = First(y, n + 1)
    BY <2>1
  <2> QED BY <2>2, <2>3
<1>5. f \in [NearMonths -> Nat] /\ f[k] = First(y, k) /\ f[l] = First(y, l)
  BY <1>3
<1> HIDE DEF f
<1> DEFINE S == {n \in 0..24 : k + n <= 12 => f[k] <= f[k + n] /\ (n > 0 => f[k] < f[k + n])}
<1>6. 0 \in S
  <2>1. k + 0 = k /\ f[k] \in Nat
    BY <1>0, <1>5
  <2> QED BY <2>1
<1>7. ASSUME NEW n \in 0..24, n \in S, n < 24 PROVE n + 1 \in S
  <2> SUFFICES ASSUME k + (n + 1) <= 12 PROVE f[k] <= f[k + (n + 1)] /\ f[k] < f[k + (n + 1)]
    BY <1>7
  <2>1. k + n \in -12..11 /\ k + n <= 12 /\ k + (n + 1) = (k + n) + 1
    BY <1>0
  <2>2. f[k] <= f[k + n]
    BY <1>7, <2>1
  <2>3. f[k + n] \in Nat /\ f[(k + n) + 1] \in Nat /\ f[k + n] < f[(k + n) + 1]
    BY <1>4, <2>1
  <2>4. f[k] \in Nat
    BY <1>5
  <2> QED BY <2>1, <2>2, <2>3, <2>4
<1> HIDE DEF S
<1>8. 0..24 \subseteq S
  BY <1>6, <1>7, BoundedInduction
<1>9. l - k \in 0..24 /\ k + (l - k) = l /\ l <= 12 /\ (l - k > 0 <=> k < l)
  BY <1>0
<1>10. f[k] <= f[l] /\ (k < l => f[k] < f[l])
  <2>1. l - k \in S
    BY <1>8, <1>9
  <2> QED BY <1>9, <2>1 DEF S
<1> QED BY <1>3, <1>5, <1>10

\* A run of months that a month is in, and the run of as many months before.
LEMMA RunsOfMonths ==
  ASSUME NEW y \in MiddleYears, NEW k \in NearMonths, NEW n \in NearMonths,
         k >= 0, n >= 1, k + n <= 12, NEW day \in Int,
         NEW m \in MonthNumbers, k < m, m <= k + n,
         First(y, m - 1) <= day, day < First(y, m)
  PROVE  /\ First(y, k - n) < First(y, k)
         /\ First(y, k) <= day /\ day < First(y, k + n)
<1>1. /\ k - n \in NearMonths /\ k \in NearMonths /\ k + n \in NearMonths
      /\ m \in NearMonths /\ m - 1 \in NearMonths
      /\ k - n < k /\ k - n <= k /\ k <= m - 1 /\ m <= k + n
  BY DEF NearMonths, MonthNumbers
<1>2. First(y, k - n) < First(y, k)
  BY <1>1, FirstsInOrder
<1>3. First(y, k) <= First(y, m - 1) /\ First(y, k) \in Int /\ First(y, m - 1) \in Int
  BY <1>1, FirstsInOrder
<1>4. First(y, m) <= First(y, k + n) /\ First(y, m) \in Int /\ First(y, k + n) \in Int
  BY <1>1, FirstsInOrder
<1> QED BY <1>2, <1>3, <1>4

\* Months, by the first days of months.
LEMMA MonthsOfFirsts ==
  ASSUME NEW y, NEW k, NEW n
  PROVE  Months(y, k, n) = DateRange(First(y, k), First(y, k + n))
BY DEF Months, First

\* What the current period and the last one are.
PeriodsBack(w) == IF w \in Back THEN 1 ELSE 0

\* What a relative expression of one word is read as.
LEMMA ReadRelative ==
  ASSUME NEW w
  PROVE  /\ Read("relative_month", <<w>>) = Months(now.year, now.month - 1 - PeriodsBack(w), 1)
         /\ Read("relative_quarter", <<w>>) =
              Months(now.year, 3 * ((now.month - 1) \div 3 - PeriodsBack(w)), 3)
         /\ Read("relative_year", <<w>>) = Months(now.year - PeriodsBack(w), 0, 12)
         /\ Read("relative_week", <<w>>) =
              DateRange(Today - Weekday - 7 * PeriodsBack(w), Today - Weekday - 7 * PeriodsBack(w) + 7)
<1>1. <<w>>[1] = w
  OBVIOUS
<1>2. Offset(<<w>>) = PeriodsBack(w)
  BY <1>1 DEF Offset, PeriodsBack
<1> QED BY <1>2 DEF Read

\* On a date that has both neighbours, every last period ends where the current one
\* starts, and the current one contains the date.
LEMMA PeriodsMeet ==
  ASSUME now \in Days
  PROVE  RelativePeriodsMeet
<1> DEFINE Adjoin(last, this) == MeetBefore(last, this, Today)
<1>1. /\ now.month \in MonthNumbers /\ now.month \in 1..12 /\ now.day \in DayNumbers
      /\ now.day <= DaysBefore(now.year, now.month + 1) - DaysBefore(now.year, now.month)
  <2>1. now \in Date
    BY ParserAssumption
  <2>2. now.month \in 1..12 /\ now.day \in 1..31
    BY <2>1 DEF Date
  <2>3. now.day <= DaysBefore(now.year, now.month + 1) - DaysBefore(now.year, now.month)
    BY Zenon, DaysAssumption
  <2> QED BY <2>2, <2>3 DEF MonthNumbers, DayNumbers
<1>2. \A a, b, c : Adjoin(DateRange(a, b), DateRange(b, c)) <=> a < b /\ b <= Today /\ Today < c
  BY DEF DateRange, MeetBefore
<1> SUFFICES ASSUME now.year \in MiddleYears,
                    NEW reads \in {"relative_month", "relative_quarter",
                                   "relative_year", "relative_week"},
                    NEW back \in Back, NEW same \in ThisOrLast \ Back
             PROVE  Adjoin(Read(reads, <<back>>), Read(reads, <<same>>))
  BY Zenon DEF RelativePeriodsMeet
<1> HIDE DEF Adjoin
<1> DEFINE y == now.year
           m == now.month
           q == 3 * ((m - 1) \div 3)
<1>y. y \in 2..9998
  BY DEF MiddleYears
<1>3. Today \in Int /\ First(y, m - 1) <= Today /\ Today < First(y, m)
  <2>1. Today = Day(y, m, now.day)
    BY DEF Today, DayOf
  <2> QED BY <1>1, <2>1, InItsMonth
<1> HIDE DEF y, m
<1>4. Adjoin(Months(y, m - 1 - 1, 1), Months(y, m - 1 - 0, 1))
  <2>1. /\ m - 1 \in NearMonths /\ 1 \in NearMonths /\ m - 1 >= 0 /\ 1 >= 1
        /\ m - 1 + 1 <= 12 /\ m - 1 < m /\ m <= m - 1 + 1
    BY <1>1 DEF NearMonths, m
  <2>2. First(y, m - 1 - 1) < First(y, m - 1)
        /\ First(y, m - 1) <= Today /\ Today < First(y, m - 1 + 1)
    BY Zenon, <1>1, <1>3, <2>1, RunsOfMonths DEF y, m
  <2>3. (m - 1 - 1) + 1 = m - 1 /\ m - 1 - 0 = m - 1
    BY <1>1 DEF m
  <2>4. /\ Months(y, m - 1 - 1, 1) = DateRange(First(y, m - 1 - 1), First(y, (m - 1 - 1) + 1))
        /\ Months(y, m - 1 - 0, 1) = DateRange(First(y, m - 1 - 0), First(y, m - 1 - 0 + 1))
    BY MonthsOfFirsts
  <2> QED BY <1>2, <2>2, <2>3, <2>4
<1>5. Adjoin(Months(y, 3 * ((m - 1) \div 3 - 1), 3), Months(y, 3 * ((m - 1) \div 3 - 0), 3))
  <2>0. /\ q \in 0..9 /\ q < m /\ m <= q + 3
        /\ 3 * ((m - 1) \div 3 - 1) = q - 3 /\ 3 * ((m - 1) \div 3 - 0) = q
    BY <1>1, SMT DEF m
  <2> HIDE DEF q
  <2>1. /\ q \in NearMonths /\ 3 \in NearMonths /\ q >= 0 /\ 3 >= 1
        /\ q + 3 <= 12 /\ q < m /\ m <= q + 3
    BY <2>0 DEF NearMonths
  <2>2. First(y, q - 3) < First(y, q) /\ First(y, q) <= Today /\ Today < First(y, q + 3)
    BY Zenon, <1>1, <1>3, <2>1, RunsOfMonths DEF y, m
  <2>3. (q - 3) + 3 = q
    BY <2>0
  <2>4. /\ Months(y, q - 3, 3) = DateRange(First(y, q - 3), First(y, (q - 3) + 3))
        /\ Months(y, q, 3) = DateRange(First(y, q), First(y, q + 3))
    BY MonthsOfFirsts
  <2> QED BY <1>2, <2>0, <2>2, <2>3, <2>4
<1>6. Adjoin(Months(y - 1, 0, 12), Months(y - 0, 0, 12))
  <2>1. /\ 0 \in NearMonths /\ 12 \in NearMonths /\ 0 >= 0 /\ 12 >= 1
        /\ 0 + 12 <= 12 /\ 0 < m /\ m <= 0 + 12
    BY <1>1 DEF NearMonths, m
  <2>2. First(y, 0 - 12) < First(y, 0) /\ First(y, 0) <= Today /\ Today < First(y, 0 + 12)
    BY Zenon, <1>1, <1>3, <2>1, RunsOfMonths DEF y, m
  <2>3. 0 - 12 = -12 /\ 0 + 12 = 12 /\ y - 0 = y
    BY <1>y
  <2>4. First(y - 1, 0) = First(y, -12) /\ First(y - 1, 12) = First(y, 0)
    <3>1. /\ 0 \div 12 = 0 /\ 0 % 12 = 0 /\ 12 \div 12 = 1 /\ 12 % 12 = 0
          /\ (-12) \div 12 = -1 /\ (-12) % 12 = 0
      BY MonthsOfThreeYears
    <3>2. (y - 1) + 0 = y + (-1) /\ (y - 1) + 1 = y + 0
      BY <1>y
    <3> QED BY <3>1, <3>2 DEF First
  <2>5. /\ Months(y - 1, 0, 12) = DateRange(First(y - 1, 0), First(y - 1, 0 + 12))
        /\ Months(y, 0, 12) = DateRange(First(y, 0), First(y, 0 + 12))
    BY MonthsOfFirsts
  <2> QED BY <1>2, <2>2, <2>3, <2>4, <2>5
<1>7. Adjoin(DateRange(Today - Weekday - 7 * 1, Today - Weekday - 7 * 1 + 7),
           DateRange(Today - Weekday - 7 * 0, Today - Weekday - 7 * 0 + 7))
  <2>1. Weekday \in 0..6
    BY <1>3, SMT DEF Weekday
  <2>2. /\ Today - Weekday - 7 * 1 + 7 = Today - Weekday - 7 * 0
        /\ Today - Weekday - 7 * 1 < Today - Weekday - 7 * 0
        /\ Today - Weekday - 7 * 0 <= Today /\ Today < Today - Weekday - 7 * 0 + 7
    BY <1>3, <2>1
  <2> QED BY <1>2, <2>2
<1>8. PeriodsBack(back) = 1 /\ PeriodsBack(same) = 0
  BY DEF PeriodsBack
<1>9. CASE reads = "relative_month"
  BY <1>4, <1>8, <1>9, ReadRelative DEF y, m
<1>10. CASE reads = "relative_quarter"
  BY <1>5, <1>8, <1>10, ReadRelative DEF y, m
<1>11. CASE reads = "relative_year"
  BY <1>6, <1>8, <1>11, ReadRelative DEF y, m
<1>12. CASE reads = "relative_week"
  BY <1>7, <1>8, <1>12, ReadRelative
<1> QED BY <1>9, <1>10, <1>11, <1>12

\* On every date with neighbours, the last month, quarter, year and week end where
\* the current ones start, and those contain the date (parser.py:190-310).
THEOREM RelativePeriodsAdjoin == ParserSpec => []RelativePeriodsMeet
<1>1. Settings => RelativePeriodsMeet
  BY PeriodsMeet DEF Settings
<1> QED BY <1>1, SettingsStay, PTL

(***************************************************************************)
(* The days date() knows.                                                  *)
(***************************************************************************)

KnownDays == 1..LastDay

\* Both ends of a range are days date() knows.
InCalendar(range) == range.start \in KnownDays /\ range.end \in KnownDays

\* The years date() knows with the next one.
LEMMA YearAndNext ==
  ASSUME NEW y \in Nat, y >= 1, y <= 9998
  PROVE  y \in KnownYears /\ y + 1 \in KnownYears
<1>1. ASSUME NEW z \in Nat, z >= 1, z <= 9999 PROVE z \in KnownYears
  BY <1>1 DEF KnownYears
<1>2. y + 1 \in Nat /\ y + 1 >= 1 /\ y + 1 <= 9999 /\ y <= 9999
  OBVIOUS
<1> QED BY <1>1, <1>2

\* A month has 28 days at least, and those it has every year, and ends with its
\* year at the latest.
LEMMA MonthsFit ==
  ASSUME NEW y \in KnownYears, NEW m \in MonthNumbers
  PROVE  /\ DaysBefore(y, m) + 28 <= DaysBefore(y, m + 1)
         /\ DaysBefore(y, m) + EveryYear(m) <= DaysBefore(y, m + 1)
         /\ DaysBefore(y, m + 1) <= DaysBefore(y, 13)
<1> DEFINE l == IF Leap(y) THEN 1 ELSE 0
<1>1. l \in {0, 1}
  OBVIOUS
<1>2. /\ DaysBefore(y, 1) = 0 /\ DaysBefore(y, 2) = 31 /\ DaysBefore(y, 3) = 59 + l
      /\ DaysBefore(y, 4) = 90 + l /\ DaysBefore(y, 5) = 120 + l /\ DaysBefore(y, 6) = 151 + l
      /\ DaysBefore(y, 7) = 181 + l /\ DaysBefore(y, 8) = 212 + l /\ DaysBefore(y, 9) = 243 + l
      /\ DaysBefore(y, 10) = 273 + l /\ DaysBefore(y, 11) = 304 + l /\ DaysBefore(y, 12) = 334 + l
      /\ DaysBefore(y, 13) = 365 + l
  BY DEF DaysBefore
<1> HIDE DEF l
<1>3. \/ m = 1 \/ m = 2 \/ m = 3 \/ m = 4 \/ m = 5 \/ m = 6
      \/ m = 7 \/ m = 8 \/ m = 9 \/ m = 10 \/ m = 11 \/ m = 12
  BY DEF MonthNumbers
<1> QED BY <1>1, <1>2, <1>3 DEF EveryYear

\* The last day there is.
LEMMA LastDayIs == LastDay = 365 * 9999 + 2424
<1>1. ~Leap(9999)
  <2>1. 9999 % 4 = 3
    BY SMT
  <2> QED BY <2>1 DEF Leap
<1>2. DaysBefore(9999, 12) = 334
  BY <1>1 DEF DaysBefore
<1>3. 9998 \div 4 = 2499 /\ 9998 \div 100 = 99 /\ 9998 \div 400 = 24 /\ 9999 - 1 = 9998
  BY SMT
<1>4. 9999 \in KnownYears
  BY DEF KnownYears
<1>5. LastDay = 365 * (9999 - 1) + (9999 - 1) \div 4 - (9999 - 1) \div 100
                  + (9999 - 1) \div 400 + DaysBefore(9999, 12) + 31
  BY <1>4 DEF LastDay, Day
<1> QED BY <1>2, <1>3, <1>5

\* No year ends after the last day.
LEMMA YearsEnd ==
  ASSUME NEW y \in KnownYears
  PROVE  /\ DaysUpTo(y) \in Nat /\ DaysBefore(y, 13) \in Nat /\ DaysBefore(y, 13) >= 365
         /\ DaysUpTo(y) >= 365 * (y - 1)
         /\ DaysUpTo(y + 1) = DaysUpTo(y) + DaysBefore(y, 13)
         /\ DaysUpTo(y + 1) <= LastDay
<1>1. y \in Nat /\ y >= 1 /\ y <= 9999 /\ y - 1 \in Nat /\ (y + 1) - 1 = y
  BY DEF KnownYears
<1>2. DaysUpTo(y) \in Nat /\ DaysUpTo(y + 1) = DaysUpTo(y) + DaysBefore(y, 13)
  BY DaysUpToNext
<1>3. DaysBefore(y, 13) = 365 \/ DaysBefore(y, 13) = 366
  BY MonthsAreCounted
<1> DEFINE a == y \div 4
           b == y \div 100
           c == y \div 400
<1>4. a \in Nat /\ b \in Nat /\ c \in Nat /\ a <= 2499 /\ c <= 24 /\ 100 * b + 99 >= y
  BY <1>1, SMT
<1>5. DaysUpTo(y + 1) = 365 * y + a - b + c
  BY <1>1 DEF DaysUpTo
<1> HIDE DEF a, b, c
<1>6. DaysUpTo(y + 1) <= LastDay
  BY <1>1, <1>4, <1>5, LastDayIs
<1> DEFINE d == (y - 1) \div 4
           e == (y - 1) \div 100
           f == (y - 1) \div 400
<1>7. d \in Nat /\ e \in Nat /\ f \in Nat /\ e <= d
  BY <1>1, SMT
<1>8. DaysUpTo(y) = 365 * (y - 1) + d - e + f
  BY DEF DaysUpTo
<1> HIDE DEF d, e, f
<1>9. DaysUpTo(y) >= 365 * (y - 1)
  BY <1>1, <1>7, <1>8
<1> QED BY <1>2, <1>3, <1>6, <1>9

\* Every date of a year date() knows is a day it knows.
LEMMA DateIsKnown ==
  ASSUME NEW y \in KnownYears, NEW m \in MonthNumbers, NEW d \in DayNumbers,
         d <= DaysBefore(y, m + 1) - DaysBefore(y, m)
  PROVE  /\ Day(y, m, d) \in KnownDays
         /\ DaysUpTo(y) < Day(y, m, d) /\ Day(y, m, d) <= DaysUpTo(y + 1)
<1>1. Day(y, m, d) = DaysUpTo(y) + DaysBefore(y, m) + d
  BY DEF Day, DaysUpTo, KnownYears
<1>2. DaysBefore(y, m) \in Nat /\ DaysBefore(y, m + 1) \in Nat /\ d \in Nat /\ d >= 1
  BY MonthsAreCounted DEF DayNumbers
<1>3. DaysBefore(y, m + 1) <= DaysBefore(y, 13)
  BY MonthsFit
<1>4. /\ DaysUpTo(y) \in Nat /\ DaysBefore(y, 13) \in Nat
      /\ DaysUpTo(y + 1) = DaysUpTo(y) + DaysBefore(y, 13) /\ DaysUpTo(y + 1) <= LastDay
  BY YearsEnd
<1>5. LastDay \in Nat
  BY LastDayIs
<1> QED BY <1>1, <1>2, <1>3, <1>4, <1>5 DEF KnownDays

\* So is every day up to the 28th of a month.
LEMMA EarlyDayIsKnown ==
  ASSUME NEW y \in KnownYears, NEW m \in MonthNumbers, NEW d \in 1..28
  PROVE  Day(y, m, d) \in KnownDays
<1>1. d \in DayNumbers /\ d \in Nat /\ d <= 28
  BY DEF DayNumbers
<1>2. /\ DaysBefore(y, m) \in Nat /\ DaysBefore(y, m + 1) \in Nat
      /\ DaysBefore(y, m) + 28 <= DaysBefore(y, m + 1)
  BY MonthsAreCounted, MonthsFit
<1>3. d <= DaysBefore(y, m + 1) - DaysBefore(y, m)
  BY <1>1, <1>2
<1> QED BY <1>1, <1>3, DateIsKnown

\* And every day that a month has each year.
LEMMA YearlyDayIsKnown ==
  ASSUME NEW y \in KnownYears, NEW m \in MonthNumbers, NEW d \in DayNumbers, d <= EveryYear(m)
  PROVE  Day(y, m, d) \in KnownDays
<1>1. d \in Nat /\ EveryYear(m) \in Nat
  BY DEF DayNumbers, EveryYear
<1>2. /\ DaysBefore(y, m) \in Nat /\ DaysBefore(y, m + 1) \in Nat
      /\ DaysBefore(y, m) + EveryYear(m) <= DaysBefore(y, m + 1)
  BY MonthsAreCounted, MonthsFit
<1>3. d <= DaysBefore(y, m + 1) - DaysBefore(y, m)
  BY <1>1, <1>2
<1> QED BY <1>3, DateIsKnown

\* The day a question is asked on has 999 years before it and one after it.
LEMMA TodayIsKnown ==
  ASSUME now \in Days, now.year \in AskedYears
  PROVE  Today \in Nat /\ Today > 365 * 999 /\ Today + 365 <= LastDay
<1>1. now.month \in MonthNumbers /\ now.day \in DayNumbers
  <2>1. now \in Date
    BY ParserAssumption
  <2> QED BY <2>1 DEF Date, MonthNumbers, DayNumbers
<1>2. now.day <= DaysBefore(now.year, now.month + 1) - DaysBefore(now.year, now.month)
  BY Zenon, DaysAssumption
<1> DEFINE y == now.year
<1>3. y \in KnownYears /\ y + 1 \in KnownYears /\ y \in Nat /\ y >= 1000
  <2>1. y \in AskedYears
    OBVIOUS
  <2> HIDE DEF y
  <2>2. y \in Nat /\ y >= 1000 /\ y <= 9998
    BY <2>1 DEF AskedYears
  <2> QED BY <2>2, YearAndNext
<1>4. Today = Day(y, now.month, now.day)
  BY DEF Today, DayOf
<1> HIDE DEF y
<1>5. Today \in KnownDays /\ DaysUpTo(y) < Today /\ Today <= DaysUpTo(y + 1)
  BY <1>1, <1>2, <1>3, <1>4, DateIsKnown DEF y
<1>6. DaysUpTo(y) \in Nat /\ DaysUpTo(y) >= 365 * (y - 1)
  BY <1>3, YearsEnd
<1>7. /\ DaysUpTo(y + 1) \in Nat /\ DaysBefore(y + 1, 13) \in Nat /\ DaysBefore(y + 1, 13) >= 365
      /\ DaysUpTo((y + 1) + 1) = DaysUpTo(y + 1) + DaysBefore(y + 1, 13)
      /\ DaysUpTo((y + 1) + 1) <= LastDay
  BY <1>3, YearsEnd
<1>8. Today \in Nat
  BY <1>5 DEF KnownDays
<1>9. Today > 365 * 999
  BY <1>3, <1>5, <1>6, <1>8
<1>10. Today + 365 <= LastDay
  <2>1. LastDay \in Nat
    BY LastDayIs
  <2> QED BY <1>5, <1>7, <1>8, <2>1
<1> QED BY <1>8, <1>9, <1>10

\* The days around it are known.
LEMMA NearbyIsKnown ==
  ASSUME now \in Days, now.year \in AskedYears, NEW k \in Int, -(365 * 999) <= k, k <= 365
  PROVE  Today + k \in KnownDays
<1>1. Today \in Nat /\ Today > 365 * 999 /\ Today + 365 <= LastDay
  BY TodayIsKnown
<1>2. LastDay \in Nat
  BY LastDayIs
<1> QED BY <1>1, <1>2 DEF KnownDays

\* A run of months is known if its first and last years are.
LEMMA MonthsAreKnown ==
  ASSUME NEW y \in Int, NEW k \in Int, NEW n \in Int,
         y + k \div 12 \in KnownYears, y + (k + n) \div 12 \in KnownYears
  PROVE  InCalendar(Months(y, k, n))
<1>1. ASSUME NEW j \in Int, y + j \div 12 \in KnownYears PROVE First(y, j) \in KnownDays
  <2>1. (j % 12) + 1 \in MonthNumbers /\ 1 \in 1..28
    BY SMT DEF MonthNumbers
  <2> QED BY <1>1, <2>1, EarlyDayIsKnown DEF First
<1>2. k + n \in Int /\ First(y, k) \in KnownDays /\ First(y, k + n) \in KnownDays
  BY <1>1
<1>3. Months(y, k, n) = DateRange(First(y, k), First(y, k + n))
  BY MonthsOfFirsts
<1> QED BY <1>2, <1>3 DEF InCalendar, DateRange

(***************************************************************************)
(* What the finders find.                                                  *)
(***************************************************************************)

\* A pattern has ways to match, each with a length.
IsPattern(pattern) ==
  \E n \in Nat :
    /\ DOMAIN pattern.ways = 1..n
    /\ \A i \in 1..n :
         Len(pattern.ways[i]) \in Nat /\ DOMAIN pattern.ways[i] = 1..Len(pattern.ways[i])

\* The matches a pattern may have.
Fitting(ways) ==
  {m \in [at : Nat, to : Nat] :
    m.at >= 1 /\ \E i \in DOMAIN ways : Fits(ways[i], m.at) /\ m.to = m.at + Len(ways[i])}

\* Matches one after the other.
InLine(found) == \A i, j \in DOMAIN found : i < j => found[i].to <= found[j].at

\* What the scan of a text has come to: the matches end where the next may start.
Scans(ways) ==
  {s \in [free : Nat, found : Seq(Fitting(ways))] :
    InLine(s.found) /\ \A i \in DOMAIN s.found : s.found[i].to <= s.free}

\* The least of some numbers is one of them.
LEMMA MinIsOne ==
  ASSUME NEW T \in SUBSET Nat, T # {}
  PROVE  Min(T) \in T
<1>1. \E n \in T : \A m \in T : n <= m
  BY HasLeast
<1> QED BY <1>1 DEF Min

\* One word more keeps the scan what it is.
LEMMA ScanKeeps ==
  ASSUME NEW pattern, IsPattern(pattern), NEW p \in Nat, p >= 1, NEW s \in Scans(pattern.ways)
  PROVE  Scan(s, pattern.ways, p) \in Scans(pattern.ways)
<1> DEFINE ways == pattern.ways
           fitting == {i \in DOMAIN ways : Fits(ways[i], p)}
           end == p + Len(ways[Min(fitting)])
           m == [at |-> p, to |-> end]
<1>1. PICK n \in Nat : DOMAIN ways = 1..n /\ \A i \in 1..n :
        Len(ways[i]) \in Nat /\ DOMAIN ways[i] = 1..Len(ways[i])
  BY DEF IsPattern
<1>2. CASE p < s.free \/ fitting = {}
  <2>1. Scan(s, ways, p) = s
    BY Zenon, <1>2 DEF Scan
  <2> QED BY <2>1
<1>3. CASE ~(p < s.free \/ fitting = {})
  <2>1. fitting \in SUBSET Nat /\ fitting # {}
    BY <1>1, <1>3
  <2>2. Min(fitting) \in fitting
    BY <2>1, MinIsOne
  <2>3. Scan(s, ways, p) = [free |-> end, found |-> Append(s.found, m)]
    BY Zenon, <1>3 DEF Scan
  <2>4. \E i \in DOMAIN ways : Fits(ways[i], p) /\ end = p + Len(ways[i]) /\ end \in Nat /\ p <= end
    <3> DEFINE i == Min(fitting)
    <3>1. i \in DOMAIN ways /\ Fits(ways[i], p) /\ end = p + Len(ways[i])
      BY <2>2
    <3> HIDE DEF i, end
    <3>2. Len(ways[i]) \in Nat
      BY <1>1, <3>1
    <3>3. end \in Nat /\ p <= end
      BY <3>1, <3>2
    <3> QED BY <3>1, <3>3
  <2> HIDE DEF end
  <2>5. m.at = p /\ m.to = end /\ m \in [at : Nat, to : Nat]
    BY <2>4
  <2> HIDE DEF m
  <2>6. m \in Fitting(ways)
    BY <2>4, <2>5 DEF Fitting
  <2> HIDE DEF ways
  <2>7. s.found \in Seq(Fitting(ways))
    BY DEF Scans, ways
  <2>8. Append(s.found, m) \in Seq(Fitting(ways))
    BY <2>6, <2>7
  <2>9. end \in Nat /\ p <= end
    BY <2>4
  <2> DEFINE old == s.found
             new == Append(old, m)
             next == [free |-> end, found |-> new]
  <2>10. /\ old \in Seq(Fitting(ways)) /\ s.free \in Nat /\ s.free <= p
         /\ InLine(old) /\ \A i \in DOMAIN old : old[i].to <= s.free /\ old[i].to \in Nat
    <3>1. s.free \in Nat /\ ~(p < s.free)
      BY <1>3 DEF Scans
    <3>2. InLine(old) /\ \A i \in DOMAIN old : old[i].to <= s.free
      BY DEF Scans, ways
    <3>3. \A i \in DOMAIN old : old[i].to \in Nat
      BY <2>7 DEF Fitting
    <3> QED BY <2>7, <3>1, <3>2, <3>3
  <2>11. InLine(new) /\ \A i \in DOMAIN new : new[i].to <= end
    <3> HIDE DEF old
    <3>1. /\ Len(old) \in Nat /\ DOMAIN old = 1..Len(old) /\ DOMAIN new = 1..Len(old) + 1
          /\ \A i \in 1..Len(old) : new[i] = old[i]
          /\ new[Len(old) + 1] = m
      BY <2>10
    <3> HIDE DEF new
    <3>2. \A i \in DOMAIN old : old[i].to <= p /\ old[i].to <= end
      BY <2>9, <2>10
    <3>3. \A i \in DOMAIN new : i \in DOMAIN old \/ i = Len(old) + 1
      BY <3>1
    <3>4. \A i \in DOMAIN new : new[i].to <= end
      BY <2>5, <2>9, <3>1, <3>2, <3>3
    <3>5. ASSUME NEW i \in DOMAIN new, NEW j \in DOMAIN new, i < j PROVE new[i].to <= new[j].at
      <4>1. i \in DOMAIN old
        BY <3>1, <3>3, <3>5
      <4>2. CASE j \in DOMAIN old
        BY <2>10, <3>1, <3>5, <4>1, <4>2 DEF InLine
      <4>3. CASE j = Len(old) + 1
        BY <2>5, <3>1, <3>2, <4>1, <4>3
      <4> QED BY <3>3, <4>2, <4>3
    <3> QED BY <3>4, <3>5 DEF InLine
  <2>12. next.free = end /\ next.found = new /\ next \in [free : Nat, found : Seq(Fitting(ways))]
    BY <2>8, <2>9
  <2>13. next \in Scans(ways)
    <3> HIDE DEF next, new
    <3> QED BY <2>11, <2>12 DEF Scans
  <2> QED BY <2>3, <2>13 DEF ways
<1> QED BY <1>2, <1>3

\* Every match of a pattern fits one of its ways, and they are one after the other.
LEMMA MatchesFit ==
  ASSUME NEW pattern, IsPattern(pattern), Len(text) \in Nat
  PROVE  Matches(pattern) \in Seq(Fitting(pattern.ways)) /\ InLine(Matches(pattern))
<1> DEFINE N == Len(text)
           V == Scans(pattern.ways)
           first == [free |-> 1, found |-> << >>]
           scan == [p \in 1..N |-> [s \in V |-> Scan(s, pattern.ways, p)]]
<1>1. first \in V
  <2>1. << >> \in Seq(Fitting(pattern.ways))
    OBVIOUS
  <2>2. first.free = 1 /\ first.found = << >> /\ DOMAIN << >> = {}
    OBVIOUS
  <2>3. first \in [free : Nat, found : Seq(Fitting(pattern.ways))]
    BY <2>1
  <2> HIDE DEF first
  <2> QED BY <2>2, <2>3 DEF Scans, InLine
<1>2. ASSUME NEW p \in 1..N, NEW s \in V PROVE Scan(s, pattern.ways, p) \in V
  <2>1. p \in Nat /\ p >= 1
    OBVIOUS
  <2> QED BY <2>1, ScanKeeps
<1> HIDE DEF first, V
<1>3. BoundedStep(scan, N, V)
  BY <1>2 DEF BoundedStep
<1>4. \A p \in 1..N, s \in V : scan[p][s] = Scan(s, pattern.ways, p)
  OBVIOUS
<1> HIDE DEF scan, N
<1>5. N \in Nat
  BY DEF N
<1>6. PICK f : Recursive(f, N, first, scan) /\ f \in [0..N -> V]
  BY <1>1, <1>3, <1>5, BoundedRecursion
<1> DEFINE Is(g) == g = [p \in 0..N |-> IF p = 0 THEN first ELSE Scan(g[p - 1], pattern.ways, p)]
<1>7. Is(f)
  <2>1. ASSUME NEW p \in 0..N, p # 0 PROVE scan[p][f[p - 1]] = Scan(f[p - 1], pattern.ways, p)
    <3>1. p \in 1..N /\ p - 1 \in 0..N
      BY <1>5, <2>1
    <3> QED BY <1>4, <1>6, <3>1
  <2> QED BY <1>6, <2>1 DEF Recursive
<1> DEFINE scanned == CHOOSE g : Is(g)
<1>8. Is(scanned)
  BY Zenon, <1>7
<1>9. Matches(pattern) = scanned[N].found
  BY Zenon DEF Matches, N, first
<1> HIDE DEF scanned
<1>10. scanned[0] = first /\ \A p \in 1..N : scanned[p] = Scan(scanned[p - 1], pattern.ways, p)
  <2>1. 0 \in 0..N /\ \A p \in 1..N : p \in 0..N /\ p # 0
    BY <1>5
  <2> QED BY <1>8, <2>1
<1> HIDE DEF Is
<1> DEFINE S == {p \in 0..N : scanned[p] \in V}
<1>11. 0 \in S
  BY <1>1, <1>5, <1>10
<1>12. ASSUME NEW p \in 0..N, p \in S, p < N PROVE p + 1 \in S
  <2>1. p + 1 \in 1..N /\ p + 1 \in 0..N /\ (p + 1) - 1 = p
    BY <1>5, <1>12
  <2>2. scanned[p + 1] = Scan(scanned[p], pattern.ways, p + 1) /\ scanned[p] \in V
    BY <1>10, <1>12, <2>1
  <2> QED BY <1>2, <2>1, <2>2
<1> HIDE DEF S
<1>13. 0..N \subseteq S
  BY <1>5, <1>11, <1>12, BoundedInduction
<1>14. scanned[N] \in V
  BY <1>5, <1>13 DEF S
<1> QED BY <1>9, <1>14 DEF V, Scans

\* The words of a match: as many as the way it fits, each one the way allows there.
WordsFit(way, words) == Len(words) = Len(way) /\ \A i \in DOMAIN way : words[i] \in way[i]

\* The words of a match fit one way of its pattern and are words of the question.
LEMMA WordsOfAMatch ==
  ASSUME NEW pattern, IsPattern(pattern), text \in Seq(STRING), NEW m \in Fitting(pattern.ways)
  PROVE  LET words == SubSeq(text, m.at, m.to - 1) IN
         /\ words \in Seq(STRING)
         /\ \A i \in DOMAIN words : \E j \in DOMAIN text : words[i] = text[j]
         /\ \E i \in DOMAIN pattern.ways : WordsFit(pattern.ways[i], words)
<1> DEFINE words == SubSeq(text, m.at, m.to - 1)
           ways == pattern.ways
<1>1. PICK n \in Nat : DOMAIN ways = 1..n /\ \A i \in 1..n :
        Len(ways[i]) \in Nat /\ DOMAIN ways[i] = 1..Len(ways[i])
  BY DEF IsPattern
<1>2. PICK i \in DOMAIN ways : Fits(ways[i], m.at) /\ m.to = m.at + Len(ways[i])
  BY DEF Fitting
<1> DEFINE at == m.at
           way == ways[i]
           L == Len(way)
<1>3. at \in Nat /\ at >= 1 /\ L \in Nat /\ DOMAIN way = 1..L
  BY <1>1, <1>2 DEF Fitting
<1>4. at + L - 1 <= Len(text) /\ \A k \in DOMAIN way : text[at + k - 1] \in way[k]
  BY <1>2 DEF Fits
<1>5. words = SubSeq(text, at, (at + L) - 1)
  BY Zenon, <1>2
<1> HIDE DEF words, at, L, way
<1>6. Len(text) \in Nat /\ DOMAIN text = 1..Len(text) /\ \A k \in 1..Len(text) : text[k] \in STRING
  OBVIOUS
<1>7. \A k \in 1..L : at + k - 1 \in DOMAIN text
  BY <1>3, <1>4, <1>6
<1>8. /\ at \in Int /\ (at + L) - 1 \in Int /\ \A k \in at..(at + L) - 1 : text[k] \in STRING
      /\ (at + L - 1) - at + 1 = L /\ (at <= (at + L) - 1 <=> L > 0)
  BY <1>3, <1>4, <1>6
<1>9. /\ words \in Seq(STRING)
      /\ Len(words) = IF at <= (at + L) - 1 THEN ((at + L) - 1) - at + 1 ELSE 0
      /\ \A k \in 1..((at + L) - 1) - at + 1 : words[k] = text[at + k - 1]
  BY <1>5, <1>8, SubSeqProperties
<1>10. Len(words) = L /\ DOMAIN words = 1..L /\ \A k \in 1..L : words[k] = text[at + k - 1]
  BY <1>3, <1>8, <1>9
<1>11. \A k \in DOMAIN words : \E j \in DOMAIN text : words[k] = text[j]
  BY <1>7, <1>10
<1>12. WordsFit(way, words)
  BY <1>3, <1>4, <1>10 DEF WordsFit, L
<1>13. WordsFit(pattern.ways[i], words)
  BY Zenon, <1>12 DEF way, ways
<1>14. /\ words \in Seq(STRING)
       /\ \A k \in DOMAIN words : \E j \in DOMAIN text : words[k] = text[j]
       /\ \E k \in DOMAIN pattern.ways : WordsFit(pattern.ways[k], words)
  BY Zenon, <1>9, <1>11, <1>13
<1> QED BY Zenon, <1>14 DEF words

\* A sequence of sequences of some set flattens to one of that set.
LEMMA FlatIsASequence ==
  ASSUME NEW C, NEW seqs \in Seq(Seq(C))
  PROVE  FlattenSeq(seqs) \in Seq(C)
<1> DEFINE N == Len(seqs)
           V == Seq(C)
           join == [i \in 1..N |-> [s \in V |-> s \o seqs[i]]]
           none == << >>
<1>1. N \in Nat /\ seqs \in [1..N -> V]
  OBVIOUS
<1>2. CASE N = 0
  <2>1. FlattenSeq(seqs) = seqs
    BY Zenon, <1>2 DEF FlattenSeq
  <2>2. seqs = << >> /\ << >> \in Seq(C)
    BY <1>2
  <2> QED BY <2>1, <2>2
<1>3. CASE N # 0
  <2>1. ASSUME NEW i \in 1..N, NEW s \in V PROVE s \o seqs[i] \in V
    BY <1>1
  <2>2. BoundedStep(join, N, V)
    BY <2>1 DEF BoundedStep
  <2>3. \A i \in 1..N, s \in V : join[i][s] = s \o seqs[i]
    OBVIOUS
  <2>4. none \in V
    OBVIOUS
  <2> HIDE DEF join, none, V, N
  <2>5. PICK g : Recursive(g, N, none, join) /\ g \in [0..N -> V]
    BY <1>1, <2>2, <2>4, BoundedRecursion
  <2>6. g[0] = none /\ \A i \in 1..N : g[i] = g[i - 1] \o seqs[i] /\ g[i] \in V /\ g[i - 1] \in V
    <3>1. \A i \in 1..N : i \in 0..N /\ i # 0 /\ i - 1 \in 0..N
      BY <1>1
    <3>2. 0 \in 0..N
      BY <1>1
    <3> QED BY <2>3, <2>5, <3>1, <3>2 DEF Recursive
  <2> DEFINE f == [i \in 1..N |-> g[i]]
             Is(h) == h = [i \in 1..N |-> IF i = 1 THEN seqs[i] ELSE h[i - 1] \o seqs[i]]
  <2>7. Is(f)
    <3>1. ASSUME NEW i \in 1..N PROVE f[i] = IF i = 1 THEN seqs[i] ELSE f[i - 1] \o seqs[i]
      <4>1. f[i] = g[i - 1] \o seqs[i]
        BY <2>6
      <4>2. CASE i = 1
        <5>1. g[i - 1] = none
          BY <2>6, <4>2
        <5>2. seqs[i] \in Seq(C)
          BY <1>1 DEF V
        <5>3. none \o seqs[i] = seqs[i]
          BY <5>2 DEF none
        <5> QED BY <4>1, <4>2, <5>1, <5>3
      <4>3. CASE i # 1
        <5>1. i - 1 \in 1..N
          BY <1>1, <4>3
        <5> QED BY <4>1, <4>3, <5>1
      <4> QED BY <4>2, <4>3
    <3>2. f = [i \in 1..N |-> f[i]]
      OBVIOUS
    <3> HIDE DEF f
    <3> QED BY <3>1, <3>2
  <2> DEFINE flatten == CHOOSE h : Is(h)
  <2>8. Is(flatten)
    BY Zenon, <2>7
  <2>9. FlattenSeq(seqs) = flatten[N]
    BY Zenon, <1>3 DEF FlattenSeq, N
  <2> HIDE DEF flatten
  <2>10. ASSUME NEW i \in 1..N
         PROVE  flatten[i] = IF i = 1 THEN seqs[i] ELSE flatten[i - 1] \o seqs[i]
    BY <2>8
  <2> HIDE DEF Is
  <2> DEFINE S == {i \in 0..N : i = 0 \/ flatten[i] \in V}
  <2>11. 0 \in S
    BY <1>1
  <2>12. ASSUME NEW i \in 0..N, i \in S, i < N PROVE i + 1 \in S
    <3>1. i + 1 \in 1..N /\ i + 1 \in 0..N /\ (i + 1) - 1 = i
      BY <1>1, <2>12
    <3>2. CASE i = 0
      BY <1>1, <2>10, <3>1, <3>2
    <3>3. CASE i # 0
      <4>1. flatten[i] \in V /\ i + 1 # 1
        BY <1>1, <2>12, <3>3
      <4>2. flatten[i + 1] = flatten[i] \o seqs[i + 1]
        BY <2>10, <3>1, <4>1
      <4> QED BY <2>1, <3>1, <4>1, <4>2
    <3> QED BY <3>2, <3>3
  <2> HIDE DEF S
  <2>13. 0..N \subseteq S
    BY <1>1, <2>11, <2>12, BoundedInduction
  <2>14. flatten[N] \in V
    BY <1>1, <1>3, <2>13 DEF S
  <2> QED BY <2>9, <2>14 DEF V
<1> QED BY <1>2, <1>3

\* The candidates the patterns of a finder may yield.
Yield(pattern) == {Candidate(pattern.reads, m) : m \in Fitting(pattern.ways)}

\* A finder finds candidates of its patterns only.
LEMMA FoundAreCandidates ==
  ASSUME NEW patterns, NEW n \in Nat, DOMAIN patterns = 1..n,
         \A i \in 1..n : IsPattern(patterns[i]), Len(text) \in Nat
  PROVE  Found(patterns) \in Seq(UNION {Yield(patterns[i]) : i \in 1..n})
<1> DEFINE C == UNION {Yield(patterns[i]) : i \in 1..n}
           Of(i) == LET ms == Matches(patterns[i])
                    IN  [j \in DOMAIN ms |-> Candidate(patterns[i].reads, ms[j])]
           seqs == [i \in DOMAIN patterns |-> Of(i)]
<1>1. ASSUME NEW i \in 1..n PROVE Of(i) \in Seq(C)
  <2> DEFINE ms == Matches(patterns[i])
             reads == patterns[i].reads
             F == Fitting(patterns[i].ways)
             Y == Yield(patterns[i])
  <2>1. ms \in Seq(F)
    BY MatchesFit
  <2>2. \A m \in F : Candidate(reads, m) \in Y
    BY DEF Yield
  <2>3. Y \subseteq C
    OBVIOUS
  <2> HIDE DEF F, Y, C, ms, reads
  <2>4. \A m \in F : Candidate(reads, m) \in C
    BY <2>2, <2>3
  <2> DEFINE one == [j \in DOMAIN ms |-> Candidate(reads, ms[j])]
             L == Len(ms)
  <2>5. L \in Nat /\ DOMAIN ms = 1..L /\ \A j \in 1..L : ms[j] \in F
    BY <2>1
  <2>6. one = [j \in 1..L |-> Candidate(reads, ms[j])]
    BY <2>5
  <2>7. \A j \in 1..L : Candidate(reads, ms[j]) \in C
    BY Zenon, <2>4, <2>5
  <2> HIDE DEF L
  <2>8. one \in [1..L -> C]
    BY Zenon, <2>6, <2>7
  <2>9. one \in Seq(C)
    <3> HIDE DEF one
    <3> QED BY <2>5, <2>8
  <2>10. Of(i) = one
    BY Zenon DEF ms, reads
  <2> QED BY <2>9, <2>10
<1>2. Found(patterns) = FlattenSeq(seqs)
  BY Zenon DEF Found
<1> HIDE DEF C, Of
<1>3. seqs \in Seq(Seq(C))
  <2>1. seqs \in [1..n -> Seq(C)]
    BY <1>1
  <2> HIDE DEF seqs
  <2> QED BY <2>1
<1> HIDE DEF seqs
<1>4. FlattenSeq(seqs) \in Seq(C)
  BY <1>3, FlatIsASequence
<1> QED BY <1>2, <1>4 DEF C

(***************************************************************************)
(* What the matches are read as.                                           *)
(***************************************************************************)

\* The settings of a call in the years it can work with.
AskedInTime == now \in Days /\ fiscal \in Calendars /\ now.year \in AskedYears

\* The year and the month of the date.
LEMMA WhenAsked ==
  ASSUME AskedInTime
  PROVE  /\ now.year \in Nat /\ now.year >= 1000 /\ now.year <= 9998
         /\ now.month \in Nat /\ now.month >= 1 /\ now.month <= 12
<1>1. now \in Date
  BY ParserAssumption DEF AskedInTime
<1>2. now.month \in 1..12
  BY <1>1 DEF Date
<1>3. now.year \in AskedYears
  BY DEF AskedInTime
<1> DEFINE y == now.year
<1>4. y \in AskedYears
  BY <1>3
<1> HIDE DEF y
<1>5. y \in Nat /\ y >= 1000 /\ y <= 9998
  BY <1>4 DEF AskedYears
<1> QED BY <1>2, <1>5 DEF y

\* Runs of months of the year of the date, from the January before to the December,
\* are known.
LEMMA RunsNearby ==
  ASSUME AskedInTime, NEW y \in Int, now.year - 1 <= y, y <= now.year,
         NEW k \in -12..12, NEW n \in 0..12, k + n <= 12
  PROVE  InCalendar(Months(y, k, n))
<1>1. y \in Nat /\ y >= 999 /\ y <= 9998
  BY WhenAsked
<1>2. k \in -12..23 /\ k + n \in -12..23 /\ k \in Int /\ n \in Int
  OBVIOUS
<1>3. k \div 12 \in {-1, 0, 1}
  BY <1>2, MonthsOfThreeYears
<1>4. (k + n) \div 12 \in {-1, 0, 1}
  BY <1>2, MonthsOfThreeYears
<1>5. y + k \div 12 \in KnownYears /\ y + (k + n) \div 12 \in KnownYears
  BY <1>1, <1>3, <1>4 DEF KnownYears
<1> QED BY <1>2, <1>5, MonthsAreKnown

\* So is the year before, for a comparison.
LEMMA YearBeforeIsKnown ==
  ASSUME AskedInTime
  PROVE  InCalendar(Months(now.year - 1, 0, 12))
<1>1. now.year \in Nat /\ now.year >= 1000
  BY WhenAsked
<1>2. now.year - 1 \in Int /\ now.year - 1 <= now.year - 1 /\ now.year - 1 <= now.year
  BY <1>1
<1>3. 0 \in -12..12 /\ 12 \in 0..12 /\ 0 + 12 <= 12
  OBVIOUS
<1> QED BY <1>2, <1>3, RunsNearby

\* What depends on the date alone is known, whatever the words.
LEMMA RelativeIsKnown ==
  ASSUME AskedInTime, NEW words,
         NEW reads \in {"year_over_year", "relative_quarter", "relative_month", "relative_year",
                        "today", "yesterday", "relative_week", "year_to_date", "month_to_date"}
  PROVE  InCalendar(Read(reads, words))
<1> DEFINE o == Offset(words)
           y == now.year
           m == now.month
           q == (m - 1) \div 3
<1>1. o = 0 \/ o = 1
  BY DEF Offset
<1>2. y \in Nat /\ y >= 1000 /\ y <= 9998 /\ m \in Nat /\ m >= 1 /\ m <= 12
  BY WhenAsked
<1> HIDE DEF o, y, m
<1>3. q \in Nat /\ q <= 3
  BY <1>2, SMT
<1> HIDE DEF q
<1>4. /\ InCalendar(Months(y, 0, 12)) /\ InCalendar(Months(y - o, 0, 12))
      /\ InCalendar(Months(y, m - 1 - o, 1)) /\ InCalendar(Months(y, 3 * (q - o), 3))
  <2>1. y \in Int /\ y - 1 <= y /\ y <= y /\ y - o \in Int /\ y - 1 <= y - o /\ y - o <= y
    BY <1>1, <1>2
  <2>2. /\ 0 \in -12..12 /\ 12 \in 0..12 /\ 0 + 12 <= 12
        /\ m - 1 - o \in -12..12 /\ 1 \in 0..12 /\ (m - 1 - o) + 1 <= 12
        /\ 3 * (q - o) \in -12..12 /\ 3 \in 0..12 /\ 3 * (q - o) + 3 <= 12
    BY <1>1, <1>2, <1>3
  <2>3. InCalendar(Months(y, 0, 12))
    BY <2>1, <2>2, RunsNearby DEF y
  <2>4. InCalendar(Months(y - o, 0, 12))
    BY <2>1, <2>2, RunsNearby DEF y
  <2>5. InCalendar(Months(y, m - 1 - o, 1))
    BY <2>1, <2>2, RunsNearby DEF y
  <2>6. InCalendar(Months(y, 3 * (q - o), 3))
    BY <2>1, <2>2, RunsNearby DEF y
  <2> QED BY <2>3, <2>4, <2>5, <2>6
<1>5. Today \in Nat /\ \A k \in Int : -(365 * 999) <= k /\ k <= 365 => Today + k \in KnownDays
  <2>1. now \in Days /\ now.year \in AskedYears
    BY DEF AskedInTime
  <2> QED BY <2>1, TodayIsKnown, NearbyIsKnown
<1>6. Today \in KnownDays /\ Today + 1 \in KnownDays /\ Today - 1 \in KnownDays
  <2>1. Today + 0 = Today /\ Today + (-1) = Today - 1
    BY <1>5
  <2> QED BY <1>5, <2>1
<1> DEFINE monday == Today - Weekday - 7 * o
<1>7. monday \in KnownDays /\ monday + 7 \in KnownDays
  <2>1. Weekday \in 0..6
    BY <1>5, SMT DEF Weekday
  <2>2. Weekday \in Nat /\ Weekday <= 6
    BY <2>1
  <2> DEFINE k == 0 - Weekday - 7 * o
  <2>3. /\ k \in Int /\ -(365 * 999) <= k /\ k <= 365
        /\ k + 7 \in Int /\ -(365 * 999) <= k + 7 /\ k + 7 <= 365
        /\ monday = Today + k /\ monday + 7 = Today + (k + 7)
    BY <1>1, <1>5, <2>2
  <2> HIDE DEF k, monday
  <2> QED BY <1>5, <2>3
<1> HIDE DEF monday
<1>8. Day(y, 1, 1) \in KnownDays /\ Day(y, m, 1) \in KnownDays
  <2>1. y \in KnownYears /\ m \in MonthNumbers /\ 1 \in MonthNumbers /\ 1 \in 1..28
    BY <1>2 DEF KnownYears, MonthNumbers
  <2> QED BY <2>1, EarlyDayIsKnown
<1>9. \A a, b : a \in KnownDays /\ b \in KnownDays => InCalendar(DateRange(a, b))
  BY DEF InCalendar, DateRange
<1>10. CASE reads = "year_over_year"
  BY <1>4, <1>10 DEF Read, y
<1>11. CASE reads = "relative_quarter"
  BY <1>4, <1>11 DEF Read, y, m, q, o
<1>12. CASE reads = "relative_month"
  BY <1>4, <1>12 DEF Read, y, m, o
<1>13. CASE reads = "relative_year"
  BY <1>4, <1>13 DEF Read, y, o
<1>14. CASE reads = "today"
  BY <1>6, <1>9, <1>14 DEF Read
<1>15. CASE reads = "yesterday"
  BY <1>6, <1>9, <1>15 DEF Read
<1>16. CASE reads = "relative_week"
  BY <1>7, <1>9, <1>16 DEF Read, monday, o
<1>17. CASE reads = "year_to_date"
  BY <1>6, <1>8, <1>9, <1>17 DEF Read, y
<1>18. CASE reads = "month_to_date"
  BY <1>6, <1>8, <1>9, <1>18 DEF Read, y, m
<1> QED BY <1>10, <1>11, <1>12, <1>13, <1>14, <1>15, <1>16, <1>17, <1>18

\* The number a match names is what one of its words says, or the default.
LEMMA NamedIs ==
  ASSUME NEW words \in Seq(STRING), NEW numbers, NEW default
  PROVE  \/ Named(words, numbers, default) = default /\ \A i \in DOMAIN words : words[i] \notin numbers
         \/ \E i \in DOMAIN words :
              words[i] \in numbers /\ Named(words, numbers, default) = ValueOf[words[i]]
<1> DEFINE at == {i \in DOMAIN words : words[i] \in numbers}
<1>1. DOMAIN words \subseteq Nat
  OBVIOUS
<1>2. CASE at = {}
  BY <1>2 DEF Named
<1>3. CASE at # {}
  <2>1. at \in SUBSET Nat
    BY <1>1
  <2>2. Min(at) \in at
    BY <1>3, <2>1, MinIsOne
  <2>3. Named(words, numbers, default) = ValueOf[words[Min(at)]]
    BY Zenon, <1>3 DEF Named
  <2> QED BY <2>2, <2>3
<1> QED BY <1>2, <1>3

\* What four digits and up to three digits say.
LEMMA Values ==
  /\ \A w \in FourDigits : ValueOf[w] \in Numbers
  /\ \A w \in Digits : ValueOf[w] \in Nat /\ ValueOf[w] <= 999
<1>1. \A w \in FourDigits \cup Digits : ValueOf[w] \in Numbers
  BY ParserAssumption
<1>2. ASSUME NEW n \in Numbers PROVE n \in Nat
  BY DEF Numbers
<1>3. ASSUME NEW w \in Digits PROVE ValueOf[w] \in Nat /\ ValueOf[w] <= 999
  BY <1>1, <1>2, ParserAssumption
<1> QED BY <1>1, <1>3

\* The years of the calendar the next one of which is too.
NamedYears == 1..9998

\* A year a match names is one of these, unless at the edge.
LEMMA NamedYear ==
  ASSUME NEW words \in Seq(STRING), ~AtTheEdge(words), NEW default,
         default \in NamedYears \/ \E i \in DOMAIN words : words[i] \in FourDigits
  PROVE  Named(words, FourDigits, default) \in NamedYears
<1> DEFINE n == Named(words, FourDigits, default)
<1>1. CASE n = default /\ \A i \in DOMAIN words : words[i] \notin FourDigits
  BY <1>1
<1>2. ASSUME NEW i \in DOMAIN words, words[i] \in FourDigits, n = ValueOf[words[i]]
      PROVE  n \in NamedYears
  <2> DEFINE v == ValueOf[words[i]]
  <2>0. ~EdgeYear(words[i])
    BY <1>2 DEF AtTheEdge
  <2>1. v # 0 /\ v # 9999
    BY <1>2, <2>0 DEF EdgeYear
  <2>2. v \in Numbers
    BY <1>2, Values
  <2> HIDE DEF v
  <2>3. v \in NamedYears
    BY <2>1, <2>2 DEF Numbers, NamedYears
  <2> QED BY <1>2, <2>3 DEF v
<1> HIDE DEF n
<1>3. \/ n = default /\ \A i \in DOMAIN words : words[i] \notin FourDigits
      \/ \E i \in DOMAIN words : words[i] \in FourDigits /\ n = ValueOf[words[i]]
  BY NamedIs DEF n
<1>4. n \in NamedYears
  BY <1>1, <1>2, <1>3
<1> QED BY <1>4 DEF n

\* The quarter a match names is one.
LEMMA QuarterIsOne ==
  ASSUME NEW words, NEW i \in DOMAIN words, words[i] \in QuarterWords
  PROVE  QuarterOf(words) \in 1..4
<1>1. DOMAIN QuarterWord = 1..4
  BY DEF QuarterWord
<1>2. PICK q \in 1..4 : words[i] = QuarterWord[q]
  BY <1>1 DEF QuarterWords, ToSet
<1>3. \E p \in 1..4 : \E j \in DOMAIN words : words[j] = QuarterWord[p]
  BY <1>2
<1> QED BY <1>3 DEF QuarterOf

\* The months have numbers.
LEMMA MonthsHaveNumbers == \A w \in DOMAIN MonthOf : MonthOf[w] \in 1..12
  BY DEF MonthOf

\* No unit is longer than a year.
LEMMA UnitsHaveDays == \A w \in DOMAIN DaysIn : DaysIn[w] \in 1..365
  BY DEF DaysIn

\* A fiscal year and its quarters are known if the year is, with the one before it
\* and, where it is a calendar year, the one after it.
LEMMA FiscalIsKnown ==
  ASSUME fiscal \in Calendars, NEW fy \in Nat, fy >= 2, fy <= 9999,
         IsCalendarYear(fiscal) => fy <= 9998, NEW q \in 1..4
  PROVE  LET year == FiscalYearBounds(fiscal, fy)
             bounds == FiscalQuarterBounds(fiscal, fy, q)
         IN  /\ DayOf(year.start) \in KnownDays /\ DayOf(year.end) \in KnownDays
             /\ DayOf(bounds.start) \in KnownDays /\ DayOf(bounds.end) \in KnownDays
<1> DEFINE year == FiscalYearBounds(fiscal, fy)
           bounds == FiscalQuarterBounds(fiscal, fy, q)
           first == year.start
           a == IF IsCalendarYear(fiscal) THEN fy ELSE fy - 1
<1>1. fiscal.month \in 1..12 /\ fiscal.day \in 1..31 /\ fiscal.day <= EveryYear(fiscal.month)
  BY ParserAssumption DEF Config
<1>2. \A y, m, d : On(y, m, d).year = y /\ On(y, m, d).month = m /\ On(y, m, d).day = d
  BY DEF On
<1>3. /\ a \in KnownYears /\ a + 1 \in KnownYears /\ a \in Nat
      /\ first.year = a /\ first.month \in 1..12
      /\ first.day \in 1..31 /\ first.day <= EveryYear(first.month)
      /\ year.end.year = a + 1 /\ year.end.month \in 1..12
      /\ year.end.day \in 1..31 /\ year.end.day <= EveryYear(year.end.month)
      /\ (IsCalendarYear(fiscal) => first.month = 1)
  <2>1. CASE IsCalendarYear(fiscal)
    <3>1. year.start = On(fy, 1, 1) /\ year.end = On(fy + 1, 1, 1) /\ a = fy
      BY <2>1 DEF FiscalYearBounds
    <3>2. a \in Nat /\ a >= 1 /\ a <= 9998
      BY <2>1, <3>1
    <3> HIDE DEF a, year
    <3>3. a \in KnownYears /\ a + 1 \in KnownYears
      BY <3>2, YearAndNext
    <3>4. 1 \in 1..31 /\ 1 <= EveryYear(1)
      BY DEF EveryYear
    <3> QED BY <1>2, <3>1, <3>2, <3>3, <3>4
  <2>2. CASE ~IsCalendarYear(fiscal)
    <3>1. /\ year.start = On(fy - 1, fiscal.month, fiscal.day)
          /\ year.end = On(fy, fiscal.month, fiscal.day) /\ a = fy - 1
      BY <2>2 DEF FiscalYearBounds
    <3>2. a \in Nat /\ a >= 1 /\ a <= 9998 /\ fy = a + 1
      BY <3>1
    <3> HIDE DEF a, year
    <3>3. a \in KnownYears /\ a + 1 \in KnownYears
      BY <3>2, YearAndNext
    <3> QED BY <1>1, <1>2, <2>2, <3>1, <3>2, <3>3
  <2> QED BY <2>1, <2>2
<1> HIDE DEF a
<1>4. \A y \in KnownYears, m \in 1..12, d \in 1..31 : d <= EveryYear(m) => Day(y, m, d) \in KnownDays
  BY YearlyDayIsKnown DEF MonthNumbers, DayNumbers
<1>5. DayOf(year.start) \in KnownDays /\ DayOf(year.end) \in KnownDays
  <2> HIDE DEF year
  <2>1. ASSUME NEW date, date.year \in KnownYears, date.month \in 1..12,
               date.day \in 1..31, date.day <= EveryYear(date.month)
        PROVE  DayOf(date) \in KnownDays
    <3>1. Day(date.year, date.month, date.day) \in KnownDays
      BY ONLY <1>4, <2>1
    <3> QED BY <3>1 DEF DayOf
  <2>2. /\ first.year \in KnownYears /\ first.month \in 1..12
        /\ first.day \in 1..31 /\ first.day <= EveryYear(first.month)
        /\ year.end.year \in KnownYears /\ year.end.month \in 1..12
        /\ year.end.day \in 1..31 /\ year.end.day <= EveryYear(year.end.month)
    BY <1>3
  <2> QED BY <2>1, <2>2
<1>6. ASSUME NEW p \in 0..4 PROVE DayOf(QuarterStart(fiscal, fy, p)) \in KnownDays
  <2> DEFINE month == first.month - 1 + 3 * p
  <2>1. QuarterStart(fiscal, fy, p) = On(first.year + month \div 12, (month % 12) + 1, 1)
    BY DEF QuarterStart
  <2> HIDE DEF year
  <2>2. month \in 0..23
    BY <1>3
  <2> HIDE DEF month
  <2>3. month \div 12 \in {0, 1} /\ (month % 12) + 1 \in 1..12
    BY <2>2, MonthArithmetic
  <2>4. a + month \div 12 \in KnownYears
    BY <1>3, <2>3
  <2>5. Day(a + month \div 12, (month % 12) + 1, 1) \in KnownDays
    BY <2>3, <2>4, EarlyDayIsKnown DEF MonthNumbers
  <2>6. DayOf(QuarterStart(fiscal, fy, p)) = Day(a + month \div 12, (month % 12) + 1, 1)
    BY <1>2, <1>3, <2>1 DEF DayOf
  <2> QED BY <2>5, <2>6
<1>7. q - 1 \in 0..4 /\ q \in 0..4
  OBVIOUS
<1>8. bounds.start = QuarterStart(fiscal, fy, q - 1) /\ bounds.end = QuarterStart(fiscal, fy, q)
  BY DEF FiscalQuarterBounds
<1> HIDE DEF bounds, year
<1>9. DayOf(bounds.start) \in KnownDays /\ DayOf(bounds.end) \in KnownDays
  BY <1>6, <1>7, <1>8
<1> QED BY <1>5, <1>9 DEF bounds, year

\* The words of a fiscal quarter: fiscal or fy, and a quarter.
LEMMA FiscalQuarterIsKnown ==
  ASSUME AskedInTime, NEW words \in Seq(STRING), ~AtTheEdge(words),
         \E i \in DOMAIN words : words[i] \in QuarterWords,
         \E i \in DOMAIN words : words[i] \in {"fiscal", "fy"}
  PROVE  InCalendar(Read("fiscal_quarter", words))
<1> DEFINE default == FiscalYearFor(fiscal, now)
           fy == Named(words, FourDigits, default)
           q == QuarterOf(words)
           year == FiscalYearBounds(fiscal, fy)
           bounds == FiscalQuarterBounds(fiscal, fy, q)
<1>1. q \in 1..4
  BY QuarterIsOne
<1>2. now.year \in Nat /\ now.year >= 1000 /\ now.year <= 9998
  BY WhenAsked
<1>3. /\ default = now.year \/ default = now.year + 1
      /\ IsCalendarYear(fiscal) => default = now.year
  BY DEF FiscalYearFor
<1> HIDE DEF default
<1>4. fy \in Nat /\ fy >= 2 /\ fy <= 9999 /\ (IsCalendarYear(fiscal) => fy <= 9998)
  <2>1. CASE fy = default
    <3> HIDE DEF fy
    <3> QED BY <1>2, <1>3, <2>1
  <2>2. ASSUME NEW i \in DOMAIN words, words[i] \in FourDigits, fy = ValueOf[words[i]]
        PROVE  fy \in Nat /\ fy >= 2 /\ fy <= 9998
    <3> DEFINE v == ValueOf[words[i]]
    <3>1. v # 0 /\ v # 9999 /\ v # 1
      BY <2>2 DEF AtTheEdge, EdgeYear, FirstYear, FiscalWord
    <3>2. v \in Numbers
      BY <2>2, Values
    <3> HIDE DEF v, fy
    <3>3. v \in Nat /\ v >= 2 /\ v <= 9998
      BY <3>1, <3>2 DEF Numbers
    <3> QED BY <2>2, <3>3 DEF v
  <2>3. \/ fy = default /\ \A i \in DOMAIN words : words[i] \notin FourDigits
        \/ \E i \in DOMAIN words : words[i] \in FourDigits /\ fy = ValueOf[words[i]]
    BY NamedIs
  <2> HIDE DEF fy
  <2>4. ASSUME fy \in Nat, fy >= 2, fy <= 9998
        PROVE  fy <= 9999
    BY <2>4
  <2> QED BY <2>1, <2>2, <2>3, <2>4
<1> HIDE DEF fy, q
<1>5. fiscal \in Calendars
  BY DEF AskedInTime
<1>6. /\ DayOf(year.start) \in KnownDays /\ DayOf(year.end) \in KnownDays
      /\ DayOf(bounds.start) \in KnownDays /\ DayOf(bounds.end) \in KnownDays
  BY <1>1, <1>4, <1>5, FiscalIsKnown
<1> HIDE DEF year, bounds
<1>7. NoDay \notin KnownDays
  BY DEF NoDay, KnownDays
<1>8. FiscalRange(words) = DateRange(DayOf(bounds.start), DayOf(bounds.end))
  <2>1. DayOf(year.start) # NoDay /\ DayOf(year.end) # NoDay
    BY <1>6, <1>7
  <2> QED BY Zenon, <2>1 DEF FiscalRange, fy, q, year, bounds, default
<1>9. Read("fiscal_quarter", words) = FiscalRange(words)
  BY DEF Read
<1> QED BY <1>6, <1>8, <1>9 DEF InCalendar, DateRange

\* A run of months within a year that is named is known.
LEMMA NamedMonthsAreKnown ==
  ASSUME NEW y \in NamedYears, NEW k \in 0..12, NEW n \in 0..12, k + n <= 12
  PROVE  InCalendar(Months(y, k, n))
<1>1. y \in Nat /\ y >= 1 /\ y <= 9998
  BY DEF NamedYears
<1>2. k \in 0..23 /\ k + n \in 0..23 /\ k \in Int /\ n \in Int
  OBVIOUS
<1>3. k \div 12 \in {0, 1} /\ (k + n) \div 12 \in {0, 1}
  BY <1>2, MonthArithmetic
<1>4. y \in Int /\ y + k \div 12 \in KnownYears /\ y + (k + n) \div 12 \in KnownYears
  BY <1>1, <1>3 DEF KnownYears
<1> QED BY <1>2, <1>4, MonthsAreKnown

\* A quarter of the year, or of a year that is named, is known.
LEMMA QuarterIsKnown ==
  ASSUME AskedInTime, NEW words \in Seq(STRING), ~AtTheEdge(words),
         \E i \in DOMAIN words : words[i] \in QuarterWords
  PROVE  InCalendar(Read("quarter", words))
<1>1. QuarterOf(words) \in 1..4
  BY QuarterIsOne
<1>2. now.year \in NamedYears
  <2> DEFINE y == now.year
  <2>1. y \in Nat /\ y >= 1000 /\ y <= 9998
    BY WhenAsked
  <2> HIDE DEF y
  <2>2. y \in NamedYears
    BY <2>1 DEF NamedYears
  <2> QED BY <2>2 DEF y
<1>3. Named(words, FourDigits, now.year) \in NamedYears
  BY <1>2, NamedYear
<1> DEFINE k == 3 * QuarterOf(words) - 3
<1>4. k \in 0..12 /\ 3 \in 0..12 /\ k + 3 <= 12
  BY <1>1
<1>5. Read("quarter", words) = Months(Named(words, FourDigits, now.year), k, 3)
  BY DEF Read
<1> HIDE DEF k
<1> QED BY <1>3, <1>4, <1>5, NamedMonthsAreKnown

\* So are a month and a whole year.
LEMMA MonthIsKnown ==
  ASSUME NEW words \in Seq(STRING), ~AtTheEdge(words), words[1] \in DOMAIN MonthOf,
         \E i \in DOMAIN words : words[i] \in FourDigits
  PROVE  InCalendar(Read("month", words))
<1>1. Named(words, FourDigits, 0) \in NamedYears
  BY NamedYear
<1> DEFINE k == MonthOf[words[1]] - 1
<1>2. MonthOf[words[1]] \in 1..12
  BY Zenon, MonthsHaveNumbers
<1>3. k \in 0..12 /\ 1 \in 0..12 /\ k + 1 <= 12
  BY <1>2
<1>4. Read("month", words) = Months(Named(words, FourDigits, 0), k, 1)
  BY DEF Read
<1> HIDE DEF k
<1> QED BY <1>1, <1>3, <1>4, NamedMonthsAreKnown

\* As above, with the whole year.
LEMMA YearIsKnown ==
  ASSUME NEW words \in Seq(STRING), ~AtTheEdge(words),
         \E i \in DOMAIN words : words[i] \in FourDigits
  PROVE  InCalendar(Read("year", words))
<1>1. Named(words, FourDigits, 0) \in NamedYears
  BY NamedYear
<1>2. 0 \in 0..12 /\ 12 \in 0..12 /\ 0 + 12 <= 12
  OBVIOUS
<1>3. Read("year", words) = Months(Named(words, FourDigits, 0), 0, 12)
  BY DEF Read
<1> QED BY <1>1, <1>2, <1>3, NamedMonthsAreKnown

\* Up to 999 of the units are at most 999 years, and all of these are known.
LEMMA WindowIsKnown ==
  ASSUME AskedInTime, NEW words \in Seq(STRING), words[3] \in DOMAIN DaysIn
  PROVE  InCalendar(Read("rolling", words))
<1> DEFINE n == Named(words, Digits, 0)
           d == DaysIn[words[3]]
<1>1. n \in Nat /\ n <= 999
  <2>1. \/ n = 0 /\ \A i \in DOMAIN words : words[i] \notin Digits
        \/ \E i \in DOMAIN words : words[i] \in Digits /\ n = ValueOf[words[i]]
    BY NamedIs
  <2> HIDE DEF n
  <2> QED BY <2>1, Values
<1>2. d \in 1..365
  BY Zenon, UnitsHaveDays
<1>3. RollingDays(words) = n * d
  BY DEF RollingDays
<1> HIDE DEF n, d
<1>4. d \in Nat /\ d >= 1 /\ d <= 365
  BY <1>2
<1>5. n * d \in Nat /\ n * d <= 365 * 999
  <2>1. n * d <= n * 365
    BY <1>1, <1>4, SMT
  <2> QED BY <1>1, <1>4, <2>1, SMT
<1> DEFINE back == RollingDays(words)
<1>6. back \in Nat /\ back <= 365 * 999
  BY <1>3, <1>5
<1> HIDE DEF back
<1>7. Today \in Nat /\ Today + (-back) \in KnownDays /\ Today + 1 \in KnownDays
  <2>1. now \in Days /\ now.year \in AskedYears
    BY DEF AskedInTime
  <2>2. Today \in Nat
    BY <2>1, TodayIsKnown
  <2>3. -back \in Int /\ -(365 * 999) <= -back /\ -back <= 365
    BY <1>6
  <2>4. 1 \in Int /\ -(365 * 999) <= 1 /\ 1 <= 365
    OBVIOUS
  <2> QED BY <2>1, <2>2, <2>3, <2>4, NearbyIsKnown
<1>8. Today + (-back) = Today - back
  BY <1>6, <1>7
<1>9. Read("rolling", words) = DateRange(Today - back, Today + 1)
  BY DEF Read, back
<1> QED BY <1>7, <1>8, <1>9 DEF InCalendar, DateRange

(***************************************************************************)
(* The patterns, one by one.                                               *)
(***************************************************************************)

IsWay(way) == Len(way) \in Nat /\ DOMAIN way = 1..Len(way)

\* What a pattern makes of a match is known, unless the question is at the edge.
IsSafe(pattern) ==
  /\ IsPattern(pattern)
  /\ \A m \in Fitting(pattern.ways) :
       InCalendar(Read(pattern.reads, SubSeq(text, m.at, m.to - 1))) \/ AtTheEdge(text)

\* Tuples are ways.
LEMMA TuplesAreWays ==
  /\ \A a : IsWay(<<a>>)
  /\ \A a, b : IsWay(<<a, b>>)
  /\ \A a, b, c : IsWay(<<a, b, c>>)
  /\ \A a, b, c, d : IsWay(<<a, b, c, d>>)
  BY DEF IsWay

\* So are two joined.
LEMMA JoinedAreWays ==
  ASSUME NEW T, NEW a \in Seq(T), NEW b \in Seq(T)
  PROVE  IsWay(a \o b)
<1>1. a \o b \in Seq(T)
  OBVIOUS
<1> QED BY <1>1 DEF IsWay

\* A pattern with one way, ...
LEMMA OneWay ==
  ASSUME NEW reads, NEW a, IsWay(a)
  PROVE  LET p == Pattern(reads, <<a>>) IN
         /\ IsPattern(p) /\ p.reads = reads
         /\ DOMAIN p.ways = 1..1 /\ p.ways[1] = a
<1>1. Pattern(reads, <<a>>).ways = <<a>> /\ Pattern(reads, <<a>>).reads = reads
  BY DEF Pattern
<1>2. DOMAIN <<a>> = 1..1 /\ <<a>>[1] = a
  OBVIOUS
<1>3. \A i \in 1..1 : Len(<<a>>[i]) \in Nat /\ DOMAIN <<a>>[i] = 1..Len(<<a>>[i])
  BY DEF IsWay
<1> QED BY <1>1, <1>2, <1>3 DEF IsPattern

\* ... with two, ...
LEMMA TwoWays ==
  ASSUME NEW reads, NEW a, NEW b, IsWay(a), IsWay(b)
  PROVE  LET p == Pattern(reads, <<a, b>>) IN
         /\ IsPattern(p) /\ p.reads = reads
         /\ DOMAIN p.ways = 1..2 /\ p.ways[1] = a /\ p.ways[2] = b
<1> DEFINE w == <<a, b>>
<1>1. Pattern(reads, w).ways = w /\ Pattern(reads, w).reads = reads
  BY DEF Pattern
<1>2. DOMAIN w = 1..2 /\ w[1] = a /\ w[2] = b
  OBVIOUS
<1> HIDE DEF w
<1>3. \A i \in 1..2 : Len(w[i]) \in Nat /\ DOMAIN w[i] = 1..Len(w[i])
  BY <1>2 DEF IsWay
<1>4. IsPattern(Pattern(reads, w))
  BY <1>1, <1>2, <1>3 DEF IsPattern
<1> QED BY <1>1, <1>2, <1>4 DEF w

\* ... and with three.
LEMMA ThreeWays ==
  ASSUME NEW reads, NEW a, NEW b, NEW c, IsWay(a), IsWay(b), IsWay(c)
  PROVE  LET p == Pattern(reads, <<a, b, c>>) IN
         /\ IsPattern(p) /\ p.reads = reads
         /\ DOMAIN p.ways = 1..3 /\ p.ways[1] = a /\ p.ways[2] = b /\ p.ways[3] = c
<1> DEFINE w == <<a, b, c>>
<1>1. Pattern(reads, w).ways = w /\ Pattern(reads, w).reads = reads
  BY DEF Pattern
<1>2. DOMAIN w = 1..3 /\ w[1] = a /\ w[2] = b /\ w[3] = c
  OBVIOUS
<1> HIDE DEF w
<1>3. \A i \in 1..3 : Len(w[i]) \in Nat /\ DOMAIN w[i] = 1..Len(w[i])
  BY <1>2 DEF IsWay
<1>4. IsPattern(Pattern(reads, w))
  BY <1>1, <1>2, <1>3 DEF IsPattern
<1> QED BY <1>1, <1>2, <1>4 DEF w

\* A pattern read by the date alone is safe.
LEMMA RelativeIsSafe ==
  ASSUME AskedInTime, NEW pattern, IsPattern(pattern),
         pattern.reads \in {"year_over_year", "relative_quarter", "relative_month", "relative_year",
                            "today", "yesterday", "relative_week", "year_to_date", "month_to_date"}
  PROVE  IsSafe(pattern)
BY RelativeIsKnown DEF IsSafe

\* A pattern is safe if words that fit it are, where they are not at the edge.
LEMMA WordsAreSafe ==
  ASSUME text \in Seq(STRING), NEW pattern, IsPattern(pattern),
         \A words \in Seq(STRING) :
           ~AtTheEdge(words) /\ (\E i \in DOMAIN pattern.ways : WordsFit(pattern.ways[i], words)) =>
             InCalendar(Read(pattern.reads, words))
  PROVE  IsSafe(pattern)
<1>1. ASSUME NEW m \in Fitting(pattern.ways), ~AtTheEdge(text)
      PROVE  InCalendar(Read(pattern.reads, SubSeq(text, m.at, m.to - 1)))
  <2> DEFINE words == SubSeq(text, m.at, m.to - 1)
  <2>1. /\ words \in Seq(STRING)
        /\ \A i \in DOMAIN words : \E j \in DOMAIN text : words[i] = text[j]
        /\ \E i \in DOMAIN pattern.ways : WordsFit(pattern.ways[i], words)
    BY WordsOfAMatch
  <2> HIDE DEF words
  <2>2. ~AtTheEdge(words)
    <3> SUFFICES ASSUME AtTheEdge(words) PROVE FALSE
      OBVIOUS
    <3>1. PICK i \in DOMAIN words :
            \/ EdgeYear(words[i])
            \/ FirstYear(words[i]) /\ \E j \in DOMAIN words : FiscalWord(words[j])
      BY Zenon DEF AtTheEdge
    <3>2. PICK k \in DOMAIN text : words[i] = text[k]
      BY Zenon, <2>1
    <3>3. (\E j \in DOMAIN words : FiscalWord(words[j])) => \E j \in DOMAIN text : FiscalWord(text[j])
      BY Zenon, <2>1
    <3>4. AtTheEdge(text)
      BY Zenon, <3>1, <3>2, <3>3 DEF AtTheEdge
    <3> QED BY <1>1, <3>4
  <2>3. InCalendar(Read(pattern.reads, words))
    BY Zenon, <2>1, <2>2
  <2> QED BY <2>3 DEF words
<1> QED BY <1>1 DEF IsSafe

\* A word that fits a way is one of those it allows.
LEMMA FittingWord ==
  ASSUME NEW way, IsWay(way), NEW words \in Seq(STRING), WordsFit(way, words),
         NEW k \in 1..Len(way)
  PROVE  k \in DOMAIN words /\ words[k] \in way[k]
BY DEF IsWay, WordsFit

\* The settings and the question of a call.
AskedRight == AskedInTime /\ text \in Seq(STRING)

\* A year over year is read by the date alone.
LEMMA YoYIsSafe ==
  ASSUME AskedRight
  PROVE  IsSafe(YoY)
<1> DEFINE T == {Against, {"the"}, {"same"}, {"period", "quarter", "month"}, {"last"}, {"year"}}
           a == <<{"yoy"}>>
           b == <<{"year"}, {"over"}, {"year"}>>
           c == <<Against, {"the"}>> \o SamePeriod
           d == <<Against>> \o SamePeriod
           e == SamePeriod
           f == <<Against, {"last"}, {"year"}>>
           ways == <<a, b, c, d, e, f>>
<1>1. Against \in T /\ {"the"} \in T /\ SamePeriod \in Seq(T)
  <2>1. Against \in T /\ {"the"} \in T
    BY Zenon
  <2>2. {"same"} \in T /\ {"period", "quarter", "month"} \in T /\ {"last"} \in T /\ {"year"} \in T
    BY Zenon
  <2> HIDE DEF T
  <2>3. ASSUME NEW p \in T, NEW q \in T, NEW r \in T, NEW s \in T PROVE <<p, q, r, s>> \in Seq(T)
    OBVIOUS
  <2>4. SamePeriod \in Seq(T)
    BY Zenon, <2>2, <2>3 DEF SamePeriod
  <2> QED BY <2>1, <2>4
<1> HIDE DEF T
<1>2. <<Against, {"the"}>> \in Seq(T) /\ <<Against>> \in Seq(T)
  BY <1>1
<1>3. IsWay(c) /\ IsWay(d)
  BY Zenon, <1>1, <1>2, JoinedAreWays
<1>4. IsWay(a) /\ IsWay(b) /\ IsWay(f)
  BY Zenon, TuplesAreWays
<1>5. IsWay(e)
  BY <1>1 DEF IsWay
<1>6. YoY.ways = ways /\ YoY.reads = "year_over_year"
  BY DEF YoY, Pattern
<1> HIDE DEF a, b, c, d, e, f
<1>7. DOMAIN ways = 1..6 /\ ways[1] = a /\ ways[2] = b /\ ways[3] = c /\ ways[4] = d
      /\ ways[5] = e /\ ways[6] = f
  OBVIOUS
<1> HIDE DEF ways
<1>8. \A i \in 1..6 : IsWay(ways[i])
  <2> SUFFICES ASSUME NEW i \in 1..6 PROVE IsWay(ways[i])
    OBVIOUS
  <2>1. i = 1 \/ i = 2 \/ i = 3 \/ i = 4 \/ i = 5 \/ i = 6
    OBVIOUS
  <2> QED BY Zenon, <1>3, <1>4, <1>5, <1>7, <2>1
<1>9. IsPattern(YoY)
  BY <1>6, <1>7, <1>8 DEF IsPattern, IsWay
<1> QED BY <1>6, <1>9, RelativeIsSafe DEF AskedRight

\* The other patterns read by the date alone.
LEMMA RelativesAreSafe ==
  ASSUME AskedRight
  PROVE  /\ IsSafe(RelativeQuarter) /\ IsSafe(RelativeMonth) /\ IsSafe(RelativeYear)
         /\ IsSafe(TodayWord) /\ IsSafe(Yesterday) /\ IsSafe(RelativeWeek)
         /\ IsSafe(YearToDate) /\ IsSafe(MonthToDate)
<1>1. \A reads, a : IsPattern(Pattern(reads, << <<a>> >>)) /\ Pattern(reads, << <<a>> >>).reads = reads
  BY TuplesAreWays, OneWay
<1>2. \A reads, a, b : IsPattern(Pattern(reads, << <<a, b>> >>))
                       /\ Pattern(reads, << <<a, b>> >>).reads = reads
  BY TuplesAreWays, OneWay
<1>3. \A reads, a, b, c, d :
        LET p == Pattern(reads, << <<a>>, <<b, c, d>> >>) IN IsPattern(p) /\ p.reads = reads
  BY TuplesAreWays, TwoWays
<1>4. AskedInTime
  BY DEF AskedRight
<1>5. IsPattern(RelativeQuarter) /\ RelativeQuarter.reads = "relative_quarter"
  BY Zenon, <1>2 DEF RelativeQuarter
<1>6. IsPattern(RelativeMonth) /\ RelativeMonth.reads = "relative_month"
  BY Zenon, <1>2 DEF RelativeMonth
<1>7. IsPattern(RelativeYear) /\ RelativeYear.reads = "relative_year"
  BY Zenon, <1>2 DEF RelativeYear
<1>8. IsPattern(RelativeWeek) /\ RelativeWeek.reads = "relative_week"
  BY Zenon, <1>2 DEF RelativeWeek
<1>9. IsPattern(TodayWord) /\ TodayWord.reads = "today"
  BY Zenon, <1>1 DEF TodayWord
<1>10. IsPattern(Yesterday) /\ Yesterday.reads = "yesterday"
  BY Zenon, <1>1 DEF Yesterday
<1>11. IsPattern(YearToDate) /\ YearToDate.reads = "year_to_date"
  <2>1. YearToDate = Pattern("year_to_date", << <<{"ytd"}>>, <<{"year"}, {"to"}, {"date"}>> >>)
    BY Zenon DEF YearToDate, ToDate
  <2> QED BY <1>3, <2>1
<1>12. IsPattern(MonthToDate) /\ MonthToDate.reads = "month_to_date"
  <2>1. MonthToDate = Pattern("month_to_date", << <<{"mtd"}>>, <<{"month"}, {"to"}, {"date"}>> >>)
    BY Zenon DEF MonthToDate, ToDate
  <2> QED BY <1>3, <2>1
<1>13. IsSafe(RelativeQuarter) /\ IsSafe(RelativeMonth) /\ IsSafe(RelativeYear)
  BY <1>4, <1>5, <1>6, <1>7, RelativeIsSafe
<1>14. IsSafe(RelativeWeek) /\ IsSafe(TodayWord) /\ IsSafe(Yesterday)
  BY <1>4, <1>8, <1>9, <1>10, RelativeIsSafe
<1>15. IsSafe(YearToDate) /\ IsSafe(MonthToDate)
  BY <1>4, <1>11, <1>12, RelativeIsSafe
<1> QED BY <1>13, <1>14, <1>15

\* Quarters, of a fiscal year or not.
LEMMA QuartersAreSafe ==
  ASSUME AskedRight
  PROVE  IsSafe(FiscalQuarter) /\ IsSafe(Quarter)
<1>1. AskedInTime /\ text \in Seq(STRING)
  BY DEF AskedRight
<1>2. IsSafe(FiscalQuarter)
  <2> DEFINE a == <<{"fiscal"}, QuarterWords, FourDigits>>
             b == <<{"fiscal"}, QuarterWords>>
             c == <<{"fy"}, FourDigits, QuarterWords>>
  <2>1. IsWay(a) /\ IsWay(b) /\ IsWay(c)
    BY Zenon, TuplesAreWays
  <2>2. /\ Len(a) = 3 /\ a[1] = {"fiscal"} /\ a[2] = QuarterWords
        /\ Len(b) = 2 /\ b[1] = {"fiscal"} /\ b[2] = QuarterWords
        /\ Len(c) = 3 /\ c[1] = {"fy"} /\ c[3] = QuarterWords
    OBVIOUS
  <2>3. FiscalQuarter = Pattern("fiscal_quarter", <<a, b, c>>)
    BY Zenon DEF FiscalQuarter
  <2> HIDE DEF a, b, c
  <2>4. /\ IsPattern(FiscalQuarter) /\ FiscalQuarter.reads = "fiscal_quarter"
        /\ DOMAIN FiscalQuarter.ways = 1..3
        /\ FiscalQuarter.ways[1] = a /\ FiscalQuarter.ways[2] = b /\ FiscalQuarter.ways[3] = c
    BY <2>1, <2>3, ThreeWays
  <2>5. ASSUME NEW words \in Seq(STRING), ~AtTheEdge(words),
               WordsFit(a, words) \/ WordsFit(b, words) \/ WordsFit(c, words)
        PROVE  InCalendar(Read("fiscal_quarter", words))
    <3>1. \E i \in DOMAIN words : words[i] \in QuarterWords
      BY <2>1, <2>2, <2>5, FittingWord
    <3>2. \E i \in DOMAIN words : words[i] \in {"fiscal", "fy"}
      <4>1. 1 \in DOMAIN words /\ (words[1] \in {"fiscal"} \/ words[1] \in {"fy"})
        BY <2>1, <2>2, <2>5, FittingWord
      <4> QED BY <4>1
    <3> QED BY <1>1, <2>5, <3>1, <3>2, FiscalQuarterIsKnown
  <2>6. ASSUME NEW words, NEW i \in DOMAIN FiscalQuarter.ways, WordsFit(FiscalQuarter.ways[i], words)
        PROVE  WordsFit(a, words) \/ WordsFit(b, words) \/ WordsFit(c, words)
    <3>1. i = 1 \/ i = 2 \/ i = 3
      BY <2>4
    <3> QED BY Zenon, <2>4, <2>6, <3>1
  <2> QED BY <1>1, <2>4, <2>5, <2>6, WordsAreSafe
<1>3. IsSafe(Quarter)
  <2> DEFINE a == <<QuarterWords, FourDigits>>
             b == <<QuarterWords>>
  <2>1. IsWay(a) /\ IsWay(b)
    BY Zenon, TuplesAreWays
  <2>2. Len(a) = 2 /\ a[1] = QuarterWords /\ Len(b) = 1 /\ b[1] = QuarterWords
    OBVIOUS
  <2>3. Quarter = Pattern("quarter", <<a, b>>)
    BY Zenon DEF Quarter
  <2> HIDE DEF a, b
  <2>4. /\ IsPattern(Quarter) /\ Quarter.reads = "quarter"
        /\ DOMAIN Quarter.ways = 1..2 /\ Quarter.ways[1] = a /\ Quarter.ways[2] = b
    BY <2>1, <2>3, TwoWays
  <2>5. ASSUME NEW words \in Seq(STRING), ~AtTheEdge(words), WordsFit(a, words) \/ WordsFit(b, words)
        PROVE  InCalendar(Read("quarter", words))
    <3>1. \E i \in DOMAIN words : words[i] \in QuarterWords
      BY <2>1, <2>2, <2>5, FittingWord
    <3> QED BY <1>1, <2>5, <3>1, QuarterIsKnown
  <2>6. ASSUME NEW words, NEW i \in DOMAIN Quarter.ways, WordsFit(Quarter.ways[i], words)
        PROVE  WordsFit(a, words) \/ WordsFit(b, words)
    <3>1. i = 1 \/ i = 2
      BY <2>4
    <3> QED BY Zenon, <2>4, <2>6, <3>1
  <2> QED BY <1>1, <2>4, <2>5, <2>6, WordsAreSafe
<1> QED BY <1>2, <1>3

\* A month or a year that is named.
LEMMA NamedAreSafe ==
  ASSUME AskedRight
  PROVE  IsSafe(NamedMonth) /\ IsSafe(YearOnly)
<1>1. AskedInTime /\ text \in Seq(STRING)
  BY DEF AskedRight
<1>2. IsSafe(NamedMonth)
  <2> DEFINE a == <<DOMAIN MonthOf, FourDigits>>
  <2>1. IsWay(a)
    BY Zenon, TuplesAreWays
  <2>2. Len(a) = 2 /\ a[1] = DOMAIN MonthOf /\ a[2] = FourDigits
    OBVIOUS
  <2>3. NamedMonth = Pattern("month", <<a>>)
    BY Zenon DEF NamedMonth
  <2> HIDE DEF a
  <2>4. /\ IsPattern(NamedMonth) /\ NamedMonth.reads = "month"
        /\ DOMAIN NamedMonth.ways = 1..1 /\ NamedMonth.ways[1] = a
    BY Zenon, <2>1, <2>3, OneWay
  <2>5. ASSUME NEW words \in Seq(STRING), ~AtTheEdge(words), WordsFit(a, words)
        PROVE  InCalendar(Read("month", words))
    <3>1. words[1] \in DOMAIN MonthOf /\ 2 \in DOMAIN words /\ words[2] \in FourDigits
      BY <2>1, <2>2, <2>5, FittingWord
    <3> QED BY <1>1, <2>5, <3>1, MonthIsKnown
  <2>6. ASSUME NEW words, NEW i \in DOMAIN NamedMonth.ways, WordsFit(NamedMonth.ways[i], words)
        PROVE  WordsFit(a, words)
    <3>1. i = 1
      BY <2>4
    <3> QED BY Zenon, <2>4, <2>6, <3>1
  <2> QED BY <1>1, <2>4, <2>5, <2>6, WordsAreSafe
<1>3. IsSafe(YearOnly)
  <2> DEFINE a == <<{"in", "for", "during", "of"}, FourDigits>>
  <2>1. IsWay(a)
    BY Zenon, TuplesAreWays
  <2>2. Len(a) = 2 /\ a[2] = FourDigits
    OBVIOUS
  <2>3. YearOnly = Pattern("year", <<a>>)
    BY Zenon DEF YearOnly
  <2> HIDE DEF a
  <2>4. /\ IsPattern(YearOnly) /\ YearOnly.reads = "year"
        /\ DOMAIN YearOnly.ways = 1..1 /\ YearOnly.ways[1] = a
    BY Zenon, <2>1, <2>3, OneWay
  <2>5. ASSUME NEW words \in Seq(STRING), ~AtTheEdge(words), WordsFit(a, words)
        PROVE  InCalendar(Read("year", words))
    <3>0. 2 \in 1..Len(a)
      BY <2>2
    <3>1. 2 \in DOMAIN words /\ words[2] \in FourDigits
      BY <2>1, <2>2, <2>5, <3>0, FittingWord
    <3> QED BY <1>1, <2>5, <3>1, YearIsKnown
  <2>6. ASSUME NEW words, NEW i \in DOMAIN YearOnly.ways, WordsFit(YearOnly.ways[i], words)
        PROVE  WordsFit(a, words)
    <3>1. i = 1
      BY <2>4
    <3> QED BY Zenon, <2>4, <2>6, <3>1
  <2> QED BY <1>1, <2>4, <2>5, <2>6, WordsAreSafe
<1> QED BY <1>2, <1>3

\* A window of days before the date.
LEMMA WindowsAreSafe ==
  ASSUME AskedRight
  PROVE  IsSafe(Rolling) /\ IsSafe(PastN)
<1>1. AskedInTime /\ text \in Seq(STRING)
  BY DEF AskedRight
<1> DEFINE units == DOMAIN DaysIn \ {"year", "years"}
<1>2. IsSafe(Rolling)
  <2> DEFINE w == {"rolling", "trailing", "moving"}
             a == <<w, Digits, units>>
             e == {"average", "avg"}
             b == a \o <<e>>
             T == {w, Digits, units, e}
  <2>1. a \in Seq(T) /\ <<e>> \in Seq(T)
    <3> HIDE DEF w, units, e
    <3> QED OBVIOUS
  <2>2. IsWay(b)
    BY Zenon, <2>1, JoinedAreWays
  <2>3. IsWay(a)
    BY Zenon, TuplesAreWays
  <2>4. Len(a) = 3 /\ a[3] = units
    OBVIOUS
  <2>5. Rolling = Pattern("rolling", <<b, a>>)
    BY Zenon DEF Rolling
  <2> HIDE DEF a, e, T, w, units
  <2>6. Len(b) = 4 /\ b[3] = units
    <3>1. Len(<<e>>) = 1 /\ 3 \in 1..Len(a) + 1 /\ 3 <= Len(a)
      BY <2>4
    <3>2. Len(b) = Len(a) + Len(<<e>>) /\ b[3] = a[3]
      BY <2>1, <3>1
    <3> QED BY <2>4, <3>1, <3>2
  <2> HIDE DEF b
  <2>7. /\ IsPattern(Rolling) /\ Rolling.reads = "rolling"
        /\ DOMAIN Rolling.ways = 1..2 /\ Rolling.ways[1] = b /\ Rolling.ways[2] = a
    BY <2>2, <2>3, <2>5, TwoWays
  <2>8. ASSUME NEW words \in Seq(STRING), WordsFit(a, words) \/ WordsFit(b, words)
        PROVE  InCalendar(Read("rolling", words))
    <3>1. words[3] \in units
      BY <2>2, <2>3, <2>4, <2>6, <2>8, FittingWord
    <3>2. words[3] \in DOMAIN DaysIn
      BY Zenon, <3>1 DEF units
    <3> QED BY <1>1, <3>2, WindowIsKnown
  <2>9. ASSUME NEW words, NEW i \in DOMAIN Rolling.ways, WordsFit(Rolling.ways[i], words)
        PROVE  WordsFit(a, words) \/ WordsFit(b, words)
    <3>1. i = 1 \/ i = 2
      BY <2>7
    <3> QED BY Zenon, <2>7, <2>9, <3>1
  <2> QED BY <1>1, <2>7, <2>8, <2>9, WordsAreSafe
<1>3. IsSafe(PastN)
  <2> DEFINE a == <<{"last", "past", "previous", "prior"}, Digits, DOMAIN DaysIn>>
  <2>1. IsWay(a)
    BY Zenon, TuplesAreWays
  <2>2. Len(a) = 3 /\ a[3] = DOMAIN DaysIn
    OBVIOUS
  <2>3. PastN = Pattern("rolling", <<a>>)
    BY Zenon DEF PastN
  <2> HIDE DEF a
  <2>4. /\ IsPattern(PastN) /\ PastN.reads = "rolling"
        /\ DOMAIN PastN.ways = 1..1 /\ PastN.ways[1] = a
    BY Zenon, <2>1, <2>3, OneWay
  <2>5. ASSUME NEW words \in Seq(STRING), WordsFit(a, words)
        PROVE  InCalendar(Read("rolling", words))
    <3>1. words[3] \in DOMAIN DaysIn
      BY <2>1, <2>2, <2>5, FittingWord
    <3> QED BY <1>1, <3>1, WindowIsKnown
  <2>6. ASSUME NEW words, NEW i \in DOMAIN PastN.ways, WordsFit(PastN.ways[i], words)
        PROVE  WordsFit(a, words)
    <3>1. i = 1
      BY <2>4
    <3> QED BY Zenon, <2>4, <2>6, <3>1
  <2> QED BY <1>1, <2>4, <2>5, <2>6, WordsAreSafe
<1> QED BY <1>2, <1>3

\* A finder whose patterns are safe.
IsSafeFinder(patterns) ==
  \E n \in Nat : DOMAIN patterns = 1..n /\ \A i \in 1..n : IsSafe(patterns[i])

\* Every finder is safe.
LEMMA FindersAreSafe ==
  ASSUME AskedRight
  PROVE  Len(Finders) = 10 /\ \A k \in 1..10 : IsSafeFinder(Finders[k])
<1>1. ASSUME NEW a, IsSafe(a) PROVE IsSafeFinder(<<a>>)
  <2>1. DOMAIN <<a>> = 1..1 /\ <<a>>[1] = a /\ 1 \in Nat /\ \A i \in 1..1 : i = 1
    OBVIOUS
  <2> QED BY <1>1, <2>1 DEF IsSafeFinder
<1>2. ASSUME NEW a, NEW b, IsSafe(a), IsSafe(b) PROVE IsSafeFinder(<<a, b>>)
  <2> DEFINE s == <<a, b>>
  <2>1. DOMAIN s = 1..2 /\ s[1] = a /\ s[2] = b /\ 2 \in Nat /\ \A i \in 1..2 : i = 1 \/ i = 2
    OBVIOUS
  <2> HIDE DEF s
  <2>2. \A i \in 1..2 : IsSafe(s[i])
    BY <1>2, <2>1
  <2>3. IsSafeFinder(s)
    BY <2>1, <2>2 DEF IsSafeFinder
  <2> QED BY <2>3 DEF s
<1>3. /\ IsSafeFinder(<<YoY>>) /\ IsSafeFinder(<<FiscalQuarter>>)
      /\ IsSafeFinder(<<Quarter, RelativeQuarter>>) /\ IsSafeFinder(<<NamedMonth, RelativeMonth>>)
      /\ IsSafeFinder(<<YearOnly, RelativeYear>>) /\ IsSafeFinder(<<TodayWord, Yesterday>>)
      /\ IsSafeFinder(<<RelativeWeek>>) /\ IsSafeFinder(<<Rolling>>) /\ IsSafeFinder(<<PastN>>)
      /\ IsSafeFinder(<<YearToDate, MonthToDate>>)
  BY Zenon, <1>1, <1>2, YoYIsSafe, RelativesAreSafe, QuartersAreSafe, NamedAreSafe, WindowsAreSafe
<1>4. /\ Len(Finders) = 10
      /\ Finders[1] = <<YoY>> /\ Finders[2] = <<FiscalQuarter>>
      /\ Finders[3] = <<Quarter, RelativeQuarter>> /\ Finders[4] = <<NamedMonth, RelativeMonth>>
      /\ Finders[5] = <<YearOnly, RelativeYear>> /\ Finders[6] = <<TodayWord, Yesterday>>
      /\ Finders[7] = <<RelativeWeek>> /\ Finders[8] = <<Rolling>> /\ Finders[9] = <<PastN>>
      /\ Finders[10] = <<YearToDate, MonthToDate>>
  BY DEF Finders
<1>5. \A k \in 1..10 : \/ k = 1 \/ k = 2 \/ k = 3 \/ k = 4 \/ k = 5
                       \/ k = 6 \/ k = 7 \/ k = 8 \/ k = 9 \/ k = 10
  OBVIOUS
<1>6. \A k \in 1..10 : IsSafeFinder(Finders[k])
  BY Zenon, <1>3, <1>4, <1>5
<1> QED BY <1>4, <1>6

\* A safe finder raises at the edge only.
LEMMA SafeFindersRaise ==
  ASSUME AskedRight, NEW patterns, IsSafeFinder(patterns), Raises(Found(patterns))
  PROVE  AtTheEdge(text)
<1> SUFFICES ASSUME ~AtTheEdge(text) PROVE FALSE
  OBVIOUS
<1>1. PICK n \in Nat : DOMAIN patterns = 1..n /\ \A i \in 1..n : IsSafe(patterns[i])
  BY Zenon DEF IsSafeFinder
<1> DEFINE C == UNION {Yield(patterns[i]) : i \in 1..n}
           found == Found(patterns)
<1>2. found \in Seq(C)
  <2>1. Len(text) \in Nat
    BY DEF AskedRight
  <2>2. \A i \in 1..n : IsPattern(patterns[i])
    BY <1>1 DEF IsSafe
  <2> QED BY <1>1, <2>1, <2>2, FoundAreCandidates
<1> HIDE DEF found
<1>3. ASSUME NEW c \in C
      PROVE  InCalendar(c.range) /\ (c.reads = "year_over_year" => InCalendar(c.comparison))
  <2>1. PICK i \in 1..n : c \in Yield(patterns[i])
    OBVIOUS
  <2> DEFINE p == patterns[i]
  <2>2. PICK m \in Fitting(p.ways) : c = Candidate(p.reads, m)
    BY <2>1 DEF Yield
  <2>3. /\ c.range = Read(p.reads, SubSeq(text, m.at, m.to - 1))
        /\ c.reads = p.reads /\ c.comparison = Comparison(p.reads)
    BY <2>2 DEF Candidate
  <2>4. IsSafe(p)
    BY <1>1
  <2> HIDE DEF p
  <2>5. c.reads = "year_over_year" => c.comparison = Months(now.year - 1, 0, 12)
    BY <2>3 DEF Comparison
  <2>6. InCalendar(Months(now.year - 1, 0, 12))
    BY YearBeforeIsKnown DEF AskedRight
  <2> QED BY <2>3, <2>4, <2>5, <2>6 DEF IsSafe
<1> HIDE DEF C
<1>4. PICK i \in DOMAIN found : ~(DaysOf(found[i]) \subseteq 1..LastDay)
  BY Zenon DEF Raises, found
<1>5. found[i] \in C
  BY <1>2
<1>6. /\ InCalendar(found[i].range)
      /\ found[i].reads = "year_over_year" => InCalendar(found[i].comparison)
  BY <1>3, <1>5
<1> QED BY <1>4, <1>6 DEF InCalendar, KnownDays, DaysOf

\* What was asked, and that a failure is explained.
RaiseInv == Settings /\ finder \in Nat /\ text \in Seq(STRING) /\ RaisesOnlyAtTheEdge

\* Whatever year or window a question names, it fails on a date only if it names the
\* year 0 or 9999 or a fiscal quarter of year 1, as long as it is asked in the years
\* 1000 to 9998 (parser.py:150-280, fiscal.py:47-73).
THEOREM FailsAtTheEdgeOnly == ParserSpec => []RaisesOnlyAtTheEdge
<1>1. ParserInit => RaiseInv
  <2>1. << >> \in Seq(STRING)
    OBVIOUS
  <2> QED BY <2>1 DEF ParserInit, RaiseInv, Settings, RaisesOnlyAtTheEdge
<1>2. RaiseInv /\ [ParserNext]_parserVars => RaiseInv'
  <2> SUFFICES ASSUME RaiseInv, [ParserNext]_parserVars PROVE RaiseInv'
    OBVIOUS
  <2>1. Settings' /\ now' = now /\ fiscal' = fiscal
    BY DEF RaiseInv, Settings, ParserNext, parserVars, Parse, Find, FindersDone, Consider, Answer
  <2>2. CASE Parse
    <3>1. text' \in Seq(STRING) /\ phase' = "finding" /\ finder' = finder /\ finder \in Nat
      BY <2>2, ParserAssumption DEF Parse, RaiseInv
    <3> QED BY <2>1, <3>1 DEF RaiseInv, RaisesOnlyAtTheEdge
  <2>3. CASE Find
    <3>1. text' = text /\ text \in Seq(STRING) /\ finder \in Nat /\ finder' = finder + 1
      BY <2>3 DEF Find, RaiseInv
    <3>2. CASE AskedInTime /\ Raises(Found(Finders[finder + 1]))
      <4>1. AskedRight
        BY <3>1, <3>2 DEF AskedRight
      <4>2. finder + 1 \in 1..10
        <5>1. finder < Len(Finders) /\ Len(Finders) = 10
          BY <2>3, <4>1, FindersAreSafe DEF Find
        <5> QED BY <3>1, <5>1
      <4>3. AtTheEdge(text)
        BY <3>2, <4>1, <4>2, FindersAreSafe, SafeFindersRaise
      <4>4. RaisesOnlyAtTheEdge'
        BY <3>1, <4>3 DEF AtTheEdge, RaisesOnlyAtTheEdge
      <4> QED BY <2>1, <3>1, <4>4 DEF RaiseInv
    <3>3. CASE ~AskedInTime
      <4>1. now.year \notin AskedYears
        BY <3>3 DEF AskedInTime, RaiseInv, Settings
      <4>2. RaisesOnlyAtTheEdge'
        BY <2>1, <4>1 DEF RaisesOnlyAtTheEdge
      <4> QED BY <2>1, <3>1, <4>2 DEF RaiseInv
    <3>4. CASE ~Raises(Found(Finders[finder + 1]))
      <4>1. phase' = "finding"
        BY Zenon, <2>3, <3>4 DEF Find
      <4> QED BY <2>1, <3>1, <4>1 DEF RaiseInv, RaisesOnlyAtTheEdge
    <3> QED BY <3>2, <3>3, <3>4
  <2>4. CASE FindersDone \/ Consider \/ Answer
    <3>1. text' = text /\ text \in Seq(STRING) /\ finder' = finder /\ finder \in Nat
          /\ (phase' = phase \/ phase' # "raised")
      BY <2>4 DEF FindersDone, Consider, Answer, RaiseInv
    <3> QED BY Zenon, <2>1, <3>1 DEF RaiseInv, RaisesOnlyAtTheEdge, AtTheEdge
  <2>5. CASE UNCHANGED parserVars
    <3>1. text' = text /\ finder' = finder /\ phase' = phase
      BY <2>5 DEF parserVars
    <3> QED BY Zenon, <2>1, <3>1 DEF RaiseInv, RaisesOnlyAtTheEdge, AtTheEdge
  <2> QED BY <2>2, <2>3, <2>4, <2>5 DEF ParserNext
<1>3. RaiseInv => RaisesOnlyAtTheEdge
  BY DEF RaiseInv
<1> QED BY <1>1, <1>2, <1>3, PTL DEF ParserSpec

(***************************************************************************)
(* Choosing among the matches.                                             *)
(***************************************************************************)

\* Two matches overlap each other.
LEMMA OverlapsIsSymmetric ==
  ASSUME NEW a, NEW b
  PROVE  Overlaps(a, b) <=> Overlaps(b, a)
  BY DEF Overlaps

\* What the choice knows: it is about the matches considered so far, and nothing
\* has been chosen before the finders are done.
ParserInv ==
  /\ ReadOnce
  /\ considered \in Nat /\ chosen \subseteq 1..considered
  /\ phase \in {"idle", "finding"} => considered = 0

\* Before anything is chosen.
LEMMA InitParserInv == ParserInit => ParserInv
<1> SUFFICES ASSUME ParserInit PROVE ParserInv
  OBVIOUS
<1>1. considered = 0 /\ chosen = {} /\ 1..considered = {}
  BY DEF ParserInit
<1> QED BY <1>1 DEF ParserInv, ReadOnce

\* While matches are still being found, nothing has been chosen.
LEMMA NothingChosenYet ==
  ASSUME ParserInv, phase \in {"idle", "finding"}, UNCHANGED <<considered, chosen>>
  PROVE  ParserInv'
<1>1. considered = 0 /\ chosen = {} /\ 1..considered = {}
  BY DEF ParserInv
<1>2. considered' = 0 /\ chosen' = {} /\ 1..(considered') = {}
  BY <1>1
<1> QED BY <1>2 DEF ParserInv, ReadOnce

\* The next match is taken exactly when it overlaps none taken before.
LEMMA ConsiderKeepsParserInv ==
  ASSUME ParserInv, Consider
  PROVE  ParserInv'
<1> DEFINE n == considered + 1
<1>1. /\ considered \in Nat /\ n \in Nat /\ considered' = n /\ UNCHANGED candidates
      /\ phase = "choosing" /\ phase' = "choosing"
  BY DEF ParserInv, Consider
<1>2. chosen \subseteq 1..considered /\ chosen \subseteq chosen'
  BY DEF ParserInv, Consider
<1>3. chosen' \subseteq 1..n
  BY <1>1, <1>2 DEF Consider
<1>4. CASE \E c \in chosen : Overlaps(candidates[n], candidates[c])
  <2>1. chosen' = chosen
    BY <1>4 DEF Consider
  <2>2. ASSUME NEW i \in 1..n
        PROVE  i \in chosen' \/ \E c \in chosen' : c < i /\ Overlaps(candidates[i], candidates[c])
    <3>1. CASE i = n   BY <1>1, <1>2, <1>4, <2>1, <3>1
    <3>2. CASE i # n   BY <1>1, <2>1, <3>2 DEF ParserInv, ReadOnce
    <3> QED BY <3>1, <3>2
  <2> QED BY <1>1, <1>3, <2>1, <2>2 DEF ParserInv, ReadOnce
<1>5. CASE ~\E c \in chosen : Overlaps(candidates[n], candidates[c])
  <2>1. chosen' = chosen \cup {n}
    BY <1>5 DEF Consider
  <2>2. ASSUME NEW a \in chosen', NEW b \in chosen', a # b
        PROVE  ~Overlaps(candidates[a], candidates[b])
    <3>1. CASE a \in chosen /\ b \in chosen   BY <3>1, <2>2 DEF ParserInv, ReadOnce
    <3>2. CASE a = n /\ b \in chosen          BY <3>2, <1>5
    <3>3. CASE a \in chosen /\ b = n          BY <3>3, <1>5, OverlapsIsSymmetric
    <3> QED BY <2>1, <2>2, <3>1, <3>2, <3>3
  <2>3. ASSUME NEW i \in 1..n
        PROVE  i \in chosen' \/ \E c \in chosen' : c < i /\ Overlaps(candidates[i], candidates[c])
    <3>1. CASE i = n   BY <2>1, <3>1
    <3>2. CASE i # n   BY <1>1, <2>1, <3>2 DEF ParserInv, ReadOnce
    <3> QED BY <3>1, <3>2
  <2> QED BY <1>1, <1>3, <2>2, <2>3 DEF ParserInv, ReadOnce
<1> QED BY <1>4, <1>5

\* Every step keeps it.
LEMMA ParserStays ==
  ASSUME ParserInv, [ParserNext]_parserVars
  PROVE  ParserInv'
<1>1. CASE Parse \/ Find \/ FindersDone
  BY <1>1, NothingChosenYet DEF Parse, Find, FindersDone
<1>2. CASE Consider
  BY <1>2, ConsiderKeepsParserInv
<1>3. CASE Answer \/ UNCHANGED parserVars
  <2>1. UNCHANGED <<considered, chosen, candidates>> /\ (phase' = phase \/ phase' = "answered")
    BY <1>3 DEF Answer, parserVars
  <2> QED BY <2>1 DEF ParserInv, ReadOnce
<1> QED BY <1>1, <1>2, <1>3 DEF ParserNext

\* No word of a question is read twice, and nothing is dropped but what overlaps
\* a match found before it: for every question and whatever the finders find
\* (parser.py:98-104).
THEOREM NoWordIsReadTwice == ParserSpec => []ReadOnce
<1>1. ParserInv /\ [ParserNext]_parserVars => ParserInv'
  BY ParserStays
<1>2. ParserInv => ReadOnce
  BY DEF ParserInv
<1> QED BY <1>1, <1>2, InitParserInv, PTL DEF ParserSpec

(***************************************************************************)
(* Which phrases are parts of others.                                      *)
(***************************************************************************)

\* The words some of the phrases begin or go on with.
RollingWords == {"rolling", "trailing", "moving"}
PastWords == {"last", "past", "previous", "prior"}
PeriodWords == {"quarter", "month", "year", "week"}
MonthWords == DOMAIN MonthOf
UnitWords == DOMAIN DaysIn

\* The words a phrase of one word, of up to two and of up to three words begins with.
Starts1 == QuarterWords \cup {"yoy", "today", "yesterday", "ytd", "mtd"}
Starts2 == Starts1 \cup ThisOrLast \cup MonthWords \cup {"fiscal", "in", "for", "during", "of"}
Starts3 == Starts2 \cup Against \cup RollingWords \cup PastWords \cup {"fy", "year", "month"}
Starts(n) == IF n = 1 THEN Starts1 ELSE IF n = 2 THEN Starts2 ELSE Starts3

\* The months and the units, word by word.
LEMMA MonthsAndUnits ==
  /\ MonthWords = {"january", "jan", "february", "feb", "march", "mar", "april", "apr", "may",
       "june", "jun", "july", "jul", "august", "aug", "september", "sep", "sept", "october", "oct",
       "november", "nov", "december", "dec"}
  /\ UnitWords = {"day", "days", "week", "weeks", "month", "months", "quarter", "quarters", "year",
       "years"}
<1>1. MonthWords = {"january", "jan", "february", "feb", "march", "mar", "april", "apr", "may",
       "june", "jun", "july", "jul", "august", "aug", "september", "sep", "sept", "october", "oct",
       "november", "nov", "december", "dec"}
  BY DEF MonthWords, MonthOf
<1>2. UnitWords = {"day", "days", "week", "weeks", "month", "months", "quarter", "quarters", "year",
       "years"}
  BY DEF UnitWords, DaysIn
<1> QED BY <1>1, <1>2

\* The quarters, word by word.
LEMMA FourQuarterWords == QuarterWords = {"q1", "q2", "q3", "q4"}
<1> DEFINE s == <<"q1", "q2", "q3", "q4">>
<1>1. DOMAIN s = 1..4 /\ s[1] = "q1" /\ s[2] = "q2" /\ s[3] = "q3" /\ s[4] = "q4"
  OBVIOUS
<1>2. QuarterWords = {s[i] : i \in DOMAIN s}
  BY Zenon DEF QuarterWords, QuarterWord, ToSet
<1> HIDE DEF s
<1>3. \A i \in 1..4 : i = 1 \/ i = 2 \/ i = 3 \/ i = 4
  OBVIOUS
<1> QED BY <1>1, <1>2, <1>3

\* Phrases of more words begin with more.
LEMMA MoreStarts == Starts1 \subseteq Starts2 /\ Starts2 \subseteq Starts3
  BY Zenon DEF Starts2, Starts3

\* No phrase of one word begins with a word of a relative period, ...
LEMMA ApartFromOne ==
  /\ Starts1 \cap ThisOrLast = {} /\ Starts1 \cap MonthWords = {} /\ Starts1 \cap UnitWords = {}
  /\ Starts1 \cap RollingWords = {} /\ Starts1 \cap PastWords = {} /\ Starts1 \cap PeriodWords = {}
  /\ Starts1 \cap {"in", "for", "during", "of"} = {} /\ Starts1 \cap {"average", "avg"} = {}
  /\ Starts1 \cap {"year", "month", "date", "to"} = {}
  BY MonthsAndUnits, FourQuarterWords DEF Starts1, ThisOrLast, Back, RollingWords, PastWords, PeriodWords

\* ... none of two with a unit of time, ...
LEMMA ApartFromTwo ==
  /\ Starts2 \cap UnitWords = {} /\ Starts2 \cap RollingWords = {}
  /\ Starts2 \cap {"year", "month", "date", "to"} = {}
  BY MonthsAndUnits, FourQuarterWords DEF Starts2, Starts1, ThisOrLast, Back, RollingWords

\* ... and no number begins or ends one of them.
LEMMA ApartFromNumbers ==
  ASSUME NEW w \in FourDigits \cup Digits
  PROVE  w \notin Starts3 /\ w \notin Starts2 /\ w \notin Starts1 /\ w \notin PeriodWords
<1>1. w \notin SpelledOut
  BY NumbersAssumption
<1>2. Starts3 \subseteq SpelledOut
  <2>1. MonthWords \subseteq SpelledOut /\ QuarterWords \subseteq SpelledOut
        /\ ThisOrLast \subseteq SpelledOut /\ Against \subseteq SpelledOut
    BY Zenon DEF SpelledOut, MonthWords
  <2>2. "year" \in SpelledOut /\ "month" \in SpelledOut /\ "fy" \in SpelledOut
    BY MonthsAndUnits DEF SpelledOut, UnitWords
  <2>3. {"yoy", "today", "yesterday", "ytd", "mtd"} \subseteq SpelledOut
        /\ {"fiscal", "in", "for", "during", "of"} \subseteq SpelledOut
    BY DEF SpelledOut
  <2>4. RollingWords \subseteq SpelledOut
    BY DEF SpelledOut, RollingWords
  <2>5. PastWords \subseteq SpelledOut
    BY DEF SpelledOut, PastWords, ThisOrLast, Back
  <2> HIDE DEF SpelledOut
  <2>6. Starts1 \subseteq SpelledOut
    BY <2>1, <2>3 DEF Starts1
  <2>7. Starts2 \subseteq SpelledOut
    BY <2>1, <2>3, <2>6 DEF Starts2
  <2> QED BY <2>1, <2>2, <2>4, <2>5, <2>7 DEF Starts3
<1>3. PeriodWords \subseteq SpelledOut
  BY MonthsAndUnits DEF SpelledOut, UnitWords, PeriodWords
<1> QED BY <1>1, <1>2, <1>3, MoreStarts

\* How a phrase of a pattern begins: with a word no longer phrase is needed to begin
\* with; and it can begin as a longer phrase of another pattern does only where it
\* goes on with other words.
Begins(reads, way) ==
  /\ IsWay(way) /\ Len(way) >= 1
  /\ Len(way) <= 3 => way[1] \subseteq Starts(Len(way))
  /\ Len(way) = 1 /\ way[1] \cap QuarterWords # {} => reads = "quarter"
  /\ Len(way) = 2 /\ way[1] \cap PastWords # {} => way[2] \subseteq PeriodWords
  /\ Len(way) <= 3 /\ way[1] \cap RollingWords # {} => reads = "rolling"

\* No phrase that would fit begins inside, ...
NoneInside(way) == \A k \in 2..Len(way) : way[k] \cap Starts(Len(way) - k + 1) = {}

\* ... and none that is shorter begins with it, or it is told apart from those by its
\* pattern or its second word.
NoneBefore(reads, way) ==
  \/ Len(way) = 1
  \/ way[1] \cap Starts(Len(way) - 1) = {}
  \/ Len(way) = 2 /\ reads = "quarter" /\ way[1] \subseteq QuarterWords
  \/ Len(way) = 3 /\ way[1] \subseteq PastWords /\ way[2] \subseteq Digits
  \/ Len(way) = 4 /\ reads = "rolling" /\ way[1] \subseteq RollingWords

\* A phrase with no shorter one in it but of its own pattern.
Plain(reads, way) == Len(way) <= 4 /\ NoneInside(way) /\ NoneBefore(reads, way)

\* One word, ...
LEMMA OneWord ==
  ASSUME NEW reads, NEW a \in SUBSET Starts1, a \cap QuarterWords # {} => reads = "quarter"
  PROVE  Begins(reads, <<a>>) /\ Plain(reads, <<a>>)
<1> DEFINE w == <<a>>
<1>1. IsWay(w) /\ Len(w) = 1 /\ w[1] = a
  BY TuplesAreWays
<1> HIDE DEF w
<1>2. a \cap RollingWords = {}
  BY ApartFromOne
<1>3. Begins(reads, w)
  BY <1>1, <1>2 DEF Begins, Starts
<1>4. Plain(reads, w)
  BY <1>1 DEF Plain, NoneInside, NoneBefore
<1> QED BY <1>3, <1>4 DEF w

\* ... two, ...
LEMMA TwoWords ==
  ASSUME NEW reads, NEW a \in SUBSET Starts2, NEW b,
         a \cap PastWords # {} => b \subseteq PeriodWords
  PROVE  /\ Begins(reads, <<a, b>>)
         /\ /\ b \cap Starts1 = {}
            /\ a \cap Starts1 = {} \/ (reads = "quarter" /\ a \subseteq QuarterWords)
            => Plain(reads, <<a, b>>)
<1> DEFINE w == <<a, b>>
<1>1. IsWay(w) /\ Len(w) = 2 /\ w[1] = a /\ w[2] = b
  BY TuplesAreWays
<1> HIDE DEF w
<1>2. a \cap RollingWords = {}
  BY ApartFromTwo
<1>3. Begins(reads, w)
  BY <1>1, <1>2 DEF Begins, Starts
<1>4. ASSUME b \cap Starts1 = {},
             a \cap Starts1 = {} \/ (reads = "quarter" /\ a \subseteq QuarterWords)
      PROVE  Plain(reads, w)
  <2>1. NoneInside(w)
    <3>1. \A k \in 2..2 : k = 2 /\ 2 - k + 1 = 1
      OBVIOUS
    <3> QED BY <1>1, <1>4, <3>1 DEF NoneInside, Starts
  <2>2. NoneBefore(reads, w)
    BY <1>1, <1>4 DEF NoneBefore, Starts
  <2> QED BY <1>1, <2>1, <2>2 DEF Plain
<1> QED BY <1>3, <1>4 DEF w

\* ... three, ...
LEMMA ThreeWords ==
  ASSUME NEW reads, NEW a \in SUBSET Starts3, NEW b, NEW c,
         a \cap RollingWords # {} => reads = "rolling"
  PROVE  /\ Begins(reads, <<a, b, c>>)
         /\ /\ b \cap Starts2 = {} /\ c \cap Starts1 = {}
            /\ a \cap Starts2 = {} \/ (a \subseteq PastWords /\ b \subseteq Digits)
            => Plain(reads, <<a, b, c>>)
<1> DEFINE w == <<a, b, c>>
<1>1. IsWay(w) /\ Len(w) = 3 /\ w[1] = a /\ w[2] = b /\ w[3] = c
  BY TuplesAreWays
<1> HIDE DEF w
<1>2. Begins(reads, w)
  BY <1>1 DEF Begins, Starts
<1>3. ASSUME b \cap Starts2 = {}, c \cap Starts1 = {},
             a \cap Starts2 = {} \/ (a \subseteq PastWords /\ b \subseteq Digits)
      PROVE  Plain(reads, w)
  <2>1. NoneInside(w)
    <3>1. \A k \in 2..3 : (k = 2 /\ 3 - k + 1 = 2) \/ (k = 3 /\ 3 - k + 1 = 1)
      OBVIOUS
    <3> QED BY <1>1, <1>3, <3>1 DEF NoneInside, Starts
  <2>2. NoneBefore(reads, w)
    BY <1>1, <1>3 DEF NoneBefore, Starts
  <2> QED BY <1>1, <2>1, <2>2 DEF Plain
<1> QED BY <1>2, <1>3 DEF w

\* ... and four.
LEMMA FourWords ==
  ASSUME NEW reads, NEW a, NEW b, NEW c, NEW d
  PROVE  /\ Begins(reads, <<a, b, c, d>>)
         /\ /\ b \cap Starts3 = {} /\ c \cap Starts2 = {} /\ d \cap Starts1 = {}
            /\ reads = "rolling" /\ a \subseteq RollingWords
            => Plain(reads, <<a, b, c, d>>)
<1> DEFINE w == <<a, b, c, d>>
<1>1. IsWay(w) /\ Len(w) = 4 /\ w[1] = a /\ w[2] = b /\ w[3] = c /\ w[4] = d
  BY TuplesAreWays
<1> HIDE DEF w
<1>2. Begins(reads, w)
  BY <1>1 DEF Begins
<1>3. ASSUME b \cap Starts3 = {}, c \cap Starts2 = {}, d \cap Starts1 = {},
             reads = "rolling", a \subseteq RollingWords
      PROVE  Plain(reads, w)
  <2>1. NoneInside(w)
    <3>1. \A k \in 2..4 : \/ k = 2 /\ 4 - k + 1 = 3
                          \/ k = 3 /\ 4 - k + 1 = 2
                          \/ k = 4 /\ 4 - k + 1 = 1
      OBVIOUS
    <3> QED BY <1>1, <1>3, <3>1 DEF NoneInside, Starts
  <2>2. NoneBefore(reads, w)
    BY <1>1, <1>3 DEF NoneBefore
  <2> QED BY <1>1, <2>1, <2>2 DEF Plain
<1> QED BY <1>2, <1>3 DEF w

\* What is told of a pattern: how its phrases begin, and that they have no shorter
\* phrase in them.
Told(pattern, reads) ==
  /\ IsPattern(pattern) /\ pattern.reads = reads
  /\ \A i \in DOMAIN pattern.ways :
       Begins(reads, pattern.ways[i]) /\ Plain(reads, pattern.ways[i])

\* A pattern of one phrase.
LEMMA ToldOfOne ==
  ASSUME NEW reads, NEW a, Begins(reads, a), Plain(reads, a)
  PROVE  Told(Pattern(reads, <<a>>), reads)
<1> DEFINE p == Pattern(reads, <<a>>)
<1>1. IsWay(a)
  BY DEF Begins
<1>2. IsPattern(p) /\ p.reads = reads /\ DOMAIN p.ways = 1..1 /\ p.ways[1] = a
  BY Zenon, <1>1, OneWay
<1>3. \A i \in 1..1 : i = 1
  OBVIOUS
<1> HIDE DEF p
<1>4. Told(p, reads)
  BY Zenon, <1>2, <1>3 DEF Told
<1> QED BY <1>4 DEF p

\* A pattern of two.
LEMMA ToldOfTwo ==
  ASSUME NEW reads, NEW a, NEW b, Begins(reads, a), Plain(reads, a), Begins(reads, b),
         Plain(reads, b)
  PROVE  Told(Pattern(reads, <<a, b>>), reads)
<1> DEFINE p == Pattern(reads, <<a, b>>)
<1>1. IsWay(a) /\ IsWay(b)
  BY DEF Begins
<1>2. /\ IsPattern(p) /\ p.reads = reads /\ DOMAIN p.ways = 1..2
      /\ p.ways[1] = a /\ p.ways[2] = b
  BY <1>1, TwoWays
<1>3. \A i \in 1..2 : i = 1 \/ i = 2
  OBVIOUS
<1> HIDE DEF p
<1>4. Told(p, reads)
  BY Zenon, <1>2, <1>3 DEF Told
<1> QED BY <1>4 DEF p

\* The current or the last of some period.
LEMMA RelativeIsTold ==
  ASSUME NEW reads, NEW u \in PeriodWords
  PROVE  Told(Pattern(reads, << <<ThisOrLast, {u}>> >>), reads)
<1> DEFINE b == {u}
<1>1. ThisOrLast \in SUBSET Starts2 /\ ThisOrLast \cap Starts1 = {}
  BY ApartFromOne DEF Starts2
<1>2. b \subseteq PeriodWords /\ b \cap Starts1 = {}
  BY ApartFromOne
<1> HIDE DEF b
<1>3. Begins(reads, <<ThisOrLast, b>>) /\ Plain(reads, <<ThisOrLast, b>>)
  BY <1>1, <1>2, TwoWords
<1>4. Told(Pattern(reads, << <<ThisOrLast, b>> >>), reads)
  BY <1>3, ToldOfOne
<1> QED BY <1>4 DEF b

\* A single word.
LEMMA WordIsTold ==
  ASSUME NEW reads, NEW u \in {"today", "yesterday", "ytd", "mtd"}
  PROVE  Begins(reads, <<{u}>>) /\ Plain(reads, <<{u}>>)
<1> DEFINE a == {u}
<1>1. a \in SUBSET Starts1
  BY DEF Starts1
<1>2. a \cap QuarterWords = {}
  BY FourQuarterWords
<1> HIDE DEF a
<1>3. Begins(reads, <<a>>) /\ Plain(reads, <<a>>)
  BY <1>1, <1>2, OneWord
<1> QED BY <1>3 DEF a

\* A number begins none of the shorter phrases.
LEMMA NumbersApart ==
  /\ FourDigits \cap Starts1 = {}
  /\ Digits \cap Starts1 = {} /\ Digits \cap Starts2 = {} /\ Digits \cap Starts3 = {}
  BY Zenon, ApartFromNumbers

\* The periods relative to today.
LEMMA RelativesAreTold ==
  /\ Told(RelativeQuarter, "relative_quarter") /\ Told(RelativeMonth, "relative_month")
  /\ Told(RelativeYear, "relative_year") /\ Told(RelativeWeek, "relative_week")
  /\ Told(TodayWord, "today") /\ Told(Yesterday, "yesterday")
<1>1. "quarter" \in PeriodWords /\ "month" \in PeriodWords /\ "year" \in PeriodWords /\ "week" \in PeriodWords
  BY DEF PeriodWords
<1>2. /\ Told(RelativeQuarter, "relative_quarter") /\ Told(RelativeMonth, "relative_month")
      /\ Told(RelativeYear, "relative_year") /\ Told(RelativeWeek, "relative_week")
  BY Zenon, <1>1, RelativeIsTold DEF RelativeQuarter, RelativeMonth, RelativeYear, RelativeWeek
<1>3. Told(TodayWord, "today")
  <2>1. \A r : Begins(r, <<{"today"}>>) /\ Plain(r, <<{"today"}>>)
    BY WordIsTold
  <2> QED BY Zenon, <2>1, ToldOfOne DEF TodayWord
<1>4. Told(Yesterday, "yesterday")
  <2>1. \A r : Begins(r, <<{"yesterday"}>>) /\ Plain(r, <<{"yesterday"}>>)
    BY WordIsTold
  <2> QED BY Zenon, <2>1, ToldOfOne DEF Yesterday
<1> QED BY <1>2, <1>3, <1>4

\* A calendar quarter, a month or a year that is named.
LEMMA NamedAreTold ==
  Told(Quarter, "quarter") /\ Told(NamedMonth, "month") /\ Told(YearOnly, "year")
<1>1. Told(Quarter, "quarter")
  <2>1. QuarterWords \in SUBSET Starts1 /\ QuarterWords \in SUBSET Starts2
    BY MoreStarts DEF Starts1
  <2>2. QuarterWords \cap PastWords = {}
    BY ApartFromOne, <2>1
  <2>3. /\ Begins("quarter", <<QuarterWords, FourDigits>>)
        /\ Plain("quarter", <<QuarterWords, FourDigits>>)
    BY <2>1, <2>2, NumbersApart, TwoWords
  <2>4. Begins("quarter", <<QuarterWords>>) /\ Plain("quarter", <<QuarterWords>>)
    BY <2>1, OneWord
  <2> QED BY Zenon, <2>3, <2>4, ToldOfTwo DEF Quarter
<1>2. Told(NamedMonth, "month")
  <2> DEFINE M == DOMAIN MonthOf
  <2>1. M \in SUBSET Starts2 /\ M \cap Starts1 = {}
    BY ApartFromOne DEF Starts2, MonthWords
  <2>2. M \cap PastWords = {}
    BY MonthsAndUnits DEF MonthWords, PastWords
  <2>3. NamedMonth = Pattern("month", << <<M, FourDigits>> >>)
    BY Zenon DEF NamedMonth
  <2> HIDE DEF M
  <2>4. Begins("month", <<M, FourDigits>>) /\ Plain("month", <<M, FourDigits>>)
    BY <2>1, <2>2, NumbersApart, TwoWords
  <2> QED BY Zenon, <2>3, <2>4, ToldOfOne
<1>3. Told(YearOnly, "year")
  <2> DEFINE M == {"in", "for", "during", "of"}
  <2>1. M \in SUBSET Starts2 /\ M \cap Starts1 = {}
    BY ApartFromOne DEF Starts2
  <2>2. M \cap PastWords = {}
    BY DEF PastWords
  <2>3. YearOnly = Pattern("year", << <<M, FourDigits>> >>)
    BY Zenon DEF YearOnly
  <2> HIDE DEF M
  <2>4. Begins("year", <<M, FourDigits>>) /\ Plain("year", <<M, FourDigits>>)
    BY <2>1, <2>2, NumbersApart, TwoWords
  <2> QED BY Zenon, <2>3, <2>4, ToldOfOne
<1> QED BY <1>1, <1>2, <1>3

\* The periods up to today.
LEMMA ToDateAreTold ==
  Told(YearToDate, "year_to_date") /\ Told(MonthToDate, "month_to_date")
<1>1. ASSUME NEW reads, NEW u \in {"year", "month"}
      PROVE  Begins(reads, <<{u}, {"to"}, {"date"}>>) /\ Plain(reads, <<{u}, {"to"}, {"date"}>>)
  <2> DEFINE a == {u}
             b == {"to"}
             c == {"date"}
  <2>1. a \in SUBSET Starts3 /\ a \cap Starts2 = {} /\ a \cap RollingWords = {}
    BY ApartFromTwo DEF Starts3, RollingWords
  <2>2. b \cap Starts2 = {} /\ c \cap Starts1 = {}
    BY ApartFromTwo, ApartFromOne
  <2> HIDE DEF a, b, c
  <2>3. Begins(reads, <<a, b, c>>) /\ Plain(reads, <<a, b, c>>)
    BY <2>1, <2>2, ThreeWords
  <2> QED BY <2>3 DEF a, b, c
<1>2. Told(YearToDate, "year_to_date")
  <2>1. \A r : Begins(r, <<{"ytd"}>>) /\ Plain(r, <<{"ytd"}>>)
    BY WordIsTold
  <2>2. \A r : Begins(r, <<{"year"}, {"to"}, {"date"}>>) /\ Plain(r, <<{"year"}, {"to"}, {"date"}>>)
    BY <1>1
  <2> QED BY Zenon, <2>1, <2>2, ToldOfTwo DEF YearToDate, ToDate
<1>3. Told(MonthToDate, "month_to_date")
  <2>1. \A r : Begins(r, <<{"mtd"}>>) /\ Plain(r, <<{"mtd"}>>)
    BY WordIsTold
  <2>2. \A r : Begins(r, <<{"month"}, {"to"}, {"date"}>>) /\ Plain(r, <<{"month"}, {"to"}, {"date"}>>)
    BY <1>1
  <2> QED BY Zenon, <2>1, <2>2, ToldOfTwo DEF MonthToDate, ToDate
<1> QED BY <1>2, <1>3

\* Every phrase of a pattern begins with one of some words.
AllBeginIn(pattern, first) == \A i \in DOMAIN pattern.ways : pattern.ways[i][1] \subseteq first

\* A word more.
LEMMA AWordMore ==
  ASSUME NEW T, NEW w \in T, NEW d \in T, NEW u \in T, NEW e \in T
  PROVE  <<w, d, u>> \o <<e>> = <<w, d, u, e>>
<1> DEFINE a == <<w, d, u>>
           o == <<e>>
           b == a \o o
           c == <<w, d, u, e>>
<1>1. a \in Seq(T) /\ o \in Seq(T) /\ c \in Seq(T)
  OBVIOUS
<1>2. Len(a) = 3 /\ Len(o) = 1 /\ Len(c) = 4
  OBVIOUS
<1>3. a[1] = w /\ a[2] = d /\ a[3] = u /\ o[1] = e /\ c[1] = w /\ c[2] = d /\ c[3] = u /\ c[4] = e
  OBVIOUS
<1> HIDE DEF a, o, c
<1>4. /\ b \in Seq(T) /\ Len(b) = 4
      /\ \A i \in 1..4 : b[i] = IF i <= 3 THEN a[i] ELSE o[i - 3]
  <2>1. /\ b \in Seq(T) /\ Len(b) = Len(a) + Len(o)
        /\ \A i \in 1..Len(a) + Len(o) : b[i] = IF i <= Len(a) THEN a[i] ELSE o[i - Len(a)]
    BY <1>1, ConcatProperties
  <2> QED BY <1>2, <2>1
<1> HIDE DEF b
<1>5. b[1] = w /\ b[2] = d /\ b[3] = u /\ b[4] = e
  BY <1>3, <1>4
<1>6. \A i \in 1..4 : i = 1 \/ i = 2 \/ i = 3 \/ i = 4
  OBVIOUS
<1>7. \A i \in 1..4 : b[i] = c[i]
  BY <1>3, <1>5, <1>6
<1>8. b = [i \in 1..4 |-> b[i]] /\ c = [i \in 1..4 |-> c[i]]
  BY <1>1, <1>2, <1>4
<1>9. b = c
  BY <1>7, <1>8
<1> QED BY <1>9 DEF a, o, b, c

\* The windows, which begin with different words.
LEMMA WindowsAreTold ==
  /\ Told(Rolling, "rolling") /\ AllBeginIn(Rolling, RollingWords)
  /\ Told(PastN, "rolling") /\ AllBeginIn(PastN, PastWords)
<1> DEFINE units == DOMAIN DaysIn \ {"year", "years"}
           e == {"average", "avg"}
<1>1. /\ RollingWords \in SUBSET Starts3 /\ PastWords \in SUBSET Starts3
      /\ RollingWords \cap Starts2 = {} /\ PastWords \cap RollingWords = {}
      /\ UnitWords \cap Starts1 = {} /\ units \cap Starts1 = {} /\ units \cap Starts2 = {}
      /\ e \cap Starts1 = {}
  <2>1. RollingWords \in SUBSET Starts3 /\ PastWords \in SUBSET Starts3
    BY Zenon DEF Starts3
  <2>2. PastWords \cap RollingWords = {}
    BY DEF PastWords, RollingWords
  <2>3. units \in SUBSET UnitWords
    BY Zenon DEF UnitWords
  <2> HIDE DEF units
  <2> QED BY <2>1, <2>2, <2>3, ApartFromOne, ApartFromTwo
<1>2. Told(Rolling, "rolling") /\ AllBeginIn(Rolling, RollingWords)
  <2> DEFINE w == {"rolling", "trailing", "moving"}
             a == <<w, Digits, units>>
             b == a \o <<e>>
             c == <<w, Digits, units, e>>
  <2>1. w = RollingWords
    BY DEF RollingWords
  <2>2. Rolling = Pattern("rolling", <<b, a>>)
    BY Zenon DEF Rolling
  <2> HIDE DEF w, units, e
  <2>3. b = c
    <3>1. w \in {w, Digits, units, e} /\ Digits \in {w, Digits, units, e}
          /\ units \in {w, Digits, units, e} /\ e \in {w, Digits, units, e}
      OBVIOUS
    <3> QED BY Zenon, <3>1, AWordMore
  <2>4. a[1] = w /\ c[1] = w
    OBVIOUS
  <2>5. Begins("rolling", a) /\ Plain("rolling", a)
    BY <1>1, <2>1, NumbersApart, ThreeWords
  <2>6. Begins("rolling", c) /\ Plain("rolling", c)
    BY <1>1, <2>1, NumbersApart, FourWords
  <2> HIDE DEF a, b, c
  <2>7. Told(Rolling, "rolling")
    BY Zenon, <2>2, <2>3, <2>5, <2>6, ToldOfTwo
  <2>8. AllBeginIn(Rolling, RollingWords)
    <3>1. DOMAIN Rolling.ways = 1..2 /\ Rolling.ways[1] = c /\ Rolling.ways[2] = a
      BY <2>2, <2>3, <2>5, <2>6, TwoWays DEF Begins
    <3>2. \A i \in 1..2 : i = 1 \/ i = 2
      OBVIOUS
    <3> QED BY Zenon, <2>1, <2>4, <3>1, <3>2 DEF AllBeginIn
  <2> QED BY <2>7, <2>8
<1>3. Told(PastN, "rolling") /\ AllBeginIn(PastN, PastWords)
  <2> DEFINE w == {"last", "past", "previous", "prior"}
             u == DOMAIN DaysIn
             a == <<w, Digits, u>>
  <2>1. w = PastWords /\ u = UnitWords
    BY Zenon DEF PastWords, UnitWords
  <2>2. PastN = Pattern("rolling", <<a>>)
    BY Zenon DEF PastN
  <2> HIDE DEF w, u
  <2>3. Begins("rolling", a) /\ Plain("rolling", a)
    BY <1>1, <2>1, NumbersApart, ThreeWords
  <2>4. a[1] = w
    OBVIOUS
  <2> HIDE DEF a
  <2>5. Told(PastN, "rolling")
    BY Zenon, <2>2, <2>3, ToldOfOne
  <2>6. AllBeginIn(PastN, PastWords)
    <3>1. DOMAIN PastN.ways = 1..1 /\ PastN.ways[1] = a
      BY Zenon, <2>2, <2>3, OneWay DEF Begins
    <3>2. \A i \in 1..1 : i = 1
      OBVIOUS
    <3> QED BY Zenon, <2>1, <2>4, <3>1, <3>2 DEF AllBeginIn
  <2> QED BY <2>5, <2>6
<1> QED BY <1>2, <1>3

\* A pattern with words of its own, which may have shorter phrases in it.
Special(pattern, reads, vocabulary) ==
  /\ IsPattern(pattern) /\ pattern.reads = reads
  /\ \A i \in DOMAIN pattern.ways :
       /\ Begins(reads, pattern.ways[i])
       /\ \A k \in DOMAIN pattern.ways[i] : pattern.ways[i][k] \subseteq vocabulary

\* The words of a year over year and of a fiscal quarter.
YoYWords ==
  {"yoy", "year", "over", "the", "same", "period", "quarter", "month", "last"} \cup Against
FiscalWords == {"fiscal", "fy"} \cup QuarterWords \cup FourDigits

\* A year over year and a fiscal quarter have no word in common.
LEMMA SpecialApart == YoYWords \cap FiscalWords = {}
<1>1. YoYWords \cap FourDigits = {}
  <2>1. YoYWords \subseteq SpelledOut
    <3>1. {"year", "quarter", "month"} \subseteq UnitWords
      BY MonthsAndUnits
    <3>2. UnitWords \subseteq SpelledOut /\ Against \subseteq SpelledOut
      BY Zenon DEF SpelledOut, UnitWords
    <3>3. {"yoy", "over", "the", "same", "period"} \subseteq SpelledOut
      BY DEF SpelledOut
    <3>4. "last" \in SpelledOut
      BY DEF SpelledOut, ThisOrLast, Back
    <3> HIDE DEF SpelledOut
    <3> QED BY <3>1, <3>2, <3>3, <3>4 DEF YoYWords
  <2> QED BY <2>1, NumbersAssumption
<1>2. YoYWords \cap ({"fiscal", "fy"} \cup QuarterWords) = {}
  BY FourQuarterWords DEF YoYWords, Against
<1> QED BY <1>1, <1>2 DEF FiscalWords

\* A fiscal quarter has words of its own.
LEMMA FiscalIsSpecial == Special(FiscalQuarter, "fiscal_quarter", FiscalWords)
<1> DEFINE f == {"fiscal"}
           y == {"fy"}
           a == <<f, QuarterWords, FourDigits>>
           b == <<f, QuarterWords>>
           c == <<y, FourDigits, QuarterWords>>
           V == FiscalWords
           p == Pattern("fiscal_quarter", <<a, b, c>>)
<1>1. FiscalQuarter = p
  BY Zenon DEF FiscalQuarter
<1>2. /\ f \in SUBSET Starts2 /\ f \in SUBSET Starts3 /\ y \in SUBSET Starts3
      /\ f \cap PastWords = {} /\ f \cap RollingWords = {} /\ y \cap RollingWords = {}
  BY DEF Starts2, Starts3, PastWords, RollingWords
<1>3. f \subseteq V /\ y \subseteq V /\ QuarterWords \subseteq V /\ FourDigits \subseteq V
  BY Zenon DEF FiscalWords
<1> HIDE DEF f, y, V
<1>4. Begins("fiscal_quarter", a) /\ Begins("fiscal_quarter", c)
  BY <1>2, ThreeWords
<1>5. Begins("fiscal_quarter", b)
  BY <1>2, TwoWords
<1>6. /\ \A k \in DOMAIN a : a[k] \subseteq V
      /\ \A k \in DOMAIN b : b[k] \subseteq V
      /\ \A k \in DOMAIN c : c[k] \subseteq V
  BY <1>3
<1>7. IsWay(a) /\ IsWay(b) /\ IsWay(c)
  BY Zenon, TuplesAreWays
<1> HIDE DEF a, b, c
<1>8. /\ IsPattern(p) /\ p.reads = "fiscal_quarter" /\ DOMAIN p.ways = 1..3
      /\ p.ways[1] = a /\ p.ways[2] = b /\ p.ways[3] = c
  BY <1>7, ThreeWays
<1> HIDE DEF p
<1>9. \A i \in 1..3 : i = 1 \/ i = 2 \/ i = 3
  OBVIOUS
<1>10. Special(p, "fiscal_quarter", V)
  BY Zenon, <1>4, <1>5, <1>6, <1>8, <1>9 DEF Special
<1> QED BY Zenon, <1>1, <1>10 DEF V

\* So has a year over year.
LEMMA YoYIsSpecial == Special(YoY, "year_over_year", YoYWords)
<1> DEFINE T == {Against, {"the"}, {"same"}, {"period", "quarter", "month"}, {"last"}, {"year"}}
           l == <<Against, {"the"}>>
           k == <<Against>>
           a == <<{"yoy"}>>
           b == <<{"year"}, {"over"}, {"year"}>>
           c == l \o SamePeriod
           d == k \o SamePeriod
           e == SamePeriod
           f == <<Against, {"last"}, {"year"}>>
           ways == <<a, b, c, d, e, f>>
           R == "year_over_year"
           V == YoYWords
<1>1. \A s \in T : s \subseteq V
  BY DEF YoYWords
<1>2. Against \in T /\ {"the"} \in T /\ SamePeriod \in Seq(T) /\ Len(SamePeriod) = 4
  <2>1. Against \in T /\ {"the"} \in T
    BY Zenon
  <2>2. {"same"} \in T /\ {"period", "quarter", "month"} \in T /\ {"last"} \in T /\ {"year"} \in T
    BY Zenon
  <2> HIDE DEF T
  <2>3. ASSUME NEW p \in T, NEW q \in T, NEW r \in T, NEW s \in T
        PROVE  <<p, q, r, s>> \in Seq(T) /\ Len(<<p, q, r, s>>) = 4
    OBVIOUS
  <2>4. SamePeriod \in Seq(T) /\ Len(SamePeriod) = 4
    BY Zenon, <2>2, <2>3 DEF SamePeriod
  <2> QED BY <2>1, <2>4
<1> HIDE DEF T, V
<1>3. l \in Seq(T) /\ Len(l) = 2 /\ k \in Seq(T) /\ Len(k) = 1
  BY <1>2
<1> HIDE DEF l, k
<1>4. c \in Seq(T) /\ Len(c) = 6 /\ d \in Seq(T) /\ Len(d) = 5
  <2> DEFINE sp == SamePeriod
  <2>1. sp \in Seq(T) /\ Len(sp) = 4
    BY <1>2
  <2> HIDE DEF sp
  <2>2. l \o sp \in Seq(T) /\ Len(l \o sp) = Len(l) + Len(sp)
    BY <1>3, <2>1, ConcatProperties
  <2>3. k \o sp \in Seq(T) /\ Len(k \o sp) = Len(k) + Len(sp)
    BY <1>3, <2>1, ConcatProperties
  <2> QED BY <1>3, <2>1, <2>2, <2>3 DEF sp
<1>5. e \in Seq(T) /\ Len(e) = 4
  BY <1>2
<1> HIDE DEF c, d, e
<1>6. ASSUME NEW s \in Seq(T), Len(s) > 3
      PROVE  Begins(R, s) /\ \A i \in DOMAIN s : s[i] \subseteq V
  <2>1. IsWay(s) /\ Len(s) \in Nat /\ \A i \in DOMAIN s : s[i] \in T
    BY DEF IsWay
  <2>2. Begins(R, s)
    <3> DEFINE n == Len(s)
    <3>0. n \in Nat /\ n > 3
      BY <1>6, <2>1
    <3> HIDE DEF n
    <3>1. ~(n <= 3) /\ n # 1 /\ n # 2 /\ n >= 1
      BY <3>0
    <3> USE DEF n
    <3> QED BY Zenon, <2>1, <3>1 DEF Begins
  <2> QED BY <1>1, <2>1, <2>2
<1>7. /\ Begins(R, c) /\ \A i \in DOMAIN c : c[i] \subseteq V
      /\ Begins(R, d) /\ \A i \in DOMAIN d : d[i] \subseteq V
      /\ Begins(R, e) /\ \A i \in DOMAIN e : e[i] \subseteq V
  <2>1. Len(c) > 3 /\ Len(d) > 3 /\ Len(e) > 3
    BY <1>4, <1>5
  <2> HIDE DEF R
  <2> QED BY Zenon, <1>4, <1>5, <1>6, <2>1
<1>8. Begins(R, a) /\ \A i \in DOMAIN a : a[i] \subseteq V
  <2>1. {"yoy"} \in SUBSET Starts1
    BY DEF Starts1
  <2>2. {"yoy"} \cap QuarterWords = {}
    BY FourQuarterWords
  <2>3. Begins(R, a)
    BY <2>1, <2>2, OneWord
  <2>4. \A i \in DOMAIN a : a[i] = {"yoy"}
    OBVIOUS
  <2>5. {"yoy"} \subseteq V
    BY DEF V, YoYWords
  <2> QED BY <2>3, <2>4, <2>5
<1>9. Begins(R, b) /\ \A i \in DOMAIN b : b[i] \subseteq V
  <2> DEFINE y == {"year"}
             o == {"over"}
  <2>1. y \in SUBSET Starts3 /\ y \cap RollingWords = {} /\ y \subseteq V /\ o \subseteq V
    BY DEF Starts3, RollingWords, V, YoYWords
  <2> HIDE DEF y, o
  <2>2. Begins(R, <<y, o, y>>)
    BY <2>1, ThreeWords
  <2>3. \A i \in DOMAIN <<y, o, y>> : <<y, o, y>>[i] \subseteq V
    BY <2>1
  <2> QED BY <2>2, <2>3 DEF y, o
<1>10. Begins(R, f) /\ \A i \in DOMAIN f : f[i] \subseteq V
  <2> DEFINE y == {"year"}
             o == {"last"}
  <2>1. y \subseteq V /\ o \subseteq V
    BY DEF V, YoYWords
  <2>2. Against \in SUBSET Starts3 /\ Against \cap RollingWords = {} /\ Against \subseteq V
    BY DEF Starts3, RollingWords, Against, V, YoYWords
  <2> HIDE DEF y, o
  <2>3. Begins(R, <<Against, o, y>>)
    BY <2>2, ThreeWords
  <2>4. \A i \in DOMAIN <<Against, o, y>> : <<Against, o, y>>[i] \subseteq V
    BY <2>1, <2>2
  <2> QED BY <2>3, <2>4 DEF y, o
<1>11. YoY.ways = ways /\ YoY.reads = R
  BY DEF YoY, Pattern, c, d, e, l, k
<1> HIDE DEF a, b, f
<1>12. DOMAIN ways = 1..6 /\ ways[1] = a /\ ways[2] = b /\ ways[3] = c /\ ways[4] = d
      /\ ways[5] = e /\ ways[6] = f
  OBVIOUS
<1> HIDE DEF ways
<1>13. \A i \in 1..6 : i = 1 \/ i = 2 \/ i = 3 \/ i = 4 \/ i = 5 \/ i = 6
  OBVIOUS
<1>14. \A i \in 1..6 : Begins(R, ways[i]) /\ \A j \in DOMAIN ways[i] : ways[i][j] \subseteq V
  BY Zenon, <1>7, <1>8, <1>9, <1>10, <1>12, <1>13
<1>15. \A i \in 1..6 : IsWay(ways[i])
  BY <1>14 DEF Begins
<1>16. IsPattern(YoY)
  BY <1>11, <1>12, <1>15 DEF IsPattern, IsWay
<1>17. Special(YoY, R, V)
  BY Zenon, <1>11, <1>12, <1>14, <1>16 DEF Special
<1> QED BY <1>17 DEF V

\* Which finder reads what; a window is read by the eighth and the ninth.
FinderOf ==
  [year_over_year |-> 1, fiscal_quarter |-> 2, quarter |-> 3, relative_quarter |-> 3, month |-> 4,
   relative_month |-> 4, year |-> 5, relative_year |-> 5, today |-> 6, yesterday |-> 6,
   relative_week |-> 7, rolling |-> 8, year_to_date |-> 10, month_to_date |-> 10]

\* A pattern of the k-th finder.
IsIn(k, pattern) ==
  /\ FinderOf[pattern.reads] = k \/ (k = 9 /\ pattern.reads = "rolling")
  /\ \/ k = 1 /\ Special(pattern, "year_over_year", YoYWords)
     \/ k = 2 /\ Special(pattern, "fiscal_quarter", FiscalWords)
     \/ k >= 3 /\ Told(pattern, pattern.reads)
  /\ k = 8 => AllBeginIn(pattern, RollingWords)
  /\ k = 9 => AllBeginIn(pattern, PastWords)

\* A finder has one pattern, or two that are read differently.
IsFinder(k, patterns) ==
  \E n \in 1..2 :
    /\ DOMAIN patterns = 1..n /\ Len(patterns) = n
    /\ \A i \in 1..n : IsIn(k, patterns[i])
    /\ n = 2 => patterns[1].reads # patterns[2].reads

\* A finder of one pattern.
LEMMA OneIsFinder ==
  ASSUME NEW k, NEW p, IsIn(k, p)
  PROVE  IsFinder(k, <<p>>)
<1> DEFINE s == <<p>>
<1>1. DOMAIN s = 1..1 /\ Len(s) = 1 /\ s[1] = p /\ 1 \in 1..2 /\ 1 # 2
  OBVIOUS
<1>2. \A i \in 1..1 : i = 1
  OBVIOUS
<1> HIDE DEF s
<1>3. IsFinder(k, s)
  BY Zenon, <1>1, <1>2 DEF IsFinder
<1> QED BY <1>3 DEF s

\* A finder of two.
LEMMA TwoAreFinder ==
  ASSUME NEW k, NEW p, NEW q, IsIn(k, p), IsIn(k, q), p.reads # q.reads
  PROVE  IsFinder(k, <<p, q>>)
<1> DEFINE s == <<p, q>>
<1>1. DOMAIN s = 1..2 /\ Len(s) = 2 /\ s[1] = p /\ s[2] = q /\ 2 \in 1..2
  OBVIOUS
<1>2. \A i \in 1..2 : i = 1 \/ i = 2
  OBVIOUS
<1> HIDE DEF s
<1>3. IsFinder(k, s)
  BY Zenon, <1>1, <1>2 DEF IsFinder
<1> QED BY <1>3 DEF s

\* A pattern that is told of, in its finder.
LEMMA ToldIsIn ==
  ASSUME NEW k \in Nat, k >= 3, k # 8, k # 9, NEW pattern, NEW reads, Told(pattern, reads),
         FinderOf[reads] = k
  PROVE  IsIn(k, pattern)
<1>1. pattern.reads = reads
  BY Zenon DEF Told
<1> QED BY <1>1 DEF IsIn

\* What the finders are.
LEMMA ThePatterns ==
  /\ Len(Finders) = 10
  /\ \A k \in 1..10 : IsFinder(k, Finders[k])
<1>1. /\ FinderOf["year_over_year"] = 1 /\ FinderOf["fiscal_quarter"] = 2
      /\ FinderOf["quarter"] = 3 /\ FinderOf["relative_quarter"] = 3
      /\ FinderOf["month"] = 4 /\ FinderOf["relative_month"] = 4
      /\ FinderOf["year"] = 5 /\ FinderOf["relative_year"] = 5
      /\ FinderOf["today"] = 6 /\ FinderOf["yesterday"] = 6
      /\ FinderOf["relative_week"] = 7 /\ FinderOf["rolling"] = 8
      /\ FinderOf["year_to_date"] = 10 /\ FinderOf["month_to_date"] = 10
  BY DEF FinderOf
<1>2. IsFinder(1, <<YoY>>)
  <2>1. YoY.reads = "year_over_year"
    BY Zenon, YoYIsSpecial DEF Special
  <2>2. IsIn(1, YoY)
    BY <1>1, <2>1, YoYIsSpecial DEF IsIn
  <2> QED BY <2>2, OneIsFinder
<1>3. IsFinder(2, <<FiscalQuarter>>)
  <2>1. FiscalQuarter.reads = "fiscal_quarter"
    BY Zenon, FiscalIsSpecial DEF Special
  <2>2. IsIn(2, FiscalQuarter)
    BY <1>1, <2>1, FiscalIsSpecial DEF IsIn
  <2> QED BY <2>2, OneIsFinder
<1>4. IsFinder(8, <<Rolling>>)
  <2>1. Rolling.reads = "rolling"
    BY Zenon, WindowsAreTold DEF Told
  <2>2. IsIn(8, Rolling)
    BY <1>1, <2>1, WindowsAreTold DEF IsIn
  <2> QED BY <2>2, OneIsFinder
<1>5. IsFinder(9, <<PastN>>)
  <2>1. PastN.reads = "rolling"
    BY Zenon, WindowsAreTold DEF Told
  <2>2. IsIn(9, PastN)
    BY <1>1, <2>1, WindowsAreTold DEF IsIn
  <2> QED BY <2>2, OneIsFinder
<1>6. IsFinder(7, <<RelativeWeek>>)
  <2>1. IsIn(7, RelativeWeek)
    BY <1>1, RelativesAreTold, ToldIsIn
  <2> QED BY <2>1, OneIsFinder
<1>7. ASSUME NEW k \in {3, 4, 5, 6, 10}, NEW p, NEW q, NEW r, NEW s, Told(p, r), Told(q, s), r # s,
             FinderOf[r] = k, FinderOf[s] = k
      PROVE  IsFinder(k, <<p, q>>)
  <2>1. p.reads = r /\ q.reads = s
    BY Zenon, <1>7 DEF Told
  <2>2. k \in Nat /\ k >= 3 /\ k # 8 /\ k # 9
    OBVIOUS
  <2>3. IsIn(k, p) /\ IsIn(k, q)
    BY <1>7, <2>2, ToldIsIn
  <2> QED BY <1>7, <2>1, <2>3, TwoAreFinder
<1>8. IsFinder(3, <<Quarter, RelativeQuarter>>)
  BY <1>1, <1>7, NamedAreTold, RelativesAreTold
<1>9. IsFinder(4, <<NamedMonth, RelativeMonth>>)
  BY <1>1, <1>7, NamedAreTold, RelativesAreTold
<1>10. IsFinder(5, <<YearOnly, RelativeYear>>)
  BY <1>1, <1>7, NamedAreTold, RelativesAreTold
<1>11. IsFinder(6, <<TodayWord, Yesterday>>)
  BY <1>1, <1>7, RelativesAreTold
<1>12. IsFinder(10, <<YearToDate, MonthToDate>>)
  BY <1>1, <1>7, ToDateAreTold
<1>13. /\ Len(Finders) = 10
      /\ Finders[1] = <<YoY>> /\ Finders[2] = <<FiscalQuarter>>
      /\ Finders[3] = <<Quarter, RelativeQuarter>> /\ Finders[4] = <<NamedMonth, RelativeMonth>>
      /\ Finders[5] = <<YearOnly, RelativeYear>> /\ Finders[6] = <<TodayWord, Yesterday>>
      /\ Finders[7] = <<RelativeWeek>> /\ Finders[8] = <<Rolling>> /\ Finders[9] = <<PastN>>
      /\ Finders[10] = <<YearToDate, MonthToDate>>
  BY DEF Finders
<1>14. \A k \in 1..10 : \/ k = 1 \/ k = 2 \/ k = 3 \/ k = 4 \/ k = 5
                        \/ k = 6 \/ k = 7 \/ k = 8 \/ k = 9 \/ k = 10
  OBVIOUS
<1>15. \A k \in 1..10 : IsFinder(k, Finders[k])
  BY Zenon, <1>2, <1>3, <1>4, <1>5, <1>6, <1>8, <1>9, <1>10, <1>11, <1>12, <1>13, <1>14
<1> QED BY <1>13, <1>15

\* The words of a text from p on are a phrase.
Says(t, p, way) == \A k \in DOMAIN way : t[p + k - 1] \in way[k]

\* Of two phrases of which one holds the other and more, both are of one pattern and
\* start at the same word, unless the longer one is of the more specific patterns.
LEMMA PhraseInPhrase ==
  ASSUME NEW t, NEW p \in Nat, NEW q \in Nat, NEW w, NEW v, NEW r, NEW s,
         IsWay(w), Begins(s, v), Plain(r, w), Says(t, p, w), Says(t, q, v),
         p <= q, q + Len(v) <= p + Len(w), Len(v) # Len(w)
  PROVE  p = q /\ r = s
<1> DEFINE L == Len(w)
           M == Len(v)
           o == q - p + 1
           word == t[q]
<1>1. L \in Nat /\ M \in Nat /\ DOMAIN w = 1..L /\ DOMAIN v = 1..M /\ M >= 1 /\ L <= 4
  BY DEF IsWay, Begins, Plain
<1>2. q + M <= p + L /\ M # L
  OBVIOUS
<1> HIDE DEF L, M
<1>3. o \in 1..L /\ p + o - 1 = q /\ M <= L - o + 1 /\ M < L /\ L >= 2 /\ (o = 1 <=> p = q)
  BY <1>1, <1>2
<1>4. word \in w[o]
  BY <1>1, <1>3 DEF Says
<1>5. word \in v[1]
  <2>1. 1 \in 1..M /\ q + 1 - 1 = q
    BY <1>1
  <2> QED BY <1>1, <2>1 DEF Says
<1> HIDE DEF o, word
<1>6. ASSUME NEW n \in Nat, M <= n, n <= 3 PROVE word \in Starts(n)
  <2>1. v[1] \subseteq Starts(M)
    <3>1. M <= 3
      BY <1>1, <1>6
    <3> QED BY Zenon, <3>1 DEF Begins, M
  <2>2. M \in {1, 2, 3} /\ n \in {1, 2, 3}
    BY <1>1, <1>6
  <2>3. Starts(M) \subseteq Starts(n)
    BY <1>6, <2>2, MoreStarts DEF Starts
  <2> QED BY <1>5, <2>1, <2>3
<1>7. CASE o # 1
  <2> DEFINE n == L - o + 1
  <2>1. o \in Int /\ o \in 2..L /\ n \in Nat /\ n <= 3 /\ M <= n
    BY <1>1, <1>3, <1>7
  <2>2. word \in Starts(n)
    BY <1>6, <2>1
  <2>3. w[o] \cap Starts(n) = {}
    BY <2>1 DEF Plain, NoneInside, L
  <2> QED BY <1>4, <2>2, <2>3
<1>8. CASE o = 1
  <2>1. p = q /\ word \in w[1]
    BY <1>3, <1>4, <1>8
  <2>2. NoneBefore(r, w) /\ L # 1
    BY <1>1, <1>3 DEF Plain
  <2>3. ~(w[1] \cap Starts(L - 1) = {})
    <3>1. L - 1 \in Nat /\ M <= L - 1 /\ L - 1 <= 3
      BY <1>1, <1>3
    <3>2. word \in Starts(L - 1)
      BY <1>6, <3>1
    <3> QED BY <2>1, <3>2
  <2>4. CASE L = 2 /\ r = "quarter" /\ w[1] \subseteq QuarterWords
    <3>1. M = 1 /\ v[1] \cap QuarterWords # {}
      BY <1>1, <1>3, <1>5, <2>1, <2>4
    <3>2. s = "quarter"
      BY Zenon, <3>1 DEF Begins, M
    <3> QED BY <2>1, <2>4, <3>2
  <2>5. CASE L = 3 /\ w[1] \subseteq PastWords /\ w[2] \subseteq Digits
    <3>1. word \in PastWords
      BY <2>1, <2>5
    <3>2. CASE M = 1
      <4>1. word \in Starts1
        BY <1>6, <3>2 DEF Starts
      <4> QED BY <3>1, <4>1, ApartFromOne
    <3>3. CASE M = 2
      <4>1. v[2] \subseteq PeriodWords
        <5>1. v[1] \cap PastWords # {}
          BY <1>5, <3>1
        <5> QED BY Zenon, <3>3, <5>1 DEF Begins, M
      <4>2. t[q + 2 - 1] \in v[2] /\ t[p + 2 - 1] \in w[2]
        <5>1. 2 \in DOMAIN v /\ 2 \in DOMAIN w
          BY <1>1, <2>5, <3>3
        <5> QED BY <5>1 DEF Says
      <4>3. t[q + 2 - 1] \in PeriodWords /\ t[q + 2 - 1] \in Digits
        BY <2>1, <2>5, <4>1, <4>2
      <4> QED BY Zenon, <4>3, ApartFromNumbers
    <3> QED BY <1>1, <1>3, <2>5, <3>2, <3>3
  <2>6. CASE L = 4 /\ r = "rolling" /\ w[1] \subseteq RollingWords
    <3>1. M <= 3 /\ v[1] \cap RollingWords # {}
      BY <1>1, <1>3, <1>5, <2>1, <2>6
    <3>2. s = "rolling"
      BY Zenon, <3>1 DEF Begins, M
    <3> QED BY <2>1, <2>6, <3>2
  <2> QED BY Zenon, <2>2, <2>3, <2>4, <2>5, <2>6 DEF NoneBefore, L
<1> QED BY <1>7, <1>8

\* A candidate is what a pattern makes of the text.
Spans(t, pattern, c) ==
  /\ c.reads = pattern.reads /\ c.at \in Nat /\ c.at >= 1
  /\ \E i \in DOMAIN pattern.ways :
       Says(t, c.at, pattern.ways[i]) /\ c.to = c.at + Len(pattern.ways[i])

\* It is of the k-th finder.
IsOf(t, k, c) == \E i \in DOMAIN Finders[k] : Spans(t, Finders[k][i], c)

\* The pattern a candidate is of, and the phrase.
LEMMA WhatItSays ==
  ASSUME NEW t, NEW k \in 1..10, NEW c, IsOf(t, k, c)
  PROVE  \E pattern, way :
           /\ IsIn(k, pattern) /\ c.reads = pattern.reads
           /\ \E i \in DOMAIN pattern.ways : way = pattern.ways[i]
           /\ c.at \in Nat /\ c.at >= 1 /\ c.to = c.at + Len(way) /\ c.to \in Nat /\ c.at < c.to
           /\ Says(t, c.at, way) /\ IsWay(way) /\ Begins(c.reads, way)
           /\ k >= 3 => Plain(c.reads, way)
<1>1. PICK n \in 1..2 : DOMAIN Finders[k] = 1..n /\ \A i \in 1..n : IsIn(k, Finders[k][i])
  BY Zenon, ThePatterns DEF IsFinder
<1>2. PICK j \in 1..n : Spans(t, Finders[k][j], c)
  BY Zenon, <1>1 DEF IsOf
<1> DEFINE pattern == Finders[k][j]
<1>3. IsIn(k, pattern) /\ Spans(t, pattern, c)
  BY <1>1, <1>2
<1> HIDE DEF pattern
<1>4. PICK i \in DOMAIN pattern.ways :
        Says(t, c.at, pattern.ways[i]) /\ c.to = c.at + Len(pattern.ways[i])
  BY Zenon, <1>3 DEF Spans
<1> DEFINE way == pattern.ways[i]
<1>5. c.reads = pattern.reads /\ c.at \in Nat /\ c.at >= 1
  BY Zenon, <1>3 DEF Spans
<1>6. Begins(c.reads, way) /\ (k >= 3 => Plain(c.reads, way))
  <2>1. \/ k = 1 /\ Special(pattern, "year_over_year", YoYWords)
        \/ k = 2 /\ Special(pattern, "fiscal_quarter", FiscalWords)
        \/ k >= 3 /\ Told(pattern, pattern.reads)
    BY Zenon, <1>3 DEF IsIn
  <2>2. CASE k >= 3 /\ Told(pattern, pattern.reads)
    BY Zenon, <1>5, <2>2 DEF Told
  <2>3. CASE k = 1 /\ Special(pattern, "year_over_year", YoYWords)
    <3>1. Begins(c.reads, way)
      BY Zenon, <1>5, <2>3 DEF Special
    <3> QED BY <2>3, <3>1
  <2>4. CASE k = 2 /\ Special(pattern, "fiscal_quarter", FiscalWords)
    <3>1. Begins(c.reads, way)
      BY Zenon, <1>5, <2>4 DEF Special
    <3> QED BY <2>4, <3>1
  <2> QED BY <2>1, <2>2, <2>3, <2>4
<1>7. Says(t, c.at, way) /\ c.to = c.at + Len(way)
      /\ \E m \in DOMAIN pattern.ways : way = pattern.ways[m]
  BY <1>4
<1> HIDE DEF way
<1>8. IsWay(way) /\ Len(way) \in Nat /\ Len(way) >= 1
  BY <1>6 DEF Begins, IsWay
<1>9. c.to \in Nat /\ c.at < c.to
  BY <1>5, <1>7, <1>8
<1> QED BY Zenon, <1>3, <1>5, <1>6, <1>7, <1>8, <1>9

\* A candidate has words.
LEMMA HasWords ==
  ASSUME NEW t, NEW k \in 1..10, NEW c, IsOf(t, k, c)
  PROVE  c.at \in Nat /\ c.to \in Nat /\ c.at < c.to
  BY Zenon, WhatItSays

\* A candidate that holds another and more is of the first two finders, or they
\* start at the same word and are read as the same.
LEMMA NoShorterPart ==
  ASSUME NEW t, NEW j \in 1..10, NEW k \in 1..10, NEW c, NEW e, IsOf(t, j, c), IsOf(t, k, e),
         j >= 3, Covers(c, e)
  PROVE  c.to - c.at = e.to - e.at \/ (c.at = e.at /\ c.reads = e.reads)
<1> SUFFICES ASSUME c.to - c.at # e.to - e.at PROVE c.at = e.at /\ c.reads = e.reads
  OBVIOUS
<1>1. PICK w : /\ c.at \in Nat /\ c.to = c.at + Len(w) /\ Says(t, c.at, w) /\ IsWay(w)
               /\ Plain(c.reads, w)
  BY Zenon, WhatItSays
<1>2. PICK v : /\ e.at \in Nat /\ e.to = e.at + Len(v) /\ Says(t, e.at, v) /\ Begins(e.reads, v)
  BY Zenon, WhatItSays
<1>3. Len(v) \in Nat /\ Len(w) \in Nat
  BY <1>1, <1>2 DEF Begins, IsWay
<1>4. c.at <= e.at /\ e.at + Len(v) <= c.at + Len(w) /\ Len(v) # Len(w)
  BY <1>1, <1>2, <1>3 DEF Covers
<1> QED BY Zenon, <1>1, <1>2, <1>4, PhraseInPhrase

\* What the first two finders find has words of their own only.
LEMMA WordsOfItsOwn ==
  ASSUME NEW t, NEW k \in 1..10, NEW c, IsOf(t, k, c)
  PROVE  \E w : /\ c.at \in Nat /\ c.to = c.at + Len(w) /\ Says(t, c.at, w) /\ IsWay(w)
                /\ Len(w) >= 1
                /\ k = 1 => \A i \in DOMAIN w : w[i] \subseteq YoYWords
                /\ k = 2 => \A i \in DOMAIN w : w[i] \subseteq FiscalWords
<1>1. PICK pattern, way :
         /\ IsIn(k, pattern) /\ \E i \in DOMAIN pattern.ways : way = pattern.ways[i]
         /\ c.at \in Nat /\ c.to = c.at + Len(way) /\ Says(t, c.at, way) /\ IsWay(way)
         /\ Begins(c.reads, way)
  BY Zenon, WhatItSays
<1>2. /\ k = 1 => Special(pattern, "year_over_year", YoYWords)
      /\ k = 2 => Special(pattern, "fiscal_quarter", FiscalWords)
  BY <1>1 DEF IsIn
<1>3. Len(way) >= 1
  BY <1>1 DEF Begins
<1> QED BY Zenon, <1>1, <1>2, <1>3 DEF Special

\* A year over year and a fiscal quarter do not overlap.
LEMMA SpecialsPart ==
  ASSUME NEW t, NEW g \in 1..10, NEW h \in 1..10, g = 1, h = 2,
         NEW c, NEW e, IsOf(t, g, c), IsOf(t, h, e)
  PROVE  ~Overlaps(c, e)
<1>1. PICK w : /\ c.at \in Nat /\ c.to = c.at + Len(w) /\ Says(t, c.at, w) /\ IsWay(w)
               /\ Len(w) >= 1 /\ \A i \in DOMAIN w : w[i] \subseteq YoYWords
  BY Zenon, WordsOfItsOwn
<1>2. PICK v : /\ e.at \in Nat /\ e.to = e.at + Len(v) /\ Says(t, e.at, v) /\ IsWay(v)
               /\ Len(v) >= 1 /\ \A i \in DOMAIN v : v[i] \subseteq FiscalWords
  BY Zenon, WordsOfItsOwn
<1> SUFFICES ASSUME Overlaps(c, e) PROVE FALSE
  OBVIOUS
<1> DEFINE L == Len(w)
           M == Len(v)
           p == c.at
           q == e.at
           x == IF p <= q THEN q ELSE p
           i == x - p + 1
           j == x - q + 1
<1>3. /\ L \in Nat /\ M \in Nat /\ DOMAIN w = 1..L /\ DOMAIN v = 1..M
      /\ p \in Nat /\ q \in Nat /\ p < q + M /\ q < p + L
  <2>1. /\ L \in Nat /\ M \in Nat /\ DOMAIN w = 1..L /\ DOMAIN v = 1..M /\ p \in Nat /\ q \in Nat
        /\ ~(p + L <= q \/ q + M <= p)
    BY <1>1, <1>2 DEF IsWay, Overlaps
  <2> HIDE DEF L, M, p, q
  <2> QED BY <2>1
<1>4. i \in 1..L /\ j \in 1..M /\ p + i - 1 = x /\ q + j - 1 = x
  <2>1. L \in Nat /\ M \in Nat /\ p \in Nat /\ q \in Nat /\ p < q + M /\ q < p + L
        /\ L >= 1 /\ M >= 1
    BY <1>1, <1>2, <1>3
  <2> HIDE DEF L, M, p, q
  <2>2. CASE p <= q
    <3>1. x = q
      BY <2>2
    <3> HIDE DEF x
    <3> QED BY <2>1, <2>2, <3>1
  <2>3. CASE ~(p <= q)
    <3>1. x = p
      BY <2>3
    <3> HIDE DEF x
    <3> QED BY <2>1, <2>3, <3>1
  <2> QED BY <2>2, <2>3
<1>5. t[x] \in w[i] /\ t[x] \in v[j]
  <2> HIDE DEF i, j, x
  <2> QED BY <1>1, <1>2, <1>3, <1>4 DEF Says
<1>6. t[x] \in YoYWords /\ t[x] \in FiscalWords
  <2> HIDE DEF i, j, x
  <2> QED BY <1>1, <1>2, <1>3, <1>4, <1>5
<1> QED BY <1>6, SpecialApart

\* What a candidate keeps of a match.
LEMMA CandidateIs ==
  ASSUME NEW reads, NEW m
  PROVE  LET c == Candidate(reads, m) IN c.at = m.at /\ c.to = m.to /\ c.reads = reads
  BY DEF Candidate

\* A candidate of a pattern is what the pattern makes of the question.
LEMMA YieldSpans ==
  ASSUME NEW pattern, NEW c \in Yield(pattern)
  PROVE  Spans(text, pattern, c)
<1>1. PICK m \in Fitting(pattern.ways) : c = Candidate(pattern.reads, m)
  BY Zenon DEF Yield
<1>2. c.at = m.at /\ c.to = m.to /\ c.reads = pattern.reads
  BY <1>1, CandidateIs
<1>3. /\ m.at \in Nat /\ m.at >= 1
      /\ \E i \in DOMAIN pattern.ways :
           Fits(pattern.ways[i], m.at) /\ m.to = m.at + Len(pattern.ways[i])
  BY DEF Fitting
<1>4. PICK i \in DOMAIN pattern.ways : Fits(pattern.ways[i], m.at) /\ m.to = m.at + Len(pattern.ways[i])
  BY Zenon, <1>3
<1>5. Says(text, m.at, pattern.ways[i])
  BY Zenon, <1>4 DEF Fits, Says
<1> QED BY Zenon, <1>2, <1>3, <1>4, <1>5 DEF Spans

\* The candidates of one pattern.
Of(pattern) ==
  LET ms == Matches(pattern) IN [j \in DOMAIN ms |-> Candidate(pattern.reads, ms[j])]

\* They are one after the other.
LEMMA OfIsInLine ==
  ASSUME NEW pattern, IsPattern(pattern), Len(text) \in Nat
  PROVE  Of(pattern) \in Seq(Yield(pattern)) /\ InLine(Of(pattern))
<1> DEFINE ms == Matches(pattern)
           reads == pattern.reads
           F == Fitting(pattern.ways)
           Y == Yield(pattern)
           L == Len(ms)
           one == [j \in DOMAIN ms |-> Candidate(reads, ms[j])]
<1>1. ms \in Seq(F) /\ InLine(ms)
  BY Zenon, MatchesFit
<1>2. \A m \in F : Candidate(reads, m) \in Y
  BY DEF Yield
<1>3. Of(pattern) = one
  BY Zenon DEF Of
<1> HIDE DEF F, Y, ms, reads
<1>4. L \in Nat /\ DOMAIN ms = 1..L /\ \A j \in 1..L : ms[j] \in F
  BY <1>1
<1>5. DOMAIN one = 1..L /\ \A j \in 1..L : one[j] = Candidate(reads, ms[j])
  BY <1>4
<1>6. \A j \in 1..L : one[j] \in Y /\ one[j].at = ms[j].at /\ one[j].to = ms[j].to
  <2> HIDE DEF L, one
  <2> QED BY <1>2, <1>4, <1>5, CandidateIs
<1>7. one = [j \in 1..L |-> one[j]]
  <2>1. one = [j \in DOMAIN one |-> one[j]]
    OBVIOUS
  <2> HIDE DEF L, one
  <2> QED BY <1>5, <2>1
<1> HIDE DEF L, one
<1>8. one \in Seq(Y)
  <2>1. one \in [1..L -> Y]
    BY <1>6, <1>7
  <2> QED BY <1>4, <2>1
<1>9. InLine(one)
  BY <1>1, <1>4, <1>5, <1>6 DEF InLine
<1> QED BY <1>3, <1>8, <1>9 DEF Y

\* Flattening one sequence or two.
LEMMA FlatOfTwo ==
  ASSUME NEW seqs, Len(seqs) = 1 \/ Len(seqs) = 2
  PROVE  /\ Len(seqs) = 1 => FlattenSeq(seqs) = seqs[1]
         /\ Len(seqs) = 2 => FlattenSeq(seqs) = seqs[1] \o seqs[2]
<1> DEFINE N == Len(seqs)
           Is(h) == h = [i \in 1..N |-> IF i = 1 THEN seqs[i] ELSE h[i - 1] \o seqs[i]]
           both == seqs[1] \o seqs[2]
           f == [i \in 1..N |-> IF i = 1 THEN seqs[1] ELSE both]
           flatten == CHOOSE h : Is(h)
<1>1. N \in {1, 2} /\ N # 0
  OBVIOUS
<1>2. FlattenSeq(seqs) = flatten[N]
  BY Zenon, <1>1 DEF FlattenSeq, N
<1> HIDE DEF N
<1>3. Is(f)
  <2>1. f[1] = seqs[1]
    BY <1>1
  <2>2. \A i \in 1..N : i = 1 \/ (i = 2 /\ i - 1 = 1)
    BY <1>1
  <2>3. \A i \in 1..N : f[i] = IF i = 1 THEN seqs[1] ELSE both
    OBVIOUS
  <2>4. f = [i \in 1..N |-> f[i]]
    OBVIOUS
  <2> HIDE DEF f
  <2>5. ASSUME NEW i \in 1..N PROVE f[i] = IF i = 1 THEN seqs[i] ELSE f[i - 1] \o seqs[i]
    <3>1. CASE i = 1
      BY <2>3, <3>1
    <3>2. CASE i = 2 /\ i - 1 = 1
      <4>1. f[i] = both /\ f[i - 1] = seqs[1]
        <5>1. i # 1
          BY <3>2
        <5> QED BY <2>1, <2>3, <3>2, <5>1
      <4> QED BY <3>2, <4>1
    <3> QED BY <2>2, <3>1, <3>2
  <2> QED BY <2>4, <2>5
<1> HIDE DEF both, f
<1>4. Is(flatten)
  BY Zenon, <1>3
<1> HIDE DEF flatten
<1>5. \A i \in 1..N : flatten[i] = IF i = 1 THEN seqs[i] ELSE flatten[i - 1] \o seqs[i]
  <2> DEFINE body(i) == IF i = 1 THEN seqs[i] ELSE flatten[i - 1] \o seqs[i]
  <2>1. flatten = [i \in 1..N |-> body(i)]
    BY Zenon, <1>4
  <2>2. \A i \in 1..N : flatten[i] = body(i)
    <3> HIDE DEF body
    <3> QED BY <2>1
  <2> QED BY <2>2
<1> HIDE DEF Is
<1>6. CASE N = 1
  <2>1. flatten[N] = seqs[1]
    BY <1>5, <1>6
  <2>2. N # 2
    BY <1>6
  <2> QED BY <1>2, <1>6, <2>1, <2>2 DEF N
<1>7. CASE N = 2
  <2>1. 1 \in 1..N /\ 2 \in 1..N /\ 2 # 1 /\ 2 - 1 = 1
    BY <1>7
  <2>2. flatten[1] = seqs[1]
    BY <1>5, <2>1
  <2>3. flatten[2] = flatten[2 - 1] \o seqs[2]
    BY <1>5, <2>1
  <2>4. flatten[N] = seqs[1] \o seqs[2]
    BY <1>7, <2>1, <2>2, <2>3
  <2>5. N # 1
    BY <1>7
  <2> QED BY <1>2, <2>4, <2>5 DEF N
<1>8. N = 1 \/ N = 2
  BY <1>1
<1> QED BY <1>1, <1>6, <1>7, <1>8 DEF N

\* The pattern of a finder is a pattern.
LEMMA InIsPattern ==
  ASSUME NEW k, NEW pattern, IsIn(k, pattern)
  PROVE  IsPattern(pattern)
  BY Zenon DEF IsIn, Special, Told

\* What a finder finds are candidates of its own, and those read alike are one after
\* the other.
LEMMA WhatAFinderFinds ==
  ASSUME NEW k \in 1..10, Len(text) \in Nat
  PROVE  LET found == Found(Finders[k]) IN
         /\ \E S : found \in Seq(S)
         /\ \A i \in DOMAIN found : IsOf(text, k, found[i])
         /\ \A i, j \in DOMAIN found :
              i < j /\ found[i].reads = found[j].reads => found[i].to <= found[j].at
<1> DEFINE patterns == Finders[k]
           found == Found(patterns)
           seqs == [i \in DOMAIN patterns |-> Of(patterns[i])]
<1>1. PICK n \in 1..2 :
        /\ DOMAIN patterns = 1..n
        /\ \A i \in 1..n : IsIn(k, patterns[i])
        /\ n = 2 => patterns[1].reads # patterns[2].reads
  BY Zenon, ThePatterns DEF IsFinder
<1>2. found = FlattenSeq(seqs)
  BY Zenon DEF Found, Of
<1>3. ASSUME NEW i \in 1..n
      PROVE  /\ Of(patterns[i]) \in Seq(Yield(patterns[i])) /\ InLine(Of(patterns[i]))
             /\ \A j \in DOMAIN Of(patterns[i]) :
                  IsOf(text, k, Of(patterns[i])[j]) /\ Of(patterns[i])[j].reads = patterns[i].reads
  <2> DEFINE p == patterns[i]
             s == Of(p)
  <2>1. IsPattern(p)
    BY <1>1, InIsPattern
  <2>2. s \in Seq(Yield(p)) /\ InLine(s)
    BY <2>1, OfIsInLine
  <2>3. ASSUME NEW j \in DOMAIN s PROVE IsOf(text, k, s[j]) /\ s[j].reads = p.reads
    <3>1. s[j] \in Yield(p)
      <4> HIDE DEF s, p
      <4> QED BY <2>2
    <3>2. Spans(text, p, s[j])
      <4> HIDE DEF s, p
      <4> QED BY Zenon, <3>1, YieldSpans
    <3>3. IsOf(text, k, s[j])
      BY Zenon, <1>1, <3>2 DEF IsOf
    <3> HIDE DEF s, p
    <3> QED BY Zenon, <3>2, <3>3 DEF Spans
  <2> QED BY Zenon, <2>2, <2>3
<1>4. Len(seqs) = n /\ \A i \in 1..n : seqs[i] = Of(patterns[i])
  <2>1. DOMAIN seqs = 1..n /\ n \in Nat
    BY <1>1
  <2>2. \A i \in 1..n : seqs[i] = Of(patterns[i])
    BY <1>1
  <2> HIDE DEF seqs
  <2> QED BY <2>1, <2>2
<1> HIDE DEF found, seqs, patterns
<1>5. found = IF n = 1 THEN seqs[1] ELSE seqs[1] \o seqs[2]
  <2>1. Len(seqs) = 1 \/ Len(seqs) = 2
    BY <1>4
  <2>2. /\ Len(seqs) = 1 => FlattenSeq(seqs) = seqs[1]
        /\ Len(seqs) = 2 => FlattenSeq(seqs) = seqs[1] \o seqs[2]
    BY Zenon, <2>1, FlatOfTwo
  <2> QED BY <1>2, <1>4, <2>1, <2>2
<1>6. CASE n = 1
  <2>1. 1 \in 1..n
    BY <1>6
  <2>2. found = Of(patterns[1])
    BY <1>4, <1>5, <1>6, <2>1
  <2>3. /\ found \in Seq(Yield(patterns[1])) /\ InLine(found)
        /\ \A j \in DOMAIN found : IsOf(text, k, found[j])
    BY Zenon, <1>3, <2>1, <2>2
  <2> QED BY Zenon, <2>3 DEF InLine, found, patterns
<1>7. CASE n = 2
  <2>1. 1 \in 1..n /\ 2 \in 1..n /\ n # 1
    BY <1>7
  <2> DEFINE a == Of(patterns[1])
             b == Of(patterns[2])
             S == Yield(patterns[1]) \cup Yield(patterns[2])
             r == patterns[1].reads
             q == patterns[2].reads
  <2>2. found = a \o b
    BY <1>4, <1>5, <2>1
  <2>3. /\ a \in Seq(Yield(patterns[1])) /\ InLine(a)
        /\ \A j \in DOMAIN a : IsOf(text, k, a[j]) /\ a[j].reads = r
    BY Zenon, <1>3, <2>1
  <2>4. /\ b \in Seq(Yield(patterns[2])) /\ InLine(b)
        /\ \A j \in DOMAIN b : IsOf(text, k, b[j]) /\ b[j].reads = q
    BY Zenon, <1>3, <2>1
  <2>5. r # q
    BY <1>1, <1>7
  <2> HIDE DEF a, b, r, q
  <2>6. a \in Seq(S) /\ b \in Seq(S)
    BY <2>3, <2>4
  <2> HIDE DEF S
  <2>7. /\ found \in Seq(S) /\ Len(found) = Len(a) + Len(b)
        /\ \A i \in 1..Len(a) + Len(b) : found[i] = IF i <= Len(a) THEN a[i] ELSE b[i - Len(a)]
    BY <2>2, <2>6, ConcatProperties
  <2>8. /\ Len(a) \in Nat /\ DOMAIN a = 1..Len(a) /\ Len(b) \in Nat /\ DOMAIN b = 1..Len(b)
        /\ DOMAIN found = 1..Len(a) + Len(b)
    BY <2>6, <2>7
  <2>9. ASSUME NEW i \in DOMAIN found
        PROVE  \/ i <= Len(a) /\ i \in DOMAIN a /\ found[i] = a[i]
               \/ i > Len(a) /\ i - Len(a) \in DOMAIN b /\ found[i] = b[i - Len(a)]
    BY <2>7, <2>8
  <2>10. \A i \in DOMAIN found : IsOf(text, k, found[i])
    BY Zenon, <2>3, <2>4, <2>9
  <2>11. ASSUME NEW i \in DOMAIN found, NEW j \in DOMAIN found, i < j,
                found[i].reads = found[j].reads
         PROVE  found[i].to <= found[j].at
    <3>1. i \in Nat /\ j \in Nat
      BY <2>8
    <3>2. CASE i <= Len(a) /\ i \in DOMAIN a /\ found[i] = a[i]
      <4>1. CASE j <= Len(a) /\ j \in DOMAIN a /\ found[j] = a[j]
        BY <2>3, <2>11, <3>2, <4>1 DEF InLine
      <4>2. CASE j > Len(a) /\ j - Len(a) \in DOMAIN b /\ found[j] = b[j - Len(a)]
        BY <2>3, <2>4, <2>5, <2>11, <3>2, <4>2
      <4> QED BY <2>9, <4>1, <4>2
    <3>3. CASE i > Len(a) /\ i - Len(a) \in DOMAIN b /\ found[i] = b[i - Len(a)]
      <4>1. j > Len(a) /\ i - Len(a) < j - Len(a)
        BY <2>8, <2>11, <3>1, <3>3
      <4>2. j - Len(a) \in DOMAIN b /\ found[j] = b[j - Len(a)]
        BY <2>8, <2>9, <3>1, <4>1
      <4> QED BY <2>4, <3>3, <4>1, <4>2 DEF InLine
    <3> QED BY <2>9, <3>2, <3>3
  <2> QED BY Zenon, <2>7, <2>10, <2>11 DEF found, patterns
<1> QED BY <1>6, <1>7

\* Candidates read alike start at different words and, but for windows, they are one
\* after the other.
Apart(a, b) == a.reads = b.reads => a.at # b.at /\ (a.reads # "rolling" => a.to <= b.at)

\* Before a candidate of the first two finders there are only such candidates.
InTurn(a, b) == FinderOf[b.reads] <= 2 => FinderOf[a.reads] <= FinderOf[b.reads]

\* Which finder a candidate is of.
LEMMA FinderIs ==
  ASSUME NEW t, NEW k \in 1..10, NEW c, IsOf(t, k, c)
  PROVE  /\ FinderOf[c.reads] = k \/ (k = 9 /\ c.reads = "rolling" /\ FinderOf[c.reads] = 8)
         /\ k = 1 => c.reads = "year_over_year"
         /\ k = 2 => c.reads = "fiscal_quarter"
         /\ k = 8 => t[c.at] \in RollingWords
         /\ k = 9 => t[c.at] \in PastWords
<1>1. PICK pattern, way :
         /\ IsIn(k, pattern) /\ c.reads = pattern.reads
         /\ \E i \in DOMAIN pattern.ways : way = pattern.ways[i]
         /\ c.at \in Nat /\ Says(t, c.at, way) /\ IsWay(way) /\ Begins(c.reads, way)
  BY Zenon, WhatItSays
<1>2. FinderOf["rolling"] = 8
  BY DEF FinderOf
<1>3. FinderOf[c.reads] = k \/ (k = 9 /\ c.reads = "rolling" /\ FinderOf[c.reads] = 8)
  BY Zenon, <1>1, <1>2 DEF IsIn
<1>4. /\ k = 1 => Special(pattern, "year_over_year", YoYWords)
      /\ k = 2 => Special(pattern, "fiscal_quarter", FiscalWords)
      /\ k = 8 => AllBeginIn(pattern, RollingWords)
      /\ k = 9 => AllBeginIn(pattern, PastWords)
  BY <1>1 DEF IsIn
<1>5. t[c.at] \in way[1]
  <2>1. 1 \in DOMAIN way /\ c.at + 1 - 1 = c.at
    BY <1>1 DEF Begins, IsWay
  <2> QED BY <1>1, <2>1 DEF Says
<1>6. /\ k = 8 => t[c.at] \in RollingWords
      /\ k = 9 => t[c.at] \in PastWords
  BY <1>1, <1>4, <1>5 DEF AllBeginIn
<1>7. /\ k = 1 => c.reads = "year_over_year"
      /\ k = 2 => c.reads = "fiscal_quarter"
  BY Zenon, <1>1, <1>4 DEF Special
<1> QED BY <1>3, <1>6, <1>7

\* What a later finder finds.
LEMMA OfALaterFinder ==
  ASSUME NEW t, NEW j \in 1..10, NEW k \in 1..10, j < k, NEW a, NEW b, IsOf(t, j, a), IsOf(t, k, b)
  PROVE  Apart(a, b) /\ InTurn(a, b)
<1>1. FinderOf[a.reads] = j \/ (j = 9 /\ a.reads = "rolling" /\ FinderOf[a.reads] = 8)
  BY FinderIs
<1>2. FinderOf[b.reads] = k \/ (k = 9 /\ b.reads = "rolling" /\ FinderOf[b.reads] = 8)
  BY FinderIs
<1>3. InTurn(a, b)
  BY <1>1, <1>2 DEF InTurn
<1>4. ASSUME a.reads = b.reads PROVE a.at # b.at /\ a.reads = "rolling"
  <2>1. j = 8 /\ k = 9 /\ b.reads = "rolling"
    BY <1>1, <1>2, <1>4
  <2>2. t[a.at] \in RollingWords
    BY <2>1, FinderIs
  <2>3. t[b.at] \in PastWords
    BY <2>1, FinderIs
  <2>4. t[a.at] # t[b.at]
    BY <2>2, <2>3 DEF RollingWords, PastWords
  <2> QED BY <1>4, <2>1, <2>4
<1> QED BY <1>3, <1>4 DEF Apart

\* What the same finder finds.
LEMMA OfTheSameFinder ==
  ASSUME NEW t, NEW k \in 1..10, NEW a, NEW b, IsOf(t, k, a), IsOf(t, k, b),
         a.reads = b.reads => a.to <= b.at
  PROVE  Apart(a, b) /\ InTurn(a, b)
<1>1. a.at \in Nat /\ a.to \in Nat /\ a.at < a.to
  BY Zenon, HasWords
<1>2. b.at \in Nat
  BY Zenon, HasWords
<1>3. FinderOf[a.reads] = k \/ (k = 9 /\ a.reads = "rolling" /\ FinderOf[a.reads] = 8)
  BY FinderIs
<1>4. FinderOf[b.reads] = k \/ (k = 9 /\ b.reads = "rolling" /\ FinderOf[b.reads] = 8)
  BY FinderIs
<1>5. InTurn(a, b)
  BY <1>3, <1>4 DEF InTurn
<1>6. Apart(a, b)
  BY <1>1, <1>2 DEF Apart
<1> QED BY <1>5, <1>6

\* What the first f finders have made of a text.
Gathered(t, f, cs) ==
  /\ \E S : cs \in Seq(S)
  /\ \A n \in DOMAIN cs : \E k \in 1..f : IsOf(t, k, cs[n])
  /\ \A m, n \in DOMAIN cs : m < n => Apart(cs[m], cs[n]) /\ InTurn(cs[m], cs[n])

\* Before any finder runs.
LEMMA NothingGathered == \A t : Gathered(t, 0, << >>)
<1>1. << >> \in Seq({}) /\ DOMAIN << >> = {}
  OBVIOUS
<1> QED BY <1>1 DEF Gathered

\* One finder more.
LEMMA GatherMore ==
  ASSUME NEW f \in 0..9, Len(text) \in Nat, Gathered(text, f, candidates)
  PROVE  Gathered(text, f + 1, candidates \o Found(Finders[f + 1]))
<1> DEFINE k == f + 1
           cs == candidates
           found == Found(Finders[k])
           all == cs \o found
<1>1. k \in 1..10 /\ k \in 1..k /\ 1..f \subseteq 1..k /\ 1..f \subseteq 1..10 /\ \A j \in 1..f : j < k
  OBVIOUS
<1>2. /\ \E S : found \in Seq(S)
      /\ \A i \in DOMAIN found : IsOf(text, k, found[i])
      /\ \A i, j \in DOMAIN found :
           i < j /\ found[i].reads = found[j].reads => found[i].to <= found[j].at
  BY Zenon, <1>1, WhatAFinderFinds
<1> HIDE DEF found
<1>3. PICK S : cs \in Seq(S)
  BY DEF Gathered
<1>4. PICK T : found \in Seq(T)
  BY <1>2
<1> HIDE DEF cs
<1>5. cs \in Seq(S \cup T) /\ found \in Seq(S \cup T)
  BY <1>3, <1>4
<1>6. /\ all \in Seq(S \cup T) /\ Len(all) = Len(cs) + Len(found)
      /\ \A i \in 1..Len(cs) + Len(found) : all[i] = IF i <= Len(cs) THEN cs[i] ELSE found[i - Len(cs)]
  BY <1>5, ConcatProperties
<1> HIDE DEF all
<1>7. /\ Len(cs) \in Nat /\ DOMAIN cs = 1..Len(cs) /\ Len(found) \in Nat /\ DOMAIN found = 1..Len(found)
      /\ DOMAIN all = 1..Len(cs) + Len(found)
  BY <1>5, <1>6
<1>8. ASSUME NEW i \in DOMAIN all
      PROVE  \/ i <= Len(cs) /\ i \in DOMAIN cs /\ all[i] = cs[i]
             \/ i > Len(cs) /\ i - Len(cs) \in DOMAIN found /\ all[i] = found[i - Len(cs)]
  BY <1>6, <1>7
<1>9. /\ \A n \in DOMAIN cs : \E j \in 1..f : IsOf(text, j, cs[n])
      /\ \A m, n \in DOMAIN cs : m < n => Apart(cs[m], cs[n]) /\ InTurn(cs[m], cs[n])
  BY Zenon DEF Gathered, cs
<1> HIDE DEF k
<1>10. ASSUME NEW n \in DOMAIN all PROVE \E j \in 1..k : IsOf(text, j, all[n])
  <2>1. CASE n \in DOMAIN cs /\ all[n] = cs[n]
    BY <1>1, <1>9, <2>1
  <2>2. CASE n - Len(cs) \in DOMAIN found /\ all[n] = found[n - Len(cs)]
    BY <1>1, <1>2, <2>2
  <2> QED BY <1>8, <2>1, <2>2
<1>11. ASSUME NEW m \in DOMAIN all, NEW n \in DOMAIN all, m < n
       PROVE  Apart(all[m], all[n]) /\ InTurn(all[m], all[n])
  <2>1. m \in Nat /\ n \in Nat
    BY <1>7
  <2>2. CASE m <= Len(cs) /\ m \in DOMAIN cs /\ all[m] = cs[m]
    <3>1. CASE n <= Len(cs) /\ n \in DOMAIN cs /\ all[n] = cs[n]
      BY <1>9, <1>11, <2>2, <3>1
    <3>2. CASE n > Len(cs) /\ n - Len(cs) \in DOMAIN found /\ all[n] = found[n - Len(cs)]
      <4>1. PICK j \in 1..f : IsOf(text, j, all[m])
        BY <1>9, <2>2
      <4>2. IsOf(text, k, all[n])
        BY <1>2, <3>2
      <4>3. j \in 1..10 /\ j < k
        BY <1>1
      <4> QED BY Zenon, <1>1, <4>1, <4>2, <4>3, OfALaterFinder
    <3> QED BY <1>8, <3>1, <3>2
  <2>3. CASE m > Len(cs) /\ m - Len(cs) \in DOMAIN found /\ all[m] = found[m - Len(cs)]
    <3>1. n > Len(cs) /\ m - Len(cs) < n - Len(cs)
      BY <1>7, <1>11, <2>1, <2>3
    <3>2. n - Len(cs) \in DOMAIN found /\ all[n] = found[n - Len(cs)]
      BY <1>7, <1>8, <2>1, <3>1
    <3>3. IsOf(text, k, all[m]) /\ IsOf(text, k, all[n])
      BY <1>2, <2>3, <3>2
    <3>4. all[m].reads = all[n].reads => all[m].to <= all[n].at
      BY <1>2, <2>3, <3>1, <3>2
    <3> QED BY Zenon, <1>1, <3>3, <3>4, OfTheSameFinder
  <2> QED BY <1>8, <2>2, <2>3
<1>12. Gathered(text, k, all)
  BY Zenon, <1>6, <1>10, <1>11 DEF Gathered
<1> QED BY <1>12 DEF k, all, cs, found

\* A failing finder has run too.
LEMMA OneFinderMore ==
  ASSUME NEW t, NEW f \in Nat, NEW cs, Gathered(t, f, cs)
  PROVE  Gathered(t, f + 1, cs)
<1>1. 1..f \subseteq 1..f + 1
  OBVIOUS
<1>2. \A n \in DOMAIN cs : \E k \in 1..f : IsOf(t, k, cs[n])
  BY Zenon DEF Gathered
<1>3. \A n \in DOMAIN cs : \E k \in 1..f + 1 : IsOf(t, k, cs[n])
  BY <1>1, <1>2
<1> QED BY Zenon, <1>3 DEF Gathered

\* When every match has been considered, those of the first two finders are taken.
LEMMA SpecificIsTaken ==
  ASSUME NEW f \in 0..10, Gathered(text, f, candidates), ReadOnce, considered = Len(candidates),
         chosen \subseteq DOMAIN candidates,
         NEW n \in DOMAIN candidates, FinderOf[candidates[n].reads] <= 2
  PROVE  n \in chosen
<1> SUFFICES ASSUME n \notin chosen PROVE FALSE
  OBVIOUS
<1>1. DOMAIN candidates = 1..Len(candidates)
  BY DEF Gathered
<1>2. PICK d \in chosen : d < n /\ Overlaps(candidates[n], candidates[d])
  BY <1>1 DEF ReadOnce
<1> DEFINE a == candidates[d]
           b == candidates[n]
<1>3. Apart(a, b) /\ InTurn(a, b)
  BY <1>2 DEF Gathered
<1>4. PICK j \in 1..10 : IsOf(text, j, a)
  BY <1>2 DEF Gathered
<1>5. PICK k \in 1..10 : IsOf(text, k, b)
  BY DEF Gathered
<1>6. FinderOf[b.reads] <= 2 /\ Overlaps(b, a)
  BY <1>2
<1> HIDE DEF a, b
<1>7. FinderOf[b.reads] = k \/ (k = 9 /\ b.reads = "rolling" /\ FinderOf[b.reads] = 8)
  BY <1>5, FinderIs
<1>8. FinderOf[a.reads] = j \/ (j = 9 /\ a.reads = "rolling" /\ FinderOf[a.reads] = 8)
  BY <1>4, FinderIs
<1>9. k \in {1, 2} /\ j \in {1, 2} /\ j <= k
  BY <1>3, <1>6, <1>7, <1>8 DEF InTurn
<1>10. ASSUME j = k PROVE FALSE
  <2>1. a.reads = b.reads /\ a.reads # "rolling"
    <3>1. k = 1 => a.reads = "year_over_year" /\ b.reads = "year_over_year"
      BY <1>4, <1>5, <1>10, FinderIs
    <3>2. k = 2 => a.reads = "fiscal_quarter" /\ b.reads = "fiscal_quarter"
      BY <1>4, <1>5, <1>10, FinderIs
    <3> QED BY <1>9, <3>1, <3>2
  <2>2. a.to <= b.at
    BY <1>3, <2>1 DEF Apart
  <2> QED BY <1>6, <2>2 DEF Overlaps
<1>11. ASSUME j = 1, k = 2 PROVE FALSE
  <2>1. ~Overlaps(a, b)
    BY Zenon, <1>4, <1>5, <1>11, SpecialsPart
  <2> QED BY <1>6, <2>1, OverlapsIsSymmetric
<1> QED BY <1>9, <1>10, <1>11

\* A match that holds another and more.
Holds(a, b) == Covers(a, b) /\ a.to - a.at # b.to - b.at

\* It is of the first two finders, and overlaps the other.
LEMMA HoldsMore ==
  ASSUME NEW t, NEW j \in 1..10, NEW k \in 1..10, NEW a, NEW b, IsOf(t, j, a), IsOf(t, k, b),
         Holds(a, b), Apart(a, b) \/ Apart(b, a)
  PROVE  FinderOf[a.reads] <= 2 /\ Overlaps(a, b)
<1>1. Covers(a, b) /\ a.to - a.at # b.to - b.at
  BY DEF Holds
<1>2. j < 3
  <2> SUFFICES ASSUME j >= 3 PROVE FALSE
    OBVIOUS
  <2>1. a.to - a.at = b.to - b.at \/ (a.at = b.at /\ a.reads = b.reads)
    BY <1>1, NoShorterPart
  <2> QED BY <1>1, <2>1 DEF Apart
<1>3. FinderOf[a.reads] = j \/ (j = 9 /\ a.reads = "rolling" /\ FinderOf[a.reads] = 8)
  BY FinderIs
<1>4. b.at \in Nat /\ b.to \in Nat /\ b.at < b.to
  BY Zenon, HasWords
<1>5. a.at \in Nat /\ a.to \in Nat
  BY Zenon, HasWords
<1>6. Overlaps(a, b)
  BY <1>1, <1>4, <1>5 DEF Overlaps, Covers
<1> QED BY <1>2, <1>3, <1>6

\* Nothing that is taken is a part of a longer match.
LEMMA NothingIsAPart ==
  ASSUME NEW f \in 0..10, Gathered(text, f, candidates), ReadOnce, considered = Len(candidates),
         chosen \subseteq DOMAIN candidates,
         NEW x \in chosen, NEW n \in DOMAIN candidates
  PROVE  ~Holds(candidates[n], candidates[x])
<1> DEFINE long == candidates[n]
           short == candidates[x]
<1> SUFFICES ASSUME Holds(long, short) PROVE FALSE
  OBVIOUS
<1>1. PICK j \in 1..10 : IsOf(text, j, long)
  BY DEF Gathered
<1>2. PICK k \in 1..10 : IsOf(text, k, short)
  BY DEF Gathered
<1>3. n # x /\ x \in DOMAIN candidates /\ n \in Nat /\ x \in Nat
  BY DEF Gathered, Holds
<1>4. Apart(long, short) \/ Apart(short, long)
  BY <1>3 DEF Gathered
<1>5. n \in chosen => ~Overlaps(long, short)
  BY <1>3 DEF ReadOnce
<1>6. FinderOf[long.reads] <= 2 => n \in chosen
  BY SpecificIsTaken
<1> HIDE DEF long, short
<1>7. FinderOf[long.reads] <= 2 /\ Overlaps(long, short)
  BY Zenon, <1>1, <1>2, <1>4, HoldsMore
<1> QED BY <1>5, <1>6, <1>7

\* The matches taken are one after the other in the answer, which has no others.
LEMMA StartsInOrder ==
  ASSUME IsFiniteSet(chosen),
         \A c \in chosen : /\ candidates[c].at \in Nat /\ candidates[c].to \in Nat
                           /\ candidates[c].at < candidates[c].to,
         \A a, b \in chosen : a # b => ~Overlaps(candidates[a], candidates[b])
  PROVE  /\ \A i \in DOMAIN ByStart : \E c \in chosen : ByStart[i] = candidates[c]
         /\ InLine(ByStart)
<1> DEFINE D == chosen
           N == Cardinality(D)
           at(c) == candidates[c].at
           to(c) == candidates[c].to
           Up(c) == {d \in D : at(d) <= at(c)}
           rank == [c \in D |-> Cardinality(Up(c))]
           pick == [n \in 1..N |-> CHOOSE c \in D : rank[c] = n]
           s == ByStart
<1>1. s = [n \in 1..N |-> candidates[CHOOSE c \in D : Cardinality(Up(c)) = n]]
  BY Zenon DEF ByStart
<1>2. \A c \in D : at(c) \in Nat /\ to(c) \in Nat /\ at(c) < to(c)
  OBVIOUS
<1>3. \A a, b \in D : a # b => to(a) <= at(b) \/ to(b) <= at(a)
  BY DEF Overlaps
<1>4. IsFiniteSet(D) /\ N \in Nat
  BY FS_CardinalityType
<1>5. \A c \in D : rank[c] = Cardinality(Up(c))
  OBVIOUS
<1> HIDE DEF s, D, N, rank
<1>6. \A a, b \in D : a # b => (at(a) < at(b) <=> ~(at(b) < at(a))) /\ (at(a) < at(b) => to(a) <= at(b))
  <2> HIDE DEF at, to
  <2> QED BY <1>2, <1>3
<1>7. \A c \in D : Up(c) \in SUBSET D /\ c \in Up(c)
  BY <1>2
<1>8. ASSUME NEW a \in D, NEW b \in D, at(a) < at(b)
      PROVE  Up(a) \in SUBSET Up(b) /\ b \notin Up(a)
  <2> HIDE DEF at
  <2> QED BY <1>2, <1>8
<1> HIDE DEF Up, at, to
<1>9. \A c \in D : IsFiniteSet(Up(c)) /\ Cardinality(Up(c)) \in Nat /\ Cardinality(Up(c)) <= N
  <2>1. ASSUME NEW c \in D
        PROVE  IsFiniteSet(Up(c)) /\ Cardinality(Up(c)) \in Nat /\ Cardinality(Up(c)) <= N
    BY <1>4, <1>7, FS_Subset, FS_CardinalityType DEF N
  <2> QED BY <2>1
<1>10. ASSUME NEW a \in D, NEW b \in D, at(a) < at(b) PROVE rank[a] < rank[b]
  <2>1. Up(a) \in SUBSET Up(b) /\ Up(a) # Up(b)
    BY <1>7, <1>8, <1>10
  <2>2. Cardinality(Up(a)) <= Cardinality(Up(b)) /\ Cardinality(Up(b)) # Cardinality(Up(a))
    BY <1>9, <2>1, FS_Subset
  <2> QED BY <1>5, <1>9, <2>2
<1>11. \A c \in D : rank[c] \in 1..N
  <2>1. ASSUME NEW c \in D PROVE rank[c] \in 1..N
    <3>1. Cardinality(Up(c)) # 0
      BY <1>7, <1>9, FS_EmptySet
    <3> QED BY <1>4, <1>5, <1>9, <3>1
  <2> QED BY <2>1
<1>12. \A a, b \in D : rank[a] = rank[b] => a = b
  <2>1. ASSUME NEW a \in D, NEW b \in D, a # b PROVE rank[a] # rank[b]
    <3>1. rank[a] \in Nat /\ rank[b] \in Nat
      BY <1>4, <1>11
    <3>2. at(a) < at(b) \/ at(b) < at(a)
      BY <1>6, <2>1
    <3>3. rank[a] < rank[b] \/ rank[b] < rank[a]
      BY <1>10, <2>1, <3>2
    <3> QED BY <3>1, <3>3
  <2> QED BY <2>1
<1>13. rank \in [D -> 1..N]
  <2>1. rank = [c \in D |-> rank[c]]
    BY DEF rank
  <2> QED BY <1>11, <2>1
<1>14. rank \in Injection(D, 1..N)
  BY <1>12, <1>13 DEF Injection, IsInjective
<1>15. IsFiniteSet(1..N) /\ Cardinality(1..N) = N
  <2>1. 1 \in Int /\ N \in Int /\ (IF 1 > N THEN 0 ELSE N - 1 + 1) = N
    BY <1>4
  <2> QED BY <2>1, FS_Interval
<1>16. rank \in Surjection(D, 1..N)
  BY <1>4, <1>14, <1>15, FS_Injection DEF N
<1>17. \A n \in 1..N : \E c \in D : rank[c] = n
  BY <1>16 DEF Surjection
<1>18. \A n \in 1..N : pick[n] \in D /\ rank[pick[n]] = n
  BY <1>17
<1>19. DOMAIN s = 1..N /\ \A n \in 1..N : s[n] = candidates[pick[n]]
  <2>1. DOMAIN s = 1..N
    BY Zenon, <1>1
  <2>2. ASSUME NEW n \in 1..N PROVE s[n] = candidates[pick[n]]
    <3>1. s[n] = candidates[CHOOSE c \in D : Cardinality(Up(c)) = n]
      BY Zenon, <1>1
    <3>2. pick[n] = CHOOSE c \in D : rank[c] = n
      BY Zenon
    <3>3. pick[n] = CHOOSE c \in D : Cardinality(Up(c)) = n
      BY <1>5, <3>2
    <3> QED BY Zenon, <3>1, <3>3
  <2> QED BY <2>1, <2>2
<1> HIDE DEF pick
<1>20. ASSUME NEW i \in 1..N, NEW j \in 1..N, i < j PROVE s[i].to <= s[j].at
  <2>1. pick[i] \in D /\ pick[j] \in D /\ rank[pick[i]] = i /\ rank[pick[j]] = j
    BY <1>18
  <2>2. pick[i] # pick[j] /\ ~(rank[pick[j]] < rank[pick[i]])
    BY <1>4, <1>20, <2>1
  <2>3. at(pick[i]) < at(pick[j])
    BY <1>6, <1>10, <2>1, <2>2
  <2>4. to(pick[i]) <= at(pick[j])
    BY <1>6, <2>1, <2>2, <2>3
  <2> QED BY <1>19, <2>4 DEF at, to
<1>21. InLine(s)
  BY <1>19, <1>20 DEF InLine
<1>22. \A i \in DOMAIN s : \E c \in D : s[i] = candidates[c]
  BY <1>18, <1>19
<1> QED BY <1>21, <1>22 DEF s, D

\* What the parser knows of its answer: what the candidates are, that none is left out
\* when it answers, and where the answer comes from.
AnswerInv ==
  /\ ParserInv
  /\ text \in Seq(STRING) /\ finder \in 0..10
  /\ Gathered(text, finder, candidates)
  /\ phase = "idle" => finder = 0 /\ candidates = << >>
  /\ considered <= Len(candidates)
  /\ IF phase = "answered" THEN considered = Len(candidates) ELSE expressions = << >>
  /\ \A i \in DOMAIN expressions : \E c \in chosen : expressions[i] = candidates[c]
  /\ InLine(expressions)

\* Before anything is asked.
LEMMA InitAnswerInv == ParserInit => AnswerInv
<1> SUFFICES ASSUME ParserInit PROVE AnswerInv
  OBVIOUS
<1>1. ParserInv
  BY InitParserInv
<1>2. /\ text = << >> /\ finder = 0 /\ candidates = << >> /\ considered = 0 /\ expressions = << >>
      /\ phase = "idle"
  BY DEF ParserInit
<1>3. text \in Seq(STRING) /\ 0 \in 0..10 /\ DOMAIN expressions = {} /\ Len(candidates) = 0
  BY <1>2
<1>4. Gathered(text, finder, candidates)
  BY <1>2, NothingGathered
<1> QED BY <1>1, <1>2, <1>3, <1>4 DEF AnswerInv, InLine

\* As long as nothing is answered.
LEMMA NoAnswerYet ==
  ASSUME ParserInv', text' \in Seq(STRING), finder' \in 0..10, Gathered(text', finder', candidates'),
         phase' # "idle", phase' # "answered", considered' <= Len(candidates'), expressions' = << >>
  PROVE  AnswerInv'
<1>1. DOMAIN expressions' = {}
  OBVIOUS
<1> QED BY <1>1 DEF AnswerInv, InLine

\* The matches that are taken are candidates.
LEMMA TakenAreCandidates ==
  ASSUME AnswerInv
  PROVE  /\ Len(candidates) \in Nat /\ DOMAIN candidates = 1..Len(candidates)
         /\ chosen \subseteq DOMAIN candidates /\ IsFiniteSet(chosen)
         /\ considered \in Nat /\ ReadOnce
<1>1. Len(candidates) \in Nat /\ DOMAIN candidates = 1..Len(candidates)
  BY DEF AnswerInv, Gathered
<1>2. considered \in Nat /\ chosen \subseteq 1..considered /\ considered <= Len(candidates) /\ ReadOnce
  BY DEF AnswerInv, ParserInv
<1>3. chosen \in SUBSET (1..considered)
  BY <1>2
<1>4. IsFiniteSet(1..considered)
  BY <1>2, FS_Interval
<1>5. IsFiniteSet(chosen)
  BY <1>3, <1>4, FS_Subset
<1> QED BY <1>1, <1>2, <1>5

\* A question is asked, or a finder runs.
LEMMA FindingKeepsAnswerInv ==
  ASSUME AnswerInv, ParserInv', Parse \/ Find
  PROVE  AnswerInv'
<1>1. CASE Parse
  <2>1. /\ phase = "idle" /\ phase' = "finding" /\ text' \in Seq(STRING) /\ finder' = finder
        /\ candidates' = candidates /\ considered' = considered /\ expressions' = expressions
    BY <1>1, ParserAssumption DEF Parse
  <2>2. finder = 0 /\ candidates = << >> /\ expressions = << >> /\ considered <= Len(candidates)
    BY <2>1 DEF AnswerInv
  <2>3. Gathered(text', finder', candidates') /\ finder' \in 0..10
    BY <2>1, <2>2, NothingGathered
  <2> QED BY <2>1, <2>2, <2>3, NoAnswerYet
<1>2. CASE Find
  <2> DEFINE found == Found(Finders[finder + 1])
  <2>1. /\ phase = "finding" /\ finder < Len(Finders) /\ finder' = finder + 1
        /\ phase' \in {"raised", "finding"} /\ text' = text /\ considered' = considered
        /\ expressions' = expressions /\ (candidates' = candidates \/ candidates' = candidates \o found)
    BY Zenon, <1>2 DEF Find
  <2>2. /\ text \in Seq(STRING) /\ finder \in 0..10 /\ Gathered(text, finder, candidates)
        /\ expressions = << >>
    BY <2>1 DEF AnswerInv
  <2>3. considered = 0 /\ Len(text) \in Nat
    BY <2>1, <2>2 DEF AnswerInv, ParserInv
  <2>4. finder \in 0..9 /\ finder' \in 0..10 /\ finder \in Nat
    <3>1. Len(Finders) = 10
      BY ThePatterns
    <3> QED BY <2>1, <2>2, <3>1
  <2>5. Gathered(text, finder + 1, candidates)
    BY Zenon, <2>2, <2>4, OneFinderMore
  <2>6. Gathered(text, finder + 1, candidates \o found)
    BY Zenon, <2>2, <2>3, <2>4, GatherMore
  <2> HIDE DEF found
  <2>7. Gathered(text', finder', candidates')
    BY <2>1, <2>5, <2>6
  <2>8. Len(candidates') \in Nat
    BY <2>7 DEF Gathered
  <2>9. considered' <= Len(candidates')
    BY <2>1, <2>3, <2>8
  <2>10. phase' # "idle" /\ phase' # "answered"
    BY <2>1
  <2> QED BY <2>1, <2>2, <2>4, <2>7, <2>9, <2>10, NoAnswerYet
<1> QED BY <1>1, <1>2

\* The choice begins, or goes on.
LEMMA ChoosingKeepsAnswerInv ==
  ASSUME AnswerInv, ParserInv', FindersDone \/ Consider
  PROVE  AnswerInv'
<1>1. /\ phase \in {"finding", "choosing"} /\ phase' = "choosing" /\ text' = text /\ finder' = finder
      /\ candidates' = candidates /\ expressions' = expressions
  BY DEF FindersDone, Consider
<1>2. /\ text \in Seq(STRING) /\ finder \in 0..10 /\ Gathered(text, finder, candidates)
      /\ expressions = << >> /\ considered <= Len(candidates)
  BY <1>1 DEF AnswerInv
<1>3. considered' <= Len(candidates')
  <2>1. considered' = considered \/ (considered < Len(candidates) /\ considered' = considered + 1)
    BY DEF FindersDone, Consider
  <2>2. considered \in Nat /\ Len(candidates) \in Nat
    BY TakenAreCandidates
  <2> QED BY <1>1, <1>2, <2>1, <2>2
<1>4. Gathered(text', finder', candidates')
  BY <1>1, <1>2
<1> QED BY <1>1, <1>2, <1>3, <1>4, NoAnswerYet

\* The answer is given.
LEMMA AnswerKeepsAnswerInv ==
  ASSUME AnswerInv, ParserInv', Answer
  PROVE  AnswerInv'
<1>1. /\ phase' = "answered" /\ text' = text /\ finder' = finder /\ candidates' = candidates
      /\ considered' = considered /\ chosen' = chosen /\ considered = Len(candidates)
      /\ expressions' = ByStart
  BY DEF Answer
<1>2. /\ text \in Seq(STRING) /\ finder \in 0..10 /\ Gathered(text, finder, candidates)
      /\ considered <= Len(candidates)
  BY DEF AnswerInv
<1>3. chosen \subseteq DOMAIN candidates /\ IsFiniteSet(chosen) /\ ReadOnce
  BY TakenAreCandidates
<1>4. ASSUME NEW c \in chosen
      PROVE  /\ candidates[c].at \in Nat /\ candidates[c].to \in Nat
             /\ candidates[c].at < candidates[c].to
  <2>1. PICK k \in 1..finder : IsOf(text, k, candidates[c])
    BY <1>2, <1>3 DEF Gathered
  <2>2. k \in 1..10
    BY <1>2
  <2> QED BY Zenon, <2>1, <2>2, HasWords
<1>5. \A a, b \in chosen : a # b => ~Overlaps(candidates[a], candidates[b])
  BY <1>3 DEF ReadOnce
<1>6. /\ \A i \in DOMAIN ByStart : \E c \in chosen : ByStart[i] = candidates[c]
      /\ InLine(ByStart)
  BY <1>3, <1>4, <1>5, StartsInOrder
<1> DEFINE s == ByStart
<1>7. /\ \A i \in DOMAIN s : \E c \in chosen : s[i] = candidates[c]
      /\ InLine(s) /\ expressions' = s
  BY Zenon, <1>1, <1>6
<1> HIDE DEF s
<1>8. /\ \A i \in DOMAIN expressions' : \E c \in chosen' : expressions'[i] = candidates'[c]
      /\ InLine(expressions')
  BY Zenon, <1>1, <1>7
<1>9. Gathered(text', finder', candidates')
  BY <1>1, <1>2
<1> QED BY <1>1, <1>2, <1>8, <1>9 DEF AnswerInv

\* Nothing happens.
LEMMA StutterKeepsAnswerInv ==
  ASSUME AnswerInv, ParserInv', UNCHANGED parserVars
  PROVE  AnswerInv'
<1>1. /\ phase' = phase /\ text' = text /\ finder' = finder /\ candidates' = candidates
      /\ considered' = considered /\ chosen' = chosen /\ expressions' = expressions
  BY DEF parserVars
<1> QED BY <1>1 DEF AnswerInv

\* In every answer the more specific match is taken, and the answer is in the order of
\* the text: for every question, whatever the numbers in it are, as long as no number
\* is one of the words the patterns spell out (parser.py:84-105).
THEOREM TheMoreSpecificWins == ParserSpec => []MostSpecificWins
<1>1. AnswerInv /\ [ParserNext]_parserVars => AnswerInv'
  <2> SUFFICES ASSUME AnswerInv, [ParserNext]_parserVars PROVE AnswerInv'
    OBVIOUS
  <2>1. ParserInv'
    BY ParserStays DEF AnswerInv
  <2>2. CASE Parse \/ Find
    BY <2>1, <2>2, FindingKeepsAnswerInv
  <2>3. CASE FindersDone \/ Consider
    BY <2>1, <2>3, ChoosingKeepsAnswerInv
  <2>4. CASE Answer
    BY <2>1, <2>4, AnswerKeepsAnswerInv
  <2>5. CASE UNCHANGED parserVars
    BY <2>1, <2>5, StutterKeepsAnswerInv
  <2> QED BY <2>2, <2>3, <2>4, <2>5 DEF ParserNext
<1>2. AnswerInv => MostSpecificWins
  <2> SUFFICES ASSUME AnswerInv PROVE MostSpecificWins
    OBVIOUS
  <2>1. ASSUME NEW i \in DOMAIN expressions, NEW n \in DOMAIN candidates,
               Covers(candidates[n], expressions[i])
        PROVE  candidates[n].to - candidates[n].at = expressions[i].to - expressions[i].at
    <3>1. considered = Len(candidates)
      <4>1. expressions # << >>
        BY <2>1
      <4> QED BY <4>1 DEF AnswerInv
    <3>2. PICK x \in chosen : expressions[i] = candidates[x]
      BY DEF AnswerInv
    <3>3. finder \in 0..10 /\ Gathered(text, finder, candidates)
      BY DEF AnswerInv
    <3>4. chosen \subseteq DOMAIN candidates /\ ReadOnce
      BY TakenAreCandidates
    <3>5. ~Holds(candidates[n], candidates[x])
      BY <3>1, <3>3, <3>4, NothingIsAPart
    <3> QED BY <2>1, <3>2, <3>5 DEF Holds
  <2>2. InLine(expressions)
    BY DEF AnswerInv
  <2> QED BY <2>1, <2>2 DEF MostSpecificWins, InLine
<1> QED BY <1>1, <1>2, InitAnswerInv, PTL DEF ParserSpec

(***************************************************************************)
(* The mirror of stock quantities.                                         *)
(***************************************************************************)

MirrorTypes ==
  /\ value \in [Products -> Quantities \cup {None}] /\ index \subseteq Products
  /\ doing \in [Clients -> Operations] /\ product \in [Clients -> Products]
  /\ todo \in [Clients -> SUBSET Products]
  /\ torn \subseteq Products /\ met \in [Clients -> SUBSET Products]

Resetting(c) == doing[c] = "reset"

\* What is set while a reset is between its two commands, the reset has met.
Noticed == \A c \in Clients : Resetting(c) => BeingSet \subseteq met[c]

\* A value a reset is not about to delete was set since the reset read the index,
\* or was torn before.
ResetKnows ==
  \A c \in Clients : Resetting(c) =>
    \A p \in Products : value[p] # None => p \in todo[c] \cup met[c] \cup torn

\* A value that is gone before its set has reached the index was deleted by a
\* reset, which has torn it.
SetKnows == \A p \in BeingSet : value[p] = None => p \in torn

MirrorInv == MirrorTypes /\ MismatchExplained /\ Noticed /\ ResetKnows /\ SetKnows

USE DEF Operations, Resetting

\* An empty mirror agrees.
LEMMA InitMirrorInv == MirrorInit => MirrorInv
<1> SUFFICES ASSUME MirrorInit PROVE MirrorInv
  OBVIOUS
<1>1. \A c \in Clients : doing[c] = "idle"
  BY DEF MirrorInit
<1>2. BeingSet = {}
  BY <1>1 DEF BeingSet
<1>3. MirrorTypes
  BY MirrorAssumption DEF MirrorInit, MirrorTypes, NoQuantities
<1>4. MismatchExplained
  BY DEF MirrorInit, MismatchExplained, Agree, NoQuantities
<1> QED BY <1>1, <1>2, <1>3, <1>4 DEF MirrorInv, Noticed, ResetKnows, SetKnows

\* What a set adds to the products being set, and what the resets learn of it.
LEMMA SetValueKeepsMirrorInv ==
  ASSUME MirrorInv, NEW c \in Clients, NEW p \in Products, NEW q \in Quantities, SetValue(c, p, q)
  PROVE  MirrorInv'
<1> USE DEF MirrorInv, SetValue, Goes, Meets
<1>1. MirrorTypes'
  BY DEF MirrorTypes
<1>2. doing[c] = "idle" /\ doing' = [doing EXCEPT ![c] = "set"] /\ product' = [product EXCEPT ![c] = p]
  OBVIOUS
<1>3. BeingSet' = BeingSet \cup {p}
  BY <1>2 DEF MirrorTypes, BeingSet
<1>4. \A x \in Products : x # p => value'[x] = value[x]
  BY DEF MirrorTypes
<1>5. value'[p] # None
  BY MirrorAssumption DEF MirrorTypes
<1>6. \A x \in Clients : doing[x] = "reset" => met'[x] = met[x] \cup {p}
  BY DEF MirrorTypes
<1>7. \A x \in Clients : doing'[x] = "reset" <=> doing[x] = "reset"
  BY <1>2 DEF MirrorTypes
<1>8. MismatchExplained'
  BY <1>3, <1>4 DEF MismatchExplained, Agree
<1>9. Noticed'
  BY <1>3, <1>6, <1>7 DEF Noticed
<1>10. ResetKnows'
  BY <1>4, <1>6, <1>7 DEF ResetKnows
<1>11. SetKnows'
  BY <1>3, <1>4, <1>5 DEF SetKnows, BeingSet
<1> QED BY <1>1, <1>8, <1>9, <1>10, <1>11

\* A quantity that is not set.
LEMMA SetValueFailsKeepsMirrorInv ==
  ASSUME MirrorInv, NEW c \in Clients, NEW p \in Products, NEW q \in Quantities, SetValueFails(c, p, q)
  PROVE  MirrorInv'
<1> USE DEF MirrorInv, SetValueFails, Meets
<1>1. MirrorTypes'
  BY DEF MirrorTypes
<1>2. UNCHANGED <<doing, product, BeingSet>>
  BY DEF BeingSet
<1>3. \A x \in Products : x # p => value'[x] = value[x]
  BY DEF MirrorTypes
<1>4. \A x \in Clients : doing[x] = "reset" => met'[x] = met[x] \cup {p}
  BY DEF MirrorTypes
<1>5. MismatchExplained'
  BY <1>2, <1>3 DEF MismatchExplained, Agree
<1>6. Noticed'
  BY <1>2, <1>4 DEF Noticed
<1>7. ResetKnows'
  BY <1>2, <1>3, <1>4 DEF ResetKnows
<1>8. SetKnows'
  BY <1>2, <1>3 DEF SetKnows, BeingSet, MirrorTypes
<1> QED BY <1>1, <1>5, <1>6, <1>7, <1>8

\* Its product reaches the index: what was torn is whole again, unless the value
\* has been deleted meanwhile.
LEMMA AddToIndexKeepsMirrorInv ==
  ASSUME MirrorInv, NEW c \in Clients, AddToIndex(c)
  PROVE  MirrorInv'
<1> DEFINE p == product[c]
<1> USE DEF MirrorInv, AddToIndex, Goes, Meets
<1>1. p \in Products /\ p \in BeingSet
  BY DEF MirrorTypes, BeingSet
<1>2. MirrorTypes'
  BY <1>1 DEF MirrorTypes
<1>3. doing[c] = "set" /\ doing' = [doing EXCEPT ![c] = "idle"] /\ UNCHANGED product
  OBVIOUS
<1>4. BeingSet' \subseteq BeingSet /\ \A x \in BeingSet : x # p => x \in BeingSet'
  BY <1>3 DEF MirrorTypes, BeingSet
<1>5. \A x \in Clients : doing[x] = "reset" => met'[x] = met[x] \cup {p}
  BY DEF MirrorTypes
<1>6. \A x \in Clients : doing'[x] = "reset" <=> doing[x] = "reset"
  BY <1>3 DEF MirrorTypes
<1>7. \A x \in Products : x # p => (x \in torn' <=> x \in torn) /\ (x \in index' <=> x \in index)
  OBVIOUS
<1>8. p \in index' /\ (value[p] = None => p \in torn') /\ value' = value
  BY <1>1 DEF SetKnows
<1>9. MismatchExplained'
  BY <1>4, <1>7, <1>8 DEF MismatchExplained, Agree
<1>10. Noticed'
  BY <1>4, <1>5, <1>6 DEF Noticed
<1>11. ResetKnows'
  BY <1>5, <1>6, <1>7, <1>8 DEF ResetKnows
<1>12. SetKnows'
  BY <1>4, <1>7, <1>8 DEF SetKnows, BeingSet, MirrorTypes
<1> QED BY <1>2, <1>9, <1>10, <1>11, <1>12

\* An index entry that is not made.
LEMMA AddToIndexFailsKeepsMirrorInv ==
  ASSUME MirrorInv, NEW c \in Clients, AddToIndexFails(c)
  PROVE  MirrorInv'
<1> DEFINE p == product[c]
<1> USE DEF MirrorInv, AddToIndexFails, Goes, Meets
<1>1. p \in Products
  BY DEF MirrorTypes
<1>2. MirrorTypes'
  BY <1>1 DEF MirrorTypes
<1>3. doing[c] = "set" /\ doing' = [doing EXCEPT ![c] = "idle"] /\ UNCHANGED product
  OBVIOUS
<1>4. BeingSet' \subseteq BeingSet /\ \A x \in BeingSet : x # p => x \in BeingSet'
  BY <1>3 DEF MirrorTypes, BeingSet
<1>5. \A x \in Clients : doing[x] = "reset" => met'[x] = met[x] \cup {p}
  BY DEF MirrorTypes
<1>6. \A x \in Clients : doing'[x] = "reset" <=> doing[x] = "reset"
  BY <1>3 DEF MirrorTypes
<1>7. torn' = torn \cup {p} /\ value' = value /\ \A x \in Products : x # p => (x \in index' <=> x \in index)
  OBVIOUS
<1>8. MismatchExplained'
  BY <1>4, <1>7 DEF MismatchExplained, Agree
<1>9. Noticed'
  BY <1>4, <1>5, <1>6 DEF Noticed
<1>10. ResetKnows'
  BY <1>5, <1>6, <1>7 DEF ResetKnows
<1>11. SetKnows'
  BY <1>4, <1>7 DEF SetKnows, BeingSet, MirrorTypes
<1> QED BY <1>2, <1>8, <1>9, <1>10, <1>11

\* A reset reads the index: what has a value and is not in it is explained
\* already.
LEMMA ResetKeepsMirrorInv ==
  ASSUME MirrorInv, NEW c \in Clients, Reset(c)
  PROVE  MirrorInv'
<1> USE DEF MirrorInv, Reset, Goes, stored
<1>1. BeingSet \subseteq Products
  BY DEF BeingSet
<1>2. MirrorTypes'
  BY <1>1 DEF MirrorTypes
<1>3. BeingSet' = BeingSet /\ UNCHANGED <<value, index, torn>>
  BY DEF MirrorTypes, BeingSet, stored
<1>4. todo'[c] = index /\ met'[c] = BeingSet
  BY DEF MirrorTypes
<1>5. \A x \in Clients : x # c => doing'[x] = doing[x] /\ todo'[x] = todo[x] /\ met'[x] = met[x]
  BY DEF MirrorTypes
<1>6. MismatchExplained' /\ SetKnows'
  BY <1>3 DEF MismatchExplained, Agree, SetKnows
<1>7. Noticed'
  BY <1>3, <1>4, <1>5 DEF Noticed
<1>8. ResetKnows'
  BY <1>3, <1>4, <1>5 DEF ResetKnows, MismatchExplained, Agree
<1> QED BY <1>2, <1>6, <1>7, <1>8

\* A reset deletes: what it leaves in the index' place without a value, or with
\* one, it has met.
LEMMA DeleteKeepsMirrorInv ==
  ASSUME MirrorInv, NEW c \in Clients, Delete(c)
  PROVE  MirrorInv'
<1> USE DEF MirrorInv, Delete, Goes
<1>1. MirrorTypes'
  BY DEF MirrorTypes
<1>2. doing[c] = "reset" /\ doing' = [doing EXCEPT ![c] = "idle"] /\ UNCHANGED product
  OBVIOUS
<1>3. BeingSet' = BeingSet
  BY <1>2 DEF MirrorTypes, BeingSet
<1>4. index' = {} /\ torn' = torn \cup met[c]
  OBVIOUS
<1>5. \A p \in Products : value'[p] = IF p \in todo[c] THEN None ELSE value[p]
  OBVIOUS
<1>6. \A x \in Clients : doing'[x] = "reset" => /\ doing[x] = "reset"
                                                /\ todo'[x] = todo[x] /\ met'[x] = met[x]
  BY <1>2 DEF MirrorTypes
<1>7. MismatchExplained'
  BY <1>2, <1>4, <1>5 DEF MismatchExplained, Agree, ResetKnows
<1>8. Noticed'
  BY <1>3, <1>6 DEF Noticed
<1>9. ResetKnows'
  BY <1>4, <1>5, <1>6 DEF ResetKnows
<1>10. SetKnows'
  BY <1>2, <1>3, <1>4 DEF SetKnows, Noticed
<1> QED BY <1>1, <1>7, <1>8, <1>9, <1>10

\* Listings change nothing the others go by, and an operation that gives up
\* leaves nothing behind.
LEMMA OthersKeepMirrorInv ==
  ASSUME MirrorInv, NEW c \in Clients, List(c) \/ ListNext(c) \/ ListEnds(c) \/ GivesUp(c)
  PROVE  MirrorInv'
<1> USE DEF MirrorInv, List, ListNext, ListEnds, GivesUp, Goes, stored
<1>1. MirrorTypes'
  BY DEF MirrorTypes
<1>2. UNCHANGED <<value, index, product, torn>>
  OBVIOUS
<1>3. \A x \in Clients : /\ doing'[x] = "set" <=> doing[x] = "set"
                         /\ doing'[x] = "reset" => doing[x] = "reset" /\ todo'[x] = todo[x] /\ met'[x] = met[x]
  BY DEF MirrorTypes
<1>4. BeingSet' = BeingSet
  BY <1>2, <1>3 DEF BeingSet
<1>5. MismatchExplained' /\ SetKnows'
  BY <1>2, <1>4 DEF MismatchExplained, Agree, SetKnows
<1>6. Noticed' /\ ResetKnows'
  BY <1>2, <1>3, <1>4 DEF Noticed, ResetKnows
<1> QED BY <1>1, <1>5, <1>6

\* A quantity without its index entry, or an entry without its quantity, is being
\* set, or its last set failed or overlapped a reset: for any number of clients
\* and products (redis_adapter.py:71-98).
THEOREM MismatchIsExplained == MirrorSpec => []MismatchExplained
<1>1. MirrorInv /\ [MirrorNext]_mirrorVars => MirrorInv'
  <2> SUFFICES ASSUME MirrorInv, [MirrorNext]_mirrorVars PROVE MirrorInv'
    OBVIOUS
  <2>1. CASE UNCHANGED mirrorVars
    BY <2>1 DEF mirrorVars, stored, MirrorInv, MirrorTypes, MismatchExplained, Agree, BeingSet, Noticed, ResetKnows, SetKnows
  <2>2. CASE MirrorNext
    <3>1. PICK c \in Clients : ClientNext(c)
      BY <2>2 DEF MirrorNext
    <3> QED
      BY <3>1, SetValueKeepsMirrorInv, SetValueFailsKeepsMirrorInv, AddToIndexKeepsMirrorInv, AddToIndexFailsKeepsMirrorInv,
         ResetKeepsMirrorInv, DeleteKeepsMirrorInv, OthersKeepMirrorInv DEF ClientNext
  <2> QED BY <2>1, <2>2
<1>2. MirrorInv => MismatchExplained
  BY DEF MirrorInv
<1> QED BY <1>1, <1>2, InitMirrorInv, PTL DEF MirrorSpec

(***************************************************************************)
(* The baseline.                                                           *)
(***************************************************************************)

Run == [sql : Statements \cup {NoSql}, ok : BOOLEAN, error : BOOLEAN]

MacTypes ==
  /\ runs \in Seq(Run) /\ attempts \in Nat /\ budget \in Nat
  /\ failed \in BOOLEAN /\ executes \in BOOLEAN /\ candidate \in Statements \cup {NoSql}

AllFailed == \A i \in DOMAIN runs : ~runs[i].ok

\* What is known at each step: before the loop nothing was executed; in the loop
\* every execution so far failed, and there is one statement more than
\* executions, in a refinement as many.
Progress ==
  /\ step \in {"idle", "select", "decompose"} => runs = << >> /\ ~failed /\ attempts = 0
  /\ step = "loop" =>
       /\ AllFailed /\ (failed <=> runs # << >> /\ runs[Len(runs)].error)
       /\ attempts = Len(runs) + 1 /\ (attempts <= budget \/ attempts = 1)
  /\ step = "refine" =>
       /\ AllFailed /\ runs # << >> /\ (failed <=> runs[Len(runs)].error)
       /\ attempts = Len(runs) /\ attempts < budget

MacInv == MacTypes /\ Progress /\ BaselineReturns

\* The note tells whether there is an error text.
LEMMA NotesTell == (Notes = "final-err" <=> failed) /\ (Notes' = "final-err" <=> failed')
BY Zenon DEF Notes

\* Before a question is given.
LEMMA InitMacInv == MacInit => MacInv
<1> SUFFICES ASSUME MacInit PROVE MacInv
  OBVIOUS
<1>4. << >> \in Seq(Run)
  OBVIOUS
<1>5. runs = << >> /\ attempts = 0 /\ budget = 0 /\ failed = FALSE /\ executes = FALSE /\ step = "idle"
  BY DEF MacInit
<1>6. candidate = NoSql
  BY DEF MacInit
<1>1. MacTypes
  BY <1>4, <1>5, <1>6 DEF MacTypes
<1>2. Progress
  BY <1>5 DEF Progress
<1>3. BaselineReturns
  BY DEF MacInit, BaselineReturns
<1> QED BY <1>1, <1>2, <1>3 DEF MacInv

\* An execution, with its verdict.
LEMMA Executes ==
  ASSUME MacInv, NEW verdict \in BOOLEAN, NEW says \in BOOLEAN, Ran(verdict, says)
  PROVE  /\ runs' \in Seq(Run) /\ Len(runs') = Len(runs) + 1 /\ runs' # << >>
         /\ runs'[Len(runs')] = [sql |-> candidate, ok |-> verdict, error |-> says]
         /\ \A i \in DOMAIN runs' : i # Len(runs') => i \in DOMAIN runs /\ runs'[i] = runs[i]
<1>1. runs \in Seq(Run) /\ [sql |-> candidate, ok |-> verdict, error |-> says] \in Run
  BY DEF MacInv, MacTypes, Run
<1> QED BY <1>1 DEF Ran

\* An execution that succeeds.
LEMMA ExecutionSucceedsKeepsMacInv ==
  ASSUME MacInv, ExecutionSucceeds
  PROVE  MacInv'
<1>1. /\ step = "loop" /\ step' = "returned" /\ Ran(TRUE, FALSE) /\ executes /\ attempts < budget
      /\ UNCHANGED <<executes, budget, hits, selected, candidate, attempts, failed>>
  BY DEF ExecutionSucceeds, Tests
<1>2. /\ runs' \in Seq(Run) /\ Len(runs') = Len(runs) + 1 /\ runs' # << >>
      /\ runs'[Len(runs')] = [sql |-> candidate, ok |-> TRUE, error |-> FALSE]
      /\ \A i \in DOMAIN runs' : i # Len(runs') => i \in DOMAIN runs /\ runs'[i] = runs[i]
  BY <1>1, Executes
<1>3. /\ AllFailed /\ (failed <=> runs # << >> /\ runs[Len(runs)].error) /\ attempts = Len(runs) + 1
  BY <1>1 DEF MacInv, Progress
<1>4. MacTypes'
  BY <1>1, <1>2 DEF MacInv, MacTypes
<1>5. Progress'
  BY <1>1 DEF Progress
<1>6. runs'[Len(runs')].sql = candidate /\ runs'[Len(runs')].ok /\ Len(runs') \in DOMAIN runs'
  BY <1>2
<1>7. \A i \in DOMAIN runs' : runs'[i].ok => i = Len(runs')
  BY <1>2, <1>3 DEF AllFailed
<1>8. (Notes = "final-err")' <=>
        \E i \in DOMAIN runs' :
          ~runs'[i].ok /\ runs'[i].error /\ \A j \in DOMAIN runs' : j > i => runs'[j].ok
  <2>1. (Notes = "final-err")' <=> failed
    BY <1>1, NotesTell
  <2>2. Len(runs) \in Nat /\ DOMAIN runs = 1..Len(runs) /\ DOMAIN runs' = 1..(Len(runs) + 1)
    BY <1>2 DEF MacInv, MacTypes
  <2>3. \A i \in DOMAIN runs : runs'[i] = runs[i] /\ ~runs'[i].ok
    BY <1>2, <1>3, <2>2 DEF AllFailed
  <2>4. runs # << >> <=> Len(runs) \in DOMAIN runs
    BY <2>2 DEF MacInv, MacTypes
  <2>5. ASSUME NEW i \in DOMAIN runs', ~runs'[i].ok
        PROVE  i \in DOMAIN runs /\ ((\A j \in DOMAIN runs' : j > i => runs'[j].ok) <=> i = Len(runs))
    <3>1. i \in DOMAIN runs
      BY <1>2, <1>6, <2>2, <2>5
    <3>2. ASSUME i # Len(runs) PROVE ~\A j \in DOMAIN runs' : j > i => runs'[j].ok
      <4>1. Len(runs) \in DOMAIN runs /\ Len(runs) \in DOMAIN runs' /\ Len(runs) > i
        BY <2>2, <3>1, <3>2
      <4> QED BY <2>3, <4>1
    <3>3. ASSUME i = Len(runs) PROVE \A j \in DOMAIN runs' : j > i => runs'[j].ok
      <4>1. \A j \in DOMAIN runs' : j > i => j = Len(runs')
        BY <1>2, <2>2, <3>3
      <4> QED BY <1>6, <4>1
    <3> QED BY <3>1, <3>2, <3>3
  <2>6. runs # << >> => Len(runs) \in DOMAIN runs' /\ ~runs'[Len(runs)].ok /\ runs'[Len(runs)] = runs[Len(runs)]
    BY <2>2, <2>3, <2>4
  <2>7. (\E i \in DOMAIN runs' :
           ~runs'[i].ok /\ runs'[i].error /\ \A j \in DOMAIN runs' : j > i => runs'[j].ok)
          <=> runs # << >> /\ runs[Len(runs)].error
    BY <2>4, <2>5, <2>6, <2>3
  <2> QED BY <1>3, <2>1, <2>7
<1>9. attempts' <= budget' /\ attempts' = Len(runs')
  BY <1>1, <1>2, <1>3 DEF MacInv, MacTypes
<1>10. Last(runs') = [sql |-> candidate, ok |-> TRUE, error |-> FALSE]
  BY <1>2 DEF Last
<1>11. BaselineReturns'
  BY <1>1, <1>2, <1>6, <1>7, <1>8, <1>9, <1>10 DEF BaselineReturns
<1> QED BY <1>4, <1>5, <1>11 DEF MacInv

\* An execution that fails.
LEMMA ExecutionFailsKeepsMacInv ==
  ASSUME MacInv, ExecutionFails
  PROVE  MacInv'
<1>1. /\ step = "loop" /\ step' = "refine" /\ Ran(FALSE, failed') /\ failed' \in BOOLEAN
      /\ attempts < budget
      /\ UNCHANGED <<executes, budget, hits, selected, candidate, attempts>>
  BY DEF ExecutionFails, Tests
<1>2. /\ runs' \in Seq(Run) /\ Len(runs') = Len(runs) + 1 /\ runs' # << >>
      /\ runs'[Len(runs')] = [sql |-> candidate, ok |-> FALSE, error |-> failed']
      /\ \A i \in DOMAIN runs' : i # Len(runs') => i \in DOMAIN runs /\ runs'[i] = runs[i]
  BY <1>1, Executes
<1>3. AllFailed /\ attempts = Len(runs) + 1
  BY <1>1 DEF MacInv, Progress
<1>4. MacTypes'
  BY <1>1, <1>2 DEF MacInv, MacTypes
<1>5. AllFailed'
  BY <1>2, <1>3 DEF AllFailed
<1>6. Progress'
  BY <1>1, <1>2, <1>3, <1>5 DEF Progress
<1> QED BY <1>1, <1>4, <1>6 DEF MacInv, BaselineReturns

\* The end of the loop.
LEMMA StopsKeepsMacInv ==
  ASSUME MacInv, Stops
  PROVE  MacInv'
<1>1. /\ step = "loop" /\ step' = "returned" /\ ~(executes /\ attempts < budget)
      /\ UNCHANGED <<executes, budget, hits, selected, candidate, attempts, failed, runs>>
  BY DEF Stops
<1>2. /\ AllFailed /\ (failed <=> runs # << >> /\ runs[Len(runs)].error)
      /\ attempts = Len(runs) + 1 /\ (attempts <= budget \/ attempts = 1)
  BY <1>1 DEF MacInv, Progress
<1>3. MacTypes'
  BY <1>1 DEF MacInv, MacTypes
<1>4. Progress'
  BY <1>1 DEF Progress
<1>5. (Notes = "final-err")' <=>
        \E i \in DOMAIN runs : ~runs[i].ok /\ runs[i].error /\ \A j \in DOMAIN runs : j > i => runs[j].ok
  <2>1. (Notes = "final-err")' <=> failed
    BY <1>1, NotesTell
  <2>2. Len(runs) \in Nat /\ DOMAIN runs = 1..Len(runs) /\ \A i \in DOMAIN runs : ~runs[i].ok
    BY <1>2 DEF MacInv, MacTypes, AllFailed
  <2>3. runs # << >> <=> Len(runs) \in DOMAIN runs
    BY <2>2 DEF MacInv, MacTypes
  <2>4. ASSUME NEW i \in DOMAIN runs
        PROVE  (\A j \in DOMAIN runs : j > i => runs[j].ok) <=> i = Len(runs)
    <3>1. i # Len(runs) => Len(runs) \in DOMAIN runs /\ Len(runs) > i
      BY <2>2
    <3>2. i = Len(runs) => ~\E j \in DOMAIN runs : j > i
      BY <2>2
    <3> QED BY <2>2, <3>1, <3>2
  <2> QED BY <1>2, <2>1, <2>2, <2>3, <2>4
<1>6. executes => attempts >= budget
  BY <1>1 DEF MacInv, MacTypes
<1>7. BaselineReturns'
  BY <1>1, <1>2, <1>5, <1>6 DEF BaselineReturns, AllFailed
<1> QED BY <1>3, <1>4, <1>7 DEF MacInv

\* A correction.
LEMMA RefinesKeepsMacInv ==
  ASSUME MacInv, Refines
  PROVE  MacInv'
<1>1. /\ step = "refine" /\ step' = "loop" /\ candidate' \in Statements /\ attempts' = attempts + 1
      /\ UNCHANGED <<executes, budget, hits, selected, failed, runs>>
  BY DEF Refines
<1>2. /\ AllFailed /\ runs # << >> /\ (failed <=> runs[Len(runs)].error)
      /\ attempts = Len(runs) /\ attempts < budget
  BY <1>1 DEF MacInv, Progress
<1>3. MacTypes'
  BY <1>1 DEF MacInv, MacTypes
<1>4. Progress'
  BY <1>1, <1>2 DEF Progress, AllFailed, MacInv, MacTypes
<1> QED BY <1>1, <1>3, <1>4 DEF MacInv, BaselineReturns

\* The steps before the loop.
LEMMA BeforeTheLoopKeepsMacInv ==
  ASSUME MacInv, Predict \/ Selects \/ Decomposes
  PROVE  MacInv'
<1>1. step \in {"idle", "select", "decompose"} /\ UNCHANGED <<failed, runs>>
  BY DEF Predict, Selects, Decomposes
<1>2. runs = << >> /\ ~failed /\ attempts = 0 /\ AllFailed
  BY <1>1 DEF MacInv, Progress, AllFailed
<1>3. /\ \/ step' \in {"select", "decompose"} /\ attempts' = 0
         \/ step' = "loop" /\ attempts' = 1
      /\ budget' \in Nat /\ executes' \in BOOLEAN /\ candidate' \in Statements \cup {NoSql}
  BY <1>2, MacSqlAssumption DEF Predict, Selects, Decomposes, MacInv, MacTypes
<1>4. MacTypes'
  BY <1>1, <1>3 DEF MacInv, MacTypes
<1>5. Progress'
  BY <1>1, <1>2, <1>3 DEF Progress, AllFailed
<1> QED BY <1>3, <1>4, <1>5 DEF MacInv, BaselineReturns

\* A call that raises.
LEMMA CallRaisesKeepsMacInv ==
  ASSUME MacInv, CallRaises
  PROVE  MacInv'
<1>1. step' = "raised" /\ UNCHANGED <<executes, budget, hits, selected, candidate, attempts, failed, runs>>
  BY DEF CallRaises
<1> QED BY <1>1 DEF MacInv, MacTypes, Progress, BaselineReturns

\* What predict returns was executed last and succeeded, or was never executed
\* because every earlier statement failed and the corrections are used up, or
\* there is no executor; the attempts it reports are the statements there were, and
\* its notes tell whether the last execution that failed gave a text
\* (mac_sql.py:116-149).
THEOREM WhatPredictReturns == MacSpec => []BaselineReturns
<1>1. MacInv /\ [MacNext]_macVars => MacInv'
  <2> SUFFICES ASSUME MacInv, [MacNext]_macVars PROVE MacInv'
    OBVIOUS
  <2>1. CASE UNCHANGED macVars
    BY <2>1 DEF macVars, MacInv, MacTypes, Progress, AllFailed, BaselineReturns, Notes
  <2>2. CASE Predict \/ Selects \/ Decomposes
    BY <2>2, BeforeTheLoopKeepsMacInv
  <2>3. CASE CallRaises
    BY <2>3, CallRaisesKeepsMacInv
  <2>4. CASE ExecutionSucceeds
    BY <2>4, ExecutionSucceedsKeepsMacInv
  <2>5. CASE ExecutionFails
    BY <2>5, ExecutionFailsKeepsMacInv
  <2>6. CASE Refines
    BY <2>6, RefinesKeepsMacInv
  <2>7. CASE Stops
    BY <2>7, StopsKeepsMacInv
  <2> QED BY <2>1, <2>2, <2>3, <2>4, <2>5, <2>6, <2>7 DEF MacNext
<1>2. MacInv => BaselineReturns
  BY DEF MacInv
<1> QED BY <1>1, <1>2, InitMacInv, PTL DEF MacSpec

(***************************************************************************)
(* The periods of a result: their texts and their times.                   *)
(***************************************************************************)
\* A result whose periods are written in the order of time.
Timed(result) == result \in Results /\ WrittenInOrder(result)

KeyOf(result, i) == TimeKey(result.columns, result.rows[i])
WhenOf(result, i) == When(result.columns, result.rows[i])

\* Of two sequences of numbers one at most is before the other, and neither is if
\* they are the same.
LEMMA OneIsBefore ==
  ASSUME NEW a \in Seq(Nat), NEW b \in Seq(Nat), Before(a, b)
  PROVE  ~Before(b, a) /\ a # b
<1>1. PICK i \in DOMAIN b : /\ \A j \in 1..(i - 1) : j \in DOMAIN a /\ a[j] = b[j]
                            /\ i \in DOMAIN a => a[i] < b[i]
  BY DEF Before
<1>2. /\ DOMAIN a = 1..Len(a) /\ DOMAIN b = 1..Len(b) /\ Len(a) \in Nat /\ Len(b) \in Nat
      /\ \A k \in DOMAIN a : a[k] \in Nat
      /\ \A k \in DOMAIN b : b[k] \in Nat
  OBVIOUS
<1>3. ~Before(b, a)
  <2> SUFFICES ASSUME NEW k \in DOMAIN a,
                      \A j \in 1..(k - 1) : j \in DOMAIN b /\ b[j] = a[j],
                      k \in DOMAIN b => b[k] < a[k]
               PROVE  FALSE
    BY DEF Before
  <2>1. CASE i < k
    <3>1. i \in 1..(k - 1) /\ i \in DOMAIN a
      BY <1>2, <2>1
    <3>2. a[i] < b[i] /\ b[i] = a[i]
      BY <1>1, <3>1
    <3> QED BY <1>2, <3>1, <3>2
  <2>2. CASE k < i
    <3>1. k \in 1..(i - 1) /\ k \in DOMAIN b
      BY <1>2, <2>2
    <3>2. b[k] < a[k] /\ a[k] = b[k]
      BY <1>1, <3>1
    <3> QED BY <1>2, <3>1, <3>2
  <2>3. CASE i = k
    <3>1. a[i] < b[i] /\ b[i] < a[i]
      BY <1>1, <2>3
    <3> QED BY <1>2, <2>3, <3>1
  <2> QED BY <1>2, <2>1, <2>2, <2>3
<1>4. a # b
  <2> SUFFICES ASSUME a = b PROVE FALSE
    OBVIOUS
  <2>1. a[i] < b[i]
    BY <1>1
  <2> QED BY <1>2, <2>1
<1> QED BY <1>3, <1>4

\* Two texts joined by a dash.
LEMMA DashedText ==
  ASSUME NEW a \in Seq(Nat), NEW c \in Seq(Nat), NEW x, x = a \o << 45 >> \o c
  PROVE  /\ x \in Seq(Nat) /\ Len(x) = Len(a) + 1 + Len(c) /\ DOMAIN x = 1..(Len(a) + 1 + Len(c))
         /\ \A i \in 1..Len(a) : x[i] = a[i]
         /\ x[Len(a) + 1] = 45
         /\ \A i \in 1..Len(c) : x[Len(a) + 1 + i] = c[i]
<1> DEFINE y == a \o << 45 >>
<1>0. x = y \o c
  OBVIOUS
<1>1. Len(a) \in Nat /\ Len(c) \in Nat /\ << 45 >> \in Seq(Nat) /\ Len(<< 45 >>) = 1 /\ << 45 >>[1] = 45
  OBVIOUS
<1>2. /\ y \in Seq(Nat) /\ Len(y) = Len(a) + 1
      /\ \A i \in 1..(Len(a) + 1) : y[i] = IF i <= Len(a) THEN a[i] ELSE << 45 >>[i - Len(a)]
  BY <1>1, ConcatProperties
<1> HIDE DEF y
<1>3. /\ x \in Seq(Nat) /\ Len(x) = Len(y) + Len(c)
      /\ \A i \in 1..(Len(y) + Len(c)) : x[i] = IF i <= Len(y) THEN y[i] ELSE c[i - Len(y)]
  <2>1. y \in Seq(Nat) /\ c \in Seq(Nat)
    BY <1>2
  <2> QED BY ONLY <1>0, <2>1, ConcatProperties
<1>4. Len(x) = Len(a) + 1 + Len(c) /\ DOMAIN x = 1..(Len(a) + 1 + Len(c))
  BY <1>1, <1>2, <1>3
<1>5. ASSUME NEW i \in 1..Len(a) PROVE x[i] = a[i]
  <2>1. i \in 1..(Len(y) + Len(c)) /\ i <= Len(y) /\ i \in 1..(Len(a) + 1) /\ i <= Len(a)
    BY <1>1, <1>2
  <2> QED BY <1>2, <1>3, <2>1
<1>6. x[Len(a) + 1] = 45
  <2> DEFINE k == Len(a) + 1
  <2>1. k \in 1..(Len(y) + Len(c)) /\ k <= Len(y) /\ k \in 1..(Len(a) + 1) /\ ~(k <= Len(a)) /\ k - Len(a) = 1
    BY <1>1, <1>2
  <2> HIDE DEF k
  <2>2. x[k] = << 45 >>[k - Len(a)]
    BY <1>2, <1>3, <2>1
  <2> QED BY <1>1, <2>1, <2>2 DEF k
<1>7. ASSUME NEW i \in 1..Len(c) PROVE x[Len(a) + 1 + i] = c[i]
  <2> DEFINE k == Len(a) + 1 + i
  <2>1. k \in 1..(Len(y) + Len(c)) /\ ~(k <= Len(y)) /\ k - Len(y) = i
    BY <1>1, <1>2
  <2> HIDE DEF k
  <2>2. x[k] = c[k - Len(y)]
    BY <1>3, <2>1
  <2> QED BY <2>1, <2>2 DEF k
<1> QED BY <1>3, <1>4, <1>5, <1>6, <1>7

\* The order of two texts joined by a dash, if the first are of the same length.
LEMMA JoinedTexts ==
  ASSUME NEW a \in Seq(Nat), NEW b \in Seq(Nat), NEW c \in Seq(Nat), NEW d \in Seq(Nat),
         Len(a) = Len(b)
  PROVE  /\ Dashed(a, c) = Dashed(b, d) <=> a = b /\ c = d
         /\ Before(Dashed(a, c), Dashed(b, d)) <=> Before(a, b) \/ (a = b /\ Before(c, d))
<1> DEFINE x == a \o << 45 >> \o c
           y == b \o << 45 >> \o d
           L == Len(a)
<1>1. /\ L \in Nat /\ DOMAIN a = 1..L /\ DOMAIN b = 1..L
      /\ DOMAIN c = 1..Len(c) /\ DOMAIN d = 1..Len(d) /\ Len(c) \in Nat /\ Len(d) \in Nat
  OBVIOUS
<1>2. /\ DOMAIN x = 1..(L + 1 + Len(c)) /\ DOMAIN y = 1..(L + 1 + Len(d))
      /\ Len(x) = L + 1 + Len(c) /\ Len(y) = L + 1 + Len(d)
      /\ \A i \in 1..L : x[i] = a[i] /\ y[i] = b[i]
      /\ x[L + 1] = 45 /\ y[L + 1] = 45
      /\ \A i \in 1..Len(c) : x[L + 1 + i] = c[i]
      /\ \A i \in 1..Len(d) : y[L + 1 + i] = d[i]
  <2>0. /\ a \in Seq(Nat) /\ c \in Seq(Nat) /\ x = a \o << 45 >> \o c
        /\ b \in Seq(Nat) /\ d \in Seq(Nat) /\ y = b \o << 45 >> \o d
    OBVIOUS
  <2> HIDE DEF x, y, L
  <2>1. /\ Len(x) = Len(a) + 1 + Len(c) /\ DOMAIN x = 1..(Len(a) + 1 + Len(c))
        /\ \A i \in 1..Len(a) : x[i] = a[i]
        /\ x[Len(a) + 1] = 45
        /\ \A i \in 1..Len(c) : x[Len(a) + 1 + i] = c[i]
    BY ONLY <2>0, DashedText
  <2>2. /\ Len(y) = Len(b) + 1 + Len(d) /\ DOMAIN y = 1..(Len(b) + 1 + Len(d))
        /\ \A i \in 1..Len(b) : y[i] = b[i]
        /\ y[Len(b) + 1] = 45
        /\ \A i \in 1..Len(d) : y[Len(b) + 1 + i] = d[i]
    BY ONLY <2>0, DashedText
  <2> QED BY <2>1, <2>2 DEF L
<1>3. (\A i \in 1..L : a[i] = b[i]) => a = b
  BY SeqEqual
<1>4. (Len(c) = Len(d) /\ \A i \in 1..Len(c) : c[i] = d[i]) => c = d
  BY SeqEqual
<1> HIDE DEF x, y, L
<1>5. ASSUME x = y PROVE a = b /\ c = d
  <2>1. \A i \in 1..L : a[i] = b[i]
    BY <1>2, <1>5
  <2>2. Len(c) = Len(d)
    <3>1. Len(x) = Len(y)
      BY <1>5
    <3>2. L \in Nat /\ Len(c) \in Nat /\ Len(d) \in Nat /\ L + 1 + Len(c) = L + 1 + Len(d)
      BY <1>1, <1>2, <3>1
    <3> QED BY ONLY <3>2
  <2>3. \A i \in 1..Len(c) : c[i] = d[i]
    BY <1>2, <1>5, <2>2
  <2> QED BY <1>3, <1>4, <2>1, <2>2, <2>3
<1>6. ASSUME Before(a, b) PROVE Before(x, y)
  <2>1. PICK i \in 1..L : /\ \A j \in 1..(i - 1) : j \in 1..L /\ a[j] = b[j]
                          /\ i \in 1..L => a[i] < b[i]
    BY <1>1, <1>6 DEF Before
  <2>2. i \in DOMAIN y /\ x[i] = a[i] /\ y[i] = b[i]
    BY <1>1, <1>2
  <2>3. \A j \in 1..(i - 1) : j \in DOMAIN x /\ x[j] = y[j]
    BY <1>1, <1>2, <2>1
  <2> QED BY <2>1, <2>2, <2>3 DEF Before
<1>7. ASSUME a = b, Before(c, d) PROVE Before(x, y)
  <2>1. PICK i \in 1..Len(d) : /\ \A j \in 1..(i - 1) : j \in 1..Len(c) /\ c[j] = d[j]
                               /\ i \in 1..Len(c) => c[i] < d[i]
    BY <1>1, <1>7 DEF Before
  <2> DEFINE k == L + 1 + i
  <2>2. k \in DOMAIN y /\ y[k] = d[i]
    BY <1>1, <1>2
  <2>3. ASSUME NEW j \in 1..(k - 1) PROVE j \in DOMAIN x /\ x[j] = y[j]
    <3>1. CASE j \in 1..L
      BY <1>1, <1>2, <1>7, <3>1
    <3>2. CASE j = L + 1
      BY <1>1, <1>2, <3>2
    <3>3. CASE j > L + 1
      <4>1. j - L - 1 \in 1..(i - 1) /\ j = L + 1 + (j - L - 1) /\ j - L - 1 \in 1..Len(d)
        BY <1>1, <3>3
      <4>2. j - L - 1 \in 1..Len(c) /\ c[j - L - 1] = d[j - L - 1]
        BY <2>1, <4>1
      <4>3. x[L + 1 + (j - L - 1)] = c[j - L - 1] /\ y[L + 1 + (j - L - 1)] = d[j - L - 1]
        BY <1>2, <4>1, <4>2
      <4>4. j \in DOMAIN x
        BY <1>1, <1>2, <4>1, <4>2
      <4> QED BY <4>1, <4>2, <4>3, <4>4
    <3> QED BY <1>1, <3>1, <3>2, <3>3
  <2>4. k \in DOMAIN x => x[k] < y[k]
    <3> SUFFICES ASSUME k \in DOMAIN x PROVE x[k] < y[k]
      OBVIOUS
    <3>1. i \in 1..Len(c)
      BY <1>1, <1>2
    <3>2. x[k] = c[i] /\ c[i] < d[i]
      BY <1>2, <2>1, <3>1
    <3> QED BY <2>2, <3>2
  <2> HIDE DEF k
  <2> QED BY <2>2, <2>3, <2>4 DEF Before
<1>8. ASSUME Before(x, y) PROVE Before(a, b) \/ (a = b /\ Before(c, d))
  <2>1. PICK k \in DOMAIN y : /\ \A j \in 1..(k - 1) : j \in DOMAIN x /\ x[j] = y[j]
                              /\ k \in DOMAIN x => x[k] < y[k]
    BY <1>8 DEF Before
  <2>2. CASE k \in 1..L
    <3>1. k \in DOMAIN b /\ k \in DOMAIN x /\ a[k] < b[k]
      BY <1>1, <1>2, <2>1, <2>2
    <3>2. \A j \in 1..(k - 1) : j \in DOMAIN a /\ a[j] = b[j]
      BY <1>1, <1>2, <2>1, <2>2
    <3> QED BY <3>1, <3>2 DEF Before
  <2>3. CASE k = L + 1
    <3>1. k \in DOMAIN x /\ x[k] = 45 /\ y[k] = 45
      BY <1>1, <1>2, <2>3
    <3>2. 45 < 45
      BY <2>1, <3>1
    <3> QED BY <3>2
  <2>4. CASE k > L + 1
    <3> DEFINE i == k - L - 1
    <3>1. i \in 1..Len(d) /\ k = L + 1 + i
      BY <1>1, <1>2, <2>4
    <3>2. a = b
      <4>1. \A j \in 1..L : j \in 1..(k - 1)
        BY <1>1, <2>4, <3>1
      <4> QED BY <1>2, <1>3, <2>1, <4>1
    <3> HIDE DEF i
    <3>3. ASSUME NEW j \in 1..(i - 1) PROVE j \in DOMAIN c /\ c[j] = d[j]
      <4>1. L + 1 + j \in 1..(k - 1) /\ j \in 1..Len(d)
        BY <1>1, <3>1
      <4>2. L + 1 + j \in DOMAIN x /\ x[L + 1 + j] = y[L + 1 + j]
        BY <2>1, <4>1
      <4>3. j \in 1..Len(c)
        BY <1>1, <1>2, <4>1, <4>2
      <4> QED BY <1>1, <1>2, <4>1, <4>2, <4>3
    <3>4. i \in DOMAIN c => c[i] < d[i]
      <4> SUFFICES ASSUME i \in 1..Len(c) PROVE c[i] < d[i]
        BY <1>1
      <4>1. k \in DOMAIN x /\ x[k] = c[i] /\ y[k] = d[i]
        BY <1>1, <1>2, <3>1
      <4> QED BY <2>1, <4>1
    <3> QED BY <1>1, <3>1, <3>2, <3>3, <3>4 DEF Before
  <2> QED BY <1>1, <1>2, <2>1, <2>2, <2>3, <2>4
<1>9. (x = y <=> a = b /\ c = d) /\ (Before(x, y) <=> Before(a, b) \/ (a = b /\ Before(c, d)))
  BY <1>5, <1>6, <1>7, <1>8 DEF x, y
<1> QED BY <1>9 DEF x, y, Dashed

\* Padding makes a text of a text.
LEMMA PaddedType ==
  ASSUME NEW chars \in Seq(Nat)
  PROVE  Padded(chars) \in Seq(Nat)
<1> DEFINE zeros == [i \in 1..(2 - Len(chars)) |-> 48]
<1>1. Len(chars) \in Nat
  OBVIOUS
<1>2. zeros \in Seq(Nat)
  <2>1. CASE Len(chars) \in {0, 1}
    <3>1. 2 - Len(chars) \in Nat
      BY <2>1
    <3> QED BY <3>1
  <2>2. CASE Len(chars) >= 2
    <3>1. 1..(2 - Len(chars)) = 1..0
      BY <1>1, <2>2
    <3>2. zeros = [i \in 1..0 |-> 48]
      BY <3>1
    <3> QED BY <3>2
  <2> QED BY <1>1, <2>1, <2>2
<1> HIDE DEF zeros
<1>3. zeros \o chars \in Seq(Nat)
  BY <1>2, ConcatProperties
<1> QED BY <1>3 DEF Padded, zeros

\* What is found under names that are not those of the group or the value is a
\* time column, or nothing.
LEMMA FoundIsATime ==
  ASSUME NEW result \in Results, NEW names, DOMAIN names \subseteq Nat,
         \A i \in DOMAIN names : names[i] \notin {"group", "value"}
  PROVE  FirstPresent(result.columns, names) \in ToSet(Grains) \cup {"none"}
<1> DEFINE C == result.columns
           here == {i \in DOMAIN names : names[i] \in ToSet(C)}
           begun == {i \in DOMAIN names : Beginning(C, names[i]) # {}}
           T == ToSet(Grains)
<1>1. DOMAIN names \subseteq Nat /\ DOMAIN C \subseteq Nat /\ C \in Seq(T \cup {"group", "value"})
  <2>1. C \in Seq(T \cup {"group", "value"})
    BY InsightAssumption
  <2> QED BY <2>1
<1>2. ASSUME here # {} PROVE names[Min(here)] \in T
  <2>1. Min(here) \in here
    <3>1. here \in SUBSET Nat
      BY <1>1
    <3> HIDE DEF here
    <3> QED BY <1>2, <3>1, MinIsOne
  <2>2. names[Min(here)] \in ToSet(C) /\ names[Min(here)] \notin {"group", "value"}
    BY <2>1
  <2>3. ToSet(C) \subseteq T \cup {"group", "value"}
    BY <1>1 DEF ToSet
  <2> QED BY <2>2, <2>3
<1>3. ASSUME begun # {} PROVE C[Min(Beginning(C, names[Min(begun)]))] \in T
  <2>1. Min(begun) \in begun
    <3>1. begun \in SUBSET Nat
      BY <1>1
    <3> HIDE DEF begun
    <3> QED BY <1>3, <3>1, MinIsOne
  <2> DEFINE B == Beginning(C, names[Min(begun)])
  <2>2. B # {}
    BY <2>1
  <2>3. B \in SUBSET Nat
    BY <1>1 DEF Beginning
  <2>4. Min(B) \in B
    <3> HIDE DEF B
    <3> QED BY <2>2, <2>3, MinIsOne
  <2>5. <<names[Min(begun)], C[Min(B)]>> \in BeginsWith
    BY <2>4 DEF Beginning
  <2>6. BeginsWith \subseteq STRING \X T
    BY InsightAssumption
  <2> HIDE DEF B, begun, T
  <2>7. C[Min(B)] \in T
    BY <2>5, <2>6
  <2> QED BY <2>7 DEF B
<1> HIDE DEF here, begun
<1>4. FirstPresent(C, names) =
        CASE here # {}                -> names[Min(here)]
          [] here = {} /\ begun # {}  -> C[Min(Beginning(C, names[Min(begun)]))]
          [] here = {} /\ begun = {}  -> "none"
  BY DEF FirstPresent, here, begun
<1> QED BY <1>2, <1>3, <1>4

\* A period is made of no column, of one, or of two.
LEMMA KeyPartsAre ==
  ASSUME NEW result \in Results, NEW parts, parts = KeyParts(result.columns)
  PROVE  /\ \/ parts = << >>
            \/ \E c \in ToSet(Grains) : parts = <<Part(c, FALSE)>>
            \/ \E c, d \in ToSet(Grains), p \in BOOLEAN : parts = <<Part(c, FALSE), Part(d, p)>>
         /\ \/ Len(parts) = 0 /\ DOMAIN parts = {}
            \/ Len(parts) = 1 /\ DOMAIN parts = {1}
            \/ Len(parts) = 2 /\ DOMAIN parts = {1, 2}
         /\ \A n \in DOMAIN parts : parts[n].column \in ToSet(Grains) /\ parts[n].pads \in BOOLEAN
<1> DEFINE T == ToSet(Grains)
           C == result.columns
<1>1. /\ YearColumn(C) \in T \cup {"none"}
      /\ QuarterColumn(C) \in T \cup {"none"}
      /\ MonthColumn(C) \in T \cup {"none"}
      /\ TimeColumn(C) \in T \cup {"none"}
  <2>1. YearColumn(C) \in T \cup {"none"}
    <3> DEFINE names == <<"year", "calendaryear">>
    <3>1. DOMAIN names = 1..2 /\ \A i \in 1..2 : names[i] \in {"year", "calendaryear"}
      OBVIOUS
    <3> HIDE DEF names
    <3>2. DOMAIN names \subseteq Nat /\ \A i \in DOMAIN names : names[i] \notin {"group", "value"}
      BY <3>1
    <3>3. FirstPresent(C, names) \in T \cup {"none"}
      BY <3>2, FoundIsATime
    <3> QED BY <3>3 DEF YearColumn, names
  <2>2. QuarterColumn(C) \in T \cup {"none"}
    <3> DEFINE names == <<"quarter", "calendarquarter", "calendarquarterlabel">>
    <3>1. DOMAIN names = 1..3 /\ \A i \in 1..3 : names[i] \in {"quarter", "calendarquarter", "calendarquarterlabel"}
      OBVIOUS
    <3> HIDE DEF names
    <3>2. DOMAIN names \subseteq Nat /\ \A i \in DOMAIN names : names[i] \notin {"group", "value"}
      BY <3>1
    <3>3. FirstPresent(C, names) \in T \cup {"none"}
      BY <3>2, FoundIsATime
    <3> QED BY <3>3 DEF QuarterColumn, names
  <2>3. MonthColumn(C) \in T \cup {"none"}
    <3> DEFINE names == <<"month", "monthnumber", "calendarmonth">>
    <3>1. DOMAIN names = 1..3 /\ \A i \in 1..3 : names[i] \in {"month", "monthnumber", "calendarmonth"}
      OBVIOUS
    <3> HIDE DEF names
    <3>2. DOMAIN names \subseteq Nat /\ \A i \in DOMAIN names : names[i] \notin {"group", "value"}
      BY <3>1
    <3>3. FirstPresent(C, names) \in T \cup {"none"}
      BY <3>2, FoundIsATime
    <3> QED BY <3>3 DEF MonthColumn, names
  <2>4. TimeColumn(C) \in T \cup {"none"}
    <3> DEFINE names == <<"year", "quarter", "month", "period", "yearquarter">>
    <3>1. DOMAIN names = 1..5 /\ \A i \in 1..5 : names[i] \in {"year", "quarter", "month", "period", "yearquarter"}
      OBVIOUS
    <3> HIDE DEF names
    <3>2. DOMAIN names \subseteq Nat /\ \A i \in DOMAIN names : names[i] \notin {"group", "value"}
      BY <3>1
    <3>3. FirstPresent(C, names) \in T \cup {"none"}
      BY <3>2, FoundIsATime
    <3> QED BY <3>3 DEF TimeColumn, names
  <2> QED BY <2>1, <2>2, <2>3, <2>4
<1> DEFINE year == YearColumn(C)
           quarter == QuarterColumn(C)
           month == MonthColumn(C)
           single == TimeColumn(C)
<1>2. parts =
        CASE year # "none" /\ quarter # "none" -> <<Part(year, FALSE), Part(quarter, FALSE)>>
          [] year # "none" /\ quarter = "none" /\ month # "none" ->
               <<Part(year, FALSE), Part(month, TRUE)>>
          [] (year = "none" \/ (quarter = "none" /\ month = "none")) /\ single # "none" ->
               <<Part(single, FALSE)>>
          [] OTHER -> << >>
  BY DEF KeyParts
<1> HIDE DEF year, quarter, month, single, T, C
<1>3. /\ year \in T \cup {"none"} /\ quarter \in T \cup {"none"}
      /\ month \in T \cup {"none"} /\ single \in T \cup {"none"}
  BY <1>1 DEF year, quarter, month, single
<1>4. \/ parts = << >>
      \/ \E c \in T : parts = <<Part(c, FALSE)>>
      \/ \E c, d \in T, p \in BOOLEAN : parts = <<Part(c, FALSE), Part(d, p)>>
  <2>1. CASE year # "none" /\ quarter # "none"
    BY <1>2, <1>3, <2>1
  <2>2. CASE year # "none" /\ quarter = "none" /\ month # "none"
    BY <1>2, <1>3, <2>2
  <2>3. CASE (year = "none" \/ (quarter = "none" /\ month = "none")) /\ single # "none"
    BY <1>2, <1>3, <2>3
  <2>4. CASE (year = "none" \/ (quarter = "none" /\ month = "none")) /\ single = "none"
    BY <1>2, <2>4
  <2> QED BY <2>1, <2>2, <2>3, <2>4
<1>5. /\ \/ Len(parts) = 0 /\ DOMAIN parts = {}
         \/ Len(parts) = 1 /\ DOMAIN parts = {1}
         \/ Len(parts) = 2 /\ DOMAIN parts = {1, 2}
      /\ \A n \in DOMAIN parts : parts[n].column \in T /\ parts[n].pads \in BOOLEAN
  <2>1. CASE parts = << >>
    BY <2>1
  <2>2. ASSUME NEW c \in T, NEW p \in BOOLEAN
        PROVE  Part(c, p).column \in T /\ Part(c, p).pads \in BOOLEAN
    <3>1. Part(c, p).column = c /\ Part(c, p).pads = p
      BY Zenon DEF Part
    <3> QED BY Zenon, <3>1
  <2>3. ASSUME NEW c \in T, parts = <<Part(c, FALSE)>>
        PROVE  /\ Len(parts) = 1 /\ DOMAIN parts = {1}
               /\ \A n \in DOMAIN parts : parts[n].column \in T /\ parts[n].pads \in BOOLEAN
    <3>1. Len(parts) = 1 /\ DOMAIN parts = {1} /\ parts[1] = Part(c, FALSE)
      BY <2>3
    <3>2. parts[1].column \in T /\ parts[1].pads \in BOOLEAN
      BY Zenon, <2>2, <3>1
    <3> QED BY <3>1, <3>2
  <2>4. ASSUME NEW c \in T, NEW d \in T, NEW p \in BOOLEAN, parts = <<Part(c, FALSE), Part(d, p)>>
        PROVE  /\ Len(parts) = 2 /\ DOMAIN parts = {1, 2}
               /\ \A n \in DOMAIN parts : parts[n].column \in T /\ parts[n].pads \in BOOLEAN
    <3>1. Len(parts) = 2 /\ DOMAIN parts = {1, 2} /\ parts[1] = Part(c, FALSE) /\ parts[2] = Part(d, p)
      BY <2>4
    <3>2. /\ parts[1].column \in T /\ parts[1].pads \in BOOLEAN
          /\ parts[2].column \in T /\ parts[2].pads \in BOOLEAN
      BY Zenon, <2>2, <3>1
    <3> QED BY <3>1, <3>2
  <2> QED BY <1>4, <2>1, <2>3, <2>4
<1> QED BY <1>4, <1>5 DEF T

\* The rows have the types of their columns.
LEMMA RowsTyped ==
  ASSUME NEW result \in Results, NEW i \in DOMAIN result.rows
  PROVE  /\ Len(result.rows) \in Nat /\ DOMAIN result.rows = 1..Len(result.rows)
         /\ result.rows[i].group \in Groups
         /\ \A c \in ToSet(Grains) :
              /\ result.rows[i].cells[c].at \in Nat
              /\ result.rows[i].cells[c].text \in Seq(Nat)
<1> DEFINE T == [group : Groups, cells : [ToSet(Grains) -> Cell], value : Int, numeric : BOOLEAN]
<1>1. result.rows \in Seq(T)
  BY InsightAssumption
<1> HIDE DEF T
<1>2. Len(result.rows) \in Nat /\ DOMAIN result.rows = 1..Len(result.rows) /\ result.rows[i] \in T
  BY <1>1
<1> DEFINE r == result.rows[i]
<1>3. r \in T
  BY <1>2
<1> HIDE DEF r
<1>4. r.group \in Groups /\ r.cells \in [ToSet(Grains) -> Cell]
  BY <1>3 DEF T
<1>5. \A c \in ToSet(Grains) : r.cells[c] \in Cell
  BY <1>4
<1>6. \A x \in Cell : x.at \in Nat /\ x.text \in Seq(Nat)
  BY DEF Cell
<1> QED BY <1>2, <1>4, <1>5, <1>6 DEF r

\* What a row has in the n-th column of its period: its place in time, and its text.
AtOf(result, i, n) == result.rows[i].cells[KeyParts(result.columns)[n].column].at
TextOf(result, i, n) == Written(KeyParts(result.columns)[n], result.rows[i])

\* The texts of two rows in one column are in the order of what they stand for.
LEMMA PartsInOrder ==
  ASSUME NEW result, Timed(result),
         NEW i \in DOMAIN result.rows, NEW j \in DOMAIN result.rows,
         result.rows[i].numeric, result.rows[j].numeric, NEW n \in DOMAIN KeyParts(result.columns)
  PROVE  /\ AtOf(result, i, n) \in Nat /\ AtOf(result, j, n) \in Nat
         /\ TextOf(result, i, n) \in Seq(Nat) /\ TextOf(result, j, n) \in Seq(Nat)
         /\ TextOf(result, i, n) = TextOf(result, j, n) <=> AtOf(result, i, n) = AtOf(result, j, n)
         /\ Before(TextOf(result, i, n), TextOf(result, j, n)) <=> AtOf(result, i, n) < AtOf(result, j, n)
         /\ n < Len(KeyParts(result.columns)) => Len(TextOf(result, i, n)) = Len(TextOf(result, j, n))
<1> DEFINE parts == KeyParts(result.columns)
           a == AtOf(result, i, n)
           b == AtOf(result, j, n)
           s == TextOf(result, i, n)
           t == TextOf(result, j, n)
<1>1. parts[n].column \in ToSet(Grains) /\ parts[n].pads \in BOOLEAN
  BY KeyPartsAre DEF Timed
<1>2. /\ a \in Nat /\ result.rows[i].cells[parts[n].column].text \in Seq(Nat)
      /\ b \in Nat /\ result.rows[j].cells[parts[n].column].text \in Seq(Nat)
  BY <1>1, RowsTyped DEF Timed, AtOf
<1>3. s \in Seq(Nat) /\ t \in Seq(Nat)
  BY <1>1, <1>2, PaddedType DEF Written, TextOf
<1>4. /\ a < b => Before(s, t)
      /\ b < a => Before(t, s)
      /\ a = b => s = t
      /\ n < Len(parts) => Len(s) = Len(t)
  BY DEF Timed, WrittenInOrder, AtOf, TextOf
<1> HIDE DEF a, b, s, t, parts
<1>5. (s = t <=> a = b) /\ (Before(s, t) <=> a < b)
  <2>1. CASE a < b
    <3>1. s # t /\ Before(s, t)
      BY <1>3, <1>4, <2>1, OneIsBefore
    <3>2. a \in Nat /\ b \in Nat
      BY <1>2
    <3> QED BY ONLY <2>1, <3>1, <3>2
  <2>2. CASE b < a
    <3>1. s # t /\ ~Before(s, t)
      BY <1>3, <1>4, <2>2, OneIsBefore
    <3>2. a \in Nat /\ b \in Nat
      BY <1>2
    <3> QED BY ONLY <2>2, <3>1, <3>2
  <2>3. CASE a = b
    <3>1. s = t /\ ~Before(s, t)
      BY <1>3, <1>4, <2>3, OneIsBefore
    <3>2. a \in Nat /\ b \in Nat
      BY <1>2
    <3> QED BY ONLY <2>3, <3>1, <3>2
  <2>4. a \in Nat /\ b \in Nat
    BY <1>2
  <2> QED BY ONLY <2>1, <2>2, <2>3, <2>4
<1> QED BY <1>2, <1>3, <1>4, <1>5 DEF a, b, s, t, parts

\* The order of what two rows have in their columns, by the columns.
FirstAt(result, i) ==
  IF DOMAIN KeyParts(result.columns) = {} THEN 0
  ELSE AtOf(result, i, 1)
SecondAt(result, i) ==
  IF 2 \notin DOMAIN KeyParts(result.columns) THEN 0
  ELSE AtOf(result, i, 2)

\* The times of two rows are in the order of their first column, then their second.
LEMMA TimesByColumns ==
  ASSUME NEW result, Timed(result),
         NEW i \in DOMAIN result.rows, NEW j \in DOMAIN result.rows
  PROVE  LET a == FirstAt(result, i)   b == FirstAt(result, j)
             c == SecondAt(result, i)  d == SecondAt(result, j)
         IN  /\ a \in Nat /\ b \in Nat /\ c \in Nat /\ d \in Nat
             /\ WhenOf(result, i) = WhenOf(result, j) <=> a = b /\ c = d
             /\ Before(WhenOf(result, i), WhenOf(result, j)) <=> a < b \/ (a = b /\ c < d)
<1> DEFINE parts == KeyParts(result.columns)
           a == FirstAt(result, i)
           b == FirstAt(result, j)
           c == SecondAt(result, i)
           d == SecondAt(result, j)
           s == WhenOf(result, i)
           t == WhenOf(result, j)
<1>1. /\ \/ DOMAIN parts = {}
         \/ DOMAIN parts = {1}
         \/ DOMAIN parts = {1, 2}
      /\ \A n \in DOMAIN parts : parts[n].column \in ToSet(Grains)
  BY KeyPartsAre DEF Timed
<1>2. /\ s = [n \in DOMAIN parts |-> AtOf(result, i, n)]
      /\ t = [n \in DOMAIN parts |-> AtOf(result, j, n)]
  BY DEF WhenOf, When, AtOf
<1>3. \A n \in DOMAIN parts : AtOf(result, i, n) \in Nat /\ AtOf(result, j, n) \in Nat
  BY <1>1, RowsTyped DEF Timed, AtOf
<1>4. /\ DOMAIN parts # {} => 1 \in DOMAIN parts
      /\ a = IF DOMAIN parts = {} THEN 0 ELSE AtOf(result, i, 1)
      /\ b = IF DOMAIN parts = {} THEN 0 ELSE AtOf(result, j, 1)
      /\ c = IF 2 \notin DOMAIN parts THEN 0 ELSE AtOf(result, i, 2)
      /\ d = IF 2 \notin DOMAIN parts THEN 0 ELSE AtOf(result, j, 2)
  BY <1>1 DEF FirstAt, SecondAt
<1> DEFINE D == DOMAIN parts
<1>5. /\ D = {} \/ D = {1} \/ D = {1, 2}
      /\ s = [n \in D |-> s[n]] /\ t = [n \in D |-> t[n]]
      /\ \A n \in D : s[n] \in Nat /\ t[n] \in Nat
      /\ a = (IF D = {} THEN 0 ELSE s[1]) /\ b = (IF D = {} THEN 0 ELSE t[1])
      /\ c = (IF 2 \notin D THEN 0 ELSE s[2]) /\ d = (IF 2 \notin D THEN 0 ELSE t[2])
  BY <1>1, <1>2, <1>3, <1>4
<1> HIDE DEF a, b, c, d, s, t, D, parts
<1>6. DOMAIN s = D /\ DOMAIN t = D
  BY <1>5
<1>7. CASE D = {}
  <2>1. a = 0 /\ b = 0 /\ c = 0 /\ d = 0
    BY <1>5, <1>7
  <2>2. s = t
    BY <1>5, <1>7
  <2>3. ~Before(s, t)
    BY <1>6, <1>7 DEF Before
  <2> QED BY <2>1, <2>2, <2>3 DEF a, b, c, d, s, t
<1>8. CASE D = {1}
  <2>1. a = s[1] /\ b = t[1] /\ c = 0 /\ d = 0 /\ a \in Nat /\ b \in Nat
    BY <1>5, <1>8
  <2>2. s = t <=> s[1] = t[1]
    BY <1>5, <1>8
  <2>3. Before(s, t) <=> s[1] < t[1]
    BY <1>5, <1>6, <1>8 DEF Before
  <2> QED BY <2>1, <2>2, <2>3 DEF a, b, c, d, s, t
<1>9. CASE D = {1, 2}
  <2>1. a = s[1] /\ b = t[1] /\ c = s[2] /\ d = t[2] /\ a \in Nat /\ b \in Nat /\ c \in Nat /\ d \in Nat
    BY <1>5, <1>9
  <2>2. s = t <=> s[1] = t[1] /\ s[2] = t[2]
    BY <1>5, <1>9
  <2>3. Before(s, t) <=> s[1] < t[1] \/ (s[1] = t[1] /\ s[2] < t[2])
    <3>1. 1..(1 - 1) = {} /\ 1..(2 - 1) = {1}
      OBVIOUS
    <3>2. Before(s, t) <=>
            \/ (\A k \in {} : k \in D /\ s[k] = t[k]) /\ s[1] < t[1]
            \/ (\A k \in {1} : k \in D /\ s[k] = t[k]) /\ s[2] < t[2]
      BY <1>6, <1>9, <3>1 DEF Before
    <3> QED BY <1>9, <3>2
  <2> QED BY <2>1, <2>2, <2>3 DEF a, b, c, d, s, t
<1> QED BY <1>5, <1>7, <1>8, <1>9

\* The order of the texts of two rows is the order of their times.
LEMMA KeyOrderIsTimeOrder ==
  ASSUME NEW result, Timed(result),
         NEW i \in DOMAIN result.rows, NEW j \in DOMAIN result.rows,
         result.rows[i].numeric, result.rows[j].numeric
  PROVE  /\ KeyOf(result, i) = KeyOf(result, j) <=> WhenOf(result, i) = WhenOf(result, j)
         /\ Before(KeyOf(result, i), KeyOf(result, j)) <=> Before(WhenOf(result, i), WhenOf(result, j))
<1> DEFINE parts == KeyParts(result.columns)
           S(n) == TextOf(result, i, n)
           T(n) == TextOf(result, j, n)
           a == FirstAt(result, i)
           b == FirstAt(result, j)
           c == SecondAt(result, i)
           d == SecondAt(result, j)
<1>1. /\ a \in Nat /\ b \in Nat /\ c \in Nat /\ d \in Nat
      /\ WhenOf(result, i) = WhenOf(result, j) <=> a = b /\ c = d
      /\ Before(WhenOf(result, i), WhenOf(result, j)) <=> a < b \/ (a = b /\ c < d)
  BY TimesByColumns, Zenon
<1>2. \/ Len(parts) = 0 /\ DOMAIN parts = {}
      \/ Len(parts) = 1 /\ DOMAIN parts = {1}
      \/ Len(parts) = 2 /\ DOMAIN parts = {1, 2}
  BY KeyPartsAre DEF Timed
<1>3. ASSUME NEW n \in DOMAIN parts
      PROVE  /\ S(n) \in Seq(Nat) /\ T(n) \in Seq(Nat)
             /\ S(n) = T(n) <=> AtOf(result, i, n) = AtOf(result, j, n)
             /\ Before(S(n), T(n)) <=> AtOf(result, i, n) < AtOf(result, j, n)
             /\ n < Len(parts) => Len(S(n)) = Len(T(n))
  BY PartsInOrder, Zenon
<1>4. /\ KeyOf(result, i) =
           CASE Len(parts) = 0 -> << >>
             [] Len(parts) = 1 -> S(1)
             [] Len(parts) = 2 -> Dashed(S(1), S(2))
      /\ KeyOf(result, j) =
           CASE Len(parts) = 0 -> << >>
             [] Len(parts) = 1 -> T(1)
             [] Len(parts) = 2 -> Dashed(T(1), T(2))
  BY DEF KeyOf, TimeKey, TextOf
<1>5. /\ a = IF DOMAIN parts = {} THEN 0 ELSE AtOf(result, i, 1)
      /\ b = IF DOMAIN parts = {} THEN 0 ELSE AtOf(result, j, 1)
      /\ c = IF 2 \notin DOMAIN parts THEN 0 ELSE AtOf(result, i, 2)
      /\ d = IF 2 \notin DOMAIN parts THEN 0 ELSE AtOf(result, j, 2)
  BY DEF FirstAt, SecondAt
<1> HIDE DEF a, b, c, d, S, T, parts
<1>6. CASE Len(parts) = 0 /\ DOMAIN parts = {}
  <2>1. a = 0 /\ b = 0 /\ c = 0 /\ d = 0 /\ KeyOf(result, i) = << >> /\ KeyOf(result, j) = << >>
    BY <1>4, <1>5, <1>6
  <2>2. ~Before(<< >>, << >>)
    BY DEF Before
  <2> QED BY <1>1, <2>1, <2>2
<1>7. CASE Len(parts) = 1 /\ DOMAIN parts = {1}
  <2>1. c = 0 /\ d = 0 /\ KeyOf(result, i) = S(1) /\ KeyOf(result, j) = T(1)
    BY <1>4, <1>5, <1>7
  <2>2. (S(1) = T(1) <=> a = b) /\ (Before(S(1), T(1)) <=> a < b)
    BY <1>3, <1>5, <1>7
  <2> QED BY <1>1, <2>1, <2>2
<1>8. CASE Len(parts) = 2 /\ DOMAIN parts = {1, 2}
  <2>1. /\ S(1) \in Seq(Nat) /\ T(1) \in Seq(Nat) /\ S(2) \in Seq(Nat) /\ T(2) \in Seq(Nat)
        /\ Len(S(1)) = Len(T(1))
        /\ S(1) = T(1) <=> a = b
        /\ Before(S(1), T(1)) <=> a < b
        /\ S(2) = T(2) <=> c = d
        /\ Before(S(2), T(2)) <=> c < d
    BY <1>3, <1>5, <1>8
  <2>2. KeyOf(result, i) = Dashed(S(1), S(2)) /\ KeyOf(result, j) = Dashed(T(1), T(2))
    BY <1>4, <1>8
  <2>3. /\ Dashed(S(1), S(2)) = Dashed(T(1), T(2)) <=> S(1) = T(1) /\ S(2) = T(2)
        /\ Before(Dashed(S(1), S(2)), Dashed(T(1), T(2))) <=>
             Before(S(1), T(1)) \/ (S(1) = T(1) /\ Before(S(2), T(2)))
    BY ONLY <2>1, JoinedTexts
  <2> QED BY <1>1, <2>1, <2>2, <2>3
<1> QED BY <1>2, <1>6, <1>7, <1>8

\* Of some pairs of numbers one is the greatest, by the first, then by the second.
LEMMA HasLatest ==
  ASSUME NEW N \in Nat, NEW f \in [1..N -> Nat], NEW h \in [1..N -> Nat],
         NEW R \in SUBSET (1..N), R # {}
  PROVE  \E i \in R : \A j \in R : f[j] < f[i] \/ (f[j] = f[i] /\ h[j] <= h[i])
<1>1. PICK k \in R : \A j \in R : f[j] <= f[k]
  BY HasMaximum
<1> DEFINE Q == {j \in R : f[j] = f[k]}
<1>2. Q \in SUBSET (1..N) /\ Q # {}
  OBVIOUS
<1> HIDE DEF Q
<1>3. PICK i \in Q : \A j \in Q : h[j] <= h[i]
  BY <1>2, HasMaximum
<1>4. i \in R /\ f[i] = f[k]
  BY <1>3 DEF Q
<1>5. ASSUME NEW j \in R PROVE f[j] < f[i] \/ (f[j] = f[i] /\ h[j] <= h[i])
  <2>1. f[j] \in Nat /\ f[i] \in Nat /\ f[j] <= f[i]
    BY <1>1, <1>4
  <2>2. f[j] = f[i] => h[j] <= h[i]
    BY <1>3, <1>4 DEF Q
  <2> QED BY <2>1, <2>2
<1> QED BY <1>4, <1>5

\* The total of a group at a time, and its last two times.
SumAt(result, g, t) == Total(result, {i \in RowsOf(result, g) : WhenOf(result, i) = t})
IsLastTwo(result, g, s, t) ==
  Before(s, t) /\ \A u \in RowsOf(result, g) :
    WhenOf(result, u) = t \/ WhenOf(result, u) = s \/ Before(WhenOf(result, u), s)

\* The latest of some periods, if it is after all others.
LEMMA LatestIs ==
  ASSUME NEW keys, NEW k \in keys,
         \A j \in keys : j = k \/ Before(j, k),
         \A j \in keys : ~Before(k, j)
  PROVE  Latest(keys) = k
<1> DEFINE l == CHOOSE x \in keys : \A j \in keys : j = x \/ Before(j, x)
<1>1. l \in keys /\ \A j \in keys : j = l \/ Before(j, l)
  BY Zenon
<1>2. l = k
  BY Zenon, <1>1
<1> QED BY Zenon, <1>2 DEF Latest

\* The rows of a group: their periods are in the order of their times, which is
\* that of two numbers.
LEMMA RowsOfGroup ==
  ASSUME NEW result, Timed(result), NEW g
  PROVE  /\ \A u \in RowsOf(result, g) : /\ FirstAt(result, u) \in Nat
                                         /\ SecondAt(result, u) \in Nat
         /\ \A u, v \in RowsOf(result, g) :
              /\ KeyOf(result, u) = KeyOf(result, v) <=> WhenOf(result, u) = WhenOf(result, v)
              /\ Before(KeyOf(result, u), KeyOf(result, v)) <=>
                   Before(WhenOf(result, u), WhenOf(result, v))
              /\ WhenOf(result, u) = WhenOf(result, v) <=>
                   FirstAt(result, u) = FirstAt(result, v) /\ SecondAt(result, u) = SecondAt(result, v)
              /\ Before(WhenOf(result, u), WhenOf(result, v)) <=>
                   \/ FirstAt(result, u) < FirstAt(result, v)
                   \/ FirstAt(result, u) = FirstAt(result, v) /\ SecondAt(result, u) < SecondAt(result, v)
<1>1. \A u \in RowsOf(result, g) : u \in DOMAIN result.rows /\ result.rows[u].numeric
  BY DEF RowsOf
<1>2. ASSUME NEW u \in RowsOf(result, g), NEW v \in RowsOf(result, g)
      PROVE  /\ FirstAt(result, u) \in Nat /\ SecondAt(result, u) \in Nat
             /\ WhenOf(result, u) = WhenOf(result, v) <=>
                  FirstAt(result, u) = FirstAt(result, v) /\ SecondAt(result, u) = SecondAt(result, v)
             /\ Before(WhenOf(result, u), WhenOf(result, v)) <=>
                  \/ FirstAt(result, u) < FirstAt(result, v)
                  \/ FirstAt(result, u) = FirstAt(result, v) /\ SecondAt(result, u) < SecondAt(result, v)
  BY <1>1, TimesByColumns, Zenon
<1>3. ASSUME NEW u \in RowsOf(result, g), NEW v \in RowsOf(result, g)
      PROVE  /\ KeyOf(result, u) = KeyOf(result, v) <=> WhenOf(result, u) = WhenOf(result, v)
             /\ Before(KeyOf(result, u), KeyOf(result, v)) <=>
                  Before(WhenOf(result, u), WhenOf(result, v))
  BY <1>1, KeyOrderIsTimeOrder, Zenon
<1> QED BY Zenon, <1>2, <1>3

\* The periods of a group are the keys of its rows.
LEMMA PeriodsAreKeys ==
  ASSUME NEW result, NEW g
  PROVE  Periods(result, g) = {KeyOf(result, i) : i \in RowsOf(result, g)}
BY DEF Periods, KeyOf

\* A period has the rows of its time.
LEMMA BucketOfTime ==
  ASSUME NEW result, Timed(result), NEW g, NEW i \in RowsOf(result, g)
  PROVE  Total(result, Bucket(result, g, KeyOf(result, i))) = SumAt(result, g, WhenOf(result, i))
<1>1. Bucket(result, g, KeyOf(result, i)) =
        {k \in RowsOf(result, g) : KeyOf(result, k) = KeyOf(result, i)}
  BY DEF Bucket, KeyOf
<1>2. \A k \in RowsOf(result, g) :
        KeyOf(result, k) = KeyOf(result, i) <=> WhenOf(result, k) = WhenOf(result, i)
  BY RowsOfGroup, Zenon
<1>3. Bucket(result, g, KeyOf(result, i)) =
        {k \in RowsOf(result, g) : WhenOf(result, k) = WhenOf(result, i)}
  BY <1>1, <1>2
<1> QED BY <1>3 DEF SumAt

\* The totals the detector compares are those of the last two times.
LEMMA LastTwoPeriods ==
  ASSUME NEW result, Timed(result), NEW g,
         NEW i \in RowsOf(result, g), NEW j \in RowsOf(result, g),
         IsLastTwo(result, g, WhenOf(result, i), WhenOf(result, j))
  PROVE  /\ Preceding(Periods(result, g)) # {}
         /\ Prev(result, g) = SumAt(result, g, WhenOf(result, i))
         /\ Curr(result, g) = SumAt(result, g, WhenOf(result, j))
<1> DEFINE R == RowsOf(result, g)
           P == Periods(result, g)
           K(u) == KeyOf(result, u)
           W(u) == WhenOf(result, u)
           F(u) == FirstAt(result, u)
           H(u) == SecondAt(result, u)
<1>1. /\ \A u \in R : F(u) \in Nat /\ H(u) \in Nat
      /\ \A u, v \in R : K(u) = K(v) <=> F(u) = F(v) /\ H(u) = H(v)
      /\ \A u, v \in R : Before(K(u), K(v)) <=> F(u) < F(v) \/ (F(u) = F(v) /\ H(u) < H(v))
  BY RowsOfGroup, Zenon
<1>2. /\ F(i) < F(j) \/ (F(i) = F(j) /\ H(i) < H(j))
      /\ \A u \in R : \/ F(u) = F(j) /\ H(u) = H(j)
                      \/ F(u) = F(i) /\ H(u) = H(i)
                      \/ F(u) < F(i) \/ (F(u) = F(i) /\ H(u) < H(i))
  BY RowsOfGroup, Zenon DEF IsLastTwo
<1>3. P = {K(u) : u \in R}
  BY PeriodsAreKeys
<1>4. Preceding(P) = {k \in P : \E l \in P : Before(k, l)}
  BY DEF Preceding
<1> HIDE DEF R, P, K, W, F, H
<1>i. i \in R /\ j \in R
  BY DEF R
<1>5. Latest(P) = K(j)
  <2>1. K(j) \in P
    BY <1>3, <1>i
  <2>2. ASSUME NEW k \in P PROVE (k = K(j) \/ Before(k, K(j))) /\ ~Before(K(j), k)
    <3>1. PICK u \in R : k = K(u)
      BY <1>3
    <3>2. \/ F(u) < F(j) \/ (F(u) = F(j) /\ H(u) < H(j))
          \/ F(u) = F(j) /\ H(u) = H(j)
      BY <1>1, <1>2, <1>i
    <3>3. ~(F(j) < F(u) \/ (F(j) = F(u) /\ H(j) < H(u)))
      BY <1>1, <1>i, <3>2
    <3> QED BY <1>1, <1>i, <3>1, <3>2, <3>3
  <2> QED BY <2>1, <2>2, LatestIs
<1>6. K(i) \in Preceding(P)
  BY <1>1, <1>2, <1>3, <1>4, <1>i
<1>7. Latest(Preceding(P)) = K(i)
  <2>1. ASSUME NEW k \in Preceding(P) PROVE (k = K(i) \/ Before(k, K(i))) /\ ~Before(K(i), k)
    <3>1. PICK u \in R, v \in R : k = K(u) /\ Before(K(u), K(v))
      BY <1>3, <1>4
    <3>2. F(u) < F(v) \/ (F(u) = F(v) /\ H(u) < H(v))
      BY <1>1, <3>1
    <3>3. ~(F(u) = F(j) /\ H(u) = H(j))
      BY <1>1, <1>2, <1>i, <3>2
    <3>4. \/ F(u) < F(i) \/ (F(u) = F(i) /\ H(u) < H(i))
          \/ F(u) = F(i) /\ H(u) = H(i)
      BY <1>1, <1>2, <1>i, <3>3
    <3>5. ~(F(i) < F(u) \/ (F(i) = F(u) /\ H(i) < H(u)))
      BY <1>1, <1>i, <3>4
    <3> QED BY <1>1, <1>i, <3>1, <3>4, <3>5
  <2> QED BY <1>6, <2>1, LatestIs
<1>8. Total(result, Bucket(result, g, K(i))) = SumAt(result, g, W(i))
  BY BucketOfTime DEF K, W
<1>9. Total(result, Bucket(result, g, K(j))) = SumAt(result, g, W(j))
  BY BucketOfTime DEF K, W
<1>10. Prev(result, g) = SumAt(result, g, W(i)) /\ Curr(result, g) = SumAt(result, g, W(j))
  BY <1>5, <1>7, <1>8, <1>9 DEF Prev, Curr, P
<1> QED BY <1>6, <1>10 DEF P, W

\* A group with a period before another one has two last times.
LEMMA SomeLastTwo ==
  ASSUME NEW result, Timed(result), NEW g, Preceding(Periods(result, g)) # {}
  PROVE  \E i, j \in RowsOf(result, g) :
           IsLastTwo(result, g, WhenOf(result, i), WhenOf(result, j))
<1> DEFINE R == RowsOf(result, g)
           N == Len(result.rows)
           W(u) == WhenOf(result, u)
           f == [u \in 1..N |-> IF u \in R THEN FirstAt(result, u) ELSE 0]
           h == [u \in 1..N |-> IF u \in R THEN SecondAt(result, u) ELSE 0]
<1>1. PICK a \in R, b \in R : Before(KeyOf(result, a), KeyOf(result, b))
  BY PeriodsAreKeys DEF Preceding
<1>2. N \in Nat /\ R \in SUBSET (1..N)
  <2>1. a \in DOMAIN result.rows /\ result \in Results
    BY DEF RowsOf, Timed
  <2>2. Len(result.rows) \in Nat /\ DOMAIN result.rows = 1..Len(result.rows)
    BY <2>1, RowsTyped
  <2> QED BY <2>2 DEF RowsOf
<1>3. /\ \A u \in R : FirstAt(result, u) \in Nat /\ SecondAt(result, u) \in Nat
      /\ \A u, v \in R :
           /\ W(u) = W(v) <=> FirstAt(result, u) = FirstAt(result, v) /\ SecondAt(result, u) = SecondAt(result, v)
           /\ Before(W(u), W(v)) <=>
                \/ FirstAt(result, u) < FirstAt(result, v)
                \/ FirstAt(result, u) = FirstAt(result, v) /\ SecondAt(result, u) < SecondAt(result, v)
      /\ Before(W(a), W(b))
  BY <1>1, RowsOfGroup, Zenon
<1>4. /\ f \in [1..N -> Nat] /\ h \in [1..N -> Nat]
      /\ \A u \in R : f[u] = FirstAt(result, u) /\ h[u] = SecondAt(result, u)
  BY <1>2, <1>3
<1> HIDE DEF R, N, W, f, h
<1>5. /\ \A u \in R : f[u] \in Nat /\ h[u] \in Nat
      /\ \A u, v \in R : W(u) = W(v) <=> f[u] = f[v] /\ h[u] = h[v]
      /\ \A u, v \in R : Before(W(u), W(v)) <=> f[u] < f[v] \/ (f[u] = f[v] /\ h[u] < h[v])
  BY <1>3, <1>4
<1>6. PICK j \in R : \A u \in R : f[u] < f[j] \/ (f[u] = f[j] /\ h[u] <= h[j])
  BY <1>1, <1>2, <1>4, HasLatest
<1> DEFINE Q == {u \in R : Before(W(u), W(j))}
<1>7. Q \in SUBSET (1..N) /\ Q # {}
  <2>1. f[a] < f[b] \/ (f[a] = f[b] /\ h[a] < h[b])
    BY <1>3, <1>5
  <2>2. f[b] < f[j] \/ (f[b] = f[j] /\ h[b] <= h[j])
    BY <1>6
  <2>3. /\ f[a] \in Nat /\ f[b] \in Nat /\ f[j] \in Nat
        /\ h[a] \in Nat /\ h[b] \in Nat /\ h[j] \in Nat
    BY <1>5
  <2>4. f[a] < f[j] \/ (f[a] = f[j] /\ h[a] < h[j])
    BY <2>1, <2>2, <2>3
  <2>5. Before(W(a), W(j))
    BY <1>5, <2>4
  <2> QED BY <1>2, <2>5
<1> HIDE DEF Q
<1>8. PICK i \in Q : \A u \in Q : f[u] < f[i] \/ (f[u] = f[i] /\ h[u] <= h[i])
  BY <1>2, <1>4, <1>7, HasLatest
<1>9. i \in R /\ Before(W(i), W(j))
  BY <1>8 DEF Q
<1>10. ASSUME NEW u \in R PROVE W(u) = W(j) \/ W(u) = W(i) \/ Before(W(u), W(i))
  <2>1. f[u] \in Nat /\ f[j] \in Nat /\ h[u] \in Nat /\ h[j] \in Nat
    BY <1>5
  <2>2. CASE u \in Q
    <3>1. f[u] < f[i] \/ (f[u] = f[i] /\ h[u] <= h[i])
      BY <1>8, <2>2
    <3>2. h[u] \in Nat /\ h[i] \in Nat
      BY <1>5, <1>9
    <3>3. \/ f[u] < f[i] \/ (f[u] = f[i] /\ h[u] < h[i])
          \/ f[u] = f[i] /\ h[u] = h[i]
      BY <3>1, <3>2
    <3> QED BY <1>5, <1>9, <3>3
  <2>3. CASE u \notin Q
    <3>1. ~(f[u] < f[j] \/ (f[u] = f[j] /\ h[u] < h[j]))
      BY <1>5, <2>3 DEF Q
    <3>2. f[u] = f[j] /\ h[u] = h[j]
      BY <1>6, <2>1, <3>1
    <3> QED BY <1>5, <3>2
  <2> QED BY <2>2, <2>3
<1> QED BY <1>9, <1>10 DEF IsLastTwo, R, W

\* The groups that declined between their last two times.
Down(result) ==
  {g \in Groups : \E i, j \in RowsOf(result, g) :
     LET s == WhenOf(result, i)
         t == WhenOf(result, j)
     IN  /\ IsLastTwo(result, g, s, t)
         /\ SumAt(result, g, s) > 0 /\ Fell(SumAt(result, g, s), SumAt(result, g, t))}

\* A group has declined by the totals of its last periods or by those of its last times alike.
LEMMA DecliningIsDown ==
  ASSUME NEW result, Timed(result)
  PROVE  Declining(result) = Down(result)
<1>1. ASSUME NEW g \in Declining(result) PROVE g \in Down(result)
  <2>1. /\ g \in Groups /\ Preceding(Periods(result, g)) # {} /\ Prev(result, g) > 0
        /\ Fell(Prev(result, g), Curr(result, g))
    BY DEF Declining, Comparable
  <2>2. PICK i \in RowsOf(result, g), j \in RowsOf(result, g) :
          IsLastTwo(result, g, WhenOf(result, i), WhenOf(result, j))
    BY <2>1, SomeLastTwo
  <2>3. /\ Prev(result, g) = SumAt(result, g, WhenOf(result, i))
        /\ Curr(result, g) = SumAt(result, g, WhenOf(result, j))
    BY <2>2, LastTwoPeriods
  <2> QED BY <2>1, <2>2, <2>3 DEF Down
<1>2. ASSUME NEW g \in Down(result) PROVE g \in Declining(result)
  <2>1. PICK i \in RowsOf(result, g), j \in RowsOf(result, g) :
          /\ IsLastTwo(result, g, WhenOf(result, i), WhenOf(result, j))
          /\ SumAt(result, g, WhenOf(result, i)) > 0
          /\ Fell(SumAt(result, g, WhenOf(result, i)), SumAt(result, g, WhenOf(result, j)))
    BY DEF Down
  <2>2. /\ Preceding(Periods(result, g)) # {}
        /\ Prev(result, g) = SumAt(result, g, WhenOf(result, i))
        /\ Curr(result, g) = SumAt(result, g, WhenOf(result, j))
    BY <2>1, LastTwoPeriods
  <2>3. g \in Groups
    BY DEF Down
  <2> QED BY <2>1, <2>2, <2>3 DEF Declining, Comparable
<1> QED BY <1>1, <1>2

\* What the detector was asked and what it said.
InsightInv ==
  insight.is = "waiting" \/ (given \in Results /\ insight = Detected(given))

\* A number of groups is reported only for a result that can be read.
LEMMA WhatIsReported ==
  ASSUME NEW result \in Results, NEW said, said = Detected(result),
         said.is \in {"none", "decline"}, Readable(result)
  PROVE  said.declined = Cardinality(Declining(result))
<1>1. ~Unpaddable(result)
  <2> SUFFICES ASSUME Unpaddable(result) PROVE FALSE
    OBVIOUS
  <2>1. said = Outcome("raised", 0, 0)
    BY DEF Detected
  <2>2. said.is = "raised"
    BY <2>1 DEF Outcome
  <2> QED BY <2>2
<1>2. said = IF Declining(result) = {} THEN Outcome("none", 0, 0)
             ELSE Outcome("decline", Cardinality(Declining(result)), Cardinality(Comparable(result)))
  BY <1>1 DEF Detected
<1>3. Cardinality({}) = 0
  BY FS_EmptySet
<1> QED BY <1>2, <1>3 DEF Outcome

\* The groups that fell, in the words of the lemmas above.
LEMMA FellIsDown ==
  ASSUME NEW result, NEW time, time = [i \in DOMAIN result.rows |-> When(result.columns, result.rows[i])]
  PROVE  FellLast(result, time) = Down(result)
<1>1. \A g : \A i \in RowsOf(result, g) : time[i] = WhenOf(result, i)
  BY DEF RowsOf, WhenOf
<1>2. \A g, t : {i \in RowsOf(result, g) : time[i] = t} = {i \in RowsOf(result, g) : WhenOf(result, i) = t}
  BY <1>1
<1>3. \A g, t : Total(result, {i \in RowsOf(result, g) : time[i] = t}) = SumAt(result, g, t)
  BY <1>2 DEF SumAt
<1>4. ASSUME NEW g, NEW s, NEW t
      PROVE  (Before(s, t) /\ \A i \in RowsOf(result, g) : time[i] = t \/ time[i] = s \/ Before(time[i], s))
               <=> IsLastTwo(result, g, s, t)
  BY <1>1 DEF IsLastTwo
<1>5. FellLast(result, time) =
        {g \in Groups : \E i, j \in RowsOf(result, g) :
           /\ IsLastTwo(result, g, time[i], time[j])
           /\ SumAt(result, g, time[i]) > 0
           /\ Fell(SumAt(result, g, time[i]), SumAt(result, g, time[j]))}
  BY <1>3, <1>4, Zenon DEF FellLast
<1>6. ASSUME NEW g
      PROVE  (\E i, j \in RowsOf(result, g) :
                /\ IsLastTwo(result, g, time[i], time[j])
                /\ SumAt(result, g, time[i]) > 0
                /\ Fell(SumAt(result, g, time[i]), SumAt(result, g, time[j])))
             <=> \E i, j \in RowsOf(result, g) :
                   /\ IsLastTwo(result, g, WhenOf(result, i), WhenOf(result, j))
                   /\ SumAt(result, g, WhenOf(result, i)) > 0
                   /\ Fell(SumAt(result, g, WhenOf(result, i)), SumAt(result, g, WhenOf(result, j)))
  BY <1>1
<1>7. Down(result) =
        {g \in Groups : \E i, j \in RowsOf(result, g) :
           /\ IsLastTwo(result, g, WhenOf(result, i), WhenOf(result, j))
           /\ SumAt(result, g, WhenOf(result, i)) > 0
           /\ Fell(SumAt(result, g, WhenOf(result, i)), SumAt(result, g, WhenOf(result, j)))}
  BY Zenon DEF Down
<1> QED BY ONLY <1>5, <1>6, <1>7

\* The insight is right whenever there is one.
LEMMA InsightInvRight == InsightInv => InsightRight
<1> SUFFICES ASSUME InsightInv, insight.is \in {"none", "decline"},
                    Readable(given), WrittenInOrder(given)
             PROVE  insight.declined = Cardinality(Down(given))
  BY FellIsDown, Zenon DEF InsightRight
<1>1. given \in Results /\ insight = Detected(given)
  BY DEF InsightInv
<1>2. Timed(given) /\ insight.declined = Cardinality(Declining(given))
  BY <1>1, WhatIsReported DEF Timed
<1> QED BY <1>2, DecliningIsDown

\* For every result whose years, quarters or months are each written in the order of
\* time: the groups counted as declining are those whose total in the last of their
\* times is at least 15 per cent below a positive total in the one before
\* (insight_detector.py:54-97).
THEOREM InsightIsRight == InsightSpec => []InsightRight
<1>1. InsightInit => InsightInv
  BY DEF InsightInit, InsightInv, Outcome
<1>2. InsightInv /\ [InsightNext]_insightVars => InsightInv'
  BY DEF InsightInv, InsightNext, Detect, insightVars
<1> QED BY <1>1, <1>2, InsightInvRight, PTL DEF InsightSpec

\* A number of one, two or four digits in decimal.
Digit(c) == c - 48
Two(a, b) == 10 * Digit(a) + Digit(b)
Spells(chars, n) ==
  /\ chars \in Seq(48..57)
  /\ \/ Len(chars) = 1 /\ n = Digit(chars[1])
     \/ Len(chars) = 2 /\ n = Two(chars[1], chars[2])
     \/ Len(chars) = 4 /\ n = 100 * Two(chars[1], chars[2]) + Two(chars[3], chars[4])

\* Digits are in the order of their characters.
LEMMA OneDigit ==
  ASSUME NEW a \in 48..57, NEW b \in 48..57
  PROVE  (Digit(a) < Digit(b) => a < b) /\ (Digit(a) = Digit(b) => a = b)
BY DEF Digit

\* Numbers of as many digits are in the order of their texts.
LEMMA NumbersInOrder ==
  ASSUME NEW s, NEW t, NEW m, NEW n, Spells(s, m), Spells(t, n), Len(s) = Len(t)
  PROVE  (m < n => Before(s, t)) /\ (m = n => s = t)
<1>1. 1..(1 - 1) = {} /\ 1..(2 - 1) = {1} /\ 1..(3 - 1) = {1, 2} /\ 1..(4 - 1) = {1, 2, 3}
  OBVIOUS
<1>2. /\ s \in Seq(48..57) /\ t \in Seq(48..57)
      /\ DOMAIN s = 1..Len(s) /\ DOMAIN t = 1..Len(s)
      /\ \A i \in 1..Len(s) : s[i] \in 48..57 /\ t[i] \in 48..57
  BY DEF Spells
<1>3. (\A i \in 1..Len(s) : s[i] = t[i]) => s = t
  BY <1>2, SeqEqual
<1>4. ASSUME NEW k \in 1..Len(s), s[k] < t[k], \A j \in 1..(k - 1) : s[j] = t[j]
      PROVE  Before(s, t)
  <2>1. \A j \in 1..(k - 1) : j \in DOMAIN s /\ s[j] = t[j]
    BY <1>2, <1>4
  <2> QED BY <1>2, <1>4, <2>1 DEF Before
<1>5. CASE Len(s) = 1
  <2>1. m = Digit(s[1]) /\ n = Digit(t[1]) /\ s[1] \in 48..57 /\ t[1] \in 48..57
    BY <1>2, <1>5 DEF Spells
  <2>2. (m < n => s[1] < t[1]) /\ (m = n => s[1] = t[1])
    BY ONLY <2>1, OneDigit
  <2> QED BY <1>1, <1>3, <1>4, <1>5, <2>2
<1>6. CASE Len(s) = 2
  <2> DEFINE a == s[1]
             b == s[2]
             c == t[1]
             d == t[2]
  <2>1. m = Two(a, b) /\ n = Two(c, d) /\ a \in 48..57 /\ b \in 48..57 /\ c \in 48..57 /\ d \in 48..57
    BY <1>2, <1>6 DEF Spells
  <2> HIDE DEF a, b, c, d
  <2>2. /\ m < n => a < c \/ (a = c /\ b < d)
        /\ m = n => a = c /\ b = d
    BY ONLY <2>1 DEF Two, Digit
  <2> QED BY <1>1, <1>3, <1>4, <1>6, <2>2 DEF a, b, c, d
<1>7. CASE Len(s) = 4
  <2> DEFINE a == s[1]
             b == s[2]
             e == s[3]
             f == s[4]
             c == t[1]
             d == t[2]
             g == t[3]
             h == t[4]
  <2>1. /\ m = 100 * Two(a, b) + Two(e, f) /\ n = 100 * Two(c, d) + Two(g, h)
        /\ a \in 48..57 /\ b \in 48..57 /\ c \in 48..57 /\ d \in 48..57
        /\ e \in 48..57 /\ f \in 48..57 /\ g \in 48..57 /\ h \in 48..57
    BY <1>2, <1>7 DEF Spells
  <2> HIDE DEF a, b, c, d, e, f, g, h
  <2>2. /\ Two(a, b) \in 0..99 /\ Two(c, d) \in 0..99 /\ Two(e, f) \in 0..99 /\ Two(g, h) \in 0..99
        /\ Two(a, b) < Two(c, d) => a < c \/ (a = c /\ b < d)
        /\ Two(a, b) = Two(c, d) => a = c /\ b = d
        /\ Two(e, f) < Two(g, h) => e < g \/ (e = g /\ f < h)
        /\ Two(e, f) = Two(g, h) => e = g /\ f = h
    BY ONLY <2>1 DEF Two, Digit
  <2>3. /\ m < n => Two(a, b) < Two(c, d) \/ (Two(a, b) = Two(c, d) /\ Two(e, f) < Two(g, h))
        /\ m = n => Two(a, b) = Two(c, d) /\ Two(e, f) = Two(g, h)
    <3> DEFINE p == Two(a, b)
               q == Two(e, f)
               u == Two(c, d)
               v == Two(g, h)
    <3>1. /\ m = 100 * p + q /\ n = 100 * u + v
          /\ p \in 0..99 /\ q \in 0..99 /\ u \in 0..99 /\ v \in 0..99
      BY <2>1, <2>2
    <3> HIDE DEF p, q, u, v
    <3>2. /\ m < n => p < u \/ (p = u /\ q < v)
          /\ m = n => p = u /\ q = v
      BY ONLY <3>1
    <3> QED BY <3>2 DEF p, q, u, v
  <2>4. /\ a < c => Before(s, t)
        /\ a = c /\ b < d => Before(s, t)
        /\ a = c /\ b = d /\ e < g => Before(s, t)
        /\ a = c /\ b = d /\ e = g /\ f < h => Before(s, t)
    BY <1>1, <1>4, <1>7 DEF a, b, c, d, e, f, g, h
  <2>5. a = c /\ b = d /\ e = g /\ f = h => s = t
    BY <1>3, <1>7 DEF a, b, c, d, e, f, g, h
  <2> QED BY <2>2, <2>3, <2>4, <2>5
<1> QED BY <1>5, <1>6, <1>7 DEF Spells

\* A month is written with two digits behind a year.
LEMMA MonthsHaveTwoDigits ==
  ASSUME NEW chars, NEW n \in 1..12, Spells(chars, n), Len(chars) \in {1, 2}
  PROVE  Spells(Padded(chars), n) /\ Len(Padded(chars)) = 2
<1>1. chars \in Seq(48..57) /\ \A i \in 1..Len(chars) : chars[i] \in 48..57
  BY DEF Spells
<1>2. CASE Len(chars) = 1
  <2>1. [i \in 1..(2 - Len(chars)) |-> 48] = << 48 >>
    BY <1>2
  <2>2. Padded(chars) = << 48 >> \o chars
    BY <2>1 DEF Padded
  <2>3. n = Digit(chars[1]) /\ chars[1] \in 48..57
    BY <1>1, <1>2 DEF Spells
  <2>4. /\ Padded(chars) \in Seq(48..57) /\ Len(Padded(chars)) = 2
        /\ Padded(chars)[1] = 48 /\ Padded(chars)[2] = chars[1]
    <3> DEFINE zero == << 48 >>
    <3>1. zero \in Seq(48..57) /\ Len(zero) = 1 /\ zero[1] = 48
      OBVIOUS
    <3> HIDE DEF zero
    <3>2. /\ zero \o chars \in Seq(48..57) /\ Len(zero \o chars) = 2
          /\ (zero \o chars)[1] = 48 /\ (zero \o chars)[2] = chars[1]
      <4>1. /\ zero \o chars \in Seq(48..57) /\ Len(zero \o chars) = Len(zero) + Len(chars)
            /\ \A i \in 1..(Len(zero) + Len(chars)) :
                 (zero \o chars)[i] = IF i <= Len(zero) THEN zero[i] ELSE chars[i - Len(zero)]
        <5> DEFINE S == 48..57
        <5>1. zero \in Seq(S) /\ chars \in Seq(S)
          BY <1>1, <3>1
        <5> HIDE DEF S
        <5>2. /\ zero \o chars \in Seq(S) /\ Len(zero \o chars) = Len(zero) + Len(chars)
              /\ \A i \in 1..(Len(zero) + Len(chars)) :
                   (zero \o chars)[i] = IF i <= Len(zero) THEN zero[i] ELSE chars[i - Len(zero)]
          BY ONLY <5>1, ConcatProperties
        <5> QED BY <5>2 DEF S
      <4>2. 1 \in 1..(Len(zero) + Len(chars)) /\ 2 \in 1..(Len(zero) + Len(chars)) /\ 2 - Len(zero) = 1
        BY <1>2, <3>1
      <4> QED BY <1>2, <3>1, <4>1, <4>2
    <3> QED BY <2>2, <3>2 DEF zero
  <2>5. Two(48, chars[1]) = Digit(chars[1])
    BY <2>3 DEF Two, Digit
  <2> QED BY <2>3, <2>4, <2>5 DEF Spells
<1>3. CASE Len(chars) = 2
  <2>1. [i \in 1..(2 - Len(chars)) |-> 48] = << >>
    BY <1>3
  <2>2. Padded(chars) = chars
    BY <1>1, <2>1 DEF Padded
  <2> QED BY <1>3, <2>2
<1> QED BY <1>2, <1>3

\* What InsightIsRight asks of a result holds of numbers: years of four digits,
\* quarters, months behind a year, or any of them alone if they are as long.
LEMMA NumbersAreTimed ==
  ASSUME NEW result \in Results,
         NEW rows, rows = {i \in DOMAIN result.rows : result.rows[i].numeric},
         \A n \in DOMAIN KeyParts(result.columns) : \A i, j \in rows :
           /\ ~result.rows[i].cells[KeyParts(result.columns)[n].column].null
           /\ Spells(TextOf(result, i, n), AtOf(result, i, n))
           /\ Len(TextOf(result, i, n)) = Len(TextOf(result, j, n))
  PROVE  Timed(result)
<1> DEFINE parts == KeyParts(result.columns)
<1> SUFFICES ASSUME NEW n \in DOMAIN parts, NEW i \in rows, NEW j \in rows
             PROVE  /\ ~result.rows[i].cells[parts[n].column].null
                    /\ AtOf(result, i, n) < AtOf(result, j, n) =>
                         Before(TextOf(result, i, n), TextOf(result, j, n))
                    /\ AtOf(result, i, n) = AtOf(result, j, n) =>
                         TextOf(result, i, n) = TextOf(result, j, n)
                    /\ n < Len(parts) => Len(TextOf(result, i, n)) = Len(TextOf(result, j, n))
  BY Zenon DEF Timed, WrittenInOrder, AtOf, TextOf
<1>1. /\ Spells(TextOf(result, i, n), AtOf(result, i, n))
      /\ Spells(TextOf(result, j, n), AtOf(result, j, n))
      /\ Len(TextOf(result, i, n)) = Len(TextOf(result, j, n))
      /\ ~result.rows[i].cells[parts[n].column].null
  BY Zenon
<1> HIDE DEF parts
<1> QED BY ONLY <1>1, NumbersInOrder

(***************************************************************************)
(* The searches for join paths.                                            *)
(***************************************************************************)

\* The steps, and the paths they make.
StepNumbers == 1..(2 * Len(Keys))
AllSteps == {Steps[i] : i \in StepNumbers}
Paths == Seq(AllSteps)

\* A key is followed in its own direction or in the other, and not twice in the same
\* unless it leads from a table to itself.
LEMMA StepsType ==
  /\ Len(Keys) \in Nat /\ Len(Steps) = 2 * Len(Keys) /\ Len(Steps) \in Nat
  /\ DOMAIN Steps = StepNumbers /\ StepNumbers = 1..Len(Steps)
  /\ \A i \in StepNumbers : Steps[i] \in AllSteps /\ Steps[i].from \in Tables /\ Steps[i].to \in Tables
<1>1. Keys \in Seq([from : Tables, to : Tables])
  BY JoinPathsAssumption
<1>2. Len(Keys) \in Nat /\ DOMAIN Keys = 1..Len(Keys)
  BY <1>1
<1>3. \A k \in 1..Len(Keys) : Keys[k].from \in Tables /\ Keys[k].to \in Tables
  <2> DEFINE K == [from : Tables, to : Tables]
  <2>1. Keys \in Seq(K)
    BY <1>1
  <2>2. \A x \in K : x.from \in Tables /\ x.to \in Tables
    OBVIOUS
  <2> HIDE DEF K
  <2>3. \A k \in 1..Len(Keys) : Keys[k] \in K
    BY <1>2, <2>1
  <2> QED BY <2>2, <2>3
<1>4. DOMAIN Steps = StepNumbers
  BY Zenon DEF Steps, StepNumbers
<1>5. Len(Steps) = 2 * Len(Keys)
  BY <1>2, <1>4 DEF StepNumbers
<1>6. ASSUME NEW i \in StepNumbers PROVE Steps[i].from \in Tables /\ Steps[i].to \in Tables
  <2> DEFINE k == (i + 1) \div 2
  <2>1. k \in 1..Len(Keys)
    BY <1>2 DEF StepNumbers
  <2> HIDE DEF k
  <2>2. Steps[i] = Step(k, Keys[k].from, Keys[k].to) \/ Steps[i] = Step(k, Keys[k].to, Keys[k].from)
    BY Zenon DEF Steps, StepNumbers, k
  <2> QED BY <1>3, <2>1, <2>2 DEF Step
<1> QED BY <1>2, <1>4, <1>5, <1>6 DEF AllSteps, StepNumbers

\* Steps from a table to others are as different as their numbers.
LEMMA StepsDiffer ==
  ASSUME NEW i \in StepNumbers, NEW j \in StepNumbers, Steps[i] = Steps[j], Steps[i].to # Steps[i].from
  PROVE  i = j
<1> DEFINE k == (i + 1) \div 2
           l == (j + 1) \div 2
<1>1. Len(Keys) \in Nat
  BY StepsType
<1>2. /\ i % 2 = 1 => Steps[i] = Step(k, Keys[k].from, Keys[k].to)
      /\ i % 2 # 1 => Steps[i] = Step(k, Keys[k].to, Keys[k].from)
  BY Zenon DEF Steps, StepNumbers
<1>3. /\ j % 2 = 1 => Steps[j] = Step(l, Keys[l].from, Keys[l].to)
      /\ j % 2 # 1 => Steps[j] = Step(l, Keys[l].to, Keys[l].from)
  BY Zenon DEF Steps, StepNumbers
<1>4. i \in Nat /\ j \in Nat /\ (k = l /\ (i % 2 = 1 <=> j % 2 = 1) => i = j)
  BY <1>1 DEF StepNumbers
<1> HIDE DEF k, l
<1>5. Steps[i].key = k /\ Steps[j].key = l
  BY <1>2, <1>3 DEF Step
<1>6. k = l
  BY <1>5
<1>7. i % 2 = 1 <=> j % 2 = 1
  BY <1>2, <1>3, <1>6 DEF Step
<1> QED BY <1>4, <1>6, <1>7

\* The end of a path and the tables on it, by its last step.
LEMMA PathOfSteps ==
  ASSUME NEW p \in Paths
  PROVE  /\ Len(p) \in Nat /\ DOMAIN p = 1..Len(p)
         /\ \A i \in 1..Len(p) : p[i] \in AllSteps
         /\ Len(p) = 0 <=> p = << >>
         /\ EndOf(p) = IF Len(p) = 0 THEN source ELSE p[Len(p)].to
BY DEF Paths, EndOf, Last

\* A path that is one step longer.
LEMMA OneStepMore ==
  ASSUME NEW p \in Paths, NEW hop \in AllSteps
  PROVE  /\ Append(p, hop) \in Paths /\ Len(Append(p, hop)) = Len(p) + 1
         /\ Append(p, hop) # << >>
         /\ \A i \in 1..Len(p) : Append(p, hop)[i] = p[i]
         /\ Append(p, hop)[Len(p) + 1] = hop
         /\ EndOf(Append(p, hop)) = hop.to
         /\ TablesOn(Append(p, hop)) = TablesOn(p) \cup {hop.to}
<1> DEFINE q == Append(p, hop)
<1>1. Len(p) \in Nat /\ DOMAIN p = 1..Len(p)
  BY PathOfSteps
<1>2. q \in Paths /\ Len(q) = Len(p) + 1 /\ q[Len(p) + 1] = hop /\ \A i \in 1..Len(p) : q[i] = p[i]
  BY DEF Paths
<1>3. DOMAIN q = 1..(Len(p) + 1)
  BY <1>2, PathOfSteps
<1> HIDE DEF q
<1>4. Len(q) # 0 /\ q # << >> /\ EndOf(q) = hop.to
  BY <1>1, <1>2, PathOfSteps
<1>5. 1..(Len(p) + 1) = (1..Len(p)) \cup {Len(p) + 1}
  BY <1>1
<1>6. TablesOn(q) = TablesOn(p) \cup {hop.to}
  BY <1>1, <1>2, <1>3, <1>5 DEF TablesOn
<1> QED BY <1>2, <1>4, <1>6 DEF q

\* A path from the source, each step from where the one before it led; and one that
\* meets no table twice, as the code tells it and as it is used below.
Walk(p) ==
  /\ p \in Paths
  /\ \A i \in DOMAIN p : p[i].from = IF i = 1 THEN source ELSE p[i - 1].to
Simple(p) == IsFiniteSet(TablesOn(p)) /\ Cardinality(TablesOn(p)) = Len(p) + 1
NoTableTwice(p) ==
  \A i \in DOMAIN p : p[i].to # source /\ \A j \in DOMAIN p : i # j => p[i].to # p[j].to

\* The empty path.
LEMMA EmptyWalk ==
  /\ << >> \in Paths /\ Len(<< >>) = 0 /\ EndOf(<< >>) = source /\ TablesOn(<< >>) = {source}
  /\ Walk(<< >>) /\ Simple(<< >>) /\ NoTableTwice(<< >>)
<1>1. << >> \in Paths /\ Len(<< >>) = 0 /\ DOMAIN << >> = {}
  BY DEF Paths
<1>2. EndOf(<< >>) = source
  BY Zenon DEF EndOf
<1>3. TablesOn(<< >>) = {source}
  BY Zenon, <1>1 DEF TablesOn
<1>4. IsFiniteSet({source}) /\ Cardinality({source}) = 1
  BY FS_Singleton
<1> QED BY <1>1, <1>2, <1>3, <1>4 DEF Walk, Simple, NoTableTwice

\* A walk goes on from its end, and stays simple if the next table is new.
LEMMA WalkOn ==
  ASSUME NEW p, Walk(p), NEW hop \in AllSteps, hop.from = EndOf(p)
  PROVE  Walk(Append(p, hop))
<1> DEFINE q == Append(p, hop)
<1>1. p \in Paths /\ Len(p) \in Nat /\ DOMAIN p = 1..Len(p)
  BY PathOfSteps DEF Walk
<1>2. /\ q \in Paths /\ Len(q) = Len(p) + 1
      /\ q[Len(p) + 1] = hop /\ \A i \in 1..Len(p) : q[i] = p[i]
  BY <1>1, OneStepMore
<1>3. DOMAIN q = 1..(Len(p) + 1)
  BY <1>2, PathOfSteps
<1>4. EndOf(p) = IF Len(p) = 0 THEN source ELSE p[Len(p)].to
  BY <1>1, PathOfSteps
<1> HIDE DEF q
<1>5. ASSUME NEW i \in 1..(Len(p) + 1) PROVE q[i].from = IF i = 1 THEN source ELSE q[i - 1].to
  <2>1. CASE i = Len(p) + 1
    BY <1>1, <1>2, <1>4, <2>1
  <2>2. CASE i # Len(p) + 1
    <3>1. i \in 1..Len(p) /\ (i # 1 => i - 1 \in 1..Len(p))
      BY <1>1, <2>2
    <3>2. p[i].from = IF i = 1 THEN source ELSE p[i - 1].to
      BY <1>1, <3>1 DEF Walk
    <3> QED BY <1>2, <3>1, <3>2
  <2> QED BY <2>1, <2>2
<1> QED BY <1>2, <1>3, <1>5 DEF Walk, q

\* As above.
LEMMA SimpleOn ==
  ASSUME NEW p \in Paths, Simple(p), NEW hop \in AllSteps, hop.to \notin TablesOn(p)
  PROVE  Simple(Append(p, hop))
<1>1. /\ TablesOn(Append(p, hop)) = TablesOn(p) \cup {hop.to}
      /\ Len(Append(p, hop)) = Len(p) + 1 /\ Len(p) \in Nat
  BY OneStepMore, PathOfSteps
<1>2. /\ IsFiniteSet(TablesOn(p) \cup {hop.to})
      /\ Cardinality(TablesOn(p) \cup {hop.to}) = Cardinality(TablesOn(p)) + 1
  BY FS_AddElement DEF Simple
<1> QED BY <1>1, <1>2 DEF Simple

\* The tables nearest to the source, and those one step further.
LEMMA NearIs ==
  /\ Near[0] = {source}
  /\ \A n \in Nat :
       Near[n + 1] = Near[n] \cup {Steps[i].to : i \in {j \in StepNumbers : Steps[j].from \in Near[n]}}
<1> DEFINE V == SUBSET (Tables \cup {source})
           more(t) == t \cup {Steps[i].to : i \in {j \in StepNumbers : Steps[j].from \in t}}
           hop == [n \in Nat |-> [t \in V |-> more(t)]]
<1>1. {source} \in V
  OBVIOUS
<1>2. \A t \in V : more(t) \in V
  BY StepsType
<1>3. IsStep(hop, V)
  BY <1>2 DEF IsStep
<1>4. \A n \in Nat, t \in V : hop[n][t] = more(t)
  OBVIOUS
<1> HIDE DEF hop, V
<1>5. PICK f : GivenBy(f, V, {source}, hop)
  BY <1>1, <1>3, Recursion
<1>6. f \in [Nat -> V] /\ f[0] = {source} /\ \A n \in Nat : f[n + 1] = more(f[n])
  BY <1>4, <1>5 DEF GivenBy
<1> DEFINE found(g) == g = [n \in Nat |-> IF n = 0 THEN {source}
                 ELSE g[n - 1] \cup
                   {Steps[i].to : i \in {j \in DOMAIN Steps : Steps[j].from \in g[n - 1]}}]
<1>7. found(f)
  <2>1. ASSUME NEW n \in Nat
        PROVE  f[n] = IF n = 0 THEN {source}
                 ELSE f[n - 1] \cup
                   {Steps[i].to : i \in {j \in DOMAIN Steps : Steps[j].from \in f[n - 1]}}
    <3>1. CASE n = 0
      BY <1>6, <3>1
    <3>2. CASE n # 0
      <4>1. n - 1 \in Nat /\ (n - 1) + 1 = n
        BY <3>2
      <4>2. f[n] = more(f[n - 1])
        BY <1>6, <4>1
      <4> QED BY <3>2, <4>2, StepsType
    <3> QED BY <3>1, <3>2
  <2>2. f = [n \in Nat |-> f[n]]
    BY <1>6
  <2> QED BY Zenon, <2>1, <2>2
<1>8. Near = CHOOSE g : found(g)
  BY Zenon DEF Near
<1> HIDE DEF found
<1>9. found(Near)
  BY Zenon, <1>7, <1>8
<1>10. Near = [n \in Nat |-> IF n = 0 THEN {source}
                 ELSE Near[n - 1] \cup
                   {Steps[i].to : i \in {j \in DOMAIN Steps : Steps[j].from \in Near[n - 1]}}]
  BY Zenon, <1>9 DEF found
<1>11. Near[0] = {source}
  BY <1>10
<1>12. ASSUME NEW n \in Nat PROVE Near[n + 1] = more(Near[n])
  <2>1. n + 1 \in Nat /\ n + 1 # 0 /\ (n + 1) - 1 = n
    OBVIOUS
  <2>2. Near[n + 1] = Near[(n + 1) - 1] \cup
          {Steps[i].to : i \in {j \in DOMAIN Steps : Steps[j].from \in Near[(n + 1) - 1]}}
    BY Zenon, <1>10, <2>1
  <2> QED BY <2>1, <2>2, StepsType
<1> QED BY <1>11, <1>12

\* What is near stays near, ...
LEMMA NearGrows ==
  ASSUME NEW m \in Nat, NEW n \in Nat, m <= n
  PROVE  Near[m] \subseteq Near[n]
<1> DEFINE S == {k \in Nat : Near[m] \subseteq Near[m + k]}
<1>1. 0 \in S
  OBVIOUS
<1>2. ASSUME NEW k \in Nat, k \in S PROVE k + 1 \in S
  <2>1. m + k \in Nat /\ m + (k + 1) = (m + k) + 1 /\ k + 1 \in Nat
    OBVIOUS
  <2>2. Near[(m + k) + 1] = Near[m + k] \cup
          {Steps[i].to : i \in {j \in StepNumbers : Steps[j].from \in Near[m + k]}}
    BY Zenon, <2>1, NearIs
  <2>3. Near[m + k] \subseteq Near[m + (k + 1)]
    BY Zenon, <2>1, <2>2
  <2> QED BY <1>2, <2>1, <2>3
<1> HIDE DEF S
<1>3. Nat \subseteq S
  BY <1>1, <1>2, Induction
<1>4. n - m \in Nat /\ m + (n - m) = n
  OBVIOUS
<1>5. n - m \in S
  BY <1>3, <1>4
<1> QED BY <1>4, <1>5 DEF S

\* ... it is in every set that has the source and all that its tables lead to, ...
LEMMA NearIsClosed ==
  ASSUME NEW C, source \in C,
         \A i \in StepNumbers : Steps[i].from \in C => Steps[i].to \in C,
         NEW n \in Nat
  PROVE  Near[n] \subseteq C
<1> DEFINE S == {k \in Nat : Near[k] \subseteq C}
<1>1. 0 \in S
  BY NearIs
<1>2. ASSUME NEW k \in Nat, k \in S PROVE k + 1 \in S
  <2>1. Near[k + 1] = Near[k] \cup {Steps[i].to : i \in {j \in StepNumbers : Steps[j].from \in Near[k]}}
    BY Zenon, NearIs
  <2>2. Near[k] \subseteq C
    BY <1>2
  <2>3. Near[k + 1] \subseteq C
    BY Zenon, <2>1, <2>2
  <2> QED BY <2>3
<1> HIDE DEF S
<1>3. Nat \subseteq S
  BY <1>1, <1>2, Induction
<1> QED BY <1>3 DEF S

\* ... every walk ends near enough, ...
LEMMA WalkReaches ==
  ASSUME NEW p, Walk(p)
  PROVE  EndOf(p) \in Near[Len(p)]
<1> DEFINE N == Len(p)
           At(n) == IF n = 0 THEN source ELSE p[n].to
           S == {n \in 0..N : At(n) \in Near[n]}
<1>1. /\ p \in Paths /\ N \in Nat /\ DOMAIN p = 1..N
      /\ \A i \in 1..N : p[i] \in AllSteps
      /\ EndOf(p) = At(N)
  BY PathOfSteps DEF Walk
<1>2. \A i \in 1..N : p[i].from = At(i - 1)
  <2>1. ASSUME NEW i \in 1..N PROVE p[i].from = At(i - 1)
    <3>1. p[i].from = IF i = 1 THEN source ELSE p[i - 1].to
      BY <1>1 DEF Walk
    <3>2. i = 1 <=> i - 1 = 0
      OBVIOUS
    <3> QED BY <3>1, <3>2
  <2> QED BY <2>1
<1>3. 0 \in S
  BY <1>1, NearIs
<1>4. ASSUME NEW n \in 0..N, n \in S, n < N PROVE n + 1 \in S
  <2>1. n \in Nat /\ n + 1 \in 1..N /\ n + 1 \in 0..N /\ (n + 1) - 1 = n /\ n + 1 # 0
    BY <1>1, <1>4
  <2>2. PICK k \in StepNumbers : p[n + 1] = Steps[k]
    BY <1>1, <2>1 DEF AllSteps
  <2>3. Steps[k].from \in Near[n]
    BY <1>2, <1>4, <2>1, <2>2
  <2>4. Near[n + 1] = Near[n] \cup {Steps[i].to : i \in {j \in StepNumbers : Steps[j].from \in Near[n]}}
    BY Zenon, <2>1, NearIs
  <2>5. Steps[k].to \in Near[n + 1]
    BY Zenon, <2>3, <2>4
  <2>6. At(n + 1) = Steps[k].to
    BY <2>1, <2>2
  <2> QED BY <2>1, <2>5, <2>6
<1> HIDE DEF S
<1>5. 0..N \subseteq S
  BY <1>1, <1>3, <1>4, BoundedInduction
<1>6. N \in S
  BY <1>1, <1>5
<1> QED BY <1>1, <1>6 DEF S

\* A walk's beginning is one.
LEMMA WalkBegins ==
  ASSUME NEW p, Walk(p), NEW n \in 0..Len(p)
  PROVE  /\ Walk(SubSeq(p, 1, n)) /\ Len(SubSeq(p, 1, n)) = n
         /\ \A i \in 1..n : SubSeq(p, 1, n)[i] = p[i]
         /\ NoTableTwice(p) => NoTableTwice(SubSeq(p, 1, n))
<1> DEFINE q == SubSeq(p, 1, n)
<1>1. p \in Paths /\ Len(p) \in Nat /\ DOMAIN p = 1..Len(p) /\ \A i \in 1..Len(p) : p[i] \in AllSteps
  BY PathOfSteps DEF Walk
<1>2. p \in Seq(AllSteps)
  BY <1>1 DEF Paths
<1>3. n \in Nat /\ n <= Len(p)
  BY <1>1
<1>4. q \in Seq(AllSteps) /\ Len(q) = n /\ \A i \in 1..n : q[i] = p[i]
  BY <1>1, <1>2, <1>3
<1>5. q \in Paths /\ DOMAIN q = 1..n
  BY <1>3, <1>4 DEF Paths
<1> HIDE DEF q
<1>6. \A i \in 1..n : i \in 1..Len(p) /\ (i # 1 => i - 1 \in 1..n)
  BY <1>1, <1>3
<1>7. ASSUME NEW i \in 1..n PROVE q[i].from = IF i = 1 THEN source ELSE q[i - 1].to
  <2>1. p[i].from = IF i = 1 THEN source ELSE p[i - 1].to
    BY <1>1, <1>6 DEF Walk
  <2> QED BY <1>4, <1>6, <2>1
<1>8. Walk(q)
  BY <1>5, <1>7 DEF Walk
<1>9. NoTableTwice(p) => NoTableTwice(q)
  BY <1>1, <1>4, <1>5, <1>6 DEF NoTableTwice
<1> QED BY <1>4, <1>8, <1>9 DEF q

\* ... and every table near enough is the end of a walk without detours.
LEMMA NearByWalk ==
  ASSUME NEW n \in Nat, NEW t \in Near[n]
  PROVE  \E w : Walk(w) /\ Len(w) <= n /\ EndOf(w) = t /\ NoTableTwice(w)
<1> DEFINE Led(u, k) == \E w : Walk(w) /\ Len(w) <= k /\ EndOf(w) = u /\ NoTableTwice(w)
           S == {k \in Nat : \A u \in Near[k] : Led(u, k)}
<1>1. \A k \in Nat : Led(source, k)
  BY EmptyWalk
<1>2. 0 \in S
  BY <1>1, NearIs
<1>3. ASSUME NEW k \in Nat, k \in S PROVE k + 1 \in S
  <2>1. ASSUME NEW u \in Near[k + 1] PROVE Led(u, k + 1)
    <3>1. Near[k + 1] = Near[k] \cup
            {Steps[i].to : i \in {j \in StepNumbers : Steps[j].from \in Near[k]}}
      BY Zenon, NearIs
    <3>2. CASE u \in Near[k]
      <4>1. PICK w : Walk(w) /\ Len(w) <= k /\ EndOf(w) = u /\ NoTableTwice(w)
        BY <1>3, <3>2
      <4>2. Len(w) \in Nat
        BY <4>1, PathOfSteps DEF Walk
      <4> QED BY <4>1, <4>2
    <3>3. CASE u \notin Near[k]
      <4>1. PICK i \in StepNumbers : u = Steps[i].to /\ Steps[i].from \in Near[k]
        BY Zenon, <3>1, <3>3
      <4>2. PICK w : Walk(w) /\ Len(w) <= k /\ EndOf(w) = Steps[i].from /\ NoTableTwice(w)
        BY <1>3, <4>1
      <4>3. w \in Paths /\ Len(w) \in Nat /\ DOMAIN w = 1..Len(w)
        BY <4>2, PathOfSteps DEF Walk
      <4>4. Steps[i] \in AllSteps
        BY StepsType
      <4>5. CASE u = source
        <5>1. Led(source, k + 1)
          BY <1>1
        <5> QED BY <4>5, <5>1
      <4>6. CASE \E j \in 1..Len(w) : u = w[j].to
        <5>1. PICK j \in 1..Len(w) : u = w[j].to
          BY <4>6
        <5> DEFINE v == SubSeq(w, 1, j)
        <5>2. j \in 0..Len(w) /\ j \in Nat /\ j # 0 /\ j \in 1..j /\ j <= k + 1
          BY <4>2, <4>3
        <5>3. Walk(v) /\ Len(v) = j /\ v[j] = w[j] /\ NoTableTwice(v)
          BY <4>2, <5>2, WalkBegins
        <5> HIDE DEF v
        <5>4. EndOf(v) = v[j].to
          BY <5>2, <5>3, PathOfSteps DEF Walk
        <5> QED BY <5>1, <5>2, <5>3, <5>4
      <4>7. CASE u # source /\ \A j \in 1..Len(w) : u # w[j].to
        <5> DEFINE v == Append(w, Steps[i])
        <5>1. Walk(v)
          BY <4>2, <4>4, WalkOn
        <5>2. /\ v \in Paths /\ Len(v) = Len(w) + 1 /\ EndOf(v) = u
              /\ v[Len(w) + 1] = Steps[i] /\ \A j \in 1..Len(w) : v[j] = w[j]
          BY <4>1, <4>3, <4>4, OneStepMore
        <5>3. DOMAIN v = 1..(Len(w) + 1)
          BY <5>2, PathOfSteps
        <5> HIDE DEF v
        <5>4. \A j \in 1..(Len(w) + 1) : j \in 1..Len(w) \/ j = Len(w) + 1
          BY <4>3
        <5>5. NoTableTwice(v)
          <6>1. \A j \in 1..Len(w) : v[j].to # source /\ v[j].to # u
            BY <4>2, <4>3, <4>7, <5>2 DEF NoTableTwice
          <6>2. \A j, l \in 1..Len(w) : j # l => v[j].to # v[l].to
            BY <4>2, <4>3, <5>2 DEF NoTableTwice
          <6>3. v[Len(w) + 1].to = u
            BY <4>1, <5>2
          <6> QED BY <4>7, <5>3, <5>4, <6>1, <6>2, <6>3 DEF NoTableTwice
        <5>6. Len(v) <= k + 1
          BY <4>2, <4>3, <5>2
        <5> QED BY <5>1, <5>2, <5>5, <5>6
      <4> QED BY <4>5, <4>6, <4>7
    <3> QED BY <3>2, <3>3
  <2> QED BY <2>1
<1> HIDE DEF S
<1>4. Nat \subseteq S
  BY <1>2, <1>3, Induction
<1>5. n \in S
  BY <1>4
<1> QED BY <1>5 DEF S

(***************************************************************************)
(* One turn of shortest_path.                                              *)
(***************************************************************************)

\* What the loop over the neighbours of a path's end works on.
Meeting == [open : Seq(Paths), visited : SUBSET Tables, paths : Seq(Paths)]

\* What it has done so far, to the paths that were still open and the tables that had
\* been met: the new ones end in tables met now, and one found ends in the target.
Extends(new, path, seen, reached) ==
  \E hop \in AllSteps :
    /\ new = Append(path, hop) /\ hop.from = EndOf(path)
    /\ hop.to \notin seen /\ hop.to \in reached

Finds(found, path) ==
  \E hop \in AllSteps :
    found = <<Append(path, hop)>> /\ hop.from = EndOf(path) /\ hop.to = target

MeetsWell(s, path, rest, seen) ==
  /\ Len(s.open) >= Len(rest) /\ \A j \in 1..Len(rest) : s.open[j] = rest[j]
  /\ \A j \in DOMAIN s.open : j > Len(rest) => Extends(s.open[j], path, seen, s.visited)
  /\ seen \subseteq s.visited /\ target \notin s.visited
  /\ \A t \in s.visited \ seen : \E j \in DOMAIN s.open : EndOf(s.open[j]) = t
  /\ s.paths # << >> => Finds(s.paths, path)

\* What one step does.
LEMMA MeetKeeps ==
  ASSUME NEW path \in Paths, NEW rest \in Seq(Paths), NEW seen,
         NEW s \in Meeting, MeetsWell(s, path, rest, seen), NEW hop \in AllSteps, hop.to \in Tables
  PROVE  LET m == Meet(s, path, hop) IN
         /\ m \in Meeting /\ MeetsWell(m, path, rest, seen)
         /\ s.visited \subseteq m.visited
         /\ m.paths = << >> => s.paths = << >> /\ (hop.from = EndOf(path) => hop.to \in m.visited)
<1> DEFINE m == Meet(s, path, hop)
           q == Append(path, hop)
<1>1. s.open \in Seq(Paths) /\ s.visited \subseteq Tables /\ s.paths \in Seq(Paths)
  BY DEF Meeting
<1>2. q \in Paths /\ EndOf(q) = hop.to
  BY OneStepMore
<1> HIDE DEF q
<1>3. CASE s.paths # << >> \/ hop.from # EndOf(path) \/ hop.to \in s.visited
  <2>1. m = s
    BY Zenon, <1>3 DEF Meet
  <2> QED BY <1>3, <2>1
<1>4. CASE s.paths = << >> /\ hop.from = EndOf(path) /\ hop.to \notin s.visited /\ hop.to = target
  <2>1. m = [open |-> s.open, visited |-> s.visited, paths |-> <<q>>]
    BY Zenon, <1>4 DEF Meet, q
  <2>2. m.open = s.open /\ m.visited = s.visited /\ m.paths = <<q>>
    BY <2>1
  <2>3. <<q>> \in Seq(Paths) /\ <<q>> # << >>
    BY <1>2
  <2>4. m \in Meeting
    BY <1>1, <2>1, <2>3 DEF Meeting
  <2>5. Finds(<<q>>, path)
    BY <1>4 DEF Finds, q
  <2> HIDE DEF m
  <2>6. MeetsWell(m, path, rest, seen)
    BY <2>2, <2>5 DEF MeetsWell
  <2> QED BY <2>2, <2>3, <2>4, <2>6 DEF m
<1>5. CASE s.paths = << >> /\ hop.from = EndOf(path) /\ hop.to \notin s.visited /\ hop.to # target
  <2>1. m = [open |-> Append(s.open, q), visited |-> s.visited \cup {hop.to}, paths |-> << >>]
    BY Zenon, <1>5 DEF Meet, q
  <2>2. m.open = Append(s.open, q) /\ m.visited = s.visited \cup {hop.to} /\ m.paths = << >>
    BY <2>1
  <2> DEFINE L == Len(s.open)
  <2>3. /\ L \in Nat /\ DOMAIN s.open = 1..L
        /\ m.open \in Seq(Paths) /\ Len(m.open) = L + 1 /\ DOMAIN m.open = 1..(L + 1)
        /\ m.open[L + 1] = q /\ \A j \in 1..L : m.open[j] = s.open[j]
    BY <1>1, <1>2, <2>2
  <2>4. m.visited \in SUBSET Tables
    BY <1>1, <2>2
  <2>5. << >> \in Seq(Paths)
    OBVIOUS
  <2>6. m \in Meeting
    <3>1. m = [open |-> m.open, visited |-> m.visited, paths |-> m.paths]
      BY <2>1, <2>2
    <3> HIDE DEF m
    <3> QED BY <2>2, <2>3, <2>4, <2>5, <3>1 DEF Meeting
  <2> HIDE DEF m
  <2>7. Len(rest) \in Nat /\ L >= Len(rest) /\ \A j \in 1..Len(rest) : s.open[j] = rest[j]
    BY DEF MeetsWell
  <2> HIDE DEF L
  <2>8. \A j \in 1..Len(rest) : m.open[j] = rest[j]
    <3>1. L \in Nat /\ \A j \in 1..L : m.open[j] = s.open[j]
      BY <2>3
    <3>2. \A j \in 1..Len(rest) : j \in 1..L
      BY <2>7, <3>1
    <3> QED BY Zenon, <2>7, <3>1, <3>2
  <2>9. ASSUME NEW j \in 1..(L + 1), j > Len(rest) PROVE Extends(m.open[j], path, seen, m.visited)
    <3>1. CASE j = L + 1
      <4>1. hop.to \notin seen
        BY <1>5 DEF MeetsWell
      <4>2. Extends(q, path, seen, m.visited)
        BY <1>5, <2>2, <4>1 DEF Extends, q
      <4> QED BY <2>3, <3>1, <4>2
    <3>2. CASE j # L + 1
      <4>1. j \in 1..L
        BY <2>3, <3>2
      <4>2. Extends(s.open[j], path, seen, s.visited)
        BY <2>3, <2>9, <4>1 DEF MeetsWell
      <4>3. Extends(s.open[j], path, seen, m.visited)
        BY <2>2, <4>2 DEF Extends
      <4> QED BY <2>3, <4>1, <4>3
    <3> QED BY <3>1, <3>2
  <2>10. ASSUME NEW t \in m.visited \ seen PROVE \E j \in DOMAIN m.open : EndOf(m.open[j]) = t
    <3>1. CASE t = hop.to
      <4>1. L + 1 \in DOMAIN m.open
        BY <2>3
      <4> QED BY <1>2, <2>3, <3>1, <4>1
    <3>2. CASE t # hop.to
      <4>1. PICK j \in 1..L : EndOf(s.open[j]) = t
        BY <2>2, <2>3, <3>2 DEF MeetsWell
      <4>2. j \in DOMAIN m.open
        BY <2>3, <4>1
      <4> QED BY <2>3, <4>1, <4>2
    <3> QED BY <3>1, <3>2
  <2>11. seen \subseteq m.visited /\ target \notin m.visited
    BY <1>5, <2>2 DEF MeetsWell
  <2>12. Len(m.open) >= Len(rest)
    BY <2>3, <2>7
  <2>13. MeetsWell(m, path, rest, seen)
    BY <2>2, <2>3, <2>8, <2>9, <2>10, <2>11, <2>12 DEF MeetsWell
  <2> QED BY <1>5, <2>2, <2>6, <2>13 DEF m
<1> QED BY <1>3, <1>4, <1>5

\* What the whole loop does.
LEMMA BreadthIsWell ==
  ASSUME NEW path \in Paths, open \in Seq(Paths), open # << >>,
         visited \subseteq Tables, target \notin visited
  PROVE  LET s == Breadth(path) IN
         /\ s \in Meeting /\ MeetsWell(s, path, Tail(open), visited)
         /\ s.paths = << >> =>
              \A i \in StepNumbers : Steps[i].from = EndOf(path) => Steps[i].to \in s.visited
<1> DEFINE N == Len(Steps)
           rest == Tail(open)
           W == {s \in Meeting : MeetsWell(s, path, rest, visited)}
           first == [open |-> rest, visited |-> visited, paths |-> << >>]
           hop == [n \in 1..N |-> [s \in W |-> Meet(s, path, Steps[n])]]
<1>1. N \in Nat /\ \A n \in 1..N : n \in StepNumbers /\ Steps[n] \in AllSteps /\ Steps[n].to \in Tables
  BY StepsType
<1>2. rest \in Seq(Paths) /\ Len(rest) \in Nat /\ DOMAIN rest = 1..Len(rest)
  OBVIOUS
<1>3. first.open = rest /\ first.visited = visited /\ first.paths = << >>
  OBVIOUS
<1>4. first \in Meeting
  BY <1>2 DEF Meeting
<1> HIDE DEF first, rest
<1>5. MeetsWell(first, path, rest, visited)
  BY <1>2, <1>3 DEF MeetsWell
<1>6. first \in W
  BY <1>4, <1>5
<1>7. ASSUME NEW n \in 1..N, NEW s \in W
      PROVE  LET m == Meet(s, path, Steps[n]) IN
             /\ m \in W /\ s.visited \subseteq m.visited
             /\ m.paths = << >> =>
                  s.paths = << >> /\ (Steps[n].from = EndOf(path) => Steps[n].to \in m.visited)
  <2>1. /\ Steps[n] \in AllSteps /\ Steps[n].to \in Tables
        /\ s \in Meeting /\ MeetsWell(s, path, rest, visited)
    BY <1>1
  <2> QED BY <1>2, <2>1, MeetKeeps
<1>8. BoundedStep(hop, N, W)
  BY <1>7 DEF BoundedStep
<1>9. \A n \in 1..N, s \in W : hop[n][s] = Meet(s, path, Steps[n])
  OBVIOUS
<1> HIDE DEF hop, W, N
<1>10. PICK f : Recursive(f, N, first, hop) /\ f \in [0..N -> W]
  BY <1>1, <1>6, <1>8, BoundedRecursion
<1> DEFINE Is(g) == g = [i \in 0..N |-> IF i = 0 THEN first ELSE Meet(g[i - 1], path, Steps[i])]
<1>11. Is(f)
  <2>1. ASSUME NEW n \in 0..N, n # 0 PROVE hop[n][f[n - 1]] = Meet(f[n - 1], path, Steps[n])
    <3>1. n \in 1..N /\ n - 1 \in 0..N
      BY <1>1, <2>1
    <3> QED BY <1>9, <1>10, <3>1
  <2> QED BY <1>10, <2>1 DEF Recursive
<1> DEFINE reached == CHOOSE g : Is(g)
<1>12. Is(reached)
  BY Zenon, <1>11
<1>13. Breadth(path) = reached[N]
  BY Zenon DEF Breadth, N, first, rest
<1> HIDE DEF reached
<1>14. reached[0] = first /\ \A n \in 1..N : reached[n] = Meet(reached[n - 1], path, Steps[n])
  <2>1. 0 \in 0..N /\ \A n \in 1..N : n \in 0..N /\ n # 0
    BY <1>1
  <2> QED BY <1>12, <2>1
<1> HIDE DEF Is
<1> DEFINE Ok(n) == /\ reached[n] \in W
                    /\ reached[n].paths = << >> =>
                         \A i \in 1..n :
                           Steps[i].from = EndOf(path) => Steps[i].to \in reached[n].visited
           S == {n \in 0..N : Ok(n)}
<1>15. 0 \in S
  BY <1>1, <1>6, <1>14
<1>16. ASSUME NEW n \in 0..N, n \in S, n < N PROVE n + 1 \in S
  <2>1. /\ n + 1 \in 1..N /\ n + 1 \in 0..N /\ (n + 1) - 1 = n
        /\ \A i \in 1..(n + 1) : i \in 1..n \/ i = n + 1
    BY <1>1, <1>16
  <2>2. reached[n + 1] = Meet(reached[n], path, Steps[n + 1])
    BY <1>14, <2>1
  <2>3. /\ reached[n + 1] \in W /\ reached[n].visited \subseteq reached[n + 1].visited
        /\ reached[n + 1].paths = << >> =>
             /\ reached[n].paths = << >>
             /\ Steps[n + 1].from = EndOf(path) => Steps[n + 1].to \in reached[n + 1].visited
    BY <1>7, <1>16, <2>1, <2>2
  <2>4. Ok(n)
    BY <1>16
  <2>5. Ok(n + 1)
    BY <2>1, <2>3, <2>4
  <2> QED BY <2>1, <2>5
<1> HIDE DEF S
<1>17. 0..N \subseteq S
  BY <1>1, <1>15, <1>16, BoundedInduction
<1>18. N \in S
  BY <1>1, <1>17
<1>19. Ok(N)
  BY <1>18 DEF S
<1>20. StepNumbers = 1..N
  BY StepsType DEF N
<1> QED BY <1>13, <1>19, <1>20 DEF W, rest

\* What is always true of the queue o and the tables v that have been met, ...
QueueOk(o, v) ==
  /\ o \in Seq(Paths) /\ v \subseteq Tables /\ source \in v /\ target \notin v
  /\ \A j \in DOMAIN o : Walk(o[j]) /\ Simple(o[j]) /\ TablesOn(o[j]) \subseteq v

\* ... and what is true as long as no path has been left at max_hops: the queue is in
\* levels, all tables as near as the level of its head have been met, and no table
\* at the end of an open path is nearer than that path is long; whatever has been
\* met, and is not at the end of an open path, has met all it leads to.
Levels(o, v) ==
  /\ Near[Len(o[1])] \subseteq v
  /\ \A j \in DOMAIN o : Len(o[1]) <= Len(o[j]) /\ Len(o[j]) <= Len(o[1]) + 1
  /\ \A i, j \in DOMAIN o : i < j => Len(o[i]) <= Len(o[j])
  /\ \A j \in DOMAIN o, n \in Nat : n < Len(o[j]) => EndOf(o[j]) \notin Near[n]
  /\ \A i \in StepNumbers :
       Steps[i].from \in v /\ (\A j \in DOMAIN o : EndOf(o[j]) # Steps[i].from) => Steps[i].to \in v

\* The first search state.
LEMMA FirstQueue ==
  ASSUME source \in Tables, target # source
  PROVE  QueueOk(<< << >> >>, {source}) /\ Levels(<< << >> >>, {source})
<1> DEFINE o == << << >> >>
<1>1. << >> \in Paths /\ Len(<< >>) = 0 /\ EndOf(<< >>) = source /\ TablesOn(<< >>) = {source}
      /\ Walk(<< >>) /\ Simple(<< >>)
  BY EmptyWalk
<1> DEFINE e == << >>
<1>2. o \in Seq(Paths) /\ DOMAIN o = {1} /\ o[1] = e
  BY <1>1
<1>3. Near[0] = {source}
  BY NearIs
<1>4. \A i \in StepNumbers : Steps[i].from = source \/ Steps[i].from \notin {source}
  OBVIOUS
<1>5. e \in Paths /\ Len(e) = 0 /\ EndOf(e) = source /\ TablesOn(e) = {source} /\ Walk(e) /\ Simple(e)
  BY <1>1
<1> HIDE DEF o, e
<1>6. QueueOk(o, {source})
  BY <1>2, <1>5 DEF QueueOk
<1>7. Levels(o, {source})
  BY <1>2, <1>3, <1>5 DEF Levels
<1> QED BY <1>6, <1>7 DEF o, e

\* What remains of the queue when its head is taken, and what the turn adds to it.
LEMMA AfterMeeting ==
  ASSUME NEW o, NEW v, QueueOk(o, v), o # << >>,
         NEW s \in Meeting, MeetsWell(s, o[1], Tail(o), v)
  PROVE  /\ Len(o) \in Nat \ {0} /\ DOMAIN o = 1..Len(o) /\ o[1] \in Paths /\ Len(o[1]) \in Nat
         /\ Len(s.open) \in Nat /\ DOMAIN s.open = 1..Len(s.open) /\ Len(s.open) >= Len(o) - 1
         /\ \A j \in 1..(Len(o) - 1) : s.open[j] = o[j + 1] /\ j + 1 \in DOMAIN o
         /\ \A j \in DOMAIN s.open : j > Len(o) - 1 =>
              /\ Extends(s.open[j], o[1], v, s.visited)
              /\ Len(s.open[j]) = Len(o[1]) + 1
<1>1. o \in Seq(Paths)
  BY DEF QueueOk
<1>2. Len(o) \in Nat \ {0} /\ DOMAIN o = 1..Len(o) /\ o[1] \in Paths /\ Tail(o) \in Seq(Paths)
  BY <1>1
<1>3. /\ Len(Tail(o)) = Len(o) - 1
      /\ \A j \in 1..(Len(o) - 1) : Tail(o)[j] = o[j + 1] /\ j + 1 \in DOMAIN o
  BY <1>1, <1>2
<1>4. s.open \in Seq(Paths)
  BY DEF Meeting
<1>5. Len(s.open) \in Nat /\ DOMAIN s.open = 1..Len(s.open)
  BY <1>4
<1>6. Len(s.open) >= Len(o) - 1 /\ \A j \in 1..(Len(o) - 1) : s.open[j] = o[j + 1]
  BY <1>3 DEF MeetsWell
<1>7. Len(o[1]) \in Nat
  BY <1>2, PathOfSteps
<1>8. ASSUME NEW j \in DOMAIN s.open, j > Len(o) - 1
      PROVE  Extends(s.open[j], o[1], v, s.visited) /\ Len(s.open[j]) = Len(o[1]) + 1
  <2>1. Extends(s.open[j], o[1], v, s.visited)
    BY <1>3, <1>8 DEF MeetsWell
  <2>2. PICK hop \in AllSteps : s.open[j] = Append(o[1], hop)
    BY <2>1 DEF Extends
  <2> QED BY <1>2, <2>1, <2>2, OneStepMore
<1> QED BY <1>2, <1>3, <1>5, <1>6, <1>7, <1>8

\* The queue after a turn is as it should be, ...
LEMMA QueueStaysOk ==
  ASSUME NEW o, NEW v, QueueOk(o, v), o # << >>,
         NEW s \in Meeting, MeetsWell(s, o[1], Tail(o), v)
  PROVE  QueueOk(s.open, s.visited)
<1>1. s.open \in Seq(Paths) /\ s.visited \subseteq Tables
  BY DEF Meeting
<1>2. v \subseteq s.visited /\ target \notin s.visited
  BY DEF MeetsWell
<1>3. source \in s.visited
  BY <1>2 DEF QueueOk
<1>4. ASSUME NEW j \in DOMAIN s.open
      PROVE  Walk(s.open[j]) /\ Simple(s.open[j]) /\ TablesOn(s.open[j]) \subseteq s.visited
  <2>1. CASE j <= Len(o) - 1
    <3>1. j \in 1..(Len(o) - 1)
      BY <2>1, AfterMeeting
    <3>2. s.open[j] = o[j + 1] /\ j + 1 \in DOMAIN o
      BY <3>1, AfterMeeting
    <3> QED BY <1>2, <3>2 DEF QueueOk
  <2>2. CASE j > Len(o) - 1
    <3>1. 1 \in DOMAIN o /\ o[1] \in Paths
      BY AfterMeeting
    <3>2. Walk(o[1]) /\ Simple(o[1]) /\ TablesOn(o[1]) \subseteq v
      BY <3>1 DEF QueueOk
    <3>3. PICK hop \in AllSteps :
            /\ s.open[j] = Append(o[1], hop) /\ hop.from = EndOf(o[1])
            /\ hop.to \notin v /\ hop.to \in s.visited
      BY <2>2, AfterMeeting DEF Extends
    <3>4. hop.to \notin TablesOn(o[1])
      BY <3>2, <3>3
    <3>5. TablesOn(s.open[j]) = TablesOn(o[1]) \cup {hop.to}
      BY <3>1, <3>3, OneStepMore
    <3>6. Walk(s.open[j])
      BY <3>2, <3>3, WalkOn
    <3>7. Simple(s.open[j])
      BY <3>1, <3>2, <3>3, <3>4, SimpleOn
    <3> QED BY <1>2, <3>2, <3>3, <3>5, <3>6, <3>7
  <2> QED BY <2>1, <2>2, AfterMeeting
<1> QED BY <1>1, <1>2, <1>3, <1>4 DEF QueueOk

\* The tables a turn has closed: the head's end, and those that were.
LEMMA ClosedAfterMeeting ==
  ASSUME NEW o, NEW v, QueueOk(o, v), Levels(o, v), o # << >>,
         NEW s \in Meeting, MeetsWell(s, o[1], Tail(o), v),
         \A i \in StepNumbers : Steps[i].from = EndOf(o[1]) => Steps[i].to \in s.visited,
         NEW i \in StepNumbers, Steps[i].from \in s.visited,
         \A j \in DOMAIN s.open : EndOf(s.open[j]) # Steps[i].from
  PROVE  Steps[i].to \in s.visited
<1> DEFINE t == Steps[i].from
<1>1. t \in v
  BY DEF MeetsWell
<1>2. v \subseteq s.visited
  BY DEF MeetsWell
<1>3. CASE t = EndOf(o[1])
  BY <1>3
<1>4. CASE t # EndOf(o[1])
  <2>1. ASSUME NEW j \in DOMAIN o PROVE EndOf(o[j]) # t
    <3>1. CASE j = 1
      BY <1>4, <3>1
    <3>2. CASE j # 1
      <4>1. j - 1 \in 1..(Len(o) - 1) /\ (j - 1) + 1 = j
        BY <3>2, AfterMeeting
      <4>2. j - 1 \in DOMAIN s.open /\ s.open[j - 1] = o[j]
        BY <4>1, AfterMeeting
      <4> QED BY <4>2
    <3> QED BY <3>1, <3>2
  <2> QED BY <1>1, <1>2, <2>1 DEF Levels
<1> QED BY <1>3, <1>4

\* ... in levels, if it is not empty and the head was extended, ...
LEMMA LevelsStay ==
  ASSUME NEW o, NEW v, QueueOk(o, v), Levels(o, v), o # << >>,
         NEW s \in Meeting, MeetsWell(s, o[1], Tail(o), v),
         \A i \in StepNumbers : Steps[i].from = EndOf(o[1]) => Steps[i].to \in s.visited,
         s.open # << >>
  PROVE  Levels(s.open, s.visited)
<1> DEFINE L == Len(o[1])
           K == Len(s.open[1])
           P == 1..(Len(o) - 1)
           D == DOMAIN s.open
<1>1. /\ Len(o) \in Nat \ {0} /\ DOMAIN o = 1..Len(o) /\ L \in Nat /\ o[1] \in Paths
      /\ Len(s.open) \in Nat /\ D = 1..Len(s.open) /\ Len(s.open) >= Len(o) - 1
      /\ \A j \in P : s.open[j] = o[j + 1] /\ j + 1 \in DOMAIN o
      /\ \A j \in D : j > Len(o) - 1 =>
           Extends(s.open[j], o[1], v, s.visited) /\ Len(s.open[j]) = L + 1
  BY AfterMeeting
<1>2. \A j \in D : (j \in P \/ j > Len(o) - 1) /\ j \in Nat
  BY <1>1
<1>3. 1 \in D
  <2>1. s.open \in Seq(Paths)
    BY DEF Meeting
  <2> QED BY <1>1, <2>1
<1>4. v \subseteq s.visited /\ Near[L] \subseteq v
  BY DEF MeetsWell, Levels
<1>5. \A j \in DOMAIN o : L <= Len(o[j]) /\ Len(o[j]) <= L + 1
  BY DEF Levels
<1>6. \A j \in D : s.open[j] \in Paths /\ Len(s.open[j]) \in Nat
  <2>1. s.open \in Seq(Paths)
    BY DEF Meeting
  <2>2. \A j \in D : s.open[j] \in Paths
    BY <1>1, <2>1
  <2> QED BY <2>2, PathOfSteps
<1> HIDE DEF L, K, D, P
<1>7. ASSUME NEW j \in D PROVE L <= Len(s.open[j]) /\ Len(s.open[j]) <= L + 1
  <2>1. CASE j \in P
    <3>1. s.open[j] = o[j + 1] /\ j + 1 \in DOMAIN o
      BY <1>1, <2>1
    <3> QED BY <1>5, <3>1
  <2>2. CASE j > Len(o) - 1
    <3>1. Len(s.open[j]) = L + 1
      BY <1>1, <2>2
    <3> QED BY <1>1, <3>1
  <2> QED BY <1>2, <2>1, <2>2
<1>8. \A i, j \in D : i < j => Len(s.open[i]) <= Len(s.open[j])
  <2>1. ASSUME NEW i \in D, NEW j \in D, i < j PROVE Len(s.open[i]) <= Len(s.open[j])
    <3>1. CASE j \in P
      <4>1. i \in P
        BY <1>1, <1>2, <2>1, <3>1 DEF P
      <4>2. i + 1 \in DOMAIN o /\ j + 1 \in DOMAIN o /\ i + 1 < j + 1
        BY <1>1, <1>2, <2>1, <3>1, <4>1
      <4>3. Len(o[i + 1]) <= Len(o[j + 1])
        BY <4>2 DEF Levels
      <4> QED BY <1>1, <3>1, <4>1, <4>3
    <3>2. CASE j > Len(o) - 1
      BY <1>1, <1>7, <3>2
    <3> QED BY <1>2, <3>1, <3>2
  <2> QED BY <2>1
<1>9. ASSUME NEW j \in D PROVE K <= Len(s.open[j]) /\ Len(s.open[j]) <= K + 1
  <2>1. K \in Nat /\ L <= K
    BY <1>3, <1>6, <1>7 DEF K
  <2>2. j = 1 \/ 1 < j
    BY <1>1, <1>2
  <2>3. K <= Len(s.open[j])
    BY <1>3, <1>6, <1>8, <2>2 DEF K
  <2> QED BY <1>1, <1>6, <1>7, <2>1, <2>3
<1>10. ASSUME NEW j \in D, NEW n \in Nat, n < Len(s.open[j]) PROVE EndOf(s.open[j]) \notin Near[n]
  <2>1. CASE j \in P
    <3>1. s.open[j] = o[j + 1] /\ j + 1 \in DOMAIN o
      BY <1>1, <2>1
    <3> QED BY <1>10, <3>1 DEF Levels
  <2>2. CASE j > Len(o) - 1
    <3>1. n <= L
      BY <1>1, <1>10, <2>2
    <3>2. Near[n] \subseteq Near[L]
      BY <1>1, <3>1, NearGrows
    <3>3. PICK hop \in AllSteps : s.open[j] = Append(o[1], hop) /\ hop.to \notin v
      BY <1>1, <2>2 DEF Extends
    <3>4. EndOf(s.open[j]) = hop.to
      BY <1>1, <3>3, OneStepMore
    <3> QED BY <1>4, <3>2, <3>3, <3>4
  <2> QED BY <1>2, <2>1, <2>2
<1>11. ASSUME NEW i \in StepNumbers, Steps[i].from \in s.visited,
              \A j \in D : EndOf(s.open[j]) # Steps[i].from
       PROVE  Steps[i].to \in s.visited
  BY <1>11, ClosedAfterMeeting DEF D
<1>12. Near[K] \subseteq s.visited
  <2>1. K \in Nat /\ L <= K /\ K <= L + 1
    BY <1>3, <1>6, <1>7 DEF K
  <2>2. CASE K = L
    BY <1>4, <2>2
  <2>3. CASE K = L + 1
    <3>1. ASSUME NEW u \in Near[L + 1] PROVE u \in s.visited
      <4>1. Near[L + 1] = Near[L] \cup
              {Steps[i].to : i \in {j \in StepNumbers : Steps[j].from \in Near[L]}}
        BY Zenon, <1>1, NearIs
      <4>2. CASE u \in Near[L]
        BY <1>4, <4>2
      <4>3. CASE u \notin Near[L]
        <5>1. PICK i \in StepNumbers : u = Steps[i].to /\ Steps[i].from \in Near[L]
          BY Zenon, <4>1, <4>3
        <5>2. ASSUME NEW j \in D PROVE EndOf(s.open[j]) # Steps[i].from
          <6>1. L < Len(s.open[j])
            BY <1>1, <1>6, <1>9, <2>3, <5>2
          <6> QED BY <1>1, <1>10, <5>1, <6>1
        <5>3. Steps[i].from \in s.visited
          BY <1>4, <5>1
        <5> QED BY <1>11, <5>1, <5>2, <5>3
      <4> QED BY <4>2, <4>3
    <3> QED BY <2>3, <3>1
  <2> QED BY <1>1, <2>1, <2>2, <2>3
<1> QED BY <1>8, <1>9, <1>10, <1>11, <1>12 DEF Levels, K, D

\* ... and nothing has been missed if it is, ...
LEMMA NothingLeft ==
  ASSUME NEW o, NEW v, QueueOk(o, v), Levels(o, v), o # << >>,
         NEW s \in Meeting, MeetsWell(s, o[1], Tail(o), v),
         \A i \in StepNumbers : Steps[i].from = EndOf(o[1]) => Steps[i].to \in s.visited,
         s.open = << >>, NEW n \in Nat
  PROVE  target \notin Near[n]
<1>1. QueueOk(s.open, s.visited)
  BY QueueStaysOk
<1>2. DOMAIN s.open = {}
  OBVIOUS
<1>3. ASSUME NEW i \in StepNumbers, Steps[i].from \in s.visited PROVE Steps[i].to \in s.visited
  BY <1>2, <1>3, ClosedAfterMeeting
<1>4. source \in s.visited /\ target \notin s.visited
  BY <1>1 DEF QueueOk
<1>5. Near[n] \subseteq s.visited
  BY <1>3, <1>4, NearIsClosed
<1> QED BY <1>4, <1>5

\* ... nor if the head is as long as a path may be, ...
LEMMA TooFar ==
  ASSUME NEW o, NEW v, QueueOk(o, v), Levels(o, v), o # << >>, NEW n \in Nat, Len(o[1]) >= n
  PROVE  target \notin Near[n]
<1>1. o \in Seq(Paths) /\ target \notin v
  BY DEF QueueOk
<1>2. o[1] \in Paths
  BY <1>1
<1>3. Len(o[1]) \in Nat
  BY <1>2, PathOfSteps
<1>4. Near[n] \subseteq Near[Len(o[1])]
  BY <1>3, NearGrows
<1>5. Near[Len(o[1])] \subseteq v
  BY DEF Levels
<1> QED BY <1>1, <1>4, <1>5

\* ... and a path that is found is right, and no shorter one leads to the target.
LEMMA FoundIsRight ==
  ASSUME NEW o, NEW v, QueueOk(o, v), o # << >>, Len(o[1]) < maxHops, maxHops \in Nat,
         NEW found, Finds(found, o[1])
  PROVE  /\ Len(found) = 1 /\ DOMAIN found = {1} /\ found # << >> /\ IsInjective(found)
         /\ Walk(found[1]) /\ Simple(found[1]) /\ EndOf(found[1]) = target /\ Len(found[1]) <= maxHops
         /\ target \in Near[maxHops]
         /\ Levels(o, v) => \A n \in Nat : n < Len(found[1]) => target \notin Near[n]
<1>1. PICK hop \in AllSteps :
        found = <<Append(o[1], hop)>> /\ hop.from = EndOf(o[1]) /\ hop.to = target
  BY DEF Finds
<1> DEFINE p == Append(o[1], hop)
<1>2. o \in Seq(Paths) /\ target \notin v
  BY DEF QueueOk
<1>3. 1 \in DOMAIN o /\ o[1] \in Paths
  BY <1>2
<1>4. Walk(o[1]) /\ Simple(o[1]) /\ TablesOn(o[1]) \subseteq v
  BY <1>3 DEF QueueOk
<1>5. Len(o[1]) \in Nat
  BY <1>3, PathOfSteps
<1>6. p \in Paths /\ Len(p) = Len(o[1]) + 1 /\ EndOf(p) = target
  BY <1>1, <1>3, OneStepMore
<1>7. Walk(p)
  BY <1>1, <1>4, WalkOn
<1>8. Simple(p)
  BY <1>1, <1>2, <1>3, <1>4, SimpleOn
<1> HIDE DEF p
<1>9. found = <<p>> /\ found[1] = p /\ Len(found) = 1 /\ DOMAIN found = {1} /\ found # << >>
  BY <1>1 DEF p
<1>10. IsInjective(found)
  BY <1>9 DEF IsInjective
<1>11. Len(p) <= maxHops /\ Len(p) \in Nat
  BY <1>5, <1>6
<1>12. target \in Near[maxHops]
  <2>1. target \in Near[Len(p)]
    BY <1>6, <1>7, WalkReaches
  <2> QED BY <1>11, <2>1, NearGrows
<1>13. ASSUME Levels(o, v), NEW n \in Nat, n < Len(p) PROVE target \notin Near[n]
  <2>1. n <= Len(o[1])
    BY <1>5, <1>6, <1>13
  <2>2. Near[n] \subseteq Near[Len(o[1])]
    BY <1>5, <2>1, NearGrows
  <2>3. Near[Len(o[1])] \subseteq v
    BY <1>13 DEF Levels
  <2> QED BY <1>2, <2>2, <2>3
<1> QED BY <1>6, <1>7, <1>8, <1>9, <1>10, <1>11, <1>12, <1>13

(***************************************************************************)
(* One turn of all_paths.                                                  *)
(***************************************************************************)

\* Two paths that part: neither is the beginning of the other.
Fork(p, q) == \E n \in (1..Len(p)) \cap (1..Len(q)) : p[n] # q[n]

AllPart(x) == \A i, j \in DOMAIN x : i # j => Fork(x[i], x[j])
PartFrom(x, y) == \A i \in DOMAIN x, j \in DOMAIN y : Fork(x[i], y[j])

\* The steps up to n that lead from the path's end to a table that is not on it.
Leads(path, hop) == hop.from = EndOf(path) /\ hop.to \notin TablesOn(path)
Branches(path, n) == {k \in StepNumbers : k <= n /\ Leads(path, Steps[k])}

\* A sequence of paths that has those of another one, and some that branch off a path.
Gained(x, old, path, K) ==
  /\ \A i \in DOMAIN old : \E j \in DOMAIN x : x[j] = old[i]
  /\ \A j \in DOMAIN x : \/ \E i \in DOMAIN old : x[j] = old[i]
                         \/ \E k \in K : x[j] = Append(path, Steps[k])

\* They part both ways.
LEMMA PartIsSymmetric ==
  ASSUME NEW p, NEW q, Fork(p, q)
  PROVE  Fork(q, p)
BY DEF Fork

\* The end of a path is on it.
LEMMA EndIsOnPath ==
  ASSUME NEW p \in Paths
  PROVE  EndOf(p) \in TablesOn(p)
BY PathOfSteps DEF TablesOn

\* A branch parts from what its path parts from, ...
LEMMA BranchParts ==
  ASSUME NEW p \in Paths, NEW q \in Paths, Fork(p, q), NEW hop \in AllSteps
  PROVE  Fork(Append(p, hop), q)
<1> DEFINE b == Append(p, hop)
<1>1. Len(p) \in Nat /\ Len(b) = Len(p) + 1 /\ \A i \in 1..Len(p) : b[i] = p[i]
  BY OneStepMore, PathOfSteps
<1>2. PICK n \in (1..Len(p)) \cap (1..Len(q)) : p[n] # q[n]
  BY DEF Fork
<1> HIDE DEF b
<1>3. n \in (1..Len(b)) \cap (1..Len(q)) /\ b[n] # q[n]
  BY <1>1, <1>2
<1> QED BY <1>3 DEF Fork, b

\* ... and from the other branches.
LEMMA BranchesPart ==
  ASSUME NEW p \in Paths, NEW k \in StepNumbers, NEW l \in StepNumbers, k # l, Leads(p, Steps[k])
  PROVE  Fork(Append(p, Steps[k]), Append(p, Steps[l]))
<1> DEFINE b == Append(p, Steps[k])
           c == Append(p, Steps[l])
<1>1. Steps[k] \in AllSteps /\ Steps[l] \in AllSteps /\ Len(p) \in Nat
  BY StepsType, PathOfSteps
<1>2. /\ Len(b) = Len(p) + 1 /\ b[Len(p) + 1] = Steps[k]
      /\ Len(c) = Len(p) + 1 /\ c[Len(p) + 1] = Steps[l]
  BY <1>1, OneStepMore
<1>3. Steps[k].to # Steps[k].from
  BY EndIsOnPath DEF Leads
<1>4. Steps[k] # Steps[l]
  BY <1>3, StepsDiffer
<1> HIDE DEF b, c
<1>5. Len(p) + 1 \in (1..Len(b)) \cap (1..Len(c))
  BY <1>1, <1>2
<1> QED BY <1>2, <1>4, <1>5 DEF Fork, b, c

\* A new branch parts from all that were gained before.
LEMMA NewBranchParts ==
  ASSUME NEW path \in Paths, NEW x \in Seq(Paths), NEW old \in Seq(Paths),
         NEW K \in SUBSET StepNumbers, NEW k \in StepNumbers, k \notin K, Leads(path, Steps[k]),
         Gained(x, old, path, K), \A i \in DOMAIN old : Fork(path, old[i]),
         NEW j \in DOMAIN x
  PROVE  Fork(Append(path, Steps[k]), x[j])
<1>1. Steps[k] \in AllSteps
  BY StepsType
<1>2. x[j] \in Paths
  OBVIOUS
<1>3. CASE \E i \in DOMAIN old : x[j] = old[i]
  <2>1. Fork(path, x[j])
    BY <1>3
  <2> QED BY <1>1, <1>2, <2>1, BranchParts
<1>4. CASE \E l \in K : x[j] = Append(path, Steps[l])
  <2>1. PICK l \in K : x[j] = Append(path, Steps[l])
    BY <1>4
  <2> QED BY <2>1, BranchesPart
<1> QED BY <1>3, <1>4 DEF Gained

\* The sequence with it gains it, and its paths part.
LEMMA WithABranch ==
  ASSUME NEW path \in Paths, NEW x \in Seq(Paths), NEW old \in Seq(Paths),
         NEW K \in SUBSET StepNumbers, NEW k \in StepNumbers, k \notin K, Leads(path, Steps[k]),
         Gained(x, old, path, K), \A i \in DOMAIN old : Fork(path, old[i]), AllPart(x)
  PROVE  LET q == Append(path, Steps[k])
             y == Append(x, q)
         IN  /\ y \in Seq(Paths) /\ Len(x) \in Nat /\ Len(y) = Len(x) + 1
             /\ DOMAIN x = 1..Len(x) /\ DOMAIN y = 1..(Len(x) + 1)
             /\ y[Len(x) + 1] = q /\ \A j \in DOMAIN x : y[j] = x[j] /\ j \in DOMAIN y
             /\ Gained(y, old, path, K \cup {k}) /\ AllPart(y)
<1> DEFINE q == Append(path, Steps[k])
           y == Append(x, q)
           n == Len(x) + 1
<1>1. q \in Paths
  BY StepsType, OneStepMore
<1>2. \A j \in DOMAIN x : Fork(q, x[j])
  BY NewBranchParts
<1> HIDE DEF q
<1>3. /\ y \in Seq(Paths) /\ Len(x) \in Nat /\ Len(y) = n
      /\ DOMAIN x = 1..Len(x) /\ DOMAIN y = 1..n
      /\ y[n] = q /\ \A j \in DOMAIN x : y[j] = x[j] /\ j \in DOMAIN y
      /\ n \in DOMAIN y
  BY <1>1
<1>4. \A j \in DOMAIN y : j \in DOMAIN x \/ j = n
  BY <1>3
<1> HIDE DEF y, n
<1>5. ASSUME NEW i \in DOMAIN old PROVE \E j \in DOMAIN y : y[j] = old[i]
  <2>1. PICK j \in DOMAIN x : x[j] = old[i]
    BY DEF Gained
  <2> QED BY <1>3, <2>1
<1>6. ASSUME NEW j \in DOMAIN y
      PROVE  \/ \E i \in DOMAIN old : y[j] = old[i]
             \/ \E l \in K \cup {k} : y[j] = Append(path, Steps[l])
  <2>1. CASE j \in DOMAIN x
    <3>1. y[j] = x[j]
      BY <1>3, <2>1
    <3> QED BY <2>1, <3>1 DEF Gained
  <2>2. CASE j = n
    BY <1>3, <2>2 DEF q
  <2> QED BY <1>4, <2>1, <2>2
<1>7. Gained(y, old, path, K \cup {k})
  BY <1>5, <1>6 DEF Gained
<1>8. ASSUME NEW i \in DOMAIN y, NEW j \in DOMAIN y, i # j PROVE Fork(y[i], y[j])
  <2>1. CASE i \in DOMAIN x /\ j \in DOMAIN x
    BY <1>3, <1>8, <2>1 DEF AllPart
  <2>2. CASE i = n /\ j \in DOMAIN x
    BY <1>2, <1>3, <2>2
  <2>3. CASE i \in DOMAIN x /\ j = n
    BY <1>2, <1>3, <2>3, PartIsSymmetric
  <2> QED BY <1>4, <1>8, <2>1, <2>2, <2>3
<1>9. AllPart(y)
  BY <1>8 DEF AllPart
<1> QED BY <1>3, <1>7, <1>9 DEF q, y, n

\* What the loop over the neighbours of a path's end works on, and what it has done
\* after n steps to the stack and to the paths found before.
Following == [open : Seq(Paths), paths : Seq(Paths)]

Direct(path, n) == {k \in Branches(path, n) : Steps[k].to = target}

FollowsWell(s, path, rest, found, n) ==
  /\ Gained(s.open, rest, path, Branches(path, n)) /\ Gained(s.paths, found, path, Direct(path, n))
  /\ AllPart(s.open) /\ AllPart(s.paths) /\ PartFrom(s.open, s.paths)
  /\ Len(s.paths) <= Enough
  /\ s.paths = << >> =>
       \A k \in Branches(path, n) :
         Steps[k].to # target /\ \E j \in DOMAIN s.open : s.open[j] = Append(path, Steps[k])

\* One step more may be one branch more.
LEMMA OneBranchMore ==
  ASSUME NEW path, NEW n \in Nat, n + 1 \in StepNumbers
  PROVE  /\ Branches(path, n) \in SUBSET StepNumbers /\ n + 1 \notin Branches(path, n)
         /\ Leads(path, Steps[n + 1]) => Branches(path, n + 1) = Branches(path, n) \cup {n + 1}
         /\ ~Leads(path, Steps[n + 1]) => Branches(path, n + 1) = Branches(path, n)
         /\ Direct(path, n) \in SUBSET StepNumbers /\ n + 1 \notin Direct(path, n)
         /\ Leads(path, Steps[n + 1]) /\ Steps[n + 1].to = target =>
              Direct(path, n + 1) = Direct(path, n) \cup {n + 1}
         /\ ~Leads(path, Steps[n + 1]) \/ Steps[n + 1].to # target =>
              Direct(path, n + 1) = Direct(path, n)
<1>1. \A k \in StepNumbers : k \in Nat /\ (k <= n + 1 <=> k <= n \/ k = n + 1) /\ ~(n + 1 <= n)
  BY DEF StepNumbers
<1>2. /\ Branches(path, n) \in SUBSET StepNumbers /\ n + 1 \notin Branches(path, n)
      /\ Leads(path, Steps[n + 1]) => Branches(path, n + 1) = Branches(path, n) \cup {n + 1}
      /\ ~Leads(path, Steps[n + 1]) => Branches(path, n + 1) = Branches(path, n)
  BY <1>1 DEF Branches
<1> QED BY <1>2 DEF Direct

\* What more branches there may be does not matter to what was gained.
LEMMA GainedOfMore ==
  ASSUME NEW x, NEW old, NEW path, NEW K, NEW L, K \subseteq L, Gained(x, old, path, K)
  PROVE  Gained(x, old, path, L)
BY DEF Gained

\* What one step does.
LEMMA FollowKeeps ==
  ASSUME NEW path \in Paths, NEW rest \in Seq(Paths), NEW found \in Seq(Paths),
         \A i \in DOMAIN rest : Fork(path, rest[i]), \A i \in DOMAIN found : Fork(path, found[i]),
         NEW n \in Nat, n + 1 \in StepNumbers,
         NEW s \in Following, FollowsWell(s, path, rest, found, n)
  PROVE  LET m == Follow(s, path, Steps[n + 1])
         IN  m \in Following /\ FollowsWell(m, path, rest, found, n + 1)
<1> DEFINE k == n + 1
           hop == Steps[k]
           m == Follow(s, path, hop)
           q == Append(path, hop)
           B == Branches(path, n)
           C == Direct(path, n)
<1>1. s.open \in Seq(Paths) /\ s.paths \in Seq(Paths) /\ Len(s.paths) \in Nat
  BY DEF Following
<1>2. k \in StepNumbers /\ hop \in AllSteps /\ Enough \in Nat \ {0}
  BY StepsType, JoinPathsAssumption
<1>3. /\ B \in SUBSET StepNumbers /\ k \notin B /\ C \in SUBSET StepNumbers /\ k \notin C
      /\ Leads(path, hop) => Branches(path, k) = B \cup {k}
      /\ ~Leads(path, hop) => Branches(path, k) = B
      /\ Leads(path, hop) /\ hop.to = target => Direct(path, k) = C \cup {k}
      /\ ~Leads(path, hop) \/ hop.to # target => Direct(path, k) = C
  BY Zenon, OneBranchMore
<1>4. B \subseteq Branches(path, k) /\ C \subseteq Direct(path, k)
  BY Zenon, <1>3
<1>5. /\ Gained(s.open, rest, path, B) /\ Gained(s.paths, found, path, C)
      /\ AllPart(s.open) /\ AllPart(s.paths) /\ PartFrom(s.open, s.paths) /\ Len(s.paths) <= Enough
  BY DEF FollowsWell
<1>6. s.paths = << >> =>
        \A l \in B : Steps[l].to # target /\ \E j \in DOMAIN s.open : s.open[j] = Append(path, Steps[l])
  BY Zenon DEF FollowsWell
<1> HIDE DEF k, hop, B, C, q
<1>7. CASE Len(s.paths) = Enough \/ ~Leads(path, hop)
  <2>1. m = s
    BY Zenon, <1>7 DEF Follow, Leads
  <2>2. Gained(s.open, rest, path, Branches(path, k)) /\ Gained(s.paths, found, path, Direct(path, k))
    BY <1>4, <1>5, GainedOfMore
  <2>3. s.paths = << >> => ~Leads(path, hop)
    BY <1>2, <1>7
  <2>4. s.paths = << >> => Branches(path, k) = B
    BY Zenon, <1>3, <2>3
  <2>5. s.paths = << >> =>
          \A l \in Branches(path, k) :
            Steps[l].to # target /\ \E j \in DOMAIN s.open : s.open[j] = Append(path, Steps[l])
    BY Zenon, <1>6, <2>4
  <2> HIDE DEF m
  <2>6. FollowsWell(m, path, rest, found, k)
    BY Zenon, <1>5, <2>1, <2>2, <2>5 DEF FollowsWell
  <2> QED BY <2>1, <2>6 DEF m, k, hop
<1>8. CASE Len(s.paths) # Enough /\ Leads(path, hop) /\ hop.to = target
  <2> DEFINE y == Append(s.paths, q)
  <2>1. m = [open |-> s.open, paths |-> y]
    BY Zenon, <1>8 DEF Follow, Leads, q
  <2>2. m.open = s.open /\ m.paths = y
    BY <2>1
  <2>3. /\ y \in Seq(Paths) /\ Len(s.paths) \in Nat /\ Len(y) = Len(s.paths) + 1
        /\ DOMAIN s.paths = 1..Len(s.paths) /\ DOMAIN y = 1..(Len(s.paths) + 1)
        /\ y[Len(s.paths) + 1] = q /\ \A j \in DOMAIN s.paths : y[j] = s.paths[j] /\ j \in DOMAIN y
        /\ Gained(y, found, path, C \cup {k}) /\ AllPart(y)
    BY <1>1, <1>2, <1>3, <1>5, <1>8, WithABranch DEF q, hop
  <2>4. \A j \in DOMAIN s.open : Fork(q, s.open[j])
    BY <1>1, <1>2, <1>3, <1>5, <1>8, NewBranchParts DEF q, hop
  <2>5. m \in Following
    BY <1>1, <2>1, <2>3 DEF Following
  <2> HIDE DEF m, y
  <2>6. ASSUME NEW i \in DOMAIN s.open, NEW j \in DOMAIN y PROVE Fork(s.open[i], y[j])
    <3>1. CASE j \in DOMAIN s.paths
      BY <1>5, <2>3, <3>1 DEF PartFrom
    <3>2. CASE j \notin DOMAIN s.paths
      <4>1. j = Len(s.paths) + 1
        BY <1>1, <2>3, <3>2
      <4> QED BY <2>3, <2>4, <4>1, PartIsSymmetric
    <3> QED BY <3>1, <3>2
  <2>7. PartFrom(s.open, y)
    BY <2>6 DEF PartFrom
  <2>8. Gained(s.open, rest, path, Branches(path, k))
    BY <1>4, <1>5, GainedOfMore
  <2>9. Len(y) <= Enough /\ y # << >>
    BY <1>1, <1>2, <1>5, <1>8, <2>3
  <2>10. Gained(y, found, path, Direct(path, k))
    BY Zenon, <1>3, <1>8, <2>3
  <2>11. FollowsWell(m, path, rest, found, k)
    BY Zenon, <1>5, <2>2, <2>3, <2>7, <2>8, <2>9, <2>10 DEF FollowsWell
  <2> QED BY <2>5, <2>11 DEF m, k, hop
<1>9. CASE Len(s.paths) # Enough /\ Leads(path, hop) /\ hop.to # target
  <2> DEFINE y == Append(s.open, q)
  <2>1. m = [open |-> y, paths |-> s.paths]
    BY Zenon, <1>9 DEF Follow, Leads, q
  <2>2. m.open = y /\ m.paths = s.paths
    BY <2>1
  <2>3. /\ y \in Seq(Paths) /\ Len(s.open) \in Nat /\ Len(y) = Len(s.open) + 1
        /\ DOMAIN s.open = 1..Len(s.open) /\ DOMAIN y = 1..(Len(s.open) + 1)
        /\ y[Len(s.open) + 1] = q /\ \A j \in DOMAIN s.open : y[j] = s.open[j] /\ j \in DOMAIN y
        /\ Gained(y, rest, path, B \cup {k}) /\ AllPart(y)
    BY <1>1, <1>2, <1>3, <1>5, <1>9, WithABranch DEF q, hop
  <2>4. \A j \in DOMAIN s.paths : Fork(q, s.paths[j])
    BY <1>1, <1>2, <1>3, <1>5, <1>9, NewBranchParts DEF q, hop
  <2>5. m \in Following
    BY <1>1, <2>1, <2>3 DEF Following
  <2> HIDE DEF m, y
  <2>6. ASSUME NEW i \in DOMAIN y, NEW j \in DOMAIN s.paths PROVE Fork(y[i], s.paths[j])
    <3>1. CASE i \in DOMAIN s.open
      BY <1>5, <2>3, <3>1 DEF PartFrom
    <3>2. CASE i \notin DOMAIN s.open
      <4>1. i = Len(s.open) + 1
        BY <1>1, <2>3, <3>2
      <4> QED BY <2>3, <2>4, <4>1
    <3> QED BY <3>1, <3>2
  <2>7. PartFrom(y, s.paths)
    BY <2>6 DEF PartFrom
  <2>8. Gained(y, rest, path, Branches(path, k))
    BY Zenon, <1>3, <1>9, <2>3
  <2>9. Gained(s.paths, found, path, Direct(path, k))
    BY Zenon, <1>3, <1>5, <1>9
  <2>10. ASSUME s.paths = << >>, NEW l \in Branches(path, k)
         PROVE  Steps[l].to # target /\ \E j \in DOMAIN y : y[j] = Append(path, Steps[l])
    <3>1. l \in B \/ l = k
      BY Zenon, <1>3, <1>9, <2>10
    <3>2. CASE l \in B
      <4>1. Steps[l].to # target /\ \E j \in DOMAIN s.open : s.open[j] = Append(path, Steps[l])
        BY Zenon, <1>6, <2>10, <3>2
      <4> QED BY <2>3, <4>1
    <3>3. CASE l = k
      <4>1. Len(s.open) + 1 \in DOMAIN y
        BY <2>3
      <4> QED BY <1>9, <2>3, <3>3, <4>1 DEF q, hop
    <3> QED BY <3>1, <3>2, <3>3
  <2>11. FollowsWell(m, path, rest, found, k)
    BY Zenon, <1>5, <2>2, <2>3, <2>7, <2>8, <2>9, <2>10 DEF FollowsWell
  <2> QED BY <2>5, <2>11 DEF m, k, hop
<1> QED BY <1>7, <1>8, <1>9

\* What the whole loop does.
LEMMA DepthIsWell ==
  ASSUME NEW path \in Paths, open \in Seq(Paths), open # << >>, paths \in Seq(Paths),
         \A i \in DOMAIN Front(open) : Fork(path, Front(open)[i]),
         \A i \in DOMAIN paths : Fork(path, paths[i]),
         Front(open) \in Seq(Paths), AllPart(Front(open)), AllPart(paths),
         PartFrom(Front(open), paths), Len(paths) <= Enough
  PROVE  LET s == Depth(path) IN
         s \in Following /\ FollowsWell(s, path, Front(open), paths, Len(Steps))
<1> DEFINE N == Len(Steps)
           rest == Front(open)
           first == [open |-> rest, paths |-> paths]
           hop == [n \in 1..N |-> [s \in Following |-> Follow(s, path, Steps[n])]]
<1>1. N \in Nat /\ StepNumbers = 1..N /\ \A n \in 1..N : n \in StepNumbers /\ Steps[n] \in AllSteps
  BY StepsType
<1>2. first.open = rest /\ first.paths = paths /\ first \in Following
  BY DEF Following
<1> HIDE DEF first
<1>3. ASSUME NEW n \in 1..N, NEW s \in Following PROVE Follow(s, path, Steps[n]) \in Following
  <2> DEFINE q == Append(path, Steps[n])
  <2>1. s.open \in Seq(Paths) /\ s.paths \in Seq(Paths)
    BY DEF Following
  <2>2. q \in Paths
    BY <1>1, OneStepMore
  <2>3. \/ Follow(s, path, Steps[n]) = s
        \/ Follow(s, path, Steps[n]) = [open |-> s.open, paths |-> Append(s.paths, q)]
        \/ Follow(s, path, Steps[n]) = [open |-> Append(s.open, q), paths |-> s.paths]
    BY Zenon DEF Follow, q
  <2> HIDE DEF q
  <2>4. Append(s.paths, q) \in Seq(Paths) /\ Append(s.open, q) \in Seq(Paths)
    BY <2>1, <2>2
  <2>5. /\ [open |-> s.open, paths |-> Append(s.paths, q)] \in Following
        /\ [open |-> Append(s.open, q), paths |-> s.paths] \in Following
    BY <2>1, <2>4 DEF Following
  <2> QED BY Zenon, <2>3, <2>5
<1>4. BoundedStep(hop, N, Following)
  BY <1>3 DEF BoundedStep
<1>5. \A n \in 1..N, s \in Following : hop[n][s] = Follow(s, path, Steps[n])
  OBVIOUS
<1> HIDE DEF hop, N
<1>6. PICK f : Recursive(f, N, first, hop) /\ f \in [0..N -> Following]
  BY <1>1, <1>2, <1>4, BoundedRecursion
<1> DEFINE Is(g) == g = [i \in 0..N |-> IF i = 0 THEN first ELSE Follow(g[i - 1], path, Steps[i])]
<1>7. Is(f)
  <2>1. ASSUME NEW n \in 0..N, n # 0 PROVE hop[n][f[n - 1]] = Follow(f[n - 1], path, Steps[n])
    <3>1. n \in 1..N /\ n - 1 \in 0..N
      BY <1>1, <2>1
    <3> QED BY <1>5, <1>6, <3>1
  <2> QED BY <1>6, <2>1 DEF Recursive
<1> DEFINE followed == CHOOSE g : Is(g)
<1>8. Is(followed)
  BY Zenon, <1>7
<1>9. Depth(path) = followed[N]
  BY Zenon DEF Depth, N, first, rest
<1> HIDE DEF followed, rest
<1>10. followed[0] = first /\ \A n \in 1..N : followed[n] = Follow(followed[n - 1], path, Steps[n])
  <2>1. 0 \in 0..N /\ \A n \in 1..N : n \in 0..N /\ n # 0
    BY <1>1
  <2> QED BY <1>8, <2>1
<1> HIDE DEF Is
<1> DEFINE Ok(n) == followed[n] \in Following /\ FollowsWell(followed[n], path, rest, paths, n)
           S == {n \in 0..N : Ok(n)}
<1>11. Branches(path, 0) = {}
  BY DEF Branches, StepNumbers
<1>12. Direct(path, 0) = {}
  BY <1>11 DEF Direct
<1>13. Gained(rest, rest, path, {}) /\ Gained(paths, paths, path, {})
  BY Zenon DEF Gained
<1>14. FollowsWell(first, path, rest, paths, 0)
  BY Zenon, <1>2, <1>11, <1>12, <1>13 DEF FollowsWell, rest
<1>15. 0 \in S
  BY <1>1, <1>2, <1>10, <1>14
<1>16. ASSUME NEW n \in 0..N, n \in S, n < N PROVE n + 1 \in S
  <2>1. n \in Nat /\ n + 1 \in 1..N /\ n + 1 \in 0..N /\ (n + 1) - 1 = n /\ n + 1 \in StepNumbers
    BY <1>1, <1>16
  <2>2. followed[n + 1] = Follow(followed[n], path, Steps[n + 1])
    BY <1>10, <2>1
  <2>3. followed[n] \in Following /\ FollowsWell(followed[n], path, rest, paths, n)
    BY <1>16
  <2>4. rest \in Seq(Paths) /\ \A i \in DOMAIN rest : Fork(path, rest[i])
    BY DEF rest
  <2>5. Ok(n + 1)
    BY <2>1, <2>2, <2>3, <2>4, FollowKeeps
  <2> QED BY <2>1, <2>5
<1> HIDE DEF S
<1>17. 0..N \subseteq S
  BY <1>1, <1>15, <1>16, BoundedInduction
<1>18. N \in S
  BY <1>1, <1>17
<1> QED BY <1>9, <1>18 DEF S, N, rest

\* Sorting the paths by length is a matter of their order only, and they are sorted.
LEMMA Sorted ==
  ASSUME NEW found \in Seq(Paths)
  PROVE  LET s == ByLength(found) IN
         /\ s \in Seq(Paths) /\ Len(s) = Len(found) /\ DOMAIN s = DOMAIN found
         /\ \A i, j \in DOMAIN s : i < j => Len(s[i]) <= Len(s[j])
         /\ \A n \in DOMAIN s : \E i \in DOMAIN found : s[n] = found[i]
         /\ AllPart(found) => AllPart(s)
<1> DEFINE N == Len(found)
           D == DOMAIN found
           length(i) == Len(found[i])
           before(i, j) == length(i) < length(j) \/ (length(i) = length(j) /\ i <= j)
           Up(j) == {i \in D : before(i, j)}
           rank == [j \in D |-> Cardinality(Up(j))]
           pick == [n \in D |-> CHOOSE j \in D : rank[j] = n]
           s == ByLength(found)
<1>1. N \in Nat /\ D = 1..N /\ \A i \in D : found[i] \in Paths
  OBVIOUS
<1>2. \A i \in D : length(i) \in Nat /\ i \in Nat
  BY <1>1, PathOfSteps
<1>3. s = [n \in D |-> found[CHOOSE j \in D : Cardinality(Up(j)) = n]]
  BY Zenon DEF ByLength
<1>4. \A j \in D : rank[j] = Cardinality(Up(j))
  OBVIOUS
<1> HIDE DEF s, D, rank, length
<1>5. \A i, j, k \in D : before(i, j) /\ before(j, k) => before(i, k)
  BY <1>2
<1>6. \A i, j \in D : i # j => (before(i, j) <=> ~before(j, i))
  BY <1>2
<1>7. \A i \in D : before(i, i)
  BY <1>2
<1>8. \A i, j \in D : before(i, j) => length(i) <= length(j)
  BY <1>2
<1> HIDE DEF before
<1>9. IsFiniteSet(D) /\ Cardinality(D) = N
  <2>1. 1 \in Int /\ N \in Int /\ (IF 1 > N THEN 0 ELSE N - 1 + 1) = N
    BY <1>1
  <2> HIDE DEF N
  <2>2. IsFiniteSet(1..N) /\ Cardinality(1..N) = N
    BY <2>1, FS_Interval
  <2> QED BY <1>1, <2>2
<1>10. \A j \in D : IsFiniteSet(Up(j)) /\ Cardinality(Up(j)) \in Nat /\ Cardinality(Up(j)) <= N
  <2>1. ASSUME NEW j \in D
        PROVE  IsFiniteSet(Up(j)) /\ Cardinality(Up(j)) \in Nat /\ Cardinality(Up(j)) <= N
    <3>1. Up(j) \in SUBSET D
      OBVIOUS
    <3> HIDE DEF Up
    <3> QED BY <1>9, <3>1, FS_Subset, FS_CardinalityType
  <2> QED BY <2>1
<1>11. ASSUME NEW i \in D, NEW j \in D, i # j, before(i, j) PROVE rank[i] < rank[j]
  <2>1. Up(i) \in SUBSET Up(j)
    BY <1>5, <1>11
  <2>2. j \in Up(j) /\ j \notin Up(i)
    BY <1>6, <1>7, <1>11
  <2> HIDE DEF Up
  <2>3. Up(i) # Up(j)
    BY <2>2
  <2>4. Cardinality(Up(i)) <= Cardinality(Up(j)) /\ Cardinality(Up(j)) # Cardinality(Up(i))
    BY <1>10, <2>1, <2>3, FS_Subset
  <2> QED BY <1>4, <1>10, <2>4
<1>12. \A j \in D : rank[j] \in 1..N
  <2>1. ASSUME NEW j \in D PROVE rank[j] \in 1..N
    <3>1. Up(j) # {}
      BY <1>7
    <3> HIDE DEF Up
    <3>2. Cardinality(Up(j)) # 0
      BY <1>10, <3>1, FS_EmptySet
    <3> QED BY <1>1, <1>4, <1>10, <3>2
  <2> QED BY <2>1
<1>13. \A i, j \in D : rank[i] = rank[j] => i = j
  <2>1. ASSUME NEW i \in D, NEW j \in D, i # j PROVE rank[i] # rank[j]
    <3>1. rank[i] \in Nat /\ rank[j] \in Nat
      BY <1>1, <1>12
    <3>2. before(i, j) \/ before(j, i)
      BY <1>6, <2>1
    <3>3. rank[i] < rank[j] \/ rank[j] < rank[i]
      BY <1>11, <2>1, <3>2
    <3> QED BY <3>1, <3>3
  <2> QED BY <2>1
<1>14. rank \in [D -> D]
  <2>1. rank = [j \in D |-> rank[j]]
    BY DEF rank
  <2> QED BY <1>1, <1>12, <2>1
<1>15. rank \in Injection(D, D)
  BY <1>13, <1>14 DEF Injection, IsInjective
<1>16. rank \in Surjection(D, D)
  BY <1>9, <1>15, FS_Injection
<1>17. \A n \in D : \E j \in D : rank[j] = n
  BY <1>16 DEF Surjection
<1>18. \A n \in D : pick[n] \in D /\ rank[pick[n]] = n
  BY <1>17
<1>19. \A n \in D : s[n] = found[pick[n]]
  <2>1. ASSUME NEW n \in D PROVE s[n] = found[pick[n]]
    <3>1. s[n] = found[CHOOSE j \in D : Cardinality(Up(j)) = n]
      BY Zenon, <1>3
    <3>2. pick[n] = CHOOSE j \in D : rank[j] = n
      BY Zenon
    <3>3. pick[n] = CHOOSE j \in D : Cardinality(Up(j)) = n
      BY <1>4, <3>2
    <3> QED BY Zenon, <3>1, <3>3
  <2> QED BY <2>1
<1>20. DOMAIN s = D
  BY Zenon, <1>3
<1>21. s \in Seq(Paths) /\ Len(s) = N
  <2> HIDE DEF pick
  <2>1. \A n \in D : s[n] \in Paths
    BY <1>1, <1>18, <1>19
  <2>2. s = [n \in 1..N |-> s[n]]
    BY <1>1, <1>3, <1>20
  <2> QED BY <1>1, <2>1, <2>2
<1> HIDE DEF pick
<1>22. ASSUME NEW i \in D, NEW j \in D, i < j PROVE Len(s[i]) <= Len(s[j])
  <2>1. pick[i] \in D /\ pick[j] \in D /\ rank[pick[i]] = i /\ rank[pick[j]] = j
    BY <1>18
  <2>2. pick[i] # pick[j] /\ ~(rank[pick[j]] < rank[pick[i]])
    BY <1>2, <1>22, <2>1
  <2>3. before(pick[i], pick[j])
    BY <1>6, <1>11, <2>1, <2>2
  <2>4. length(pick[i]) <= length(pick[j])
    BY <1>8, <2>1, <2>3
  <2> QED BY <1>19, <2>4 DEF length
<1>23. ASSUME AllPart(found), NEW i \in D, NEW j \in D, i # j PROVE Fork(s[i], s[j])
  <2>1. pick[i] \in D /\ pick[j] \in D /\ rank[pick[i]] = i /\ rank[pick[j]] = j
    BY <1>18
  <2>2. pick[i] # pick[j]
    BY <1>23, <2>1
  <2>3. Fork(found[pick[i]], found[pick[j]])
    BY <1>23, <2>1, <2>2 DEF AllPart, D
  <2> QED BY <1>19, <2>3
<1>24. AllPart(found) => AllPart(s)
  BY <1>20, <1>23 DEF AllPart
<1>25. \A n \in D : \E i \in D : s[n] = found[i]
  BY <1>18, <1>19
<1> QED BY <1>20, <1>21, <1>22, <1>24, <1>25 DEF s, D

\* Paths that part are not the same.
LEMMA PartingPathsDiffer ==
  ASSUME NEW x, AllPart(x)
  PROVE  IsInjective(x)
<1>1. \A i, j \in DOMAIN x : i # j => x[i] # x[j]
  BY DEF AllPart, Fork
<1> QED BY <1>1 DEF IsInjective

\* A path that is right, in the words of this proof.
Joins(p) == Walk(p) /\ Simple(p) /\ EndOf(p) = target /\ Len(p) <= maxHops

\* What is always true of the stack and of the paths found: the open paths and those
\* found part from each other, so no path is found twice.
StackOk(o, found) ==
  /\ o \in Seq(Paths) /\ found \in Seq(Paths) /\ Len(found) <= Enough
  /\ \A j \in DOMAIN o : Walk(o[j]) /\ Simple(o[j])
  /\ \A j \in DOMAIN found : Joins(found[j])
  /\ AllPart(o) /\ AllPart(found) /\ PartFrom(o, found)

\* As long as nothing is found, every way to the target goes on from an open path.
Toward(w, p) == Len(p) < Len(w) /\ \A i \in DOMAIN p : w[i] = p[i]
Wanted(w) == Walk(w) /\ NoTableTwice(w) /\ EndOf(w) = target /\ Len(w) <= maxHops
NoneMissed(o, found) ==
  found = << >> => \A w \in Paths : Wanted(w) => \E j \in DOMAIN o : Toward(w, o[j])

\* What remains of a stack when its top is taken.
LEMMA Popped ==
  ASSUME NEW o \in Seq(Paths), o # << >>
  PROVE  /\ Len(o) \in Nat /\ Len(o) \in DOMAIN o /\ Last(o) = o[Len(o)] /\ Last(o) \in Paths
         /\ Front(o) \in Seq(Paths)
         /\ \A j \in DOMAIN Front(o) : j \in DOMAIN o /\ j # Len(o) /\ Front(o)[j] = o[j]
         /\ \A j \in DOMAIN o : j = Len(o) \/ (j \in DOMAIN Front(o) /\ Front(o)[j] = o[j])
<1> DEFINE L == Len(o)
           K == L - 1
<1>1. L \in Nat /\ L # 0 /\ DOMAIN o = 1..L /\ \A j \in 1..L : o[j] \in Paths
  OBVIOUS
<1>2. Front(o) = SubSeq(o, 1, K) /\ Last(o) = o[L]
  BY DEF Front, Last
<1>3. K \in Nat /\ K <= L /\ L \in 1..L
  BY <1>1
<1>4. Front(o) \in Seq(Paths) /\ Len(Front(o)) = K /\ \A j \in 1..K : Front(o)[j] = o[j]
  BY <1>1, <1>2, <1>3
<1>5. DOMAIN Front(o) = 1..K
  BY <1>4
<1> HIDE DEF L
<1>6. \A j \in 1..L : j = L \/ j \in 1..K
  BY <1>1
<1>7. \A j \in 1..K : j \in 1..L /\ j # L
  BY <1>1
<1> QED BY <1>1, <1>2, <1>3, <1>4, <1>5, <1>6, <1>7 DEF L

\* The rest of the stack, and the top, part from each other and from what was found.
LEMMA RestOk ==
  ASSUME NEW o, NEW found, StackOk(o, found), o # << >>
  PROVE  /\ StackOk(Front(o), found) /\ Last(o) \in Paths /\ Walk(Last(o)) /\ Simple(Last(o))
         /\ \A i \in DOMAIN Front(o) : Fork(Last(o), Front(o)[i])
         /\ \A i \in DOMAIN found : Fork(Last(o), found[i])
<1>1. o \in Seq(Paths) /\ found \in Seq(Paths) /\ Len(found) <= Enough
  BY DEF StackOk
<1> DEFINE rest == Front(o)
           L == Len(o)
<1>2. /\ L \in DOMAIN o /\ Last(o) = o[L] /\ Last(o) \in Paths /\ rest \in Seq(Paths)
      /\ \A j \in DOMAIN rest : j \in DOMAIN o /\ j # L /\ rest[j] = o[j]
  BY <1>1, Popped
<1>3. AllPart(o) /\ AllPart(found) /\ PartFrom(o, found)
  BY DEF StackOk
<1> HIDE DEF rest, L
<1>4. AllPart(rest) /\ PartFrom(rest, found)
  BY <1>2, <1>3 DEF AllPart, PartFrom
<1>5. \A j \in DOMAIN rest : Walk(rest[j]) /\ Simple(rest[j])
  BY <1>2 DEF StackOk
<1>6. StackOk(rest, found)
  BY <1>1, <1>2, <1>3, <1>4, <1>5 DEF StackOk
<1>7. Walk(Last(o)) /\ Simple(Last(o))
  BY <1>2 DEF StackOk
<1>8. \A i \in DOMAIN rest : Fork(Last(o), rest[i])
  BY <1>2, <1>3 DEF AllPart
<1>9. \A i \in DOMAIN found : Fork(Last(o), found[i])
  BY <1>2, <1>3 DEF PartFrom
<1> QED BY <1>2, <1>6, <1>7, <1>8, <1>9 DEF rest

\* A path as long as one may be leads nowhere.
LEMMA NothingBeyond ==
  ASSUME NEW o, NEW found, StackOk(o, found), o # << >>, NoneMissed(o, found),
         maxHops \in Nat, Len(Last(o)) >= maxHops
  PROVE  NoneMissed(Front(o), found)
<1>1. o \in Seq(Paths)
  BY DEF StackOk
<1>2. /\ Last(o) = o[Len(o)] /\ Last(o) \in Paths
      /\ \A j \in DOMAIN o : j = Len(o) \/ (j \in DOMAIN Front(o) /\ Front(o)[j] = o[j])
  BY <1>1, Popped
<1>3. Len(Last(o)) \in Nat
  BY <1>2, PathOfSteps
<1>4. ASSUME found = << >>, NEW w \in Paths, Wanted(w)
      PROVE  \E j \in DOMAIN Front(o) : Toward(w, Front(o)[j])
  <2>1. PICK j \in DOMAIN o : Toward(w, o[j])
    BY <1>4 DEF NoneMissed
  <2>2. Len(w) \in Nat /\ Len(w) <= maxHops
    BY <1>4, PathOfSteps DEF Wanted
  <2>3. j # Len(o)
    <3>1. SUFFICES ASSUME j = Len(o) PROVE FALSE
      OBVIOUS
    <3>2. Len(Last(o)) < Len(w)
      BY <1>2, <2>1, <3>1 DEF Toward
    <3> QED BY <1>3, <2>2, <3>2
  <2> QED BY <1>2, <2>1, <2>3
<1> QED BY <1>4 DEF NoneMissed

\* The next step of a wanted way leads from the path it begins with, to a new table.
LEMMA NextStepLeads ==
  ASSUME NEW path \in Paths, NEW w \in Paths, Wanted(w), Toward(w, path)
  PROVE  \E k \in Branches(path, Len(Steps)) :
           /\ w[Len(path) + 1] = Steps[k] /\ Len(path) + 1 <= Len(w)
           /\ Steps[k].to # target => Toward(w, Append(path, Steps[k]))
<1> DEFINE L == Len(path)
           n == L + 1
<1>1. /\ L \in Nat /\ DOMAIN path = 1..L
      /\ EndOf(path) = IF L = 0 THEN source ELSE path[L].to
  BY PathOfSteps
<1>2. /\ Len(w) \in Nat /\ DOMAIN w = 1..Len(w)
      /\ \A i \in 1..Len(w) : w[i] \in AllSteps
      /\ EndOf(w) = IF Len(w) = 0 THEN source ELSE w[Len(w)].to
  BY PathOfSteps
<1>3. L < Len(w) /\ \A i \in 1..L : w[i] = path[i]
  BY <1>1 DEF Toward
<1>4. n \in 1..Len(w) /\ n <= Len(w) /\ (n = 1 <=> L = 0) /\ n - 1 = L /\ (L # 0 => L \in 1..L)
  BY <1>1, <1>2, <1>3
<1>5. PICK k \in StepNumbers : w[n] = Steps[k]
  BY <1>2, <1>4 DEF AllSteps
<1>6. w[n].from = IF n = 1 THEN source ELSE w[n - 1].to
  BY <1>2, <1>4 DEF Wanted, Walk
<1>7. w[n].from = EndOf(path)
  BY <1>1, <1>3, <1>4, <1>6
<1>8. w[n].to # source /\ \A i \in 1..L : path[i].to # w[n].to
  <2>1. NoTableTwice(w)
    BY DEF Wanted
  <2>2. ASSUME NEW i \in 1..L PROVE path[i].to # w[n].to
    <3>1. i \in DOMAIN w /\ n \in DOMAIN w /\ i # n
      BY <1>1, <1>2, <1>3
    <3>2. w[i].to # w[n].to
      BY <2>1, <3>1 DEF NoTableTwice
    <3> QED BY <1>3, <3>2
  <2> QED BY <1>2, <1>4, <2>1, <2>2 DEF NoTableTwice
<1>9. Steps[k].to \notin TablesOn(path)
  BY <1>1, <1>5, <1>8 DEF TablesOn
<1>10. k \in Branches(path, Len(Steps))
  <2>1. Leads(path, Steps[k])
    BY <1>5, <1>7, <1>9 DEF Leads
  <2>2. k <= Len(Steps)
    BY StepsType
  <2> QED BY <2>1, <2>2 DEF Branches
<1> DEFINE q == Append(path, Steps[k])
<1>11. q \in Paths /\ Len(q) = n /\ q[n] = Steps[k] /\ \A i \in 1..L : q[i] = path[i]
  BY StepsType, OneStepMore
<1>12. DOMAIN q = 1..n
  BY <1>11, PathOfSteps
<1> HIDE DEF q
<1>13. \A i \in DOMAIN q : w[i] = q[i]
  <2>1. \A i \in 1..n : i \in 1..L \/ i = n
    BY <1>1
  <2> QED BY <1>3, <1>5, <1>11, <1>12, <2>1
<1>14. ASSUME Steps[k].to # target PROVE Toward(w, q)
  <2>1. EndOf(w) = target
    BY DEF Wanted
  <2> HIDE DEF n
  <2>2. ASSUME n = Len(w) PROVE FALSE
    <3>1. Len(w) # 0
      BY <1>2, <1>4
    <3>2. w[n].to = target
      BY <1>2, <2>1, <2>2, <3>1
    <3> QED BY <1>5, <1>14, <3>2
  <2>3. Len(q) < Len(w)
    <3>1. Len(w) \in Nat /\ n \in 1..Len(w) /\ n # Len(w)
      BY <1>2, <1>4, <2>2
    <3>2. n < Len(w)
      BY <3>1
    <3> QED BY <1>11, <3>2
  <2> QED BY <1>13, <2>3 DEF Toward
<1> QED BY <1>4, <1>5, <1>10, <1>14 DEF q

\* The stack after a path was extended is as it should be, ...
LEMMA StackStaysOk ==
  ASSUME NEW path \in Paths, Walk(path), Simple(path), Len(path) < maxHops, maxHops \in Nat,
         NEW rest, NEW found, StackOk(rest, found),
         NEW s \in Following, FollowsWell(s, path, rest, found, Len(Steps))
  PROVE  StackOk(s.open, s.paths)
<1> DEFINE N == Len(Steps)
<1>1. s.open \in Seq(Paths) /\ s.paths \in Seq(Paths)
  BY DEF Following
<1>2. /\ Gained(s.open, rest, path, Branches(path, N)) /\ Gained(s.paths, found, path, Direct(path, N))
      /\ AllPart(s.open) /\ AllPart(s.paths) /\ PartFrom(s.open, s.paths) /\ Len(s.paths) <= Enough
  BY DEF FollowsWell
<1> HIDE DEF N
<1>3. ASSUME NEW k \in Branches(path, N)
      PROVE  /\ Walk(Append(path, Steps[k])) /\ Simple(Append(path, Steps[k]))
             /\ EndOf(Append(path, Steps[k])) = Steps[k].to /\ Len(Append(path, Steps[k])) <= maxHops
  <2>1. Steps[k] \in AllSteps /\ Leads(path, Steps[k])
    BY StepsType DEF Branches
  <2>2. Walk(Append(path, Steps[k]))
    BY <2>1, WalkOn DEF Leads
  <2>3. Simple(Append(path, Steps[k]))
    BY <2>1, SimpleOn DEF Leads
  <2>4. EndOf(Append(path, Steps[k])) = Steps[k].to /\ Len(Append(path, Steps[k])) = Len(path) + 1
    BY <2>1, OneStepMore
  <2>5. Len(path) \in Nat
    BY PathOfSteps
  <2> QED BY <2>2, <2>3, <2>4, <2>5
<1>4. ASSUME NEW j \in DOMAIN s.open PROVE Walk(s.open[j]) /\ Simple(s.open[j])
  <2>1. \/ \E i \in DOMAIN rest : s.open[j] = rest[i]
        \/ \E k \in Branches(path, N) : s.open[j] = Append(path, Steps[k])
    BY <1>2 DEF Gained
  <2> QED BY <1>3, <2>1 DEF StackOk
<1>5. ASSUME NEW j \in DOMAIN s.paths PROVE Joins(s.paths[j])
  <2>1. \/ \E i \in DOMAIN found : s.paths[j] = found[i]
        \/ \E k \in Direct(path, N) : s.paths[j] = Append(path, Steps[k])
    BY <1>2 DEF Gained
  <2>2. CASE \E i \in DOMAIN found : s.paths[j] = found[i]
    BY <2>2 DEF StackOk
  <2>3. CASE \E k \in Direct(path, N) : s.paths[j] = Append(path, Steps[k])
    <3>1. PICK k \in Direct(path, N) : s.paths[j] = Append(path, Steps[k])
      BY <2>3
    <3>2. k \in Branches(path, N) /\ Steps[k].to = target
      BY DEF Direct
    <3> QED BY <1>3, <3>1, <3>2 DEF Joins
  <2> QED BY <2>1, <2>2, <2>3
<1> QED BY <1>1, <1>2, <1>4, <1>5 DEF StackOk

\* ... and nothing is missed.
LEMMA NothingMissed ==
  ASSUME NEW o, NEW found, StackOk(o, found), o # << >>, NoneMissed(o, found),
         NEW s \in Following, FollowsWell(s, Last(o), Front(o), found, Len(Steps))
  PROVE  NoneMissed(s.open, s.paths)
<1> DEFINE path == Last(o)
           rest == Front(o)
           B == Branches(path, Len(Steps))
<1>1. o \in Seq(Paths) /\ found \in Seq(Paths)
  BY DEF StackOk
<1>2. /\ path \in Paths /\ path = o[Len(o)]
      /\ \A j \in DOMAIN o : j = Len(o) \/ (j \in DOMAIN rest /\ rest[j] = o[j])
  BY <1>1, Popped
<1>3. \A i \in DOMAIN rest : \E j \in DOMAIN s.open : s.open[j] = rest[i]
  BY DEF FollowsWell, Gained
<1>4. \A i \in DOMAIN found : \E j \in DOMAIN s.paths : s.paths[j] = found[i]
  BY DEF FollowsWell, Gained
<1>5. s.paths = << >> =>
        \A k \in B : Steps[k].to # target /\ \E j \in DOMAIN s.open : s.open[j] = Append(path, Steps[k])
  BY Zenon DEF FollowsWell
<1> HIDE DEF path, rest, B
<1>6. s.paths = << >> => found = << >>
  <2>1. SUFFICES ASSUME s.paths = << >>, found # << >> PROVE FALSE
    OBVIOUS
  <2>2. 1 \in DOMAIN found
    BY <1>1, <2>1
  <2> QED BY <1>4, <2>1, <2>2
<1>7. ASSUME s.paths = << >>, NEW w \in Paths, Wanted(w)
      PROVE  \E j \in DOMAIN s.open : Toward(w, s.open[j])
  <2>1. PICK j \in DOMAIN o : Toward(w, o[j])
    BY <1>6, <1>7 DEF NoneMissed
  <2>2. CASE j \in DOMAIN rest /\ rest[j] = o[j]
    BY <1>3, <2>1, <2>2
  <2>3. CASE j = Len(o)
    <3>1. Toward(w, path)
      BY <1>2, <2>1, <2>3
    <3>2. PICK k \in B : Steps[k].to # target => Toward(w, Append(path, Steps[k]))
      BY <1>2, <1>7, <3>1, NextStepLeads DEF B
    <3>3. Steps[k].to # target /\ \E i \in DOMAIN s.open : s.open[i] = Append(path, Steps[k])
      BY <1>5, <1>7
    <3> QED BY <3>2, <3>3
  <2> QED BY <1>2, <2>2, <2>3
<1> QED BY <1>7 DEF NoneMissed

\* When no path is open, or enough are found, one is found exactly if there is one.
LEMMA FoundIfThereIsOne ==
  ASSUME NEW o, NEW found, StackOk(o, found), NoneMissed(o, found),
         o = << >> \/ Len(found) = Enough, maxHops \in Nat
  PROVE  found # << >> <=> target \in Near[maxHops]
<1>1. found \in Seq(Paths) /\ Enough \in Nat \ {0}
  BY JoinPathsAssumption DEF StackOk
<1>2. ASSUME found # << >> PROVE target \in Near[maxHops]
  <2>1. 1 \in DOMAIN found
    BY <1>1, <1>2
  <2> DEFINE p == found[1]
  <2>2. Walk(p) /\ EndOf(p) = target /\ Len(p) <= maxHops
    BY <2>1 DEF StackOk, Joins
  <2>3. Len(p) \in Nat
    BY <2>2, PathOfSteps DEF Walk
  <2> HIDE DEF p
  <2>4. target \in Near[Len(p)]
    BY <2>2, WalkReaches
  <2>5. Near[Len(p)] \subseteq Near[maxHops]
    BY <2>2, <2>3, NearGrows
  <2> QED BY <2>4, <2>5
<1>3. ASSUME found = << >>, target \in Near[maxHops] PROVE FALSE
  <2>1. PICK w : Walk(w) /\ Len(w) <= maxHops /\ EndOf(w) = target /\ NoTableTwice(w)
    BY <1>3, NearByWalk
  <2>2. w \in Paths /\ Wanted(w)
    BY <2>1 DEF Wanted, Walk
  <2>3. o = << >>
    BY <1>1, <1>3
  <2>4. \E j \in DOMAIN o : Toward(w, o[j])
    BY <1>3, <2>2 DEF NoneMissed
  <2> QED BY <2>3, <2>4
<1> QED BY <1>2, <1>3

-----------------------------------------------------------------------------

\* What PathsRight says of the paths when the search is over.
PathsFound(found) ==
  /\ \A i \in DOMAIN found : Connects(found[i])
  /\ IsInjective(found)
  /\ found # << >> <=> target \in Near[maxHops]
  /\ search = "shortest" =>
       \A i \in DOMAIN found :
         i = 1 /\ \A n \in 0..Len(found[i]) : n < Len(found[i]) => target \notin Near[n]
  /\ search = "all" =>
       /\ Len(found) <= Enough
       /\ \A i, j \in DOMAIN found : i < j => Len(found[i]) <= Len(found[j])

\* As above.
LEMMA JoinsConnects ==
  ASSUME NEW p, Joins(p)
  PROVE  Connects(p)
BY DEF Joins, Walk, Simple, Connects

\* The search of all_paths ends well, ...
LEMMA AllEndsWell ==
  ASSUME NEW o, NEW found, StackOk(o, found), NoneMissed(o, found),
         o = << >> \/ Len(found) = Enough, maxHops \in Nat, search = "all"
  PROVE  PathsFound(ByLength(found))
<1> DEFINE f == ByLength(found)
<1>1. /\ found \in Seq(Paths) /\ Len(found) <= Enough /\ AllPart(found)
      /\ \A i \in DOMAIN found : Joins(found[i])
  BY DEF StackOk
<1>2. /\ f \in Seq(Paths) /\ Len(f) = Len(found) /\ DOMAIN f = DOMAIN found
      /\ \A i, j \in DOMAIN f : i < j => Len(f[i]) <= Len(f[j])
      /\ \A n \in DOMAIN f : \E i \in DOMAIN found : f[n] = found[i]
      /\ AllPart(found) => AllPart(f)
  BY <1>1, Sorted
<1> HIDE DEF f
<1>3. \A i \in DOMAIN f : Connects(f[i])
  BY <1>1, <1>2, JoinsConnects
<1>4. IsInjective(f)
  BY <1>1, <1>2, PartingPathsDiffer
<1>5. f # << >> <=> found # << >>
  BY <1>1, <1>2
<1>6. found # << >> <=> target \in Near[maxHops]
  BY FoundIfThereIsOne
<1> QED BY <1>1, <1>2, <1>3, <1>4, <1>5, <1>6 DEF PathsFound, f

\* ... and so does that of shortest_path, if it finds a path ...
LEMMA ShortestEndsWell ==
  ASSUME NEW o, NEW v, QueueOk(o, v), Levels(o, v) \/ target \notin Near[maxHops],
         o # << >>, Len(o[1]) < maxHops, maxHops \in Nat, search = "shortest",
         NEW found, Finds(found, o[1])
  PROVE  PathsFound(found)
<1>1. /\ Len(found) = 1 /\ DOMAIN found = {1} /\ found # << >> /\ IsInjective(found)
      /\ Walk(found[1]) /\ Simple(found[1]) /\ EndOf(found[1]) = target /\ Len(found[1]) <= maxHops
      /\ target \in Near[maxHops]
      /\ Levels(o, v) => \A n \in Nat : n < Len(found[1]) => target \notin Near[n]
  BY FoundIsRight
<1>2. Connects(found[1])
  BY <1>1, JoinsConnects DEF Joins
<1>3. \A n \in 0..Len(found[1]) : n < Len(found[1]) => target \notin Near[n]
  BY <1>1
<1> QED BY <1>1, <1>2, <1>3 DEF PathsFound

\* ... and if it finds none.
LEMMA NoneEndsWell ==
  ASSUME target \notin Near[maxHops], search = "shortest"
  PROVE  PathsFound(<< >>)
<1> DEFINE f == << >>
<1>1. DOMAIN f = {} /\ f = << >>
  OBVIOUS
<1> HIDE DEF f
<1>2. PathsFound(f)
  BY <1>1 DEF PathsFound, IsInjective
<1> QED BY <1>1, <1>2

\* The invariant, of the open paths, the tables met, the paths found and whether the
\* search is over; what else it speaks of stays the same from the start of a search.
Standing(o, v, found, done) ==
  /\ maxHops \in Nat
  /\ search = "none" => ~done
  /\ ~done /\ search = "shortest" =>
       o # << >> /\ QueueOk(o, v) /\ (Levels(o, v) \/ target \notin Near[maxHops])
  /\ ~done /\ search = "all" => o # << >> /\ StackOk(o, found) /\ NoneMissed(o, found)
  /\ done => PathsFound(found)

JoinInv ==
  \E o, v, found, done :
    open = o /\ visited = v /\ paths = found /\ over = done /\ Standing(o, v, found, done)

\* How a search starts.
SearchStarts ==
  /\ search \in {"shortest", "all"} /\ source \in Tables /\ target \in Tables /\ maxHops \in Nat
  /\ open = << << >> >> /\ visited = {source} /\ over = (source = target)
  /\ paths = IF source = target THEN << << >> >> ELSE << >>

\* The empty path joins a table to itself, ...
LEMMA EmptyPathJoins ==
  ASSUME source = target, maxHops \in Nat
  PROVE  PathsFound(<< << >> >>)
<1> DEFINE e == << >>
           f == <<e>>
<1>1. Walk(e) /\ Simple(e) /\ EndOf(e) = source /\ Len(e) = 0
  BY EmptyWalk
<1>2. f # << >> /\ Len(f) = 1 /\ DOMAIN f = {1} /\ f[1] = e
  OBVIOUS
<1> HIDE DEF e, f
<1>3. Connects(e)
  BY <1>1, JoinsConnects DEF Joins
<1>4. target \in Near[maxHops]
  <2>1. target \in Near[0]
    BY NearIs
  <2>2. Near[0] \subseteq Near[maxHops]
    BY NearGrows
  <2> QED BY <2>1, <2>2
<1>5. IsInjective(f)
  BY <1>2 DEF IsInjective
<1>6. \A n \in 0..Len(e) : ~(n < Len(e))
  BY <1>1
<1>7. Len(f) <= Enough
  BY <1>2, JoinPathsAssumption
<1>8. PathsFound(f)
  BY <1>1, <1>2, <1>3, <1>4, <1>5, <1>6, <1>7 DEF PathsFound
<1> QED BY <1>8 DEF f, e

\* ... and every way to another goes on from the empty path.
LEMMA FirstStack ==
  ASSUME source # target
  PROVE  StackOk(<< << >> >>, << >>) /\ NoneMissed(<< << >> >>, << >>)
<1> DEFINE e == << >>
           o == <<e>>
           f == << >>
<1>1. Walk(e) /\ Simple(e) /\ EndOf(e) = source /\ Len(e) = 0 /\ e \in Paths /\ DOMAIN e = {}
  BY EmptyWalk
<1>2. e = << >> /\ f = << >> /\ f \in Seq(Paths) /\ Len(f) = 0 /\ DOMAIN f = {}
  OBVIOUS
<1>3. o \in Seq(Paths) /\ DOMAIN o = {1} /\ o[1] = e
  BY <1>1
<1> HIDE DEF e, o, f
<1>4. AllPart(o) /\ AllPart(f) /\ PartFrom(o, f)
  BY <1>2, <1>3 DEF AllPart, PartFrom
<1>5. StackOk(o, f)
  BY <1>1, <1>2, <1>3, <1>4, JoinPathsAssumption DEF StackOk
<1>6. ASSUME NEW w \in Paths, Wanted(w) PROVE Toward(w, o[1])
  <2>1. EndOf(w) = target
    BY <1>6 DEF Wanted
  <2>2. Len(w) \in Nat /\ Len(w) # 0
    BY <2>1, PathOfSteps
  <2> QED BY <1>1, <1>3, <2>2 DEF Toward
<1>7. NoneMissed(o, f)
  BY <1>3, <1>6 DEF NoneMissed
<1> QED BY <1>5, <1>7 DEF o, e, f

\* Every search starts well.
LEMMA BeginningIsWell ==
  SearchStarts => JoinInv
<1> SUFFICES ASSUME SearchStarts PROVE JoinInv
  OBVIOUS
<1>1. maxHops \in Nat /\ source \in Tables /\ search \in {"shortest", "all"}
  BY DEF SearchStarts
<1> DEFINE o == << << >> >>
<1>2. open = o /\ visited = {source}
  BY DEF SearchStarts
<1>3. o # << >>
  OBVIOUS
<1>4. CASE source = target
  <2>1. over = TRUE /\ paths = o
    BY <1>4 DEF SearchStarts
  <2>2. PathsFound(o)
    BY <1>1, <1>4, EmptyPathJoins
  <2> HIDE DEF o
  <2>3. Standing(o, {source}, o, TRUE)
    BY <1>1, <2>2 DEF Standing
  <2> QED BY <1>2, <2>1, <2>3 DEF JoinInv
<1>5. CASE source # target
  <2> DEFINE f == << >>
  <2>1. over = FALSE /\ paths = f
    BY <1>5 DEF SearchStarts
  <2>2. QueueOk(o, {source}) /\ Levels(o, {source})
    BY <1>1, <1>5, FirstQueue
  <2>3. StackOk(o, f) /\ NoneMissed(o, f)
    BY <1>5, FirstStack
  <2> HIDE DEF o, f
  <2>4. Standing(o, {source}, f, FALSE)
    BY <1>1, <1>3, <2>2, <2>3 DEF Standing
  <2> QED BY <1>2, <2>1, <2>4 DEF JoinInv
<1> QED BY <1>4, <1>5

\* One turn of shortest_path.
LEMMA ShortestTurn ==
  ASSUME NEW o, NEW v, open = o, visited = v, o # << >>, QueueOk(o, v),
         Levels(o, v) \/ target \notin Near[maxHops], maxHops \in Nat, search = "shortest"
  PROVE  LET path == Head(o)
             next == IF Len(path) >= maxHops
                     THEN [open |-> Tail(o), visited |-> v, paths |-> << >>] ELSE Breadth(path)
         IN  Standing(next.open, next.visited, next.paths, next.paths # << >> \/ next.open = << >>)
<1> DEFINE path == Head(o)
           rest == Tail(o)
           none == << >>
           past == [open |-> rest, visited |-> v, paths |-> none]
           next == IF Len(path) >= maxHops THEN past ELSE Breadth(path)
<1>1. o \in Seq(Paths) /\ v \subseteq Tables /\ source \in v /\ target \notin v
  BY DEF QueueOk
<1>2. path = o[1] /\ path \in Paths /\ rest \in Seq(Paths) /\ 1 \in DOMAIN o
  BY <1>1
<1>3. \A j \in DOMAIN rest : j + 1 \in DOMAIN o /\ rest[j] = o[j + 1]
  BY <1>1
<1>4. Len(path) \in Nat
  BY <1>2, PathOfSteps
<1>5. none = << >>
  OBVIOUS
<1> HIDE DEF path, rest, none
<1>6. past.open = rest /\ past.visited = v /\ past.paths = none
  OBVIOUS
<1> HIDE DEF past
<1>7. CASE Len(path) >= maxHops
  <2>1. next = past
    BY <1>7
  <2>2. target \notin Near[maxHops]
    BY <1>2, <1>7, TooFar
  <2>3. QueueOk(rest, v)
    BY <1>1, <1>2, <1>3 DEF QueueOk
  <2>4. PathsFound(none)
    BY <1>5, <2>2, NoneEndsWell
  <2>5. Standing(rest, v, none, none # << >> \/ rest = << >>)
    BY <1>5, <2>2, <2>3, <2>4 DEF Standing
  <2> HIDE DEF next
  <2>6. Standing(next.open, next.visited, next.paths, next.paths # << >> \/ next.open = << >>)
    BY <1>6, <2>1, <2>5
  <2> QED BY <2>6 DEF next, past, path, rest, none
<1>8. CASE ~(Len(path) >= maxHops)
  <2>1. next = Breadth(path)
    BY <1>8
  <2> HIDE DEF next
  <2>2. /\ next \in Meeting /\ MeetsWell(next, path, Tail(open), visited)
        /\ next.paths = << >> =>
             \A i \in StepNumbers : Steps[i].from = EndOf(path) => Steps[i].to \in next.visited
    BY <1>1, <1>2, <2>1, BreadthIsWell
  <2>3. MeetsWell(next, o[1], Tail(o), v)
    BY <1>2, <2>2
  <2>4. QueueOk(next.open, next.visited)
    BY <2>2, <2>3, QueueStaysOk
  <2>5. CASE next.paths # << >>
    <3>1. Finds(next.paths, o[1])
      BY <2>3, <2>5 DEF MeetsWell
    <3>2. Len(o[1]) < maxHops
      BY <1>2, <1>4, <1>8
    <3>3. PathsFound(next.paths)
      BY <3>1, <3>2, ShortestEndsWell
    <3>4. Standing(next.open, next.visited, next.paths, next.paths # << >> \/ next.open = << >>)
      BY <2>5, <3>3 DEF Standing
    <3> QED BY <3>4 DEF next, past, path, rest, none
  <2>6. CASE next.paths = << >>
    <3>1. \A i \in StepNumbers : Steps[i].from = EndOf(o[1]) => Steps[i].to \in next.visited
      BY <1>2, <2>2, <2>6
    <3>2. next.open # << >> => Levels(next.open, next.visited) \/ target \notin Near[maxHops]
      BY <2>2, <2>3, <3>1, LevelsStay
    <3>3. next.open = << >> => target \notin Near[maxHops]
      BY <2>2, <2>3, <3>1, NothingLeft
    <3>4. next.open = << >> => PathsFound(next.paths)
      BY <2>6, <3>3, NoneEndsWell
    <3>5. Standing(next.open, next.visited, next.paths, next.paths # << >> \/ next.open = << >>)
      BY <2>4, <2>6, <3>2, <3>4 DEF Standing
    <3> QED BY <3>5 DEF next, past, path, rest, none
  <2> QED BY <2>5, <2>6
<1> QED BY <1>7, <1>8

\* One turn of all_paths.
LEMMA AllTurn ==
  ASSUME NEW o, NEW v, NEW found, open = o, visited = v, paths = found, o # << >>,
         StackOk(o, found), NoneMissed(o, found), maxHops \in Nat, search = "all"
  PROVE  LET path == Last(o)
             next == IF Len(path) >= maxHops THEN [open |-> Front(o), paths |-> found] ELSE Depth(path)
             ends == next.open = << >> \/ Len(next.paths) = Enough
         IN  Standing(next.open, v, IF ends THEN ByLength(next.paths) ELSE next.paths, ends)
<1> DEFINE path == Last(o)
           rest == Front(o)
           past == [open |-> rest, paths |-> found]
           next == IF Len(path) >= maxHops THEN past ELSE Depth(path)
           ends == next.open = << >> \/ Len(next.paths) = Enough
           result == IF ends THEN ByLength(next.paths) ELSE next.paths
<1>1. /\ StackOk(rest, found) /\ path \in Paths /\ Walk(path) /\ Simple(path)
      /\ \A i \in DOMAIN rest : Fork(path, rest[i])
      /\ \A i \in DOMAIN found : Fork(path, found[i])
  BY RestOk
<1>2. past.open = rest /\ past.paths = found
  OBVIOUS
<1>3. o \in Seq(Paths) /\ found \in Seq(Paths)
  BY DEF StackOk
<1>4. Len(path) \in Nat
  BY <1>1, PathOfSteps
<1>5. StackOk(next.open, next.paths) /\ NoneMissed(next.open, next.paths)
  <2>1. CASE Len(path) >= maxHops
    <3>1. next = past
      BY <2>1
    <3>2. NoneMissed(rest, found)
      BY <2>1, NothingBeyond
    <3> HIDE DEF next, past, path, rest
    <3> QED BY <1>1, <1>2, <3>1, <3>2
  <2>2. CASE ~(Len(path) >= maxHops)
    <3>1. next = Depth(path)
      BY <2>2
    <3> HIDE DEF next
    <3>2. /\ Front(open) = rest /\ rest \in Seq(Paths) /\ AllPart(rest) /\ AllPart(paths)
          /\ PartFrom(rest, paths) /\ Len(paths) <= Enough
      BY <1>1 DEF StackOk
    <3>3. next \in Following /\ FollowsWell(next, path, Front(open), paths, Len(Steps))
      BY <1>1, <1>3, <3>1, <3>2, DepthIsWell
    <3>4. FollowsWell(next, path, rest, found, Len(Steps))
      BY <3>2, <3>3
    <3>5. Len(path) < maxHops
      BY <1>4, <2>2
    <3>6. StackOk(next.open, next.paths)
      BY <1>1, <3>3, <3>4, <3>5, StackStaysOk
    <3>7. NoneMissed(next.open, next.paths)
      BY <3>3, <3>4, NothingMissed
    <3> QED BY <3>6, <3>7 DEF next
  <2> QED BY <2>1, <2>2
<1> HIDE DEF next
<1>6. CASE ends
  <2>1. result = ByLength(next.paths)
    BY <1>6
  <2>2. PathsFound(ByLength(next.paths))
    BY <1>5, <1>6, AllEndsWell
  <2> HIDE DEF result, ends
  <2>3. Standing(next.open, v, result, ends)
    BY <1>6, <2>1, <2>2 DEF Standing
  <2> QED BY <2>3 DEF result, ends, next, past, path, rest
<1>7. CASE ~ends
  <2>1. result = next.paths /\ next.open # << >>
    BY <1>7
  <2> HIDE DEF result, ends
  <2>2. Standing(next.open, v, result, ends)
    BY <1>5, <1>7, <2>1 DEF Standing
  <2> QED BY <2>2 DEF result, ends, next, past, path, rest
<1> QED BY <1>6, <1>7

\* What the invariant says of given paths stays true during a search.
LEMMA StandingStays ==
  ASSUME NEW o, NEW v, NEW found, NEW done, Standing(o, v, found, done),
         UNCHANGED <<search, source, target, maxHops>>
  PROVE  Standing(o, v, found, done)'
<1>1. search' = search /\ source' = source /\ target' = target /\ maxHops' = maxHops
  OBVIOUS
<1>2. Near' = Near
  BY <1>1 DEF Near, Steps
<1>3. ASSUME NEW p PROVE EndOf(p)' = EndOf(p) /\ TablesOn(p)' = TablesOn(p)
  BY <1>1 DEF EndOf, TablesOn
<1>4. ASSUME NEW p PROVE Walk(p)' <=> Walk(p)
  BY <1>1 DEF Walk, Paths, AllSteps, Steps
<1>5. ASSUME NEW p PROVE Simple(p)' <=> Simple(p)
  BY <1>3 DEF Simple
<1>6. QueueOk(o, v) => QueueOk(o, v)'
  BY <1>1, <1>3, <1>4, <1>5 DEF QueueOk
<1>7. Levels(o, v) => Levels(o, v)'
  BY <1>1, <1>2, <1>3 DEF Levels
<1>8. StackOk(o, found) => StackOk(o, found)'
  BY <1>1, <1>3, <1>4, <1>5 DEF StackOk, Joins
<1>9. NoneMissed(o, found) => NoneMissed(o, found)'
  BY <1>1, <1>3, <1>4 DEF NoneMissed, Wanted, NoTableTwice
<1>10. PathsFound(found) => PathsFound(found)'
  BY <1>1, <1>2, <1>3 DEF PathsFound, Connects
<1> QED BY <1>1, <1>2, <1>6, <1>7, <1>8, <1>9, <1>10 DEF Standing

\* PathsRight: when a search is over, the paths it found join the two tables within
\* max_hops, meet no table twice and are all different; there is one if there is a
\* way, shortest_path's is a shortest one, and those of all_paths are in order
\* (joins.py:97-166).
THEOREM PathsAreRight == JoinSpec => []PathsRight
<1>1. JoinInit => JoinInv
  <2> SUFFICES ASSUME JoinInit PROVE JoinInv
    OBVIOUS
  <2>1. search = "none" /\ over = FALSE /\ maxHops \in Nat
    BY DEF JoinInit
  <2>2. Standing(open, visited, paths, FALSE)
    BY <2>1 DEF Standing
  <2> QED BY <2>1, <2>2 DEF JoinInv
<1>2. Search => SearchStarts'
  BY JoinPathsAssumption DEF Search, SearchStarts
<1>3. JoinInv /\ Shortest => JoinInv'
  <2> SUFFICES ASSUME JoinInv, Shortest PROVE JoinInv'
    OBVIOUS
  <2>1. PICK o, v, found, done :
          open = o /\ visited = v /\ paths = found /\ over = done /\ Standing(o, v, found, done)
    BY DEF JoinInv
  <2>2. search = "shortest" /\ ~over /\ open # << >> /\ UNCHANGED <<search, source, target, maxHops>>
    BY DEF Shortest
  <2> DEFINE path == Head(o)
             next == IF Len(path) >= maxHops
                     THEN [open |-> Tail(o), visited |-> v, paths |-> << >>] ELSE Breadth(path)
  <2>3. Standing(next.open, next.visited, next.paths, next.paths # << >> \/ next.open = << >>)
    BY <2>1, <2>2, ShortestTurn DEF Standing
  <2>4. /\ open' = next.open /\ visited' = next.visited /\ paths' = next.paths
        /\ over' = (next.paths # << >> \/ next.open = << >>)
    BY <2>1 DEF Shortest
  <2> HIDE DEF next
  <2>5. PICK o2, v2, found2, done2 :
          /\ o2 = next.open /\ v2 = next.visited /\ found2 = next.paths
          /\ done2 = (next.paths # << >> \/ next.open = << >>)
    OBVIOUS
  <2>6. Standing(o2, v2, found2, done2)
    BY <2>3, <2>5
  <2>7. Standing(o2, v2, found2, done2)'
    BY <2>2, <2>6, StandingStays
  <2>8. open' = o2 /\ visited' = v2 /\ paths' = found2 /\ over' = done2
    BY <2>4, <2>5
  <2> QED BY <2>7, <2>8 DEF JoinInv
<1>4. JoinInv /\ All => JoinInv'
  <2> SUFFICES ASSUME JoinInv, All PROVE JoinInv'
    OBVIOUS
  <2>1. PICK o, v, found, done :
          open = o /\ visited = v /\ paths = found /\ over = done /\ Standing(o, v, found, done)
    BY DEF JoinInv
  <2>2. search = "all" /\ ~over /\ open # << >> /\ UNCHANGED <<search, source, target, maxHops>>
    BY DEF All
  <2> DEFINE path == Last(o)
             next == IF Len(path) >= maxHops THEN [open |-> Front(o), paths |-> found] ELSE Depth(path)
             ends == next.open = << >> \/ Len(next.paths) = Enough
             result == IF ends THEN ByLength(next.paths) ELSE next.paths
  <2>3. Standing(next.open, v, result, ends)
    BY <2>1, <2>2, AllTurn DEF Standing
  <2>4. open' = next.open /\ visited' = v /\ paths' = result /\ over' = ends
    BY <2>1 DEF All
  <2> HIDE DEF next, ends, result
  <2>5. PICK o2, found2, done2 : o2 = next.open /\ found2 = result /\ done2 = ends
    OBVIOUS
  <2>6. Standing(o2, v, found2, done2)
    BY <2>3, <2>5
  <2>7. Standing(o2, v, found2, done2)'
    BY <2>2, <2>6, StandingStays
  <2>8. open' = o2 /\ visited' = v /\ paths' = found2 /\ over' = done2
    BY <2>4, <2>5
  <2> QED BY <2>7, <2>8 DEF JoinInv
<1>5. JoinInv /\ UNCHANGED joinVars => JoinInv'
  <2> SUFFICES ASSUME JoinInv, UNCHANGED joinVars PROVE JoinInv'
    OBVIOUS
  <2>1. PICK o, v, found, done :
          open = o /\ visited = v /\ paths = found /\ over = done /\ Standing(o, v, found, done)
    BY DEF JoinInv
  <2>2. Standing(o, v, found, done)'
    BY <2>1, StandingStays DEF joinVars
  <2> QED BY <2>1, <2>2 DEF JoinInv, joinVars
<1>6. JoinInv => PathsRight
  BY DEF JoinInv, Standing, PathsRight, PathsFound
<1> QED BY <1>1, <1>2, <1>3, <1>4, <1>5, <1>6, BeginningIsWell, PTL DEF JoinSpec, JoinNext
================================================================================
