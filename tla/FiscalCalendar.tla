----------------------------- MODULE FiscalCalendar -----------------------------
(***************************************************************************)
(* FiscalConfig (backend/app/temporal/fiscal.py): which fiscal year a day   *)
(* belongs to, and where fiscal years and their quarters begin and end.    *)
(* A date is a record, a range is half-open as in the code, and a fiscal   *)
(* year is named after the calendar year it ends in.                       *)
(***************************************************************************)
EXTENDS Integers

\* The month and day a fiscal year starts on, a day that every year has: for any
\* other date() raises, 29 February in all years but leap years.
EveryYear(month) == IF month = 2 THEN 28 ELSE IF month \in {4, 6, 9, 11} THEN 30 ELSE 31
Config == {c \in [month : 1..12, day : 1..31] : c.day <= EveryYear(c.month)}

Date == [year : Nat, month : 1..12, day : 1..31]

On(y, m, d) == [year |-> y, month |-> m, day |-> d]

\* The order of dates.
Earlier(a, b) ==
  \/ a.year < b.year
  \/ a.year = b.year /\ a.month < b.month
  \/ a.year = b.year /\ a.month = b.month /\ a.day < b.day

Within(d, range) == ~Earlier(d, range.start) /\ Earlier(d, range.end)

-----------------------------------------------------------------------------

IsCalendarYear(c) == c.month = 1 /\ c.day = 1

FaultyYearFor(c, d) == IF d.month < c.month THEN d.year ELSE d.year + 1

\* fiscal_year_for
FiscalYearFor(c, d) ==
  IF IsCalendarYear(c) \/ Earlier(d, On(d.year, c.month, c.day)) THEN d.year ELSE d.year + 1

\* fiscal_year_bounds
FiscalYearBounds(c, fy) ==
  IF IsCalendarYear(c) THEN [start |-> On(fy, 1, 1), end |-> On(fy + 1, 1, 1)]
  ELSE [start |-> On(fy - 1, c.month, c.day), end |-> On(fy, c.month, c.day)]

\* The first of the month that begins q quarters after the fiscal year does.
QuarterStart(c, fy, q) ==
  LET first == FiscalYearBounds(c, fy).start
      month == first.month - 1 + 3 * q
  IN  On(first.year + month \div 12, (month % 12) + 1, 1)

\* fiscal_quarter_bounds
FiscalQuarterBounds(c, fy, q) ==
  [start |-> QuarterStart(c, fy, q - 1), end |-> QuarterStart(c, fy, q)]

-----------------------------------------------------------------------------

\* The days of a fiscal year that none of its quarters has.
LeftOut(c, d) == d.month = c.month /\ d.day < c.day

\* The fiscal year of a day contains the day (fiscal.py:31-59).
YearContains(c, d) == Within(d, FiscalYearBounds(c, FiscalYearFor(c, d)))

\* One quarter of its fiscal year contains a day, and no other does, unless the
\* day lies in the month the year starts in, before the day it starts on: the
\* quarters start on the first of a month whatever the year does
\* (fiscal.py:61-73).
QuarterContains(c, d) ==
  LET In(q) == Within(d, FiscalQuarterBounds(c, FiscalYearFor(c, d), q)) IN
  IF LeftOut(c, d) THEN \A q \in 1..4 : ~In(q)
  ELSE \E q \in 1..4 : \A p \in 1..4 : In(p) <=> p = q
================================================================================
