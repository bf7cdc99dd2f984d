------------------------------- MODULE MCInsight -------------------------------
(***************************************************************************)
(* An instance of InsightDetector for TLC: results of three rows, of two   *)
(* groups, in months at the turn of a year or of a digit, with the time    *)
(* columns that are told apart, and values around a fall of 15 per cent.   *)
(***************************************************************************)
EXTENDS InsightDetector

GrainsOfTime ==
  <<"calendaryear", "year", "yearquarter", "quarter", "calendarquarterlabel", "calendarmonth",
    "period", "month", "monthnumber", "monthname">>
NamesBegin ==
  {<<"year", "yearquarter">>, <<"calendarquarter", "calendarquarterlabel">>,
   <<"month", "monthnumber">>, <<"month", "monthname">>}

\* The characters of a number, and of the names of three months.
Decimal(n) ==
  LET Digit(power) == 48 + ((n \div power) % 10) IN
  CASE n < 10              -> <<Digit(1)>>
    [] n \in 10..99        -> <<Digit(10), Digit(1)>>
    [] n \in 1000..9999    -> <<Digit(1000), Digit(100), Digit(10), Digit(1)>>
MonthName(m) ==
  CASE m = 1 -> <<74, 97, 110>> [] m = 9 -> <<83, 101, 112>> [] m = 10 -> <<79, 99, 116>>

\* What a row of a month of a year has in each time column.
Cells(y, m) ==
  LET q == (m + 2) \div 3
      Shown(text, at) == [text |-> text, null |-> FALSE, at |-> at]
  IN  [c \in ToSet(GrainsOfTime) |->
         CASE c \in {"year", "calendaryear"}  -> Shown(Decimal(y), y)
           [] c = "yearquarter"               -> Shown(Decimal(y) \o <<81>> \o Decimal(q), 10 * y + q)
           [] c = "quarter"                   -> Shown(Decimal(q), q)
           [] c = "calendarquarterlabel"      -> Shown(<<81>> \o Decimal(q), q)
           [] c \in {"calendarmonth", "period"} -> Shown(Decimal(y) \o <<45>> \o Padded(Decimal(m)), 100 * y + m)
           [] c \in {"month", "monthnumber"}  -> Shown(Decimal(m), m)
           [] c = "monthname"                 -> Shown(MonthName(m), m)]

\* Whatever the columns: NULL, whose text is None.
NoMonth(y) == [c \in ToSet(GrainsOfTime) |->
  IF c \in {"year", "calendaryear"} THEN Cells(y, 1)[c]
  ELSE [text |-> <<78, 111, 110, 101>>, null |-> TRUE, at |-> 0]]

Row(g, cells, v) == [group |-> g, cells |-> cells, value |-> v, numeric |-> TRUE]
Rows == {Row(g, Cells(y, m), v) : g \in {"a", "b"}, y \in {2008, 2009}, m \in {1, 9, 10}, v \in {0, 85, 100}}
Odd == {[Row("a", Cells(2008, 9), 100) EXCEPT !.numeric = FALSE], Row("a", NoMonth(2009), 100)}

TimeLists ==
  {SelectSeq(<<"year", "quarter", "month">>, LAMBDA c : c \in names) : names \in SUBSET {"year", "quarter", "month"}}
    \cup {<<"calendaryear">>, <<"yearquarter">>, <<"monthname">>, <<"calendarmonth">>,
          <<"calendaryear", "monthnumber">>, <<"calendaryear", "calendarquarterlabel">>,
          <<"year", "period">>, <<"monthname", "monthnumber", "calendaryear">>}
TimedColumns == {<<"group", "value">> \o times : times \in TimeLists} \cup {<<"value", "year">>}

Series4 == << Row("a", Cells(2009, 1), 85), Row("b", Cells(2008, 9), 100) >>

SomeResults ==
  [columns : TimedColumns, rows : [1..2 -> Rows \cup Odd] \cup {<<r>> \o Series4 : r \in Rows \cup Odd}]

\* September and October of a year under the month alone, the month's name, the
\* year as the date table of the database calls it, and a period behind a year.
LateResults ==
  [columns : {<<"group", "value">> \o times : times \in {<<"month">>, <<"monthname">>, <<"calendaryear">>, <<"year", "period">>}},
   rows : {<<Row("a", Cells(y, 9), 100), Row("a", Cells(2009, 10), v)>> : y \in {2008, 2009}, v \in {85, 100}}]
===============================================================================
