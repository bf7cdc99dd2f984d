----------------------------- MODULE InsightDetector -----------------------------
(***************************************************************************)
(* detect_decline_insight (backend/app/agents/insight_detector.py): how    *)
(* many groups of a result fell by 15 per cent or more from their last but *)
(* one period to their last.  Which group fell most, and the wording of    *)
(* the insight, are left out; so is how the columns of the group and of    *)
(* the value are recognised.                                               *)
(*                                                                         *)
(* Periods are compared as text, and a text is the sequence of the codes   *)
(* of its characters.  What is not modelled is a month that is a date:     *)
(* what padding makes of one depends on the platform.                      *)
(***************************************************************************)
EXTENDS Integers, Sequences, SequencesExt, FiniteSets, FiniteSetsExt

CONSTANTS
  Groups,
  Grains,      \* the time columns a result may have, the coarsest first
  BeginsWith,  \* <<name, column>>: the column's name begins with the other
  Results      \* what a query may have returned

\* What a row has in a time column: what str makes of it, whether it is NULL, and
\* where in time it is, among those that agree on the coarser columns.
Cell == [text : Seq(Nat), null : BOOLEAN, at : Nat]

ASSUME InsightAssumption ==
  /\ Grains \in Seq(STRING) /\ ToSet(Grains) \cap {"group", "value", "none"} = {}
  /\ BeginsWith \subseteq STRING \X ToSet(Grains)
  /\ \A result \in Results :
       /\ result.columns \in Seq(ToSet(Grains) \cup {"group", "value"})
       /\ result.rows \in Seq([group : Groups, cells : [ToSet(Grains) -> Cell],
                               value : Int, numeric : BOOLEAN])

VARIABLES
  given,    \* the result the detector is called with
  insight   \* what came of it: "waiting", "none", "raised", or how many of the
            \*   groups that can be compared declined

insightVars == <<given, insight>>

NoResult == [columns |-> << >>, rows |-> << >>]
Outcome(is, declined, of) == [is |-> is, declined |-> declined, of |-> of]

-----------------------------------------------------------------------------
(* The periods.                                                            *)

\* _first_present: the first of the names that is a column, or else the first
\* column that begins with one of them, or "none".
Beginning(columns, name) == {j \in DOMAIN columns : <<name, columns[j]>> \in BeginsWith}
FirstPresent(columns, names) ==
  LET here  == {i \in DOMAIN names : names[i] \in ToSet(columns)}
      begun == {i \in DOMAIN names : Beginning(columns, names[i]) # {}}
  IN  CASE here # {}                -> names[Min(here)]
        [] here = {} /\ begun # {}  -> columns[Min(Beginning(columns, names[Min(begun)]))]
        [] here = {} /\ begun = {}  -> "none"

YearColumn(columns) == FirstPresent(columns, <<"year", "calendaryear">>)
QuarterColumn(columns) ==
  FirstPresent(columns, <<"quarter", "calendarquarter", "calendarquarterlabel">>)
MonthColumn(columns) == FirstPresent(columns, <<"month", "monthnumber", "calendarmonth">>)
TimeColumn(columns) ==
  FirstPresent(columns, <<"year", "quarter", "month", "period", "yearquarter">>)

\* The columns a period is made of, and whether what is in them is padded: a year
\* and a quarter, a year and a month, one column, or none.
Part(column, pads) == [column |-> column, pads |-> pads]
KeyParts(columns) ==
  LET year == YearColumn(columns)
      quarter == QuarterColumn(columns)
      month == MonthColumn(columns)
      single == TimeColumn(columns)
  IN  CASE year # "none" /\ quarter # "none" -> <<Part(year, FALSE), Part(quarter, FALSE)>>
        [] year # "none" /\ quarter = "none" /\ month # "none" ->
             <<Part(year, FALSE), Part(month, TRUE)>>
        [] (year = "none" \/ (quarter = "none" /\ month = "none")) /\ single # "none" ->
             <<Part(single, FALSE)>>
        [] OTHER -> << >>

\* ":>02": zeros up to two characters.
Padded(text) == [i \in 1..(2 - Len(text)) |-> 48] \o text
Written(part, row) ==
  LET text == row.cells[part.column].text IN IF part.pads THEN Padded(text) ELSE text

\* What two columns hold, with a dash between them.
Dashed(a, b) == a \o <<45>> \o b

FaultyTimeKey(columns, row) ==
  LET parts == KeyParts(columns)
      Text(n) == row.cells[parts[n].column].text
  IN  CASE Len(parts) = 0 -> << >>
        [] Len(parts) = 1 -> Text(1)
        [] Len(parts) = 2 -> Dashed(Text(1), Text(2))

\* time_key
TimeKey(columns, row) ==
  LET parts == KeyParts(columns) IN
  CASE Len(parts) = 0 -> << >>
    [] Len(parts) = 1 -> Written(parts[1], row)
    [] Len(parts) = 2 -> Dashed(Written(parts[1], row), Written(parts[2], row))

\* The order of texts.
Before(a, b) ==
  \E i \in DOMAIN b :
    /\ \A j \in 1..(i - 1) : j \in DOMAIN a /\ a[j] = b[j]
    /\ i \in DOMAIN a => a[i] < b[i]

-----------------------------------------------------------------------------
(* The groups.                                                             *)

\* The rows of a group whose value is a number (none at all counts as 0).
RowsOf(result, g) == {i \in DOMAIN result.rows : result.rows[i].group = g /\ result.rows[i].numeric}

\* The rows of a group in a period, and their total.
Bucket(result, g, key) == {i \in RowsOf(result, g) : TimeKey(result.columns, result.rows[i]) = key}
Total(result, rows) == MapThenSumSet(LAMBDA i : result.rows[i].value, rows)

Periods(result, g) == {TimeKey(result.columns, result.rows[i]) : i \in RowsOf(result, g)}

\* The last of some periods, in the order of their texts; and the periods of a
\* group before its last.
Latest(keys) == CHOOSE k \in keys : \A j \in keys : j = k \/ Before(j, k)
Preceding(keys) == {k \in keys : \E j \in keys : Before(k, j)}

\* The totals of a group in its last period and in the one before.
Curr(result, g) == Total(result, Bucket(result, g, Latest(Periods(result, g))))
Prev(result, g) == Total(result, Bucket(result, g, Latest(Preceding(Periods(result, g)))))

Fell(prev, curr) == 100 * (prev - curr) >= 15 * prev

\* The groups with two periods, the last but one of which is positive.
Comparable(result) ==
  {g \in Groups : Preceding(Periods(result, g)) # {} /\ Prev(result, g) > 0}
Declining(result) == {g \in Comparable(result) : Fell(Prev(result, g), Curr(result, g))}

Readable(result) ==
  /\ Len(result.rows) >= 2
  /\ {"group", "value"} \subseteq ToSet(result.columns)
  /\ YearColumn(result.columns) # "none" \/ TimeColumn(result.columns) # "none"

\* A month behind a year that is NULL cannot be padded: TypeError, and the caller
\* shows a plain table.
Unpaddable(result) ==
  LET parts == KeyParts(result.columns) IN
  \E n \in DOMAIN parts : \E i \in DOMAIN result.rows :
    parts[n].pads /\ result.rows[i].numeric /\ result.rows[i].cells[parts[n].column].null

\* detect_decline_insight
Detected(result) ==
  CASE ~Readable(result) -> Outcome("none", 0, 0)
    [] Readable(result) /\ Unpaddable(result) -> Outcome("raised", 0, 0)
    [] OTHER ->
         IF Declining(result) = {} THEN Outcome("none", 0, 0)
         ELSE Outcome("decline", Cardinality(Declining(result)), Cardinality(Comparable(result)))

InsightInit == given = NoResult /\ insight = Outcome("waiting", 0, 0)

InsightIdle == insight.is = "waiting"

Detect ==
  /\ insight.is = "waiting"
  /\ given' \in Results
  /\ insight' = Detected(given')

InsightNext == Detect

InsightSpec == InsightInit /\ [][InsightNext]_insightVars

-----------------------------------------------------------------------------

\* The groups that fell between the last two times they have rows of, where time
\* gives the time of each row, however the rows are ordered or split.
FellLast(result, time) ==
  LET Sum(g, t) == Total(result, {i \in RowsOf(result, g) : time[i] = t})
      LastTwo(g, s, t) ==
        Before(s, t) /\ \A i \in RowsOf(result, g) : time[i] = t \/ time[i] = s \/ Before(time[i], s)
  IN  {g \in Groups : \E i, j \in RowsOf(result, g) :
         LET s == time[i]
             t == time[j]
         IN  LastTwo(g, s, t) /\ Sum(g, s) > 0 /\ Fell(Sum(g, s), Sum(g, t))}

\* When a row is, by the columns its period is made of.
When(columns, row) ==
  [n \in DOMAIN KeyParts(columns) |-> row.cells[KeyParts(columns)[n].column].at]

\* What the rows have in the columns of the period is written in the order of what
\* it stands for, and no year is longer than another.  Years of four digits,
\* quarters from 1 to 4 and months behind a year are (a month alone is not, nor
\* is the name of one), and NULL stands for nothing.
WrittenInOrder(result) ==
  LET parts == KeyParts(result.columns)
      rows == {i \in DOMAIN result.rows : result.rows[i].numeric}
  IN  \A n \in DOMAIN parts : \A i, j \in rows :
        LET a == result.rows[i].cells[parts[n].column]
            b == result.rows[j].cells[parts[n].column]
            s == Written(parts[n], result.rows[i])
            t == Written(parts[n], result.rows[j])
        IN  /\ ~a.null
            /\ a.at < b.at => Before(s, t)
            /\ a.at = b.at => s = t
            /\ n < Len(parts) => Len(s) = Len(t)

\* If each column of the period is written in the order of time, so is the period,
\* a year and a month or quarter in one text: the groups counted as declining are
\* those whose total in the last time they have rows of is at least 15 per cent
\* below their positive total in the time before (insight_detector.py:54-61,
\* 79-97).  Where the columns are not, see ComparesTheLatest.
InsightRight ==
  insight.is \in {"none", "decline"} /\ Readable(given) /\ WrittenInOrder(given) =>
    insight.declined =
      Cardinality(FellLast(given, [i \in DOMAIN given.rows |-> When(given.columns, given.rows[i])]))

-----------------------------------------------------------------------------
(* What the repository says and the code does otherwise.                   *)

\* When a row is, by all the time columns of the result.
Present(columns) == SelectSeq(Grains, LAMBDA c : c \in ToSet(columns))
Time(columns, row) ==
  [n \in DOMAIN Present(columns) |-> row.cells[Present(columns)[n]].at]

\* "For each group, compare the most-recent value with the previous one"
\* (insight_detector.py:36-37): whatever time columns the result has, the groups
\* counted are those that fell between the last two times they have rows of.
ComparesTheLatest ==
  insight.is \in {"none", "decline"} /\ Readable(given) =>
    insight.declined =
      Cardinality(FellLast(given, [i \in DOMAIN given.rows |-> Time(given.columns, given.rows[i])]))
================================================================================
