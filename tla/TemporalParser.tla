----------------------------- MODULE TemporalParser -----------------------------
(***************************************************************************)
(* TemporalParser.parse (backend/app/temporal/parser.py): the dates a      *)
(* question names.  Ten finders, the more specific ones first, each look   *)
(* for their patterns and work out a range of days for every match; then   *)
(* the matches are taken in that order and those that overlap one already  *)
(* taken are dropped.                                                      *)
(*                                                                         *)
(* A question is a sequence of words, a span counts words, and a pattern   *)
(* is a sequence of sets of words.  A word the patterns do not know is     *)
(* "other"; "compared to" is one word.  The text of the prompt block made  *)
(* of the ranges (and the window hint, a part of it) is left out.          *)
(***************************************************************************)
EXTENDS FiscalCalendar, Sequences, SequencesExt

CONSTANTS
  Texts,       \* the questions
  Days,        \* the dates a question may be asked on
  Calendars,   \* the fiscal calendars the parser may be configured with
  FourDigits,  \* the words made of four digits, ...
  Digits,      \* ... and those of one to three, ...
  ValueOf      \* ... and what they say

\* What up to four digits say.
Numbers == 0..9999

ASSUME ParserAssumption ==
  /\ Texts \subseteq Seq(STRING) /\ Days \subseteq Date /\ Calendars \subseteq Config
  /\ ValueOf \in [FourDigits \cup Digits -> Numbers] /\ \A w \in Digits : ValueOf[w] <= 999

VARIABLES
  phase,       \* "idle", "finding", "choosing", "answered" or "raised"
  text, now, fiscal,  \* the call: the question, its date and the calendar
  finder,      \* how many finders have run
  candidates,  \* their matches, in order
  considered,  \* how many matches have been considered, ...
  chosen,      \* ... and which were taken
  expressions  \* the answer: the matches taken, in the order of the text

parserVars == <<phase, text, now, fiscal, finder, candidates, considered, chosen, expressions>>

-----------------------------------------------------------------------------
(* Days.  date() knows the years 1 to 9999 and raises for others.          *)

NoDay == 0
KnownYears == 1..9999

Leap(y) == y % 4 = 0 /\ (y % 100 # 0 \/ y % 400 = 0)

\* The days of the year before its m-th month; the 13th would be the next January.
DaysBefore(y, m) ==
  <<0, 31, 59, 90, 120, 151, 181, 212, 243, 273, 304, 334, 365>>[m]
    + (IF m > 2 /\ Leap(y) THEN 1 ELSE 0)

\* The days a question is asked on are dates.
ASSUME DaysAssumption ==
  \A d \in Days :
    d.year \in KnownYears /\ d.day <= DaysBefore(d.year, d.month + 1) - DaysBefore(d.year, d.month)

\* date(y, m, d), as a day number.
Day(y, m, d) ==
  IF y \notin KnownYears THEN NoDay
  ELSE 365 * (y - 1) + (y - 1) \div 4 - (y - 1) \div 100 + (y - 1) \div 400 + DaysBefore(y, m) + d

LastDay == Day(9999, 12, 31)
DayOf(date) == Day(date.year, date.month, date.day)
Today == DayOf(now)
Weekday == (Today + 6) % 7   \* Monday is 0

DateRange(from, to) == [start |-> from, end |-> to]

FaultyMonths(y, k, n) ==
  LET From(m) == Day(y, (m % 12) + 1, 1) IN DateRange(From(k), From(k + n))

\* The n months that start k months after January of year y.
Months(y, k, n) ==
  LET From(m) == Day(y + m \div 12, (m % 12) + 1, 1) IN DateRange(From(k), From(k + n))

-----------------------------------------------------------------------------
(* Words and patterns.                                                     *)

QuarterWord == <<"q1", "q2", "q3", "q4">>
QuarterWords == ToSet(QuarterWord)

MonthOf ==
  [january |-> 1, jan |-> 1, february |-> 2, feb |-> 2, march |-> 3, mar |-> 3, april |-> 4,
   apr |-> 4, may |-> 5, june |-> 6, jun |-> 6, july |-> 7, jul |-> 7, august |-> 8, aug |-> 8,
   september |-> 9, sep |-> 9, sept |-> 9, october |-> 10, oct |-> 10, november |-> 11,
   nov |-> 11, december |-> 12, dec |-> 12]

\* _delta_for: the days of a unit.
DaysIn ==
  [day |-> 1, days |-> 1, week |-> 7, weeks |-> 7, month |-> 30, months |-> 30,
   quarter |-> 90, quarters |-> 90, year |-> 365, years |-> 365]

Back == {"last", "previous"}
ThisOrLast == {"this", "current"} \cup Back
Against == {"vs", "versus", "compared_to"}
SamePeriod == <<{"same"}, {"period", "quarter", "month"}, {"last"}, {"year"}>>

\* A pattern of a finder: what a match of it is read as, and the ways to match,
\* the first of which that fits is taken.
Pattern(reads, ways) == [reads |-> reads, ways |-> ways]

YoY == Pattern("year_over_year",
  << <<{"yoy"}>>, <<{"year"}, {"over"}, {"year"}>>,
     <<Against, {"the"}>> \o SamePeriod, <<Against>> \o SamePeriod, SamePeriod,
     <<Against, {"last"}, {"year"}>> >>)

FiscalQuarter == Pattern("fiscal_quarter",
  << <<{"fiscal"}, QuarterWords, FourDigits>>, <<{"fiscal"}, QuarterWords>>,
     <<{"fy"}, FourDigits, QuarterWords>> >>)

Quarter == Pattern("quarter", << <<QuarterWords, FourDigits>>, <<QuarterWords>> >>)
RelativeQuarter == Pattern("relative_quarter", << <<ThisOrLast, {"quarter"}>> >>)
NamedMonth == Pattern("month", << <<DOMAIN MonthOf, FourDigits>> >>)
RelativeMonth == Pattern("relative_month", << <<ThisOrLast, {"month"}>> >>)
YearOnly == Pattern("year", << <<{"in", "for", "during", "of"}, FourDigits>> >>)
RelativeYear == Pattern("relative_year", << <<ThisOrLast, {"year"}>> >>)
TodayWord == Pattern("today", << <<{"today"}>> >>)
Yesterday == Pattern("yesterday", << <<{"yesterday"}>> >>)
RelativeWeek == Pattern("relative_week", << <<ThisOrLast, {"week"}>> >>)

Rolling == Pattern("rolling",
  LET window == <<{"rolling", "trailing", "moving"}, Digits, DOMAIN DaysIn \ {"year", "years"}>>
  IN  <<window \o <<{"average", "avg"}>>, window>>)

PastN == Pattern("rolling",
  << <<{"last", "past", "previous", "prior"}, Digits, DOMAIN DaysIn>> >>)

ToDate(unit, short) == << <<{short}>>, <<{unit}, {"to"}, {"date"}>> >>
YearToDate == Pattern("year_to_date", ToDate("year", "ytd"))
MonthToDate == Pattern("month_to_date", ToDate("month", "mtd"))

\* The words the patterns spell out; what \d{4} and \d{1,3} match is none of them.
SpelledOut ==
  QuarterWords \cup DOMAIN MonthOf \cup DOMAIN DaysIn \cup ThisOrLast \cup Against \cup
  {"yoy", "over", "the", "same", "period", "fiscal", "fy", "in", "for", "during", "of", "today",
   "yesterday", "rolling", "trailing", "moving", "past", "prior", "average", "avg", "ytd", "mtd",
   "to", "date"}

ASSUME NumbersAssumption == (FourDigits \cup Digits) \cap SpelledOut = {}

FaultyFinders ==
  << <<YoY>>, <<Quarter, RelativeQuarter>>, <<FiscalQuarter>>, <<NamedMonth, RelativeMonth>>,
     <<YearOnly, RelativeYear>>, <<TodayWord, Yesterday>>, <<RelativeWeek>>, <<Rolling>>,
     <<PastN>>, <<YearToDate, MonthToDate>> >>

\* The finders, in the order of parse.
Finders ==
  << <<YoY>>, <<FiscalQuarter>>, <<Quarter, RelativeQuarter>>, <<NamedMonth, RelativeMonth>>,
     <<YearOnly, RelativeYear>>, <<TodayWord, Yesterday>>, <<RelativeWeek>>, <<Rolling>>,
     <<PastN>>, <<YearToDate, MonthToDate>> >>

Fits(way, p) ==
  p + Len(way) - 1 <= Len(text) /\ \A i \in DOMAIN way : text[p + i - 1] \in way[i]

\* What re.finditer makes of the next word: a match may start there if the last
\* one has ended.
Scan(s, ways, p) ==
  LET fitting == {i \in DOMAIN ways : Fits(ways[i], p)}
      end     == p + Len(ways[Min(fitting)])
  IN  IF p < s.free \/ fitting = {} THEN s
      ELSE [free |-> end, found |-> Append(s.found, [at |-> p, to |-> end])]

\* re.finditer, from left to right.
Matches(pattern) ==
  LET scanned[p \in 0..Len(text)] ==
        IF p = 0 THEN [free |-> 1, found |-> << >>] ELSE Scan(scanned[p - 1], pattern.ways, p)
  IN  scanned[Len(text)].found

-----------------------------------------------------------------------------
(* What a match says.                                                      *)

FaultyNamed(words, numbers, default) ==
  LET at == {i \in DOMAIN words : words[i] \in numbers} IN
  IF at = {} THEN 0 ELSE ValueOf[words[Min(at)]]

\* The number a match names, or the default if it names none.
Named(words, numbers, default) ==
  LET at == {i \in DOMAIN words : words[i] \in numbers} IN
  IF at = {} THEN default ELSE ValueOf[words[Min(at)]]

QuarterOf(words) == CHOOSE q \in 1..4 : \E i \in DOMAIN words : words[i] = QuarterWord[q]

\* How many periods back.
Offset(words) == IF words[1] \in Back THEN 1 ELSE 0

RollingDays(words) == Named(words, Digits, 0) * DaysIn[words[3]]

\* The range of a fiscal quarter; the bounds of its year are worked out first,
\* and date() must know both.
FiscalRange(words) ==
  LET fy == Named(words, FourDigits, FiscalYearFor(fiscal, now))
      year == FiscalYearBounds(fiscal, fy)
      bounds == FiscalQuarterBounds(fiscal, fy, QuarterOf(words))
  IN  IF DayOf(year.start) = NoDay \/ DayOf(year.end) = NoDay THEN DateRange(NoDay, NoDay)
      ELSE DateRange(DayOf(bounds.start), DayOf(bounds.end))

\* The range of a match.
Read(reads, words) ==
  CASE reads = "year_over_year"   -> Months(now.year, 0, 12)
    [] reads = "fiscal_quarter"   -> FiscalRange(words)
    [] reads = "quarter"          -> Months(Named(words, FourDigits, now.year), 3 * QuarterOf(words) - 3, 3)
    [] reads = "relative_quarter" -> Months(now.year, 3 * ((now.month - 1) \div 3 - Offset(words)), 3)
    [] reads = "month"            -> Months(Named(words, FourDigits, 0), MonthOf[words[1]] - 1, 1)
    [] reads = "relative_month"   -> Months(now.year, now.month - 1 - Offset(words), 1)
    [] reads = "year"             -> Months(Named(words, FourDigits, 0), 0, 12)
    [] reads = "relative_year"    -> Months(now.year - Offset(words), 0, 12)
    [] reads = "today"            -> DateRange(Today, Today + 1)
    [] reads = "yesterday"        -> DateRange(Today - 1, Today)
    [] reads = "relative_week"    -> LET monday == Today - Weekday - 7 * Offset(words) IN DateRange(monday, monday + 7)
    [] reads = "rolling"          -> DateRange(Today - RollingDays(words), Today + 1)
    [] reads = "year_to_date"     -> DateRange(Day(now.year, 1, 1), Today + 1)
    [] reads = "month_to_date"    -> DateRange(Day(now.year, now.month, 1), Today + 1)

\* The year before, for a comparison; otherwise there is none.
Comparison(reads) ==
  IF reads = "year_over_year" THEN Months(now.year - 1, 0, 12) ELSE DateRange(NoDay, NoDay)

Candidate(reads, m) ==
  [at |-> m.at, to |-> m.to, reads |-> reads,
   range |-> Read(reads, SubSeq(text, m.at, m.to - 1)), comparison |-> Comparison(reads)]

\* The matches of a finder, pattern after pattern.
Found(patterns) ==
  FlattenSeq([i \in DOMAIN patterns |->
    LET ms == Matches(patterns[i]) IN [j \in DOMAIN ms |-> Candidate(patterns[i].reads, ms[j])]])

\* The days a match asks for, those of the year before too if it compares; and a
\* day that is no date was asked for.
DaysOf(c) ==
  {c.range.start, c.range.end}
    \cup IF c.reads = "year_over_year" THEN {c.comparison.start, c.comparison.end} ELSE {}
Raises(found) == \E i \in DOMAIN found : ~(DaysOf(found[i]) \subseteq 1..LastDay)

\* _overlaps
Overlaps(a, b) == ~(a.to <= b.at \/ b.to <= a.at)

-----------------------------------------------------------------------------

ParserInit ==
  /\ phase = "idle" /\ text = << >>
  /\ now \in Days /\ fiscal \in Calendars
  /\ finder = 0 /\ candidates = << >> /\ considered = 0 /\ chosen = {} /\ expressions = << >>

ParserIdle == phase = "idle"

\* parse is called with a question.
Parse ==
  /\ phase = "idle"
  /\ phase' = "finding" /\ text' \in Texts
  /\ UNCHANGED <<now, fiscal, finder, candidates, considered, chosen, expressions>>

\* The next finder runs; what date() raises leaves parse.
Find ==
  /\ phase = "finding" /\ finder < Len(Finders)
  /\ LET found == Found(Finders[finder + 1]) IN
     /\ phase' = IF Raises(found) THEN "raised" ELSE "finding"
     /\ candidates' = IF Raises(found) THEN candidates ELSE candidates \o found
  /\ finder' = finder + 1
  /\ UNCHANGED <<text, now, fiscal, considered, chosen, expressions>>

FindersDone ==
  /\ phase = "finding" /\ finder = Len(Finders)
  /\ phase' = "choosing"
  /\ UNCHANGED <<text, now, fiscal, finder, candidates, considered, chosen, expressions>>

FaultyConsider ==
  /\ phase = "choosing" /\ considered < Len(candidates)
  /\ considered' = considered + 1
  /\ chosen' = IF \E c \in chosen : candidates[considered + 1].at = candidates[c].at
                 THEN chosen ELSE chosen \cup {considered + 1}
  /\ UNCHANGED <<phase, text, now, fiscal, finder, candidates, expressions>>

\* The next match is taken unless it overlaps one taken before.
Consider ==
  /\ phase = "choosing" /\ considered < Len(candidates)
  /\ considered' = considered + 1
  /\ chosen' = IF \E c \in chosen : Overlaps(candidates[considered + 1], candidates[c])
                 THEN chosen ELSE chosen \cup {considered + 1}
  /\ UNCHANGED <<phase, text, now, fiscal, finder, candidates, expressions>>

\* The matches taken, by where they start: no two start at the same word.
ByStart ==
  LET rank(c) == Cardinality({d \in chosen : candidates[d].at <= candidates[c].at})
  IN  [n \in 1..Cardinality(chosen) |-> candidates[CHOOSE c \in chosen : rank(c) = n]]

\* The answer is sorted.
Answer ==
  /\ phase = "choosing" /\ considered = Len(candidates)
  /\ phase' = "answered"
  /\ expressions' = ByStart
  /\ UNCHANGED <<text, now, fiscal, finder, candidates, considered, chosen>>

ParserNext == Parse \/ Find \/ FindersDone \/ Consider \/ Answer

ParserSpec == ParserInit /\ [][ParserNext]_parserVars

-----------------------------------------------------------------------------

\* No word of the question is read twice, and nothing that was found is dropped
\* but for a match found before it that has words of it (parser.py:98-104).
ReadOnce ==
  /\ \A a, b \in chosen : a # b => ~Overlaps(candidates[a], candidates[b])
  /\ \A n \in 1..considered :
       n \in chosen \/ \E c \in chosen : c < n /\ Overlaps(candidates[n], candidates[c])

Covers(a, b) == a.at <= b.at /\ b.to <= a.to

\* "prefer earlier (more specific) finders" (parser.py:98): nothing in the answer
\* is a part of a longer phrase some finder recognises, so that the quarter of
\* "fiscal q3" is no calendar quarter and "vs last year" no last year; and the
\* answer is in the order of the text.
MostSpecificWins ==
  /\ \A i \in DOMAIN expressions, n \in DOMAIN candidates :
       Covers(candidates[n], expressions[i]) =>
         candidates[n].to - candidates[n].at = expressions[i].to - expressions[i].at
  /\ \A i, j \in DOMAIN expressions : i < j => expressions[i].to <= expressions[j].at

\* The years that have both neighbours.
MiddleYears == 2..9998

\* One range ends where the other starts, and the other has the day.
MeetBefore(last, this, day) ==
  last.start < last.end /\ last.end = this.start /\ this.start <= day /\ day < this.end

\* On any date the last month, quarter, year or week ends where the current one
\* starts, and the current one contains the date, at the turn of a year too; only
\* the first and the last year date() knows have no neighbour (parser.py:190-205,
\* 235-248, 269-274, 305-310).
RelativePeriodsMeet ==
  now.year \in MiddleYears =>
    \A reads \in {"relative_month", "relative_quarter", "relative_year", "relative_week"},
       back \in Back, same \in ThisOrLast \ Back :
      MeetBefore(Read(reads, <<back>>), Read(reads, <<same>>), Today)

\* The date of a question lies in its fiscal year and, where the quarters cover
\* the year, in one of its quarters (fiscal.py:31-73).
FiscalRight == YearContains(fiscal, now) /\ QuarterContains(fiscal, now)

\* The years with 999 years before them, as far back as three digits ask for, and
\* one after them.
AskedYears == 1000..9998

\* The years, and the year with a fiscal quarter, whose dates are not all known.
EdgeYear(w) == w \in FourDigits /\ ValueOf[w] \in {0, 9999}
FirstYear(w) == w \in FourDigits /\ ValueOf[w] = 1
FiscalWord(w) == w \in {"fiscal", "fy"}
AtTheEdge(words) ==
  \E i \in DOMAIN words :
    \/ EdgeYear(words[i])
    \/ FirstYear(words[i]) /\ \E j \in DOMAIN words : FiscalWord(words[j])

\* Asked in such a year, a question fails on a date only if it names the year 0, the
\* year 9999, whose end no date says, or a fiscal quarter of year 1, which may start
\* in year 0; every other question gets its ranges (parser.py:150-280,
\* fiscal.py:47-73).
RaisesOnlyAtTheEdge == phase = "raised" /\ now.year \in AskedYears => AtTheEdge(text)
================================================================================
