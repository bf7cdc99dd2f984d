-------------------------------- MODULE MCParts --------------------------------
(***************************************************************************)
(* The parts that run on their own, one in each behaviour: the composer,   *)
(* the questions put to the agents, the temporal parser, the mirror of     *)
(* stock quantities, the baseline, the insight detector and the search for *)
(* join paths.                                                             *)
(***************************************************************************)
EXTENDS MCComposer, MCQuestion, MCInsight, TemporalParser, QuantMirror, MacSql, JoinPaths

VARIABLE part   \* the one that runs

PartsInit ==
  /\ part \in {"composer", "question", "parser", "mirror", "baseline", "insight", "paths"}
  /\ ComposerInit /\ QuestionInit /\ ParserInit /\ MirrorInit /\ MacInit /\ InsightInit /\ JoinInit
  /\ part # "parser" => now = (CHOOSE d \in Days : TRUE) /\ fiscal = (CHOOSE c \in Calendars : TRUE)

PartsNext ==
  /\ \/ /\ part = "composer" /\ ComposerNext
        /\ UNCHANGED <<questionVars, parserVars, mirrorVars, macVars, insightVars, joinVars>>
     \/ /\ part = "question" /\ QuestionNext
        /\ UNCHANGED <<composerVars, parserVars, mirrorVars, macVars, insightVars, joinVars>>
     \/ /\ part = "parser" /\ ParserNext
        /\ UNCHANGED <<composerVars, questionVars, mirrorVars, macVars, insightVars, joinVars>>
     \/ /\ part = "mirror" /\ MirrorNext
        /\ UNCHANGED <<composerVars, questionVars, parserVars, macVars, insightVars, joinVars>>
     \/ /\ part = "baseline" /\ MacNext
        /\ UNCHANGED <<composerVars, questionVars, parserVars, mirrorVars, insightVars, joinVars>>
     \/ /\ part = "insight" /\ InsightNext
        /\ UNCHANGED <<composerVars, questionVars, parserVars, mirrorVars, macVars, joinVars>>
     \/ /\ part = "paths" /\ JoinNext
        /\ UNCHANGED <<composerVars, questionVars, parserVars, mirrorVars, macVars, insightVars>>
  /\ UNCHANGED part

-----------------------------------------------------------------------------
(* Questions of up to two words of a vocabulary with a word of every pattern,
   of three of a smaller one, and longer ones.  The dates are the turns of a
   year, a leap day and a day in a quarter. *)

Fours == {"0000", "0001", "2024", "2025", "9998", "9999"}
Ones == {"30", "6"}
Says == [w \in Fours \cup Ones |->
  CASE w = "0000" -> 0 [] w = "0001" -> 1 [] w = "2024" -> 2024 [] w = "2025" -> 2025
    [] w = "9998" -> 9998 [] w = "9999" -> 9999 [] w = "30" -> 30 [] w = "6" -> 6]

Vocabulary == Fours \cup
  {"fiscal", "q1", "q4", "last", "this", "year", "quarter", "month", "week", "in", "dec", "feb",
   "today", "yesterday", "yoy", "ytd", "mtd", "other"}
Core == {"fiscal", "q1", "2025", "9999", "last", "year", "quarter", "of"}

Longer ==
  {<<"vs", "the", "same", "quarter", "last", "year">>,
   <<"same", "month", "last", "year", "over", "year">>,
   <<"compared_to", "last", "year", "in", "2024">>,
   <<"fiscal", "q4", "0001">>, <<"fiscal", "q1", "0001">>, <<"fy", "9999", "q2">>, <<"fy", "9998", "q4">>,
   <<"fiscal", "q1", "2025", "q4", "2024">>, <<"in", "2025", "q1", "2024">>,
   <<"rolling", "30", "days", "average">>, <<"trailing", "6", "quarters", "other", "today">>,
   <<"rolling", "6", "years">>, <<"previous", "6", "years", "to", "date">>,
   <<"this", "year", "to", "date">>, <<"last", "month", "to", "date">>,
   <<"year", "over", "year", "over", "year">>, <<"dec", "9998", "vs", "last", "year">>}

Asked == [1..2 -> Vocabulary] \cup [1..1 -> Vocabulary] \cup [1..3 -> Core] \cup Longer

Dates == {On(2026, 1, 1), On(2024, 2, 29), On(2025, 12, 31), On(2026, 7, 10)}
FiscalCalendars == {[month |-> 1, day |-> 1], [month |-> 4, day |-> 1], [month |-> 7, day |-> 31]}

-----------------------------------------------------------------------------
(* Searches with no, few and more than six hits, and a selector that names
   known and unknown tables, none it could use, or no list. *)

KnownTables == {"t1", "t2", "t3"}
Found7 == <<"t1", "t2", "t3", "t1", "t2", "t3", "t1">>
SearchHits == {<< >>, <<"t1", "t2">>, Found7}
ModelPicks == [list : {TRUE}, names : {<< >>, <<"t2", "unknown">>, <<"unknown">>}]
                \cup [list : {FALSE}, names : {<< >>}]

-----------------------------------------------------------------------------
(* A schema with two keys between the same tables, a cycle of five tables, a
   key of a table to itself and a table nothing leads to. *)

SchemaTables ==
  {"account_move", "res_partner", "factonlinesales", "res_company", "dimproduct", "dimdate"}
SchemaKeys ==
  LET Key(a, b) == [from |-> a, to |-> b] IN
  <<Key("account_move", "res_partner"), Key("account_move", "res_partner"),
    Key("res_partner", "factonlinesales"), Key("factonlinesales", "res_company"),
    Key("res_company", "dimproduct"), Key("dimproduct", "account_move"),
    Key("res_company", "res_company")>>
===============================================================================
