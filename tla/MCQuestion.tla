---- MODULE MCQuestion ----
(* An instance of Question: two domains with agents, as in the tests' mapping,
   and compliance, which has none; texts with keywords of none, one or both
   domains, a term with three senses, one with two and one with a single one. *)
EXTENDS Question

AllDomains == {"demand", "finance", "compliance"}
AllTables == {"factonlinesales", "dimproduct", "account_move"}

Owned == [d \in AllDomains |->
  CASE d = "demand" -> {"factonlinesales"} [] d = "finance" -> {"account_move"} [] OTHER -> {}]

Listed == <<"demand", "finance", "compliance">>

AllTerms == {"shipping", "value", "stock"}
Meanings == [t \in AllTerms |->
  CASE t = "shipping" -> <<{"demand"}, {"finance"}, {}>>
    [] t = "value"    -> <<{"finance"}, {"compliance"}>>
    [] t = "stock"    -> <<{"demand"}>>]

Counted(n, m) == [d \in AllDomains |-> CASE d = "demand" -> n [] d = "finance" -> m [] OTHER -> 1]
AllVotes == {Counted(0, 0), Counted(1, 0), Counted(1, 1), Counted(1, 2)}

AllQuestions ==
  [votes : {Counted(0, 0), Counted(1, 2)},
   terms : {{}, {"stock"}, {"shipping"}, {"value"}, {"shipping", "value"}},
   cues : {{}, {"comparison"}, {"pronoun"}, {"pronoun", "long"}, {"new topic", "pronoun"}}]

AllPasts ==
  [turns : {<< >>, << <<"demand">>, << >> >>, << <<"demand">>, <<"finance", "demand">> >>},
   senses : {{}, {<<"shipping", 2>>}, {<<"shipping", 2>>, <<"value", 1>>}}]

Objects ==
  [kind : {"object"}, votes : {Counted(0, 0)}, intent : {"supply_chain_question", "out_of_scope", "other"},
   domains : {<< >>, <<"demand">>, <<"finance", "unknown", "demand", "finance">>, <<"compliance">>},
   subs : {<< >>, <<"demand", "unknown", "demand">>}]

AllRouterReplies ==
  Objects \cup [kind : {"failed", "shape"}, votes : {Counted(0, 0)}]
          \cup [kind : {"text"}, votes : {Counted(0, 0), Counted(1, 1)}]

\* "Compare internet vs reseller channel sales": its tables and the two CTEs.
DemandExamples == {<<"factonlinesales", "dimproduct", "internet", "reseller">>}

AllReplies ==
  {Reply("failed", << >>), Reply("fenced", << <<"account_move">>, <<"dimproduct">> >>)}
    \cup {Reply("bare", <<e>>) : e \in DemandExamples}
====
