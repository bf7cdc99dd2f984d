-------------------------------- MODULE Question --------------------------------
(***************************************************************************)
(* How a question becomes the questions put to the domain agents: the      *)
(* router (backend/app/agents/router.py), the reference detector           *)
(* (backend/app/conversation/references.py), the ambiguity scorer and      *)
(* resolver (backend/app/ambiguity/) and the nodes classify, route and     *)
(* generate of the orchestrator that call them, for one query.             *)
(* Orchestrator lets the router decide anything and the resolver ask back  *)
(* at will; here is what they do.                                          *)
(*                                                                         *)
(* A text, the question or a reply, is abstracted to how many keywords of  *)
(* each domain are in it.  Scores are in hundredths.                       *)
(***************************************************************************)
EXTENDS Specialist, FiniteSets

CONSTANTS
  DomainOrder,    \* the domains as the mapping lists them
  Agents,         \* the domains that have an agent
  Terms,          \* the ambiguous terms of the glossary, ...
  SensesOf,       \* ... and for each its senses: the domains each is about
  Questions,      \* [votes, terms, cues]: keywords, ambiguous terms, and cues
  Pasts,          \* [turns, senses]: the domains of the turns before, and what
                  \*   senses the summary of the conversation mentions
  RouterReplies,  \* what a call of the router's model may come to
  AgentReplies,   \* what a call of an agent's model may come to
  Examples        \* the statements of the agents' few-shot examples

Supply == "supply_chain_question"
Clarify == "clarification_needed"
Intents == {Supply, "out_of_scope", Clarify}
Cues == {"comparison", "refinement", "follow-up", "pronoun", "long", "new topic"}
MaxVotes == 2
Votes == [Domains -> 0..MaxVotes]
Threshold == 55   \* _CLARIFY_THRESHOLD

\* A sub-query: its domain, and where its words come from.
SubQuery(d, says) == [domain |-> d, says |-> says]

\* "failed": the call raised; "text": no JSON, but text with keywords; "shape":
\* JSON of another shape; "object": what was asked for, where a domain the
\* program does not know is "unknown".
ASSUME QuestionAssumption ==
  /\ DomainOrder \in Seq(Domains) /\ ToSet(DomainOrder) = Domains /\ IsInjective(DomainOrder)
  /\ Agents \subseteq Domains
  /\ SensesOf \in [Terms -> Seq(SUBSET Domains)]
  /\ Questions \subseteq [votes : Votes, terms : SUBSET Terms, cues : SUBSET Cues]
  \* The domains of a turn are those this pipeline gave it, each once.
  /\ \A p \in Pasts : p.turns \in Seq({turn \in Seq(Domains) : IsInjective(turn)})
  /\ \A r \in RouterReplies : r.kind \in {"failed", "text", "shape", "object"} /\ r.votes \in Votes
  /\ \A r \in RouterReplies : r.kind = "object" =>
       r.domains \in Seq(Domains \cup {"unknown"}) /\ r.subs \in Seq(Domains \cup {"unknown"})
  /\ \A a \in AgentReplies : a.form \in Forms
  /\ \A e \in Examples : Reply("bare", <<e>>) \in AgentReplies

VARIABLES
  stage,     \* "idle", "asked", "classified", "routed", "answered" or "responded"
  question, past,
  routed,    \* the reply of the router's model
  decision,  \* the RouterDecision the pipeline goes on with
  carried,   \* whether it was taken over from the turn before
  intent,    \* the intent after the resolver
  subs,      \* the sub-queries put to the agents
  answers    \* their statements

questionVars == <<stage, question, past, routed, decision, carried, intent, subs, answers>>

-----------------------------------------------------------------------------
(* The router.                                                             *)

Decision(i, domains, queries) == [intent |-> i, domains |-> domains, queries |-> queries]
NoDecision == Decision(Clarify, << >>, << >>)

\* The items that are wanted, in order.
Among(items, wanted) ==
  LET kept[n \in 0..Len(items)] ==
        IF n = 0 THEN << >>
        ELSE IF items[n] \in wanted THEN Append(kept[n - 1], items[n]) ELSE kept[n - 1]
  IN  kept[Len(items)]

\* Items behind others, each that is not there yet.
Once(before, items) ==
  LET kept[n \in 0..Len(items)] ==
        IF n = 0 THEN before
        ELSE IF items[n] \in ToSet(kept[n - 1]) THEN kept[n - 1] ELSE Append(kept[n - 1], items[n])
  IN  kept[Len(items)]

\* The domains with keywords in a text, those with more of them first.
ByVotes(votes) ==
  LET With(n) == {d \in Domains \ CrossCutting : votes[d] = n}
      ranked[n \in 0..MaxVotes] ==
        IF n = 0 THEN << >>
        ELSE Once(ranked[n - 1], Among(DomainOrder, With(MaxVotes + 1 - n)))
  IN  ranked[MaxVotes]

\* _keyword_fallback
KeywordFallback(votes, says) ==
  LET domains == ByVotes(votes) IN
  IF domains = << >> THEN NoDecision
  ELSE Decision(Supply, domains, [i \in DOMAIN domains |-> SubQuery(domains[i], says)])

KnownDomains(domains) == Among(domains, Domains)

\* The object of a reply: an intent it may not name is a supply-chain question,
\* domains are kept once, sub-queries as they come.
FromObject(reply) ==
  Decision(IF reply.intent \in Intents THEN reply.intent ELSE Supply,
           Once(<< >>, KnownDomains(reply.domains)),
           [i \in DOMAIN KnownDomains(reply.subs) |-> SubQuery(KnownDomains(reply.subs)[i], "rewrite")])

FaultyRouterDecision(q, reply) ==
  CASE reply.kind = "object" -> FromObject(reply)
    [] reply.kind = "text"   -> KeywordFallback(reply.votes, "reply")
    [] OTHER                 -> KeywordFallback(q.votes, "reply")

\* route and _parse: what is no JSON is classified by the keywords of the reply,
\* and every exception by those of the question.
RouterDecision(q, reply) ==
  CASE reply.kind = "object" -> FromObject(reply)
    [] reply.kind = "text"   -> KeywordFallback(reply.votes, "reply")
    [] OTHER                 -> KeywordFallback(q.votes, "question")

-----------------------------------------------------------------------------
(* The reference detector.                                                 *)

\* classify: which kind of reference it is makes no difference, and the openers
\* of a new topic are looked for last.
RefersBack(q, p) ==
  /\ p.turns # << >>
  /\ \/ q.cues \cap {"comparison", "refinement", "follow-up"} # {}
     \/ "pronoun" \in q.cues /\ "long" \notin q.cues

CarriesOver(q, p, d) == RefersBack(q, p) /\ d.intent # Supply

\* The domains of the last turn, asked the question itself.
CarryOver(p) ==
  LET domains == Last(p.turns) IN
  Decision(Supply, domains, [i \in DOMAIN domains |-> SubQuery(domains[i], "question")])

-----------------------------------------------------------------------------
(* The resolver.                                                           *)

Senses(t) == DOMAIN SensesOf[t]
InferredDomains(t) == UNION {SensesOf[t][s] : s \in Senses(t)}

AtMost(n) == IF n > 100 THEN 100 ELSE n

FaultyScore(t, domains) ==
  LET overlap == InferredDomains(t) \cap domains IN
  CASE Len(SensesOf[t]) <= 1        -> 0
    [] domains = {}                 -> AtMost(50 + 10 * Len(SensesOf[t]))
    [] overlap = {}                 -> 15
    [] Cardinality(overlap) = 1     -> 15
    [] OTHER                        -> AtMost(30 + 10 * Cardinality(overlap))

\* _score_one: no routed domain and no sense among the routed ones score alike.
Score(t, domains) ==
  LET n == Len(SensesOf[t])
      overlap == Cardinality(InferredDomains(t) \cap domains)
  IN  CASE n <= 1                     -> 0
        [] n > 1 /\ overlap = 0       -> AtMost(50 + 10 * n)
        [] n > 1 /\ overlap = 1       -> 15
        [] n > 1 /\ overlap > 1       -> AtMost(30 + 10 * overlap)

\* Some sense of every term is mentioned in the conversation.
HistoryTells(q, p) == \A t \in q.terms : \E s \in Senses(t) : <<t, s>> \in p.senses

\* resolve: whether the user is asked back.
AsksBack(q, p, domains) ==
  /\ \E t \in q.terms : Score(t, domains) >= Threshold
  /\ ~HistoryTells(q, p)

-----------------------------------------------------------------------------
(* The pipeline.                                                           *)

QuestionInit ==
  /\ stage = "idle"
  /\ question = [votes |-> [d \in Domains |-> 0], terms |-> {}, cues |-> {}]
  /\ past = [turns |-> << >>, senses |-> {}]
  /\ routed = [kind |-> "failed", votes |-> [d \in Domains |-> 0]]
  /\ decision = NoDecision /\ carried = FALSE /\ intent = Clarify
  /\ subs = << >> /\ answers = << >>

\* run
Ask ==
  /\ stage = "idle"
  /\ stage' = "asked" /\ question' \in Questions /\ past' \in Pasts
  /\ UNCHANGED <<routed, decision, carried, intent, subs, answers>>

\* _classify_node up to the resolver: the router decides, and a question that
\* refers back and was not placed is given the domains of the turn before.
Classify ==
  /\ stage = "asked"
  /\ \E reply \in RouterReplies :
       LET d == RouterDecision(question, reply)
           carries == CarriesOver(question, past, d)
       IN  /\ routed' = reply
           /\ carried' = carries
           /\ decision' = IF carries THEN CarryOver(past) ELSE d
  /\ stage' = "classified"
  /\ UNCHANGED <<question, past, intent, subs, answers>>

\* The rest of _classify_node and _after_classify.
Resolve ==
  /\ stage = "classified"
  /\ intent' = IF AsksBack(question, past, ToSet(decision.domains)) THEN Clarify
               ELSE decision.intent
  /\ stage' = IF intent' = Supply /\ decision.domains # << >> THEN "routed" ELSE "responded"
  /\ UNCHANGED <<question, past, routed, decision, carried, subs, answers>>

\* _route_node: the last sub-query the router gave a domain, or the question.
SubQueryFor(d) ==
  LET own == {i \in DOMAIN decision.queries : decision.queries[i].domain = d} IN
  IF own = {} THEN SubQuery(d, "question") ELSE decision.queries[Max(own)]

Route ==
  /\ stage = "routed" /\ subs = << >>
  /\ subs' = [i \in DOMAIN decision.domains |-> SubQueryFor(decision.domains[i])]
  /\ UNCHANGED <<stage, question, past, routed, decision, carried, intent, answers>>

\* What the next sub-query comes to: without an agent, no statement.
Answers(d) ==
  IF d \in Agents THEN {[reply |-> r, sql |-> AgentSql(d, r)] : r \in AgentReplies}
  ELSE {[reply |-> Reply("failed", << >>), sql |-> NoStatement]}

\* _generate_node: one agent after the other.
Generate ==
  /\ stage = "routed" /\ Len(answers) < Len(subs)
  /\ \E answer \in Answers(subs[Len(answers) + 1].domain) : answers' = Append(answers, answer)
  /\ stage' = IF Len(answers') = Len(subs) THEN "answered" ELSE "routed"
  /\ UNCHANGED <<question, past, routed, decision, carried, intent, subs>>

QuestionNext == Ask \/ Classify \/ Resolve \/ Route \/ Generate

QuestionSpec == QuestionInit /\ [][QuestionNext]_questionVars

-----------------------------------------------------------------------------

\* Every domain the pipeline goes on with is asked once, in order, and what it
\* is asked is the user's question or the router's rewrite of it.  The keyword
\* fallback keeps to this when the call fails; only when the model answered with
\* text that is no JSON are the agents sent that text, and then only if nothing
\* was carried over (router.py:123-151, 184-217, orchestrator.py:204-221, 278-293).
AsksTheQuestion ==
  subs # << >> =>
    /\ [i \in DOMAIN subs |-> subs[i].domain] = decision.domains
    /\ IsInjective(decision.domains)
    /\ \A i \in DOMAIN subs :
         \/ subs[i].says = "question"
         \/ subs[i].says = "rewrite" /\ routed.kind = "object" /\ ~carried
         \/ subs[i].says = "reply" /\ routed.kind = "text" /\ ~carried

Ambiguous == {t \in question.terms : Len(SensesOf[t]) > 1}
RoutedFor(t) == InferredDomains(t) \cap ToSet(decision.domains)

\* The user is asked back when a term has several senses, the domains chosen have
\* none of them and the conversation does not settle every term; and the resolver
\* asks nothing when each such term has exactly one domain among those chosen,
\* also when they were carried over (scorer.py:80-115, resolver.py:52-98).
AsksWhenUnsure ==
  stage \notin {"idle", "asked", "classified"} =>
    /\ (\E t \in Ambiguous : RoutedFor(t) = {}) /\ ~HistoryTells(question, past)
         => stage = "responded" /\ intent = Clarify
    /\ (\A t \in Ambiguous : Cardinality(RoutedFor(t)) = 1) => intent = decision.intent

-----------------------------------------------------------------------------
(* What the repository says and the code does otherwise.                   *)

\* The agents' own examples (few_shots/demand.yaml:48, 91) are statements an agent
\* may return: an agent whose model answers with one returns it.  But the names
\* of CTEs count as tables, and none is visible (specialists.py:128-141).
ExamplesAccepted ==
  \A i \in DOMAIN answers :
    answers[i].reply.form = "bare" /\ answers[i].reply.parts[1] \in Examples
      => answers[i].sql # NoStatement
================================================================================
