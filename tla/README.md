# Verification of the NL-to-SQL assistant

TLA+ modules, TLC configurations and TLAPS proofs for the supply-chain
question-answering system of this repository: a chat page sends a question in
plain language to a gateway, a graph of language-model agents turns it into SQL,
and the rows come back with a chart. Source paths below are relative to
`backend/app/` unless they start with `frontend/`, `scripts/` or `docs/`.

* [1 The system](#1-the-system)
* [2 Modules](#2-modules)
* [3 Runs](#3-runs)
* [4 Bounds](#4-bounds)
* [5 Fairness](#5-fairness)
* [6 Where the repository disagrees with itself](#6-where-the-repository-disagrees-with-itself)
* [7 What is proved](#7-what-is-proved)
* [8 What is not modelled](#8-what-is-not-modelled)
* [9 Plan](#9-plan)

To check a run: `tlc -config MCParts.cfg MCParts`. To check the proofs:
`tlapm ConversationMemoryProofs.tla`, and the same for `OrchestratorProofs`,
`GatewayProofs`, `LLMProviderProofs`, `ComposerProofs`, `QuestionProofs`,
`PartsProofs` and `Recursion`.

## 1 The system

| component | state | operations | interacts with |
|---|---|---|---|
| Chat page (`frontend/app/page.tsx`, `components/ChatInput.tsx`) | per tab: session id, turns, loading | send a question, start a new session, show the reply | proxy |
| Proxy route (`frontend/app/api/ask/route.ts`) | none; one fetch with a timeout of 180 s | forward, give up | page, gateway |
| Gateway (`api/main.py`) | `_sessions`: session id → orchestrator and token tracker; in the process only | `ask`: one question, or the steps of a plan one after the other; execute the SQL; select a chart | proxy, orchestrator, Postgres |
| Token tracker (`llm/token_tracker.py`) | counts per task, one tracker per session, never reset | `record`, `snapshot` | router, agents, chart selector; gateway |
| Orchestrator (`agents/orchestrator.py`) | per query an `AgentState`; shared: conversation memory, message log | LangGraph nodes classify → route → generate → compose → comply → validate (→ generate again) → respond, then the turn is recorded | everything below |
| Conversation memory (`agents/memory.py`) | `OrderedDict` of sessions; each with recent turns and a summary | `get`, `record_turn`, `active_window`, `reset`; compression and eviction inside | orchestrator |
| Message log (`agents/messages.py`) | a list that only grows | `append`, `by_correlation` | orchestrator, compliance |
| Router, specialists, ambiguity resolver, reference detector (`agents/router.py`, `agents/specialists.py`, `ambiguity/`, `conversation/references.py`) | none | one reply per call | LLM provider, glossary, schema |
| Temporal parser (`temporal/`) | none | `parse`: the dates a question names | specialists' prompts |
| Insight detector (`agents/insight_detector.py`) | none | look for groups that fell | gateway |
| Composer and join graph (`composer/composer.py`, `schema/joins.py`) | the graph, built once | `compose` | orchestrator |
| Compliance, validator (`agents/compliance.py`, `validator/`) | none | inject row filters; syntax, execution and business checks | sqlglot, Postgres |
| LLM provider (`llm/provider.py`) | HTTP client | `generate` with retries and a fallback model | hosted models, Ollama |
| Legacy API (`main.py`) | one orchestrator for all users | `query`, in the session `"anonymous"` by default | orchestrator |
| MAC-SQL baseline (`baselines/mac_sql.py`) | none | `predict`: select, decompose, refine | LLM provider, search, executor |
| Mirror of quantities (`db/redis_adapter.py`) | in Redis: a value per product, an index per warehouse | `set_quant`, `list_warehouse_quants`, `reset_warehouse` | Redis |
| Schema metadata, evaluation metrics, Postgres and DuckDB adapters, views and export, scripts | see section 8 | | |

Everything runs on one event loop, so the code between two `await`s is one
step; what makes the system hard is what happens at the awaits:

* **Overlapping queries of one session.** The proxy gives up after 180 s while
  the gateway goes on, and the page lets the user ask again; the legacy API puts
  all users in one session. The queries share the memory, the message log and
  the tracker, and the prior turns are read after the router's await.
* **Self-correction.** validate sends a query back to generate; the counter, the
  rows, the issues and the SQL of different attempts sit in one state.
* **Failures in the middle.** A model call may fail in five ways; an agent's
  exception becomes an empty output, a parse error an empty statement, sqlglot's
  TokenError and a temporal expression nobody can build an exception out of the
  graph.
* **Restarts.** Sessions, histories and trackers are lost; the tab keeps its
  session id and its turns.
* **Limits.** A window of turns, a table of at most 1024 sessions, a number of
  attempts, of requests.
* **Two commands that belong together.** The Redis mirror writes a value, then
  its index entry, and resets by the index; each command may fail, and other
  clients come in between.
* **Rules tried in order.** The temporal parser's ten finders, the router's
  fallbacks, the cues of a reference: which rule wins depends on an order that
  is nowhere stated, and the edges (month 12, year 0, two senses, a CTE) are
  rarely met.

What makes each part correct:

* *Memory*: nothing recorded in a session is lost or repeated while the session
  is held; sessions are dropped whole, the least recently used first, never the
  one in use.
* *Orchestrator*: an answer without an error is the validated, filtered SQL of
  its last attempt, with its own rows; every query ends; each leaves its audit
  trail and at most one turn, the turn of its answer; a follow-up is answered on
  the domains of a query that really came before it in its session.
* *Gateway and page*: no model call is lost or counted twice; a page shows the
  answers to its own questions; a reply, once shown, stays; the input comes back.
* *Provider*: the fallback is asked, or the call given up, only when nothing is
  left to try; the call ends, after a known number of requests and pauses.
* *Composer*: the join key is a foreign key of a table of every part, and no SELECT
  whose columns are known lacks it; no column an agent named is missing, and it is
  known exactly when two columns of the answer have the same name.
* *Router and resolver*: the agents are asked what the user asked; the user is
  asked back when a term has several senses, the chosen domains have none of
  them and the conversation does not settle it.
* *Temporal parser*: no word is read twice; the more specific pattern wins;
  periods that follow each other meet; only years at the edge raise.
* *Mirror*: value and index agree, except where a failure or an overlap has
  torn them apart.
* *Baseline, join paths*: the answer is the one a short reference definition
  gives. *Insight detector*: so it is where the columns a period is made of tell the
  time and are each written in its order.

## 2 Modules

| module | models | kind |
|---|---|---|
| `SessionLog` | what the conversation memory promises: a log for each session held | abstract specification |
| `ConversationMemory` | `agents/memory.py` | detailed specification, implements `SessionLog` |
| `SessionUse` | the same with a history variable, the rank of each session's last use | specification, checked as it is |
| `ConversationMemoryProofs` | | proofs |
| `Orchestrator` | `agents/orchestrator.py`, `state.py`, `messages.py` and the outcomes of the agents, composer, compliance and validator; uses `ConversationMemory` as its memory | specification |
| `MCOrchestrator` | instances of it | model for TLC |
| `OrchestratorProofs` | | proofs |
| `Schema` | the domains and tables the parts share | constants |
| `Composer`, `MCComposer` | `composer/composer.py` and `outgoing_columns` of `schema/joins.py` | specification, model |
| `ComposerProofs` | | proofs |
| `LLMCall` | what a call of the provider promises its callers | abstract specification |
| `LLMProvider`, `MCLLMProvider` | `llm/provider.py`, `llm/config.py` | detailed specification, implements `LLMCall`; model |
| `LLMProviderProofs` | | proofs |
| `Gateway` | `frontend/app/page.tsx`, `ChatInput.tsx`, `api/ask/route.ts`, `api/main.py`, `llm/token_tracker.py` | specification |
| `GatewayProofs` | | proofs |
| `Specialist` | `agents/specialists.py` (reply to statement), the visibility of tables of `schema/domains.py` | operators |
| `Question`, `MCQuestion` | `agents/router.py`, `ambiguity/`, `conversation/references.py`, the nodes of the orchestrator that call them; uses `Specialist` | specification, model |
| `QuestionProofs` | | proofs |
| `FiscalCalendar` | `temporal/fiscal.py` | operators |
| `TemporalParser` | `temporal/parser.py`, `expressions.py`; uses `FiscalCalendar` | specification |
| `QuantMirror` | the quantities of `db/redis_adapter.py` | specification |
| `MacSql` | `baselines/mac_sql.py` | specification |
| `InsightDetector`, `MCInsight` | `agents/insight_detector.py` | specification, model |
| `JoinPaths` | the searches of `schema/joins.py` | specification |
| `MCParts` | instances of the last six and of `Composer` and `Question`: seven parts, one running in each behaviour | model for TLC |
| `PartsProofs` | | proofs about the last six |
| `Recursion` | induction and recursion over numbers, least and greatest elements | lemmas the proofs share |

Definitions whose name starts with `Faulty` are mutations: plausible slips of
the code that the properties are known to notice. No specification uses them.

**ConversationMemory.** `keys` is the order of the `OrderedDict`, `session` the
sessions in it. Every method holds the lock from its first read to its last
write, so each is one action: `Get`, `RecordTurn` (append, compress, move to the
end, evict) and `Reset`; `ActiveWindow` is an operator because it changes
nothing, not even the recency of the session. `LastN` and `AllButLastN` are the
Python slices `[-n:]` and `[:-n]`, with their behaviour at 0. A line of the
summary is the turn it was written from, so that what compression loses or
repeats can be seen.

**Orchestrator.** Each request has a place in the graph (`pc`) and an
`AgentState` (`st`); `log`, `keys` and `session` are shared. One action is the
code between two awaits: `Submit` and `Classified` are the two halves of
classify around the router's reply, with the carry-over of the last turn's
domains read in the second half; `Route`; `Generate`, then one `NoAnswer` or
`AgentReplies` per sub-query; `Compose`; `Comply`; one action for each verdict
of validate (`ValidateUnread`, `RejectSyntax`, `RejectExecution`, `Accept`),
each followed by the decision of `_after_validate`; `Respond`; `Record`, the
turn that `run` records after the graph has ended; `TemporalRaises` and
`ParserRaises`, the exceptions nothing catches. SQL is abstracted to what the
pipeline can tell: missing, one query, a statement that changes data, rejected
with a ParseError, rejected with a TokenError. The rows are the attempt whose
SQL returned them, so that rows of another attempt are noticed.

**Composer.** Agents reply in any order with a fragment that is missing,
unreadable, a SELECT with known columns, with or without a star, or a UNION;
`Composition` is `compose`. Only names are modelled: an item has the column it
shows and the name it gets, and the name made for a column that is there already
(`Prefixed`) is itself one an agent may have chosen.

**LLMProvider.** One call: `Generate`, `NoKey` or `Dispatch`, then `Usable`,
`Unusable`, or `Refused` and `Sleep` in turn; `NextStage` is the `except` clause
of `generate`. The configuration is chosen in the initial state. `posts` counts the
requests of each stage and `slept` the half seconds of the pauses between them. How
long a request takes is not modelled: the client's `timeout=60` limits each of
connecting, sending, waiting for a chunk of the reply and waiting for a connection,
and not their sum.

**Gateway.** `Send`, `NewSession`, `Deliver` and `GiveUp` are the page and the
proxy; `Arrive`, `LLMReplies`, `RunEnds`, `RowsFetched`, `VizSelected` the
handler; `Restart` the end of the process. A run of the orchestrator is here a
number of model calls and a result, whatever `Orchestrator` says of it.

**Question, Specialist.** One query without the others: `Orchestrator` lets the
router decide anything and the resolver ask back at will, and here is what they
do. `RouterDecision` is what is kept of the router's reply, whether it is an
object, text, JSON of another shape or an exception; `RefersBack` the cues of the
reference detector in the order they are tried; the resolver's score is in
hundredths. A text is the number of keywords of each domain in it. A statement
is the names after FROM and JOIN, which is all the agent looks at.

**TemporalParser, FiscalCalendar.** A question is a sequence of words, a pattern
a sequence of sets of words, and a finder pairs patterns with the range it works
out from a match; `Find` runs the finders and collects, `Consider` takes the next
candidate or drops it for one already taken. A range is half-open, as in the
code; an end that is no date makes the parser raise. The translation was compared
with the Python on the 13548 questions of the model (every text, date and calendar)
and gave the same ranges, or an exception where the Python raises one, on each.

**QuantMirror.** Each client is between operations, in a `set` (value written, index
not yet) or in a `reset` (index read, nothing deleted yet). A command may fail
before or after the server has carried it out. `torn` is a history variable: the
products whose operation failed in between, or overlapped.

**MacSql, InsightDetector, JoinPaths.** `MacSql` is `predict` with a step for
every call of the model and every execution, each of which may raise
(`CallRaises`); an execution may also fail without a text. `InsightDetector` is one
step from a result to the number of groups that fell. A cell has the text the code
compares and, beside it, where in time it is, which the code does not see; the time
columns are found as `_first_present` finds them, by name and then by how a name
begins. It was compared with the Python on the 25194 results of the model, with no
difference. `JoinPaths` takes one turn of the breadth- or depth-first loop at a
time, so that the open and the met tables can be seen.

## 3 Runs

| run | configuration | shows |
|---|---|---|
| `memory` | 3 sessions, room for 2, window 2, 4 turns each | types; `StoreBounded`; `WindowFull`; `IdsSaturate`; `DropsLeastRecentlyUsed`; the store implements `SessionLog` |
| `query_domains` | 1 query, 2 agents and a domain without one, every optional part, 3 attempts | types; `AnswerSound`; `UsesItsAttempts`; `EveryQueryEnds` |
| `query_sessions` | 3 queries, 2 sessions, at most 2 at a time, window 1 | `AuditTrail`; `TurnsAreAnswers`; `NoTurnLost`; `CarryOverGrounded` |
| `llm_call` | 5 model names in pairs, 3 sets of keys, 2 retries | types; `GivesUpLate`; `EffortBounded`; a call implements `LLMCall`; `CallEnds` |
| `ask_roundtrip` | 1 tab, 2 questions, 2 session ids, plans of 2 steps or none, 1 restart | `CallsAccounted`; `UsageCovers`; `TurnsMatch`; `OneOnItsWay`; `RepliesStay`; `InputComesBack` |
| `parts` | each of seven parts on its own | composer: `JoinGrounded`, `NamesClash`, `ListedShown`, `OrderIrrelevant`; questions: `AsksTheQuestion`, `AsksWhenUnsure`; parser: `ReadOnce`, `MostSpecificWins`, `RelativePeriodsMeet`, `FiscalRight`, `RaisesOnlyAtTheEdge`; mirror: `MismatchExplained`; baseline: `BaselineReturns`; insight: `InsightRight`; join paths: `PathsRight` |
| `memory_turn_ids`, `query_out_of_scope`, `compose_unknown`, `compose_key`, `agent_cte`, `insight_order` | instances of the same modules | a statement of the repository that the code does not keep (section 6) |

Each property of a passing run is known to fail for a slip in the code it is
about: `PROJECT.json` pairs it with a mutated definition.

Worth attention:

* `AnswerSound` relates three fields that three nodes write. Rows are written
  by validate only; when a correction yields no SQL the rows of the attempt
  before stay in the state, and the property holds only because such an answer
  carries an error. Compliance lets SQL pass that it cannot parse, without
  filters and without an audit message, and the property holds only because the
  validator parses the same text again. Without a validator the property asks
  nothing of the filters: nothing in the code would keep that.
* `TurnsAreAnswers` and `CarryOverGrounded` hold although the prior turns are
  read after an await: a turn is recorded in one step, after its graph ended.
* `UsageCovers` is what remains of "per request" when requests share a tracker;
  `CallsAccounted` holds across overlapping requests, abandoned ones and a
  restart.
* `AsksTheQuestion` names the one case in which the agents are asked something
  else: a router's reply that is no JSON becomes the question of its sub-queries.
* `AsksWhenUnsure` says what happens for a term with no sense among the routed
  domains and for terms with exactly one each. It says nothing of two or more,
  where the code and its comment disagree (section 6).
* `NamesClash` says of every composition whether two of its columns have the same
  name: the composer renames a column that is there already and does not look
  whether the new name is there too. With such names a value is lost when the rows
  become dictionaries (section 6).
* `InsightRight` holds where the texts the detector sorts are in the order of time;
  `ComparesTheLatest` is the claim without that condition, and is refuted.
* `JoinGrounded` is what the composer looks at before it joins; `KeyProjected` is
  what its comment says of every CTE, and is refuted.
* `FiscalRight` excepts the days before the start day in the month a fiscal year
  starts in: quarter bounds forget that day and begin on the first of the month.
* `MismatchExplained` is what is left of "value and index agree" when commands
  fail and clients overlap: a product they disagree on is being set, or is torn.
* `OneOnItsWay` holds although "New session" is possible while a question is on
  its way, because it leaves `loading` alone; `RepliesStay` says that a late
  answer does not replace the error the user has already seen.

## 4 Bounds

* `MaxTurns` = 4 with a window of 2: two turns in the window, two compressed,
  one after the other; the fifth turn adds nothing new (`IdsSaturate` and
  `ImplementsSessionLog` are proved for all). Three sessions with room for two
  make every order of eviction.
* `query_domains` needs one request only, as its properties are about one; 3
  attempts include a first, a middle and a last one, two agents every kind of
  pair of fragments.
* `query_sessions`: three queries are the fewest with two that overlap and one
  that follows up on either; `AtMostTwoRunning` limits the states to pairs of
  running queries. Symmetry over requests and sessions is sound because no
  liveness is checked in this run. Window 1 makes compression happen.
* `parts`, composer: three fragments are the fewest in which a made name collides
  with a column of a third (two return `amount`, one `q_finance_amount`); two keys
  are the fewest with a preference.
* `llm_call`: all 25 pairs of model names, the unprefixed one of the deployment
  among them, with 3 sets of keys; 2 retries as configured, so a stage has a
  first, a middle and a last request. The pauses of a stage are then one and two
  half seconds, which tells a doubling pause from a fixed one.
* `ask_roundtrip`: `MaxCalls` = 1 call per run besides the chart's,
  `MaxRestarts` = 1; two questions in one tab overlap when the first is given
  up, and with a second session id between them they do not share a tracker.

* `parts`, questions: two domains with an agent and one without; texts with keywords of
  none, one or both (a tie, and a lead of one); terms with three senses, two and
  one, one of them about a domain that is not routed; a past with no turn, with
  turns without domains, with senses mentioned.
* `parts`, parser: all texts of one and two words of a vocabulary with a word of
  every pattern, all texts of three of a smaller one, and longer ones that
  exercise each pattern of four words and more; four dates (first and last day
  of a year, a leap day, the middle of a quarter), three fiscal calendars (the
  calendar year, April, the 31st of July); the years 0000, 0001, 9998 and 9999,
  where ranges leave the calendar.
* `parts`, the others: three clients and two products, so that a set, a reset
  and a third operation overlap; 0, 1 and 3 corrections, with and without an
  executor, which may succeed, fail with or without a text, or raise; results of two
  and three rows with two groups, at the turn of a year (2008 and 2009) and of a
  digit (months 9 and 10), around the threshold, with rows whose value is no number
  or whose month is NULL, under 17 lists of columns: each choice of year, quarter and
  month, and the names the code finds by how they begin; a cycle of five tables with
  two parallel keys, a key of a table to itself and a table nothing leads to, with
  limits of 1, 2 and 4 hops. The run starts each behaviour in one part and leaves the
  others idle: they share no state in the code either.
* The runs that TLC refutes use the same instances; `insight_order` has results of two
  rows under four lists of time columns whose texts are not in the order of time.

## 5 Fairness

* `Orchestrator`: weak fairness of `Step(r)`, each request by itself. The event
  loop resumes every task that can run, and what it waits for ends: a model call
  has a time-out and a counted number of retries (`llm_call` shows that it
  ends), a statement a `statement_timeout`. No fairness between the outcomes: a
  query ends even if every correction fails.
* `LLMProvider`: weak fairness of `Step`. A request ends in a reply or an error:
  the HTTP client has a time-out for each of its phases, so a server that goes
  silent ends the request; that no server keeps one going for ever by sending a
  little at a time is assumed. Nothing forces a reply to be a usable one.
* `Gateway`: weak fairness of `Deliver(a) \/ GiveUp(a)` for each question:
  `AbortSignal.timeout` fires whatever the gateway does. Nothing is assumed of
  the gateway itself, so `InputComesBack` holds even if it dies or hangs.
* The other modules have safety properties only.

## 6 Where the repository disagrees with itself

Each is a run that TLC refutes; `PROJECT.json` quotes the statement.

* Turn ids are counted from a list that compression shortens (`agents/memory.py:53`):
  after the window is full every turn has the same id, and the summary names
  several turns alike. A test reads "Turn 4" as the fourth turn.
* A follow-up the router called out of scope is answered on the domains of the
  last turn (`agents/orchestrator.py:206`), although `docs/demo_questions.md` says
  such questions are rejected by the router alone.
* The columns of a UNION are missing from a joined answer when another fragment
  has known columns (`composer/composer.py:218`), although a comment says they
  fall back to `*`.
* Fragments are joined on a key that one of them may not return
  (`composer/composer.py:118`): a UNION, or a SELECT none of whose columns has a
  name, passes the test, although the comment above it says that every CTE projects
  the key.
* The insight detector sorts periods as text (`agents/insight_detector.py:54`), so of
  months alone "10" comes before "9", names of months sort by the alphabet, a
  period behind a year is left out, and a result dated by `calendaryear` alone has
  one period; the docstring says that the most recent value is compared with the
  previous one.
* An agent whose model answers like the agent's own few-shot examples has no SQL:
  every name after FROM or JOIN counts as a table, those of the statement's CTEs
  too, and a statement with a table the domain does not see is dropped
  (`agents/specialists.py:128`; examples at `agents/few_shots/demand.yaml:48` and
  `:91`).

Met while reading and not made into runs:

* The gateway builds the pipeline without a validator (`api/main.py:126`), although
  the README (line 123) calls the validator one of two layers of a guard; and the
  usage of a response is that of its session so far (`api/main.py:280`), although
  the README (line 145) says cost is tracked per request.
* Two senses among the routed domains score 0.5 and the threshold is 0.55, so no
  question is asked, although a comment says one sense is taken only when exactly
  one is left (`ambiguity/resolver.py:67`).
* "Explicit new-topic openers override carry-over" (`conversation/references.py:132`),
  but they are tested last, after every cue that refers back.
* When the router's reply is no JSON, the keyword fallback looks for keywords in the
  reply (`agents/router.py:150`).
* The baseline's notes say "final-err" although the last statement succeeded,
  when an earlier one failed, and "ok" although it failed, when the executor gave no
  text; and `extract_sql` cuts a statement without a fence
  at its first empty line (`baselines/mac_sql.py`).
* `DomainMapping`'s loader is documented to raise on a table with several primary
  domains (`schema/domains.py:209`) and never checks.
* The correlation id of a message is the session id, so it does not "group all
  messages from one user query" (`agents/messages.py:40`); "successful enough"
  (`agents/orchestrator.py:110`) includes answers with an error.
* The comment of the proxy's time-out speaks of 60 s at worst, but one model call may
  send three requests to a model and as many to the fallback (`EffortBounded`), and
  each may take longer than the client's 60 s, which limit its phases.
* Two columns of a composed result may have the same name, when an agent itself
  returns a column called `q_<domain>_<column>` (`composer/composer.py:188`), and one of
  the values is lost when a row becomes a dictionary (`main.py:193`). Nothing in the
  repository says otherwise; `NamesClash` says when.
* The deployment's bare `gpt-4o-mini` is a model of OpenRouter to `parse_model`, for
  which it sets no key, so every call goes to the fallback model, an Ollama on the
  same host unless configured.

## 7 What is proved

TLAPS checks the following for every value of the constants, from the
assumptions named in the modules: `MemoryAssumption` (room for at least one
session), `ProviderAssumption` (the models are not called "pending" or "failed",
the numbers are natural), `OrchestratorAssumption` and `QuestionAssumption` (what
router and agents may return has the types the code gives it; a past turn names a
domain once), `ComposerAssumption` (a fragment lists a column once; no domain is
called "any" and no column "none"; made names differ, as no domain's name is the
start of another's), `InsightAssumption` (rows have a text for each time column; no
time column is called "group", "value" or "none"), `GatewayAssumption`, `MirrorAssumption`,
`MacSqlAssumption`, `JoinPathsAssumption`, `ParserAssumption`,
`NumbersAssumption` and `DaysAssumption`
(the sets have the right types and an element where the code needs one; dates
are dates; four digits say a year up to 9999 and up to three digits a number up to
999, as the patterns match no more).

* `ConversationMemoryProofs`: `TypeCorrect`, `StoreIsBounded`, `WindowIsFull`,
  `TurnIdsSaturate`, and `StoreImplementsLog`, that the store implements
  `SessionLog`. The ids alone are not inductive: the next id is the length of a
  list, and that length tells how many turns there were only until the window is
  full. So `Inv` says of each session that its ids are as `IdsSaturate` says
  *and* that a summary exists only beside a full window. The refinement maps a
  session to the entries of its summary followed by those of its window;
  `GetImplementsUse`, `RecordTurnImplementsRecord` and `ResetImplementsForget` are
  the three steps, and they rest on lemmas about slices (`SlicesRejoin`: the two
  parts of a cut are the sequence), `RemoveFirst` and eviction (at most one
  session, never the one just used).

  `DropsTheLeastRecentlyUsed` is an action property of the store with its history
  (`HSpec`). `HInv` adds that the ranks of the used sessions are numbers from 1
  without gaps or repetition (`Ranked`) and that the order of the keys is the
  order of the ranks (`Ordered`): what is in front was used longest ago. Using a
  session closes the gap it leaves and puts it last in both orders.
* `LLMProviderProofs`: `TypeCorrect`, `GivesUpLateTheorem` and `KeepsPromiseTheorem`.
  `IInv` adds to `GivesUpLate` what the call knows in each state: a stage not yet
  reached has made no request, and a request on its way is one the stage may
  still make. `EffortTheorem` bounds the requests and the pauses: `PauseInv` says that
  a call has paused exactly as long as its requests tell, and not after the last one
  to a model. The pauses double (`PauseDoubles`, by induction), so that more requests
  mean longer pauses and the bound is that of all tries made.
* `OrchestratorProofs`: `AnswersAreSound` and `AttemptsAreUsed`, for any number of
  overlapping queries. Neither of the two properties is inductive, since both speak of
  answers only; `Good(r, p, s)` says what the state of a request tells at each place
  of the pipeline: from compose on, the SQL is that of the current attempt; after
  compliance, SQL that parses is filtered; in generate an attempt is left. Other
  requests reach a query only through the turns it may carry over, so the
  invariant also says that the memory's sessions keep their types
  (`RecordTurnType`, `PriorTurnsType`); everything else is one lemma per action.

  `TurnsAreOfAnswers` and `CarryOverIsGrounded` are about what queries leave to each
  other. A request that is done never changes again (`OnlyMoves`: every step is of
  one request that is not done), so a turn that was that of its request stays so;
  `Record` adds one turn, of a request that has none yet because it was not done,
  after all the session had (`TurnIsAppended`, from the memory's own
  `AddTurnProperties`). The last of the turns a follow-up reads is one of these,
  whatever was recorded or compressed while the router was answering.

  `NoTurnIsLost`: a turn can only go with its session, and a session only when there
  are more keys than room. `NoTurnLostInv` adds that the keys are sessions in use;
  the store's own invariant (each key once, at most `MaxSessions`), which holds of
  the memory inside `Orchestrator` because every step of a request is a step of the
  store or leaves it alone, gives that they are no more than the sessions in use.
  `TrailsAreComplete`: the log only grows, so what can go wrong with a trail is the
  message added last. The invariant says of each request that its messages stand
  in the order of the pipeline, that no stage but the agents' has two, and which
  ones there are at each place (`pc`); an append is of the one request that moves
  and leaves the trails of the others as they are. With these, `TypeCorrect`.
* `GatewayProofs`: `PagesShowTheirAnswers`, `UsageIsCovered`, `OneIsOnItsWay` and
  `ShownRepliesStay`, for any number of tabs, questions, sessions and restarts.
  The invariant joins them with what they need of each other: no page shows a
  question that was not asked and a page's session id is a used one (`Started`,
  so that a new session starts with no question of its own); a loading page
  waits for one question and another for none (`WaitsForOne`); and the tracker of
  a session holds at least the calls of each question being worked on
  (`Tracked`), which is why a snapshot covers them however requests overlap and
  although a restart empties all trackers. `CallsAreAccounted` is exact: a tracker
  is the number of calls made since the last restart for the questions of its
  session, a call being a question and a number, so that the sum is the
  cardinality of a set and a call more is one element more (`Counted`). A
  question is counted from the restart in which it arrived (`EpochsOk`).
* `ComposerProofs`: `JoinsOnASharedKey`, `NamesClashTheorem`, `ListedAreShown` and
  `OrderDoesNotMatter`, for any domains, columns and order of the agents. The state
  hardly moves (`ComposerInv`); the work is in what `compose` computes, by
  induction over the columns of a CTE and over the CTEs. `ItemsGood` is what the
  induction carries: no CTE shows a column twice, an item has the name its column and
  the items before it give it, and the items so far come from the CTEs so far, in
  their order, and show all their columns. That two names are the same then means that
  one is a made name and the other a column (`SameNames`): two made names differ by
  assumption, and of two equal columns the later is renamed. The order of
  the outputs is a bijection between them, under which the parts have the same
  number and the same keys in common.
* `QuestionProofs`: `AgentsAreAsked` and `AsksBackWhenUnsure`, for any domain map,
  glossary, router reply and conversation. `QuestionInv` says whose words the
  sub-queries of a decision have (`Words`: the question's if the turn was carried
  over, otherwise those of the kind of reply), which a filter or a removal of
  repetitions by induction does not change; and that from resolve on the intent is
  the decision's or that of asking back. The scores of the resolver are on the
  right side of the threshold whatever the number of senses.
* `PartsProofs`: `FiscalCalendarIsRight`, for every date and every first day of a
  fiscal year that every year has (29 February and the 31st of April are none), by
  counting months from January of year 0: the months of a year
  are 12 from its first, and a quarter starts three after the one before.
  `RelativePeriodsAdjoin`: the number of a day grows by the days of a month from
  month to month and by 365 or 366 from year to year (`YearFollows`,
  `MonthFollows`), so that every date lies between the first of its month and of
  the next (`InItsMonth`), also across the turn of a year, and the starts of
  periods one, three and twelve months long meet. It is for dates with a year
  before and after: in year 1 and 9999 a neighbour may have no date, and the
  parser raises.
  `FailsAtTheEdgeOnly`, for every question, every date in the years 1000 to 9998
  and every calendar. A date of a year from 1 to 9999 is a day from 1 to the last
  (`DateIsKnown`, `YearsEnd`), and so is a day up to 999 years of 365 days before
  the date or a year after it (`NearbyIsKnown`), which is as far as three digits of
  any unit go (`WindowIsKnown`). What the scan of a text finds fits a way of its
  pattern (`ScanKeeps`, `MatchesFit`), so the words of a match are known to hold a
  year, a quarter or a month where the reading needs one (`WordsAreSafe`), and the
  patterns are gone through one by one (`YoYIsSafe` to `WindowsAreSafe`). The years
  are in the statement because it is false without them: asked in the year 900, "last
  999 years" begins before year 1, and asked in 9999, "today" ends after the last
  day. No run has such a date.
  `NoWordIsReadTwice`, for every question and whatever the finders find: a match
  is taken only if it overlaps none taken before.
  `TheMoreSpecificWins`, for every question: nothing in the answer is a part of a
  longer phrase some finder recognises, and the answer is in the order of the
  text. The finders run in an order, and a match of an early finder is taken before
  the matches of later ones are looked at, so all depends on which patterns have
  phrases that are parts of which others' phrases. `PhraseInPhrase` says when a
  phrase of two to four words contains another of fewer, and `NoShorterPart` shows, pattern by
  pattern, that this happens only where the longer phrase is of one of the first two
  finders (`YoY`, `FiscalQuarter`): "vs last year" has "last year", "fiscal q3" has
  "q3", "fy 2024 q3" has "2024". Elsewhere a word inside a phrase begins none
  that would fit in the rest of it: the words that begin a phrase of one word, of up to
  two and of up to three are `Starts1`, `Starts2` and `Starts3`, and a way of a pattern
  is `Plain` if after its first word none of them stands with enough room, and none
  shorter begins with it but of the same pattern. What the two first finders find
  does not overlap (`SpecificIsTaken`), so all of it is taken, and a shorter match
  inside it is refused. The inductive invariant `AnswerInv` adds to that of
  `NoWordIsReadTwice` that the candidates are what the finders so far read from the
  text (`Gathered`): those of the first two finders in front, and those of one
  pattern at different words, one after the other unless they are windows. It
  rests on `NumbersAssumption`: a number is none of the words the patterns spell
  out. That is what `\d{4}` and `\d{1,3}` ensure.
  The order of the answer is stated by rank (`ByStart`), as the matches taken start
  at different words, so that the sort of the code has just one result.
  `MismatchIsExplained`, for any number of clients and products. A
  reset must know, between its two commands, of every value it is not about
  to delete (`ResetKnows`: it was set since, or torn before), and has met every
  product that is being set (`Noticed`); a set whose value is gone was hit by a
  reset (`SetKnows`).
  `WhatPredictReturns`, for any number of corrections. `Progress`
  counts: in the loop there is one statement more than executions, all of which
  failed; while refining as many.
  `InsightIsRight`, for every result whose columns of the period are each written in
  the order of what they stand for (`WrittenInOrder`): a text made of two of them, with
  a dash between, is then in the order of the two (`JoinedTexts`), because the first
  texts have one length; so the order of the periods is that of time
  (`KeyOrderIsTimeOrder`), and the last text and the last but one are those of the
  last two times, each with the rows of its time. The condition is met by years of
  four digits, by quarters, by months behind a year, which are padded to two digits, and
  by any of them alone if all have as many digits (`NumbersAreTimed`). It is not met
  by months alone from September to October, by names of months or by NULL, and "time"
  is that of the columns the code picks, which may be none or leave one out. There
  the theorem says nothing of the most recent value, and the run of
  `ComparesTheLatest` (section 6) shows the counts that come out wrong.
  `PathsAreRight`, for every schema, pair of tables and bound on the hops. The
  reference is `Near`, the tables a number of joins away, which is what walks of
  that length reach (`WalkReaches`, `NearByWalk`: and a walk without detours reaches
  them too). The breadth-first invariant is `Levels`: the queue holds paths of at most
  two lengths, the shorter ones in front; all tables nearer than the front have
  been met; and what has been met and is not open has met all it leads to, so that
  an empty queue leaves nothing to find (`NothingLeft`). `Levels` ends when the
  first path is left for its length, but then the target is too far
  (`TooFar`). The depth-first search keeps no such set. Its invariant is that the open
  paths and those found part from each other in some step (`AllPart`,
  `PartFrom`), which is why no path is found twice although no one looks, and that
  as long as nothing is found, every way to the target without detours begins
  with an open path (`NoneMissed`). Both loops over the neighbours are recursive
  functions, dealt with by `MeetKeeps` and `FollowKeeps`, one step at a time.
  `Sorted` shows that the order by length loses and repeats no path.
* `Recursion`: induction and recursion over numbers. The library states them with an
  operator as parameter, which the provers cannot instantiate; here the
  statement is a set and the step a function. `Induction` is proved from the
  library's theorems on finite sets (were a number missing, adding 1 would map the
  finitely many members below it one to one into those that are not 0), `Recursion`
  from it by joining the functions up to each number, and `HasLeast`,
  `HasGreatest` and `HasMaximum` are what a CHOOSE in a model needs.

Model-checked only: liveness (`EveryQueryEnds`, `CallEnds`, `InputComesBack`), which
is out of the prover's reach. Every invariant and every action property of the
passing runs is a theorem.

## 8 What is not modelled

* The agents' prompts, the context builder and the wording of questions put to the
  user: text for a model or a reader, on which nothing in the code depends.
* Where compliance puts its filters and which statement the validator accepts:
  sqlglot's and Postgres's work. `Orchestrator` lets the validator give any verdict
  on SQL that parses.
* Which question has a plan (a regular expression) and which chart is chosen:
  choices of the environment in `Gateway`.
* The insight's choice of the group that fell most, and its wording; months that are
  dates, of which padding makes what the platform does.
* How long a request to a model takes: the phases of the HTTP client's time-out.
* Letter case and quotes in the names of columns (`composer/composer.py:181-188` compares
  names as they are written, a database may not); the columns behind a `*`.
* Fiscal years that start on a day some year does not have: `date()` raises in that year.
* The cache of exchange rates (one key with an expiry) and the Postgres and DuckDB
  adapters: open a connection, run one statement, close it.
* Schema loading, glossary, domain map and search: read once from files or the
  database's catalogue and never changed. What agents may see of the domain map
  is in `Specialist`.
* Evaluation metrics, views, charts and export, the scripts: straight-line
  functions on text and numbers, or input and output.
* The legacy API (`main.py`): it keeps no state of its own; that it puts all users
  in one session is what `Orchestrator` allows its requests to do.
* LangGraph's own limit of 25 steps per run, which would stop a query after five
  attempts; two and three are configured.
* That a synchronous database driver holds up the event loop (`api/main.py:196`):
  it delays other requests and changes no order the models leave out.
* Threads: the memory's methods hold its lock throughout, and the application
  calls them from one event loop.

## 9 Plan

Done, in this order because the pipeline is the system and the memory is what
overlapping queries share: memory, orchestrator, gateway, provider, composer;
then the stateless parts with rules of their own (router and resolver, parser,
insight, join paths), the baseline and the mirror; their runs; the proofs of
section 7.

Next:

1. The injection of row filters into nested SELECTs (`agents/compliance.py:108-225`)
   on small syntax trees, once sqlglot's traversal order can be stated from the
   repository alone.
2. The comparison of result sets in `eval/metrics.py`, whose two kinds of accuracy
   treat truth values and integers differently.
3. The chart selector's repair of a reply that names no column of the result.
