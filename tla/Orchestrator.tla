----------------------------- MODULE Orchestrator -----------------------------
(***************************************************************************)
(* The pipeline of one query, Orchestrator (backend/app/agents/            *)
(* orchestrator.py), for several queries that run at the same time on one  *)
(* event loop and share the conversation memory and the message log.       *)
(*                                                                         *)
(* A query runs without interruption between two awaits: the reply of the  *)
(* router, the reply of each domain agent, and the end of each LangGraph   *)
(* node.  An action is the code between two awaits; the agents' and the    *)
(* router's replies are chosen by the environment.                         *)
(*                                                                         *)
(* SQL text is abstracted to what the pipeline can tell: it is missing, it *)
(* is one query, it parses but changes data, sqlglot rejects it with a     *)
(* ParseError, or with a TokenError, which no caller catches.              *)
(***************************************************************************)
EXTENDS Naturals, Sequences, SequencesExt, FiniteSets

CONSTANTS
  Requests,     \* the calls of run
  Privileged,   \* those made by an admin or a superuser
  SessionIds,   \* the session ids callers use
  Domains,      \* the domains a router may name
  Agents,       \* the domains that have an agent (compliance has none)
  Decisions,    \* what the router may decide: an intent and some domains
  Replies,      \* what an agent's SQL may be (see Texts)
  Asks,         \* whether the glossary may make the resolver ask back
  HasCompliance, HasValidator,   \* which optional parts are configured
  Execute,      \* execute_on_validate
  MaxAttempts,  \* limits.max_correction_attempts
  Window, MaxSessions            \* of the conversation memory

Supply == "supply_chain_question"
OutOfScope == "out_of_scope"
Clarify == "clarification_needed"
Intents == {Supply, OutOfScope, Clarify}
Texts == {"none", "good", "forbidden", "unparsable", "untokenizable"}

ASSUME OrchestratorAssumption ==
  /\ Privileged \subseteq Requests
  /\ Agents \subseteq Domains
  /\ Decisions \subseteq [intent : Intents, domains : Seq(Domains)]
  /\ Replies \subseteq Texts /\ Asks \subseteq BOOLEAN
  /\ HasCompliance \in BOOLEAN /\ HasValidator \in BOOLEAN /\ Execute \in BOOLEAN
  /\ MaxAttempts \in Nat
  /\ Window \in Nat
  /\ MaxSessions \in Nat \ {0}

VARIABLES
  pc,       \* where each request is
  st,       \* the AgentState of each request
  log,      \* MessageLog: what by_correlation returns for each session id
  keys,     \* the conversation memory's keys and
  session   \*   sessions (see ConversationMemory)

vars == <<pc, st, log, keys, session>>

-----------------------------------------------------------------------------

\* composed_sql: the attempt that composed it, its text, and whether the row
\* filters of the user were injected.
SQL == [by : Nat, text : Texts, filtered : BOOLEAN]
NoSQL == [by |-> 0, text |-> "none", filtered |-> FALSE]

\* The state of one request.  followUp: the query refers to an earlier turn;
\* routed: the router's own intent; rows: the attempt whose SQL returned the
\* rows (0 for none); issues, error: whether there are any.
AgentState ==
  [session : SessionIds, followUp : BOOLEAN, routed : Intents, intent : Intents,
   domains : Seq(Domains), subs : Seq(Domains), attempt : Nat,
   outputs : Seq([domain : Domains, text : Texts]), sql : SQL,
   issues : BOOLEAN, rows : Nat, error : BOOLEAN]

FreshState(s, f) ==
  [session |-> s, followUp |-> f, routed |-> Supply, intent |-> Supply,
   domains |-> << >>, subs |-> << >>, attempt |-> 0, outputs |-> << >>,
   sql |-> NoSQL, issues |-> FALSE, rows |-> 0, error |-> FALSE]

\* What record_turn is given, with the request that gave it.
Turns == [by : Requests, domains : Seq(Domains), sql : Nat, rows : Nat]
TurnOf(r) ==
  [by |-> r, domains |-> st[r].domains, sql |-> st[r].sql.by, rows |-> st[r].rows]

Memory == INSTANCE ConversationMemory WITH Entries <- Turns, MaxTurns <- 0

\* A message with the request it is about, which the program does not keep.
Kinds == {"query", "sub_query", "agent_output", "validation", "final"}
Message == [kind : Kinds, of : Requests, attempt : Nat]

Send(r, kind, n) ==
  log' = [log EXCEPT ![st[r].session] =
            Append(@, [kind |-> kind, of |-> r, attempt |-> n])]

\* The node ends with these fields of its state changed, and the next is p.
Update(r, new, p) ==
  /\ st' = [st EXCEPT ![r] = new]
  /\ pc' = [pc EXCEPT ![r] = p]

\* (Definitions named Faulty... are slips the properties must notice; nothing
\* else uses them.)
FaultyRaise(r) == pc' = [pc EXCEPT ![r] = "record"]

\* An exception nobody catches leaves run: no answer, no turn.
Raise(r) == pc' = [pc EXCEPT ![r] = "failed"]

UnchangedMemory == UNCHANGED <<keys, session>>

-----------------------------------------------------------------------------

Init ==
  /\ pc = [r \in Requests |-> "new"]
  /\ st \in [Requests -> {FreshState(s, FALSE) : s \in SessionIds}]
  /\ log = [s \in SessionIds |-> << >>]
  /\ Memory!Init

\* run starts the graph; classify logs the query and calls the router.
Submit(r) ==
  /\ pc[r] = "new"
  /\ \E f \in BOOLEAN : Update(r, FreshState(st[r].session, f), "classify")
  /\ Send(r, "query", 1)
  /\ UnchangedMemory

\* A follow-up the router did not place is given the domains of the last turn.
PriorTurns(r) == Memory!ActiveWindow(st[r].session).recent

FaultyCarriesOver(r, decision) ==
  PriorTurns(r) # << >> /\ decision.intent # Supply

CarriesOver(r, decision) ==
  /\ st[r].followUp
  /\ PriorTurns(r) # << >>
  /\ decision.intent # Supply

Carried(r, decision) ==
  IF CarriesOver(r, decision)
    THEN [intent |-> Supply, domains |-> Last(PriorTurns(r)).entry.domains]
    ELSE decision

\* The rest of classify, from the router's reply on, and _after_classify.  The
\* ambiguity resolver may ask the user back.
Classified(r) ==
  /\ pc[r] = "classify"
  /\ \E decision \in Decisions, asks \in Asks :
       LET d == Carried(r, decision)
           intent == IF asks THEN Clarify ELSE d.intent
       IN  Update(r, [st[r] EXCEPT !.routed = decision.intent, !.intent = intent,
                                   !.domains = d.domains],
                  IF intent = Supply /\ d.domains # << >> THEN "route" ELSE "respond")
  /\ Send(r, "sub_query", 1)
  /\ UnchangedMemory

\* The parser of temporal expressions raises on a date it cannot build.
TemporalRaises(r) ==
  /\ pc[r] = "classify"
  /\ Raise(r)
  /\ UNCHANGED <<st, log, keys, session>>

\* One sub-query for every chosen domain, in order.
Route(r) ==
  /\ pc[r] = "route"
  /\ Update(r, [st[r] EXCEPT !.subs = st[r].domains], "generate")
  /\ UNCHANGED log
  /\ UnchangedMemory

-----------------------------------------------------------------------------

FaultyGenerate(r) ==
  /\ pc[r] = "generate"
  /\ Update(r, [st[r] EXCEPT !.outputs = << >>], "agents")
  /\ UNCHANGED log
  /\ UnchangedMemory

\* generate: a new attempt with no outputs yet, ...
Generate(r) ==
  /\ pc[r] = "generate"
  /\ Update(r, [st[r] EXCEPT !.attempt = @ + 1, !.outputs = << >>], "agents")
  /\ UNCHANGED log
  /\ UnchangedMemory

AgentsLeft(r) == pc[r] = "agents" /\ Len(st[r].outputs) < Len(st[r].subs)
NextDomain(r) == st[r].subs[Len(st[r].outputs) + 1]

Output(r, text) ==
  Update(r, [st[r] EXCEPT !.outputs = Append(@, [domain |-> NextDomain(r), text |-> text])],
         "agents")

\* ... then one output for every sub-query: empty and not logged when the
\* domain has no agent or its agent raises, ...
NoAnswer(r) ==
  /\ AgentsLeft(r)
  /\ Output(r, "none")
  /\ UNCHANGED log
  /\ UnchangedMemory

\* ... otherwise what the agent returned, which may be empty too.
AgentReplies(r) ==
  /\ AgentsLeft(r) /\ NextDomain(r) \in Agents
  /\ \E text \in Replies : Output(r, text)
  /\ Send(r, "agent_output", st[r].attempt)
  /\ UnchangedMemory

\* The composer passes a single fragment through unread.  It parses several, in
\* order, and gives up at the first one that does not parse.
Text(r, i) == st[r].outputs[i].text
Fragments(r) == {i \in DOMAIN st[r].outputs : Text(r, i) # "none"}
Rejected(r) == {i \in Fragments(r) : Text(r, i) \in {"unparsable", "untokenizable"}}
Several(r) == \E i, j \in Fragments(r) : i # j

Composed(r) ==
  CASE Fragments(r) = {} -> "none"
    [] Fragments(r) # {} /\ ~Several(r) -> Text(r, CHOOSE i \in Fragments(r) : TRUE)
    [] Several(r) /\ Rejected(r) = {} ->
         IF \E i \in Fragments(r) : Text(r, i) = "forbidden" THEN "forbidden" ELSE "good"
    [] Several(r) /\ Rejected(r) # {} ->
         IF Text(r, Min(Rejected(r))) = "unparsable" THEN "none" ELSE "untokenizable"

AllAnswered(r) == pc[r] = "agents" /\ Len(st[r].outputs) = Len(st[r].subs)
ComposerRaises(r) == Several(r) /\ Composed(r) = "untokenizable"

Compose(r) ==
  /\ AllAnswered(r) /\ ~ComposerRaises(r)
  /\ Update(r, [st[r] EXCEPT !.sql =
                  IF Composed(r) = "none" THEN NoSQL
                  ELSE [by |-> st[r].attempt, text |-> Composed(r), filtered |-> FALSE]],
            "comply")
  /\ UNCHANGED log
  /\ UnchangedMemory

\* compliance: the row filters go into SQL that parses, and the audit message
\* with them; SQL that does not parse is left as it is, without a message.
Audited(r) ==
  /\ HasCompliance
  /\ st[r].sql.text # "none"
  /\ r \in Privileged \/ st[r].sql.text \in {"good", "forbidden"}

Comply(r) ==
  /\ pc[r] = "comply"
  /\ HasCompliance /\ r \notin Privileged => st[r].sql.text # "untokenizable"
  /\ Update(r, [st[r] EXCEPT !.sql.filtered = Audited(r) /\ r \notin Privileged], "validate")
  /\ IF Audited(r) THEN Send(r, "validation", 1) ELSE UNCHANGED log
  /\ UnchangedMemory

FaultyLabelAfterValidate(new) ==
  IF new.issues /\ new.attempt < MaxAttempts THEN "retry" ELSE "respond"
FaultyLateAfterValidate(new) ==
  IF new.issues /\ new.attempt <= MaxAttempts THEN "generate" ELSE "respond"

\* _after_validate
AfterValidate(new) == IF new.issues /\ new.attempt < MaxAttempts THEN "generate" ELSE "respond"

Validated(r, new) ==
  /\ Update(r, new, AfterValidate(new))
  /\ UNCHANGED log
  /\ UnchangedMemory

\* No SQL is an issue, and the rows of an earlier attempt stay; without a
\* validator anything else is accepted.
ValidateUnread(r) ==
  /\ pc[r] = "validate"
  /\ st[r].sql.text = "none" \/ ~HasValidator
  /\ Validated(r, [st[r] EXCEPT !.issues = st[r].sql.text = "none"])

\* The syntax validator rejects what is not one query on known tables, the
\* database what it cannot plan or run; there are no rows then.
Rejects(r, texts) ==
  /\ pc[r] = "validate" /\ HasValidator
  /\ st[r].sql.text \in texts
  /\ Validated(r, [st[r] EXCEPT !.issues = TRUE, !.rows = 0])

RejectSyntax(r) == Rejects(r, {"good", "forbidden", "unparsable"})
RejectExecution(r) == Rejects(r, {"good"})

FaultyAccept(r) ==
  /\ pc[r] = "validate" /\ HasValidator
  /\ st[r].sql.text # "untokenizable"
  /\ Validated(r, [st[r] EXCEPT !.issues = FALSE,
                                !.rows = IF Execute THEN st[r].sql.by ELSE 0])

\* Rows come only from executed SQL, and only then are the business rules looked
\* at, whose issues come with the rows.
BusinessIssues == IF Execute THEN BOOLEAN ELSE {FALSE}

Accept(r) ==
  /\ pc[r] = "validate" /\ HasValidator
  /\ st[r].sql.text = "good"
  /\ \E business \in BusinessIssues :
       Validated(r, [st[r] EXCEPT !.issues = business,
                                  !.rows = IF Execute THEN st[r].sql.by ELSE 0])

\* sqlglot's TokenError is not a ParseError: composer, compliance and validator
\* let it through.
ParserRaises(r) ==
  /\ \/ AllAnswered(r) /\ ComposerRaises(r)
     \/ /\ pc[r] = "comply" /\ HasCompliance /\ r \notin Privileged
        /\ st[r].sql.text = "untokenizable"
     \/ /\ pc[r] = "validate" /\ HasValidator
        /\ st[r].sql.text = "untokenizable"
  /\ Raise(r)
  /\ UNCHANGED <<st, log, keys, session>>

-----------------------------------------------------------------------------

FaultyRespond(r) ==
  /\ pc[r] = "respond"
  /\ Update(r, [st[r] EXCEPT !.error = st[r].intent # Supply \/ st[r].issues], "record")
  /\ Send(r, "final", 1)
  /\ IF st[r].intent = Supply
       THEN Memory!RecordTurn(st[r].session, TurnOf(r))
       ELSE UnchangedMemory

Respond(r) ==
  /\ pc[r] = "respond"
  /\ Update(r, [st[r] EXCEPT !.error = st[r].intent # Supply \/ st[r].issues], "record")
  /\ Send(r, "final", 1)
  /\ UnchangedMemory

\* The graph has ended; run records the turn of a supply-chain question.
Record(r) ==
  /\ pc[r] = "record"
  /\ IF st[r].intent = Supply
       THEN Memory!RecordTurn(st[r].session, TurnOf(r))
       ELSE UnchangedMemory
  /\ pc' = [pc EXCEPT ![r] = "done"]
  /\ UNCHANGED <<st, log>>

Step(r) ==
  \/ Classified(r) \/ TemporalRaises(r) \/ Route(r)
  \/ Generate(r) \/ NoAnswer(r) \/ AgentReplies(r)
  \/ Compose(r) \/ Comply(r) \/ ParserRaises(r)
  \/ ValidateUnread(r) \/ RejectSyntax(r) \/ RejectExecution(r) \/ Accept(r)
  \/ Respond(r) \/ Record(r)

Ended(r) == pc[r] \in {"done", "failed"}
AllEnded == (\A r \in Requests : Ended(r)) /\ UNCHANGED vars

Next == (\E r \in Requests : Submit(r) \/ Step(r)) \/ AllEnded

Spec == Init /\ [][Next]_vars

\* A started query goes on: the router's and the agents' calls end in a reply
\* or in an error, because the HTTP client has a timeout and the retries are
\* counted, and the event loop resumes every task that can run.
FairSpec == Spec /\ \A r \in Requests : WF_vars(Step(r))

-----------------------------------------------------------------------------

\* The types of the requests' states and of the log (state.py:51-98,
\* messages.py:21-68); the memory keeps its own (ConversationMemory).
TypeOK ==
  /\ pc \in [Requests -> {"new", "classify", "route", "generate", "agents", "comply",
                          "validate", "respond", "record", "done", "failed"}]
  /\ st \in [Requests -> AgentState]
  /\ log \in [SessionIds -> Seq(Message)]
  /\ Memory!TypeOK

Answered(r) == pc[r] \in {"record", "done"}

\* An answer without an error shows the SQL of its last attempt.  With a
\* validator that SQL parses and any rows are its own, not those of an attempt
\* that was corrected; and it has the row filters of a user who is not
\* privileged although compliance lets SQL pass that it cannot parse: nothing
\* but the validator's own parse stands behind it (orchestrator.py:155-172,
\* 389-413, compliance.py:92-99).
AnswerSound ==
  \A r \in Requests :
    Answered(r) /\ ~st[r].error /\ st[r].domains # << >> =>
      /\ st[r].sql.text # "none"
      /\ st[r].sql.by = st[r].attempt
      /\ HasValidator =>
           /\ st[r].sql.text = "good"
           /\ st[r].rows = IF Execute THEN st[r].attempt ELSE 0
           /\ HasCompliance /\ r \notin Privileged => st[r].sql.filtered

\* Self-correction stops at the limit, and gives up no earlier: an answer with
\* issues has used every attempt.  The first attempt is made whatever the limit
\* (orchestrator.py:294-299, 479-484).
UsesItsAttempts ==
  \A r \in Requests :
    /\ st[r].attempt <= IF MaxAttempts = 0 THEN 1 ELSE MaxAttempts
    /\ Answered(r) /\ st[r].attempt > 0 /\ st[r].error => st[r].attempt >= MaxAttempts

\* The positions of one query's messages in the log of its session, and the stage
\* of the pipeline a kind of message belongs to.
LogOf(r) == log[st[r].session]
Own(r) == {i \in DOMAIN LogOf(r) : LogOf(r)[i].of = r}
Stage(kind) ==
  CASE kind = "query" -> 1
    [] kind = "sub_query" -> 2
    [] kind \in {"agent_output", "validation"} -> 3
    [] kind = "final" -> 4

\* The trail of one query in the log of its session, whatever other queries of
\* the session are writing there: it starts with the query, the router's
\* decision follows, the agents' outputs belong to attempts in order, and one
\* final message ends it exactly when there is an answer; a query that raised
\* leaves none (orchestrator.py:179-187, 250-265, 367-380, 445-458).
AuditTrail ==
  \A r \in Requests :
    LET messages == LogOf(r)
        own == Own(r)
        kinds == {messages[i].kind : i \in own}
    IN  /\ pc[r] # "new" <=> own # {}
        /\ own # {} => "query" \in kinds
        /\ pc[r] \in {"new", "classify"} => "sub_query" \notin kinds
        /\ kinds \subseteq {"query"} \/ "sub_query" \in kinds
        /\ "final" \in kinds <=> Answered(r)
        /\ \A i, j \in own :
             i < j =>
               LET a == messages[i]
                   b == messages[j]
               IN  /\ Stage(a.kind) <= Stage(b.kind)
                   /\ Stage(a.kind) = Stage(b.kind) => Stage(a.kind) = 3
                   /\ a.kind = "agent_output" /\ b.kind = "agent_output"
                        => a.attempt <= b.attempt
        /\ \A i \in own :
             messages[i].kind = "agent_output" => messages[i].attempt \in 1..st[r].attempt

TurnsIn(s) == Memory!AllTurns(s)

\* A turn in the memory of a session is the turn of a query of that session
\* that has ended with an answer to a supply-chain question, as it ended, and
\* no query has two, however the queries of the session overlap
\* (orchestrator.py:107-120).
TurnsAreAnswers ==
  \A s \in SessionIds : \A i \in DOMAIN TurnsIn(s) :
    LET t == TurnsIn(s)[i].entry IN
    /\ pc[t.by] = "done" /\ st[t.by].session = s /\ st[t.by].intent = Supply
    /\ t = TurnOf(t.by)
    /\ \A j \in DOMAIN TurnsIn(s) : TurnsIn(s)[j].entry.by = t.by => i = j

\* While the memory has room for every session in use it loses no turn, however
\* often it moves the keys and compresses: each answered supply-chain question has
\* its turn (memory.py:85-113, 148-150).
InUse == {st[r].session : r \in Requests}
NoTurnLost ==
  IsFiniteSet(InUse) /\ Cardinality(InUse) <= MaxSessions =>
    \A r \in Requests :
      pc[r] = "done" /\ st[r].intent = Supply =>
        \E i \in DOMAIN TurnsIn(st[r].session) : TurnsIn(st[r].session)[i].entry.by = r

\* A question the router did not place is answered only as a follow-up, and on
\* the domains of a query of the same session that had ended with a turn
\* (orchestrator.py:192-226).
CarryOverGrounded ==
  \A r \in Requests :
    st[r].routed # Supply /\ st[r].intent = Supply =>
      /\ st[r].followUp
      /\ \E q \in Requests :
           /\ pc[q] = "done" /\ st[q].intent = Supply
           /\ st[q].session = st[r].session /\ st[q].domains = st[r].domains

\* Every query that was started ends, with an answer or with an exception: the
\* correction loop and the agents cannot keep it (orchestrator.py:297-299).
EveryQueryEnds == \A r \in Requests : pc[r] = "classify" ~> Ended(r)

-----------------------------------------------------------------------------
(* What the repository says and the code does otherwise.                   *)

\* A question for which the "Router returns intent = out_of_scope" is rejected,
\* with "no wasted tokens on the composer / validator / executor"
\* (docs/demo_questions.md:70-83).
OutOfScopeRejected ==
  \A r \in Requests : st[r].routed = OutOfScope => st[r].attempt = 0
=============================================================================
