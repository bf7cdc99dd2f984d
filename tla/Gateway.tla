------------------------------- MODULE Gateway --------------------------------
(***************************************************************************)
(* The way of a question from the browser to the gateway and back: the     *)
(* page (frontend/app/page.tsx), the proxy with its timeout                *)
(* (frontend/app/api/ask/route.ts), and the handler of /ask                *)
(* (backend/app/api/main.py) with the token tracker of each session        *)
(* (backend/app/llm/token_tracker.py).                                     *)
(*                                                                         *)
(* The proxy gives up while the gateway goes on, so two questions of a     *)
(* session may be worked on at once.  The gateway keeps its sessions in    *)
(* memory and loses them when it is restarted; the page keeps its own.     *)
(*                                                                         *)
(* A run of the orchestrator (see Orchestrator) is here a number of        *)
(* language-model calls followed by a result.  A call counts as one token. *)
(***************************************************************************)
EXTENDS Naturals, Sequences, FiniteSets

CONSTANTS
  Tabs,         \* browser tabs
  Asks,         \* the questions that are asked
  SessionIds,   \* what uid() returns, a fresh one each time
  PlanLengths,  \* the steps maybe_multi_step may plan; 0 is no plan
  MaxCalls,     \* bound of the model: language-model calls in one run
  MaxRestarts   \* bound of the model: restarts of the gateway

ASSUME GatewayAssumption ==
  /\ PlanLengths \subseteq Nat
  /\ MaxCalls \in Nat /\ MaxRestarts \in Nat

\* What _run_one returns: whether there is SQL, whether it returned rows, and
\* whether there is an error.  Only SQL that ran returns rows.
Results == {[sql |-> TRUE, rows |-> TRUE, err |-> FALSE],     \* answered
            [sql |-> TRUE, rows |-> FALSE, err |-> FALSE],    \* no rows
            [sql |-> TRUE, rows |-> FALSE, err |-> TRUE],     \* the database refused it
            [sql |-> FALSE, rows |-> FALSE, err |-> TRUE],    \* refused, asked back, raised
            [sql |-> FALSE, rows |-> FALSE, err |-> FALSE]}   \* no domain

Response == [usage : Nat, explainOk : BOOLEAN, err : BOOLEAN]
NoResponse == [usage |-> 0, explainOk |-> FALSE, err |-> FALSE]

VARIABLES
  tab,       \* the state of each page: its session id, its turns, loading
  used,      \* the session ids uid() has returned
  proxy,     \* the proxied call of each question
  ask,       \* the handler of each question
  tracker,   \* the calls recorded for each session the gateway has
  restarts   \* how often the gateway was restarted

vars == <<tab, used, proxy, ask, tracker, restarts>>

Turn == [ask : Asks, reply : {"none", "answer", "error"}]
Page == [session : SessionIds, turns : Seq(Turn), loading : BOOLEAN]

\* own: the calls made for this question; epoch: the restarts before it arrived.
Handler == [pc : {"new", "sent", "run", "viz", "answered", "dead"},
            by : Tabs, session : SessionIds, plan : Nat, calls : Nat, own : Nat,
            done : Nat, epoch : Nat, response : Response]

Sessions == DOMAIN tracker

-----------------------------------------------------------------------------

\* A page begins with a session id of its own and no turns.
PagesInit ==
  \E f \in [Tabs -> SessionIds] :
    /\ \A c, d \in Tabs : f[c] = f[d] => c = d
    /\ tab = [c \in Tabs |-> [session |-> f[c], turns |-> << >>, loading |-> FALSE]]
    /\ used = {f[c] : c \in Tabs}

Init ==
  /\ PagesInit
  /\ proxy = [a \in Asks |-> "idle"]
  /\ ask \in [Asks -> {[pc |-> "new", by |-> c, session |-> s, plan |-> 0, calls |-> 0,
                        own |-> 0, done |-> 0, epoch |-> 0, response |-> NoResponse] :
                       c \in Tabs, s \in SessionIds}]
  /\ \A a \in Asks : ask[a].session = tab[ask[a].by].session
  /\ tracker = << >>
  /\ restarts = 0

-----------------------------------------------------------------------------
(* The page and the proxy.                                                 *)

\* handleSend, when the input is not disabled.
Send(a) ==
  LET c == ask[a].by IN
  /\ ask[a].pc = "new" /\ ~tab[c].loading
  /\ tab' = [tab EXCEPT ![c].turns = Append(@, [ask |-> a, reply |-> "none"]),
                        ![c].loading = TRUE]
  /\ ask' = [ask EXCEPT ![a].pc = "sent", ![a].session = tab[c].session]
  /\ proxy' = [proxy EXCEPT ![a] = "waiting"]
  /\ UNCHANGED <<used, tracker, restarts>>

FaultyNewSession(c) ==
  /\ \E s \in SessionIds \ used :
       /\ tab' = [tab EXCEPT ![c].session = s]
       /\ used' = used \cup {s}
  /\ UNCHANGED <<proxy, ask, tracker, restarts>>
FaultyEnablingNewSession(c) ==
  /\ \E s \in SessionIds \ used :
       /\ tab' = [tab EXCEPT ![c] = [session |-> s, turns |-> << >>, loading |-> FALSE]]
       /\ used' = used \cup {s}
  /\ UNCHANGED <<proxy, ask, tracker, restarts>>

\* handleNewSession; the input stays disabled while a question is on its way.
NewSession(c) ==
  /\ \E s \in SessionIds \ used :
       /\ tab' = [tab EXCEPT ![c].session = s, ![c].turns = << >>]
       /\ used' = used \cup {s}
  /\ UNCHANGED <<proxy, ask, tracker, restarts>>

FaultyShow(a, reply) ==
  /\ tab' = [tab EXCEPT ![ask[a].by].turns =
                          [i \in DOMAIN @ |-> IF @[i].ask = a
                                                THEN [@[i] EXCEPT !.reply = reply]
                                                ELSE @[i]]]
  /\ proxy' = [proxy EXCEPT ![a] = "ended"]

\* The fetch ends: the turn with the id of the question gets the reply, if the
\* page still has it, and the input is enabled.
Show(a, reply) ==
  /\ tab' = [tab EXCEPT ![ask[a].by].turns =
                          [i \in DOMAIN @ |-> IF @[i].ask = a
                                                THEN [@[i] EXCEPT !.reply = reply]
                                                ELSE @[i]],
                        ![ask[a].by].loading = FALSE]
  /\ proxy' = [proxy EXCEPT ![a] = "ended"]

FaultyDeliver(a) ==
  /\ proxy[a] # "idle" /\ ask[a].pc = "answered"
  /\ Show(a, "answer")
  /\ UNCHANGED <<used, ask, tracker, restarts>>

\* The gateway's reply arrives, ...
Deliver(a) ==
  /\ proxy[a] = "waiting" /\ ask[a].pc = "answered"
  /\ Show(a, "answer")
  /\ UNCHANGED <<used, ask, tracker, restarts>>

\* ... or the time is up, or the connection is gone with the gateway.
GiveUp(a) ==
  /\ proxy[a] = "waiting"
  /\ Show(a, "error")
  /\ UNCHANGED <<used, ask, tracker, restarts>>

-----------------------------------------------------------------------------
(* The gateway.                                                            *)

\* _session, and the plan of the question.
Arrive(a) ==
  /\ ask[a].pc = "sent"
  /\ tracker' = IF ask[a].session \in Sessions THEN tracker
                ELSE [s \in Sessions \cup {ask[a].session} |->
                        IF s \in Sessions THEN tracker[s] ELSE 0]
  /\ \E n \in PlanLengths :
       ask' = [ask EXCEPT ![a].pc = "run", ![a].plan = n, ![a].epoch = restarts]
  /\ UNCHANGED <<tab, used, proxy, restarts>>

FaultyRecord(a, n) ==
  tracker' = [tracker EXCEPT ![ask[a].session] = ask[a].own + n]

\* TokenTracker.record, for the session of the question.
RecordCalls(a, n) == tracker' = [tracker EXCEPT ![ask[a].session] = @ + n]

\* A reply of a language model to the router or to an agent.
LLMReplies(a) ==
  /\ ask[a].pc = "run" /\ ask[a].calls < MaxCalls
  /\ ask' = [ask EXCEPT ![a].calls = @ + 1, ![a].own = @ + 1]
  /\ RecordCalls(a, 1)
  /\ UNCHANGED <<tab, used, proxy, restarts>>

FaultyUsage(a) == tracker[ask[a].session]

\* The usage a response reports: a snapshot of the session's tracker.
Usage(a) == tracker'[ask[a].session]

Answer(a, result) ==
  [usage |-> Usage(a),
   explainOk |-> ask[a].plan > 0 \/ (~result.err /\ result.sql),
   err |-> ask[a].plan = 0 /\ result.err]

\* One _run_one is over: the next step of the plan, or the response.
StepEnds(a, result, n) ==
  LET ended == [ask EXCEPT ![a].own = @ + n, ![a].calls = 0, ![a].done = @ + 1] IN
  ask' = IF ended[a].done < ask[a].plan
           THEN [ended EXCEPT ![a].pc = "run"]
           ELSE [ended EXCEPT ![a].pc = "answered", ![a].response = Answer(a, result)]

\* The orchestrator has returned or raised, and its SQL was executed; without
\* rows there is nothing to show.
RunEnds(a) ==
  /\ ask[a].pc = "run"
  /\ \E result \in Results :
       /\ ~result.rows
       /\ UNCHANGED tracker
       /\ StepEnds(a, result, 0)
  /\ UNCHANGED <<tab, used, proxy, restarts>>

\* With rows the selector of the chart is asked next, ...
RowsFetched(a) ==
  /\ ask[a].pc = "run"
  /\ ask' = [ask EXCEPT ![a].pc = "viz"]
  /\ UNCHANGED <<tab, used, proxy, tracker, restarts>>

\* ... and falls back on a table when its call fails or is not needed.
VizSelected(a) ==
  /\ ask[a].pc = "viz"
  /\ \E n \in {0, 1} :
       /\ RecordCalls(a, n)
       /\ StepEnds(a, [sql |-> TRUE, rows |-> TRUE, err |-> FALSE], n)
  /\ UNCHANGED <<tab, used, proxy, restarts>>

\* The process ends with all its sessions and handlers.
Restart ==
  /\ restarts < MaxRestarts
  /\ tracker' = << >>
  /\ ask' = [a \in Asks |-> IF ask[a].pc \in {"run", "viz"}
                              THEN [ask[a] EXCEPT !.pc = "dead"] ELSE ask[a]]
  /\ restarts' = restarts + 1
  /\ UNCHANGED <<tab, used, proxy>>

Handle(a) == LLMReplies(a) \/ RunEnds(a) \/ RowsFetched(a) \/ VizSelected(a)

Quiet == \A a \in Asks : ask[a].pc \in {"answered", "dead"} /\ proxy[a] = "ended"

Next ==
  \/ \E a \in Asks : Send(a) \/ Arrive(a) \/ Handle(a) \/ Deliver(a) \/ GiveUp(a)
  \/ \E c \in Tabs : NewSession(c)
  \/ Restart
  \/ Quiet /\ UNCHANGED vars

Spec == Init /\ [][Next]_vars

\* The fetch of a question ends: AbortSignal.timeout fires in the proxy whatever
\* the gateway does.
FairSpec == Spec /\ \A a \in Asks : WF_vars(Deliver(a) \/ GiveUp(a))

-----------------------------------------------------------------------------

\* The types of the page's, the proxy's and the gateway's state (page.tsx:15-27,
\* main.py:62, token_tracker.py:37-40).
TypeOK ==
  /\ tab \in [Tabs -> Page]
  /\ used \subseteq SessionIds
  /\ proxy \in [Asks -> {"idle", "waiting", "ended"}]
  /\ ask \in [Asks -> Handler]
  /\ DOMAIN tracker \subseteq SessionIds /\ \A s \in Sessions : tracker[s] \in Nat
  /\ restarts \in 0..MaxRestarts

\* No call is lost and none is counted twice, however the questions of a session
\* overlap: a session's tracker holds the calls made for its questions since the
\* gateway was started, the ones the user has given up on included
\* (token_tracker.py:42-49, main.py:102-136).
Since(s) == {a \in Asks : /\ ask[a].session = s /\ ask[a].epoch = restarts
                          /\ ask[a].pc \in {"run", "viz", "answered"}}
CallsOf(s) == UNION {{<<a, n>> : n \in 1..ask[a].own} : a \in Since(s)}
CallsAccounted == \A s \in Sessions : tracker[s] = Cardinality(CallsOf(s))

\* The usage a response reports covers every call of its own question, the one
\* for the chart included (main.py:280-297).
UsageCovers ==
  \A a \in Asks : ask[a].pc = "answered" => ask[a].response.usage >= ask[a].own

\* A page shows questions of its own session only, each once, and under a
\* question the answer to that question: a reply that comes after "new session"
\* finds no turn and is dropped (page.tsx:32-69).
TurnsMatch ==
  \A c \in Tabs : \A i \in DOMAIN tab[c].turns :
    LET turn == tab[c].turns[i] IN
    /\ ask[turn.ask].by = c /\ ask[turn.ask].session = tab[c].session
    /\ \A j \in DOMAIN tab[c].turns : tab[c].turns[j].ask = turn.ask => i = j
    /\ turn.reply = "answer" => ask[turn.ask].pc = "answered"
    /\ turn.reply = "none" <=> proxy[turn.ask] = "waiting"

\* The input is disabled exactly while a question of the page is on its way, so
\* a page never waits for two (page.tsx:32-63, ChatInput.tsx:21-26).
OneOnItsWay ==
  \A c \in Tabs :
    Cardinality({a \in Asks : ask[a].by = c /\ proxy[a] = "waiting"})
      = IF tab[c].loading THEN 1 ELSE 0

\* A reply under a question stays: a late answer does not replace the error the
\* user has seen, and nothing but "new session" takes a turn away
\* (page.tsx:44-58).
RepliesStay ==
  [][\A c \in Tabs : \A i \in DOMAIN tab[c].turns :
       tab[c].turns[i].reply # "none" =>
         tab'[c].session # tab[c].session \/ tab'[c].turns[i] = tab[c].turns[i]]_vars

\* A page does not wait for ever, even when the gateway has died with the
\* question (route.ts:21, page.tsx:60-62).
InputComesBack == \A c \in Tabs : tab[c].loading ~> ~tab[c].loading

=============================================================================
