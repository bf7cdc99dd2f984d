--------------------------- MODULE OrchestratorProofs ---------------------------
(***************************************************************************)
(* For any number of requests, sessions and domains, any window and any    *)
(* limit of attempts: an answer without an error is sound, a query uses    *)
(* the attempts it has, the turns in the memory are those of answers, none *)
(* is lost while there is room, a follow-up is answered on the domains of  *)
(* one, and the log of a session has the whole trail of each query         *)
(* (Orchestrator).                                                         *)
(*                                                                         *)
(* The first two are about one request, and other requests change nothing  *)
(* of it but the turns it may carry over.  Their invariant says what the   *)
(* state of a request tells at each place of the pipeline.                 *)
(***************************************************************************)
EXTENDS Orchestrator, SequenceTheorems, FiniteSetTheorems, TLAPS

\* Where a request may be; where its intent is a supply-chain question; where the
\* graph is about to end or has ended.
Places == {"new", "classify", "route", "generate", "agents", "comply", "validate",
           "respond", "record", "done", "failed"}
Working == {"route", "generate", "agents", "comply", "validate"}
Over == {"respond", "record", "done"}

\* What an answer without issues has to show for itself.
Sound(r, s) ==
  /\ s.sql.text # "none" /\ s.sql.by = s.attempt
  /\ HasValidator =>
       /\ s.sql.text = "good"
       /\ s.rows = IF Execute THEN s.attempt ELSE 0
       /\ HasCompliance /\ r \notin Privileged => s.sql.filtered

\* What is known of request r when it is at p with the state s.
Good(r, p, s) ==
  /\ s.attempt <= IF MaxAttempts = 0 THEN 1 ELSE MaxAttempts
  /\ p \in {"new", "classify", "route"} => s.attempt = 0
  /\ p = "generate" => s.attempt = 0 \/ s.attempt < MaxAttempts
  /\ p \in {"agents", "comply", "validate"} => s.attempt > 0
  /\ p \in Working => s.intent = Supply
  /\ p \in {"comply", "validate"} /\ s.sql.text # "none" => s.sql.by = s.attempt
  /\ p = "validate" /\ HasCompliance /\ r \notin Privileged /\ s.sql.text = "good"
       => s.sql.filtered
  /\ p \in Over =>
       /\ s.attempt > 0 => s.intent = Supply /\ (s.issues => s.attempt >= MaxAttempts)
       /\ s.intent = Supply /\ s.domains # << >> /\ ~s.issues => Sound(r, s)
  /\ p \in {"record", "done"} => (s.error <=> s.intent # Supply \/ s.issues)

\* The types of the requests and of the sessions they read.
Typed ==
  /\ pc \in [Requests -> Places]
  /\ st \in [Requests -> AgentState]
  /\ session \in [SessionIds -> Memory!Session]

\* The inductive invariant: AnswerSound and UsesItsAttempts follow from it, and
\* neither is inductive, because both speak of the answer only.
IInv == Typed /\ \A r \in Requests : Good(r, pc[r], st[r])

-----------------------------------------------------------------------------
(* The turns of the memory stay turns.                                     *)

\* An element of a sequence is in the set of its elements.
LEMMA IsInItsSet == ASSUME NEW S, NEW seq \in Seq(S), NEW i \in DOMAIN seq PROVE seq[i] \in S
OBVIOUS

\* A session nobody used is a session.
LEMMA NewSessionType == Memory!NewSession \in Memory!Session
BY DEF Memory!NewSession, Memory!Session

\* A slice of a sequence is a sequence of the same set.
LEMMA SlicesType ==
  ASSUME NEW S, NEW seq \in Seq(S), NEW n \in Nat
  PROVE  Memory!LastN(seq, n) \in Seq(S) /\ Memory!AllButLastN(seq, n) \in Seq(S)
BY DEF Memory!LastN, Memory!AllButLastN

\* A session that gets a turn is a session, compressed or not.
LEMMA AddTurnType ==
  ASSUME NEW ses \in Memory!Session, NEW e \in Turns
  PROVE  Memory!AddTurn(ses, e) \in Memory!Session
<1> DEFINE turn == [id |-> Memory!NextTurnId(ses), entry |-> e]
           longer == [ses EXCEPT !.turns = Append(ses.turns, turn)]
<1>1. ses.turns \in Seq(Memory!Turn) /\ ses.older \in Seq(Memory!Turn)
  BY DEF Memory!Session
<1>2. Memory!NextTurnId(ses) \in Nat \ {0}
  BY <1>1 DEF Memory!NextTurnId
<1>3. turn \in Memory!Turn
  BY <1>2 DEF Memory!Turn
<1>4. Append(ses.turns, turn) \in Seq(Memory!Turn)
  BY <1>1, <1>3
<1> HIDE DEF turn
<1>5. longer \in Memory!Session
  BY <1>4 DEF Memory!Session
<1>6. longer.turns \in Seq(Memory!Turn) /\ longer.older \in Seq(Memory!Turn)
  BY <1>5 DEF Memory!Session
<1>7. Memory!AddTurn(ses, e) = Memory!Compress(longer)
  BY DEF Memory!AddTurn, turn
<1> HIDE DEF longer
<1>8. /\ Memory!LastN(longer.turns, Window) \in Seq(Memory!Turn)
      /\ Memory!AllButLastN(longer.turns, Window) \in Seq(Memory!Turn)
  BY <1>6, SlicesType, OrchestratorAssumption DEF OrchestratorAssumption
<1>9. Memory!Compress(longer) \in Memory!Session
  BY <1>5, <1>6, <1>8 DEF Memory!Compress, Memory!Session
<1> QED BY <1>7, <1>9

\* Recording a turn keeps every session of the memory one.
LEMMA RecordTurnType ==
  ASSUME session \in [SessionIds -> Memory!Session], NEW s \in SessionIds, NEW e \in Turns,
         Memory!RecordTurn(s, e)
  PROVE  session' \in [SessionIds -> Memory!Session]
<1> DEFINE longer == [session EXCEPT ![s] = Memory!AddTurn(session[s], e)]
<1>1. session' = Memory!Kept(keys', longer)
  BY DEF Memory!RecordTurn
<1>2. longer \in [SessionIds -> Memory!Session]
  BY AddTurnType
<1> HIDE DEF longer
<1> QED BY <1>1, <1>2, NewSessionType DEF Memory!Kept

\* The last of the turns a request may carry over has domains.
LEMMA PriorTurnsType ==
  ASSUME session \in [SessionIds -> Memory!Session], st \in [Requests -> AgentState],
         NEW r \in Requests, PriorTurns(r) # << >>
  PROVE  Last(PriorTurns(r)).entry.domains \in Seq(Domains)
<1>1. st[r].session \in SessionIds
  BY DEF AgentState
<1>2. session[st[r].session].turns \in Seq(Memory!Turn)
  BY <1>1 DEF Memory!Session
<1>3. PriorTurns(r) \in Seq(Memory!Turn)
  BY <1>2, SlicesType, OrchestratorAssumption
     DEF PriorTurns, Memory!ActiveWindow, OrchestratorAssumption
<1>4. Len(PriorTurns(r)) \in DOMAIN PriorTurns(r)
  BY <1>3
<1>5. Last(PriorTurns(r)) \in Memory!Turn
  BY <1>3, <1>4 DEF Last
<1> QED BY <1>5 DEF Memory!Turn, Turns

-----------------------------------------------------------------------------
(* One step of one request.                                                *)

\* A node that leaves its request as it should be leaves all of them so.
LEMMA UpdateKeeps ==
  ASSUME IInv, NEW r \in Requests, NEW new \in AgentState, NEW p \in Places,
         Update(r, new, p), Good(r, p, new), session' \in [SessionIds -> Memory!Session]
  PROVE  IInv'
<1>1. Typed'
  BY DEF IInv, Typed, Update
<1>2. \A q \in Requests : Good(q, pc'[q], st'[q])
  <2> TAKE q \in Requests
  <2>1. CASE q = r
    BY <2>1 DEF IInv, Typed, Update
  <2>2. CASE q # r
    <3>1. pc'[q] = pc[q] /\ st'[q] = st[q]
      BY <2>2 DEF IInv, Typed, Update
    <3> QED BY <3>1 DEF IInv
  <2> QED BY <2>1, <2>2
<1> QED BY <1>1, <1>2 DEF IInv, Good, Sound

\* What the invariant says of one request.
LEMMA OneRequest ==
  ASSUME IInv, NEW r \in Requests
  PROVE  /\ pc[r] \in Places /\ st[r] \in AgentState /\ Good(r, pc[r], st[r])
         /\ session \in [SessionIds -> Memory!Session]
BY DEF IInv, Typed

\* A request that fails keeps its state.
LEMMA RaiseKeeps ==
  ASSUME IInv, NEW r \in Requests, Raise(r), UNCHANGED <<st, session>>
  PROVE  IInv'
<1>1. Update(r, st[r], "failed")
  BY DEF Raise, Update, IInv, Typed
<1>2. Good(r, "failed", st[r])
  BY OneRequest DEF Good, Working, Over
<1>3. "failed" \in Places
  BY DEF Places
<1> QED BY <1>1, <1>2, <1>3, OneRequest, UpdateKeeps

\* Every request starts in the invariant: no attempt has been made.
LEMMA InitIInv == Init => IInv
<1> SUFFICES ASSUME Init PROVE IInv
  OBVIOUS
<1>1. Memory!NewSession \in Memory!Session
  BY NewSessionType
<1>2. session \in [SessionIds -> Memory!Session]
  BY <1>1 DEF Init, Memory!Init
<1>3. \A s \in SessionIds : FreshState(s, FALSE) \in AgentState
  BY DEF FreshState, AgentState, NoSQL, SQL, Texts, Intents, Supply
<1>4. st \in [Requests -> AgentState]
  BY <1>3 DEF Init
<1>5. pc \in [Requests -> Places] /\ \A r \in Requests : pc[r] = "new"
  BY DEF Init, Places
<1>6. \A r \in Requests : st[r].attempt = 0
  <2> TAKE r \in Requests
  <2>1. PICK s \in SessionIds : st[r] = FreshState(s, FALSE)
    BY DEF Init
  <2> QED BY <2>1 DEF FreshState
<1>7. \A r \in Requests : Good(r, pc[r], st[r])
  BY <1>5, <1>6, OrchestratorAssumption DEF Good, Working, Over, OrchestratorAssumption
<1> QED BY <1>2, <1>4, <1>5, <1>7 DEF IInv, Typed

\* A query starts with a fresh state.
LEMMA SubmitKeeps ==
  ASSUME IInv, NEW r \in Requests, Submit(r) PROVE IInv'
<1>1. PICK f \in BOOLEAN : Update(r, FreshState(st[r].session, f), "classify")
  BY DEF Submit
<1> DEFINE new == FreshState(st[r].session, f)
<1>2. st[r].session \in SessionIds
  BY OneRequest DEF AgentState
<1>3. new \in AgentState
  BY <1>2 DEF FreshState, AgentState, NoSQL, SQL, Texts, Intents, Supply
<1>4. new.attempt = 0
  BY DEF FreshState
<1> HIDE DEF new
<1>5. Good(r, "classify", new)
  BY <1>4, OrchestratorAssumption DEF Good, Working, Over, OrchestratorAssumption
<1>6. "classify" \in Places /\ session' = session
  BY DEF Places, Submit, UnchangedMemory
<1> QED BY <1>1, <1>3, <1>5, <1>6, OneRequest, UpdateKeeps DEF new

\* Whatever the router decides, and whether it is carried over or asked back,
\* only a supply-chain question with domains goes on, and none has used an attempt.
LEMMA ClassifiedKeeps ==
  ASSUME IInv, NEW r \in Requests, Classified(r) PROVE IInv'
<1> DEFINE intentOf(decision, asks) ==
             IF asks THEN Clarify ELSE Carried(r, decision).intent
           new(decision, asks) ==
             [st[r] EXCEPT !.routed = decision.intent, !.intent = intentOf(decision, asks),
                           !.domains = Carried(r, decision).domains]
           next(decision, asks) ==
             IF intentOf(decision, asks) = Supply /\ Carried(r, decision).domains # << >>
               THEN "route" ELSE "respond"
<1>1. PICK decision \in Decisions, asks \in Asks :
        Update(r, new(decision, asks), next(decision, asks))
  BY DEF Classified
<1>2. decision.intent \in Intents /\ decision.domains \in Seq(Domains) /\ asks \in BOOLEAN
  BY OrchestratorAssumption DEF OrchestratorAssumption
<1>3. Carried(r, decision).intent \in Intents /\ Carried(r, decision).domains \in Seq(Domains)
  <2>1. CASE CarriesOver(r, decision)
    <3>1. Last(PriorTurns(r)).entry.domains \in Seq(Domains)
      BY <2>1, PriorTurnsType DEF CarriesOver, IInv, Typed
    <3> QED BY <2>1, <3>1 DEF Carried, Intents
  <2>2. CASE ~CarriesOver(r, decision)
    BY <1>2, <2>2 DEF Carried
  <2> QED BY <2>1, <2>2
<1>4. intentOf(decision, asks) \in Intents
  BY <1>2, <1>3 DEF Intents
<1> DEFINE s == new(decision, asks)
<1> HIDE DEF intentOf
<1>5. /\ s \in AgentState /\ s.attempt = st[r].attempt
      /\ s.intent = intentOf(decision, asks) /\ s.domains = Carried(r, decision).domains
  BY <1>2, <1>3, <1>4, OneRequest DEF AgentState
<1>6. st[r].attempt = 0
  BY OneRequest DEF Good, Classified
<1> HIDE DEF s
<1>7. Good(r, next(decision, asks), s)
  BY <1>5, <1>6, OrchestratorAssumption DEF Good, Working, Over, OrchestratorAssumption
<1>8. next(decision, asks) \in Places /\ session' = session
  BY DEF Places, Classified, UnchangedMemory
<1> HIDE DEF next
<1> QED BY <1>1, <1>5, <1>7, <1>8, OneRequest, UpdateKeeps DEF s

\* The sub-queries change nothing the invariant speaks of.
LEMMA RouteKeeps ==
  ASSUME IInv, NEW r \in Requests, Route(r) PROVE IInv'
<1> DEFINE new == [st[r] EXCEPT !.subs = st[r].domains]
<1>1. new \in AgentState /\ new.attempt = st[r].attempt /\ new.intent = st[r].intent
  BY OneRequest DEF AgentState
<1>2. Update(r, new, "generate") /\ pc[r] = "route" /\ session' = session
  BY DEF Route, UnchangedMemory
<1> HIDE DEF new
<1>3. Good(r, "generate", new)
  BY <1>1, <1>2, OneRequest, OrchestratorAssumption
     DEF Good, Working, Over, OrchestratorAssumption
<1>4. "generate" \in Places
  BY DEF Places
<1> QED BY <1>1, <1>2, <1>3, <1>4, OneRequest, UpdateKeeps

\* A new attempt is counted, and generate is only entered when one is left.
LEMMA GenerateKeeps ==
  ASSUME IInv, NEW r \in Requests, Generate(r) PROVE IInv'
<1> DEFINE next == st[r].attempt + 1
           no == << >>
           new == [st[r] EXCEPT !.attempt = next, !.outputs = no]
<1>1. /\ st[r].attempt \in Nat /\ next \in Nat /\ next = st[r].attempt + 1
      /\ no \in Seq([domain : Domains, text : Texts])
  BY OneRequest DEF AgentState
<1> HIDE DEF next, no
<1>2. new \in AgentState /\ new.attempt = next /\ new.intent = st[r].intent
  BY <1>1, OneRequest DEF AgentState
<1>3. Update(r, new, "agents") /\ pc[r] = "generate" /\ session' = session
  BY DEF Generate, UnchangedMemory, next, no
<1> HIDE DEF new
<1>4. Good(r, "agents", new)
  BY <1>1, <1>2, <1>3, OneRequest, OrchestratorAssumption
     DEF Good, Working, Over, OrchestratorAssumption
<1>5. "agents" \in Places
  BY DEF Places
<1> QED BY <1>2, <1>3, <1>4, <1>5, OneRequest, UpdateKeeps

\* An agent's output changes nothing else.
LEMMA OutputKeeps ==
  ASSUME IInv, NEW r \in Requests, AgentsLeft(r), NEW text \in Texts, Output(r, text),
         UNCHANGED session
  PROVE  IInv'
<1> DEFINE output == [domain |-> NextDomain(r), text |-> text]
           new == [st[r] EXCEPT !.outputs = Append(st[r].outputs, output)]
<1>1. /\ st[r].outputs \in Seq([domain : Domains, text : Texts])
      /\ st[r].subs \in Seq(Domains)
  BY OneRequest DEF AgentState
<1>2. NextDomain(r) \in Domains
  BY <1>1 DEF NextDomain, AgentsLeft
<1>3. Append(st[r].outputs, output) \in Seq([domain : Domains, text : Texts])
  BY <1>1, <1>2
<1> HIDE DEF output
<1>4. new \in AgentState /\ new.attempt = st[r].attempt /\ new.intent = st[r].intent
  BY <1>3, OneRequest DEF AgentState
<1>5. Update(r, new, "agents") /\ pc[r] = "agents"
  BY DEF Output, AgentsLeft, output
<1> HIDE DEF new
<1>6. Good(r, "agents", new)
  BY <1>4, <1>5, OneRequest DEF Good, Working, Over
<1>7. "agents" \in Places
  BY DEF Places
<1> QED BY <1>4, <1>5, <1>6, <1>7, OneRequest, UpdateKeeps

\* What the composer makes of typed outputs is a text.
LEMMA ComposedType ==
  ASSUME IInv, NEW r \in Requests PROVE Composed(r) \in Texts
<1>1. \A i \in DOMAIN st[r].outputs : Text(r, i) \in Texts
  <2> DEFINE outs == st[r].outputs
             output == [domain : Domains, text : Texts]
  <2> SUFFICES ASSUME NEW i \in DOMAIN outs PROVE outs[i].text \in Texts
    BY DEF Text
  <2>1. outs \in Seq(output)
    BY OneRequest DEF AgentState
  <2> HIDE DEF outs, output
  <2>2. outs[i] \in output
    BY <2>1, IsInItsSet
  <2> QED BY <2>2 DEF output
<1>2. Fragments(r) # {} => Text(r, CHOOSE i \in Fragments(r) : TRUE) \in Texts
  BY <1>1 DEF Fragments
<1>3. {"none", "good", "forbidden", "untokenizable"} \subseteq Texts
  BY DEF Texts
<1>4. CASE Fragments(r) = {}
  <2>1. ~Several(r)
    BY <1>4 DEF Several
  <2> QED BY <1>3, <1>4, <2>1 DEF Composed
<1>5. CASE Fragments(r) # {} /\ ~Several(r)
  BY <1>2, <1>5 DEF Composed
<1>6. CASE Several(r)
  <2>1. Fragments(r) # {}
    BY <1>6 DEF Several
  <2>2. CASE Rejected(r) = {}
    BY <1>3, <1>6, <2>1, <2>2 DEF Composed
  <2>3. CASE Rejected(r) # {}
    BY <1>3, <1>6, <2>1, <2>3 DEF Composed
  <2> QED BY <2>2, <2>3
<1> QED BY <1>4, <1>5, <1>6

\* The composer's statement carries the attempt it was composed in.
LEMMA ComposeKeeps ==
  ASSUME IInv, NEW r \in Requests, Compose(r) PROVE IInv'
<1> DEFINE sql == IF Composed(r) = "none" THEN NoSQL
                  ELSE [by |-> st[r].attempt, text |-> Composed(r), filtered |-> FALSE]
           new == [st[r] EXCEPT !.sql = sql]
<1>1. st[r].attempt \in Nat /\ Composed(r) \in Texts
  BY OneRequest, ComposedType DEF AgentState
<1>2. sql \in SQL
  BY <1>1 DEF NoSQL, SQL, Texts
<1>3. sql.text # "none" => sql.by = st[r].attempt
  BY <1>1 DEF NoSQL
<1> HIDE DEF sql
<1>4. /\ new \in AgentState /\ new.sql = sql
      /\ new.attempt = st[r].attempt /\ new.intent = st[r].intent
  BY <1>2, OneRequest DEF AgentState
<1>5. Update(r, new, "comply") /\ pc[r] = "agents" /\ session' = session
  BY DEF Compose, AllAnswered, UnchangedMemory, sql
<1> HIDE DEF new
<1>6. Good(r, "comply", new)
  BY <1>3, <1>4, <1>5, OneRequest DEF Good, Working, Over
<1>7. "comply" \in Places
  BY DEF Places
<1> QED BY <1>4, <1>5, <1>6, <1>7, OneRequest, UpdateKeeps

\* A statement that parses leaves compliance with the row filters.
LEMMA ComplyKeeps ==
  ASSUME IInv, NEW r \in Requests, Comply(r) PROVE IInv'
<1> DEFINE filters == Audited(r) /\ r \notin Privileged
           new == [st[r] EXCEPT !.sql.filtered = filters]
<1>1. filters \in BOOLEAN
  BY DEF Audited
<1>2. /\ HasCompliance /\ r \notin Privileged /\ st[r].sql.text = "good" => filters
  BY DEF Audited
<1>3. st[r].sql \in SQL
  BY OneRequest DEF AgentState
<1> HIDE DEF filters
<1>4. [st[r].sql EXCEPT !.filtered = filters] \in SQL
  BY <1>1, <1>3 DEF SQL
<1>5. new \in AgentState
  BY <1>4, OneRequest DEF AgentState
<1>6. /\ new.attempt = st[r].attempt /\ new.intent = st[r].intent
      /\ new.sql.by = st[r].sql.by /\ new.sql.text = st[r].sql.text
      /\ new.sql.filtered = filters
  BY <1>3, OneRequest DEF AgentState, SQL
<1>7. Update(r, new, "validate") /\ pc[r] = "comply" /\ session' = session
  BY DEF Comply, UnchangedMemory, filters
<1> HIDE DEF new
<1>8. Good(r, "validate", new)
  BY <1>2, <1>6, <1>7, OneRequest DEF Good, Working, Over
<1>9. "validate" \in Places
  BY DEF Places
<1> QED BY <1>5, <1>7, <1>8, <1>9, OneRequest, UpdateKeeps

\* A verdict of the validator: the request is answered with what it found, or
\* tried again while it may.
LEMMA ValidatedKeeps ==
  ASSUME IInv, NEW r \in Requests, pc[r] = "validate",
         NEW issues \in BOOLEAN, NEW rows \in Nat, NEW new,
         new = [st[r] EXCEPT !.issues = issues, !.rows = rows],
         Validated(r, new),
         issues \/ Sound(r, new)
  PROVE  IInv'
<1>1. /\ new \in AgentState /\ new.issues = issues /\ new.sql = st[r].sql
      /\ new.attempt = st[r].attempt /\ new.intent = st[r].intent
  BY OneRequest DEF AgentState
<1>2. Update(r, new, AfterValidate(new)) /\ session' = session
  BY DEF Validated, UnchangedMemory
<1>3. st[r].attempt \in Nat
  BY OneRequest DEF AgentState
<1>4. Good(r, AfterValidate(new), new)
  BY <1>1, <1>3, OneRequest, OrchestratorAssumption
     DEF Good, Working, Over, AfterValidate, OrchestratorAssumption
<1>5. AfterValidate(new) \in Places
  BY DEF AfterValidate, Places
<1> QED BY <1>1, <1>2, <1>4, <1>5, OneRequest, UpdateKeeps

\* Without SQL there is an issue; without a validator there is nothing to ask of
\* SQL that is there.
LEMMA ValidateUnreadKeeps ==
  ASSUME IInv, NEW r \in Requests, ValidateUnread(r) PROVE IInv'
<1> DEFINE issues == st[r].sql.text = "none"
           new == [st[r] EXCEPT !.issues = issues, !.rows = st[r].rows]
<1>1. st[r].rows \in Nat /\ issues \in BOOLEAN
  BY OneRequest DEF AgentState
<1>2. new = [st[r] EXCEPT !.issues = issues]
  BY OneRequest DEF AgentState
<1>3. Validated(r, new) /\ pc[r] = "validate" /\ (issues \/ ~HasValidator)
  BY <1>2 DEF ValidateUnread
<1>4. new.sql = st[r].sql /\ new.attempt = st[r].attempt
  BY OneRequest DEF AgentState
<1>5. issues \/ Sound(r, new)
  BY <1>3, <1>4, OneRequest DEF Sound, Good
<1> HIDE DEF issues
<1> QED BY <1>1, <1>3, <1>5, ValidatedKeeps

\* A statement the validator rejects has issues.
LEMMA RejectsKeeps ==
  ASSUME IInv, NEW r \in Requests, NEW texts, Rejects(r, texts) PROVE IInv'
<1> DEFINE new == [st[r] EXCEPT !.issues = TRUE, !.rows = 0]
<1>1. Validated(r, new) /\ pc[r] = "validate"
  BY DEF Rejects
<1>2. TRUE \in BOOLEAN /\ 0 \in Nat
  OBVIOUS
<1> HIDE DEF Validated
<1> QED BY <1>1, <1>2, ValidatedKeeps

\* A statement the validator accepts is sound: its rows are its own.
LEMMA AcceptKeeps ==
  ASSUME IInv, NEW r \in Requests, Accept(r) PROVE IInv'
<1> DEFINE rows == IF Execute THEN st[r].sql.by ELSE 0
           new(b) == [st[r] EXCEPT !.issues = b, !.rows = rows]
<1>1. PICK business \in BusinessIssues : Validated(r, new(business))
  BY DEF Accept
<1>2. business \in BOOLEAN
  BY DEF BusinessIssues
<1>3. st[r].sql \in SQL /\ st[r].sql.text = "good" /\ pc[r] = "validate"
  BY OneRequest DEF AgentState, Accept
<1>4. rows \in Nat /\ rows = IF Execute THEN st[r].sql.by ELSE 0
  BY <1>3 DEF SQL
<1> HIDE DEF rows
<1> DEFINE s == new(business)
<1>5. s.sql = st[r].sql /\ s.attempt = st[r].attempt /\ s.rows = rows
  BY OneRequest DEF AgentState
<1>6. Sound(r, s)
  BY <1>3, <1>4, <1>5, OneRequest DEF Sound, Good
<1> QED BY <1>1, <1>2, <1>3, <1>4, <1>6, ValidatedKeeps

\* The answer's error says whether there are issues.
LEMMA RespondKeeps ==
  ASSUME IInv, NEW r \in Requests, Respond(r) PROVE IInv'
<1> DEFINE error == st[r].intent # Supply \/ st[r].issues
           new == [st[r] EXCEPT !.error = error]
<1>1. error \in BOOLEAN
  BY OneRequest DEF AgentState
<1>2. error <=> st[r].intent # Supply \/ st[r].issues
  OBVIOUS
<1> HIDE DEF error
<1>3. new \in AgentState
  BY <1>1, OneRequest DEF AgentState
<1>4. /\ new.error = error /\ new.issues = st[r].issues /\ new.attempt = st[r].attempt
      /\ new.intent = st[r].intent /\ new.domains = st[r].domains
      /\ new.sql = st[r].sql /\ new.rows = st[r].rows
  BY OneRequest DEF AgentState
<1>5. Update(r, new, "record") /\ pc[r] = "respond" /\ session' = session
  BY DEF Respond, UnchangedMemory, error
<1> HIDE DEF new
<1>6. Good(r, "respond", st[r])
  BY <1>5, OneRequest
<1>7. Good(r, "record", new)
  BY <1>2, <1>4, <1>6 DEF Good, Working, Over, Sound
<1>8. "record" \in Places
  BY DEF Places
<1> QED BY <1>3, <1>5, <1>7, <1>8, OneRequest, UpdateKeeps

\* Recording the turn leaves the request as it ended.
LEMMA RecordKeeps ==
  ASSUME IInv, NEW r \in Requests, Record(r) PROVE IInv'
<1>1. st[r].session \in SessionIds /\ TurnOf(r) \in Turns
  <2>1. /\ st[r].session \in SessionIds /\ st[r].domains \in Seq(Domains)
        /\ st[r].sql \in SQL /\ st[r].rows \in Nat
    BY OneRequest DEF AgentState
  <2>2. st[r].sql.by \in Nat
    BY <2>1 DEF SQL
  <2> QED BY <2>1, <2>2 DEF TurnOf, Turns
<1>2. session' \in [SessionIds -> Memory!Session]
  <2>1. CASE st[r].intent = Supply
    BY <1>1, <2>1, OneRequest, RecordTurnType DEF Record
  <2>2. CASE st[r].intent # Supply
    BY <2>2, OneRequest DEF Record, UnchangedMemory
  <2> QED BY <2>1, <2>2
<1>3. Update(r, st[r], "done")
  BY DEF Record, Update, IInv, Typed
<1>4. Good(r, "done", st[r])
  BY OneRequest DEF Good, Working, Over, Record
<1>5. "done" \in Places
  BY DEF Places
<1> QED BY <1>2, <1>3, <1>4, <1>5, OneRequest, UpdateKeeps

\* Every step of every request keeps the invariant.
LEMMA NextIInv == IInv /\ [Next]_vars => IInv'
<1> SUFFICES ASSUME IInv, [Next]_vars PROVE IInv'
  OBVIOUS
<1>1. CASE UNCHANGED vars
  BY <1>1 DEF vars, IInv, Typed, Good, Sound
<1>2. ASSUME NEW r \in Requests, Submit(r) \/ Step(r) PROVE IInv'
  <2>1. CASE Submit(r)
    BY <2>1, SubmitKeeps
  <2>2. CASE Classified(r)
    BY <2>2, ClassifiedKeeps
  <2>3. CASE TemporalRaises(r) \/ ParserRaises(r)
    BY <2>3, RaiseKeeps DEF TemporalRaises, ParserRaises
  <2>4. CASE Route(r)
    BY <2>4, RouteKeeps
  <2>5. CASE Generate(r)
    BY <2>5, GenerateKeeps
  <2>6. CASE NoAnswer(r)
    <3>1. "none" \in Texts
      BY DEF Texts
    <3> QED BY <2>6, <3>1, OutputKeeps DEF NoAnswer, UnchangedMemory
  <2>7. CASE AgentReplies(r)
    <3>1. PICK text \in Replies : Output(r, text)
      BY <2>7 DEF AgentReplies
    <3>2. text \in Texts
      BY OrchestratorAssumption DEF OrchestratorAssumption
    <3> QED BY <2>7, <3>1, <3>2, OutputKeeps DEF AgentReplies, UnchangedMemory
  <2>8. CASE Compose(r)
    BY <2>8, ComposeKeeps
  <2>9. CASE Comply(r)
    BY <2>9, ComplyKeeps
  <2>10. CASE ValidateUnread(r)
    BY <2>10, ValidateUnreadKeeps
  <2>11. CASE RejectSyntax(r) \/ RejectExecution(r)
    BY <2>11, RejectsKeeps DEF RejectSyntax, RejectExecution
  <2>12. CASE Accept(r)
    BY <2>12, AcceptKeeps
  <2>13. CASE Respond(r)
    BY <2>13, RespondKeeps
  <2>14. CASE Record(r)
    BY <2>14, RecordKeeps
  <2> QED BY <1>2, <2>1, <2>2, <2>3, <2>4, <2>5, <2>6, <2>7, <2>8, <2>9, <2>10, <2>11,
             <2>12, <2>13, <2>14 DEF Step
<1> QED BY <1>1, <1>2 DEF Next, AllEnded

\* The invariant holds throughout.
LEMMA Invariance == Spec => []IInv
BY InitIInv, NextIInv, PTL DEF Spec

\* An answer without an error shows the SQL of its last attempt, accepted by the
\* validator and with the user's row filters, and rows of no other attempt, for
\* any replies and any number of overlapping queries (orchestrator.py:155-172,
\* 389-413).
THEOREM AnswersAreSound == Spec => []AnswerSound
<1>1. IInv => AnswerSound
  <2> SUFFICES ASSUME IInv, NEW r \in Requests,
                      Answered(r), ~st[r].error, st[r].domains # << >>
               PROVE  Sound(r, st[r])
    BY DEF AnswerSound, Sound
  <2>1. pc[r] \in Over /\ pc[r] \in {"record", "done"}
    BY DEF Answered, Over
  <2> QED BY <2>1, OneRequest DEF Good
<1> QED BY <1>1, Invariance, PTL

\* Self-correction makes no more attempts than it may, and an answer with issues
\* has used them all (orchestrator.py:294-299, 479-484).
THEOREM AttemptsAreUsed == Spec => []UsesItsAttempts
<1>1. IInv => UsesItsAttempts
  <2> SUFFICES ASSUME IInv, NEW r \in Requests
               PROVE  /\ st[r].attempt <= IF MaxAttempts = 0 THEN 1 ELSE MaxAttempts
                      /\ Answered(r) /\ st[r].attempt > 0 /\ st[r].error
                           => st[r].attempt >= MaxAttempts
    BY DEF UsesItsAttempts
  <2>1. Answered(r) => pc[r] \in Over /\ pc[r] \in {"record", "done"}
    BY DEF Answered, Over
  <2> QED BY <2>1, OneRequest DEF Good
<1> QED BY <1>1, Invariance, PTL

-----------------------------------------------------------------------------
(* Which turns the memory holds, and on whose domains a follow-up is       *)
(* answered.  Only Record adds a turn, and a request that is done never    *)
(* changes again.                                                          *)

\* The memory's own lemmas, about the turns of this module.
MemoryProofs == INSTANCE ConversationMemoryProofs WITH Entries <- Turns, MaxTurns <- 0, lastUse <- 0

\* A session that gets a turn has it after all it had, compressed or not.
LEMMA TurnIsAppended ==
  ASSUME NEW ses \in Memory!Session, NEW e \in Turns
  PROVE  Memory!Whole(Memory!AddTurn(ses, e)) =
           Append(Memory!Whole(ses), [id |-> Memory!NextTurnId(ses), entry |-> e])
<1>1. MemoryProofs!MemoryAssumption
  BY OrchestratorAssumption DEF MemoryProofs!MemoryAssumption, OrchestratorAssumption
<1>2. ses \in MemoryProofs!Session
  BY DEF MemoryProofs!Session, MemoryProofs!Turn, Memory!Session, Memory!Turn
<1>3. /\ MemoryProofs!AddTurn(ses, e) = Memory!AddTurn(ses, e)
      /\ MemoryProofs!NextTurnId(ses) = Memory!NextTurnId(ses)
  BY Zenon
     DEF MemoryProofs!AddTurn, MemoryProofs!NextTurnId, MemoryProofs!Compress,
         MemoryProofs!LastN, MemoryProofs!AllButLastN, Memory!AddTurn, Memory!NextTurnId,
         Memory!Compress, Memory!LastN, Memory!AllButLastN
<1>4. \A s \in MemoryProofs!Session, f \in Turns :
        MemoryProofs!Whole(MemoryProofs!AddTurn(s, f))
          = Append(MemoryProofs!Whole(s), [id |-> MemoryProofs!NextTurnId(s), entry |-> f])
  BY <1>1, MemoryProofs!AddTurnProperties
<1> QED BY <1>2, <1>3, <1>4 DEF MemoryProofs!Whole, Memory!Whole

\* Every step is one of a request that is not done, and of it alone.
OnlyMoves(r) ==
  /\ pc[r] # "done"
  /\ \A q \in Requests : q # r => pc'[q] = pc[q] /\ st'[q] = st[q]

\* The request goes on with the same question and the same domains.
SameQuestion(r) ==
  /\ st'[r].session = st[r].session /\ st'[r].followUp = st[r].followUp
  /\ st'[r].routed = st[r].routed /\ st'[r].intent = st[r].intent
  /\ st'[r].domains = st[r].domains

\* A node that changes one request's state moves that request only.
LEMMA UpdateMoves ==
  ASSUME IInv, NEW r \in Requests, NEW new, NEW p, Update(r, new, p), pc[r] # "done"
  PROVE  OnlyMoves(r) /\ st'[r] = new
BY DEF IInv, Typed, Update, OnlyMoves

\* So does an exception, which changes no state at all.
LEMMA RaiseMoves ==
  ASSUME IInv, NEW r \in Requests, Raise(r), UNCHANGED st, pc[r] # "done"
  PROVE  OnlyMoves(r) /\ st'[r] = st[r]
BY DEF IInv, Typed, Raise, OnlyMoves

\* The steps that leave the question alone, and the memory.
Works(r) ==
  \/ TemporalRaises(r) \/ ParserRaises(r) \/ Route(r) \/ Generate(r) \/ NoAnswer(r)
  \/ AgentReplies(r) \/ Compose(r) \/ Comply(r) \/ ValidateUnread(r)
  \/ RejectSyntax(r) \/ RejectExecution(r) \/ Accept(r) \/ Respond(r)

\* A node whose new state has the old question goes on with it.
LEMMA SameFields ==
  ASSUME IInv, NEW r \in Requests, NEW new, NEW p, Update(r, new, p), pc[r] # "done",
         new.session = st[r].session, new.followUp = st[r].followUp,
         new.routed = st[r].routed, new.intent = st[r].intent, new.domains = st[r].domains
  PROVE  OnlyMoves(r) /\ SameQuestion(r)
<1>1. OnlyMoves(r) /\ st'[r] = new
  BY UpdateMoves
<1> QED BY <1>1 DEF SameQuestion

\* They do leave the question alone.
LEMMA WorksMoves ==
  ASSUME IInv, NEW r \in Requests, Works(r)
  PROVE  OnlyMoves(r) /\ SameQuestion(r) /\ session' = session
<1>0. st[r] \in AgentState
  BY OneRequest
<1>1. CASE TemporalRaises(r) \/ ParserRaises(r)
  <2>1. pc[r] # "done" /\ Raise(r) /\ st' = st /\ session' = session
    BY <1>1 DEF TemporalRaises, ParserRaises, AllAnswered
  <2>2. OnlyMoves(r) /\ st'[r] = st[r]
    BY <2>1, RaiseMoves
  <2> QED BY <2>1, <2>2 DEF SameQuestion
<1>2. CASE Route(r)
  <2> DEFINE new == [st[r] EXCEPT !.subs = st[r].domains]
  <2>1. /\ pc[r] # "done" /\ session' = session /\ Update(r, new, "generate")
    BY <1>2 DEF Route, UnchangedMemory
  <2>2. /\ new.session = st[r].session /\ new.followUp = st[r].followUp
        /\ new.routed = st[r].routed /\ new.intent = st[r].intent /\ new.domains = st[r].domains
    BY <1>0 DEF AgentState
  <2> HIDE DEF new
  <2> QED BY <2>1, <2>2, SameFields
<1>3. CASE Generate(r)
  <2> DEFINE new == [st[r] EXCEPT !.attempt = @ + 1, !.outputs = << >>]
  <2>1. /\ pc[r] # "done" /\ session' = session /\ Update(r, new, "agents")
    BY <1>3 DEF Generate, UnchangedMemory
  <2>2. /\ new.session = st[r].session /\ new.followUp = st[r].followUp
        /\ new.routed = st[r].routed /\ new.intent = st[r].intent /\ new.domains = st[r].domains
    BY <1>0 DEF AgentState
  <2> HIDE DEF new
  <2> QED BY <2>1, <2>2, SameFields
<1>4. CASE NoAnswer(r) \/ AgentReplies(r)
  <2>1. PICK text : Output(r, text)
    BY <1>4 DEF NoAnswer, AgentReplies
  <2> DEFINE new == [st[r] EXCEPT !.outputs = Append(@, [domain |-> NextDomain(r), text |-> text])]
  <2>2. /\ pc[r] # "done" /\ session' = session /\ Update(r, new, "agents")
    BY <1>4, <2>1 DEF NoAnswer, AgentReplies, AgentsLeft, Output, UnchangedMemory
  <2>3. /\ new.session = st[r].session /\ new.followUp = st[r].followUp
        /\ new.routed = st[r].routed /\ new.intent = st[r].intent /\ new.domains = st[r].domains
    BY <1>0 DEF AgentState
  <2> HIDE DEF new
  <2> QED BY <2>2, <2>3, SameFields
<1>5. CASE Compose(r)
  <2> DEFINE sql == IF Composed(r) = "none" THEN NoSQL
                    ELSE [by |-> st[r].attempt, text |-> Composed(r), filtered |-> FALSE]
             new == [st[r] EXCEPT !.sql = sql]
  <2>1. /\ pc[r] # "done" /\ session' = session /\ Update(r, new, "comply")
    BY <1>5 DEF Compose, AllAnswered, UnchangedMemory
  <2> HIDE DEF sql
  <2>2. /\ new.session = st[r].session /\ new.followUp = st[r].followUp
        /\ new.routed = st[r].routed /\ new.intent = st[r].intent /\ new.domains = st[r].domains
    BY <1>0 DEF AgentState
  <2> HIDE DEF new
  <2> QED BY <2>1, <2>2, SameFields
<1>6. CASE Comply(r)
  <2> DEFINE new == [st[r] EXCEPT !.sql.filtered = Audited(r) /\ r \notin Privileged]
  <2>1. /\ pc[r] # "done" /\ session' = session /\ Update(r, new, "validate")
    BY <1>6 DEF Comply, UnchangedMemory
  <2>2. /\ new.session = st[r].session /\ new.followUp = st[r].followUp
        /\ new.routed = st[r].routed /\ new.intent = st[r].intent /\ new.domains = st[r].domains
    BY <1>0 DEF AgentState
  <2> HIDE DEF new
  <2> QED BY <2>1, <2>2, SameFields
<1>7. CASE ValidateUnread(r)
  <2> DEFINE new == [st[r] EXCEPT !.issues = st[r].sql.text = "none"]
  <2>1. /\ pc[r] # "done" /\ session' = session /\ Update(r, new, AfterValidate(new))
    BY <1>7 DEF ValidateUnread, Validated, UnchangedMemory
  <2>2. /\ new.session = st[r].session /\ new.followUp = st[r].followUp
        /\ new.routed = st[r].routed /\ new.intent = st[r].intent /\ new.domains = st[r].domains
    BY <1>0 DEF AgentState
  <2> HIDE DEF new
  <2> QED BY <2>1, <2>2, SameFields
<1>8. CASE RejectSyntax(r) \/ RejectExecution(r)
  <2> DEFINE new == [st[r] EXCEPT !.issues = TRUE, !.rows = 0]
  <2>1. /\ pc[r] # "done" /\ session' = session /\ Update(r, new, AfterValidate(new))
    BY <1>8 DEF RejectSyntax, RejectExecution, Rejects, Validated, UnchangedMemory
  <2>2. /\ new.session = st[r].session /\ new.followUp = st[r].followUp
        /\ new.routed = st[r].routed /\ new.intent = st[r].intent /\ new.domains = st[r].domains
    BY <1>0 DEF AgentState
  <2> HIDE DEF new
  <2> QED BY <2>1, <2>2, SameFields
<1>9. CASE Accept(r)
  <2> DEFINE rows == IF Execute THEN st[r].sql.by ELSE 0
             accepted(b) == [st[r] EXCEPT !.issues = b, !.rows = rows]
  <2>1. PICK b \in BusinessIssues : Validated(r, accepted(b))
    BY <1>9 DEF Accept
  <2> DEFINE new == accepted(b)
  <2>2. /\ pc[r] # "done" /\ session' = session /\ Update(r, new, AfterValidate(new))
    BY <1>9, <2>1 DEF Accept, Validated, UnchangedMemory
  <2> HIDE DEF rows
  <2>3. /\ new.session = st[r].session /\ new.followUp = st[r].followUp
        /\ new.routed = st[r].routed /\ new.intent = st[r].intent /\ new.domains = st[r].domains
    BY <1>0 DEF AgentState
  <2> HIDE DEF new
  <2> QED BY <2>2, <2>3, SameFields
<1>10. CASE Respond(r)
  <2> DEFINE new == [st[r] EXCEPT !.error = st[r].intent # Supply \/ st[r].issues]
  <2>1. /\ pc[r] # "done" /\ session' = session /\ Update(r, new, "record")
    BY <1>10 DEF Respond, UnchangedMemory
  <2>2. /\ new.session = st[r].session /\ new.followUp = st[r].followUp
        /\ new.routed = st[r].routed /\ new.intent = st[r].intent /\ new.domains = st[r].domains
    BY <1>0 DEF AgentState
  <2> HIDE DEF new
  <2> QED BY <2>1, <2>2, SameFields
<1> QED BY <1>1, <1>2, <1>3, <1>4, <1>5, <1>6, <1>7, <1>8, <1>9, <1>10 DEF Works

\* A query that starts or is classified stays in its session.
LEMMA OthersMove ==
  ASSUME IInv, NEW r \in Requests, Submit(r) \/ Classified(r)
  PROVE  OnlyMoves(r) /\ session' = session /\ st'[r].session = st[r].session
<1>0. st[r] \in AgentState
  BY OneRequest
<1>1. CASE Submit(r)
  <2>1. PICK f \in BOOLEAN : Update(r, FreshState(st[r].session, f), "classify")
    BY <1>1 DEF Submit
  <2>2. pc[r] # "done" /\ session' = session
    BY <1>1 DEF Submit, UnchangedMemory
  <2>3. OnlyMoves(r) /\ st'[r] = FreshState(st[r].session, f)
    BY <2>1, <2>2, UpdateMoves
  <2> QED BY <2>2, <2>3 DEF FreshState
<1>2. CASE Classified(r)
  <2> DEFINE intentOf(decision, asks) ==
               IF asks THEN Clarify ELSE Carried(r, decision).intent
             new(decision, asks) ==
               [st[r] EXCEPT !.routed = decision.intent, !.intent = intentOf(decision, asks),
                             !.domains = Carried(r, decision).domains]
             next(decision, asks) ==
               IF intentOf(decision, asks) = Supply /\ Carried(r, decision).domains # << >>
                 THEN "route" ELSE "respond"
  <2>1. PICK decision \in Decisions, asks \in Asks :
          Update(r, new(decision, asks), next(decision, asks))
    BY <1>2 DEF Classified
  <2>2. pc[r] # "done" /\ session' = session
    BY <1>2 DEF Classified, UnchangedMemory
  <2> DEFINE s == new(decision, asks)
  <2> HIDE DEF intentOf
  <2>3. s.session = st[r].session
    BY <1>0 DEF AgentState
  <2> HIDE DEF s, next
  <2>4. OnlyMoves(r) /\ st'[r] = s
    BY <2>1, <2>2, UpdateMoves DEF s
  <2> QED BY <2>2, <2>3, <2>4
<1> QED BY <1>1, <1>2

\* Recording changes the place of the request only.
LEMMA RecordMoves ==
  ASSUME IInv, NEW r \in Requests, Record(r)
  PROVE  OnlyMoves(r) /\ st' = st /\ pc'[r] = "done" /\ pc[r] = "record"
BY DEF IInv, Typed, Record, OnlyMoves

-----------------------------------------------------------------------------

\* What TurnsAreAnswers says of one turn of session s, for any states of the
\* requests; and of all the turns of a session.
TurnOk(p, x, s, t) ==
  /\ p[t.by] = "done" /\ x[t.by].session = s /\ x[t.by].intent = Supply
  /\ t = [by |-> t.by, domains |-> x[t.by].domains, sql |-> x[t.by].sql.by, rows |-> x[t.by].rows]

TurnsOk(p, x, s, turns) ==
  /\ \A i \in DOMAIN turns : TurnOk(p, x, s, turns[i].entry)
  /\ \A i, j \in DOMAIN turns : turns[j].entry.by = turns[i].entry.by => i = j

\* The property says so of every session, now ...
LEMMA TurnsSplit ==
  TurnsAreAnswers <=> \A s \in SessionIds : TurnsOk(pc, st, s, Memory!Whole(session[s]))
<1> DEFINE turns(s) == Memory!Whole(session[s])
           done(s, t) ==
             /\ pc[t.by] = "done" /\ st[t.by].session = s /\ st[t.by].intent = Supply
             /\ t = [by |-> t.by, domains |-> st[t.by].domains,
                     sql |-> st[t.by].sql.by, rows |-> st[t.by].rows]
           only(s, i) == \A j \in DOMAIN turns(s) : turns(s)[j].entry.by = turns(s)[i].entry.by => i = j
<1>1. TurnsAreAnswers <=>
        \A s \in SessionIds : \A i \in DOMAIN turns(s) : done(s, turns(s)[i].entry) /\ only(s, i)
  BY DEF TurnsAreAnswers, TurnsIn, TurnOf, Memory!AllTurns
<1>2. ASSUME NEW s
      PROVE  TurnsOk(pc, st, s, turns(s)) <=>
               /\ \A i \in DOMAIN turns(s) : done(s, turns(s)[i].entry)
               /\ \A i \in DOMAIN turns(s) : only(s, i)
  BY Zenon DEF TurnsOk, TurnOk
<1> HIDE DEF done, only
<1>3. ASSUME NEW s
      PROVE  TurnsOk(pc, st, s, turns(s)) <=>
               \A i \in DOMAIN turns(s) : done(s, turns(s)[i].entry) /\ only(s, i)
  BY Zenon, <1>2
<1> QED BY Zenon, <1>1, <1>3

\* ... and after a step.
LEMMA TurnsSplitAfter ==
  TurnsAreAnswers' <=> \A s \in SessionIds : TurnsOk(pc', st', s, Memory!Whole(session'[s]))
<1> DEFINE turns(s) == Memory!Whole(session'[s])
           done(s, t) ==
             /\ pc'[t.by] = "done" /\ st'[t.by].session = s /\ st'[t.by].intent = Supply
             /\ t = [by |-> t.by, domains |-> st'[t.by].domains,
                     sql |-> st'[t.by].sql.by, rows |-> st'[t.by].rows]
           only(s, i) == \A j \in DOMAIN turns(s) : turns(s)[j].entry.by = turns(s)[i].entry.by => i = j
<1>1. TurnsAreAnswers' <=>
        \A s \in SessionIds : \A i \in DOMAIN turns(s) : done(s, turns(s)[i].entry) /\ only(s, i)
  BY DEF TurnsAreAnswers, TurnsIn, TurnOf, Memory!AllTurns
<1>2. ASSUME NEW s
      PROVE  TurnsOk(pc', st', s, turns(s)) <=>
               /\ \A i \in DOMAIN turns(s) : done(s, turns(s)[i].entry)
               /\ \A i \in DOMAIN turns(s) : only(s, i)
  BY Zenon DEF TurnsOk, TurnOk
<1> HIDE DEF done, only
<1>3. ASSUME NEW s
      PROVE  TurnsOk(pc', st', s, turns(s)) <=>
               \A i \in DOMAIN turns(s) : done(s, turns(s)[i].entry) /\ only(s, i)
  BY Zenon, <1>2
<1> QED BY Zenon, <1>1, <1>3

\* The entry of a turn in the memory is of a request.
LEMMA EntryOf ==
  ASSUME NEW turns \in Seq(Memory!Turn), NEW i \in DOMAIN turns
  PROVE  turns[i].entry \in Turns /\ turns[i].entry.by \in Requests
<1>1. turns[i] \in Memory!Turn
  BY IsInItsSet
<1> QED BY <1>1 DEF Memory!Turn, Turns

\* The turns of a session are turns.
LEMMA WholeType ==
  ASSUME NEW ses \in Memory!Session PROVE Memory!Whole(ses) \in Seq(Memory!Turn)
BY DEF Memory!Session, Memory!Whole

\* A turn of an answer stays one, because its request is done; the request that
\* moves has none.
LEMMA TurnStaysOk ==
  ASSUME NEW r \in Requests, OnlyMoves(r), NEW s, NEW t, t.by \in Requests,
         TurnOk(pc, st, s, t)
  PROVE  t.by # r /\ TurnOk(pc', st', s, t)
<1>1. t.by # r /\ pc'[t.by] = pc[t.by] /\ st'[t.by] = st[t.by]
  BY DEF TurnOk, OnlyMoves
<1> QED BY <1>1 DEF TurnOk

\* So do all the turns of a session.
LEMMA TurnsStayOk ==
  ASSUME NEW r \in Requests, OnlyMoves(r), NEW s, NEW turns \in Seq(Memory!Turn),
         TurnsOk(pc, st, s, turns)
  PROVE  /\ TurnsOk(pc', st', s, turns)
         /\ \A i \in DOMAIN turns : turns[i].entry.by # r
<1>1. ASSUME NEW i \in DOMAIN turns
      PROVE  turns[i].entry.by # r /\ TurnOk(pc', st', s, turns[i].entry)
  <2>1. turns[i].entry.by \in Requests /\ TurnOk(pc, st, s, turns[i].entry)
    BY EntryOf DEF TurnsOk
  <2> QED BY <2>1, TurnStaysOk
<1> QED BY <1>1 DEF TurnsOk

\* A step that leaves the memory alone keeps the property.
LEMMA KeepsTurns ==
  ASSUME IInv, TurnsAreAnswers, NEW r \in Requests, OnlyMoves(r), session' = session
  PROVE  TurnsAreAnswers'
<1> SUFFICES ASSUME NEW s \in SessionIds
             PROVE  TurnsOk(pc', st', s, Memory!Whole(session'[s]))
  BY TurnsSplitAfter
<1>1. Memory!Whole(session[s]) \in Seq(Memory!Turn)
  BY OneRequest, WholeType
<1>2. TurnsOk(pc, st, s, Memory!Whole(session[s]))
  BY TurnsSplit
<1> QED BY <1>1, <1>2, TurnsStayOk

\* The turn that is recorded is that of the request, now done, and the only one
\* it has.
LEMMA RecordKeepsTurns ==
  ASSUME IInv, TurnsAreAnswers, NEW r \in Requests, Record(r) PROVE TurnsAreAnswers'
<1>1. OnlyMoves(r) /\ st' = st /\ pc'[r] = "done"
  BY RecordMoves
<1>2. CASE st[r].intent # Supply
  <2>1. session' = session
    BY <1>2 DEF Record, UnchangedMemory
  <2> QED BY <1>1, <2>1, KeepsTurns
<1>3. CASE st[r].intent = Supply
  <2> DEFINE own == st[r].session
             e == TurnOf(r)
             longer == [session EXCEPT ![own] = Memory!AddTurn(session[own], e)]
  <2>1. own \in SessionIds /\ e \in Turns
    <3>1. /\ own \in SessionIds /\ st[r].domains \in Seq(Domains)
          /\ st[r].sql \in SQL /\ st[r].rows \in Nat
      BY OneRequest DEF AgentState
    <3>2. st[r].sql.by \in Nat
      BY <3>1 DEF SQL
    <3> QED BY <3>1, <3>2 DEF TurnOf, Turns
  <2>2. session' = Memory!Kept(keys', longer)
    BY <1>3 DEF Record, Memory!RecordTurn
  <2>3. TurnOk(pc', st', own, e) /\ e.by = r
    BY <1>1, <1>3 DEF TurnOk, TurnOf
  <2> HIDE DEF e
  <2> SUFFICES ASSUME NEW s \in SessionIds
               PROVE  TurnsOk(pc', st', s, Memory!Whole(session'[s]))
    BY TurnsSplitAfter
  <2> DEFINE turns == Memory!Whole(session[s])
  <2>4. session[s] \in Memory!Session /\ session \in [SessionIds -> Memory!Session]
    BY OneRequest
  <2>5. turns \in Seq(Memory!Turn) /\ TurnsOk(pc, st, s, turns)
    BY <2>4, WholeType, TurnsSplit
  <2>6. TurnsOk(pc', st', s, turns) /\ \A i \in DOMAIN turns : turns[i].entry.by # r
    BY <1>1, <2>5, TurnsStayOk
  <2>7. session'[s] = IF s \in Memory!ToSet(keys') THEN longer[s] ELSE Memory!NewSession
    BY <2>2 DEF Memory!Kept
  <2>8. CASE session'[s] = Memory!NewSession
    <3>1. Memory!Whole(session'[s]) = << >>
      BY <2>8 DEF Memory!NewSession, Memory!Whole
    <3> QED BY <3>1 DEF TurnsOk
  <2>9. CASE session'[s] = longer[s] /\ s # own
    <3>1. session'[s] = session[s]
      BY <2>4, <2>9
    <3> QED BY <2>6, <3>1
  <2>10. CASE session'[s] = longer[s] /\ s = own
    <3> DEFINE turn == [id |-> Memory!NextTurnId(session[s]), entry |-> e]
    <3>1. session'[s] = Memory!AddTurn(session[s], e)
      BY <2>1, <2>4, <2>10
    <3>2. Memory!Whole(session'[s]) = Append(turns, turn)
      BY <2>1, <2>4, <3>1, TurnIsAppended
    <3>3. turn.entry = e
      OBVIOUS
    <3> HIDE DEF turn, turns
    <3> DEFINE all == Append(turns, turn)
    <3>4. /\ \A i \in DOMAIN all : i \in DOMAIN turns \/ i = Len(turns) + 1
          /\ \A i \in DOMAIN turns : all[i] = turns[i]
          /\ all[Len(turns) + 1] = turn
      BY <2>5
    <3> HIDE DEF all
    <3>5. \A i \in DOMAIN all : TurnOk(pc', st', s, all[i].entry)
      <4> TAKE i \in DOMAIN all
      <4>1. CASE i \in DOMAIN turns
        BY <2>6, <3>4, <4>1 DEF TurnsOk
      <4>2. CASE i = Len(turns) + 1
        BY <2>3, <2>10, <3>3, <3>4, <4>2
      <4> QED BY <3>4, <4>1, <4>2
    <3>6. \A i, j \in DOMAIN all : all[j].entry.by = all[i].entry.by => i = j
      <4>1. \A i \in DOMAIN all : all[i].entry.by = r <=> i \notin DOMAIN turns
        BY <2>3, <2>6, <3>3, <3>4
      <4> QED BY <2>6, <3>4, <4>1 DEF TurnsOk
    <3> QED BY <3>2, <3>5, <3>6 DEF TurnsOk, all
  <2> QED BY <2>7, <2>8, <2>9, <2>10
<1> QED BY <1>2, <1>3

\* No session has a turn at first.
LEMMA InitTurns == Init => TurnsAreAnswers
<1> SUFFICES ASSUME Init, NEW s \in SessionIds
             PROVE  TurnsOk(pc, st, s, Memory!Whole(session[s]))
  BY TurnsSplit
<1>1. Memory!Whole(session[s]) = << >>
  BY DEF Init, Memory!Init, Memory!NewSession, Memory!Whole
<1> QED BY <1>1 DEF TurnsOk

\* What a step is.
LEMMA Steps ==
  ASSUME NEW r \in Requests, Submit(r) \/ Step(r)
  PROVE  Submit(r) \/ Classified(r) \/ Works(r) \/ Record(r)
BY DEF Step, Works

\* Every step keeps the turns those of answers.
LEMMA NextTurns == IInv /\ TurnsAreAnswers /\ [Next]_vars => TurnsAreAnswers'
<1> SUFFICES ASSUME IInv, TurnsAreAnswers, [Next]_vars PROVE TurnsAreAnswers'
  OBVIOUS
<1>1. CASE UNCHANGED vars
  <2>1. pc' = pc /\ st' = st /\ session' = session
    BY <1>1 DEF vars
  <2> QED BY <2>1, TurnsSplit, TurnsSplitAfter
<1>2. ASSUME NEW r \in Requests, Submit(r) \/ Step(r) PROVE TurnsAreAnswers'
  <2>1. CASE Submit(r) \/ Classified(r)
    BY <2>1, OthersMove, KeepsTurns
  <2>2. CASE Works(r)
    BY <2>2, WorksMoves, KeepsTurns
  <2>3. CASE Record(r)
    BY <2>3, RecordKeepsTurns
  <2> QED BY <1>2, <2>1, <2>2, <2>3, Steps
<1> QED BY <1>1, <1>2 DEF Next, AllEnded

-----------------------------------------------------------------------------

\* What CarryOverGrounded says of a request with the state x[r].
Grounded(p, x, r) ==
  x[r].routed # Supply /\ x[r].intent = Supply =>
    /\ x[r].followUp
    /\ \E q \in Requests :
         /\ p[q] = "done" /\ x[q].intent = Supply
         /\ x[q].session = x[r].session /\ x[q].domains = x[r].domains

\* The property says so of every request, before a step and after it.
LEMMA GroundedSplit ==
  /\ CarryOverGrounded <=> \A r \in Requests : Grounded(pc, st, r)
  /\ CarryOverGrounded' <=> \A r \in Requests : Grounded(pc', st', r)
BY DEF CarryOverGrounded, Grounded

\* A request that is grounded stays so while it keeps its question.
LEMMA GroundedStays ==
  ASSUME NEW r \in Requests, OnlyMoves(r), NEW a \in Requests, a # r \/ SameQuestion(r),
         Grounded(pc, st, a)
  PROVE  Grounded(pc', st', a)
<1> SUFFICES ASSUME st'[a].routed # Supply, st'[a].intent = Supply
             PROVE  /\ st'[a].followUp
                    /\ \E q \in Requests :
                         /\ pc'[q] = "done" /\ st'[q].intent = Supply
                         /\ st'[q].session = st'[a].session /\ st'[q].domains = st'[a].domains
  BY DEF Grounded
<1>1. /\ st'[a].session = st[a].session /\ st'[a].followUp = st[a].followUp
      /\ st'[a].routed = st[a].routed /\ st'[a].intent = st[a].intent
      /\ st'[a].domains = st[a].domains
  BY DEF OnlyMoves, SameQuestion
<1>2. PICK q \in Requests : /\ pc[q] = "done" /\ st[q].intent = Supply
                            /\ st[q].session = st[a].session /\ st[q].domains = st[a].domains
  BY <1>1 DEF Grounded
<1>3. pc'[q] = pc[q] /\ st'[q] = st[q]
  BY <1>2 DEF OnlyMoves
<1> QED BY <1>1, <1>2, <1>3 DEF Grounded

\* The last element of a sequence is an element of any that ends with it.
LEMMA LastOfBoth ==
  ASSUME NEW S, NEW a \in Seq(S), NEW b \in Seq(S), Len(b) > 0
  PROVE  \E i \in DOMAIN (a \o b) : (a \o b)[i] = b[Len(b)]
<1> DEFINE i == Len(a) + Len(b)
<1>1. Len(a) \in Nat /\ Len(b) \in Nat /\ a \o b \in Seq(S) /\ Len(a \o b) = i
  OBVIOUS
<1>2. i \in 1..Len(a \o b) /\ ~(i <= Len(a)) /\ i - Len(a) = Len(b)
  BY <1>1
<1> HIDE DEF i
<1>3. (a \o b)[i] = b[i - Len(a)]
  BY <1>1, <1>2, ConcatProperties
<1> QED BY <1>1, <1>2, <1>3

\* The domains a follow-up is given are those of a done query of its session.
LEMMA LastTurnIsAnswer ==
  ASSUME IInv, TurnsAreAnswers, NEW r \in Requests, PriorTurns(r) # << >>
  PROVE  \E q \in Requests :
           /\ pc[q] = "done" /\ st[q].intent = Supply /\ st[q].session = st[r].session
           /\ st[q].domains = Last(PriorTurns(r)).entry.domains
<1> DEFINE ses == session[st[r].session]
<1>1. st[r].session \in SessionIds /\ ses \in Memory!Session
  BY OneRequest DEF AgentState
<1>2. ses.turns \in Seq(Memory!Turn) /\ ses.older \in Seq(Memory!Turn)
  BY <1>1 DEF Memory!Session
<1>3. TurnsOk(pc, st, st[r].session, Memory!Whole(ses))
  BY <1>1, TurnsSplit
<1>4. PriorTurns(r) = Memory!LastN(ses.turns, Window)
  BY DEF PriorTurns, Memory!ActiveWindow
<1> HIDE DEF ses
<1> DEFINE last == ses.turns[Len(ses.turns)]
<1>5. Last(PriorTurns(r)) = last /\ Len(ses.turns) \in DOMAIN ses.turns
  <2>1. Window \in Nat
    BY OrchestratorAssumption DEF OrchestratorAssumption
  <2>2. CASE Window = 0 \/ Len(ses.turns) <= Window
    <3>1. PriorTurns(r) = ses.turns
      BY <1>4, <2>2 DEF Memory!LastN
    <3> QED BY <1>2, <3>1 DEF Last
  <2>3. CASE ~(Window = 0 \/ Len(ses.turns) <= Window)
    <3> DEFINE n == Len(ses.turns) - Window + 1
               window == SubSeq(ses.turns, n, Len(ses.turns))
    <3>1. PriorTurns(r) = window
      BY <1>4, <2>3 DEF Memory!LastN
    <3>2. n \in 1..Len(ses.turns) /\ Len(ses.turns) \in Nat /\ Len(ses.turns) - n + 1 = Window
      BY <1>2, <2>1, <2>3
    <3>3. Len(window) = Window /\ window[Window] = ses.turns[n + Window - 1]
      BY <1>2, <2>1, <2>3, <3>2
    <3>4. n + Window - 1 = Len(ses.turns)
      BY <2>1, <3>2
    <3> HIDE DEF window, n
    <3> QED BY <1>2, <2>3, <3>1, <3>2, <3>3, <3>4 DEF Last
  <2> QED BY <2>2, <2>3
<1>6. PICK i \in DOMAIN Memory!Whole(ses) : Memory!Whole(ses)[i] = last
  <2>1. Len(ses.turns) > 0
    BY <1>2, <1>5
  <2> QED BY <1>2, <2>1, LastOfBoth DEF Memory!Whole
<1>7. last.entry.by \in Requests
  BY <1>2, <1>5, EntryOf
<1>8. TurnOk(pc, st, st[r].session, last.entry)
  BY <1>3, <1>6 DEF TurnsOk
<1> HIDE DEF last
<1>9. st[last.entry.by].domains = last.entry.domains
  BY <1>8 DEF TurnOk
<1> QED BY <1>5, <1>7, <1>8, <1>9 DEF TurnOk

\* A question the router did not place goes on only when it was carried over.
LEMMA ClassifiedIsGrounded ==
  ASSUME IInv, TurnsAreAnswers, NEW r \in Requests, Classified(r)
  PROVE  Grounded(pc', st', r)
<1>0. st[r] \in AgentState /\ OnlyMoves(r) /\ pc[r] = "classify"
  BY OneRequest, OthersMove DEF Classified
<1> DEFINE intentOf(decision, asks) ==
             IF asks THEN Clarify ELSE Carried(r, decision).intent
           new(decision, asks) ==
             [st[r] EXCEPT !.routed = decision.intent, !.intent = intentOf(decision, asks),
                           !.domains = Carried(r, decision).domains]
           next(decision, asks) ==
             IF intentOf(decision, asks) = Supply /\ Carried(r, decision).domains # << >>
               THEN "route" ELSE "respond"
<1>1. PICK decision \in Decisions, asks \in Asks :
        Update(r, new(decision, asks), next(decision, asks))
  BY DEF Classified
<1> DEFINE s == new(decision, asks)
<1> HIDE DEF intentOf
<1>2. /\ s.routed = decision.intent /\ s.intent = intentOf(decision, asks)
      /\ s.domains = Carried(r, decision).domains
      /\ s.session = st[r].session /\ s.followUp = st[r].followUp
  BY <1>0 DEF AgentState
<1> HIDE DEF s, next
<1>3. st'[r] = s
  BY <1>0, <1>1, UpdateMoves DEF s
<1> SUFFICES ASSUME s.routed # Supply, s.intent = Supply
             PROVE  /\ s.followUp
                    /\ \E q \in Requests :
                         /\ pc'[q] = "done" /\ st'[q].intent = Supply
                         /\ st'[q].session = s.session /\ st'[q].domains = s.domains
  BY <1>3 DEF Grounded
<1>4. CarriesOver(r, decision)
  <2>1. ~asks
    BY <1>2 DEF intentOf, Clarify, Supply
  <2>2. Carried(r, decision).intent = Supply
    BY <1>2, <2>1 DEF intentOf
  <2> QED BY <1>2, <2>2 DEF Carried
<1>5. s.followUp /\ PriorTurns(r) # << >> /\ s.domains = Last(PriorTurns(r)).entry.domains
  BY <1>2, <1>4 DEF CarriesOver, Carried
<1>6. PICK q \in Requests :
        /\ pc[q] = "done" /\ st[q].intent = Supply /\ st[q].session = st[r].session
        /\ st[q].domains = Last(PriorTurns(r)).entry.domains
  BY <1>5, LastTurnIsAnswer
<1>7. pc'[q] = pc[q] /\ st'[q] = st[q]
  BY <1>0, <1>6 DEF OnlyMoves
<1> QED BY <1>2, <1>5, <1>6, <1>7

\* A query starts as one the router has not placed elsewhere.
LEMMA SubmittedIsGrounded ==
  ASSUME IInv, NEW r \in Requests, Submit(r) PROVE Grounded(pc', st', r)
<1>1. PICK f \in BOOLEAN : Update(r, FreshState(st[r].session, f), "classify")
  BY DEF Submit
<1>2. pc[r] # "done"
  BY DEF Submit
<1>3. st'[r] = FreshState(st[r].session, f)
  BY <1>1, <1>2, UpdateMoves
<1> QED BY <1>3 DEF Grounded, FreshState

\* No request is routed at first.
LEMMA InitGrounded == Init => CarryOverGrounded
<1> SUFFICES ASSUME Init, NEW r \in Requests PROVE Grounded(pc, st, r)
  BY GroundedSplit
<1>1. PICK s \in SessionIds : st[r] = FreshState(s, FALSE)
  BY DEF Init
<1> QED BY <1>1 DEF Grounded, FreshState

\* Every step keeps the requests grounded.
LEMMA NextGrounded ==
  IInv /\ TurnsAreAnswers /\ CarryOverGrounded /\ [Next]_vars => CarryOverGrounded'
<1> SUFFICES ASSUME IInv, TurnsAreAnswers, CarryOverGrounded, [Next]_vars
             PROVE  CarryOverGrounded'
  OBVIOUS
<1>1. CASE UNCHANGED vars
  <2>1. pc' = pc /\ st' = st
    BY <1>1 DEF vars
  <2> QED BY <2>1, GroundedSplit
<1>2. ASSUME NEW r \in Requests, Submit(r) \/ Step(r), NEW a \in Requests
      PROVE  Grounded(pc', st', a)
  <2>0. Grounded(pc, st, a)
    BY GroundedSplit
  <2>1. CASE Submit(r) \/ Classified(r)
    <3>1. CASE a = r
      BY <2>1, <3>1, SubmittedIsGrounded, ClassifiedIsGrounded
    <3>2. CASE a # r
      BY <2>0, <2>1, <3>2, OthersMove, GroundedStays
    <3> QED BY <3>1, <3>2
  <2>2. CASE Works(r)
    BY <2>0, <2>2, WorksMoves, GroundedStays
  <2>3. CASE Record(r)
    <3>1. OnlyMoves(r) /\ SameQuestion(r)
      BY <2>3, RecordMoves DEF SameQuestion
    <3> QED BY <2>0, <3>1, GroundedStays
  <2> QED BY <1>2, <2>1, <2>2, <2>3, Steps
<1> QED BY <1>1, <1>2, GroundedSplit DEF Next, AllEnded

\* A turn in the memory of a session is the turn of a query of that session that
\* has ended with an answer, as it ended, and no query has two, for any number of
\* overlapping queries and whatever the memory compresses or drops
\* (orchestrator.py:107-120).
THEOREM TurnsAreOfAnswers == Spec => []TurnsAreAnswers
BY Invariance, InitTurns, NextTurns, PTL DEF Spec

\* A question the router did not place is answered only as a follow-up, on the
\* domains of a query of its session that had ended, although the turns are read
\* after the router's reply (orchestrator.py:192-226).
THEOREM CarryOverIsGrounded == Spec => []CarryOverGrounded
BY Invariance, TurnsAreOfAnswers, InitGrounded, NextGrounded, PTL DEF Spec

-----------------------------------------------------------------------------
(* The memory stays the store of ConversationMemory, whatever the queries  *)
(* do: its lemmas hold of it here.                                         *)

\* What the two instances of the store define is the same.
LEMMA SameStore ==
  /\ \A ks : Memory!Evict(ks) = MemoryProofs!Evict(ks)
  /\ \A ks, s : Memory!MoveToEnd(ks, s) = MemoryProofs!MoveToEnd(ks, s)
  /\ \A ks, f : Memory!Kept(ks, f) = MemoryProofs!Kept(ks, f)
  /\ \A ses, e : Memory!AddTurn(ses, e) = MemoryProofs!AddTurn(ses, e)
<1>1. \A ks : Memory!Evict(ks) = MemoryProofs!Evict(ks)
  BY Zenon DEF Memory!Evict, MemoryProofs!Evict, Memory!LastN, MemoryProofs!LastN
<1>2. \A ks, s : Memory!RemoveFirst(ks, s) = MemoryProofs!RemoveFirst(ks, s)
  BY Zenon
     DEF Memory!RemoveFirst, MemoryProofs!RemoveFirst, Memory!SelectInSeq,
         MemoryProofs!SelectInSeq, Memory!RemoveAt, MemoryProofs!RemoveAt,
         Memory!Min, MemoryProofs!Min
<1>3. \A ks, s : Memory!MoveToEnd(ks, s) = MemoryProofs!MoveToEnd(ks, s)
  BY Zenon, <1>2 DEF Memory!MoveToEnd, MemoryProofs!MoveToEnd
<1>4. \A ks, f : Memory!Kept(ks, f) = MemoryProofs!Kept(ks, f)
  BY Zenon
     DEF Memory!Kept, MemoryProofs!Kept, Memory!ToSet, MemoryProofs!ToSet,
         Memory!NewSession, MemoryProofs!NewSession
<1>5. \A ses, e : Memory!AddTurn(ses, e) = MemoryProofs!AddTurn(ses, e)
  BY Zenon
     DEF MemoryProofs!AddTurn, MemoryProofs!NextTurnId, MemoryProofs!Compress,
         MemoryProofs!LastN, MemoryProofs!AllButLastN, Memory!AddTurn, Memory!NextTurnId,
         Memory!Compress, Memory!LastN, Memory!AllButLastN
<1> QED BY <1>1, <1>3, <1>4, <1>5

\* The constants are those of a store.
LEMMA StoreAssumed == MemoryProofs!MemoryAssumption
BY OrchestratorAssumption DEF MemoryProofs!MemoryAssumption, OrchestratorAssumption

\* A turn recorded here is one recorded there.
LEMMA RecordsInStore ==
  ASSUME NEW s, NEW e, Memory!RecordTurn(s, e) PROVE MemoryProofs!RecordTurn(s, e)
BY Zenon, SameStore DEF Memory!RecordTurn, MemoryProofs!RecordTurn

\* The turn a request leaves is a turn.
LEMMA TurnOfType ==
  ASSUME IInv, NEW r \in Requests
  PROVE  st[r].session \in SessionIds /\ TurnOf(r) \in Turns /\ TurnOf(r).by = r
<1>1. /\ st[r].session \in SessionIds /\ st[r].domains \in Seq(Domains)
      /\ st[r].sql \in SQL /\ st[r].rows \in Nat
  BY OneRequest DEF AgentState
<1>2. st[r].sql.by \in Nat
  BY <1>1 DEF SQL
<1> QED BY <1>1, <1>2 DEF TurnOf, Turns

\* Only Record ends a request with an answer, and only Record changes the memory.
LEMMA OnlyRecordEnds ==
  ASSUME IInv, NEW r \in Requests, Submit(r) \/ Classified(r) \/ Works(r)
  PROVE  OnlyMoves(r) /\ pc'[r] # "done" /\ keys' = keys /\ session' = session
         /\ st'[r].session = st[r].session
<1>1. OnlyMoves(r) /\ session' = session /\ st'[r].session = st[r].session
  BY OthersMove, WorksMoves DEF SameQuestion
<1>2. pc \in [Requests -> Places]
  BY DEF IInv, Typed
<1>3. CASE Submit(r)
  BY <1>1, <1>2, <1>3 DEF Submit, Update, UnchangedMemory
<1>4. CASE Classified(r)
  BY <1>1, <1>2, <1>4 DEF Classified, Update, UnchangedMemory
<1>5. CASE TemporalRaises(r) \/ ParserRaises(r)
  BY <1>1, <1>2, <1>5 DEF TemporalRaises, ParserRaises, Raise
<1>6. CASE Route(r) \/ Generate(r)
  BY <1>1, <1>2, <1>6 DEF Route, Generate, Update, UnchangedMemory
<1>7. CASE NoAnswer(r) \/ AgentReplies(r)
  BY <1>1, <1>2, <1>7 DEF NoAnswer, AgentReplies, Output, Update, UnchangedMemory
<1>8. CASE Compose(r) \/ Comply(r) \/ Respond(r)
  BY <1>1, <1>2, <1>8 DEF Compose, Comply, Respond, Update, UnchangedMemory
<1>9. CASE ValidateUnread(r) \/ RejectSyntax(r) \/ RejectExecution(r) \/ Accept(r)
  <2>1. PICK new : Validated(r, new)
    BY <1>9 DEF ValidateUnread, RejectSyntax, RejectExecution, Rejects, Accept
  <2>2. AfterValidate(new) # "done"
    BY DEF AfterValidate
  <2> QED BY <1>1, <1>2, <2>1, <2>2 DEF Validated, Update, UnchangedMemory
<1> QED BY <1>3, <1>4, <1>5, <1>6, <1>7, <1>8, <1>9 DEF Works

\* Every step keeps the store's invariant.
LEMMA NextStore == IInv /\ MemoryProofs!Inv /\ [Next]_vars => MemoryProofs!Inv'
<1> SUFFICES ASSUME IInv, MemoryProofs!Inv, [Next]_vars PROVE MemoryProofs!Inv'
  OBVIOUS
<1>1. CASE UNCHANGED <<keys, session>>
  <2>1. MemoryProofs!vars' = MemoryProofs!vars
    BY <1>1 DEF MemoryProofs!vars
  <2> QED BY <2>1, StoreAssumed, MemoryProofs!InvNext
<1>2. ASSUME NEW r \in Requests, Submit(r) \/ Step(r) PROVE MemoryProofs!Inv'
  <2>1. CASE Submit(r) \/ Classified(r) \/ Works(r)
    BY <1>1, <2>1, OnlyRecordEnds
  <2>2. CASE Record(r)
    <3>1. CASE st[r].intent # Supply
      BY <1>1, <2>2, <3>1 DEF Record, UnchangedMemory
    <3>2. CASE st[r].intent = Supply
      <4>1. MemoryProofs!RecordTurn(st[r].session, TurnOf(r))
        BY <2>2, <3>2, RecordsInStore DEF Record
      <4> QED BY <4>1, TurnOfType, StoreAssumed, MemoryProofs!InvRecordTurn
    <3> QED BY <3>1, <3>2
  <2> QED BY <1>2, <2>1, <2>2, Steps
<1> QED BY <1>1, <1>2 DEF Next, AllEnded, vars

\* The store starts in its invariant.
LEMMA InitStore == Init => MemoryProofs!Inv
<1>1. Init => MemoryProofs!Init
  BY Zenon DEF Init, Memory!Init, MemoryProofs!Init, Memory!NewSession, MemoryProofs!NewSession
<1> QED BY <1>1, StoreAssumed, MemoryProofs!InvInit

\* The store's invariant holds throughout.
LEMMA StoreInvariance == Spec => []MemoryProofs!Inv
BY Invariance, InitStore, NextStore, PTL DEF Spec

\* Request a has a turn among these.
HasTurn(turns, a) == \E i \in DOMAIN turns : turns[i].entry.by = a

\* With room for every session in use, every answered request has its turn.  The
\* keys of the store are sessions in use.
Room == IsFiniteSet(InUse) /\ Cardinality(InUse) <= MaxSessions
Remembered(p, x, f, a) ==
  p[a] = "done" /\ x[a].intent = Supply => HasTurn(Memory!Whole(f[x[a].session]), a)
NoTurnLostInv ==
  /\ MemoryProofs!ToSet(keys) \subseteq InUse
  /\ Room => \A a \in Requests : Remembered(pc, st, session, a)

\* No request changes its session.
LEMMA SameSessions ==
  ASSUME IInv, NEW r \in Requests, Submit(r) \/ Step(r)
  PROVE  /\ \A a \in Requests : st'[a].session = st[a].session
         /\ InUse' = InUse /\ (Room' <=> Room)
<1>1. OnlyMoves(r) /\ st'[r].session = st[r].session
  BY Steps, OnlyRecordEnds, RecordMoves
<1>2. \A a \in Requests : st'[a].session = st[a].session
  BY <1>1 DEF OnlyMoves
<1>3. InUse' = InUse
  BY <1>2 DEF InUse
<1> QED BY <1>2, <1>3 DEF Room

\* A request with a turn in a session has it in the longer session.
LEMMA HasTurnStays ==
  ASSUME NEW S, NEW turns \in Seq(S), NEW turn, NEW a, HasTurn(turns, a)
  PROVE  HasTurn(Append(turns, turn), a)
<1>1. PICK i \in DOMAIN turns : turns[i].entry.by = a
  BY DEF HasTurn
<1>2. i \in DOMAIN Append(turns, turn) /\ Append(turns, turn)[i] = turns[i]
  BY <1>1
<1> QED BY <1>1, <1>2 DEF HasTurn

\* It is the new turn that the request which records it has.
LEMMA HasNewTurn ==
  ASSUME NEW S, NEW turns \in Seq(S), NEW turn
  PROVE  HasTurn(Append(turns, turn), turn.entry.by)
<1> DEFINE n == Len(turns) + 1
<1>1. n \in DOMAIN Append(turns, turn) /\ Append(turns, turn)[n] = turn
  OBVIOUS
<1> HIDE DEF n
<1> QED BY <1>1 DEF HasTurn

\* A step that leaves the memory alone ends no request with an answer.
LEMMA OthersLoseNoTurn ==
  ASSUME IInv, NoTurnLostInv, NEW r \in Requests, Submit(r) \/ Step(r),
         pc'[r] # "done" \/ (st[r].intent # Supply /\ st'[r].intent = st[r].intent),
         keys' = keys, session' = session
  PROVE  NoTurnLostInv'
<1>1. MemoryProofs!ToSet(keys') \subseteq InUse'
  BY SameSessions DEF NoTurnLostInv
<1>2. ASSUME Room', NEW a \in Requests PROVE Remembered(pc', st', session', a)
  <2>1. Remembered(pc, st, session, a)
    BY <1>2, SameSessions DEF NoTurnLostInv
  <2>2. CASE a = r
    BY <2>2 DEF Remembered
  <2>3. CASE a # r
    <3>1. pc'[a] = pc[a] /\ st'[a] = st[a]
      BY <2>3, Steps, OnlyRecordEnds, RecordMoves DEF OnlyMoves
    <3> QED BY <2>1, <3>1 DEF Remembered
  <2> QED BY <2>2, <2>3
<1> QED BY <1>1, <1>2 DEF NoTurnLostInv

\* With room for every session in use, using one drops none.
LEMMA NothingDropped ==
  ASSUME MemoryProofs!Inv, MemoryProofs!ToSet(keys) \subseteq InUse,
         NEW s \in SessionIds, s \in InUse, keys' = Memory!Evict(Memory!MoveToEnd(keys, s))
  PROVE  /\ MemoryProofs!ToSet(keys') \subseteq InUse
         /\ Room => MemoryProofs!ToSet(keys') = MemoryProofs!ToSet(keys) \cup {s}
<1> DEFINE moved == MemoryProofs!MoveToEnd(keys, s)
           kept == MemoryProofs!ToSet(keys) \cup {s}
<1>0. keys' = MemoryProofs!Evict(moved)
  BY Zenon, SameStore
<1>1. /\ keys \in Seq(SessionIds) /\ MemoryProofs!Distinct(keys) /\ Len(keys) <= MaxSessions
  BY DEF MemoryProofs!Inv
<1>2. /\ MemoryProofs!ToSet(moved) = kept
      /\ Len(moved) \in Nat /\ MemoryProofs!Distinct(moved) /\ moved \in Seq(SessionIds)
      /\ MemoryProofs!ToSet(keys') = IF Len(moved) <= MaxSessions
           THEN MemoryProofs!ToSet(moved) ELSE MemoryProofs!ToSet(moved) \ {moved[1]}
  BY <1>0, <1>1, StoreAssumed, MemoryProofs!UseProperties
<1> HIDE DEF moved
<1>3. kept \subseteq InUse
  OBVIOUS
<1>4. Room => Len(moved) <= MaxSessions
  <2> SUFFICES ASSUME Room PROVE Len(moved) <= MaxSessions
    OBVIOUS
  <2>1. Cardinality(kept) = Len(moved)
    <3>1. MemoryProofs!Cardinality(MemoryProofs!ToSet(moved)) = Len(moved)
      BY <1>2, StoreAssumed, MemoryProofs!KeyCount
    <3>2. MemoryProofs!Cardinality(kept) = Cardinality(kept)
      BY DEF MemoryProofs!Cardinality, Cardinality
    <3> QED BY <1>2, <3>1, <3>2
  <2>2. Cardinality(kept) <= Cardinality(InUse) /\ Cardinality(InUse) \in Nat
    BY <1>3, FS_Subset, FS_CardinalityType DEF Room
  <2> QED BY <1>2, <2>1, <2>2, OrchestratorAssumption DEF Room, OrchestratorAssumption
<1> QED BY <1>2, <1>3, <1>4

\* The session a turn is recorded in keeps its turns and gets the new one; other
\* sessions in the store keep theirs.
LEMMA RecordLosesNoTurn ==
  ASSUME IInv, MemoryProofs!Inv, NoTurnLostInv, NEW r \in Requests, Record(r)
  PROVE  NoTurnLostInv'
<1>1. OnlyMoves(r) /\ st' = st /\ InUse' = InUse /\ (Room' <=> Room)
  BY RecordMoves, SameSessions DEF Step
<1>2. CASE st[r].intent # Supply
  <2>1. keys' = keys /\ session' = session
    BY <1>2 DEF Record, UnchangedMemory
  <2> QED BY <1>1, <1>2, <2>1, OthersLoseNoTurn DEF Step
<1>3. CASE st[r].intent = Supply
  <2> DEFINE own == st[r].session
             e == TurnOf(r)
             longer == [session EXCEPT ![own] = Memory!AddTurn(session[own], e)]
             turn == [id |-> Memory!NextTurnId(session[own]), entry |-> e]
  <2>1. own \in SessionIds /\ own \in InUse /\ e \in Turns /\ e.by = r
    BY TurnOfType DEF InUse
  <2>2. /\ keys' = Memory!Evict(Memory!MoveToEnd(keys, own))
        /\ session' = Memory!Kept(keys', longer)
    BY <1>3 DEF Record, Memory!RecordTurn
  <2>3. /\ MemoryProofs!ToSet(keys') \subseteq InUse
        /\ Room => MemoryProofs!ToSet(keys') = MemoryProofs!ToSet(keys) \cup {own}
    BY <2>1, <2>2, NothingDropped DEF NoTurnLostInv
  <2>4. session \in [SessionIds -> Memory!Session]
    BY OneRequest
  <2>5. \A s \in SessionIds :
          session'[s] = IF s \in MemoryProofs!ToSet(keys') THEN longer[s]
                                                            ELSE MemoryProofs!NewSession
    <3>1. session' = MemoryProofs!Kept(keys', longer)
      BY Zenon, <2>2, SameStore
    <3> HIDE DEF longer
    <3> QED BY <3>1 DEF MemoryProofs!Kept
  <2>6. /\ turn.entry.by = r
        /\ Memory!Whole(Memory!AddTurn(session[own], e))
             = Append(Memory!Whole(session[own]), turn)
        /\ Memory!Whole(session[own]) \in Seq(Memory!Turn)
    BY <2>1, <2>4, TurnIsAppended, WholeType
  <2>7. longer[own] = Memory!AddTurn(session[own], e)
        /\ \A s \in SessionIds \ {own} : longer[s] = session[s]
    BY <2>1, <2>4
  <2> HIDE DEF longer, turn, e
  <2>8. ASSUME Room', NEW a \in Requests, pc'[a] = "done", st'[a].intent = Supply
        PROVE  HasTurn(Memory!Whole(session'[st'[a].session]), a)
    <3> DEFINE its == st[a].session
    <3>1. its \in SessionIds /\ st'[a].session = its
      BY <1>1, TurnOfType
    <3>2. CASE a = r
      <4>1. session'[own] = longer[own]
        BY <1>1, <2>1, <2>3, <2>5, <2>8
      <4>2. HasTurn(Append(Memory!Whole(session[own]), turn), r)
        BY <2>6, HasNewTurn
      <4> QED BY <2>6, <2>7, <3>1, <3>2, <4>1, <4>2
    <3>3. CASE a # r
      <4>1. HasTurn(Memory!Whole(session[its]), a)
        BY <1>1, <2>8, <3>3 DEF NoTurnLostInv, Remembered, OnlyMoves
      <4>2. its \in MemoryProofs!ToSet(keys)
        <5> SUFFICES ASSUME its \notin MemoryProofs!ToSet(keys) PROVE FALSE
          OBVIOUS
        <5>1. session[its] = MemoryProofs!NewSession
          BY <3>1 DEF MemoryProofs!Inv
        <5>2. Memory!Whole(session[its]) = << >>
          BY <5>1 DEF MemoryProofs!NewSession, Memory!Whole
        <5> QED BY <4>1, <5>2 DEF HasTurn
      <4>3. session'[its] = longer[its]
        BY <1>1, <2>3, <2>5, <2>8, <3>1, <4>2
      <4>4. CASE its # own
        BY <2>7, <3>1, <4>1, <4>3, <4>4
      <4>5. CASE its = own
        <5>1. HasTurn(Append(Memory!Whole(session[own]), turn), a)
          BY <2>6, <4>1, <4>5, HasTurnStays
        <5> QED BY <2>6, <2>7, <3>1, <4>3, <4>5, <5>1
      <4> QED BY <4>4, <4>5
    <3> QED BY <3>2, <3>3
  <2> QED BY <1>1, <2>3, <2>8 DEF NoTurnLostInv, Remembered
<1> QED BY <1>2, <1>3

\* The store is empty at first, and no request has ended.
LEMMA InitLosesNoTurn == Init => NoTurnLostInv
<1> SUFFICES ASSUME Init PROVE NoTurnLostInv
  OBVIOUS
<1>1. MemoryProofs!ToSet(keys) = {}
  BY DEF Init, Memory!Init, MemoryProofs!ToSet
<1>2. \A a \in Requests : pc[a] # "done"
  BY DEF Init
<1> QED BY <1>1, <1>2 DEF NoTurnLostInv, Remembered

\* Every step leaves each answered request its turn.
LEMMA NextLosesNoTurn ==
  IInv /\ MemoryProofs!Inv /\ NoTurnLostInv /\ [Next]_vars => NoTurnLostInv'
<1> SUFFICES ASSUME IInv, MemoryProofs!Inv, NoTurnLostInv, [Next]_vars PROVE NoTurnLostInv'
  OBVIOUS
<1>1. CASE UNCHANGED vars
  <2>1. pc' = pc /\ st' = st /\ keys' = keys /\ session' = session
    BY <1>1 DEF vars
  <2>2. InUse' = InUse /\ (Room' <=> Room)
    BY <2>1 DEF InUse, Room
  <2> QED BY <2>1, <2>2 DEF NoTurnLostInv
<1>2. ASSUME NEW r \in Requests, Submit(r) \/ Step(r) PROVE NoTurnLostInv'
  <2>1. CASE Submit(r) \/ Classified(r) \/ Works(r)
    <3>1. pc'[r] # "done" /\ keys' = keys /\ session' = session
      BY <2>1, OnlyRecordEnds
    <3> QED BY <1>2, <3>1, OthersLoseNoTurn
  <2>2. CASE Record(r)
    BY <2>2, RecordLosesNoTurn
  <2> QED BY <1>2, <2>1, <2>2, Steps
<1> QED BY <1>1, <1>2 DEF Next, AllEnded

\* While the memory has room for every session in use it loses no turn: the turn of
\* every answered supply-chain question is there, for any number of overlapping
\* queries, any window and any order of their ends (memory.py:85-113, 148-150).
THEOREM NoTurnIsLost == Spec => []NoTurnLost
<1>1. NoTurnLostInv => NoTurnLost
  BY DEF NoTurnLostInv, NoTurnLost, Room, Remembered, HasTurn, TurnsIn, Memory!AllTurns
<1>2. Spec => []NoTurnLostInv
  BY Invariance, StoreInvariance, InitLosesNoTurn, NextLosesNoTurn, PTL DEF Spec
<1> QED BY <1>1, <1>2, PTL

-----------------------------------------------------------------------------
(* The message log.  Every step writes at most one message, at the end of  *)
(* the log of its session.                                                 *)

\* The positions of the messages of request r, and whether one is of this kind.
OwnIn(seq, r) == {i \in DOMAIN seq : seq[i].of = r}
Has(seq, r, kind) == \E i \in OwnIn(seq, r) : seq[i].kind = kind

\* One message after another of the same request.
Follows(a, b) ==
  /\ Stage(a.kind) <= Stage(b.kind)
  /\ Stage(a.kind) = Stage(b.kind) => Stage(a.kind) = 3
  /\ a.kind = "agent_output" /\ b.kind = "agent_output" => a.attempt <= b.attempt

\* What AuditTrail says of request r at place p in attempt n.
TrailOk(p, n, seq, r) ==
  /\ p # "new" <=> OwnIn(seq, r) # {}
  /\ OwnIn(seq, r) # {} => Has(seq, r, "query")
  /\ p \in {"new", "classify"} => ~Has(seq, r, "sub_query")
  /\ (\E i \in OwnIn(seq, r) : seq[i].kind # "query") => Has(seq, r, "sub_query")
  /\ Has(seq, r, "final") <=> p \in {"record", "done"}
  /\ \A i, j \in OwnIn(seq, r) : i < j => Follows(seq[i], seq[j])
  /\ \A i \in OwnIn(seq, r) : seq[i].kind = "agent_output" => seq[i].attempt \in 1..n

\* A request that is past classify has had the router's decision.
Decided(p, seq, r) ==
  p \notin {"new", "classify", "failed"} => Has(seq, r, "sub_query")

LogInv ==
  /\ log \in [SessionIds -> Seq(Message)]
  /\ \A r \in Requests :
       /\ TrailOk(pc[r], st[r].attempt, log[st[r].session], r)
       /\ Decided(pc[r], log[st[r].session], r)

\* The property says so of every request.
LEMMA TrailSplit == LogInv => AuditTrail
<1> SUFFICES ASSUME LogInv, NEW r \in Requests
             PROVE  LET messages == LogOf(r)
                        own == Own(r)
                        kinds == {messages[i].kind : i \in own}
                    IN  /\ pc[r] # "new" <=> own # {}
                        /\ own # {} => "query" \in kinds
                        /\ pc[r] \in {"new", "classify"} => "sub_query" \notin kinds
                        /\ kinds \subseteq {"query"} \/ "sub_query" \in kinds
                        /\ "final" \in kinds <=> Answered(r)
                        /\ \A i, j \in own : i < j => Follows(messages[i], messages[j])
                        /\ \A i \in own :
                             messages[i].kind = "agent_output"
                               => messages[i].attempt \in 1..st[r].attempt
  BY DEF AuditTrail, Follows
<1> DEFINE seq == LogOf(r)
           own == Own(r)
           kinds == {seq[i].kind : i \in own}
<1>1. own = OwnIn(seq, r) /\ TrailOk(pc[r], st[r].attempt, seq, r)
  BY DEF Own, OwnIn, LogOf, LogInv
<1> HIDE DEF seq, own
<1>2. \A kind : kind \in kinds <=> Has(seq, r, kind)
  BY <1>1 DEF Has
<1>3. kinds \subseteq {"query"} \/ "sub_query" \in kinds
  BY <1>1, <1>2 DEF TrailOk
<1> QED BY <1>1, <1>2, <1>3 DEF TrailOk, Answered, seq, own

\* One message more.
LEMMA OneMore ==
  ASSUME NEW seq \in Seq(Message), NEW m \in Message, NEW r
  PROVE  LET n == Len(seq) + 1
             longer == Append(seq, m) IN
         /\ longer \in Seq(Message) /\ n \in DOMAIN longer /\ longer[n] = m
         /\ \A i \in DOMAIN seq : i \in DOMAIN longer /\ longer[i] = seq[i] /\ i < n
         /\ OwnIn(longer, r) = IF m.of = r THEN OwnIn(seq, r) \cup {n} ELSE OwnIn(seq, r)
<1> DEFINE n == Len(seq) + 1
           longer == Append(seq, m)
<1>1. /\ longer \in Seq(Message) /\ n \in DOMAIN longer /\ longer[n] = m
      /\ \A i \in DOMAIN seq : i \in DOMAIN longer /\ longer[i] = seq[i] /\ i < n
      /\ \A i \in DOMAIN longer : i \in DOMAIN seq \/ i = n
  OBVIOUS
<1> HIDE DEF longer, n
<1>2. OwnIn(longer, r) = IF m.of = r THEN OwnIn(seq, r) \cup {n} ELSE OwnIn(seq, r)
  <2>1. \A i : i \in OwnIn(longer, r) <=>
                 i \in OwnIn(seq, r) \/ (i = n /\ m.of = r)
    BY <1>1 DEF OwnIn
  <2> QED BY <2>1
<1> QED BY <1>1, <1>2 DEF longer, n

\* A message of another request changes nothing in the trail of this one.
LEMMA OthersMessage ==
  ASSUME NEW seq \in Seq(Message), NEW m \in Message, NEW r, m.of # r,
         NEW p, NEW n, TrailOk(p, n, seq, r), Decided(p, seq, r)
  PROVE  TrailOk(p, n, Append(seq, m), r) /\ Decided(p, Append(seq, m), r)
<1> DEFINE longer == Append(seq, m)
<1>1. OwnIn(longer, r) = OwnIn(seq, r) /\ \A i \in OwnIn(seq, r) : longer[i] = seq[i]
  BY OneMore DEF OwnIn
<1> HIDE DEF longer
<1>2. \A kind : Has(longer, r, kind) <=> Has(seq, r, kind)
  BY <1>1 DEF Has
<1>3. TrailOk(p, n, longer, r)
  BY <1>1, <1>2 DEF TrailOk
<1> QED BY <1>2, <1>3 DEF Decided, longer

\* The stages of the kinds.
LEMMA Stages ==
  /\ Stage("query") = 1 /\ Stage("sub_query") = 2 /\ Stage("agent_output") = 3
  /\ Stage("validation") = 3 /\ Stage("final") = 4
BY DEF Stage

\* A message that follows all the others of its request.
LEMMA OwnMessage ==
  ASSUME NEW seq \in Seq(Message), NEW m \in Message, NEW r, m.of = r,
         NEW p, NEW n \in Nat, TrailOk(p, n, seq, r),
         NEW q, NEW k \in Nat, n <= k,
         \A i \in OwnIn(seq, r) : Follows(seq[i], m),
         OwnIn(seq, r) = {} => m.kind = "query",
         m.kind \notin {"query", "sub_query"} => Has(seq, r, "sub_query"),
         m.kind = "agent_output" => m.attempt \in 1..k,
         q # "new", q = "classify" => m.kind = "query",
         p = "new" \/ q # "classify",
         q \in {"record", "done"} <=> m.kind = "final" \/ p \in {"record", "done"},
         q \notin {"classify", "failed"} => m.kind = "sub_query" \/ Has(seq, r, "sub_query")
  PROVE  TrailOk(q, k, Append(seq, m), r) /\ Decided(q, Append(seq, m), r)
<1> DEFINE longer == Append(seq, m)
           new == Len(seq) + 1
           own == OwnIn(seq, r)
<1>1. /\ OwnIn(longer, r) = own \cup {new} /\ longer[new] = m
      /\ \A i \in own : longer[i] = seq[i] /\ i < new /\ i \in Nat
      /\ new \in Nat
  BY OneMore DEF OwnIn
<1>2. \A kind : Has(longer, r, kind) <=> m.kind = kind \/ Has(seq, r, kind)
  BY <1>1 DEF Has
<1> HIDE DEF longer, new
<1>3. \A i, j \in own \cup {new} : i < j => Follows(longer[i], longer[j])
  <2>1. \A i, j \in own : i < j => Follows(longer[i], longer[j])
    BY <1>1 DEF TrailOk
  <2>2. \A i \in own : Follows(longer[i], longer[new]) /\ ~(new < i)
    BY <1>1
  <2>3. ~(new < new)
    BY <1>1
  <2> QED BY <2>1, <2>2, <2>3
<1>4. \A i \in own \cup {new} : longer[i].kind = "agent_output" => longer[i].attempt \in 1..k
  <2>1. \A i \in own : longer[i].kind = "agent_output" => longer[i].attempt \in 1..n
    BY <1>1 DEF TrailOk
  <2> QED BY <1>1, <2>1
<1>5. own # {} => Has(seq, r, "query")
  BY DEF TrailOk
<1>6. Has(longer, r, "query")
  BY <1>2, <1>5
<1>7. (\E i \in own \cup {new} : longer[i].kind # "query") => Has(longer, r, "sub_query")
  <2>1. CASE m.kind # "query"
    BY <1>2, <2>1
  <2>2. CASE \E i \in own : longer[i].kind # "query"
    BY <1>1, <1>2, <2>2 DEF TrailOk
  <2> QED BY <1>1, <2>1, <2>2
<1>8. q \in {"new", "classify"} => ~Has(longer, r, "sub_query")
  BY <1>2 DEF TrailOk
<1>9. Has(longer, r, "final") <=> q \in {"record", "done"}
  BY <1>2 DEF TrailOk
<1>10. TrailOk(q, k, longer, r)
  BY <1>1, <1>3, <1>4, <1>6, <1>7, <1>8, <1>9 DEF TrailOk
<1>11. Decided(q, longer, r)
  BY <1>2 DEF Decided
<1> QED BY <1>10, <1>11 DEF longer

\* A step that writes nothing keeps the trail when it neither starts a query nor
\* ends it with an answer, and leaves classify only by an exception.
LEMMA NoMessage ==
  ASSUME NEW seq \in Seq(Message), NEW r, NEW p, NEW n \in Nat, NEW q, NEW k \in Nat, n <= k,
         TrailOk(p, n, seq, r), Decided(p, seq, r),
         p # "new", q \notin {"new", "classify"}, p \in {"classify", "failed"} => q = "failed",
         q \in {"record", "done"} <=> p \in {"record", "done"}
  PROVE  TrailOk(q, k, seq, r) /\ Decided(q, seq, r)
<1>1. \A i \in OwnIn(seq, r) : seq[i].kind = "agent_output" => seq[i].attempt \in 1..k
  <2>1. 1..n \subseteq 1..k
    OBVIOUS
  <2> QED BY <2>1 DEF TrailOk
<1>2. TrailOk(q, k, seq, r)
  BY <1>1 DEF TrailOk
<1> QED BY <1>2 DEF Decided

\* The trails are kept when the one that moves keeps its own: it writes nothing, ...
LEMMA SilentKeeps ==
  ASSUME IInv, LogInv, NEW r \in Requests, OnlyMoves(r), st'[r].session = st[r].session,
         log' = log,
         TrailOk(pc'[r], st'[r].attempt, log[st[r].session], r),
         Decided(pc'[r], log[st[r].session], r)
  PROVE  LogInv'
<1>1. \A a \in Requests : /\ TrailOk(pc'[a], st'[a].attempt, log'[st'[a].session], a)
                          /\ Decided(pc'[a], log'[st'[a].session], a)
  <2> TAKE a \in Requests
  <2>1. CASE a = r
    BY <2>1
  <2>2. CASE a # r
    BY <2>2 DEF OnlyMoves, LogInv
  <2> QED BY <2>1, <2>2
<1> QED BY <1>1 DEF LogInv, TrailOk, Decided, Has, OwnIn, Follows, Stage

\* ... or one message.
LEMMA SpeakerKeeps ==
  ASSUME IInv, LogInv, NEW r \in Requests, OnlyMoves(r), st'[r].session = st[r].session,
         NEW kind \in Kinds, NEW n \in Nat, Send(r, kind, n),
         LET longer == Append(log[st[r].session], [kind |-> kind, of |-> r, attempt |-> n]) IN
         TrailOk(pc'[r], st'[r].attempt, longer, r) /\ Decided(pc'[r], longer, r)
  PROVE  LogInv'
<1> DEFINE own == st[r].session
           m == [kind |-> kind, of |-> r, attempt |-> n]
<1>0. own \in SessionIds /\ m \in Message /\ m.of = r
  BY TurnOfType DEF Message
<1>1. log' = [log EXCEPT ![own] = Append(@, m)]
  BY DEF Send
<1> HIDE DEF m
<1>2. log \in [SessionIds -> Seq(Message)]
  BY DEF LogInv
<1>3. log' \in [SessionIds -> Seq(Message)] /\ log'[own] = Append(log[own], m)
      /\ \A s \in SessionIds : s # own => log'[s] = log[s]
  BY <1>0, <1>1, <1>2
<1>4. \A a \in Requests : /\ TrailOk(pc'[a], st'[a].attempt, log'[st'[a].session], a)
                          /\ Decided(pc'[a], log'[st'[a].session], a)
  <2> TAKE a \in Requests
  <2>1. CASE a = r
    BY <1>3, <2>1 DEF m
  <2>2. CASE a # r
    <3>1. /\ pc'[a] = pc[a] /\ st'[a] = st[a] /\ st[a].session \in SessionIds
          /\ TrailOk(pc[a], st[a].attempt, log[st[a].session], a)
          /\ Decided(pc[a], log[st[a].session], a)
      BY <2>2, TurnOfType DEF OnlyMoves, LogInv
    <3>2. CASE st[a].session = own
      <4>1. /\ TrailOk(pc[a], st[a].attempt, Append(log[own], m), a)
            /\ Decided(pc[a], Append(log[own], m), a)
        BY <1>0, <1>2, <2>2, <3>1, <3>2, OthersMessage
      <4> QED BY <1>3, <3>1, <3>2, <4>1
    <3>3. CASE st[a].session # own
      BY <1>3, <3>1, <3>3
    <3> QED BY <3>2, <3>3
  <2> QED BY <2>1, <2>2
<1> QED BY <1>3, <1>4 DEF LogInv, TrailOk, Decided, Has, OwnIn, Follows, Stage

\* What the invariants say of the trail of one request.
LEMMA OneTrail ==
  ASSUME IInv, LogInv, NEW r \in Requests
  PROVE  LET seq == log[st[r].session] IN
         /\ seq \in Seq(Message) /\ st[r].attempt \in Nat
         /\ TrailOk(pc[r], st[r].attempt, seq, r) /\ Decided(pc[r], seq, r)
         /\ \A i \in OwnIn(seq, r) : seq[i].kind \in Kinds /\ seq[i].attempt \in Nat
<1> DEFINE seq == log[st[r].session]
<1>1. seq \in Seq(Message) /\ st[r].attempt \in Nat
  BY OneRequest DEF AgentState, LogInv
<1>2. TrailOk(pc[r], st[r].attempt, seq, r) /\ Decided(pc[r], seq, r)
  BY DEF LogInv
<1> HIDE DEF seq
<1>3. ASSUME NEW i \in OwnIn(seq, r) PROVE seq[i].kind \in Kinds /\ seq[i].attempt \in Nat
  <2>1. seq[i] \in Message
    BY <1>1, IsInItsSet DEF OwnIn
  <2> QED BY <2>1 DEF Message
<1> QED BY <1>1, <1>2, <1>3 DEF seq

\* A node that moves its request from p to q and writes nothing.
LEMMA SilentNode ==
  ASSUME IInv, LogInv, NEW r \in Requests, NEW new, NEW q, Update(r, new, q), log' = log,
         new.session = st[r].session, new.attempt \in Nat, st[r].attempt <= new.attempt,
         pc[r] \notin {"new", "classify", "failed", "record", "done"},
         q \notin {"new", "classify", "record", "done"}
  PROVE  LogInv'
<1>1. OnlyMoves(r) /\ st'[r] = new /\ pc'[r] = q
  BY UpdateMoves DEF Update, IInv, Typed
<1>2. /\ TrailOk(q, new.attempt, log[st[r].session], r)
      /\ Decided(q, log[st[r].session], r)
  BY OneTrail, NoMessage
<1> QED BY <1>1, <1>2, SilentKeeps

\* An exception ends the trail where it is.
LEMMA RaiseKeepsLog ==
  ASSUME IInv, LogInv, NEW r \in Requests, TemporalRaises(r) \/ ParserRaises(r)
  PROVE  LogInv'
<1>1. Raise(r) /\ st' = st /\ log' = log /\ pc[r] \notin {"new", "record", "done"}
  BY DEF TemporalRaises, ParserRaises, AllAnswered
<1>2. OnlyMoves(r) /\ st'[r] = st[r] /\ pc'[r] = "failed"
  BY <1>1, RaiseMoves DEF Raise, IInv, Typed
<1>3. /\ TrailOk("failed", st[r].attempt, log[st[r].session], r)
      /\ Decided("failed", log[st[r].session], r)
  <2>1. st[r].attempt <= st[r].attempt
    BY OneTrail
  <2> QED BY <1>1, <2>1, OneTrail, NoMessage
<1> QED BY <1>1, <1>2, <1>3, SilentKeeps

\* A query starts its trail.
LEMMA SubmitKeepsLog ==
  ASSUME IInv, LogInv, NEW r \in Requests, Submit(r) PROVE LogInv'
<1>1. PICK f \in BOOLEAN : Update(r, FreshState(st[r].session, f), "classify")
  BY DEF Submit
<1>2. Send(r, "query", 1) /\ pc[r] = "new"
  BY DEF Submit
<1>3. OnlyMoves(r) /\ st'[r] = FreshState(st[r].session, f) /\ pc'[r] = "classify"
  BY <1>1, <1>2, UpdateMoves DEF Update, IInv, Typed
<1>4. st'[r].session = st[r].session /\ st'[r].attempt = 0 /\ st[r].attempt = 0
  BY <1>2, <1>3, OneRequest DEF FreshState, Good
<1> DEFINE m == [kind |-> "query", of |-> r, attempt |-> 1]
           seq == log[st[r].session]
<1>5. m \in Message /\ m.of = r /\ m.kind = "query" /\ "query" \in Kinds
  BY DEF Message, Kinds
<1> HIDE DEF m, seq
<1>6. seq \in Seq(Message) /\ TrailOk("new", 0, seq, r) /\ OwnIn(seq, r) = {}
  BY <1>2, <1>4, OneTrail DEF seq, TrailOk
<1>7. TrailOk("classify", 0, Append(seq, m), r) /\ Decided("classify", Append(seq, m), r)
  <2>1. /\ m.kind \notin {"query", "sub_query"} => Has(seq, r, "sub_query")
        /\ m.kind = "agent_output" => m.attempt \in 1..0
        /\ 0 \in Nat /\ 0 <= 0
        /\ "classify" # "new" /\ ("classify" = "classify" => m.kind = "query")
        /\ "new" = "new" \/ "classify" # "classify"
        /\ OwnIn(seq, r) = {} => m.kind = "query"
        /\ "classify" \in {"record", "done"} <=> m.kind = "final" \/ "new" \in {"record", "done"}
        /\ "classify" \notin {"classify", "failed"}
             => m.kind = "sub_query" \/ Has(seq, r, "sub_query")
    BY <1>5
  <2>2. \A i \in OwnIn(seq, r) : Follows(seq[i], m)
    BY <1>6
  <2> QED BY <1>5, <1>6, <2>1, <2>2, OwnMessage
<1> QED BY <1>2, <1>3, <1>4, <1>5, <1>7, SpeakerKeeps DEF m, seq

\* The router's decision follows the query and nothing else.
LEMMA ClassifiedKeepsLog ==
  ASSUME IInv, LogInv, NEW r \in Requests, Classified(r) PROVE LogInv'
<1>1. PICK new, q : /\ Update(r, new, q) /\ q \in {"route", "respond"}
                    /\ new.session = st[r].session /\ new.attempt = st[r].attempt
  <2> DEFINE intentOf(decision, asks) ==
               IF asks THEN Clarify ELSE Carried(r, decision).intent
             new(decision, asks) ==
               [st[r] EXCEPT !.routed = decision.intent, !.intent = intentOf(decision, asks),
                             !.domains = Carried(r, decision).domains]
             next(decision, asks) ==
               IF intentOf(decision, asks) = Supply /\ Carried(r, decision).domains # << >>
                 THEN "route" ELSE "respond"
  <2>1. PICK decision \in Decisions, asks \in Asks :
          Update(r, new(decision, asks), next(decision, asks))
    BY DEF Classified
  <2>2. next(decision, asks) \in {"route", "respond"}
    OBVIOUS
  <2> HIDE DEF intentOf
  <2>3. /\ new(decision, asks).session = st[r].session
        /\ new(decision, asks).attempt = st[r].attempt
    BY OneRequest DEF AgentState
  <2> QED BY <2>1, <2>2, <2>3
<1>2. Send(r, "sub_query", 1) /\ pc[r] = "classify"
  BY DEF Classified
<1>3. OnlyMoves(r) /\ st'[r] = new /\ pc'[r] = q
  BY <1>1, <1>2, UpdateMoves DEF Update, IInv, Typed
<1> DEFINE m == [kind |-> "sub_query", of |-> r, attempt |-> 1]
           seq == log[st[r].session]
           n == st[r].attempt
<1>4. m \in Message /\ m.of = r /\ m.kind = "sub_query" /\ "sub_query" \in Kinds
  BY DEF Message, Kinds
<1> HIDE DEF m, seq, n
<1>5. seq \in Seq(Message) /\ TrailOk("classify", n, seq, r) /\ n \in Nat /\ n <= n
  BY <1>2, OneTrail DEF seq, n
<1>6. \A i \in OwnIn(seq, r) : Follows(seq[i], m)
  <2>1. \A i \in OwnIn(seq, r) : seq[i].kind = "query"
    BY <1>5 DEF TrailOk
  <2> QED BY <1>4, <2>1, Stages DEF Follows
<1>7. OwnIn(seq, r) # {}
  BY <1>5 DEF TrailOk
<1>8. TrailOk(q, n, Append(seq, m), r) /\ Decided(q, Append(seq, m), r)
  <2>1. q \notin {"new", "classify", "failed", "record", "done"}
    BY <1>1
  <2>2. /\ m.kind \notin {"query", "sub_query"} => Has(seq, r, "sub_query")
        /\ m.kind = "agent_output" => m.attempt \in 1..n
        /\ q # "new" /\ (q = "classify" => m.kind = "query")
        /\ "classify" = "new" \/ q # "classify"
        /\ OwnIn(seq, r) = {} => m.kind = "query"
        /\ q \in {"record", "done"} <=> m.kind = "final" \/ "classify" \in {"record", "done"}
        /\ q \notin {"classify", "failed"} => m.kind = "sub_query" \/ Has(seq, r, "sub_query")
    BY <1>4, <1>7, <2>1
  <2> QED BY <1>4, <1>5, <1>6, <1>7, <2>1, <2>2, OwnMessage
<1> QED BY <1>1, <1>2, <1>3, <1>4, <1>8, SpeakerKeeps DEF m, seq, n

\* A node that works on an attempt may say so: its message follows all others.
LEMMA WorkKeepsLog ==
  ASSUME IInv, LogInv, NEW r \in Requests, NEW new, NEW q, Update(r, new, q),
         NEW kind \in {"agent_output", "validation"}, NEW k \in Nat, Send(r, kind, k),
         new.session = st[r].session, new.attempt = st[r].attempt,
         kind = "agent_output" => k = st[r].attempt /\ k > 0,
         pc[r] \in Working, q \in Working
  PROVE  LogInv'
<1>1. OnlyMoves(r) /\ st'[r] = new /\ pc'[r] = q
  BY UpdateMoves DEF Update, IInv, Typed, Working
<1> DEFINE m == [kind |-> kind, of |-> r, attempt |-> k]
           seq == log[st[r].session]
           n == st[r].attempt
<1>2. m \in Message /\ m.of = r /\ m.kind = kind /\ m.attempt = k /\ kind \in Kinds
  BY DEF Message, Kinds
<1> HIDE DEF m
<1>3. /\ seq \in Seq(Message) /\ TrailOk(pc[r], n, seq, r) /\ n \in Nat /\ n <= n
      /\ Decided(pc[r], seq, r)
      /\ \A i \in OwnIn(seq, r) : seq[i].kind \in Kinds /\ seq[i].attempt \in Nat
  BY OneTrail
<1>4. /\ kind = "agent_output" => k = n /\ n > 0
      /\ new.attempt = n
  OBVIOUS
<1> HIDE DEF seq, n
<1>5. /\ Has(seq, r, "sub_query") /\ ~Has(seq, r, "final")
  BY <1>3 DEF TrailOk, Decided, Working
<1>6. ASSUME NEW i \in OwnIn(seq, r) PROVE Follows(seq[i], m)
  <2>1. seq[i].kind \in Kinds /\ seq[i].kind # "final"
    BY <1>3, <1>5 DEF Has
  <2>2. Stage(seq[i].kind) \in 1..3
    BY <2>1, Stages DEF Kinds
  <2>3. Stage(m.kind) = 3
    BY <1>2, Stages
  <2>4. seq[i].kind = "agent_output" => seq[i].attempt \in 1..n
    BY <1>3 DEF TrailOk
  <2>5. seq[i].kind = "agent_output" /\ m.kind = "agent_output" => seq[i].attempt <= m.attempt
    BY <1>2, <1>3, <1>4, <2>4
  <2> QED BY <2>2, <2>3, <2>5 DEF Follows
<1>7. m.kind = "agent_output" => m.attempt \in 1..n
  BY <1>2, <1>3, <1>4
<1>8. OwnIn(seq, r) # {}
  BY <1>5 DEF Has
<1>9. TrailOk(q, n, Append(seq, m), r) /\ Decided(q, Append(seq, m), r)
  BY <1>2, <1>3, <1>5, <1>6, <1>7, <1>8, OwnMessage DEF Working
<1> QED BY <1>1, <1>2, <1>4, <1>9, SpeakerKeeps DEF m, seq

\* The answer's message ends the trail.
LEMMA RespondKeepsLog ==
  ASSUME IInv, LogInv, NEW r \in Requests, Respond(r) PROVE LogInv'
<1> DEFINE new == [st[r] EXCEPT !.error = st[r].intent # Supply \/ st[r].issues]
           m == [kind |-> "final", of |-> r, attempt |-> 1]
           seq == log[st[r].session]
           n == st[r].attempt
<1>1. Update(r, new, "record") /\ Send(r, "final", 1) /\ pc[r] = "respond"
  BY DEF Respond
<1>2. new.session = st[r].session /\ new.attempt = n
  BY OneRequest DEF AgentState
<1> HIDE DEF new
<1>3. OnlyMoves(r) /\ st'[r] = new /\ pc'[r] = "record"
  BY <1>1, UpdateMoves DEF Update, IInv, Typed
<1>4. m \in Message /\ m.of = r /\ m.kind = "final" /\ "final" \in Kinds
  BY DEF Message, Kinds
<1> HIDE DEF m
<1>5. /\ seq \in Seq(Message) /\ TrailOk("respond", n, seq, r) /\ n \in Nat /\ n <= n
      /\ Decided("respond", seq, r)
      /\ \A i \in OwnIn(seq, r) : seq[i].kind \in Kinds
  BY <1>1, OneTrail
<1> HIDE DEF seq, n
<1>6. Has(seq, r, "sub_query") /\ ~Has(seq, r, "final")
  BY <1>5 DEF TrailOk, Decided
<1>7. ASSUME NEW i \in OwnIn(seq, r) PROVE Follows(seq[i], m)
  <2>1. seq[i].kind \in Kinds /\ seq[i].kind # "final"
    BY <1>5, <1>6 DEF Has
  <2>2. Stage(seq[i].kind) \in 1..3
    BY <2>1, Stages DEF Kinds
  <2> QED BY <1>4, <2>2, Stages DEF Follows
<1>8. OwnIn(seq, r) # {}
  BY <1>6 DEF Has
<1>9. TrailOk("record", n, Append(seq, m), r) /\ Decided("record", Append(seq, m), r)
  BY <1>4, <1>5, <1>6, <1>7, <1>8, OwnMessage
<1>10. 1 \in Nat
  OBVIOUS
<1> QED BY <1>1, <1>2, <1>3, <1>4, <1>9, <1>10, SpeakerKeeps DEF m, seq, n

\* Recording the turn writes nothing.
LEMMA RecordKeepsLog ==
  ASSUME IInv, LogInv, NEW r \in Requests, Record(r) PROVE LogInv'
<1>1. OnlyMoves(r) /\ st' = st /\ pc'[r] = "done" /\ pc[r] = "record" /\ log' = log
  BY RecordMoves DEF Record
<1>2. /\ TrailOk("done", st[r].attempt, log[st[r].session], r)
      /\ Decided("done", log[st[r].session], r)
  <2>1. st[r].attempt <= st[r].attempt
    BY OneTrail
  <2> QED BY <1>1, <2>1, OneTrail, NoMessage
<1> QED BY <1>1, <1>2, SilentKeeps

\* An agent's reply is written with the attempt it belongs to.
LEMMA RepliesKeepLog ==
  ASSUME IInv, LogInv, NEW r \in Requests, NoAnswer(r) \/ AgentReplies(r) PROVE LogInv'
<1>1. PICK text : Output(r, text)
  BY DEF NoAnswer, AgentReplies
<1> DEFINE new == [st[r] EXCEPT !.outputs = Append(@, [domain |-> NextDomain(r), text |-> text])]
<1>2. Update(r, new, "agents") /\ pc[r] = "agents"
  BY <1>1 DEF NoAnswer, AgentReplies, AgentsLeft, Output
<1>3. new.session = st[r].session /\ new.attempt = st[r].attempt
  BY OneRequest DEF AgentState
<1> HIDE DEF new
<1>4. st[r].attempt \in Nat /\ st[r].attempt > 0 /\ st[r].attempt <= st[r].attempt
  BY <1>2, OneRequest DEF AgentState, Good
<1>5. CASE log' = log
  BY <1>2, <1>3, <1>4, <1>5, SilentNode
<1>6. CASE Send(r, "agent_output", st[r].attempt)
  BY <1>2, <1>3, <1>4, <1>6, WorkKeepsLog DEF Working
<1> QED BY <1>5, <1>6 DEF NoAnswer, AgentReplies

\* Compliance writes its audit, if it made one.
LEMMA ComplyKeepsLog ==
  ASSUME IInv, LogInv, NEW r \in Requests, Comply(r) PROVE LogInv'
<1> DEFINE new == [st[r] EXCEPT !.sql.filtered = Audited(r) /\ r \notin Privileged]
<1>1. Update(r, new, "validate") /\ pc[r] = "comply"
  BY DEF Comply
<1>2. new.session = st[r].session /\ new.attempt = st[r].attempt
  BY OneRequest DEF AgentState
<1> HIDE DEF new
<1>3. st[r].attempt \in Nat /\ st[r].attempt <= st[r].attempt /\ 1 \in Nat
  BY OneRequest DEF AgentState
<1>4. CASE log' = log
  BY <1>1, <1>2, <1>3, <1>4, SilentNode
<1>5. CASE Send(r, "validation", 1)
  BY <1>1, <1>2, <1>3, <1>5, WorkKeepsLog DEF Working
<1> QED BY <1>4, <1>5 DEF Comply

\* The other nodes write nothing.
LEMMA OthersKeepLog ==
  ASSUME IInv, LogInv, NEW r \in Requests,
         \/ Route(r) \/ Generate(r) \/ Compose(r)
         \/ ValidateUnread(r) \/ RejectSyntax(r) \/ RejectExecution(r) \/ Accept(r)
  PROVE  LogInv'
<1>0. st[r] \in AgentState /\ st[r].attempt \in Nat
  BY OneRequest DEF AgentState
<1>1. PICK new, q :
        /\ Update(r, new, q) /\ log' = log
        /\ new.session = st[r].session /\ new.attempt \in {st[r].attempt, st[r].attempt + 1}
        /\ pc[r] \in Working /\ q \in Working \cup {"respond"}
  <2>1. CASE Route(r)
    <3> DEFINE new == [st[r] EXCEPT !.subs = st[r].domains]
    <3>1. Update(r, new, "generate") /\ log' = log /\ pc[r] \in Working
      BY <2>1 DEF Route, Working
    <3>2. new.session = st[r].session /\ new.attempt = st[r].attempt
      BY <1>0 DEF AgentState
    <3> HIDE DEF new
    <3> QED BY <3>1, <3>2 DEF Working
  <2>2. CASE Generate(r)
    <3> DEFINE new == [st[r] EXCEPT !.attempt = @ + 1, !.outputs = << >>]
    <3>1. Update(r, new, "agents") /\ log' = log /\ pc[r] \in Working
      BY <2>2 DEF Generate, Working
    <3>2. new.session = st[r].session /\ new.attempt = st[r].attempt + 1
      BY <1>0 DEF AgentState
    <3> HIDE DEF new
    <3> QED BY <3>1, <3>2 DEF Working
  <2>3. CASE Compose(r)
    <3> DEFINE sql == IF Composed(r) = "none" THEN NoSQL
                      ELSE [by |-> st[r].attempt, text |-> Composed(r), filtered |-> FALSE]
               new == [st[r] EXCEPT !.sql = sql]
    <3>1. Update(r, new, "comply") /\ log' = log /\ pc[r] \in Working
      BY <2>3 DEF Compose, AllAnswered, Working
    <3> HIDE DEF sql
    <3>2. new.session = st[r].session /\ new.attempt = st[r].attempt
      BY <1>0 DEF AgentState
    <3> HIDE DEF new
    <3> QED BY <3>1, <3>2 DEF Working
  <2>4. CASE ValidateUnread(r) \/ RejectSyntax(r) \/ RejectExecution(r) \/ Accept(r)
    <3>1. PICK new : /\ Validated(r, new)
                     /\ new.session = st[r].session /\ new.attempt = st[r].attempt
      <4>1. CASE ValidateUnread(r)
        <5> DEFINE new == [st[r] EXCEPT !.issues = st[r].sql.text = "none"]
        <5>1. Validated(r, new)
          BY <4>1 DEF ValidateUnread
        <5>2. new.session = st[r].session /\ new.attempt = st[r].attempt
          BY <1>0 DEF AgentState
        <5> HIDE DEF new
        <5> QED BY <5>1, <5>2
      <4>2. CASE RejectSyntax(r) \/ RejectExecution(r)
        <5> DEFINE new == [st[r] EXCEPT !.issues = TRUE, !.rows = 0]
        <5>1. Validated(r, new)
          BY <4>2 DEF RejectSyntax, RejectExecution, Rejects
        <5>2. new.session = st[r].session /\ new.attempt = st[r].attempt
          BY <1>0 DEF AgentState
        <5> HIDE DEF new
        <5> QED BY <5>1, <5>2
      <4>3. CASE Accept(r)
        <5> DEFINE rows == IF Execute THEN st[r].sql.by ELSE 0
                   accepted(b) == [st[r] EXCEPT !.issues = b, !.rows = rows]
        <5>1. PICK b \in BusinessIssues : Validated(r, accepted(b))
          BY <4>3 DEF Accept
        <5> HIDE DEF rows
        <5>2. accepted(b).session = st[r].session /\ accepted(b).attempt = st[r].attempt
          BY <1>0 DEF AgentState
        <5> HIDE DEF accepted
        <5> QED BY <5>1, <5>2
      <4> QED BY <2>4, <4>1, <4>2, <4>3
    <3>2. Update(r, new, AfterValidate(new)) /\ log' = log
      BY <3>1 DEF Validated
    <3>3. AfterValidate(new) \in Working \cup {"respond"} /\ pc[r] \in Working
      BY <2>4 DEF AfterValidate, Working, ValidateUnread, RejectSyntax, RejectExecution,
                  Rejects, Accept
    <3> QED BY <3>1, <3>2, <3>3
  <2> QED BY <2>1, <2>2, <2>3, <2>4
<1>2. new.attempt \in Nat /\ st[r].attempt <= new.attempt
  BY <1>0, <1>1
<1>3. /\ pc[r] \notin {"new", "classify", "failed", "record", "done"}
      /\ q \notin {"new", "classify", "record", "done"}
  BY <1>1 DEF Working
<1> QED BY <1>1, <1>2, <1>3, SilentNode

\* The log is empty at first.
LEMMA InitLog == Init => LogInv
<1> SUFFICES ASSUME Init PROVE LogInv
  OBVIOUS
<1>1. log \in [SessionIds -> Seq(Message)]
  BY DEF Init
<1>2. ASSUME NEW r \in Requests
      PROVE  /\ TrailOk(pc[r], st[r].attempt, log[st[r].session], r)
             /\ Decided(pc[r], log[st[r].session], r)
  <2>1. pc[r] = "new" /\ st[r].session \in SessionIds
    BY <1>2, InitIInv, OneRequest DEF Init, AgentState
  <2>2. log[st[r].session] = << >>
    BY <2>1 DEF Init
  <2>3. OwnIn(log[st[r].session], r) = {}
    BY <2>2 DEF OwnIn
  <2> QED BY <2>1, <2>3 DEF TrailOk, Decided, Has
<1> QED BY <1>1, <1>2 DEF LogInv

\* Every step keeps the trails.
LEMMA NextLog == IInv /\ LogInv /\ [Next]_vars => LogInv'
<1> SUFFICES ASSUME IInv, LogInv, [Next]_vars PROVE LogInv'
  OBVIOUS
<1>1. CASE UNCHANGED vars
  <2>1. pc' = pc /\ st' = st /\ log' = log
    BY <1>1 DEF vars
  <2>2. log' \in [SessionIds -> Seq(Message)]
    BY <2>1 DEF LogInv
  <2>3. \A r \in Requests : /\ TrailOk(pc'[r], st'[r].attempt, log'[st'[r].session], r)
                            /\ Decided(pc'[r], log'[st'[r].session], r)
    BY <2>1 DEF LogInv
  <2> QED BY <2>2, <2>3 DEF LogInv, TrailOk, Decided, Has, OwnIn, Follows, Stage
<1>2. ASSUME NEW r \in Requests, Submit(r) \/ Step(r) PROVE LogInv'
  <2>1. CASE Submit(r) \/ Classified(r) \/ Record(r) \/ Respond(r)
    BY <2>1, SubmitKeepsLog, ClassifiedKeepsLog, RecordKeepsLog, RespondKeepsLog
  <2>2. CASE TemporalRaises(r) \/ ParserRaises(r)
    BY <2>2, RaiseKeepsLog
  <2>3. CASE NoAnswer(r) \/ AgentReplies(r) \/ Comply(r)
    BY <2>3, RepliesKeepLog, ComplyKeepsLog
  <2>4. CASE \/ Route(r) \/ Generate(r) \/ Compose(r)
             \/ ValidateUnread(r) \/ RejectSyntax(r) \/ RejectExecution(r) \/ Accept(r)
    BY <2>4, OthersKeepLog
  <2> QED BY <1>2, <2>1, <2>2, <2>3, <2>4 DEF Step
<1> QED BY <1>1, <1>2 DEF Next, AllEnded

\* The invariant of the log holds throughout.
LEMMA LogInvariance == Spec => []LogInv
BY Invariance, InitLog, NextLog, PTL DEF Spec

\* The trail of a query starts with it and the router's decision, has the agents'
\* outputs in the order of their attempts, and ends with one final message exactly
\* when there is an answer, for any number of queries that write to the same log
\* (orchestrator.py:179-187, 250-265, 367-380, 445-458).
THEOREM TrailsAreComplete == Spec => []AuditTrail
BY LogInvariance, TrailSplit, PTL

\* The requests, the log and the memory keep their types in every reachable state
\* (state.py:51-98, messages.py:21-68).
THEOREM TypeCorrect == Spec => []TypeOK
<1>1. IInv /\ LogInv /\ MemoryProofs!Inv => TypeOK
  <2> SUFFICES ASSUME IInv, LogInv, MemoryProofs!Inv PROVE TypeOK
    OBVIOUS
  <2>1. keys \in Seq(SessionIds)
    BY DEF MemoryProofs!Inv
  <2>2. Memory!TypeOK
    BY <2>1 DEF Memory!TypeOK, IInv, Typed
  <2> QED BY <2>2 DEF TypeOK, IInv, Typed, LogInv, Places
<1> QED BY <1>1, Invariance, LogInvariance, StoreInvariance, PTL
=================================================================================
