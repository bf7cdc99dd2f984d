------------------------------ MODULE GatewayProofs ------------------------------
(***************************************************************************)
(* Proofs about the way of a question: for any number of tabs, questions,  *)
(* sessions and restarts, a page shows the answers to its own questions,   *)
(* waits for one of them at most and keeps a reply it has shown, a         *)
(* response reports every call of its question, and a session's tracker    *)
(* holds exactly the calls of its questions.                               *)
(***************************************************************************)
EXTENDS Gateway, FiniteSetTheorems, TLAPS

\* What is known of a question by its place: nobody waits for one that was not
\* asked, and no page shows it.  A page's own session id is a used one.
Started ==
  /\ \A a \in Asks : ask[a].pc = "new" <=> proxy[a] = "idle"
  /\ \A c \in Tabs : \A i \in DOMAIN tab[c].turns : ask[tab[c].turns[i].ask].pc # "new"
  /\ \A c \in Tabs : tab[c].session \in used

\* A page that is loading waits for one question, another page for none.
Waits(c) == {a \in Asks : ask[a].by = c /\ proxy[a] = "waiting"}
WaitsForOne ==
  \A c \in Tabs : IF tab[c].loading THEN \E a \in Asks : Waits(c) = {a} ELSE Waits(c) = {}

\* No call is made for a question before it arrives, and the calls of one that is
\* worked on are in its session's tracker.
Working(a) == ask[a].pc \in {"run", "viz"}
Tracked ==
  \A a \in Asks :
    /\ ask[a].pc \in {"new", "sent"} => ask[a].own = 0
    /\ Working(a) => ask[a].session \in Sessions /\ tracker[ask[a].session] >= ask[a].own

IInv == TypeOK /\ Started /\ WaitsForOne /\ TurnsMatch /\ Tracked /\ UsageCovers

USE GatewayAssumption

-----------------------------------------------------------------------------
(* The steps of the gateway, which leave the pages alone.                  *)

LEMMA TypesOf ==
  ASSUME TypeOK
  PROVE  /\ \A c \in Tabs : tab[c] \in Page
         /\ \A a \in Asks : ask[a] \in Handler
         /\ \A c \in Tabs : \A i \in DOMAIN tab[c].turns : tab[c].turns[i] \in Turn
BY DEF TypeOK, Page

\* What the invariant says of the pages stays when no question changes its page
\* or session, is asked or loses its answer.
LEMMA PagesStay ==
  ASSUME IInv, UNCHANGED <<tab, used, proxy>>,
         \A x \in Asks : /\ ask'[x].by = ask[x].by /\ ask'[x].session = ask[x].session
                         /\ ask'[x].pc = "new" <=> ask[x].pc = "new"
                         /\ ask[x].pc = "answered" => ask'[x].pc = "answered"
  PROVE  Started' /\ WaitsForOne' /\ TurnsMatch'
<1>1. \A c \in Tabs : \A i \in DOMAIN tab[c].turns : tab[c].turns[i].ask \in Asks
  BY TypesOf DEF IInv, Turn
<1>2. \A c \in Tabs : Waits(c)' = Waits(c)
  BY DEF Waits
<1>3. Started'
  BY <1>1 DEF IInv, Started
<1>4. WaitsForOne'
  BY <1>2 DEF IInv, WaitsForOne
<1>5. TurnsMatch'
  BY <1>1 DEF IInv, TurnsMatch
<1> QED BY <1>3, <1>4, <1>5

\* The handler of one question goes on, its session has a tracker, and no tracker
\* is smaller than before.
LEMMA HandlerGoesOn ==
  ASSUME IInv, NEW a \in Asks, NEW h \in Handler, ask' = [ask EXCEPT ![a] = h],
         ask[a].pc \notin {"new", "answered"}, h.pc \in {"run", "viz", "answered"},
         h.by = ask[a].by, h.session = ask[a].session,
         h.pc = "answered" => h.response.usage >= h.own,
         UNCHANGED <<tab, used, proxy, restarts>>,
         DOMAIN tracker' \subseteq SessionIds, \A s \in Sessions' : tracker'[s] \in Nat,
         \A s \in Sessions : s \in Sessions' /\ tracker'[s] >= tracker[s],
         h.session \in Sessions', tracker'[h.session] >= h.own
  PROVE  IInv'
<1>1. ask' \in [Asks -> Handler] /\ ask'[a] = h /\ \A x \in Asks : x # a => ask'[x] = ask[x]
  BY DEF IInv, TypeOK
<1>2. TypeOK'
  BY <1>1 DEF IInv, TypeOK, Sessions
<1>3. Started' /\ WaitsForOne' /\ TurnsMatch'
  BY <1>1, PagesStay
<1>4. \A x \in Asks : ask[x] \in Handler
  BY TypesOf DEF IInv
<1>5. \A s \in Sessions : tracker[s] \in Nat
  BY DEF IInv, TypeOK
<1>6. \A x \in Asks : ask[x].own \in Nat
  BY <1>4 DEF Handler
<1>7. Tracked'
  <2>1. h.own \in Nat
    BY DEF Handler
  <2>2. ASSUME NEW x \in Asks, x # a, Working(x)
        PROVE  ask[x].session \in Sessions' /\ tracker'[ask[x].session] >= ask[x].own
    BY <2>2, <1>5, <1>6 DEF IInv, Tracked
  <2> QED BY <1>1, <2>1, <2>2 DEF IInv, Tracked, Working
<1>8. UsageCovers'
  BY <1>1 DEF IInv, UsageCovers
<1> QED BY <1>2, <1>3, <1>7, <1>8 DEF IInv

LEMMA ArriveKeepsIInv ==
  ASSUME IInv, NEW a \in Asks, Arrive(a)
  PROVE  IInv'
<1>1. PICK n \in PlanLengths :
        ask' = [ask EXCEPT ![a].pc = "run", ![a].plan = n, ![a].epoch = restarts]
  BY DEF Arrive
<1> DEFINE h == [ask[a] EXCEPT !.pc = "run", !.plan = n, !.epoch = restarts]
<1>2. ask[a] \in Handler /\ ask[a].pc = "sent" /\ n \in Nat /\ restarts \in Nat
  BY TypesOf DEF IInv, TypeOK, Arrive
<1>3. h \in Handler /\ h.pc = "run" /\ h.by = ask[a].by /\ h.session = ask[a].session /\ h.own = ask[a].own
  BY <1>2 DEF Handler
<1>4. ask' = [ask EXCEPT ![a] = h]
  BY <1>1
<1> HIDE DEF h
<1> DEFINE s0 == ask[a].session
<1>5. s0 \in SessionIds /\ ask[a].own = 0
  BY <1>2 DEF Handler, IInv, Tracked
<1>6. Sessions' = Sessions \cup {s0} /\ \A s \in Sessions' : tracker'[s] = IF s \in Sessions THEN tracker[s] ELSE 0
  BY DEF Arrive, Sessions
<1>7. Sessions \subseteq SessionIds /\ \A s \in Sessions : tracker[s] \in Nat
  BY DEF IInv, TypeOK, Sessions
<1>8. UNCHANGED <<tab, used, proxy, restarts>>
  BY DEF Arrive
<1>9. /\ Sessions' \subseteq SessionIds /\ h.session \in Sessions'
      /\ \A s \in Sessions' : tracker'[s] \in Nat
      /\ \A s \in Sessions : s \in Sessions' /\ tracker'[s] >= tracker[s]
  BY <1>3, <1>5, <1>6, <1>7
<1>10. tracker'[h.session] >= h.own
  BY <1>3, <1>5, <1>9
<1> QED BY <1>2, <1>3, <1>4, <1>8, <1>9, <1>10, HandlerGoesOn DEF Sessions

\* The trackers cover n calls more of a question, and no tracker is smaller.
Covers(a, n) ==
  /\ DOMAIN tracker' \subseteq SessionIds /\ \A s \in Sessions' : tracker'[s] \in Nat
  /\ \A s \in Sessions : s \in Sessions' /\ tracker'[s] >= tracker[s]
  /\ ask[a].session \in Sessions'
  /\ ask[a].own + n \in Nat /\ tracker'[ask[a].session] >= ask[a].own + n

LEMMA TrackersCover ==
  ASSUME IInv, NEW a \in Asks, Working(a), NEW n \in Nat,
         RecordCalls(a, n) \/ (n = 0 /\ UNCHANGED tracker)
  PROVE  Covers(a, n)
<1>1. Sessions \subseteq SessionIds /\ \A s \in Sessions : tracker[s] \in Nat
  BY DEF IInv, TypeOK, Sessions
<1>2. ask[a].session \in Sessions /\ tracker[ask[a].session] >= ask[a].own
  BY DEF IInv, Tracked
<1>3. ask[a].own \in Nat
  BY TypesOf DEF IInv, Handler
<1>4. Sessions' = Sessions /\ \A s \in Sessions : tracker'[s] = IF s = ask[a].session THEN tracker[s] + n ELSE tracker[s]
  BY <1>1 DEF RecordCalls, Sessions
<1>5. \A s \in Sessions : tracker'[s] \in Nat /\ tracker'[s] >= tracker[s]
  BY <1>1, <1>4
<1> QED BY <1>1, <1>2, <1>3, <1>4, <1>5 DEF Covers, Sessions

LEMMA LLMRepliesKeepsIInv ==
  ASSUME IInv, NEW a \in Asks, LLMReplies(a)
  PROVE  IInv'
<1> DEFINE h == [ask[a] EXCEPT !.calls = ask[a].calls + 1, !.own = ask[a].own + 1]
<1>1. ask[a] \in Handler /\ ask[a].pc = "run" /\ ask[a].own + 1 \in Nat /\ ask[a].calls + 1 \in Nat
  BY TypesOf DEF IInv, LLMReplies, Handler
<1>2. h \in Handler /\ h.pc = "run" /\ h.by = ask[a].by /\ h.session = ask[a].session /\ h.own = ask[a].own + 1
  BY <1>1 DEF Handler
<1>3. ask' = [ask EXCEPT ![a] = h]
  BY DEF LLMReplies
<1> HIDE DEF h
<1>4. UNCHANGED <<tab, used, proxy, restarts>> /\ RecordCalls(a, 1)
  BY DEF LLMReplies
<1>5. Working(a)
  BY <1>1 DEF Working
<1>6. Covers(a, 1)
  BY <1>4, <1>5, TrackersCover
<1> QED BY <1>1, <1>2, <1>3, <1>4, <1>6, HandlerGoesOn DEF Covers

\* One run is over: the handler goes on with the next step or answers.
LEMMA StepEndsKeepsIInv ==
  ASSUME IInv, NEW a \in Asks, Working(a), NEW result \in Results, NEW n \in Nat,
         StepEnds(a, result, n), Covers(a, n), UNCHANGED <<tab, used, proxy, restarts>>
  PROVE  IInv'
<1> DEFINE own == ask[a].own + n
           e == [ask[a] EXCEPT !.own = own, !.calls = 0, !.done = ask[a].done + 1]
           next == [e EXCEPT !.pc = "run"]
           last == [e EXCEPT !.pc = "answered", !.response = Answer(a, result)]
<1>1. ask[a] \in Handler /\ ask[a].pc \in {"run", "viz"} /\ ask[a].done + 1 \in Nat
  BY TypesOf DEF IInv, Working, Handler
<1>2. own \in Nat /\ tracker'[ask[a].session] >= own /\ tracker'[ask[a].session] \in Nat
  BY DEF Covers
<1>3. e \in Handler /\ e.by = ask[a].by /\ e.session = ask[a].session /\ e.own = own
  BY <1>1, <1>2 DEF Handler
<1>4. Answer(a, result) \in Response /\ Answer(a, result).usage = tracker'[ask[a].session]
  BY <1>1, <1>2 DEF Answer, Usage, Response, Results, Handler
<1>5. next \in Handler /\ next.pc = "run" /\ next.by = e.by /\ next.session = e.session /\ next.own = e.own
  BY <1>3 DEF Handler
<1>6. /\ last \in Handler /\ last.pc = "answered" /\ last.by = e.by /\ last.session = e.session
      /\ last.own = e.own /\ last.response = Answer(a, result)
  BY <1>3, <1>4 DEF Handler
<1>7. ask' = [ask EXCEPT ![a] = next] \/ ask' = [ask EXCEPT ![a] = last]
  BY <1>1 DEF StepEnds, IInv, TypeOK
<1> HIDE DEF next, last, e, own
<1>8. CASE ask' = [ask EXCEPT ![a] = next]
  BY <1>1, <1>2, <1>3, <1>5, <1>8, HandlerGoesOn DEF own, Covers
<1>9. CASE ask' = [ask EXCEPT ![a] = last]
  <2>1. last.response.usage >= last.own
    BY <1>2, <1>3, <1>4, <1>6
  <2> QED BY <1>1, <1>2, <1>3, <1>6, <1>9, <2>1, HandlerGoesOn DEF own, Covers
<1> QED BY <1>7, <1>8, <1>9

LEMMA RunEndsKeepsIInv ==
  ASSUME IInv, NEW a \in Asks, RunEnds(a)
  PROVE  IInv'
<1>1. PICK result \in Results : UNCHANGED tracker /\ StepEnds(a, result, 0)
  BY DEF RunEnds
<1>2. Working(a) /\ UNCHANGED <<tab, used, proxy, restarts>>
  BY DEF RunEnds, Working
<1> QED BY <1>1, <1>2, TrackersCover, StepEndsKeepsIInv

LEMMA RowsFetchedKeepsIInv ==
  ASSUME IInv, NEW a \in Asks, RowsFetched(a)
  PROVE  IInv'
<1> DEFINE h == [ask[a] EXCEPT !.pc = "viz"]
<1>1. ask[a] \in Handler /\ ask[a].pc = "run" /\ ask[a].own \in Nat
  BY TypesOf DEF IInv, RowsFetched, Handler
<1>2. h \in Handler /\ h.pc = "viz" /\ h.by = ask[a].by /\ h.session = ask[a].session /\ h.own = ask[a].own
  BY <1>1 DEF Handler
<1>3. ask' = [ask EXCEPT ![a] = h]
  BY DEF RowsFetched
<1> HIDE DEF h
<1>4. UNCHANGED <<tab, used, proxy, restarts>> /\ UNCHANGED tracker
  BY DEF RowsFetched
<1>5. Working(a)
  BY <1>1 DEF Working
<1>6. Covers(a, 0)
  BY <1>4, <1>5, TrackersCover
<1>7. ask[a].own + 0 = ask[a].own
  BY <1>1
<1> QED BY <1>1, <1>2, <1>3, <1>4, <1>6, <1>7, HandlerGoesOn DEF Covers

LEMMA VizSelectedKeepsIInv ==
  ASSUME IInv, NEW a \in Asks, VizSelected(a)
  PROVE  IInv'
<1> DEFINE shown == [sql |-> TRUE, rows |-> TRUE, err |-> FALSE]
<1>1. PICK n \in {0, 1} : RecordCalls(a, n) /\ StepEnds(a, shown, n)
  BY DEF VizSelected
<1>2. Working(a) /\ UNCHANGED <<tab, used, proxy, restarts>>
  BY DEF VizSelected, Working
<1>3. shown \in Results /\ n \in Nat
  BY DEF Results
<1> HIDE DEF shown
<1>4. Covers(a, n)
  BY <1>1, <1>2, <1>3, TrackersCover
<1> QED BY <1>1, <1>2, <1>3, <1>4, StepEndsKeepsIInv

\* After a restart nothing is worked on.
LEMMA RestartKeepsIInv ==
  ASSUME IInv, Restart
  PROVE  IInv'
<1>1. \A x \in Asks : ask[x] \in Handler
  BY TypesOf DEF IInv
<1>2. ASSUME NEW x \in Asks
      PROVE  /\ ask'[x] \in Handler /\ ask'[x].by = ask[x].by /\ ask'[x].session = ask[x].session
             /\ ask'[x].own = ask[x].own /\ ask'[x].response = ask[x].response
             /\ ask'[x].pc = IF Working(x) THEN "dead" ELSE ask[x].pc
  <2>1. CASE Working(x)
    <3> DEFINE h == [ask[x] EXCEPT !.pc = "dead"]
    <3>1. /\ h \in Handler /\ h.by = ask[x].by /\ h.session = ask[x].session
          /\ h.own = ask[x].own /\ h.response = ask[x].response /\ h.pc = "dead"
      BY <1>1 DEF Handler
    <3>2. ask'[x] = h
      BY <2>1 DEF Restart, Working
    <3> QED BY <2>1, <3>1, <3>2
  <2>2. CASE ~Working(x)
    BY <1>1, <2>2 DEF Restart, Working
  <2> QED BY <2>1, <2>2
<1>3. tracker' = << >> /\ restarts' \in 0..MaxRestarts /\ UNCHANGED <<tab, used, proxy>>
  BY DEF Restart, IInv, TypeOK
<1>4. DOMAIN tracker' = {}
  BY <1>3
<1>5. ask' \in [Asks -> Handler]
  BY <1>2 DEF Restart
<1>6. TypeOK'
  BY <1>3, <1>4, <1>5 DEF IInv, TypeOK, Sessions
<1>7. Started' /\ WaitsForOne' /\ TurnsMatch'
  BY <1>2, <1>3, PagesStay DEF Working
<1>8. Tracked' /\ UsageCovers'
  BY <1>2 DEF IInv, Tracked, UsageCovers, Working
<1> QED BY <1>6, <1>7, <1>8 DEF IInv

-----------------------------------------------------------------------------
(* The steps of the pages and the proxy, which leave the gateway alone.    *)

LEMMA SendKeepsIInv ==
  ASSUME IInv, NEW a \in Asks, Send(a)
  PROVE  IInv'
<1> DEFINE c == ask[a].by
           turn == [ask |-> a, reply |-> "none"]
           p == [tab[c] EXCEPT !.turns = Append(tab[c].turns, turn), !.loading = TRUE]
           h == [ask[a] EXCEPT !.pc = "sent", !.session = tab[c].session]
<1>1. c \in Tabs /\ ask[a] \in Handler /\ ask[a].pc = "new" /\ tab[c] \in Page /\ ~tab[c].loading
  BY TypesOf DEF IInv, Send, Handler
<1>2. turn \in Turn /\ tab[c].turns \in Seq(Turn) /\ tab[c].session \in SessionIds
  BY <1>1 DEF Turn, Page
<1>3. Append(tab[c].turns, turn) \in Seq(Turn)
  BY <1>2
<1>4. p \in Page /\ p.turns = Append(tab[c].turns, turn) /\ p.loading = TRUE /\ p.session = tab[c].session
  BY <1>1, <1>3 DEF Page
<1>5. /\ h \in Handler /\ h.pc = "sent" /\ h.session = tab[c].session /\ h.by = c
      /\ h.own = ask[a].own /\ h.response = ask[a].response
  BY <1>1, <1>2 DEF Handler
<1>6. tab' = [tab EXCEPT ![c] = p] /\ ask' = [ask EXCEPT ![a] = h] /\ proxy' = [proxy EXCEPT ![a] = "waiting"]
  BY DEF Send
<1> HIDE DEF p, h, c, turn
<1>7. UNCHANGED <<used, tracker, restarts>>
  BY DEF Send
<1>8. /\ tab'[c] = p /\ \A x \in Tabs : x # c => tab'[x] = tab[x]
      /\ ask'[a] = h /\ \A x \in Asks : x # a => ask'[x] = ask[x]
      /\ proxy'[a] = "waiting" /\ \A x \in Asks : x # a => proxy'[x] = proxy[x]
  BY <1>1, <1>6 DEF IInv, TypeOK
<1>9. TypeOK'
  BY <1>4, <1>5, <1>6, <1>7, <1>8 DEF IInv, TypeOK, Sessions
<1>10. \A x \in Tabs : \A i \in DOMAIN tab[x].turns : tab[x].turns[i].ask \in Asks /\ tab[x].turns[i].ask # a
  BY <1>1, TypesOf DEF IInv, Started, Turn
<1>11. \A i \in DOMAIN p.turns : \/ i \in DOMAIN tab[c].turns /\ p.turns[i] = tab[c].turns[i]
                                 \/ i = Len(tab[c].turns) + 1 /\ p.turns[i] = turn
  BY <1>2, <1>4
<1>12. turn.ask = a /\ turn.reply = "none"
  BY DEF turn
<1>17. \A i \in DOMAIN tab'[c].turns :
          \/ /\ i \in DOMAIN tab[c].turns /\ tab'[c].turns[i] = tab[c].turns[i]
             /\ tab[c].turns[i].ask # a /\ tab[c].turns[i].ask \in Asks
          \/ i \notin DOMAIN tab[c].turns /\ i = Len(tab[c].turns) + 1 /\ tab'[c].turns[i] = turn
  <2>1. tab'[c].turns = p.turns
    BY <1>8
  <2>2. Len(tab[c].turns) + 1 \notin DOMAIN tab[c].turns
    BY <1>2
  <2> QED BY <1>1, <1>10, <1>11, <2>1, <2>2
<1>18. ask'[a].pc = "sent" /\ ask'[a].by = c /\ ask'[a].session = tab'[c].session
  BY <1>4, <1>5, <1>8
<1>13. Started'
  <2>1. \A x \in Asks : ask'[x].pc = "new" <=> proxy'[x] = "idle"
    BY <1>5, <1>8 DEF IInv, Started
  <2>2. \A x \in Tabs : x # c => \A i \in DOMAIN tab'[x].turns : ask'[tab'[x].turns[i].ask].pc # "new"
    BY <1>8, <1>10 DEF IInv, Started
  <2>3. \A i \in DOMAIN tab'[c].turns : ask'[tab'[c].turns[i].ask].pc # "new"
    <3> SUFFICES ASSUME NEW i \in DOMAIN tab'[c].turns PROVE ask'[tab'[c].turns[i].ask].pc # "new"
      OBVIOUS
    <3>1. CASE i \in DOMAIN tab[c].turns
      BY <1>1, <1>8, <1>17, <3>1 DEF IInv, Started
    <3>2. CASE i \notin DOMAIN tab[c].turns
      BY <1>12, <1>17, <1>18, <3>2
    <3> QED BY <3>1, <3>2
  <2>4. \A x \in Tabs : tab'[x].session \in used'
    BY <1>4, <1>7, <1>8 DEF IInv, Started
  <2> QED BY <2>1, <2>2, <2>3, <2>4 DEF Started
<1>14. WaitsForOne'
  <2>1. Waits(c) = {}
    BY <1>1 DEF IInv, WaitsForOne
  <2>2. Waits(c)' = {a} /\ \A x \in Tabs : x # c => Waits(x)' = Waits(x)
    BY <1>5, <1>8, <2>1 DEF Waits, c
  <2>5. c' = c
    BY <1>5, <1>8 DEF c
  <2> SUFFICES ASSUME NEW x \in Tabs
               PROVE  (IF tab[x].loading THEN \E b \in Asks : Waits(x) = {b} ELSE Waits(x) = {})'
    BY DEF WaitsForOne
  <2>3. CASE x = c
    BY <1>4, <1>8, <2>2, <2>3, <2>5 DEF Waits
  <2>4. CASE x # c
    BY <1>8, <2>2, <2>4 DEF IInv, WaitsForOne
  <2> QED BY <2>3, <2>4
<1>15. TurnsMatch'
  <2> SUFFICES ASSUME NEW x \in Tabs, NEW i \in DOMAIN tab'[x].turns
               PROVE  LET t == tab'[x].turns[i] IN
                      /\ ask'[t.ask].by = x /\ ask'[t.ask].session = tab'[x].session
                      /\ \A j \in DOMAIN tab'[x].turns : tab'[x].turns[j].ask = t.ask => i = j
                      /\ t.reply = "answer" => ask'[t.ask].pc = "answered"
                      /\ t.reply = "none" <=> proxy'[t.ask] = "waiting"
    BY DEF TurnsMatch
  <2>1. CASE x # c
    BY <1>8, <1>10, <2>1 DEF IInv, TurnsMatch
  <2>2. CASE x = c /\ i \in DOMAIN tab[c].turns
    <3> DEFINE b == tab[c].turns[i].ask
    <3>1. tab'[c].turns[i] = tab[c].turns[i] /\ b # a /\ b \in Asks
      BY <1>17, <2>2
    <3>2. \A j \in DOMAIN tab[c].turns : tab[c].turns[j].ask = b => i = j
      BY <1>1, <2>2 DEF IInv, TurnsMatch
    <3>3. \A j \in DOMAIN tab'[c].turns : tab'[c].turns[j].ask = b => i = j
      BY <1>12, <1>17, <3>1, <3>2
    <3>4. ask'[b] = ask[b] /\ proxy'[b] = proxy[b] /\ tab'[c].session = tab[c].session
      BY <1>4, <1>8, <3>1
    <3>5. /\ ask[b].by = c /\ ask[b].session = tab[c].session
          /\ tab[c].turns[i].reply = "answer" => ask[b].pc = "answered"
          /\ tab[c].turns[i].reply = "none" <=> proxy[b] = "waiting"
      BY <1>1, <2>2 DEF IInv, TurnsMatch
    <3> QED BY <2>2, <3>1, <3>3, <3>4, <3>5
  <2>3. CASE x = c /\ i \notin DOMAIN tab[c].turns
    <3>1. tab'[c].turns[i] = turn /\ i = Len(tab[c].turns) + 1
      BY <1>17, <2>3
    <3>2. \A j \in DOMAIN tab'[c].turns : tab'[c].turns[j].ask = a => i = j
      BY <1>17, <3>1
    <3> QED BY <1>8, <1>12, <1>18, <2>3, <3>1, <3>2
  <2> QED BY <2>1, <2>2, <2>3
<1>16. Tracked' /\ UsageCovers'
  BY <1>1, <1>5, <1>7, <1>8 DEF IInv, Tracked, UsageCovers, Working, Sessions
<1> QED BY <1>9, <1>13, <1>14, <1>15, <1>16 DEF IInv

LEMMA NewSessionKeepsIInv ==
  ASSUME IInv, NEW c \in Tabs, NewSession(c)
  PROVE  IInv'
<1>1. PICK s \in SessionIds \ used :
        tab' = [tab EXCEPT ![c].session = s, ![c].turns = << >>] /\ used' = used \cup {s}
  BY DEF NewSession
<1> DEFINE p == [tab[c] EXCEPT !.session = s, !.turns = << >>]
<1>2. tab[c] \in Page /\ s \in SessionIds /\ << >> \in Seq(Turn)
  BY TypesOf DEF IInv
<1>3. p \in Page /\ p.turns = << >> /\ p.session = s /\ p.loading = tab[c].loading
  BY <1>2 DEF Page
<1>4. tab' = [tab EXCEPT ![c] = p]
  BY <1>1
<1> HIDE DEF p
<1>5. used' = used \cup {s} /\ UNCHANGED <<proxy, ask, tracker, restarts>>
  BY <1>1 DEF NewSession
<1>6. tab'[c] = p /\ \A x \in Tabs : x # c => tab'[x] = tab[x]
  BY <1>4 DEF IInv, TypeOK
<1>7. TypeOK'
  BY <1>1, <1>3, <1>4, <1>5, <1>6 DEF IInv, TypeOK, Sessions
<1>8. DOMAIN p.turns = {}
  BY <1>3
<1>9. Started'
  <2>1. \A x \in Tabs : \A i \in DOMAIN tab'[x].turns : ask'[tab'[x].turns[i].ask].pc # "new"
    BY <1>5, <1>6, <1>8 DEF IInv, Started
  <2>2. \A x \in Tabs : tab'[x].session \in used'
    BY <1>3, <1>5, <1>6 DEF IInv, Started
  <2> QED BY <1>5, <2>1, <2>2 DEF IInv, Started
<1>10. WaitsForOne'
  BY <1>3, <1>5, <1>6 DEF IInv, WaitsForOne, Waits
<1>11. TurnsMatch'
  BY <1>5, <1>6, <1>8 DEF IInv, TurnsMatch
<1>12. Tracked' /\ UsageCovers'
  BY <1>5 DEF IInv, Tracked, UsageCovers, Working, Sessions
<1> QED BY <1>7, <1>9, <1>10, <1>11, <1>12 DEF IInv

\* What the end of a fetch makes of the page that waited for it.
LEMMA Shows ==
  ASSUME IInv, NEW a \in Asks, proxy[a] = "waiting", NEW reply \in {"answer", "error"}, Show(a, reply)
  PROVE  LET c == ask[a].by IN
         /\ c \in Tabs /\ tab' \in [Tabs -> Page]
         /\ tab'[c].session = tab[c].session /\ ~tab'[c].loading
         /\ DOMAIN tab'[c].turns = DOMAIN tab[c].turns
         /\ \A i \in DOMAIN tab[c].turns :
              /\ tab'[c].turns[i].ask = tab[c].turns[i].ask
              /\ tab[c].turns[i].ask = a => tab'[c].turns[i].reply = reply
              /\ tab[c].turns[i].ask # a => tab'[c].turns[i] = tab[c].turns[i]
         /\ \A x \in Tabs : x # c => tab'[x] = tab[x]
<1> DEFINE c == ask[a].by
           old == tab[c].turns
           shown(i) == [old[i] EXCEPT !.reply = reply]
           turns == [i \in DOMAIN old |-> IF old[i].ask = a THEN shown(i) ELSE old[i]]
           p == [tab[c] EXCEPT !.turns = turns, !.loading = FALSE]
<1>1. c \in Tabs /\ tab[c] \in Page /\ old \in Seq(Turn)
  BY TypesOf DEF IInv, Handler, Page
<1>2. \A i \in DOMAIN old : old[i] \in Turn
  BY <1>1
<1>3. \A i \in DOMAIN old : shown(i) \in Turn /\ shown(i).ask = old[i].ask /\ shown(i).reply = reply
  BY <1>2 DEF Turn
<1>4. tab' = [tab EXCEPT ![c] = p]
  BY DEF Show
<1> HIDE DEF shown
<1>5. /\ turns \in Seq(Turn) /\ DOMAIN turns = DOMAIN old
      /\ \A i \in DOMAIN old : turns[i] = IF old[i].ask = a THEN shown(i) ELSE old[i]
  BY <1>1, <1>2, <1>3
<1> HIDE DEF turns
<1>6. p \in Page /\ p.turns = turns /\ ~p.loading /\ p.session = tab[c].session
  BY <1>1, <1>5 DEF Page
<1> HIDE DEF p
<1>7. tab' \in [Tabs -> Page] /\ tab'[c] = p /\ \A x \in Tabs : x # c => tab'[x] = tab[x]
  BY <1>1, <1>4, <1>6 DEF IInv, TypeOK
<1> QED BY <1>1, <1>3, <1>5, <1>6, <1>7

LEMMA ShowKeepsIInv ==
  ASSUME IInv, NEW a \in Asks, proxy[a] = "waiting", NEW reply \in {"answer", "error"}, Show(a, reply),
         reply = "answer" => ask[a].pc = "answered", UNCHANGED <<used, ask, tracker, restarts>>
  PROVE  IInv'
<1> DEFINE c == ask[a].by
<1>1. /\ c \in Tabs /\ tab' \in [Tabs -> Page]
      /\ tab'[c].session = tab[c].session /\ ~tab'[c].loading
      /\ DOMAIN tab'[c].turns = DOMAIN tab[c].turns
      /\ \A i \in DOMAIN tab[c].turns :
           /\ tab'[c].turns[i].ask = tab[c].turns[i].ask
           /\ tab[c].turns[i].ask = a => tab'[c].turns[i].reply = reply
           /\ tab[c].turns[i].ask # a => tab'[c].turns[i] = tab[c].turns[i]
      /\ \A x \in Tabs : x # c => tab'[x] = tab[x]
  BY Shows
<1>2. proxy' = [proxy EXCEPT ![a] = "ended"]
  BY DEF Show
<1> HIDE DEF c
<1>3. proxy'[a] = "ended" /\ \A x \in Asks : x # a => proxy'[x] = proxy[x]
  BY <1>2 DEF IInv, TypeOK
<1>4. \A x \in Tabs : \A i \in DOMAIN tab[x].turns : tab[x].turns[i].ask \in Asks
  BY TypesOf DEF IInv, Turn
<1>5. TypeOK'
  BY <1>1, <1>2 DEF IInv, TypeOK, Sessions
<1>6. Started'
  BY <1>1, <1>3, <1>4 DEF IInv, Started
<1>7. WaitsForOne'
  <2>1. a \in Waits(c)
    BY DEF Waits, c
  <2>2. Waits(c) = {a}
    BY <1>1, <2>1 DEF IInv, WaitsForOne
  <2>3. Waits(c)' = {} /\ \A x \in Tabs : x # c => Waits(x)' = Waits(x)
    BY <1>3, <2>2 DEF Waits, c
  <2>6. c' = c
    BY DEF c
  <2> SUFFICES ASSUME NEW x \in Tabs
               PROVE  (IF tab[x].loading THEN \E b \in Asks : Waits(x) = {b} ELSE Waits(x) = {})'
    BY DEF WaitsForOne
  <2>4. CASE x = c
    BY <1>1, <2>3, <2>4, <2>6 DEF Waits
  <2>5. CASE x # c
    BY <1>1, <2>3, <2>5 DEF IInv, WaitsForOne
  <2> QED BY <2>4, <2>5
<1>8. TurnsMatch'
  <2> SUFFICES ASSUME NEW x \in Tabs, NEW i \in DOMAIN tab'[x].turns
               PROVE  LET t == tab'[x].turns[i] IN
                      /\ ask[t.ask].by = x /\ ask[t.ask].session = tab'[x].session
                      /\ \A j \in DOMAIN tab'[x].turns : tab'[x].turns[j].ask = t.ask => i = j
                      /\ t.reply = "answer" => ask[t.ask].pc = "answered"
                      /\ t.reply = "none" <=> proxy'[t.ask] = "waiting"
    BY DEF TurnsMatch
  <2>1. CASE x # c
    <3>1. tab[x].turns[i].ask # a
      BY <1>1, <2>1 DEF IInv, TurnsMatch, c
    <3> QED BY <1>1, <1>3, <1>4, <2>1, <3>1 DEF IInv, TurnsMatch
  <2>2. CASE x = c /\ tab[c].turns[i].ask = a
    BY <1>1, <1>3, <1>4, <2>2 DEF IInv, TurnsMatch
  <2>3. CASE x = c /\ tab[c].turns[i].ask # a
    BY <1>1, <1>3, <1>4, <2>3 DEF IInv, TurnsMatch
  <2> QED BY <2>1, <2>2, <2>3
<1>9. Tracked' /\ UsageCovers'
  BY DEF IInv, Tracked, UsageCovers, Working, Sessions
<1> QED BY <1>5, <1>6, <1>7, <1>8, <1>9 DEF IInv

LEMMA DeliverKeepsIInv ==
  ASSUME IInv, NEW a \in Asks, Deliver(a) \/ GiveUp(a)
  PROVE  IInv'
<1>1. CASE Deliver(a)
  BY <1>1, ShowKeepsIInv DEF Deliver
<1>2. CASE GiveUp(a)
  BY <1>2, ShowKeepsIInv DEF GiveUp
<1> QED BY <1>1, <1>2

-----------------------------------------------------------------------------

LEMMA InitIInv == Init => IInv
<1> SUFFICES ASSUME Init PROVE IInv
  OBVIOUS
<1>15. PagesInit
  BY DEF Init
<1>1. PICK f \in [Tabs -> SessionIds] :
        /\ tab = [c \in Tabs |-> [session |-> f[c], turns |-> << >>, loading |-> FALSE]]
        /\ used = {f[c] : c \in Tabs}
  BY <1>15 DEF PagesInit
<1>2. \A c \in Tabs : tab[c] \in Page /\ tab[c].turns = << >> /\ ~tab[c].loading /\ tab[c].session = f[c]
  <2>1. << >> \in Seq(Turn)
    OBVIOUS
  <2> QED BY <1>1, <2>1 DEF Page
<1>3. proxy = [a \in Asks |-> "idle"] /\ tracker = << >> /\ restarts = 0
  BY DEF Init
<1>4. ASSUME NEW a \in Asks
      PROVE  ask[a] \in Handler /\ ask[a].pc = "new" /\ ask[a].own = 0
  <2>1. PICK c \in Tabs, s \in SessionIds :
          ask[a] = [pc |-> "new", by |-> c, session |-> s, plan |-> 0, calls |-> 0,
                    own |-> 0, done |-> 0, epoch |-> 0, response |-> NoResponse]
    BY DEF Init
  <2>2. NoResponse \in Response
    BY DEF NoResponse, Response
  <2> QED BY <2>1, <2>2 DEF Handler
<1>5. \A c \in Tabs : DOMAIN tab[c].turns = {}
  BY <1>2
<1>6. DOMAIN tracker = {}
  BY <1>3
<1>7. ask \in [Asks -> Handler]
  BY <1>4 DEF Init
<1>8. tab \in [Tabs -> Page]
  BY <1>1, <1>2
<1>14. used \subseteq SessionIds
  BY <1>1
<1>9. TypeOK
  BY <1>3, <1>6, <1>7, <1>8, <1>14 DEF TypeOK, Sessions
<1>10. Started
  BY <1>1, <1>2, <1>3, <1>4, <1>5 DEF Started
<1>11. WaitsForOne
  BY <1>2, <1>3 DEF WaitsForOne, Waits
<1>12. TurnsMatch
  BY <1>5 DEF TurnsMatch
<1>13. Tracked /\ UsageCovers
  BY <1>4 DEF Tracked, UsageCovers, Working
<1> QED BY <1>9, <1>10, <1>11, <1>12, <1>13 DEF IInv

LEMMA NextKeepsIInv == IInv /\ [Next]_vars => IInv'
<1> SUFFICES ASSUME IInv, [Next]_vars PROVE IInv'
  OBVIOUS
<1>1. CASE UNCHANGED vars
  BY <1>1 DEF vars, IInv, TypeOK, Sessions, Started, WaitsForOne, Waits, TurnsMatch, Tracked, Working, UsageCovers
<1>2. CASE \E a \in Asks : Send(a) \/ Arrive(a) \/ Deliver(a) \/ GiveUp(a)
  BY <1>2, SendKeepsIInv, ArriveKeepsIInv, DeliverKeepsIInv
<1>3. CASE \E a \in Asks : Handle(a)
  BY <1>3, LLMRepliesKeepsIInv, RunEndsKeepsIInv, RowsFetchedKeepsIInv, VizSelectedKeepsIInv DEF Handle
<1>4. CASE \E c \in Tabs : NewSession(c)
  BY <1>4, NewSessionKeepsIInv
<1>5. CASE Restart
  BY <1>5, RestartKeepsIInv
<1> QED BY <1>1, <1>2, <1>3, <1>4, <1>5 DEF Next

LEMMA IInvHolds == Spec => []IInv
BY InitIInv, NextKeepsIInv, PTL DEF Spec

\* A page shows questions of its own session only, each once, and under a question
\* the answer to that question, for any number of pages, questions, sessions and
\* restarts (page.tsx:32-69).
THEOREM PagesShowTheirAnswers == Spec => []TurnsMatch
<1>1. IInv => TurnsMatch
  BY DEF IInv
<1> QED BY <1>1, IInvHolds, PTL

\* The usage a response reports covers every call of its own question, however
\* the questions of a session overlap (main.py:280-297).
THEOREM UsageIsCovered == Spec => []UsageCovers
<1>1. IInv => UsageCovers
  BY DEF IInv
<1> QED BY <1>1, IInvHolds, PTL

\* A page waits for one question exactly while its input is disabled
\* (page.tsx:32-63, ChatInput.tsx:21-26).
THEOREM OneIsOnItsWay == Spec => []OneOnItsWay
<1>1. ASSUME IInv PROVE OneOnItsWay
  <2> SUFFICES ASSUME NEW c \in Tabs
               PROVE  Cardinality(Waits(c)) = IF tab[c].loading THEN 1 ELSE 0
    BY DEF OneOnItsWay, Waits
  <2>1. CASE tab[c].loading
    <3>1. PICK a \in Asks : Waits(c) = {a}
      BY <1>1, <2>1 DEF IInv, WaitsForOne
    <3> QED BY <2>1, <3>1, FS_Singleton
  <2>2. CASE ~tab[c].loading
    <3>1. Waits(c) = {}
      BY <1>1, <2>2 DEF IInv, WaitsForOne
    <3> QED BY <2>2, <3>1, FS_EmptySet
  <2> QED BY <2>1, <2>2
<1> QED BY <1>1, IInvHolds, PTL

\* A reply under a question stays as long as the page keeps its session: a late
\* answer does not replace the error the user has seen (page.tsx:44-58).
THEOREM ShownRepliesStay == Spec => RepliesStay
<1> DEFINE Stays == \A c \in Tabs : \A i \in DOMAIN tab[c].turns :
             tab[c].turns[i].reply # "none" =>
               tab'[c].session # tab[c].session \/ tab'[c].turns[i] = tab[c].turns[i]
<1>1. ASSUME IInv, [Next]_vars PROVE [Stays]_vars
  <2>1. CASE UNCHANGED tab
    BY <2>1
  <2>2. ASSUME NEW a \in Asks, Send(a) PROVE Stays
    <3> DEFINE c == ask[a].by
               turns == Append(tab[c].turns, [ask |-> a, reply |-> "none"])
               p == [tab[c] EXCEPT !.turns = turns, !.loading = TRUE]
    <3>1. c \in Tabs /\ tab[c] \in Page /\ tab[c].turns \in Seq(Turn)
      BY <1>1, TypesOf DEF IInv, Handler, Page
    <3>2. p.turns = turns
      BY <3>1 DEF Page
    <3>3. \A i \in DOMAIN tab[c].turns : turns[i] = tab[c].turns[i]
      BY <3>1
    <3>4. tab' = [tab EXCEPT ![c] = p]
      BY <2>2 DEF Send
    <3> HIDE DEF p, turns, c
    <3>5. tab'[c] = p /\ \A x \in Tabs : x # c => tab'[x] = tab[x]
      BY <1>1, <3>1, <3>4 DEF IInv, TypeOK
    <3> QED BY <3>2, <3>3, <3>5
  <2>3. ASSUME NEW a \in Asks, Deliver(a) \/ GiveUp(a) PROVE Stays
    <3> DEFINE c == ask[a].by
    <3>1. proxy[a] = "waiting" /\ \E reply \in {"answer", "error"} : Show(a, reply)
      BY <2>3 DEF Deliver, GiveUp
    <3>2. /\ c \in Tabs
          /\ \A i \in DOMAIN tab[c].turns : tab[c].turns[i].ask # a => tab'[c].turns[i] = tab[c].turns[i]
          /\ \A x \in Tabs : x # c => tab'[x] = tab[x]
      BY <1>1, <3>1, Shows
    <3> HIDE DEF c
    <3>3. \A i \in DOMAIN tab[c].turns : tab[c].turns[i].reply # "none" => tab[c].turns[i].ask # a
      BY <1>1, <3>1, <3>2 DEF IInv, TurnsMatch
    <3> QED BY <3>2, <3>3
  <2>4. ASSUME NEW c \in Tabs, NewSession(c) PROVE Stays
    <3>1. PICK s \in SessionIds \ used : tab' = [tab EXCEPT ![c].session = s, ![c].turns = << >>]
      BY <2>4 DEF NewSession
    <3> DEFINE p == [tab[c] EXCEPT !.session = s, !.turns = << >>]
    <3>2. p.session = s
      BY <1>1, TypesOf DEF IInv, Page
    <3>3. tab' = [tab EXCEPT ![c] = p]
      BY <3>1
    <3> HIDE DEF p
    <3>4. tab'[c] = p /\ \A x \in Tabs : x # c => tab'[x] = tab[x]
      BY <1>1, <3>3 DEF IInv, TypeOK
    <3>5. tab[c].session # s
      BY <1>1 DEF IInv, Started
    <3> QED BY <3>2, <3>4, <3>5
  <2>5. (\E a \in Asks : Arrive(a) \/ Handle(a)) \/ Restart => UNCHANGED tab
    BY DEF Arrive, Handle, LLMReplies, RunEnds, RowsFetched, VizSelected, Restart
  <2>6. Stays \/ UNCHANGED vars
    <3> HIDE DEF Stays
    <3> QED BY <1>1, <2>1, <2>2, <2>3, <2>4, <2>5 DEF Next, vars
  <2> QED BY <2>6
<1> QED BY <1>1, IInvHolds, PTL DEF Spec, RepliesStay

-----------------------------------------------------------------------------
(* The trackers count the calls.  What is known of the questions' calls in *)
(* terms of their handlers x and the number e of restarts.                 *)

SinceIn(x, e, s) ==
  {a \in Asks : x[a].session = s /\ x[a].epoch = e /\ x[a].pc \in {"run", "viz", "answered"}}
CallsIn(x, e, s) == UNION {{<<a, n>> : n \in 1..x[a].own} : a \in SinceIn(x, e, s)}

\* Every handler's epoch has been, a question that is worked on arrived since the
\* last restart, and one that arrived since then has a session the gateway has.
EpochsOk(x, e, sessions) ==
  \A a \in Asks :
    /\ x[a].epoch <= e
    /\ x[a].pc \in {"run", "viz"} => x[a].epoch = e
    /\ x[a].pc \in {"run", "viz", "answered"} /\ x[a].epoch = e => x[a].session \in sessions

\* A tracker holds the number of the calls it stands for.
TrackerCounts(x, e, s, count) ==
  IsFiniteSet(CallsIn(x, e, s)) /\ Cardinality(CallsIn(x, e, s)) = count

Counted ==
  /\ EpochsOk(ask, restarts, Sessions)
  /\ \A s \in Sessions : TrackerCounts(ask, restarts, s, tracker[s])

\* The property says so of every session.
LEMMA CountedIsAccounted == Counted => CallsAccounted
<1> SUFFICES ASSUME Counted, NEW s \in Sessions PROVE tracker[s] = Cardinality(CallsOf(s))
  BY DEF CallsAccounted
<1>1. Since(s) = SinceIn(ask, restarts, s)
  BY DEF Since, SinceIn
<1>2. CallsOf(s) = CallsIn(ask, restarts, s)
  BY Zenon, <1>1 DEF CallsOf, CallsIn
<1> QED BY <1>2 DEF Counted, TrackerCounts

\* A call is one of a question and of its number.
LEMMA IsCall ==
  ASSUME NEW x, NEW e, NEW s, NEW c
  PROVE  c \in CallsIn(x, e, s) <=>
           \E a \in SinceIn(x, e, s) : \E n \in 1..x[a].own : c = <<a, n>>
BY DEF CallsIn

\* The calls of a session are the same when its questions and their numbers are.
LEMMA SameCalls ==
  ASSUME NEW x, NEW y, NEW e, NEW f, NEW s,
         \A a \in Asks : a \in SinceIn(x, e, s) /\ x[a].own # 0
                           <=> a \in SinceIn(y, f, s) /\ y[a].own # 0,
         \A a \in SinceIn(x, e, s) : x[a].own = y[a].own,
         \A a \in Asks : x[a].own \in Nat /\ y[a].own \in Nat
  PROVE  CallsIn(x, e, s) = CallsIn(y, f, s)
<1>1. \A a \in Asks : SinceIn(x, e, s) \subseteq Asks /\ SinceIn(y, f, s) \subseteq Asks
  BY DEF SinceIn
<1>2. ASSUME NEW c PROVE c \in CallsIn(x, e, s) <=> c \in CallsIn(y, f, s)
  <2>1. ASSUME NEW a \in SinceIn(x, e, s), NEW n \in 1..x[a].own
        PROVE  a \in SinceIn(y, f, s) /\ n \in 1..y[a].own
    <3>1. a \in Asks
      BY DEF SinceIn
    <3>2. x[a].own # 0
      BY <3>1
    <3> QED BY <3>1, <3>2
  <2>2. ASSUME NEW a \in SinceIn(y, f, s), NEW n \in 1..y[a].own
        PROVE  a \in SinceIn(x, e, s) /\ n \in 1..x[a].own
    <3>1. a \in Asks
      BY DEF SinceIn
    <3>2. y[a].own # 0
      BY <3>1
    <3> QED BY <3>1, <3>2
  <2> QED BY <2>1, <2>2, IsCall
<1> QED BY <1>2

\* One call more of one question is one more of its session and of no other.
LEMMA OneCallMore ==
  ASSUME NEW x, NEW y, NEW e, NEW s, NEW b \in Asks,
         \A a \in Asks : SinceIn(x, e, s) = SinceIn(y, e, s) /\ x[a].own \in Nat,
         \A a \in Asks : a # b => x[a].own = y[a].own,
         y[b].own = x[b].own + 1,
         NEW count \in Nat, TrackerCounts(x, e, s, count)
  PROVE  TrackerCounts(y, e, s, IF b \in SinceIn(x, e, s) THEN count + 1 ELSE count)
<1> DEFINE call == <<b, x[b].own + 1>>
           old == CallsIn(x, e, s)
           new == CallsIn(y, e, s)
<1>0. SinceIn(x, e, s) = SinceIn(y, e, s) /\ SinceIn(x, e, s) \subseteq Asks /\ x[b].own \in Nat
  BY DEF SinceIn
<1>1. ASSUME NEW c
      PROVE  c \in new <=> c \in old \/ (b \in SinceIn(x, e, s) /\ c = call)
  <2>1. ASSUME NEW a \in SinceIn(x, e, s), NEW n
        PROVE  n \in 1..y[a].own <=> n \in 1..x[a].own \/ (a = b /\ n = x[b].own + 1)
    BY <1>0
  <2> QED BY <1>0, <2>1, IsCall
<1>2. call \notin old
  <2> SUFFICES ASSUME call \in old PROVE FALSE
    OBVIOUS
  <2>1. PICK a \in SinceIn(x, e, s) : \E n \in 1..x[a].own : call = <<a, n>>
    BY IsCall
  <2>2. PICK n \in 1..x[a].own : call = <<a, n>>
    BY <2>1
  <2>3. a = b /\ n = x[b].own + 1
    BY <2>2
  <2> QED BY <1>0, <2>3
<1> HIDE DEF call, old, new
<1>3. new = IF b \in SinceIn(x, e, s) THEN old \cup {call} ELSE old
  BY <1>1
<1>4. IsFiniteSet(old) /\ Cardinality(old) = count
  BY DEF TrackerCounts, old
<1>5. IsFiniteSet(old \cup {call}) /\ Cardinality(old \cup {call}) = count + 1
  BY <1>2, <1>4, FS_AddElement
<1> QED BY <1>3, <1>4, <1>5 DEF TrackerCounts, new

\* What Counted says before a step and after it, and the types it needs.
LEMMA CountedSplit ==
  /\ Counted <=> /\ EpochsOk(ask, restarts, Sessions)
                 /\ \A s \in Sessions : TrackerCounts(ask, restarts, s, tracker[s])
  /\ Counted' <=> /\ EpochsOk(ask', restarts', Sessions')
                  /\ \A s \in Sessions' : TrackerCounts(ask', restarts', s, tracker'[s])
BY DEF Counted, EpochsOk, TrackerCounts, CallsIn, SinceIn

\* The types the counting needs.
LEMMA CountTypes ==
  ASSUME IInv
  PROVE  /\ \A a \in Asks : ask[a].own \in Nat /\ ask[a].epoch \in Nat
         /\ \A s \in Sessions : tracker[s] \in Nat
         /\ restarts \in Nat /\ ask \in [Asks -> Handler]
<1>1. \A a \in Asks : ask[a].own \in Nat /\ ask[a].epoch \in Nat
  BY TypesOf DEF IInv, Handler
<1> QED BY <1>1 DEF IInv, TypeOK

\* A handler that goes on with n calls more.
Continues(a, h, n) ==
  /\ ask' = [ask EXCEPT ![a] = h] /\ restarts' = restarts
  /\ h.session = ask[a].session /\ h.epoch = ask[a].epoch /\ h.own = ask[a].own + n
  /\ Working(a) /\ h.pc \in {"run", "viz", "answered"}
  /\ RecordCalls(a, n) \/ (n = 0 /\ UNCHANGED tracker)

\* The end of a run is such a step.
LEMMA StepEndsContinues ==
  ASSUME IInv, NEW a \in Asks, Working(a), NEW result, NEW n \in Nat,
         StepEnds(a, result, n), restarts' = restarts,
         RecordCalls(a, n) \/ (n = 0 /\ UNCHANGED tracker)
  PROVE  \E h : Continues(a, h, n)
<1> DEFINE own == ask[a].own + n
           e == [ask[a] EXCEPT !.own = own, !.calls = 0, !.done = ask[a].done + 1]
           next == [e EXCEPT !.pc = "run"]
           last == [e EXCEPT !.pc = "answered", !.response = Answer(a, result)]
<1>1. ask[a] \in Handler
  BY TypesOf DEF IInv
<1>2. /\ next.pc = "run" /\ next.session = ask[a].session /\ next.own = own
      /\ next.epoch = ask[a].epoch
  BY <1>1 DEF Handler
<1>3. /\ last.pc = "answered" /\ last.session = ask[a].session /\ last.own = own
      /\ last.epoch = ask[a].epoch
  BY <1>1 DEF Handler
<1>4. ask' = [ask EXCEPT ![a] = next] \/ ask' = [ask EXCEPT ![a] = last]
  BY <1>1 DEF StepEnds, IInv, TypeOK
<1> HIDE DEF next, last, e
<1>5. CASE ask' = [ask EXCEPT ![a] = next]
  <2>1. Continues(a, next, n)
    BY <1>2, <1>5 DEF Continues
  <2> QED BY <2>1
<1>6. CASE ask' = [ask EXCEPT ![a] = last]
  <2>1. Continues(a, last, n)
    BY <1>3, <1>6 DEF Continues
  <2> QED BY <2>1
<1> QED BY <1>4, <1>5, <1>6

\* So is every step of a handler.
LEMMA HandleContinues ==
  ASSUME IInv, NEW a \in Asks, Handle(a)
  PROVE  \E n \in {0, 1} : \E h : Continues(a, h, n)
<1>0. ask[a] \in Handler /\ Working(a) /\ restarts' = restarts
  BY TypesOf DEF IInv, Handle, LLMReplies, RunEnds, RowsFetched, VizSelected, Working
<1>1. CASE LLMReplies(a)
  <2> DEFINE h == [ask[a] EXCEPT !.calls = ask[a].calls + 1, !.own = ask[a].own + 1]
  <2>1. /\ h.pc = ask[a].pc /\ h.session = ask[a].session /\ h.own = ask[a].own + 1
        /\ h.epoch = ask[a].epoch
    BY <1>0 DEF Handler
  <2>2. ask' = [ask EXCEPT ![a] = h] /\ RecordCalls(a, 1)
    BY <1>1 DEF LLMReplies
  <2> HIDE DEF h
  <2>3. Continues(a, h, 1)
    BY <1>0, <2>1, <2>2 DEF Continues, Working
  <2> QED BY <2>3
<1>2. CASE RunEnds(a)
  <2>1. PICK result \in Results : UNCHANGED tracker /\ StepEnds(a, result, 0)
    BY <1>2 DEF RunEnds
  <2>2. \E h : Continues(a, h, 0)
    BY <1>0, <2>1, StepEndsContinues
  <2> QED BY <2>2
<1>3. CASE RowsFetched(a)
  <2> DEFINE h == [ask[a] EXCEPT !.pc = "viz"]
  <2>1. /\ h.pc = "viz" /\ h.session = ask[a].session /\ h.own = ask[a].own + 0
        /\ h.epoch = ask[a].epoch
    BY <1>0 DEF Handler
  <2>2. ask' = [ask EXCEPT ![a] = h] /\ UNCHANGED tracker
    BY <1>3 DEF RowsFetched
  <2> HIDE DEF h
  <2>3. Continues(a, h, 0)
    BY <1>0, <2>1, <2>2 DEF Continues
  <2> QED BY <2>3
<1>4. CASE VizSelected(a)
  <2>1. PICK n \in {0, 1} :
          /\ RecordCalls(a, n)
          /\ StepEnds(a, [sql |-> TRUE, rows |-> TRUE, err |-> FALSE], n)
    BY <1>4 DEF VizSelected
  <2>2. \E h : Continues(a, h, n)
    BY <1>0, <2>1, StepEndsContinues
  <2> QED BY <2>2
<1> QED BY <1>1, <1>2, <1>3, <1>4 DEF Handle

\* Such a step counts what it makes, for its own session.
LEMMA ContinuesCounts ==
  ASSUME IInv, Counted, NEW a \in Asks, NEW n \in {0, 1}, NEW h, Continues(a, h, n)
  PROVE  Counted'
<1> DEFINE own == ask[a].session
           e == restarts
<1>1. /\ ask'[a] = h /\ restarts' = e /\ \A b \in Asks : b # a => ask'[b] = ask[b]
      /\ h.session = own /\ h.epoch = ask[a].epoch /\ h.own = ask[a].own + n
      /\ h.pc \in {"run", "viz", "answered"} /\ ask[a].pc \in {"run", "viz"}
  BY CountTypes DEF Continues, Working
<1>2. ask[a].epoch = e /\ own \in Sessions
  BY <1>1 DEF Counted, EpochsOk
<1>3. \A s : SinceIn(ask', e, s) = SinceIn(ask, e, s)
  BY <1>1, <1>2 DEF SinceIn
<1>4. /\ Sessions' = Sessions
      /\ \A s \in Sessions : tracker'[s] = IF s = own /\ n = 1 THEN tracker[s] + 1 ELSE tracker[s]
  BY CountTypes DEF Continues, RecordCalls, Sessions
<1>5. EpochsOk(ask', e, Sessions)
  BY <1>1, <1>2 DEF Counted, EpochsOk
<1>6. ASSUME NEW s \in Sessions PROVE TrackerCounts(ask', e, s, tracker'[s])
  <2>1. TrackerCounts(ask, e, s, tracker[s]) /\ tracker[s] \in Nat
    BY CountTypes DEF Counted
  <2>2. a \in SinceIn(ask, e, s) <=> s = own
    BY <1>1, <1>2 DEF SinceIn
  <2>3. \A b \in Asks : ask[b].own \in Nat
    BY CountTypes
  <2>4. CASE n = 1
    <3>1. \A b \in Asks : b # a => ask[b].own = ask'[b].own
      BY <1>1
    <3>2. ask'[a].own = ask[a].own + 1
      BY <1>1, <2>4
    <3>3. TrackerCounts(ask', e, s, IF a \in SinceIn(ask, e, s) THEN tracker[s] + 1 ELSE tracker[s])
      BY <1>3, <2>1, <2>3, <3>1, <3>2, OneCallMore
    <3> QED BY <1>4, <2>2, <2>4, <3>3
  <2>5. CASE n = 0
    <3>1. \A b \in Asks : ask'[b].own = ask[b].own
      BY <1>1, <2>3, <2>5
    <3>2. CallsIn(ask, e, s) = CallsIn(ask', e, s)
      <4>1. \A b \in Asks : b \in SinceIn(ask, e, s) /\ ask[b].own # 0
                              <=> b \in SinceIn(ask', e, s) /\ ask'[b].own # 0
        BY <1>3, <3>1
      <4>2. \A b \in SinceIn(ask, e, s) : ask[b].own = ask'[b].own
        BY <3>1 DEF SinceIn
      <4>3. \A b \in Asks : ask[b].own \in Nat /\ ask'[b].own \in Nat
        BY <2>3, <3>1
      <4> QED BY <4>1, <4>2, <4>3, SameCalls
    <3> QED BY <1>4, <2>1, <2>5, <3>2 DEF TrackerCounts
  <2> QED BY <2>4, <2>5
<1> QED BY <1>1, <1>4, <1>5, <1>6, CountedSplit

\* A question that arrives has made no call, and a session the gateway did not have
\* has none.
LEMMA ArriveCounts ==
  ASSUME IInv, Counted, NEW a \in Asks, Arrive(a)
  PROVE  Counted'
<1> DEFINE own == ask[a].session
           e == restarts
<1>1. PICK n \in PlanLengths :
        ask' = [ask EXCEPT ![a].pc = "run", ![a].plan = n, ![a].epoch = restarts]
  BY DEF Arrive
<1>2. ask[a] \in Handler /\ ask[a].pc = "sent" /\ restarts' = e
  BY TypesOf DEF IInv, Arrive
<1>3. /\ ask'[a].pc = "run" /\ ask'[a].session = own /\ ask'[a].epoch = e
      /\ ask'[a].own = ask[a].own /\ \A b \in Asks : b # a => ask'[b] = ask[b]
  BY <1>1, <1>2, CountTypes DEF Handler
<1>4. ask[a].own = 0 /\ \A b \in Asks : ask[b].own \in Nat
  BY <1>2, CountTypes DEF IInv, Tracked
<1>5. Sessions' = Sessions \cup {own} /\ \A s \in Sessions' : tracker'[s] = IF s \in Sessions THEN tracker[s] ELSE 0
  BY DEF Arrive, Sessions
<1>6. EpochsOk(ask', e, Sessions')
  <2>1. e <= e /\ \A b \in Asks : ask[b].epoch <= e
    BY CountTypes DEF Counted, EpochsOk
  <2> QED BY <1>3, <1>5, <2>1 DEF Counted, EpochsOk
<1>7. \A b \in Asks : ask'[b].own = ask[b].own
  BY <1>3
<1>8. ASSUME NEW s PROVE CallsIn(ask, e, s) = CallsIn(ask', e, s)
  <2>1. \A b \in Asks : b \in SinceIn(ask, e, s) /\ ask[b].own # 0
                          <=> b \in SinceIn(ask', e, s) /\ ask'[b].own # 0
    BY <1>3, <1>4, <1>7 DEF SinceIn
  <2>2. \A b \in SinceIn(ask, e, s) : ask[b].own = ask'[b].own
    BY <1>7 DEF SinceIn
  <2>3. \A b \in Asks : ask[b].own \in Nat /\ ask'[b].own \in Nat
    BY <1>4, <1>7
  <2> QED BY <2>1, <2>2, <2>3, SameCalls
<1>9. ASSUME NEW s \in Sessions' PROVE TrackerCounts(ask', e, s, tracker'[s])
  <2>1. CASE s \in Sessions
    <3>1. TrackerCounts(ask, e, s, tracker[s])
      BY <2>1 DEF Counted
    <3> QED BY <1>5, <1>8, <2>1, <3>1 DEF TrackerCounts
  <2>2. CASE s \notin Sessions
    <3>1. SinceIn(ask, e, s) = {}
      BY <2>2 DEF Counted, EpochsOk, SinceIn
    <3>2. CallsIn(ask, e, s) = {}
      BY <3>1 DEF CallsIn
    <3> QED BY <1>5, <1>8, <2>2, <3>2, FS_EmptySet DEF TrackerCounts
  <2> QED BY <2>1, <2>2
<1> QED BY <1>2, <1>6, <1>9, CountedSplit

\* A question that is sent is not with the gateway yet.
LEMMA SendCounts ==
  ASSUME IInv, Counted, NEW a \in Asks, Send(a)
  PROVE  Counted'
<1>1. ask[a] \in Handler /\ ask[a].pc = "new" /\ UNCHANGED <<tracker, restarts>>
  BY TypesOf DEF IInv, Send
<1>2. /\ ask'[a].pc = "sent" /\ ask'[a].epoch = ask[a].epoch
      /\ \A b \in Asks : b # a => ask'[b] = ask[b]
  BY <1>1, CountTypes DEF Send, Handler
<1>3. \A s : SinceIn(ask', restarts, s) = SinceIn(ask, restarts, s)
  BY <1>1, <1>2 DEF SinceIn
<1>4. Sessions' = Sessions
  BY <1>1 DEF Sessions
<1>5. EpochsOk(ask', restarts, Sessions)
  BY <1>1, <1>2 DEF Counted, EpochsOk
<1>6. \A s : \A b \in SinceIn(ask, restarts, s) : ask'[b].own = ask[b].own
  BY <1>1, <1>2 DEF SinceIn
<1>7. ASSUME NEW s PROVE CallsIn(ask', restarts, s) = CallsIn(ask, restarts, s)
  BY <1>3, <1>6 DEF CallsIn
<1>8. \A s \in Sessions : TrackerCounts(ask', restarts, s, tracker[s])
  BY <1>7 DEF Counted, TrackerCounts
<1> QED BY <1>1, <1>4, <1>5, <1>8, CountedSplit

\* A restart takes the trackers, and every epoch is past.
LEMMA RestartCounts ==
  ASSUME IInv, Counted, Restart
  PROVE  Counted'
<1>1. Sessions' = {} /\ restarts' = restarts + 1
  BY DEF Restart, Sessions
<1>2. ASSUME NEW a \in Asks
      PROVE  /\ ask'[a].epoch = ask[a].epoch /\ ask'[a].pc \notin {"run", "viz"}
             /\ ask[a].epoch \in Nat /\ ask[a].epoch <= restarts /\ restarts \in Nat
  BY CountTypes DEF Restart, Handler, Counted, EpochsOk
<1>3. EpochsOk(ask', restarts', Sessions')
  BY <1>1, <1>2 DEF EpochsOk
<1> QED BY <1>1, <1>3, CountedSplit

\* There is nothing to count at first, ...
LEMMA InitCounted == Init => Counted
<1> SUFFICES ASSUME Init PROVE Counted
  OBVIOUS
<1>1. restarts = 0 /\ Sessions = {}
  BY DEF Init, Sessions
<1>2. \A a \in Asks : ask[a].pc = "new" /\ ask[a].epoch = 0
  BY DEF Init
<1> QED BY <1>1, <1>2 DEF Counted, EpochsOk

\* ... and every step counts what it does.
LEMMA NextCounted == IInv /\ Counted /\ [Next]_vars => Counted'
<1> SUFFICES ASSUME IInv, Counted, [Next]_vars PROVE Counted'
  OBVIOUS
<1>1. CASE UNCHANGED <<ask, tracker, restarts>>
  <2>1. Sessions' = Sessions
    BY <1>1 DEF Sessions
  <2> QED BY <1>1, <2>1, CountedSplit
<1>2. ASSUME NEW a \in Asks, Handle(a) PROVE Counted'
  <2>1. PICK n \in {0, 1} : \E h : Continues(a, h, n)
    BY <1>2, HandleContinues
  <2> QED BY <2>1, ContinuesCounts
<1>3. ASSUME NEW a \in Asks, Send(a) \/ Arrive(a) PROVE Counted'
  BY <1>3, SendCounts, ArriveCounts
<1>4. (\E a \in Asks : Deliver(a) \/ GiveUp(a)) \/ (\E c \in Tabs : NewSession(c)) \/ UNCHANGED vars
        => UNCHANGED <<ask, tracker, restarts>>
  BY DEF Deliver, GiveUp, NewSession, vars
<1> QED BY <1>1, <1>2, <1>3, <1>4, RestartCounts DEF Next

\* A session's tracker holds exactly the calls made for its questions since the
\* gateway was started, none lost and none counted twice, however many of its
\* questions are worked on at once (token_tracker.py:42-49, main.py:102-136).
THEOREM CallsAreAccounted == Spec => []CallsAccounted
<1>1. Spec => []Counted
  BY InitCounted, NextCounted, IInvHolds, PTL DEF Spec
<1> QED BY <1>1, CountedIsAccounted, PTL

=============================================================================
