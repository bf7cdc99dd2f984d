----------------------------- MODULE SessionUse -----------------------------
(***************************************************************************)
(* The store of conversations with a history variable beside it: when each *)
(* session was last used, so that the order in which sessions are dropped  *)
(* can be stated.  The times are ranks: the most recently used session has *)
(* the highest, and an id that was never used has 0.                       *)
(***************************************************************************)
EXTENDS ConversationMemory, FiniteSets

VARIABLE lastUse

hvars == <<keys, session, lastUse>>

\* s is used now: every session used after s's last use moves down one rank.
UseNow(s) ==
  lastUse' = [t \in SessionIds |->
    IF t = s THEN Cardinality({u \in SessionIds : lastUse[u] > 0} \cup {s})
    ELSE IF lastUse[s] > 0 /\ lastUse[t] > lastUse[s] THEN lastUse[t] - 1
    ELSE lastUse[t]]

HInit == Init /\ lastUse = [s \in SessionIds |-> 0]

HGet(s) == Get(s) /\ UseNow(s)
HRecord(s, e) == Len(AllTurns(s)) < MaxTurns /\ RecordTurn(s, e) /\ UseNow(s)
HReset(s) == Reset(s) /\ UNCHANGED lastUse

HNext ==
  \E s \in SessionIds :
    HGet(s) \/ HReset(s) \/ \E e \in Entries : HRecord(s, e)

HSpec == HInit /\ [][HNext]_hvars

\* A session dropped to make room was used before every session that stays,
\* whatever gets, records and resets came in between (memory.py:103-111, 148-150).
DropsLeastRecentlyUsed ==
  [][\A gone \in ToSet(keys) \ ToSet(keys') :
       Len(keys') = MaxSessions =>
         \A s \in ToSet(keys') \cap ToSet(keys) : lastUse[gone] < lastUse[s]]_hvars
=============================================================================
