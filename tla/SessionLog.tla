------------------------------ MODULE SessionLog ------------------------------
(***************************************************************************)
(* What ConversationMemory promises, with no window, no summary and no     *)
(* recency order: a log of entries for each of at most MaxSessions         *)
(* sessions.  Using a session creates it when it is missing; when there is *)
(* no room, some other session is forgotten, whole.                        *)
(***************************************************************************)
EXTENDS Naturals, Sequences, FiniteSets

CONSTANTS SessionIds, Entries, MaxSessions

VARIABLE log   \* a function from the sessions held to their entries, in order

\* The sessions that may be held once s has been used.
Held(s) ==
  LET wanted == DOMAIN log \cup {s} IN
  IF Cardinality(wanted) <= MaxSessions
    THEN {wanted}
    ELSE {wanted \ {victim} : victim \in wanted \ {s}}

EntriesOf(t) == IF t \in DOMAIN log THEN log[t] ELSE << >>

Init == log = << >>

Use(s) == \E held \in Held(s) : log' = [t \in held |-> EntriesOf(t)]

Record(s, e) ==
  \E held \in Held(s) :
    log' = [t \in held |-> IF t = s THEN Append(EntriesOf(s), e) ELSE EntriesOf(t)]

Forget(s) == log' = [t \in DOMAIN log \ {s} |-> log[t]]

Next ==
  \E s \in SessionIds : Use(s) \/ Forget(s) \/ \E e \in Entries : Record(s, e)

Spec == Init /\ [][Next]_log
=============================================================================
