-------------------------- MODULE ConversationMemory --------------------------
(***************************************************************************)
(* The in-process store of conversations, ConversationMemory               *)
(* (backend/app/agents/memory.py): an OrderedDict from session id to       *)
(* Session, each with its recent turns and a rolling summary of the older  *)
(* ones.  Every method holds the store's lock from its first read to its   *)
(* last write, so a method is one action.                                  *)
(*                                                                         *)
(* A turn keeps its id and an entry; the entry stands for the query, the   *)
(* domains, the SQL and the row count handed to record_turn.  A line of    *)
(* the summary is the turn it was written from.                            *)
(***************************************************************************)
EXTENDS Naturals, Sequences, SequencesExt

CONSTANTS
  SessionIds,   \* the session ids callers use
  Entries,      \* what a caller may record as one turn
  Window,       \* window_size: turns kept verbatim
  MaxSessions,  \* max_sessions: sessions kept before the oldest is dropped
  MaxTurns      \* bound of the model: turns recorded in one session

\* window_size may be 0 (the slices [-0:] and [:-0] are then the whole list and
\* the empty one); a store for no session at all is left out.
ASSUME MemoryAssumption ==
  /\ Window \in Nat
  /\ MaxSessions \in Nat \ {0}
  /\ MaxTurns \in Nat

VARIABLES
  keys,      \* the keys of _sessions, least recently used first
  session    \* the Session of every id; an id that is not a key has a fresh one

vars == <<keys, session>>

Turn == [id : Nat \ {0}, entry : Entries]
Session == [older : Seq(Turn), turns : Seq(Turn)]
NewSession == [older |-> << >>, turns |-> << >>]

-----------------------------------------------------------------------------

\* The Python slices seq[-n:] and seq[:-n].
LastN(seq, n) ==
  IF n = 0 \/ Len(seq) <= n THEN seq ELSE SubSeq(seq, Len(seq) - n + 1, Len(seq))

AllButLastN(seq, n) ==
  IF n = 0 \/ Len(seq) <= n THEN << >> ELSE SubSeq(seq, 1, Len(seq) - n)

\* (Definitions named Faulty... are slips the properties below must notice;
\* nothing else uses them.)
FaultyNextTurnId(ses) == Len(ses.turns)
FaultySummaryNextTurnId(ses) == Len(ses.older) + 1
NextTurnId(ses) == Len(ses.turns) + 1

FaultyLateCompress(ses) ==
  IF Len(ses.turns) <= Window + 1
    THEN ses
    ELSE [older |-> ses.older \o AllButLastN(ses.turns, Window),
          turns |-> LastN(ses.turns, Window)]
FaultyForgetfulCompress(ses) ==
  IF Len(ses.turns) <= Window
    THEN ses
    ELSE [older |-> AllButLastN(ses.turns, Window), turns |-> LastN(ses.turns, Window)]

\* _compress_if_needed_locked
Compress(ses) ==
  IF Len(ses.turns) <= Window
    THEN ses
    ELSE [older |-> ses.older \o AllButLastN(ses.turns, Window),
          turns |-> LastN(ses.turns, Window)]

FaultyMoveToEnd(ks, s) == IF s \in ToSet(ks) THEN ks ELSE Append(ks, s)

\* OrderedDict.move_to_end on a key that is inserted first when it is missing.
MoveToEnd(ks, s) == Append(RemoveFirst(ks, s), s)

FaultyGenerousEvict(ks) == LastN(ks, MaxSessions + 1)
FaultyEagerEvict(ks) == IF Len(ks) >= MaxSessions THEN << Last(ks) >> ELSE ks

\* _evict_if_needed_locked: popitem(last=False) until the store fits.
Evict(ks) == LastN(ks, MaxSessions)

\* The sessions that are left when ks are the keys of the store.
Kept(ks, f) == [t \in SessionIds |-> IF t \in ToSet(ks) THEN f[t] ELSE NewSession]

AddTurn(ses, e) ==
  Compress([ses EXCEPT !.turns = Append(@, [id |-> NextTurnId(ses), entry |-> e])])

\* active_window: what a reader gets, and it leaves the order of the keys alone.
ActiveWindow(s) ==
  [older |-> session[s].older, recent |-> LastN(session[s].turns, Window)]

-----------------------------------------------------------------------------

Init ==
  /\ keys = << >>
  /\ session = [s \in SessionIds |-> NewSession]

Get(s) ==
  /\ keys' = Evict(MoveToEnd(keys, s))
  /\ session' = Kept(keys', session)

RecordTurn(s, e) ==
  /\ keys' = Evict(MoveToEnd(keys, s))
  /\ session' = Kept(keys', [session EXCEPT ![s] = AddTurn(@, e)])

Reset(s) ==
  /\ keys' = RemoveFirst(keys, s)
  /\ session' = Kept(keys', session)

\* Every turn of a session since the session was created.
Whole(ses) == ses.older \o ses.turns
AllTurns(s) == Whole(session[s])

Next ==
  \E s \in SessionIds :
    \/ Get(s)
    \/ \E e \in Entries : Len(AllTurns(s)) < MaxTurns /\ RecordTurn(s, e)
    \/ Reset(s)

Spec == Init /\ [][Next]_vars

-----------------------------------------------------------------------------

\* The types of the store's state: keys are session ids and each id has a
\* Session (memory.py:45-52, 71).
TypeOK ==
  /\ keys \in Seq(SessionIds)
  /\ session \in [SessionIds -> Session]

\* The store never holds more sessions than it may, holds each session once,
\* and holds nothing for a session that was dropped (memory.py:148-150).
StoreBounded ==
  /\ Len(keys) <= MaxSessions
  /\ \A i, j \in DOMAIN keys : keys[i] = keys[j] => i = j
  /\ \A s \in SessionIds : s \notin ToSet(keys) => session[s] = NewSession

\* With a window, a session keeps at most that many turns verbatim, and a turn
\* is summarised only when the window is full: compression neither lags behind
\* nor takes a turn that still fits (memory.py:135-146).
WindowFull ==
  Window > 0 =>
    \A s \in SessionIds :
      /\ Len(session[s].turns) <= Window
      /\ session[s].older # << >> => Len(session[s].turns) = Window

\* The id given to the n-th turn of a session is n as long as the window has
\* room, and Window + 1 ever after: ids are drawn from the length of the list
\* that compression keeps cutting (memory.py:53-54, 94-102).
IdsSaturate ==
  Window > 0 =>
    \A s \in SessionIds : \A n \in DOMAIN AllTurns(s) :
      AllTurns(s)[n].id = IF n <= Window THEN n ELSE Window + 1

\* A session's turns are numbered one after the other: "Turn 4" is the fourth
\* turn.  The test of the summary names turns this way, and says that turn 4 of
\* five is "still in active window" (tests/test_agent_memory.py:29-38).
TurnsNumbered ==
  \A s \in SessionIds : \A n \in DOMAIN AllTurns(s) : AllTurns(s)[n].id = n

-----------------------------------------------------------------------------

\* What the store promises to its readers: see SessionLog.
EntriesIn(turns) == [n \in 1..Len(turns) |-> turns[n].entry]

Log == INSTANCE SessionLog
         WITH log <- [s \in ToSet(keys) |-> EntriesIn(AllTurns(s))]

\* The window, the summary and the compression between them are invisible to a
\* reader who puts the summary before the window: the store is a log of every
\* session it holds, and the sessions it drops are dropped whole, one at a
\* time, never the one in use (memory.py:75-128).
ImplementsSessionLog == Log!Spec
=============================================================================
