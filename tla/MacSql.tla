--------------------------------- MODULE MacSql ---------------------------------
(***************************************************************************)
(* MacSqlBaseline.predict (backend/app/baselines/mac_sql.py), the baseline *)
(* of the evaluation: one model call selects tables, one writes a          *)
(* statement, and as long as executing it fails and corrections are left   *)
(* one more call refines it.  Every call of the model and every execution  *)
(* may raise, which leaves predict.                                        *)
(***************************************************************************)
EXTENDS Naturals, Sequences, SequencesExt

CONSTANTS
  Known,          \* the tables the schema has
  Hits,           \* what the search may return: tables, the best first
  Picks,          \* what the selector may answer: a list of names, or "none"
  Statements,     \* what extract_sql may make of a reply
  MaxCorrections  \* max_correction

ASSUME MacSqlAssumption ==
  /\ \A h \in Hits : h \in Seq(Known)
  /\ MaxCorrections \subseteq Nat

VARIABLES
  step,       \* "idle", "select", "decompose", "loop", "refine", "returned" or "raised"
  executes,   \* whether predict was given an executor
  budget,     \* max_correction
  hits, selected,
  candidate,  \* the statement so far
  attempts,
  failed,     \* last_error is not empty
  runs        \* (history) the executions: the statement, whether it succeeded, and
              \*   whether the executor gave an error text

macVars == <<step, executes, budget, hits, selected, candidate, attempts, failed, runs>>

NoSql == "no statement"

MacInit ==
  /\ step = "idle" /\ executes = FALSE /\ budget = 0 /\ hits = << >> /\ selected = << >>
  /\ candidate = NoSql /\ attempts = 0 /\ failed = FALSE /\ runs = << >>

MacIdle == step = "idle"

Predict ==
  /\ step = "idle"
  /\ step' = "select" /\ executes' \in BOOLEAN /\ budget' \in MaxCorrections /\ hits' \in Hits
  /\ UNCHANGED <<selected, candidate, attempts, failed, runs>>

\* The loop executes the statement.
Tests == step = "loop" /\ executes /\ attempts < budget

\* A call of the model or of the executor raised.
CallRaises ==
  /\ step \in {"select", "decompose", "refine"} \/ Tests
  /\ step' = "raised"
  /\ UNCHANGED <<executes, budget, hits, selected, candidate, attempts, failed, runs>>

FirstHits == SubSeq(hits, 1, IF Len(hits) < 6 THEN Len(hits) ELSE 6)

\* _selector: the tables the model names, those the schema does not have left
\* out; the first six of the search when none is left or there is no list.
Selection(pick) ==
  LET valid == SelectSeq(pick.names, LAMBDA t : t \in Known) IN
  IF pick.list /\ valid # << >> THEN valid ELSE FirstHits

Selects ==
  /\ step = "select"
  /\ \E pick \in Picks : selected' = Selection(pick)
  /\ step' = "decompose"
  /\ UNCHANGED <<executes, budget, hits, candidate, attempts, failed, runs>>

\* _decomposer
Decomposes ==
  /\ step = "decompose"
  /\ candidate' \in Statements /\ attempts' = 1
  /\ step' = "loop"
  /\ UNCHANGED <<executes, budget, hits, selected, failed, runs>>

Ran(verdict, says) == runs' = Append(runs, [sql |-> candidate, ok |-> verdict, error |-> says])

ExecutionSucceeds ==
  /\ Tests
  /\ Ran(TRUE, FALSE)
  /\ step' = "returned"
  /\ UNCHANGED <<executes, budget, hits, selected, candidate, attempts, failed>>

\* The executor may give no error text.
ExecutionFails ==
  /\ Tests
  /\ failed' \in BOOLEAN /\ Ran(FALSE, failed')
  /\ step' = "refine"
  /\ UNCHANGED <<executes, budget, hits, selected, candidate, attempts>>

FaultyRefines ==
  /\ step = "refine"
  /\ candidate' \in Statements
  /\ step' = "loop"
  /\ UNCHANGED <<executes, budget, hits, selected, failed, runs>>
  /\ attempts' = IF attempts = 1 THEN attempts + 2 ELSE attempts + 1

\* _refiner
Refines ==
  /\ step = "refine"
  /\ candidate' \in Statements /\ attempts' = attempts + 1
  /\ step' = "loop"
  /\ UNCHANGED <<executes, budget, hits, selected, failed, runs>>

\* The loop ends without another execution.
Stops ==
  /\ step = "loop" /\ ~(executes /\ attempts < budget)
  /\ step' = "returned"
  /\ UNCHANGED <<executes, budget, hits, selected, candidate, attempts, failed, runs>>

MacNext ==
  Predict \/ CallRaises \/ Selects \/ Decomposes \/ ExecutionSucceeds \/ ExecutionFails
    \/ Refines \/ Stops

MacSpec == MacInit /\ [][MacNext]_macVars

Notes == IF failed THEN "final-err" ELSE "ok"

\* What predict returns was executed last and succeeded, or is a refinement that
\* was never executed because every earlier one failed and the corrections are
\* used up (or there is no executor); it reports as many attempts as there were
\* statements, never more than allowed.  The notes tell of the last execution that
\* failed, if it gave an error text: they say final-err also of a statement that
\* succeeded, and ok of one that failed without a text (mac_sql.py:116-149).
BaselineReturns ==
  step = "returned" =>
    /\ \A i \in DOMAIN runs : runs[i].ok => i = Len(runs) /\ candidate = runs[i].sql
    /\ \/ runs # << >> /\ Last(runs).ok /\ attempts = Len(runs)
       \/ attempts = Len(runs) + 1 /\ (executes => attempts >= budget)
    /\ attempts <= budget \/ attempts = 1
    /\ Notes = "final-err" <=>
         \E i \in DOMAIN runs :
           ~runs[i].ok /\ runs[i].error /\ \A j \in DOMAIN runs : j > i => runs[j].ok
================================================================================
