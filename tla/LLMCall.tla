-------------------------------- MODULE LLMCall --------------------------------
(***************************************************************************)
(* What a call of LLMProvider.generate (backend/app/llm/provider.py)       *)
(* promises its callers, the router, the agents and the chart selector:    *)
(* the models are asked one after the other, the answer is that of the     *)
(* model that is being asked, and the call fails only when every model has *)
(* been asked.                                                             *)
(***************************************************************************)
EXTENDS Naturals, Sequences

CONSTANT Models   \* neither "pending" nor "failed" is one

VARIABLES
  plan,     \* the models to ask, in order
  asked,    \* how many of them have been asked
  outcome   \* "pending", "failed", or the model that answered

vars == <<plan, asked, outcome>>

Init ==
  /\ plan \in Seq(Models) /\ plan # << >>
  /\ asked = 0 /\ outcome = "pending"

Ask ==
  /\ outcome = "pending" /\ asked < Len(plan)
  /\ asked' = asked + 1
  /\ UNCHANGED <<plan, outcome>>

Answer ==
  /\ outcome = "pending" /\ asked > 0
  /\ outcome' = plan[asked]
  /\ UNCHANGED <<plan, asked>>

Fail ==
  /\ outcome = "pending" /\ asked = Len(plan)
  /\ outcome' = "failed"
  /\ UNCHANGED <<plan, asked>>

Next == Ask \/ Answer \/ Fail

Spec == Init /\ [][Next]_vars
================================================================================
