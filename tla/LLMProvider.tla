------------------------------ MODULE LLMProvider ------------------------------
(***************************************************************************)
(* One call of LLMProvider.generate (backend/app/llm/provider.py): the     *)
(* model of the task is asked first, the fallback model when that failed   *)
(* in whatever way.  The hosted providers are asked again after a failed   *)
(* request, with a growing pause in between; Ollama is asked once.         *)
(*                                                                         *)
(* Calls share no state, so one is enough.  What is counted is the         *)
(* requests and the pauses between them, in half seconds.  How long one    *)
(* request takes is not: httpx's timeout limits each of its phases, and    *)
(* each chunk of a reply, but not the request as a whole.                  *)
(***************************************************************************)
EXTENDS Integers, Sequences

CONSTANTS
  Models,       \* the model names
  Prefix,       \* what stands before the first "/" of each name, "" without one
  Configs,      \* configurations: the task's model, the fallback model, the keys that are set
  MaxRetries    \* config.max_retries

Kinds == {"openai", "anthropic", "ollama", "openrouter"}
Config == [task : Models, fallback : Models, keys : SUBSET Kinds]

ASSUME ProviderAssumption ==
  /\ Models \cap {"pending", "failed"} = {}
  /\ Configs \subseteq Config
  /\ MaxRetries \in Nat

VARIABLES
  config,  \* the configuration the process was started with
  pc,      \* where the call is
  stage,   \* 1 while the task's model is asked, 2 for the fallback
  posts,   \* the requests made in each stage
  ended,   \* how each stage failed, "open" while it has not
  slept    \* how long the call has paused between requests

vars == <<config, pc, stage, posts, ended, slept>>

Reasons == {"keyless", "unusable", "refused"}

FaultyKind(model) == Prefix[model]

\* parse_model: an unknown prefix, or none, is a model of OpenRouter.
Kind(model) == IF Prefix[model] \in Kinds THEN Prefix[model] ELSE "openrouter"

Model(s) == IF s = 1 THEN config.task ELSE config.fallback
HasKey(s) == Kind(Model(s)) = "ollama" \/ Kind(Model(s)) \in config.keys

\* Requests one stage may make: _call_ollama does not use _post_with_retry.
Tries(s) == IF Kind(Model(s)) = "ollama" THEN 1 ELSE MaxRetries + 1

-----------------------------------------------------------------------------

Init ==
  /\ config \in Configs
  /\ pc = "new" /\ stage = 0
  /\ posts = [s \in 1..2 |-> 0] /\ ended = [s \in 1..2 |-> "open"]
  /\ slept = 0

\* generate dispatches the model of the task.
Generate ==
  /\ pc = "new"
  /\ pc' = "dispatch" /\ stage' = 1
  /\ UNCHANGED <<config, posts, ended, slept>>

FaultyNextStage(reason) ==
  /\ ended' = [ended EXCEPT ![stage] = reason]
  /\ IF stage = 1
       THEN pc' = "dispatch" /\ stage' = 2
       ELSE pc' = "failed" /\ UNCHANGED stage

\* Whatever exception ended the stage: the fallback, unless it is the same
\* model, or LLMProviderError.
NextStage(reason) ==
  /\ ended' = [ended EXCEPT ![stage] = reason]
  /\ IF stage = 1 /\ config.fallback # config.task
       THEN pc' = "dispatch" /\ stage' = 2
       ELSE pc' = "failed" /\ UNCHANGED stage

FaultyNoKey ==
  /\ pc = "dispatch" /\ ~HasKey(stage)
  /\ pc' = "new" /\ UNCHANGED stage
  /\ UNCHANGED <<config, posts, ended, slept>>

NoKey ==
  /\ pc = "dispatch" /\ ~HasKey(stage)
  /\ NextStage("keyless")
  /\ UNCHANGED <<config, posts, slept>>

Dispatch ==
  /\ pc = "dispatch" /\ HasKey(stage)
  /\ pc' = "post"
  /\ UNCHANGED <<config, stage, posts, ended, slept>>

Posted == posts' = [posts EXCEPT ![stage] = @ + 1]

\* A reply with the fields the provider reads, ...
Usable ==
  /\ pc = "post"
  /\ Posted /\ pc' = "answered"
  /\ UNCHANGED <<config, stage, ended, slept>>

\* ... or without them, or not JSON at all: not an HTTPError, so not retried.
Unusable ==
  /\ pc = "post"
  /\ Posted /\ NextStage("unusable")
  /\ UNCHANGED <<config, slept>>

FaultyRetries == posts[stage] < Tries(stage)
FaultyMeanRetries == posts[stage] + 2 < Tries(stage)

\* Whether the request that just failed is followed by another one.
Retries == posts[stage] + 1 < Tries(stage)

\* An HTTPError: the connection failed, a phase of the request took longer than
\* the timeout, or the status was an error.
Refused ==
  /\ pc = "post"
  /\ Posted
  /\ IF Retries
       THEN pc' = "backoff" /\ UNCHANGED <<stage, ended>>
       ELSE NextStage("refused")
  /\ UNCHANGED <<config, slept>>

\* The pause after an attempt, 0.5 * 2**attempt, in half seconds.
Pause[attempt \in Nat] == IF attempt = 0 THEN 1 ELSE 2 * Pause[attempt - 1]

\* asyncio.sleep
Sleep ==
  /\ pc = "backoff"
  /\ slept' = slept + Pause[posts[stage] - 1]
  /\ pc' = "post"
  /\ UNCHANGED <<config, stage, posts, ended>>

Ended == pc \in {"answered", "failed"}
Step == Generate \/ NoKey \/ Dispatch \/ Usable \/ Unusable \/ Refused \/ Sleep
Next == Step \/ (Ended /\ UNCHANGED vars)

Spec == Init /\ [][Next]_vars

\* The request ends in a reply or an error, and the event loop goes on with the
\* task.  The client's timeout ends a request whose server says nothing; that no
\* server keeps one going for ever by sending a little at a time is assumed.
FairSpec == Spec /\ WF_vars(Step)

-----------------------------------------------------------------------------

\* The types of the call's state (provider.py:69-111).
TypeOK ==
  /\ config \in Configs
  /\ pc \in {"new", "dispatch", "post", "backoff", "answered", "failed"}
  /\ stage \in IF pc = "new" THEN {0} ELSE {1, 2}
  /\ posts \in [1..2 -> Nat]
  /\ ended \in [1..2 -> Reasons \cup {"open"}]

\* A stage that has failed had no key and made no request, got a reply nobody
\* can use, or has made every request it may.
Spent(s) ==
  \/ ended[s] = "keyless" /\ ~HasKey(s) /\ posts[s] = 0
  \/ ended[s] = "unusable" /\ HasKey(s) /\ posts[s] \in 1..Tries(s)
  \/ ended[s] = "refused" /\ HasKey(s) /\ posts[s] = Tries(s)

\* The fallback is asked only after the task's model is spent, so that its
\* answer is never one the task's model could still have given; the call fails
\* only when every distinct model is spent; and no model is ever sent more
\* requests than it may be sent (provider.py:81-111, 301-323).
GivesUpLate ==
  /\ stage = 2 => Spent(1) /\ config.fallback # config.task
  /\ pc = "failed" => Spent(1) /\ (config.fallback # config.task => Spent(2))
  /\ \A s \in 1..2 : posts[s] <= Tries(s) /\ (posts[s] > 0 => HasKey(s))

\* The inductive invariant: what the call knows in each of its states.
InHand ==
  /\ stage = 0 => \A s \in 1..2 : posts[s] = 0 /\ ended[s] = "open"
  /\ stage = 1 => posts[2] = 0 /\ ended[2] = "open"
  /\ pc = "dispatch" => posts[stage] = 0
  /\ pc \in {"post", "backoff"} => HasKey(stage) /\ posts[stage] < Tries(stage)

IInv == TypeOK /\ GivesUpLate /\ InHand

\* The pauses between the requests a stage may make: 1, 2, 4, ... half seconds.
StagePauses(s) == Pause[Tries(s) - 1] - 1

\* What the second stage may add: nothing when both models are the same.
Second(x) == IF config.fallback = config.task THEN 0 ELSE x

\* A call makes no more requests than its models may be sent, and pauses only
\* between two requests to the same model: never after the last one, and for no
\* longer than the doubling pauses come to (provider.py:309-322).
EffortBounded ==
  /\ posts[1] + posts[2] \in 0..(Tries(1) + Second(Tries(2)))
  /\ slept \in 0..(StagePauses(1) + Second(StagePauses(2)))

\* The promise to the callers (LLMCall): what they are told, and the models that
\* are asked.
Plan == IF config.fallback = config.task THEN <<config.task>>
        ELSE <<config.task, config.fallback>>
Outcome == IF pc = "answered" THEN Model(stage)
           ELSE IF pc = "failed" THEN "failed" ELSE "pending"

Call == INSTANCE LLMCall WITH plan <- Plan, asked <- stage, outcome <- Outcome

\* Every call asks the models of its plan in order, none twice; its answer is
\* that of the model last asked, and it fails only when none is left, whichever
\* way each request fails (provider.py:69-136).
KeepsPromise == Call!Spec

\* A call ends, with an answer or with an error, whatever the providers do
\* (provider.py:301-323).
CallEnds == pc = "new" ~> Ended
================================================================================
