--------------------------- MODULE LLMProviderProofs ---------------------------
(***************************************************************************)
(* For every configuration and every number of retries: the invariant      *)
(* GivesUpLate of LLMProvider, that a call keeps the promise LLMCall makes *)
(* to its callers, and how many requests and pauses it may make.           *)
(***************************************************************************)
EXTENDS LLMProvider, Recursion, TLAPS

\* A stage has a model, and may make at least one request.
LEMMA TriesType ==
  ASSUME config \in Configs
  PROVE  \A s \in 1..2 : Model(s) \in Models /\ Tries(s) \in Nat \ {0}
BY ProviderAssumption DEF Model, Tries, Config

\* What a stage may do depends on the configuration only, which no step changes.
LEMMA SameStage ==
  ASSUME UNCHANGED config
  PROVE  /\ \A s \in 1..2 : Model(s)' = Model(s) /\ Tries(s)' = Tries(s)
         /\ \A s \in 1..2 : HasKey(s)' = HasKey(s)
BY DEF Model, Tries, HasKey

\* Every step leaves the configuration alone.
LEMMA SameConfig == ASSUME [Next]_vars PROVE UNCHANGED config
BY DEF Next, Step, Generate, NoKey, Dispatch, Usable, Unusable, Refused, Sleep, vars

\* The call starts in the invariant.
LEMMA InitIInv == Init => IInv
<1> SUFFICES ASSUME Init PROVE IInv
  OBVIOUS
<1>1. TypeOK
  BY ProviderAssumption DEF Init, TypeOK
<1>2. GivesUpLate
  BY TriesType DEF Init, GivesUpLate
<1>3. InHand
  BY DEF Init, InHand
<1> QED BY <1>1, <1>2, <1>3 DEF IInv

\* A stage that is spent when it fails leaves the call in the invariant.
LEMMA NextStageIInv ==
  ASSUME IInv, stage \in 1..2, UNCHANGED config,
         NEW reason \in Reasons, NextStage(reason), NEW n \in Nat,
         posts' = [posts EXCEPT ![stage] = n],
         n <= Tries(stage), n > 0 => HasKey(stage),
         \/ reason = "keyless" /\ ~HasKey(stage) /\ n = 0
         \/ reason = "unusable" /\ HasKey(stage) /\ n \in 1..Tries(stage)
         \/ reason = "refused" /\ HasKey(stage) /\ n = Tries(stage)
  PROVE  IInv'
<1>1. /\ \A s \in 1..2 : Tries(s)' = Tries(s) /\ HasKey(s)' = HasKey(s)
      /\ \A s \in 1..2 : Tries(s) \in Nat \ {0}
  BY SameStage, TriesType DEF IInv, TypeOK
<1>2. TypeOK'
  BY DEF IInv, TypeOK, NextStage, Reasons
<1>3. ended' = [ended EXCEPT ![stage] = reason]
  BY DEF NextStage
<1>4. \A s \in 1..2 : s = stage => Spent(s)'
  <2> SUFFICES ASSUME NEW s \in 1..2, s = stage PROVE Spent(s)'
    OBVIOUS
  <2>1. ended'[s] = reason /\ posts'[s] = n
    BY <1>3 DEF IInv, TypeOK
  <2> QED BY <1>1, <2>1 DEF Spent
<1>5. stage = 2 => Spent(1)' /\ config.fallback # config.task
  BY <1>1, <1>3 DEF IInv, TypeOK, GivesUpLate, Spent
<1>6. GivesUpLate'
  BY <1>1, <1>4, <1>5 DEF IInv, TypeOK, GivesUpLate, NextStage
<1>7. InHand'
  BY <1>1, <1>3 DEF IInv, TypeOK, InHand, NextStage
<1> QED BY <1>2, <1>6, <1>7 DEF IInv

\* Every step keeps the invariant.
LEMMA NextIInv == IInv /\ [Next]_vars => IInv'
<1> SUFFICES ASSUME IInv, [Next]_vars PROVE IInv'
  OBVIOUS
<1>0. UNCHANGED config
  BY SameConfig
<1>1. /\ \A s \in 1..2 : Tries(s)' = Tries(s) /\ HasKey(s)' = HasKey(s)
      /\ \A s \in 1..2 : Tries(s) \in Nat \ {0}
  BY <1>0, SameStage, TriesType DEF IInv, TypeOK
<1>3. CASE Generate
  BY <1>1, <1>3 DEF IInv, TypeOK, GivesUpLate, InHand, Generate, Spent
<1>4. CASE NoKey
  <2>1. stage \in 1..2 /\ posts[stage] = 0
    BY <1>4 DEF NoKey, IInv, TypeOK, InHand
  <2>2. posts' = [posts EXCEPT ![stage] = 0]
    BY <1>4, <2>1 DEF NoKey, IInv, TypeOK
  <2>3. NextStage("keyless") /\ ~HasKey(stage)
    BY <1>4 DEF NoKey, IInv, TypeOK
  <2>4. "keyless" \in Reasons
    BY DEF Reasons
  <2>5. 0 <= Tries(stage) /\ ~(0 > 0)
    BY <1>1, <2>1
  <2> DEFINE n == 0
  <2>6. n \in Nat /\ n = 0
    OBVIOUS
  <2> HIDE DEF n
  <2> QED BY <1>0, <2>1, <2>2, <2>3, <2>4, <2>5, <2>6, NextStageIInv
<1>5. CASE Dispatch
  BY <1>1, <1>5 DEF IInv, TypeOK, GivesUpLate, InHand, Dispatch, Spent
<1>6. CASE Usable
  <2>1. stage \in 1..2 /\ HasKey(stage) /\ posts[stage] < Tries(stage)
    BY <1>6 DEF Usable, IInv, TypeOK, InHand
  <2> QED BY <1>1, <1>6, <2>1 DEF IInv, TypeOK, GivesUpLate, InHand, Usable, Posted, Spent
<1>7. CASE Unusable
  <2>1. stage \in 1..2 /\ HasKey(stage) /\ posts[stage] < Tries(stage)
    BY <1>7 DEF Unusable, IInv, TypeOK, InHand
  <2>2. posts' = [posts EXCEPT ![stage] = posts[stage] + 1] /\ posts[stage] + 1 \in Nat
    BY <1>7, <2>1 DEF Unusable, Posted, IInv, TypeOK
  <2>3. posts[stage] + 1 \in 1..Tries(stage)
    BY <1>1, <2>1, <2>2 DEF IInv, TypeOK
  <2>4. NextStage("unusable") /\ "unusable" \in Reasons
    BY <1>7 DEF Unusable, IInv, TypeOK, Reasons
  <2>5. posts[stage] + 1 <= Tries(stage)
    BY <1>1, <2>1, <2>3
  <2> QED BY <1>0, <2>1, <2>2, <2>3, <2>4, <2>5, NextStageIInv
<1>8. CASE Refused
  <2>1. stage \in 1..2 /\ HasKey(stage) /\ posts[stage] < Tries(stage)
    BY <1>8 DEF Refused, IInv, TypeOK, InHand
  <2>2. posts' = [posts EXCEPT ![stage] = posts[stage] + 1] /\ posts[stage] + 1 \in Nat
    BY <1>8, <2>1 DEF Refused, Posted, IInv, TypeOK
  <2>4. CASE Retries
    <3>1. pc' = "backoff" /\ UNCHANGED <<stage, ended, config>>
      BY <1>8, <2>4 DEF Refused
    <3>2. posts[stage] + 1 < Tries(stage)
      BY <2>4 DEF Retries
    <3> QED
      BY <1>1, <2>1, <2>2, <3>1, <3>2 DEF IInv, TypeOK, GivesUpLate, InHand, Spent
  <2>5. CASE ~Retries
    <3>1. posts[stage] + 1 = Tries(stage)
      BY <1>1, <2>1, <2>5 DEF Retries, IInv, TypeOK
    <3>2. NextStage("refused")
      BY <1>8, <2>5 DEF Refused
    <3>3. posts[stage] + 1 <= Tries(stage) /\ "refused" \in Reasons
      BY <1>1, <2>1, <3>1 DEF Reasons
    <3> QED
      BY <1>0, <2>1, <2>2, <3>1, <3>2, <3>3, NextStageIInv
  <2> QED BY <2>4, <2>5
<1>9. CASE Sleep
  BY <1>1, <1>9 DEF IInv, TypeOK, GivesUpLate, InHand, Sleep, Spent
<1>10. CASE UNCHANGED vars
  BY <1>1, <1>10 DEF IInv, TypeOK, GivesUpLate, InHand, Spent, vars
<1> QED BY <1>3, <1>4, <1>5, <1>6, <1>7, <1>8, <1>9, <1>10 DEF Next, Step

\* The call's state has its types (provider.py:69-111).
THEOREM TypeCorrect == Spec => []TypeOK
<1>1. IInv => TypeOK
  BY DEF IInv
<1> QED BY <1>1, InitIInv, NextIInv, PTL DEF Spec

\* The fallback is asked, and the call given up, only after the models before are
\* spent, whatever the configuration and the retries
\* (provider.py:69-111, 301-323).
THEOREM GivesUpLateTheorem == Spec => []GivesUpLate
<1>1. IInv => GivesUpLate
  BY DEF IInv
<1> QED BY <1>1, InitIInv, NextIInv, PTL DEF Spec

\* The plan of a call: the models it may ask, the one of a stage at its place.
LEMMA PlanProperties ==
  ASSUME config \in Configs
  PROVE  /\ Len(Plan) = IF config.fallback = config.task THEN 1 ELSE 2
         /\ Plan[1] = Model(1)
         /\ config.fallback # config.task => Plan[2] = Model(2)
<1>1. CASE config.fallback = config.task
  <2>1. Plan = <<config.task>>
    BY <1>1 DEF Plan
  <2> QED BY <1>1, <2>1 DEF Model
<1>2. CASE config.fallback # config.task
  <2>1. Plan = <<config.task, config.fallback>>
    BY <1>2 DEF Plan
  <2> QED BY <1>2, <2>1 DEF Model
<1> QED BY <1>1, <1>2

\* The end of a stage is a request to the next model or the failure of the call.
LEMMA NextStageImplementsCall ==
  ASSUME IInv, pc \in {"dispatch", "post"}, NEW reason, NextStage(reason), UNCHANGED config
  PROVE  Call!Ask \/ Call!Fail
<1>1. stage \in 1..2 /\ Outcome = "pending" /\ Plan' = Plan
  BY DEF IInv, TypeOK, Outcome, Plan
<1>2. CASE stage = 1 /\ config.fallback # config.task
  <2>1. stage' = 2 /\ pc' = "dispatch"
    BY <1>2 DEF NextStage
  <2>2. Len(Plan) = 2
    BY <1>2, PlanProperties DEF IInv, TypeOK
  <2>3. Outcome' = "pending"
    BY <2>1 DEF Outcome
  <2> QED BY <1>1, <1>2, <2>1, <2>2, <2>3 DEF Call!Ask
<1>3. CASE ~(stage = 1 /\ config.fallback # config.task)
  <2>1. stage' = stage /\ pc' = "failed"
    BY <1>3 DEF NextStage
  <2>2. Len(Plan) = stage
    BY <1>1, <1>3, PlanProperties DEF IInv, TypeOK, GivesUpLate
  <2>3. Outcome' = "failed"
    BY <2>1 DEF Outcome
  <2> QED BY <1>1, <2>1, <2>2, <2>3 DEF Call!Fail
<1> QED BY <1>2, <1>3

\* Every step is one of LLMCall or changes nothing the caller can see.
LEMMA StepImplementsCall == IInv /\ [Next]_vars => [Call!Next]_Call!vars
<1> SUFFICES ASSUME IInv, [Next]_vars PROVE [Call!Next]_Call!vars
  OBVIOUS
<1>0. UNCHANGED config /\ Plan' = Plan
  BY SameConfig DEF Plan
<1>1. CASE Generate
  <2>1. stage = 0 /\ stage' = 1 /\ Outcome = "pending" /\ Outcome' = "pending"
    BY <1>1 DEF Generate, Outcome, IInv, TypeOK
  <2>2. Len(Plan) \in 1..2
    BY PlanProperties DEF IInv, TypeOK
  <2>3. Call!Ask
    BY <1>0, <2>1, <2>2 DEF Call!Ask
  <2> QED BY <2>3 DEF Call!Next
<1>2. CASE NoKey
  BY <1>0, <1>2, NextStageImplementsCall DEF NoKey, Call!Next
<1>3. CASE Dispatch \/ Sleep
  <2>1. UNCHANGED <<Plan, stage, Outcome>>
    BY <1>0, <1>3 DEF Dispatch, Sleep, Outcome
  <2> QED BY <2>1 DEF Call!vars
<1>4. CASE Usable
  <2>1. stage \in 1..2 /\ stage' = stage /\ Outcome = "pending"
    BY <1>4 DEF Usable, Outcome, IInv, TypeOK
  <2>2. Outcome' = Model(stage)
    BY <1>0, <1>4 DEF Usable, Outcome, Model
  <2>3. Plan[stage] = Model(stage)
    BY <2>1, PlanProperties DEF IInv, TypeOK, GivesUpLate
  <2>4. Call!Answer
    BY <1>0, <2>1, <2>2, <2>3 DEF Call!Answer
  <2> QED BY <2>4 DEF Call!Next
<1>5. CASE Unusable
  BY <1>0, <1>5, NextStageImplementsCall DEF Unusable, Call!Next
<1>6. CASE Refused
  <2>1. CASE Retries
    <3>1. UNCHANGED <<Plan, stage, Outcome>>
      BY <1>0, <1>6, <2>1 DEF Refused, Outcome
    <3> QED BY <3>1 DEF Call!vars
  <2>2. CASE ~Retries
    BY <1>0, <1>6, <2>2, NextStageImplementsCall DEF Refused, Call!Next
  <2> QED BY <2>1, <2>2
<1>7. CASE UNCHANGED vars
  <2>1. UNCHANGED <<Plan, stage, Outcome>>
    BY <1>0, <1>7 DEF vars, Outcome, Model
  <2> QED BY <2>1 DEF Call!vars
<1> QED BY <1>1, <1>2, <1>3, <1>4, <1>5, <1>6, <1>7 DEF Next, Step

\* A call keeps the promise of LLMCall: it starts with nothing asked, and every
\* step asks the next model, ends the call as promised, or changes nothing the
\* caller can see.
THEOREM KeepsPromiseTheorem == Spec => KeepsPromise
<1>1. Init => Call!Init
  <2> SUFFICES ASSUME Init PROVE Call!Init
    OBVIOUS
  <2>1. config.task \in Models /\ config.fallback \in Models
    BY ProviderAssumption DEF Init, Config
  <2>2. Plan \in Seq(Models) /\ Plan # << >>
    BY <2>1 DEF Plan
  <2> QED BY <2>2 DEF Init, Call!Init, Outcome
<1>2. IInv /\ [Next]_vars => [Call!Next]_Call!vars
  BY StepImplementsCall
<1> QED BY <1>1, <1>2, InitIInv, NextIInv, PTL DEF Spec, KeepsPromise, Call!Spec

-----------------------------------------------------------------------------
(* How much a call asks and pauses.  The pauses double, which takes        *)
(* induction; they are accounted for by stage and by request.              *)

\* The pauses double, and are therefore positive and never shorter later.
LEMMA PauseDoubles ==
  /\ Pause \in [Nat -> Nat \ {0}]
  /\ Pause[0] = 1 /\ \A n \in Nat : Pause[n + 1] = 2 * Pause[n]
<1> DEFINE V == Nat \ {0}
           double == [n \in Nat |-> [v \in V |-> 2 * v]]
<1>1. \E p \in [Nat -> V] : p[0] = 1 /\ \A n \in Nat : p[n + 1] = 2 * p[n]
  <2> DEFINE first == 1
  <2>1. IsStep(double, V) /\ first \in V
    BY DEF IsStep
  <2>2. first = 1 /\ \A n \in Nat, v \in V : double[n][v] = 2 * v
    OBVIOUS
  <2> HIDE DEF double, V, first
  <2>3. \E p : GivenBy(p, V, first, double)
    BY <2>1, Recursion
  <2> QED BY <2>2, <2>3 DEF GivenBy
<1>2. PICK p \in [Nat -> V] : p[0] = 1 /\ \A n \in Nat : p[n + 1] = 2 * p[n]
  BY <1>1
<1>3. p = [attempt \in Nat |-> IF attempt = 0 THEN 1 ELSE 2 * p[attempt - 1]]
  <2>1. ASSUME NEW n \in Nat PROVE p[n] = IF n = 0 THEN 1 ELSE 2 * p[n - 1]
    <3>1. CASE n = 0
      BY <1>2, <3>1
    <3>2. CASE n # 0
      <4>1. n - 1 \in Nat /\ (n - 1) + 1 = n
        BY <3>2
      <4> QED BY <1>2, <3>2, <4>1
    <3> QED BY <3>1, <3>2
  <2> QED BY <2>1
<1>4. Pause = [attempt \in Nat |-> IF attempt = 0 THEN 1 ELSE 2 * Pause[attempt - 1]]
  BY <1>3 DEF Pause
<1>5. Pause[0] = 1 /\ \A n \in Nat : Pause[n + 1] = 2 * Pause[n]
  <2>1. ASSUME NEW n \in Nat PROVE Pause[n + 1] = 2 * Pause[n]
    <3>1. n + 1 \in Nat /\ n + 1 # 0 /\ (n + 1) - 1 = n
      OBVIOUS
    <3> QED BY <1>4, <3>1
  <2> QED BY <1>4, <2>1
<1>6. \A n \in Nat : Pause[n] \in V
  <2> DEFINE S == {n \in Nat : Pause[n] \in V}
  <2>1. 0 \in S /\ \A n \in Nat : n \in S => n + 1 \in S
    BY <1>5
  <2> HIDE DEF S
  <2>2. Nat \subseteq S
    BY <2>1, Induction
  <2> QED BY <2>2 DEF S
<1> QED BY <1>4, <1>5, <1>6

\* A later pause is no shorter.
LEMMA PausesGrow ==
  ASSUME NEW m \in Nat, NEW n \in Nat, m <= n
  PROVE  Pause[m] <= Pause[n]
<1> DEFINE S == {k \in Nat : Pause[m] <= Pause[m + k]}
<1>1. 0 \in S
  BY PauseDoubles
<1>2. ASSUME NEW k \in Nat, k \in S PROVE k + 1 \in S
  <2>1. m + k \in Nat /\ m + (k + 1) = (m + k) + 1
    OBVIOUS
  <2>2. Pause[m] \in Nat /\ Pause[m + k] \in Nat /\ Pause[m + (k + 1)] = 2 * Pause[m + k]
    BY <2>1, PauseDoubles
  <2> QED BY <1>2, <2>2
<1> HIDE DEF S
<1>3. Nat \subseteq S
  BY <1>1, <1>2, Induction
<1>4. n - m \in S /\ m + (n - m) = n
  BY <1>3
<1> QED BY <1>4 DEF S

\* The pauses between n requests, and those with one more after the last of them.
Due(n) == (IF n = 0 THEN 1 ELSE Pause[n - 1]) - 1
Slept(n) == Pause[n] - 1
StageTaken(s) == IF pc = "post" /\ s = stage THEN Slept(posts[s]) ELSE Due(posts[s])

\* The call has paused exactly as long as its requests say, and pauses after one.
PauseInv ==
  /\ slept = StageTaken(1) + StageTaken(2)
  /\ pc = "backoff" => posts[stage] # 0

\* What a request and a pause add.
LEMMA TakenType ==
  ASSUME NEW n \in Nat
  PROVE  /\ Due(n) \in Nat /\ Slept(n) \in Nat /\ Slept(0) = 0 /\ Due(0) = 0
         /\ Due(n + 1) = Slept(n)
         /\ n # 0 => Slept(n) = Due(n) + Pause[n - 1]
<1>1. /\ Pause[n] \in Nat \ {0} /\ Pause[0] = 1
      /\ n # 0 => n - 1 \in Nat /\ Pause[n - 1] \in Nat \ {0} /\ Pause[n] = 2 * Pause[n - 1]
  <2>1. n # 0 => n - 1 \in Nat /\ (n - 1) + 1 = n
    OBVIOUS
  <2> QED BY <2>1, PauseDoubles
<1>2. (n + 1) - 1 = n /\ n + 1 # 0
  OBVIOUS
<1> QED BY <1>1, <1>2 DEF Due, Slept

\* More requests take no less, and a stage with a request left may pause before it.
LEMMA TakenGrows ==
  ASSUME NEW m \in Nat, NEW n \in Nat, m <= n
  PROVE  Due(m) <= Due(n) /\ (m < n => Slept(m) <= Due(n))
<1>1. m < n => m <= n - 1 /\ n - 1 \in Nat /\ Pause[m] <= Pause[n - 1] /\ n # 0
  BY PausesGrow
<1>2. m # 0 /\ m < n => m - 1 \in Nat /\ Pause[m - 1] <= Pause[n - 1]
  <2> SUFFICES ASSUME m # 0, m < n PROVE m - 1 \in Nat /\ Pause[m - 1] <= Pause[n - 1]
    OBVIOUS
  <2>1. m - 1 \in Nat /\ n - 1 \in Nat /\ m - 1 <= n - 1
    OBVIOUS
  <2> QED BY <2>1, PausesGrow
<1>3. \A k \in Nat : Pause[k] \in Nat \ {0}
  BY PauseDoubles
<1>4. m < n => Due(m) <= Due(n) /\ Slept(m) <= Due(n)
  BY <1>1, <1>2, <1>3 DEF Due, Slept
<1>5. m = n => Due(m) <= Due(n)
  BY TakenType
<1> QED BY <1>4, <1>5

\* A call has not paused when it starts, ...
LEMMA InitPauses == Init => PauseInv
<1> SUFFICES ASSUME Init PROVE PauseInv
  OBVIOUS
<1>1. posts[1] = 0 /\ posts[2] = 0 /\ pc = "new" /\ slept = 0
  BY DEF Init
<1>2. Due(0) = 0
  BY TakenType
<1> QED BY <1>1, <1>2 DEF PauseInv, StageTaken

\* ... and a step adds to the stage what it adds to the pauses.
LEMMA NextPauses == IInv /\ PauseInv /\ [Next]_vars => PauseInv'
<1> SUFFICES ASSUME IInv, PauseInv, [Next]_vars PROVE PauseInv'
  OBVIOUS
<1>1. /\ posts \in [1..2 -> Nat] /\ slept = StageTaken(1) + StageTaken(2)
      /\ \A s \in 1..2 : posts[s] \in Nat
  BY DEF IInv, TypeOK, PauseInv
<1>2. \A n \in Nat : /\ Due(n) \in Nat /\ Slept(n) \in Nat /\ Slept(0) = 0 /\ Due(0) = 0
                     /\ Due(n + 1) = Slept(n)
                     /\ n # 0 => Slept(n) = Due(n) + Pause[n - 1]
  BY TakenType
<1>3. pc \in {"post", "backoff", "dispatch"} => stage \in 1..2
  BY DEF IInv, TypeOK
<1>4. CASE Generate \/ NoKey \/ UNCHANGED vars \/ (Ended /\ UNCHANGED vars)
  <2>1. /\ UNCHANGED <<posts, slept>>
        /\ pc' \in {"post", "backoff"} => pc' = pc /\ stage' = stage
    BY <1>4 DEF Generate, NoKey, NextStage, vars
  <2>2. UNCHANGED <<pc, stage>> \/ pc # "post"
    BY <1>4 DEF Generate, NoKey, vars
  <2>3. \A s \in 1..2 : StageTaken(s)' = StageTaken(s)
    BY <2>1, <2>2 DEF StageTaken
  <2> QED BY <1>1, <2>1, <2>3 DEF PauseInv
<1>5. CASE Dispatch
  <2>1. /\ UNCHANGED <<posts, slept, stage>> /\ pc' = "post" /\ pc = "dispatch"
        /\ stage \in 1..2 /\ posts[stage] = 0
    BY <1>5 DEF Dispatch, IInv, TypeOK, InHand
  <2>2. \A s \in 1..2 : StageTaken(s)' = StageTaken(s)
    BY <1>1, <1>2, <2>1 DEF StageTaken
  <2> QED BY <1>1, <2>1, <2>2 DEF PauseInv
<1>6. CASE Usable \/ Unusable \/ Refused
  <2>1. /\ pc = "post" /\ pc' # "post" /\ stage \in 1..2
        /\ posts' = [posts EXCEPT ![stage] = @ + 1] /\ UNCHANGED slept
    BY <1>3, <1>6 DEF Usable, Unusable, Refused, Posted, NextStage
  <2>2. posts'[stage] = posts[stage] + 1 /\ \A s \in 1..2 : s # stage => posts'[s] = posts[s]
    BY <1>1, <2>1
  <2>3. \A s \in 1..2 : StageTaken(s)' = StageTaken(s)
    BY <1>1, <1>2, <2>1, <2>2 DEF StageTaken
  <2>4. pc' = "backoff" => stage' = stage /\ posts'[stage] # 0
    BY <1>1, <1>6, <2>1, <2>2 DEF Usable, Unusable, Refused, NextStage
  <2> QED BY <1>1, <2>1, <2>3, <2>4 DEF PauseInv
<1>7. CASE Sleep
  <2>1. /\ pc = "backoff" /\ pc' = "post" /\ UNCHANGED <<posts, stage>> /\ stage \in 1..2
        /\ slept' = slept + Pause[posts[stage] - 1]
    BY <1>3, <1>7 DEF Sleep
  <2>2. posts[stage] # 0
    BY <2>1 DEF PauseInv
  <2>3. \A s \in 1..2 : s # stage => StageTaken(s)' = Due(posts[s]) /\ StageTaken(s) = Due(posts[s])
    BY <2>1 DEF StageTaken
  <2>4. StageTaken(stage) = Due(posts[stage]) /\ StageTaken(stage)' = Slept(posts[stage])
    BY <2>1 DEF StageTaken
  <2>5. posts[stage] \in Nat /\ Slept(posts[stage]) = Due(posts[stage]) + Pause[posts[stage] - 1]
    BY <1>1, <1>2, <2>1, <2>2
  <2>6. Pause[posts[stage] - 1] \in Nat
    <3>1. posts[stage] - 1 \in Nat
      BY <2>2, <2>5
    <3> QED BY <3>1, PauseDoubles
  <2>7. \A s \in 1..2 : Due(posts[s]) \in Nat
    BY <1>1, <1>2
  <2>8. slept' = StageTaken(1)' + StageTaken(2)'
    <3>1. CASE stage = 1
      BY <1>1, <2>1, <2>3, <2>4, <2>5, <2>6, <2>7, <3>1
    <3>2. CASE stage = 2
      BY <1>1, <2>1, <2>3, <2>4, <2>5, <2>6, <2>7, <3>2
    <3> QED BY <2>1, <3>1, <3>2
  <2> QED BY <2>1, <2>8 DEF PauseInv
<1> QED BY <1>4, <1>5, <1>6, <1>7 DEF Next, Step

\* A stage makes no more requests than it may, one that is about to make one has it
\* left, and the second stage adds nothing when both models are the same.
LEMMA EffortIsBounded == IInv /\ PauseInv => EffortBounded
<1> SUFFICES ASSUME IInv, PauseInv PROVE EffortBounded
  OBVIOUS
<1>1. \A s \in 1..2 : /\ Tries(s) \in Nat \ {0} /\ posts[s] \in Nat /\ posts[s] <= Tries(s)
                      /\ pc = "post" /\ s = stage => posts[s] < Tries(s)
  BY TriesType DEF IInv, TypeOK, GivesUpLate, InHand
<1>2. ASSUME NEW s \in 1..2
      PROVE  StageTaken(s) \in Nat /\ StagePauses(s) \in Nat /\ StageTaken(s) <= StagePauses(s)
  <2>1. StagePauses(s) = Due(Tries(s)) /\ Due(Tries(s)) \in Nat
    BY <1>1, TakenType DEF StagePauses, Due
  <2>2. StageTaken(s) \in Nat
    BY <1>1, TakenType DEF StageTaken
  <2>3. StageTaken(s) <= Due(Tries(s))
    BY <1>1, TakenGrows DEF StageTaken
  <2> QED BY <2>1, <2>2, <2>3
<1>3. slept = StageTaken(1) + StageTaken(2)
  BY DEF PauseInv
<1>4. CASE config.fallback = config.task
  <2>1. stage # 2 /\ stage \in {0, 1, 2}
    BY <1>4 DEF IInv, TypeOK, GivesUpLate
  <2>2. posts[2] = 0
    BY <2>1 DEF IInv, InHand, TypeOK
  <2>3. StageTaken(2) = 0
    BY <2>1, <2>2, TakenType DEF StageTaken
  <2> QED BY <1>1, <1>2, <1>3, <1>4, <2>2, <2>3 DEF EffortBounded, Second
<1>5. CASE config.fallback # config.task
  BY <1>1, <1>2, <1>3, <1>5 DEF EffortBounded, Second
<1> QED BY <1>4, <1>5

\* For any number of retries and every configuration, a call makes no more requests
\* than its models may be sent, and pauses no longer than the doubling pauses between
\* them (provider.py:309-322).
THEOREM EffortTheorem == Spec => []EffortBounded
<1>1. Spec => [](IInv /\ PauseInv)
  BY InitIInv, NextIInv, InitPauses, NextPauses, PTL DEF Spec
<1> QED BY <1>1, EffortIsBounded, PTL
================================================================================
