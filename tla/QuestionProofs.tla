----------------------------- MODULE QuestionProofs -----------------------------
(***************************************************************************)
(* Proofs about Question: every way to a decision names each domain once   *)
(* and gives its sub-queries the words it should, which the agents are     *)
(* then asked; and the scores of the resolver are on the right side of its *)
(* threshold.                                                              *)
(***************************************************************************)
EXTENDS Question, Recursion

\* A sequence of domains without repetition.
EachOnce(v) == v \in Seq(Domains) /\ IsInjective(v)

\* Filtering a sequence gives a sequence of what is wanted.
LEMMA AmongType ==
  ASSUME NEW V, NEW items \in Seq(V), NEW wanted
  PROVE  Among(items, wanted) \in Seq(wanted)
<1> DEFINE N == Len(items)
           W == Seq(wanted)
           step == [n \in 1..N |-> [v \in W |->
                      IF items[n] \in wanted THEN Append(v, items[n]) ELSE v]]
<1>1. N \in Nat /\ << >> \in W
  OBVIOUS
<1>2. ASSUME NEW v \in W, NEW n \in 1..N
      PROVE  (IF items[n] \in wanted THEN Append(v, items[n]) ELSE v) \in W
  OBVIOUS
<1>3. BoundedStep(step, N, W)
  BY <1>2 DEF BoundedStep
<1>4. \A n \in 1..N, v \in W : step[n][v] = IF items[n] \in wanted THEN Append(v, items[n]) ELSE v
  OBVIOUS
<1> HIDE DEF step, W
<1>5. PICK f : Recursive(f, N, << >>, step) /\ f \in [0..N -> W]
  BY <1>1, <1>3, BoundedRecursion
<1>6. f = [n \in 0..N |-> IF n = 0 THEN << >>
             ELSE IF items[n] \in wanted THEN Append(f[n - 1], items[n]) ELSE f[n - 1]]
  <2>1. ASSUME NEW n \in 0..N, n # 0
        PROVE  step[n][f[n - 1]] = IF items[n] \in wanted THEN Append(f[n - 1], items[n]) ELSE f[n - 1]
    <3>1. n \in 1..N /\ n - 1 \in 0..N
      BY <1>1, <2>1
    <3> QED BY <1>4, <1>5, <3>1
  <2> QED BY <1>5, <2>1 DEF Recursive
<1> DEFINE kept == CHOOSE g : g = [n \in 0..N |-> IF n = 0 THEN << >>
             ELSE IF items[n] \in wanted THEN Append(g[n - 1], items[n]) ELSE g[n - 1]]
<1>7. kept = [n \in 0..N |-> IF n = 0 THEN << >>
             ELSE IF items[n] \in wanted THEN Append(kept[n - 1], items[n]) ELSE kept[n - 1]]
  BY <1>6
<1>8. Among(items, wanted) = kept[N]
  BY Zenon DEF Among
<1> HIDE DEF kept
<1> DEFINE S == {n \in 0..N : kept[n] \in W}
<1>9. 0 \in S
  BY <1>1, <1>7
<1>10. ASSUME NEW n \in 0..N, n \in S, n < N PROVE n + 1 \in S
  <2>1. n + 1 \in 0..N /\ n + 1 # 0 /\ (n + 1) - 1 = n /\ n + 1 \in 1..N
    BY <1>1, <1>10
  <2>2. kept[n + 1] = IF items[n + 1] \in wanted THEN Append(kept[n], items[n + 1]) ELSE kept[n]
    BY <1>7, <2>1
  <2> QED BY <1>2, <1>10, <2>1, <2>2 DEF W
<1> HIDE DEF S
<1>11. 0..N \subseteq S
  BY <1>1, <1>9, <1>10, BoundedInduction
<1>12. N \in S
  BY <1>1, <1>11
<1> QED BY <1>8, <1>12 DEF S, W

\* A domain that is not in a sequence without repetition can be put behind it.
LEMMA AppendOnce ==
  ASSUME NEW v, EachOnce(v), NEW d \in Domains, d \notin ToSet(v)
  PROVE  EachOnce(Append(v, d))
<1> DEFINE w == Append(v, d)
           L == Len(v)
<1>1. v \in Seq(Domains) /\ IsInjective(v)
  BY DEF EachOnce
<1>2. L \in Nat /\ DOMAIN v = 1..L
  BY <1>1
<1>3. w \in Seq(Domains) /\ DOMAIN w = 1..(L + 1) /\ w[L + 1] = d /\ \A i \in 1..L : w[i] = v[i]
  BY <1>1
<1> HIDE DEF w, L
<1>4. \A i \in 1..L : v[i] # d
  BY <1>2 DEF ToSet
<1>5. IsInjective(w)
  <2> SUFFICES ASSUME NEW a \in 1..(L + 1), NEW b \in 1..(L + 1), w[a] = w[b] PROVE a = b
    BY <1>3 DEF IsInjective
  <2>1. \A k \in 1..(L + 1) : k \in 1..L \/ k = L + 1
    BY <1>2
  <2>2. CASE a \in 1..L /\ b \in 1..L
    BY <1>1, <1>2, <1>3, <2>2 DEF IsInjective
  <2>3. CASE a \in 1..L /\ b = L + 1
    BY <1>3, <1>4, <2>3
  <2>4. CASE b \in 1..L /\ a = L + 1
    BY <1>3, <1>4, <2>4
  <2> QED BY <2>1, <2>2, <2>3, <2>4
<1> QED BY <1>3, <1>5 DEF EachOnce, w

\* Domains behind others, each once.
LEMMA OnceKeeps ==
  ASSUME NEW before, EachOnce(before), NEW items \in Seq(Domains)
  PROVE  EachOnce(Once(before, items))
<1> DEFINE N == Len(items)
           W == {v \in Seq(Domains) : EachOnce(v)}
           step == [n \in 1..N |-> [v \in W |->
                      IF items[n] \in ToSet(v) THEN v ELSE Append(v, items[n])]]
<1>1. N \in Nat /\ before \in W
  BY DEF EachOnce
<1>2. ASSUME NEW v \in W, NEW n \in 1..N
      PROVE  (IF items[n] \in ToSet(v) THEN v ELSE Append(v, items[n])) \in W
  <2>1. items[n] \in Domains
    OBVIOUS
  <2>2. items[n] \notin ToSet(v) => EachOnce(Append(v, items[n]))
    BY <2>1, AppendOnce
  <2>3. \A u : EachOnce(u) => u \in Seq(Domains)
    BY DEF EachOnce
  <2> QED BY <2>2, <2>3
<1>3. BoundedStep(step, N, W)
  BY <1>2 DEF BoundedStep
<1>4. \A n \in 1..N, v \in W : step[n][v] = IF items[n] \in ToSet(v) THEN v ELSE Append(v, items[n])
  OBVIOUS
<1> HIDE DEF step, W
<1>5. PICK f : Recursive(f, N, before, step) /\ f \in [0..N -> W]
  BY <1>1, <1>3, BoundedRecursion
<1>6. f = [n \in 0..N |-> IF n = 0 THEN before
             ELSE IF items[n] \in ToSet(f[n - 1]) THEN f[n - 1] ELSE Append(f[n - 1], items[n])]
  <2>1. ASSUME NEW n \in 0..N, n # 0
        PROVE  step[n][f[n - 1]] =
                 IF items[n] \in ToSet(f[n - 1]) THEN f[n - 1] ELSE Append(f[n - 1], items[n])
    <3>1. n \in 1..N /\ n - 1 \in 0..N
      BY <1>1, <2>1
    <3> QED BY <1>4, <1>5, <3>1
  <2> QED BY <1>5, <2>1 DEF Recursive
<1> DEFINE kept == CHOOSE g : g = [n \in 0..N |-> IF n = 0 THEN before
             ELSE IF items[n] \in ToSet(g[n - 1]) THEN g[n - 1] ELSE Append(g[n - 1], items[n])]
<1>7. kept = [n \in 0..N |-> IF n = 0 THEN before
             ELSE IF items[n] \in ToSet(kept[n - 1]) THEN kept[n - 1] ELSE Append(kept[n - 1], items[n])]
  BY <1>6
<1>8. Once(before, items) = kept[N]
  BY Zenon DEF Once
<1> HIDE DEF kept
<1> DEFINE S == {n \in 0..N : kept[n] \in W}
<1>9. 0 \in S
  BY <1>1, <1>7
<1>10. ASSUME NEW n \in 0..N, n \in S, n < N PROVE n + 1 \in S
  <2>1. n + 1 \in 0..N /\ n + 1 # 0 /\ (n + 1) - 1 = n /\ n + 1 \in 1..N
    BY <1>1, <1>10
  <2>2. kept[n + 1] = IF items[n + 1] \in ToSet(kept[n]) THEN kept[n] ELSE Append(kept[n], items[n + 1])
    BY <1>7, <2>1
  <2> QED BY <1>2, <1>10, <2>1, <2>2
<1> HIDE DEF S
<1>11. 0..N \subseteq S
  BY <1>1, <1>9, <1>10, BoundedInduction
<1>12. N \in S
  BY <1>1, <1>11
<1> QED BY <1>8, <1>12 DEF S, W

Saying == {"question", "reply", "rewrite"}
Query == [domain : Domains, says : Saying]

\* The domains with keywords are named once each.
LEMMA ByVotesOnce ==
  ASSUME NEW votes
  PROVE  EachOnce(ByVotes(votes))
<1> DEFINE N == MaxVotes
           With(n) == {d \in Domains \ CrossCutting : votes[d] = n}
           Rank(n) == Among(DomainOrder, With(MaxVotes + 1 - n))
           W == {v \in Seq(Domains) : EachOnce(v)}
           step == [n \in 1..N |-> [v \in W |-> Once(v, Rank(n))]]
<1>1. N \in Nat /\ << >> \in W
  <2>1. << >> \in Seq(Domains) /\ IsInjective(<< >>)
    BY DEF IsInjective
  <2> QED BY <2>1 DEF EachOnce, MaxVotes
<1>2. ASSUME NEW v \in W, NEW n \in 1..N PROVE Once(v, Rank(n)) \in W
  <2>1. DomainOrder \in Seq(Domains)
    BY QuestionAssumption
  <2>2. \A m : With(m) \subseteq Domains
    OBVIOUS
  <2> HIDE DEF With
  <2>3. Rank(n) \in Seq(With(MaxVotes + 1 - n))
    BY <2>1, AmongType
  <2> HIDE DEF Rank
  <2>4. Rank(n) \in Seq(Domains)
    BY <2>2, <2>3
  <2>5. EachOnce(Once(v, Rank(n)))
    BY <2>4, OnceKeeps
  <2> QED BY <2>5 DEF EachOnce
<1> HIDE DEF Rank
<1>3. BoundedStep(step, N, W)
  BY <1>2 DEF BoundedStep
<1>4. \A n \in 1..N, v \in W : step[n][v] = Once(v, Rank(n))
  OBVIOUS
<1> HIDE DEF step, W, N
<1>5. PICK f : Recursive(f, N, << >>, step) /\ f \in [0..N -> W]
  BY <1>1, <1>3, BoundedRecursion
<1>6. f = [n \in 0..N |-> IF n = 0 THEN << >> ELSE Once(f[n - 1], Rank(n))]
  <2>1. ASSUME NEW n \in 0..N, n # 0 PROVE step[n][f[n - 1]] = Once(f[n - 1], Rank(n))
    <3>1. n \in 1..N /\ n - 1 \in 0..N
      BY <1>1, <2>1
    <3> QED BY <1>4, <1>5, <3>1
  <2> QED BY <1>5, <2>1 DEF Recursive
<1> DEFINE ranked == CHOOSE g : g = [n \in 0..N |-> IF n = 0 THEN << >> ELSE Once(g[n - 1], Rank(n))]
<1>7. ranked = [n \in 0..N |-> IF n = 0 THEN << >> ELSE Once(ranked[n - 1], Rank(n))]
  BY <1>6
<1>8. ByVotes(votes) = ranked[N]
  BY Zenon DEF ByVotes, Rank, N
<1> HIDE DEF ranked
<1> DEFINE S == {n \in 0..N : ranked[n] \in W}
<1>9. 0 \in S
  BY <1>1, <1>7
<1>10. ASSUME NEW n \in 0..N, n \in S, n < N PROVE n + 1 \in S
  <2>1. n + 1 \in 0..N /\ n + 1 # 0 /\ (n + 1) - 1 = n /\ n + 1 \in 1..N
    BY <1>1, <1>10
  <2>2. ranked[n + 1] = Once(ranked[n], Rank(n + 1))
    BY <1>7, <2>1
  <2> QED BY <1>2, <1>10, <2>1, <2>2
<1> HIDE DEF S
<1>11. 0..N \subseteq S
  BY <1>1, <1>9, <1>10, BoundedInduction
<1>12. N \in S
  BY <1>1, <1>11
<1> QED BY <1>8, <1>12 DEF S, W

\* A decision names each domain once, and what its sub-queries say is told by says.
Says(d, says) ==
  /\ EachOnce(d.domains) /\ d.queries \in Seq(Query)
  /\ \A i \in DOMAIN d.queries : d.queries[i].says = says

\* Sub-queries made of a sequence of domains all say the same.
LEMMA AskedAll ==
  ASSUME NEW domains \in Seq(Domains), NEW says \in Saying
  PROVE  LET queries == [i \in DOMAIN domains |-> SubQuery(domains[i], says)] IN
         queries \in Seq(Query) /\ \A i \in DOMAIN queries : queries[i].says = says
<1> DEFINE queries == [i \in DOMAIN domains |-> SubQuery(domains[i], says)]
<1>1. \A i \in DOMAIN domains :
        SubQuery(domains[i], says) \in Query /\ SubQuery(domains[i], says).says = says
  BY DEF SubQuery, Query
<1>2. DOMAIN domains = 1..Len(domains) /\ Len(domains) \in Nat
  OBVIOUS
<1>3. queries \in [1..Len(domains) -> Query]
  BY <1>1, <1>2
<1>4. queries \in Seq(Query)
  BY <1>2, <1>3
<1> QED BY <1>1, <1>4

\* The keyword fallback sends the agents the text it is given, ...
LEMMA FallbackSays ==
  ASSUME NEW votes, NEW says \in Saying
  PROVE  Says(KeywordFallback(votes, says), says)
<1> DEFINE domains == ByVotes(votes)
           queries == [i \in DOMAIN domains |-> SubQuery(domains[i], says)]
<1>1. EachOnce(domains)
  BY ByVotesOnce
<1>2. domains \in Seq(Domains)
  BY <1>1 DEF EachOnce
<1> HIDE DEF domains
<1>3. queries \in Seq(Query) /\ \A i \in DOMAIN queries : queries[i].says = says
  BY <1>2, AskedAll
<1>4. KeywordFallback(votes, says) =
        IF domains = << >> THEN NoDecision ELSE Decision(Supply, domains, queries)
  BY Zenon DEF KeywordFallback, domains
<1> HIDE DEF queries
<1>5. Says(Decision(Supply, domains, queries), says)
  BY <1>1, <1>3 DEF Says, Decision
<1>6. Says(NoDecision, says)
  <2>1. << >> \in Seq(Domains) /\ << >> \in Seq(Query) /\ DOMAIN << >> = {}
    OBVIOUS
  <2>2. EachOnce(<< >>)
    BY <2>1 DEF EachOnce, IsInjective
  <2> QED BY <2>1, <2>2 DEF Says, Decision, NoDecision
<1> QED BY <1>4, <1>5, <1>6

\* ... an object of the router its rewrites, ...
LEMMA ObjectSays ==
  ASSUME NEW reply \in RouterReplies, reply.kind = "object"
  PROVE  Says(FromObject(reply), "rewrite")
<1> DEFINE domains == Once(<< >>, KnownDomains(reply.domains))
           subjects == KnownDomains(reply.subs)
           queries == [i \in DOMAIN subjects |-> SubQuery(subjects[i], "rewrite")]
           as == IF reply.intent \in Intents THEN reply.intent ELSE Supply
<1>1. reply.domains \in Seq(Domains \cup {"unknown"}) /\ reply.subs \in Seq(Domains \cup {"unknown"})
  BY QuestionAssumption
<1>2. KnownDomains(reply.domains) \in Seq(Domains) /\ subjects \in Seq(Domains)
  BY <1>1, AmongType DEF KnownDomains
<1>3. EachOnce(<< >>)
  <2>1. << >> \in Seq(Domains) /\ DOMAIN << >> = {}
    OBVIOUS
  <2> QED BY <2>1 DEF EachOnce, IsInjective
<1>4. EachOnce(domains)
  BY <1>2, <1>3, OnceKeeps
<1> HIDE DEF subjects, domains
<1>5. queries \in Seq(Query) /\ \A i \in DOMAIN queries : queries[i].says = "rewrite"
  <2> DEFINE says == "rewrite"
  <2>1. says \in Saying
    BY DEF Saying
  <2> HIDE DEF says
  <2>2. LET qs == [i \in DOMAIN subjects |-> SubQuery(subjects[i], says)] IN
        qs \in Seq(Query) /\ \A i \in DOMAIN qs : qs[i].says = says
    BY <1>2, <2>1, AskedAll
  <2> QED BY <2>2 DEF says
<1>6. FromObject(reply) = Decision(as, domains, queries)
  BY Zenon DEF FromObject, domains, subjects
<1> HIDE DEF queries, as
<1> QED BY <1>4, <1>5, <1>6 DEF Says, Decision

\* ... and what a turn was about is asked about again, in the words of the question.
LEMMA CarrySays ==
  ASSUME NEW p \in Pasts, p.turns # << >>
  PROVE  Says(CarryOver(p), "question")
<1> DEFINE domains == Last(p.turns)
           T == {turn \in Seq(Domains) : IsInjective(turn)}
           queries == [i \in DOMAIN domains |-> SubQuery(domains[i], "question")]
<1>1. p.turns \in Seq(T)
  BY QuestionAssumption
<1>2. domains \in T
  <2> HIDE DEF T
  <2>1. Len(p.turns) \in DOMAIN p.turns
    BY <1>1
  <2>2. domains = p.turns[Len(p.turns)]
    BY Zenon DEF Last
  <2> QED BY <1>1, <2>1, <2>2
<1>3. domains \in Seq(Domains) /\ EachOnce(domains)
  BY <1>2 DEF EachOnce
<1> HIDE DEF domains
<1>4. queries \in Seq(Query) /\ \A i \in DOMAIN queries : queries[i].says = "question"
  <2> DEFINE says == "question"
  <2>1. says \in Saying
    BY DEF Saying
  <2> HIDE DEF says
  <2>2. LET qs == [i \in DOMAIN domains |-> SubQuery(domains[i], says)] IN
        qs \in Seq(Query) /\ \A i \in DOMAIN qs : qs[i].says = says
    BY <1>3, <2>1, AskedAll
  <2> QED BY <2>2 DEF says
<1>5. CarryOver(p) = Decision(Supply, domains, queries)
  BY Zenon DEF CarryOver, domains
<1> HIDE DEF queries
<1> QED BY <1>3, <1>4, <1>5 DEF Says, Decision

\* The sub-query for a domain is about it, in the decision's words or the question's.
LEMMA SubQueryForIs ==
  ASSUME NEW says, Says(decision, says), NEW d \in Domains
  PROVE  /\ SubQueryFor(d).domain = d
         /\ SubQueryFor(d).says = "question" \/ SubQueryFor(d).says = says
<1> DEFINE queries == decision.queries
           own == {i \in DOMAIN queries : queries[i].domain = d}
           at == CHOOSE x \in own : \A y \in own : x >= y
<1>1. /\ queries \in Seq(Query) /\ DOMAIN queries = 1..Len(queries) /\ Len(queries) \in Nat
      /\ \A i \in DOMAIN queries : queries[i].says = says
  BY DEF Says
<1>2. CASE own = {}
  <2>1. SubQueryFor(d) = SubQuery(d, "question")
    BY Zenon, <1>2 DEF SubQueryFor
  <2> QED BY <2>1 DEF SubQuery
<1>3. CASE own # {}
  <2>1. SubQueryFor(d) = queries[at]
    BY Zenon, <1>3 DEF SubQueryFor, Max
  <2>2. own \in SUBSET (1..Len(queries))
    BY <1>1
  <2> HIDE DEF own
  <2>3. \E x \in own : \A y \in own : x >= y
    BY <1>1, <1>3, <2>2, HasGreatest
  <2>4. at \in own
    BY <2>3
  <2> HIDE DEF at
  <2> QED BY <1>1, <2>1, <2>4 DEF own
<1> QED BY <1>2, <1>3

\* Whose words a reply of the router's model makes of the sub-queries.
Origin(kind) ==
  CASE kind = "object" -> "rewrite" [] kind = "text" -> "reply" [] OTHER -> "question"
Words == IF carried THEN "question" ELSE Origin(routed.kind)

Asked == subs = [i \in DOMAIN decision.domains |-> SubQueryFor(decision.domains[i])]
Resolved ==
  /\ intent = IF AsksBack(question, past, ToSet(decision.domains)) THEN Clarify ELSE decision.intent
  /\ intent # Supply => stage = "responded"

\* What holds of a question on its way: it is one that may be put, the decision names
\* each domain once and its sub-queries have the words they should, the intent is the
\* decision's unless the user is asked back, and the agents are asked the sub-queries
\* of the decision.
QuestionInv ==
  /\ question.terms \subseteq Terms
  /\ stage # "idle" => past \in Pasts
  /\ stage \notin {"idle", "asked"} => Says(decision, Words)
  /\ stage \notin {"idle", "asked", "classified"} => Resolved
  /\ subs # << >> => Asked /\ stage \notin {"idle", "asked", "classified"}

\* Each kind of reply leads to a decision with the words of that kind.
LEMMA DecisionSays ==
  ASSUME NEW reply \in RouterReplies, NEW q
  PROVE  Says(RouterDecision(q, reply), Origin(reply.kind))
<1>1. reply.kind \in {"failed", "text", "shape", "object"}
  BY QuestionAssumption
<1>2. CASE reply.kind = "object"
  BY <1>2, ObjectSays DEF RouterDecision, Origin
<1>3. CASE reply.kind = "text"
  <2> DEFINE says == "reply"
  <2>1. says \in Saying
    BY DEF Saying
  <2> HIDE DEF says
  <2>2. Says(KeywordFallback(reply.votes, says), says)
    BY <2>1, FallbackSays
  <2> QED BY <1>3, <2>2 DEF RouterDecision, Origin, says
<1>4. CASE reply.kind \notin {"object", "text"}
  <2> DEFINE says == "question"
  <2>1. says \in Saying
    BY DEF Saying
  <2> HIDE DEF says
  <2>2. Says(KeywordFallback(q.votes, says), says)
    BY <2>1, FallbackSays
  <2> QED BY <1>4, <2>2 DEF RouterDecision, Origin, says
<1> QED BY <1>1, <1>2, <1>3, <1>4

\* Before a question is put nothing is decided.
LEMMA InitQuestion == QuestionInit => QuestionInv
BY DEF QuestionInit, QuestionInv

\* Each step of the pipeline preserves the invariant.
LEMMA NextQuestion == QuestionInv /\ [QuestionNext]_questionVars => QuestionInv'
<1> SUFFICES ASSUME QuestionInv, [QuestionNext]_questionVars PROVE QuestionInv'
  OBVIOUS
<1> USE DEF QuestionInv
<1>0. /\ UNCHANGED <<decision, carried, routed>> /\ Says(decision, Words) => Says(decision, Words)'
      /\ UNCHANGED <<decision, subs>> /\ Asked => Asked'
  <2>1. UNCHANGED <<decision, carried, routed>> /\ Says(decision, Words) => Says(decision, Words)'
    BY DEF Says, Words, Origin
  <2>2. ASSUME UNCHANGED <<decision, subs>>, Asked PROVE Asked'
    <3>1. decision' = decision /\ subs' = subs
      BY <2>2
    <3> QED BY <2>2, <3>1 DEF Asked, SubQueryFor
  <2> QED BY <2>1, <2>2
<1>1. CASE UNCHANGED questionVars
  <2>1. /\ question' = question /\ past' = past /\ stage' = stage /\ subs' = subs /\ intent' = intent
        /\ UNCHANGED <<decision, carried, routed>>
    BY <1>1 DEF questionVars
  <2>2. Resolved => Resolved'
    BY <2>1 DEF Resolved
  <2> QED BY <1>0, <2>1, <2>2
<1>2. CASE Ask
  <2>1. question'.terms \subseteq Terms
    BY <1>2, QuestionAssumption DEF Ask
  <2> QED BY <1>2, <2>1 DEF Ask
<1>3. CASE Classify
  <2>1. PICK reply \in RouterReplies :
          LET d == RouterDecision(question, reply)
              carries == CarriesOver(question, past, d)
          IN  /\ routed' = reply
              /\ carried' = carries
              /\ decision' = IF carries THEN CarryOver(past) ELSE d
    BY <1>3 DEF Classify
  <2> DEFINE d == RouterDecision(question, reply)
             carries == CarriesOver(question, past, d)
  <2>2. stage = "asked" /\ stage' = "classified" /\ UNCHANGED <<question, past, intent, subs, answers>>
    BY <1>3 DEF Classify
  <2>3. Says(d, Origin(reply.kind))
    BY DecisionSays
  <2>4. carries => Says(CarryOver(past), "question")
    <3>1. carries => past.turns # << >>
      BY DEF CarriesOver, RefersBack
    <3>2. past \in Pasts
      BY <2>2
    <3> QED BY <3>1, <3>2, CarrySays
  <2> HIDE DEF carries, d
  <2>5. /\ routed' = reply /\ carried' = carries
        /\ decision' = IF carries THEN CarryOver(past) ELSE d
    BY <2>1 DEF carries, d
  <2>6. Says(decision', IF carried' THEN "question" ELSE Origin(routed'.kind))
    <3>1. CASE carries
      <4>1. /\ decision' = CarryOver(past)
            /\ (IF carried' THEN "question" ELSE Origin(routed'.kind)) = "question"
        BY <2>5, <3>1
      <4> QED BY <2>4, <3>1, <4>1
    <3>2. CASE ~carries
      <4>1. /\ decision' = d
            /\ (IF carried' THEN "question" ELSE Origin(routed'.kind)) = Origin(reply.kind)
        BY <2>5, <3>2
      <4> QED BY <2>3, <4>1
    <3> QED BY <3>1, <3>2
  <2>7. Says(decision, Words)'
    BY <2>6 DEF Words, Origin
  <2> QED BY <2>2, <2>7
<1>4. CASE Resolve
  <2>1. /\ stage = "classified" /\ UNCHANGED <<question, past, routed, decision, carried, subs, answers>>
        /\ intent' = IF AsksBack(question, past, ToSet(decision.domains)) THEN Clarify ELSE decision.intent
        /\ stage' = IF intent' = Supply /\ decision.domains # << >> THEN "routed" ELSE "responded"
    BY <1>4 DEF Resolve
  <2>2. Resolved'
    BY <2>1 DEF Resolved
  <2> QED BY <1>0, <2>1, <2>2
<1>5. CASE Route
  <2>1. /\ stage = "routed"
        /\ UNCHANGED <<stage, question, past, routed, decision, carried, intent, answers>>
        /\ subs' = [i \in DOMAIN decision.domains |-> SubQueryFor(decision.domains[i])]
    BY <1>5 DEF Route
  <2>2. Asked'
    BY <2>1 DEF Asked, SubQueryFor
  <2>3. Resolved => Resolved'
    BY <2>1 DEF Resolved
  <2> QED BY <1>0, <2>1, <2>2, <2>3
<1>6. CASE Generate
  <2>1. /\ stage = "routed" /\ stage' \in {"routed", "answered"}
        /\ UNCHANGED <<question, past, routed, decision, carried, intent, subs>>
    BY <1>6 DEF Generate
  <2>2. Resolved /\ intent = Supply => Resolved'
    BY <2>1 DEF Resolved
  <2>3. Resolved /\ intent = Supply
    BY <2>1 DEF Resolved
  <2> QED BY <1>0, <2>1, <2>2, <2>3
<1> QED BY <1>1, <1>2, <1>3, <1>4, <1>5, <1>6 DEF QuestionNext

\* The invariant holds of every run.
LEMMA QuestionInvariant == QuestionSpec => []QuestionInv
BY InitQuestion, NextQuestion, PTL DEF QuestionSpec

\* Every domain the pipeline goes on with is asked once, in order, and it is asked the
\* question or the router's rewrite of it, or else the text of a reply that is no JSON
\* (router.py:123-151, 184-217, orchestrator.py:204-221, 278-293), whatever the router
\* answers and the turns before were about.
THEOREM AgentsAreAsked == QuestionSpec => []AsksTheQuestion
<1>1. QuestionInv => AsksTheQuestion
  <2> SUFFICES ASSUME QuestionInv, subs # << >>
               PROVE  /\ [i \in DOMAIN subs |-> subs[i].domain] = decision.domains
                      /\ IsInjective(decision.domains)
                      /\ \A i \in DOMAIN subs :
                           \/ subs[i].says = "question"
                           \/ subs[i].says = "rewrite" /\ routed.kind = "object" /\ ~carried
                           \/ subs[i].says = "reply" /\ routed.kind = "text" /\ ~carried
    BY DEF AsksTheQuestion
  <2> DEFINE domains == decision.domains
  <2>1. subs = [i \in DOMAIN domains |-> SubQueryFor(domains[i])] /\ Says(decision, Words)
    BY DEF QuestionInv, Asked
  <2>2. EachOnce(domains)
    BY <2>1 DEF Says
  <2> HIDE DEF domains
  <2>3. domains \in Seq(Domains) /\ IsInjective(domains)
    BY <2>2 DEF EachOnce
  <2>4. /\ domains = [i \in DOMAIN domains |-> domains[i]]
        /\ \A i \in DOMAIN domains : domains[i] \in Domains
    BY <2>3
  <2>5. ASSUME NEW i \in DOMAIN domains
        PROVE  /\ subs[i].domain = domains[i]
               /\ subs[i].says = "question" \/ subs[i].says = Words
    <3>1. domains[i] \in Domains /\ subs[i] = SubQueryFor(domains[i])
      BY <2>1, <2>4
    <3> QED BY <2>1, <3>1, SubQueryForIs
  <2>6. DOMAIN subs = DOMAIN domains
    BY <2>1
  <2>7. [i \in DOMAIN subs |-> subs[i].domain] = domains
    BY <2>4, <2>5, <2>6
  <2>8. \/ Words = "question"
        \/ Words = "rewrite" /\ routed.kind = "object" /\ ~carried
        \/ Words = "reply" /\ routed.kind = "text" /\ ~carried
    BY DEF Words, Origin
  <2> QED BY <2>3, <2>5, <2>6, <2>7, <2>8 DEF domains
<1> QED BY <1>1, QuestionInvariant, PTL

\* A term with several senses none of which is routed scores at least the threshold;
\* one that is routed to a single domain, or has one sense, scores below it.
LEMMA Scores ==
  ASSUME NEW t \in Terms, NEW domains
  PROVE  /\ Len(SensesOf[t]) > 1 /\ InferredDomains(t) \cap domains = {}
              => Score(t, domains) >= Threshold
         /\ (Len(SensesOf[t]) > 1 => Cardinality(InferredDomains(t) \cap domains) = 1)
              => ~(Score(t, domains) >= Threshold)
<1> DEFINE n == Len(SensesOf[t])
           overlap == Cardinality(InferredDomains(t) \cap domains)
<1>1. n \in Nat
  <2>1. SensesOf \in [Terms -> Seq(SUBSET Domains)]
    BY Zenon, QuestionAssumption
  <2>2. SensesOf[t] \in Seq(SUBSET Domains)
    BY ONLY <2>1, t \in Terms, Zenon
  <2> QED BY ONLY <2>2 DEF n
<1>2. InferredDomains(t) \cap domains = {} => overlap = 0
  BY FS_EmptySet
<1>3. Score(t, domains) =
        CASE n <= 1                     -> 0
          [] n > 1 /\ overlap = 0       -> AtMost(50 + 10 * n)
          [] n > 1 /\ overlap = 1       -> 15
          [] n > 1 /\ overlap > 1       -> AtMost(30 + 10 * overlap)
  BY Zenon DEF Score
<1> HIDE DEF n, overlap
<1>4. CASE n <= 1
  BY <1>1, <1>3, <1>4 DEF n, Threshold
<1>5. CASE n > 1 /\ overlap = 0
  BY <1>1, <1>3, <1>5 DEF n, overlap, Threshold, AtMost
<1>6. CASE n > 1 /\ overlap = 1
  BY <1>1, <1>2, <1>3, <1>6 DEF n, overlap, Threshold
<1>7. CASE n > 1 /\ overlap # 0 /\ overlap # 1
  BY <1>1, <1>2, <1>7 DEF n, overlap
<1> QED BY <1>1, <1>4, <1>5, <1>6, <1>7

\* The user is asked back when a term has several senses, no domain chosen has one of
\* them and the conversation does not settle every term, and not when each such term
\* has one domain among those chosen (scorer.py:80-115, resolver.py:52-98), however
\* many terms, senses and domains there are.
THEOREM AsksBackWhenUnsure == QuestionSpec => []AsksWhenUnsure
<1>1. QuestionInv => AsksWhenUnsure
  <2> SUFFICES ASSUME QuestionInv, stage \notin {"idle", "asked", "classified"}
               PROVE  /\ (\E t \in Ambiguous : RoutedFor(t) = {}) /\ ~HistoryTells(question, past)
                           => stage = "responded" /\ intent = Clarify
                      /\ (\A t \in Ambiguous : Cardinality(RoutedFor(t)) = 1) => intent = decision.intent
    BY DEF AsksWhenUnsure
  <2> DEFINE domains == ToSet(decision.domains)
             asks == AsksBack(question, past, domains)
  <2>1. /\ intent = IF asks THEN Clarify ELSE decision.intent
        /\ intent # Supply => stage = "responded"
        /\ question.terms \subseteq Terms
    BY DEF QuestionInv, Resolved
  <2>2. \A t : RoutedFor(t) = InferredDomains(t) \cap domains
    BY DEF RoutedFor
  <2>3. asks <=> /\ \E t \in question.terms : Score(t, domains) >= Threshold
                 /\ ~HistoryTells(question, past)
    BY Zenon DEF AsksBack
  <2> HIDE DEF domains, asks
  <2>4. ASSUME NEW t \in Ambiguous, RoutedFor(t) = {}, ~HistoryTells(question, past)
        PROVE  stage = "responded" /\ intent = Clarify
    <3>1. t \in Terms /\ t \in question.terms /\ Len(SensesOf[t]) > 1
      BY <2>1 DEF Ambiguous
    <3>2. Score(t, domains) >= Threshold
      BY <2>2, <2>4, <3>1, Scores
    <3>3. asks
      BY <2>3, <2>4, <3>1, <3>2
    <3> QED BY <2>1, <3>3 DEF Clarify, Supply
  <2>5. ASSUME \A t \in Ambiguous : Cardinality(RoutedFor(t)) = 1 PROVE intent = decision.intent
    <3>1. ASSUME NEW t \in question.terms PROVE ~(Score(t, domains) >= Threshold)
      <4>1. t \in Terms
        BY <2>1
      <4>2. Len(SensesOf[t]) > 1 => Cardinality(InferredDomains(t) \cap domains) = 1
        BY <2>2, <2>5 DEF Ambiguous
      <4> QED BY <4>1, <4>2, Scores
    <3>2. ~asks
      BY <2>3, <3>1
    <3> QED BY <2>1, <3>2
  <2> QED BY <2>4, <2>5
<1> QED BY <1>1, QuestionInvariant, PTL
================================================================================
