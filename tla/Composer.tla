-------------------------------- MODULE Composer --------------------------------
(***************************************************************************)
(* Composer (backend/app/composer/composer.py): the fragments of the       *)
(* domain agents become one statement, each fragment a CTE, joined on a    *)
(* key they share or crossed.  The keys come from the foreign keys of the  *)
(* tables the fragments use (JoinGraph, backend/app/schema/joins.py).      *)
(*                                                                         *)
(* Only the names are modelled: which columns the result shows, and under  *)
(* which names.  They are compared as the code compares them: two that     *)
(* differ in nothing but the case of letters, or in quotes, are not among  *)
(* the columns.  Orchestrator has what the composer does to the query.     *)
(***************************************************************************)
EXTENDS Schema, Naturals, Sequences, SequencesExt, FiniteSets

CONSTANTS
  Columns,
  KeyOrder,     \* the columns, the well-known keys first, then by name
  Prefixed,     \* q_<domain>_<column>, which may be a column of an agent too
  ForeignKeys,  \* what JoinGraph is built from
  Fragments     \* what an agent may return

ASSUME ComposerAssumption ==
  /\ KeyOrder \in Seq(Columns) /\ ToSet(KeyOrder) = Columns /\ IsInjective(KeyOrder)
  /\ "none" \notin Columns /\ "any" \notin Domains
  \* No domain's name is the start of another's, so no two made names are the same.
  /\ DOMAIN Prefixed = Domains \X Columns /\ IsInjective(Prefixed)
  /\ ForeignKeys \subseteq [from : Tables, column : Columns, to : Tables, target : Columns]
  \* sql: nothing, one SELECT, a UNION, or what sqlglot cannot parse; listed:
  \* the columns it returns that have a name, each once; star: whether it also
  \* selects *.
  /\ Fragments \subseteq [sql : {"none", "select", "union", "broken"},
                          listed : Seq(Columns), star : BOOLEAN, used : SUBSET Tables]
  /\ \A f \in Fragments : IsInjective(f.listed)

VARIABLES
  outputs,  \* what the agents returned: a domain and a fragment each
  result,   \* the composed statement
  composed  \* whether there is one

composerVars == <<outputs, result, composed>>

\* The strategy (noop, passthrough, inner_join or cross_join), the joined column or
\* "none", and the columns of the result: the CTE each is taken from ("any" for
\* the joined key), which it is there, and the name it has in the result.
Statement(strategy, key, items) == [strategy |-> strategy, key |-> key, items |-> items]
NoComposition == Statement("noop", "none", << >>)

-----------------------------------------------------------------------------

\* JoinGraph.outgoing_columns: an edge leaves both of its tables.
Outgoing(t) ==
  {fk.column : fk \in {k \in ForeignKeys : k.from = t}} \cup
  {fk.target : fk \in {k \in ForeignKeys : k.to = t}}

\* The places of the fragments that are not empty.
NonEmpty(outs) == {i \in DOMAIN outs : outs[i].fragment.sql # "none"}

\* _output_columns: what cannot be told is left out.
OutputColumns(o) == IF o.fragment.sql = "select" THEN o.fragment.listed ELSE << >>

CandidateKeys(o) == UNION {Outgoing(t) : t \in o.fragment.used}
CommonKeys(outs) == {c \in Columns : \A i \in NonEmpty(outs) : c \in CandidateKeys(outs[i])}

\* _detect_shared_key
SharedKey(outs) ==
  IF CommonKeys(outs) = {} THEN "none"
  ELSE KeyOrder[SelectInSeq(KeyOrder, LAMBDA c : c \in CommonKeys(outs))]

FaultyJoinKey(outs) == SharedKey(outs)
FaultyFirstJoinKey(outs) ==
  LET key == SharedKey(outs)
      cols == OutputColumns(outs[CHOOSE i \in NonEmpty(outs) : \A j \in NonEmpty(outs) : i <= j])
  IN  IF cols # << >> /\ key \notin ToSet(cols) THEN "none" ELSE key

\* The key, unless a fragment is known not to return it.
JoinKey(outs) ==
  LET key == SharedKey(outs) IN
  IF \A i \in NonEmpty(outs) :
       OutputColumns(outs[i]) # << >> => key \in ToSet(OutputColumns(outs[i]))
    THEN key ELSE "none"

Item(of, column, name) == [of |-> of, column |-> column, name |-> name]

FaultyWithColumn(items, of, column) == Append(items, Item(of, column, column))

\* A column that is there already is renamed; whether the new name is one that is
\* there, or comes later, is not looked at.
WithColumn(items, of, column) ==
  Append(items, Item(of, column,
    IF \E i \in DOMAIN items : items[i].column = column THEN Prefixed[<<of, column>>] ELSE column))

\* The known columns of a CTE, behind the items before them.
WithColumns(items, o) ==
  LET cols == OutputColumns(o)
      more[n \in 0..Len(cols)] ==
        IF n = 0 THEN items ELSE WithColumn(more[n - 1], o.domain, cols[n])
  IN  more[Len(cols)]

KeyItems(key) == IF key = "none" THEN << >> ELSE <<Item("any", key, key)>>

FaultyItems(outs, key) ==
  LET Others(o) == [o EXCEPT !.fragment.listed = SelectSeq(@, LAMBDA c : c # key)]
      items[n \in 0..Len(outs)] ==
        IF n = 0 THEN KeyItems(key) ELSE WithColumns(items[n - 1], Others(outs[n]))
  IN  items[Len(outs)]

\* _cross_select_clause: the key first, then every known column of every CTE; no
\* item at all stands for "*".
Items(outs, key) ==
  LET items[n \in 0..Len(outs)] ==
        IF n = 0 THEN KeyItems(key) ELSE WithColumns(items[n - 1], outs[n])
  IN  items[Len(outs)]

\* _compose_multi
ComposeMulti(outs) ==
  LET key == JoinKey(outs) IN
  IF \E i \in DOMAIN outs : outs[i].fragment.sql = "broken" THEN NoComposition
  ELSE Statement(IF key = "none" THEN "cross_join" ELSE "inner_join", key, Items(outs, key))

\* compose
Composition(outs) ==
  CASE Cardinality(NonEmpty(outs)) = 0 -> NoComposition
    [] Cardinality(NonEmpty(outs)) = 1 -> Statement("passthrough", "none", << >>)
    [] OTHER -> ComposeMulti(outs)

-----------------------------------------------------------------------------

Answered == {outputs[i].domain : i \in DOMAIN outputs}

ComposerInit == outputs = << >> /\ result = NoComposition /\ composed = FALSE

\* The agents are asked one after the other, ...
AgentReturns(d) ==
  /\ ~composed /\ d \in Domains \ Answered
  /\ \E fragment \in Fragments :
       outputs' = Append(outputs, [domain |-> d, fragment |-> fragment])
  /\ UNCHANGED <<result, composed>>

\* ... then the composer is called with their outputs.
Compose ==
  /\ ~composed
  /\ composed' = TRUE /\ result' = Composition(outputs)
  /\ UNCHANGED outputs

ComposerNext ==
  \/ \E d \in Domains : AgentReturns(d)
  \/ Compose
  \/ composed /\ UNCHANGED composerVars

ComposerSpec == ComposerInit /\ [][ComposerNext]_composerVars

-----------------------------------------------------------------------------

Joined == result.strategy \in {"inner_join", "cross_join"}
Parts == NonEmpty(outputs)

\* The joined key is a foreign key of a table each fragment uses, and every SELECT
\* of which a column is known returns it; that a UNION does, or a SELECT of which
\* no column is known, is not looked at (composer.py:117-126, 157-172).
JoinGrounded ==
  result.key # "none" =>
    \A i \in Parts :
      LET fragment == outputs[i].fragment IN
      /\ \E t \in fragment.used : result.key \in Outgoing(t)
      /\ fragment.sql = "select" =>
           fragment.listed = << >> \/ result.key \in ToSet(fragment.listed)

\* A column is the joined key, or one of the parts is known to return it.
Mentioned(c, parts) ==
  c \in Columns /\ (c = result.key \/ \E i \in parts : c \in ToSet(OutputColumns(outputs[i])))

\* Two columns of the result have the same name, so that one value hides another
\* when the rows become dictionaries, in one case and always in it: an agent
\* returns a column that is already there, and some agent one that is called what
\* the first is renamed to (composer.py:174-193, main.py:193).
NamesClash ==
  Joined =>
    ( (\E m, n \in DOMAIN result.items : m # n /\ result.items[m].name = result.items[n].name)
      <=> \E i \in Parts : \E c \in ToSet(OutputColumns(outputs[i])) :
            /\ Mentioned(c, {j \in Parts : j < i})
            /\ Mentioned(Prefixed[<<outputs[i].domain, c>>], Parts) )

\* Every column an agent names is in the result once, under its own CTE and in the
\* order the agent gave, and nothing else is but the key (composer.py:174-193).
Shows(items, domain, cols) ==
  \E k \in 0..Len(items) :
    /\ k + Len(cols) <= Len(items)
    /\ \A n \in DOMAIN items :
         IF n \in (k + 1)..(k + Len(cols))
           THEN items[n].of = domain /\ items[n].column = cols[n - k]
           ELSE items[n].of # domain
ListedShown ==
  Joined =>
    /\ \A i \in Parts : Shows(result.items, outputs[i].domain, OutputColumns(outputs[i]))
    /\ \A n \in DOMAIN result.items :
         result.items[n].of \in {outputs[i].domain : i \in Parts} \cup {"any"}
    /\ Shows(result.items, "any", IF result.key = "none" THEN << >> ELSE <<result.key>>)

\* The key does not depend on the order in which the router named the domains:
\* any order of the outputs gives the same strategy and the same key
\* (composer.py:157-172).
OrderIrrelevant ==
  composed => \A outs \in SetToSeqs(ToSet(outputs)) :
                LET other == Composition(outs) IN
                other.strategy = result.strategy /\ other.key = result.key

-----------------------------------------------------------------------------
(* What the repository says and the code does otherwise.                   *)

\* "If the inner statement is a CTE / Union, fall back to *" (composer.py:218):
\* a fragment whose columns are not known is shown with all of them.
UnknownShown ==
  Joined =>
    \A i \in Parts : outputs[i].fragment.sql = "union" => result.items = << >>

\* "Only INNER JOIN if EVERY CTE actually projects the shared key" (composer.py:115):
\* a CTE without a * returns the joined key as one of its columns.
KeyProjected ==
  result.key # "none" =>
    \A i \in Parts : outputs[i].fragment.star \/ result.key \in ToSet(outputs[i].fragment.listed)
================================================================================
