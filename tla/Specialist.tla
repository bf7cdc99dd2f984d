------------------------------- MODULE Specialist -------------------------------
(***************************************************************************)
(* LLMDomainAgent (backend/app/agents/specialists.py): what an agent makes *)
(* of a model's reply, and which tables it may read (DomainMapping,        *)
(* backend/app/schema/domains.py).                                         *)
(*                                                                         *)
(* A statement is the sequence of the names that follow FROM and JOIN, the *)
(* only part of it the agent looks at: tables, and names the statement     *)
(* itself gives, to a CTE for instance.                                    *)
(***************************************************************************)
EXTENDS Schema, Naturals, Sequences, SequencesExt

CONSTANTS
  CrossCutting,  \* the domains that see every table (compliance)
  PrimaryOf,     \* the tables each domain owns
  SharedTables,  \* the tables of the shared groups
  MaxTables      \* _MAX_TABLES_FROM_SQL

ASSUME SpecialistAssumption ==
  /\ CrossCutting \subseteq Domains /\ SharedTables \subseteq Tables
  /\ PrimaryOf \in [Domains -> SUBSET Tables]
  /\ MaxTables \in Nat \ {0}

\* visible_to
VisibleTo(d) ==
  SharedTables \cup
  IF d \in CrossCutting THEN UNION {PrimaryOf[e] : e \in Domains} ELSE PrimaryOf[d]

NoStatement == << >>

\* A reply: what frames it, and its statements or what a blank line separates.
Forms == {"out of domain", "prose", "fenced", "bare", "failed"}
Reply(form, parts) == [form |-> form, parts |-> parts]

\* extract_sql: a fence is taken whole, anything else up to a blank line.
ExtractSql(reply) ==
  CASE reply.form = "fenced" -> FlattenSeq(reply.parts)
    [] reply.form = "bare"   -> reply.parts[1]
    [] OTHER                 -> NoStatement

\* tables_referenced: each name once, the first MaxTables of them.
TablesReferenced(sql) ==
  FoldLeft(LAMBDA seen, name : IF name \in ToSet(seen) \/ Len(seen) = MaxTables
                                 THEN seen ELSE Append(seen, name),
           << >>, sql)

\* generate_sql: the statement of the reply, or none.
AgentSql(d, reply) ==
  LET sql == ExtractSql(reply) IN
  IF ToSet(TablesReferenced(sql)) \subseteq VisibleTo(d) THEN sql ELSE NoStatement
================================================================================
