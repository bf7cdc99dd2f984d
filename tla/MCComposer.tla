------------------------------ MODULE MCComposer ------------------------------
(***************************************************************************)
(* An instance of Composer for TLC: two fact tables that share one         *)
(* dimension or two, agents that use one of them or both, and lists of up  *)
(* to two columns, known or not, one of them called what the composer      *)
(* renames finance's amount to.                                            *)
(***************************************************************************)
EXTENDS Composer

ComposedDomains == {"demand", "finance", "compliance"}
ColumnNames == {"company_id", "product_id", "amount", "id", "q_finance_amount"}
KeysFirst == <<"company_id", "product_id", "amount", "id", "q_finance_amount">>
MadeNames == [p \in ComposedDomains \X ColumnNames |-> "q_" \o p[1] \o "_" \o p[2]]

ForeignKey(t, c, u, d) == [from |-> t, column |-> c, to |-> u, target |-> d]
SharedDimensions ==
  {ForeignKey("factonlinesales", "company_id", "res_company", "id"),
   ForeignKey("factonlinesales", "product_id", "dimproduct", "id"),
   ForeignKey("account_move", "company_id", "res_company", "id"),
   ForeignKey("account_move", "product_id", "dimproduct", "id")}
JoinedTables == {"factonlinesales", "account_move", "res_company", "dimproduct"}

ColumnLists == {<<"amount">>, <<"product_id", "amount">>, <<"amount", "company_id">>,
                <<"company_id", "product_id">>, <<"q_finance_amount">>}

Fragment(sql, listed, star, used) == [sql |-> sql, listed |-> listed, star |-> star, used |-> used]

\* A SELECT without a column that has a name is a sum or a count without an alias.
Outputs ==
  LET Facts == {{"factonlinesales"}, {"account_move"}} IN
  {Fragment("none", << >>, FALSE, {}), Fragment("broken", << >>, FALSE, {"factonlinesales"}),
   Fragment("select", << >>, FALSE, {"account_move"})}
  \cup {Fragment("select", l, FALSE, u) : l \in ColumnLists, u \in Facts}
  \cup {Fragment("select", <<"company_id", "amount">>, s, u) : s \in BOOLEAN, u \in {{}, UNION Facts}}
  \cup {Fragment("select", << >>, TRUE, u) : u \in {{"factonlinesales"}, {"res_company"}}}
  \cup {Fragment("union", <<"product_id", "amount">>, FALSE, u) : u \in Facts}
===============================================================================
