----------------------------- MODULE ComposerProofs -----------------------------
(***************************************************************************)
(* Proofs about Composer: what each CTE adds to the items of the result,   *)
(* by induction over its columns and over the CTEs, and from it when two   *)
(* have the same name and that each listed column is shown; and that the   *)
(* joined key depends on the set of the outputs only.                      *)
(***************************************************************************)
EXTENDS Composer, Recursion

Output == [domain : Domains, fragment : Fragments]
Made == {Prefixed[p] : p \in Domains \X Columns}
Column == [of : Domains \cup {"any"}, column : Columns, name : Columns \cup Made]

\* The known columns of an output are columns, each once.
LEMMA ColumnsType ==
  ASSUME NEW o \in Output
  PROVE  OutputColumns(o) \in Seq(Columns) /\ IsInjective(OutputColumns(o))
<1>1. o.fragment.listed \in Seq(Columns) /\ IsInjective(o.fragment.listed)
  BY ComposerAssumption DEF Output
<1>2. << >> \in Seq(Columns) /\ IsInjective(<< >>)
  BY DEF IsInjective
<1> QED BY <1>1, <1>2 DEF OutputColumns

\* What more of a CTE's columns does to the items, as a function of the items.
LEMMA WithColumnsIs ==
  ASSUME NEW items \in Seq(Column), NEW o \in Output
  PROVE  \E more \in [0..Len(OutputColumns(o)) -> Seq(Column)] :
           /\ WithColumns(items, o) = more[Len(OutputColumns(o))]
           /\ more[0] = items
           /\ \A n \in 1..Len(OutputColumns(o)) :
                more[n] = WithColumn(more[n - 1], o.domain, OutputColumns(o)[n])
<1> DEFINE cols == OutputColumns(o)
           N == Len(cols)
           V == Seq(Column)
           step == [n \in 1..N |-> [v \in V |-> WithColumn(v, o.domain, cols[n])]]
<1>1. cols \in Seq(Columns) /\ N \in Nat /\ o.domain \in Domains
  BY ColumnsType DEF Output
<1>2. ASSUME NEW v \in V, NEW n \in 1..N PROVE WithColumn(v, o.domain, cols[n]) \in V
  <2> DEFINE name == IF \E i \in DOMAIN v : v[i].column = cols[n]
                       THEN Prefixed[<<o.domain, cols[n]>>] ELSE cols[n]
             new == Item(o.domain, cols[n], name)
  <2>0. cols[n] \in Columns /\ name \in Columns \cup Made
    <3>1. cols[n] \in Columns
      BY <1>1
    <3>2. Prefixed[<<o.domain, cols[n]>>] \in Made
      BY <1>1, <3>1 DEF Made
    <3> QED BY <3>1, <3>2
  <2> HIDE DEF name
  <2>1. new \in Column
    BY <1>1, <2>0 DEF Item, Column
  <2>2. WithColumn(v, o.domain, cols[n]) = Append(v, new)
    BY Zenon DEF WithColumn, name
  <2> HIDE DEF new
  <2> QED BY <2>1, <2>2
<1>3. BoundedStep(step, N, V)
  BY <1>2 DEF BoundedStep
<1>4. \A n \in 1..N, v \in V : step[n][v] = WithColumn(v, o.domain, cols[n])
  OBVIOUS
<1> HIDE DEF step
<1>5. PICK f : Recursive(f, N, items, step) /\ f \in [0..N -> V]
  BY <1>1, <1>3, BoundedRecursion
<1>6. f = [n \in 0..N |-> IF n = 0 THEN items ELSE WithColumn(f[n - 1], o.domain, cols[n])]
  <2>1. ASSUME NEW n \in 0..N, n # 0 PROVE step[n][f[n - 1]] = WithColumn(f[n - 1], o.domain, cols[n])
    <3>1. n \in 1..N /\ n - 1 \in 0..N
      BY <1>1, <2>1
    <3> QED BY <1>4, <1>5, <3>1
  <2> QED BY <1>5, <2>1 DEF Recursive
<1> DEFINE more == CHOOSE g : g = [n \in 0..N |->
             IF n = 0 THEN items ELSE WithColumn(g[n - 1], o.domain, cols[n])]
<1>7. more = [n \in 0..N |-> IF n = 0 THEN items ELSE WithColumn(more[n - 1], o.domain, cols[n])]
  BY <1>6
<1>8. WithColumns(items, o) = more[N]
  BY Zenon DEF WithColumns
<1> HIDE DEF more
<1>9. more \in [0..N -> V]
  <2> DEFINE S == {n \in 0..N : more[n] \in V}
  <2>1. 0 \in S
    BY <1>1, <1>7
  <2>2. ASSUME NEW n \in 0..N, n \in S, n < N PROVE n + 1 \in S
    <3>1. n + 1 \in 0..N /\ n + 1 # 0 /\ (n + 1) - 1 = n /\ n + 1 \in 1..N
      BY <1>1, <2>2
    <3>2. more[n + 1] = WithColumn(more[n], o.domain, cols[n + 1])
      BY <1>7, <3>1
    <3> QED BY <1>2, <2>2, <3>1, <3>2
  <2> HIDE DEF S
  <2>3. 0..N \subseteq S
    BY <1>1, <2>1, <2>2, BoundedInduction
  <2> QED BY <1>7, <2>3 DEF S
<1>10. more[0] = items /\ \A n \in 1..N : more[n] = WithColumn(more[n - 1], o.domain, cols[n])
  BY <1>1, <1>7
<1> QED BY <1>8, <1>9, <1>10

\* A column of a CTE is once among the items, and renamed when its name was there.
NamedAs(items, n) ==
  items[n].name = IF \E k \in 1..(n - 1) : items[k].column = items[n].column
                    THEN Prefixed[<<items[n].of, items[n].column>>] ELSE items[n].column
Distinct(items) ==
  /\ \A i, j \in DOMAIN items :
       i # j => items[i].of # items[j].of \/ items[i].column # items[j].column
  /\ \A n \in DOMAIN items : NamedAs(items, n)
Without(items, domain) == \A n \in DOMAIN items : items[n].of # domain

\* What the columns of one CTE add to the items: themselves, in order.
LEMMA ColumnsAdded ==
  ASSUME NEW items \in Seq(Column), NEW o \in Output,
         Distinct(items), Without(items, o.domain)
  PROVE  LET cols == OutputColumns(o)
             with == WithColumns(items, o)
         IN  /\ with \in Seq(Column) /\ Len(with) = Len(items) + Len(cols)
             /\ Distinct(with)
             /\ \A i \in 1..Len(items) : with[i] = items[i]
             /\ \A n \in 1..Len(cols) :
                  /\ with[Len(items) + n].of = o.domain
                  /\ with[Len(items) + n].column = cols[n]
<1> DEFINE cols == OutputColumns(o)
           with == WithColumns(items, o)
           L == Len(items)
           N == Len(cols)
<1>1. cols \in Seq(Columns) /\ IsInjective(cols) /\ o.domain \in Domains /\ N \in Nat /\ L \in Nat
  BY ColumnsType DEF Output
<1>2. PICK more \in [0..N -> Seq(Column)] :
        /\ with = more[N] /\ more[0] = items
        /\ \A n \in 1..N : more[n] = WithColumn(more[n - 1], o.domain, cols[n])
  BY WithColumnsIs
<1> DEFINE Good(v, m) ==
             /\ Len(v) = L + m /\ Distinct(v)
             /\ \A i \in 1..L : v[i] = items[i]
             /\ \A n \in 1..m : v[L + n].of = o.domain /\ v[L + n].column = cols[n]
           S == {m \in 0..N : Good(more[m], m)}
<1>3. 0 \in S
  BY <1>1, <1>2
<1>4. ASSUME NEW m \in 0..N, m \in S, m < N PROVE m + 1 \in S
  <2> DEFINE v == more[m]
             name == IF \E i \in DOMAIN v : v[i].column = cols[m + 1]
                       THEN Prefixed[<<o.domain, cols[m + 1]>>] ELSE cols[m + 1]
             new == Item(o.domain, cols[m + 1], name)
             w == more[m + 1]
  <2>1. m \in Nat /\ m + 1 \in 1..N /\ m + 1 \in 0..N /\ (m + 1) - 1 = m /\ m \in 0..N
    BY <1>1, <1>4
  <2>2. v \in Seq(Column) /\ Good(v, m)
    BY <1>2, <1>4
  <2>3. w = WithColumn(v, o.domain, cols[m + 1])
    BY <1>2, <2>1
  <2>4. w = Append(v, new)
    BY Zenon, <2>3 DEF WithColumn, name
  <2> HIDE DEF name
  <2>5. new.of = o.domain /\ new.column = cols[m + 1] /\ new.name = name
    BY DEF Item
  <2> HIDE DEF new, v, w, Good
  <2>6. DOMAIN v = 1..(L + m) /\ Len(v) = L + m
    BY <2>2 DEF Good
  <2>7. Len(w) = L + (m + 1) /\ w[L + (m + 1)] = new /\ \A i \in 1..(L + m) : w[i] = v[i]
    BY <1>1, <2>1, <2>2, <2>4, <2>6
  <2>8. \A i \in 1..(L + m) : v[i].of # new.of \/ v[i].column # new.column
    <3> SUFFICES ASSUME NEW i \in 1..(L + m), v[i].of = o.domain, v[i].column = cols[m + 1]
                 PROVE FALSE
      BY <2>5
    <3>1. CASE i \in 1..L
      <4>1. v[i] = items[i] /\ i \in DOMAIN items
        BY <2>2, <3>1 DEF Good
      <4> QED BY <4>1 DEF Without
    <3>2. CASE i \notin 1..L
      <4>1. i - L \in 1..m /\ L + (i - L) = i
        BY <1>1, <2>1, <3>2
      <4>2. v[i].column = cols[i - L]
        BY <2>2, <4>1 DEF Good
      <4>3. i - L \in DOMAIN cols /\ m + 1 \in DOMAIN cols /\ i - L # m + 1
        BY <1>1, <2>1, <4>1
      <4> QED BY <1>1, <4>2, <4>3 DEF IsInjective
    <3> QED BY <3>1, <3>2
  <2>9. Distinct(w)
    <3>1. DOMAIN w = 1..(L + (m + 1)) /\ L \in Nat /\ m \in Nat
      <4>1. w \in Seq(Column)
        BY <1>2, <2>1 DEF w
      <4> QED BY <1>1, <2>1, <2>7, <4>1
    <3>2. ASSUME NEW x \in DOMAIN w PROVE x \in 1..(L + m) \/ x = L + (m + 1)
      BY <3>1
    <3>3. ASSUME NEW i \in DOMAIN w, NEW j \in DOMAIN w, i # j
          PROVE  w[i].of # w[j].of \/ w[i].column # w[j].column
      <4>1. CASE i \in 1..(L + m) /\ j \in 1..(L + m)
        <5>1. w[i] = v[i] /\ w[j] = v[j] /\ i \in DOMAIN v /\ j \in DOMAIN v
          BY <2>6, <2>7, <4>1
        <5> QED BY <2>2, <3>3, <5>1 DEF Good, Distinct
      <4>2. CASE i = L + (m + 1)
        <5>1. j \in 1..(L + m)
          BY <3>2, <3>3, <4>2
        <5> QED BY <2>7, <2>8, <4>2, <5>1
      <4>3. CASE j = L + (m + 1)
        <5>1. i \in 1..(L + m)
          BY <3>2, <3>3, <4>3
        <5> QED BY <2>7, <2>8, <4>3, <5>1
      <4> QED BY <3>2, <4>1, <4>2, <4>3
    <3>4. ASSUME NEW n \in DOMAIN w PROVE NamedAs(w, n)
      <4>1. CASE n \in 1..(L + m)
        <5>1. /\ w[n] = v[n] /\ n \in DOMAIN v
              /\ \A k \in 1..(n - 1) : w[k] = v[k]
          BY <2>6, <2>7, <3>1, <4>1
        <5>2. NamedAs(v, n)
          BY <2>2, <5>1 DEF Good, Distinct
        <5> QED BY <5>1, <5>2 DEF NamedAs
      <4>2. CASE n = L + (m + 1)
        <5>1. w[n] = new /\ n - 1 = L + m
          BY <2>7, <3>1, <4>2
        <5>2. (\E k \in 1..(n - 1) : w[k].column = w[n].column)
              <=> \E i \in DOMAIN v : v[i].column = cols[m + 1]
          BY <2>5, <2>6, <2>7, <5>1
        <5> QED BY <2>5, <5>1, <5>2 DEF NamedAs, name
      <4> QED BY <3>2, <4>1, <4>2
    <3> QED BY <3>3, <3>4 DEF Distinct
  <2>10. \A i \in 1..L : w[i] = items[i]
    <3>1. \A i \in 1..L : i \in 1..(L + m)
      BY <1>1, <2>1
    <3> QED BY <2>2, <2>7, <3>1 DEF Good
  <2>11. \A n \in 1..(m + 1) : w[L + n].of = o.domain /\ w[L + n].column = cols[n]
    <3> SUFFICES ASSUME NEW n \in 1..(m + 1) PROVE w[L + n].of = o.domain /\ w[L + n].column = cols[n]
      OBVIOUS
    <3>1. CASE n = m + 1
      BY <2>5, <2>7, <3>1
    <3>2. CASE n # m + 1
      <4>1. n \in 1..m /\ L + n \in 1..(L + m)
        BY <1>1, <2>1, <3>2
      <4> QED BY <2>2, <2>7, <4>1 DEF Good
    <3> QED BY <3>1, <3>2
  <2>12. Good(w, m + 1)
    BY <2>7, <2>9, <2>10, <2>11 DEF Good
  <2> QED BY <2>1, <2>12 DEF w
<1> HIDE DEF S
<1>5. 0..N \subseteq S
  BY <1>1, <1>3, <1>4, BoundedInduction
<1>6. N \in 0..N
  BY <1>1
<1>7. Good(with, N) /\ with \in Seq(Column)
  BY <1>2, <1>5, <1>6 DEF S
<1> QED BY <1>7

Key == Columns \cup {"none"}

\* The key in front is one item of the joined CTEs, or none.
LEMMA KeyItemsType ==
  ASSUME NEW key \in Key
  PROVE  KeyItems(key) \in Seq(Column)
<1>1. CASE key = "none"
  BY <1>1 DEF KeyItems
<1>2. CASE key # "none"
  <2> DEFINE item == Item("any", key, key)
  <2>1. item \in Column
    BY <1>2 DEF Item, Column, Key
  <2>2. KeyItems(key) = <<item>>
    BY <1>2 DEF KeyItems
  <2> HIDE DEF item
  <2> QED BY <2>1, <2>2
<1> QED BY <1>1, <1>2

\* A CTE's columns are added to items as items.
LEMMA WithColumnsType ==
  ASSUME NEW items \in Seq(Column), NEW o \in Output
  PROVE  WithColumns(items, o) \in Seq(Column)
<1> DEFINE N == Len(OutputColumns(o))
<1>1. PICK more \in [0..N -> Seq(Column)] : WithColumns(items, o) = more[N]
  BY WithColumnsIs
<1>2. N \in 0..N
  BY ColumnsType
<1> HIDE DEF N
<1> QED BY <1>1, <1>2

\* What each more CTE does to the items.
LEMMA ItemsIs ==
  ASSUME NEW outs \in Seq(Output), NEW key \in Key
  PROVE  \E rows \in [0..Len(outs) -> Seq(Column)] :
           /\ Items(outs, key) = rows[Len(outs)]
           /\ rows[0] = KeyItems(key)
           /\ \A n \in 1..Len(outs) : rows[n] = WithColumns(rows[n - 1], outs[n])
<1> DEFINE N == Len(outs)
           V == Seq(Column)
           first == KeyItems(key)
           step == [n \in 1..N |-> [v \in V |-> WithColumns(v, outs[n])]]
<1>1. N \in Nat /\ first \in V
  BY KeyItemsType
<1>2. ASSUME NEW v \in V, NEW n \in 1..N PROVE WithColumns(v, outs[n]) \in V
  <2>1. outs[n] \in Output
    OBVIOUS
  <2> QED BY <2>1, WithColumnsType
<1>3. BoundedStep(step, N, V)
  BY <1>2 DEF BoundedStep
<1>4. \A n \in 1..N, v \in V : step[n][v] = WithColumns(v, outs[n])
  OBVIOUS
<1> HIDE DEF step, first
<1>5. PICK f : Recursive(f, N, first, step) /\ f \in [0..N -> V]
  BY <1>1, <1>3, BoundedRecursion
<1>6. f = [n \in 0..N |-> IF n = 0 THEN first ELSE WithColumns(f[n - 1], outs[n])]
  <2>1. ASSUME NEW n \in 0..N, n # 0 PROVE step[n][f[n - 1]] = WithColumns(f[n - 1], outs[n])
    <3>1. n \in 1..N /\ n - 1 \in 0..N
      BY <1>1, <2>1
    <3> QED BY <1>4, <1>5, <3>1
  <2> QED BY <1>5, <2>1 DEF Recursive
<1> DEFINE rows == CHOOSE g : g = [n \in 0..N |->
             IF n = 0 THEN first ELSE WithColumns(g[n - 1], outs[n])]
<1>7. rows = [n \in 0..N |-> IF n = 0 THEN first ELSE WithColumns(rows[n - 1], outs[n])]
  BY <1>6
<1>8. Items(outs, key) = rows[N]
  BY Zenon DEF Items, first
<1> HIDE DEF rows
<1>9. rows \in [0..N -> V]
  <2> DEFINE S == {n \in 0..N : rows[n] \in V}
  <2>1. 0 \in S
    BY <1>1, <1>7
  <2>2. ASSUME NEW n \in 0..N, n \in S, n < N PROVE n + 1 \in S
    <3>1. n + 1 \in 0..N /\ n + 1 # 0 /\ (n + 1) - 1 = n /\ n + 1 \in 1..N
      BY <1>1, <2>2
    <3>2. rows[n + 1] = WithColumns(rows[n], outs[n + 1])
      BY <1>7, <3>1
    <3> QED BY <1>2, <2>2, <3>1, <3>2
  <2> HIDE DEF S
  <2>3. 0..N \subseteq S
    BY <1>1, <2>1, <2>2, BoundedInduction
  <2> QED BY <1>7, <2>3 DEF S
<1>10. rows[0] = first /\ \A n \in 1..N : rows[n] = WithColumns(rows[n - 1], outs[n])
  BY <1>1, <1>7
<1> QED BY <1>8, <1>9, <1>10 DEF first

\* Columns of other CTEs behind it leave what a domain shows as it is, ...
LEMMA ShowsKept ==
  ASSUME NEW items \in Seq(Column), NEW with \in Seq(Column), NEW domain,
         NEW cols \in Seq(Columns), Shows(items, domain, cols),
         Len(items) <= Len(with), \A i \in 1..Len(items) : with[i] = items[i],
         \A i \in (Len(items) + 1)..Len(with) : with[i].of # domain
  PROVE  Shows(with, domain, cols)
<1>1. PICK k \in 0..Len(items) :
        /\ k + Len(cols) <= Len(items)
        /\ \A n \in DOMAIN items :
             IF n \in (k + 1)..(k + Len(cols))
               THEN items[n].of = domain /\ items[n].column = cols[n - k]
               ELSE items[n].of # domain
  BY DEF Shows
<1>2. /\ Len(items) \in Nat /\ Len(with) \in Nat /\ Len(cols) \in Nat
      /\ DOMAIN items = 1..Len(items) /\ DOMAIN with = 1..Len(with)
  OBVIOUS
<1>3. k \in 0..Len(with) /\ k + Len(cols) <= Len(with)
  BY <1>1, <1>2
<1>4. ASSUME NEW n \in DOMAIN with
      PROVE  IF n \in (k + 1)..(k + Len(cols))
               THEN with[n].of = domain /\ with[n].column = cols[n - k]
               ELSE with[n].of # domain
  <2>1. CASE n \in 1..Len(items)
    BY <1>1, <1>2, <2>1
  <2>2. CASE n \notin 1..Len(items)
    <3>1. n \in (Len(items) + 1)..Len(with) /\ n \notin (k + 1)..(k + Len(cols))
      BY <1>1, <1>2, <2>2
    <3> QED BY <3>1
  <2> QED BY <2>1, <2>2
<1> QED BY <1>3, <1>4 DEF Shows

\* ... and its own, behind items of others, are shown.
LEMMA ShowsNew ==
  ASSUME NEW items \in Seq(Column), NEW with \in Seq(Column), NEW domain,
         NEW cols \in Seq(Columns), Without(items, domain),
         Len(with) = Len(items) + Len(cols), \A i \in 1..Len(items) : with[i] = items[i],
         \A n \in 1..Len(cols) :
           /\ with[Len(items) + n].of = domain
           /\ with[Len(items) + n].column = cols[n]
  PROVE  Shows(with, domain, cols)
<1> DEFINE k == Len(items)
<1>1. /\ k \in Nat /\ Len(with) \in Nat /\ Len(cols) \in Nat
      /\ DOMAIN items = 1..k /\ DOMAIN with = 1..Len(with)
  OBVIOUS
<1>2. k \in 0..Len(with) /\ k + Len(cols) <= Len(with)
  BY <1>1
<1>3. ASSUME NEW n \in DOMAIN with
      PROVE  IF n \in (k + 1)..(k + Len(cols))
               THEN with[n].of = domain /\ with[n].column = cols[n - k]
               ELSE with[n].of # domain
  <2>1. CASE n \in 1..k
    <3>1. n \notin (k + 1)..(k + Len(cols)) /\ with[n] = items[n] /\ n \in DOMAIN items
      BY <1>1, <2>1
    <3> QED BY <3>1 DEF Without
  <2>2. CASE n \notin 1..k
    <3>1. n \in (k + 1)..(k + Len(cols)) /\ n - k \in 1..Len(cols) /\ k + (n - k) = n
      BY <1>1, <2>2
    <3> QED BY <3>1
  <2> QED BY <2>1, <2>2
<1> QED BY <1>2, <1>3 DEF Shows

DomainsDiffer(outs) == \A i, j \in DOMAIN outs : i # j => outs[i].domain # outs[j].domain
KeyColumns(key) == IF key = "none" THEN << >> ELSE <<key>>

\* The key comes first, and the columns of a CTE after those of the CTEs before it.
InOrder(items, outs, n) ==
  /\ \A k \in DOMAIN items : items[k].of = "any" => k = 1
  /\ \A k, l \in DOMAIN items : \A i, j \in 1..n :
       k < l /\ items[k].of = outs[i].domain /\ items[l].of = outs[j].domain => i <= j

\* The items when the first n CTEs are in.
ItemsGood(items, outs, key, n) ==
  /\ Distinct(items)
  /\ InOrder(items, outs, n)
  /\ \A k \in DOMAIN items :
       items[k].of = "any" \/ \E i \in 1..n : i \in NonEmpty(outs) /\ items[k].of = outs[i].domain
  /\ \A i \in 1..n : Shows(items, outs[i].domain, OutputColumns(outs[i]))
  /\ Shows(items, "any", KeyColumns(key))

\* The key alone is what the items should be before the first CTE, ...
LEMMA KeyItemsGood ==
  ASSUME NEW outs \in Seq(Output), NEW key \in Key
  PROVE  ItemsGood(KeyItems(key), outs, key, 0)
<1> DEFINE items == KeyItems(key)
<1>1. CASE key = "none"
  <2>1. items = << >> /\ KeyColumns(key) = << >>
    BY <1>1 DEF KeyItems, KeyColumns
  <2>2. Len(<< >>) = 0 /\ DOMAIN << >> = {}
    OBVIOUS
  <2>3. Shows(items, "any", KeyColumns(key))
    BY <2>1, <2>2 DEF Shows
  <2> QED BY <2>1, <2>2, <2>3 DEF ItemsGood, Distinct, InOrder
<1>2. CASE key # "none"
  <2> DEFINE item == Item("any", key, key)
  <2>1. items = <<item>> /\ KeyColumns(key) = <<key>> /\ item.of = "any" /\ item.column = key /\ item.name = key
    BY <1>2 DEF KeyItems, KeyColumns, Item
  <2> HIDE DEF item, items
  <2>2. Len(items) = 1 /\ DOMAIN items = {1} /\ items[1] = item
    BY <2>1
  <2>3. Len(KeyColumns(key)) = 1 /\ KeyColumns(key)[1] = key
    BY <2>1
  <2>4. Shows(items, "any", KeyColumns(key))
    <3>1. 0 \in 0..1 /\ 0 + 1 <= 1 /\ 1 \in (0 + 1)..(0 + 1) /\ 1 - 0 = 1
      OBVIOUS
    <3> QED BY <2>1, <2>2, <2>3, <3>1 DEF Shows
  <2>5. Distinct(items)
    BY <2>1, <2>2 DEF Distinct, NamedAs
  <2>6. ItemsGood(items, outs, key, 0)
    BY <2>1, <2>2, <2>4, <2>5 DEF ItemsGood, InOrder
  <2> QED BY <2>6 DEF items
<1> QED BY <1>1, <1>2

\* ... a CTE of another domain keeps them so, ...
LEMMA ItemsStepGood ==
  ASSUME NEW outs \in Seq(Output), DomainsDiffer(outs), NEW key \in Key,
         NEW n \in Nat, n + 1 \in DOMAIN outs,
         NEW items \in Seq(Column), ItemsGood(items, outs, key, n)
  PROVE  ItemsGood(WithColumns(items, outs[n + 1]), outs, key, n + 1)
<1> DEFINE o == outs[n + 1]
           cols == OutputColumns(o)
           with == WithColumns(items, o)
           L == Len(items)
<1>0. Len(outs) \in Nat /\ DOMAIN outs = 1..Len(outs) /\ \A i \in DOMAIN outs : outs[i] \in Output
  OBVIOUS
<1>1. o \in Output /\ o.domain \in Domains
  <2>1. o \in Output
    BY <1>0
  <2> HIDE DEF o
  <2> QED BY <2>1 DEF Output
<1>2. cols \in Seq(Columns) /\ Len(cols) \in Nat /\ L \in Nat /\ DOMAIN items = 1..L
  BY <1>1, ColumnsType
<1>3. \A i \in 1..n : i \in DOMAIN outs /\ i # n + 1 /\ outs[i] \in Output
  BY <1>0
<1>4. Without(items, o.domain)
  <2>1. o.domain # "any"
    BY <1>1, ComposerAssumption
  <2>2. \A i \in 1..n : outs[i].domain # o.domain
    BY <1>3 DEF DomainsDiffer
  <2> HIDE DEF o
  <2> QED BY <2>1, <2>2 DEF ItemsGood, Without
<1>5. Distinct(items)
  BY DEF ItemsGood
<1> HIDE DEF o
<1>6. /\ with \in Seq(Column) /\ Len(with) = L + Len(cols) /\ Distinct(with)
      /\ \A i \in 1..L : with[i] = items[i]
      /\ \A m \in 1..Len(cols) : with[L + m].of = o.domain /\ with[L + m].column = cols[m]
  BY <1>1, <1>4, <1>5, ColumnsAdded
<1> HIDE DEF with, cols
<1>7. DOMAIN with = 1..(L + Len(cols)) /\ Len(with) \in Nat /\ L <= Len(with)
  BY <1>2, <1>6
<1>8. \A i \in (L + 1)..Len(with) : with[i].of = o.domain /\ i - L \in 1..Len(cols)
  <2> SUFFICES ASSUME NEW i \in (L + 1)..Len(with)
               PROVE  with[i].of = o.domain /\ i - L \in 1..Len(cols)
    OBVIOUS
  <2>1. i - L \in 1..Len(cols) /\ L + (i - L) = i
    BY <1>2, <1>6
  <2> QED BY <1>6, <2>1
<1>9. \A k \in DOMAIN with :
        with[k].of = "any" \/ \E i \in 1..(n + 1) : i \in NonEmpty(outs) /\ with[k].of = outs[i].domain
  <2> SUFFICES ASSUME NEW k \in DOMAIN with, with[k].of # "any"
               PROVE  \E i \in 1..(n + 1) : i \in NonEmpty(outs) /\ with[k].of = outs[i].domain
    OBVIOUS
  <2>1. CASE k \in 1..L
    <3>1. with[k] = items[k] /\ k \in DOMAIN items
      BY <1>2, <1>6, <2>1
    <3>2. PICK i \in 1..n : i \in NonEmpty(outs) /\ items[k].of = outs[i].domain
      BY <3>1 DEF ItemsGood
    <3> QED BY <3>1, <3>2
  <2>2. CASE k \notin 1..L
    <3>1. k \in (L + 1)..Len(with)
      BY <1>2, <1>6, <1>7, <2>2
    <3>2. with[k].of = o.domain /\ Len(cols) # 0
      BY <1>2, <1>8, <3>1
    <3>3. o.fragment.sql = "select"
      <4>1. cols # << >>
        BY <3>2
      <4> QED BY <4>1 DEF cols, OutputColumns
    <3>4. n + 1 \in NonEmpty(outs)
      BY <3>3 DEF NonEmpty, o
    <3> QED BY <3>2, <3>4 DEF o
  <2> QED BY <2>1, <2>2
<1>10. ASSUME NEW i \in 1..(n + 1) PROVE Shows(with, outs[i].domain, OutputColumns(outs[i]))
  <2>1. CASE i = n + 1
    <3>1. Shows(with, o.domain, cols)
      BY <1>2, <1>4, <1>6, ShowsNew
    <3> QED BY <2>1, <3>1 DEF o, cols
  <2>2. CASE i # n + 1
    <3> DEFINE d == outs[i].domain
               c == OutputColumns(outs[i])
    <3>1. i \in 1..n
      BY <2>2
    <3>2. c \in Seq(Columns) /\ o.domain # d
      BY <1>3, <3>1, ColumnsType DEF DomainsDiffer, o
    <3>3. Shows(items, d, c)
      BY <3>1 DEF ItemsGood
    <3> HIDE DEF d, c
    <3>4. \A j \in (L + 1)..Len(with) : with[j].of # d
      BY <1>8, <3>2
    <3>5. Shows(with, d, c)
      BY <1>6, <1>7, <3>2, <3>3, <3>4, ShowsKept
    <3> QED BY <3>5 DEF d, c
  <2> QED BY <2>1, <2>2
<1>11. Shows(with, "any", KeyColumns(key))
  <2> DEFINE c == KeyColumns(key)
             d == "any"
  <2>1. c \in Seq(Columns)
    BY DEF KeyColumns, Key
  <2>2. Shows(items, d, c) /\ o.domain # d
    BY <1>1, ComposerAssumption DEF ItemsGood
  <2> HIDE DEF c, d
  <2>3. \A j \in (L + 1)..Len(with) : with[j].of # d
    BY <1>8, <2>2
  <2>4. Shows(with, d, c)
    BY <1>6, <1>7, <2>1, <2>2, <2>3, ShowsKept
  <2> QED BY <2>4 DEF c, d
<1>12. InOrder(with, outs, n + 1)
  <2>1. ASSUME NEW k \in DOMAIN with, with[k].of = "any" PROVE k = 1
    <3>1. o.domain # "any"
      BY <1>1, ComposerAssumption
    <3>2. k \in 1..L
      BY <1>2, <1>7, <1>8, <2>1, <3>1
    <3>3. with[k] = items[k] /\ k \in DOMAIN items
      BY <1>2, <1>6, <3>2
    <3> QED BY <2>1, <3>3 DEF ItemsGood, InOrder
  <2>2. ASSUME NEW k \in DOMAIN with, NEW l \in DOMAIN with, NEW i \in 1..(n + 1), NEW j \in 1..(n + 1),
               k < l, with[k].of = outs[i].domain, with[l].of = outs[j].domain
        PROVE  i <= j
    <3>1. \A x \in 1..(n + 1) : x \in 1..n \/ x = n + 1
      OBVIOUS
    <3>2. \A x \in 1..(n + 1) : outs[x].domain = o.domain => x = n + 1
      BY <1>3, <3>1 DEF DomainsDiffer, o
    <3>3. CASE l \in 1..L
      <4>1. /\ k \in DOMAIN items /\ l \in DOMAIN items
            /\ with[k] = items[k] /\ with[l] = items[l]
        BY <1>2, <1>6, <1>7, <2>2, <3>3
      <4>2. i # n + 1 /\ j # n + 1
        BY <1>4, <2>2, <4>1 DEF Without, o
      <4>3. i \in 1..n /\ j \in 1..n
        BY <3>1, <4>2
      <4> QED BY <2>2, <4>1, <4>3 DEF ItemsGood, InOrder
    <3>4. CASE l \notin 1..L
      <4>1. l \in (L + 1)..Len(with)
        BY <1>2, <1>6, <1>7, <3>4
      <4>2. j = n + 1
        BY <1>8, <2>2, <3>2, <4>1
      <4> QED BY <4>2
    <3> QED BY <3>3, <3>4
  <2> QED BY <2>1, <2>2 DEF InOrder
<1>13. ItemsGood(with, outs, key, n + 1)
  BY <1>6, <1>9, <1>10, <1>11, <1>12 DEF ItemsGood
<1> QED BY <1>13 DEF with, o

\* ... and so do all of them.
LEMMA ItemsAreGood ==
  ASSUME NEW outs \in Seq(Output), DomainsDiffer(outs), NEW key \in Key
  PROVE  ItemsGood(Items(outs, key), outs, key, Len(outs)) /\ Items(outs, key) \in Seq(Column)
<1> DEFINE N == Len(outs)
<1>1. N \in Nat /\ DOMAIN outs = 1..N
  OBVIOUS
<1>2. PICK rows \in [0..N -> Seq(Column)] :
        /\ Items(outs, key) = rows[N] /\ rows[0] = KeyItems(key)
        /\ \A n \in 1..N : rows[n] = WithColumns(rows[n - 1], outs[n])
  BY ItemsIs
<1> DEFINE S == {n \in 0..N : ItemsGood(rows[n], outs, key, n)}
<1>3. 0 \in S
  BY <1>1, <1>2, KeyItemsGood
<1>4. ASSUME NEW n \in 0..N, n \in S, n < N PROVE n + 1 \in S
  <2>1. n \in Nat /\ n + 1 \in 1..N /\ n + 1 \in 0..N /\ (n + 1) - 1 = n /\ n + 1 \in DOMAIN outs
    BY <1>1, <1>4
  <2>2. rows[n] \in Seq(Column) /\ ItemsGood(rows[n], outs, key, n)
    BY <1>2, <1>4
  <2>3. rows[n + 1] = WithColumns(rows[n], outs[n + 1])
    BY <1>2, <2>1
  <2>4. ItemsGood(WithColumns(rows[n], outs[n + 1]), outs, key, n + 1)
    BY <2>1, <2>2, ItemsStepGood
  <2> QED BY <2>1, <2>3, <2>4
<1> HIDE DEF S
<1>5. 0..N \subseteq S
  BY <1>1, <1>3, <1>4, BoundedInduction
<1>6. N \in 0..N
  BY <1>1
<1> QED BY <1>2, <1>5, <1>6 DEF S

\* The shared key is one that all parts have in common, the first in the order.
LEMMA SharedKeyCommon ==
  ASSUME NEW outs
  PROVE  SharedKey(outs) \in Key /\ (SharedKey(outs) # "none" => SharedKey(outs) \in CommonKeys(outs))
<1> DEFINE common == CommonKeys(outs)
<1>1. common \subseteq Columns
  BY DEF CommonKeys
<1>2. CASE common = {}
  BY <1>2 DEF SharedKey, Key
<1>3. CASE common # {}
  <2> DEFINE T == {i \in 1..Len(KeyOrder) : KeyOrder[i] \in common}
             at == CHOOSE x \in T : \A y \in T : x <= y
  <2>1. KeyOrder \in Seq(Columns) /\ \A c \in Columns : \E i \in 1..Len(KeyOrder) : KeyOrder[i] = c
    BY ComposerAssumption DEF ToSet
  <2>2. T # {}
    BY <1>1, <1>3, <2>1
  <2>3. T \in SUBSET Nat
    BY <2>1
  <2>4. SharedKey(outs) = KeyOrder[at]
    BY Zenon, <1>3, <2>2 DEF SharedKey, SelectInSeq, Min
  <2>5. at \in T
    <3> HIDE DEF T
    <3>1. \E n \in T : \A m \in T : n <= m
      BY <2>2, <2>3, HasLeast
    <3> QED BY <3>1
  <2>6. KeyOrder[at] \in common
    BY <2>5
  <2> HIDE DEF at, T
  <2> QED BY <1>1, <2>4, <2>6 DEF Key
<1> QED BY <1>2, <1>3

\* The joined key is shared, and no part with known columns lacks it.
LEMMA JoinKeyCommon ==
  ASSUME NEW outs
  PROVE  /\ JoinKey(outs) \in Key
         /\ JoinKey(outs) # "none" =>
              /\ JoinKey(outs) \in CommonKeys(outs)
              /\ \A i \in NonEmpty(outs) :
                   OutputColumns(outs[i]) # << >> => JoinKey(outs) \in ToSet(OutputColumns(outs[i]))
<1> DEFINE key == SharedKey(outs)
           Had == \A i \in NonEmpty(outs) :
                    OutputColumns(outs[i]) # << >> => key \in ToSet(OutputColumns(outs[i]))
<1>1. key \in Key /\ (key # "none" => key \in CommonKeys(outs))
  BY SharedKeyCommon
<1>2. JoinKey(outs) = IF Had THEN key ELSE "none"
  BY DEF JoinKey
<1>3. "none" \in Key
  BY DEF Key
<1> HIDE DEF key
<1>4. CASE Had
  <2>1. JoinKey(outs) = key
    BY <1>2, <1>4
  <2> QED BY <1>1, <1>4, <2>1
<1>5. CASE ~Had
  <2>1. JoinKey(outs) = "none"
    BY <1>2, <1>5
  <2> QED BY <1>3, <2>1
<1> QED BY <1>4, <1>5

\* The three things compose may return.
LEMMA CompositionIs ==
  ASSUME NEW outs
  PROVE  LET r == Composition(outs) IN
         \/ /\ r = NoComposition \/ r = Statement("passthrough", "none", << >>)
         \/ r = Statement(IF JoinKey(outs) = "none" THEN "cross_join" ELSE "inner_join",
                          JoinKey(outs), Items(outs, JoinKey(outs)))
BY DEF Composition, ComposeMulti

\* Two sequences of outputs, each without repetition, of the same outputs.
SameOutputs(outs, other) ==
  /\ outs \in Seq(Output) /\ other \in Seq(Output)
  /\ \A i, j \in DOMAIN outs : i # j => outs[i] # outs[j]
  /\ \A i, j \in DOMAIN other : i # j => other[i] # other[j]
  /\ \A i \in DOMAIN outs : \E j \in DOMAIN other : other[j] = outs[i]
  /\ \A j \in DOMAIN other : \E i \in DOMAIN outs : outs[i] = other[j]

\* The shared key depends on the keys in common only.
FirstOf(common) ==
  LET T == {i \in 1..Len(KeyOrder) : KeyOrder[i] \in common}
  IN  IF common = {} THEN "none" ELSE KeyOrder[CHOOSE x \in T : \A y \in T : x <= y]

\* The shared key is a function of the common keys.
LEMMA SharedKeyIs ==
  ASSUME NEW outs
  PROVE  SharedKey(outs) = FirstOf(CommonKeys(outs))
<1> DEFINE common == CommonKeys(outs)
           T == {i \in 1..Len(KeyOrder) : KeyOrder[i] \in common}
<1>1. CASE common = {}
  BY <1>1 DEF SharedKey, FirstOf
<1>2. CASE common # {}
  <2>1. KeyOrder \in Seq(Columns) /\ \A c \in Columns : \E i \in 1..Len(KeyOrder) : KeyOrder[i] = c
    BY ComposerAssumption DEF ToSet
  <2>2. T # {}
    BY <1>2, <2>1 DEF CommonKeys
  <2>3. SharedKey(outs) = KeyOrder[CHOOSE x \in T : \A y \in T : x <= y]
    BY Zenon, <1>2, <2>2 DEF SharedKey, SelectInSeq, Min
  <2>4. FirstOf(common) = KeyOrder[CHOOSE x \in T : \A y \in T : x <= y]
    BY Zenon, <1>2 DEF FirstOf
  <2> QED BY <2>3, <2>4
<1> QED BY <1>1, <1>2

\* The parts are as many as the outputs with a statement.
LEMMA PartsCounted ==
  ASSUME NEW outs \in Seq(Output), \A i, j \in DOMAIN outs : i # j => outs[i] # outs[j]
  PROVE  Cardinality(NonEmpty(outs)) =
           Cardinality({o \in {outs[i] : i \in DOMAIN outs} : o.fragment.sql # "none"})
<1> DEFINE S == NonEmpty(outs)
           T == {o \in {outs[i] : i \in DOMAIN outs} : o.fragment.sql # "none"}
           f == [i \in S |-> outs[i]]
<1>1. DOMAIN outs = 1..Len(outs) /\ Len(outs) \in Nat
  OBVIOUS
<1>2. IsFiniteSet(S)
  <2>1. IsFiniteSet(1..Len(outs))
    BY <1>1, FS_Interval
  <2>2. S \in SUBSET (1..Len(outs))
    BY <1>1 DEF NonEmpty
  <2> QED BY <2>1, <2>2, FS_Subset
<1>3. f \in [S -> T] /\ \A i, j \in S : f[i] = f[j] => i = j
  BY DEF NonEmpty
<1>4. \A o \in T : \E i \in S : f[i] = o
  BY DEF NonEmpty
<1> HIDE DEF f, S, T
<1>5. f \in Bijection(S, T)
  BY <1>3, <1>4 DEF Bijection, Injection, Surjection, IsInjective
<1>6. ExistsBijection(S, T)
  BY <1>5 DEF ExistsBijection
<1> QED BY <1>2, <1>6, FS_Bijection DEF S, T

\* Outputs in another order compose to the same strategy and key.
LEMMA SameComposition ==
  ASSUME NEW outs, NEW other, SameOutputs(outs, other)
  PROVE  /\ Composition(outs).strategy = Composition(other).strategy
         /\ Composition(outs).key = Composition(other).key
<1>0. /\ outs \in Seq(Output) /\ other \in Seq(Output)
      /\ \A i, j \in DOMAIN outs : i # j => outs[i] # outs[j]
      /\ \A i, j \in DOMAIN other : i # j => other[i] # other[j]
      /\ \A i \in DOMAIN outs : \E j \in DOMAIN other : other[j] = outs[i]
      /\ \A j \in DOMAIN other : \E i \in DOMAIN outs : outs[i] = other[j]
  BY DEF SameOutputs
<1>1. CommonKeys(outs) = CommonKeys(other)
  BY <1>0 DEF CommonKeys, NonEmpty
<1>2. SharedKey(outs) = SharedKey(other)
  BY <1>1, SharedKeyIs
<1>3. JoinKey(outs) = JoinKey(other)
  <2> DEFINE key == SharedKey(outs)
  <2>1. (\A i \in NonEmpty(outs) :
           OutputColumns(outs[i]) # << >> => key \in ToSet(OutputColumns(outs[i])))
        <=> (\A i \in NonEmpty(other) :
               OutputColumns(other[i]) # << >> => key \in ToSet(OutputColumns(other[i])))
    BY <1>0 DEF NonEmpty
  <2>2. key = SharedKey(other)
    BY <1>2
  <2> HIDE DEF key
  <2> QED BY <2>1, <2>2 DEF JoinKey, key
<1>4. Cardinality(NonEmpty(outs)) = Cardinality(NonEmpty(other))
  <2>1. {outs[i] : i \in DOMAIN outs} = {other[i] : i \in DOMAIN other}
    BY <1>0
  <2> QED BY <1>0, <2>1, PartsCounted
<1>5. (\E i \in DOMAIN outs : outs[i].fragment.sql = "broken")
      <=> (\E i \in DOMAIN other : other[i].fragment.sql = "broken")
  BY <1>0
<1> DEFINE n == Cardinality(NonEmpty(outs))
           key == JoinKey(outs)
           items == Items(outs, key)
           items2 == Items(other, key)
           Broken == \E i \in DOMAIN outs : outs[i].fragment.sql = "broken"
           strategy == IF key = "none" THEN "cross_join" ELSE "inner_join"
<1>6. CASE n = 0
  BY <1>4, <1>6 DEF Composition
<1>7. CASE n = 1
  BY <1>4, <1>7 DEF Composition
<1>8. CASE n # 0 /\ n # 1
  <2>1. Composition(outs) = ComposeMulti(outs) /\ Composition(other) = ComposeMulti(other)
    BY <1>4, <1>8 DEF Composition
  <2>2. ComposeMulti(outs) = IF Broken THEN NoComposition ELSE Statement(strategy, key, items)
    BY Zenon DEF ComposeMulti
  <2>3. ComposeMulti(other) = IF Broken THEN NoComposition ELSE Statement(strategy, key, items2)
    BY <1>3, <1>5 DEF ComposeMulti
  <2> HIDE DEF Broken, strategy, key, items, items2
  <2> QED BY <2>1, <2>2, <2>3 DEF Statement, NoComposition
<1> QED BY <1>6, <1>7, <1>8

\* What holds of the state in every run: an agent answers for its own domain, and
\* the statement is what compose makes of the outputs.
ComposerInv ==
  /\ outputs \in Seq(Output)
  /\ DomainsDiffer(outputs)
  /\ result = IF composed THEN Composition(outputs) ELSE NoComposition

\* Before the first agent answers there is nothing to compose.
LEMMA InitComposer == ComposerInit => ComposerInv
<1> SUFFICES ASSUME ComposerInit PROVE ComposerInv
  OBVIOUS
<1>1. outputs = << >> /\ << >> \in Seq(Output) /\ DOMAIN << >> = {}
  BY DEF ComposerInit
<1> QED BY <1>1 DEF ComposerInit, ComposerInv, DomainsDiffer

\* A domain that has not answered adds its output, and compose is called once.
LEMMA NextComposer == ComposerInv /\ [ComposerNext]_composerVars => ComposerInv'
<1> SUFFICES ASSUME ComposerInv, [ComposerNext]_composerVars PROVE ComposerInv'
  OBVIOUS
<1> USE DEF ComposerInv
<1>1. CASE UNCHANGED composerVars
  BY <1>1 DEF composerVars
<1>2. ASSUME NEW d \in Domains, AgentReturns(d) PROVE ComposerInv'
  <2>1. PICK fragment \in Fragments : outputs' = Append(outputs, [domain |-> d, fragment |-> fragment])
    BY <1>2 DEF AgentReturns
  <2> DEFINE new == [domain |-> d, fragment |-> fragment]
             L == Len(outputs)
  <2>2. new \in Output /\ new.domain = d
    BY DEF Output
  <2> HIDE DEF new
  <2>3. outputs \in Seq(Output) /\ L \in Nat /\ DOMAIN outputs = 1..L
    OBVIOUS
  <2>4. outputs' \in Seq(Output)
    BY <2>1, <2>2, <2>3 DEF new
  <2>5. /\ DOMAIN outputs' = 1..(L + 1) /\ outputs'[L + 1] = new
        /\ \A i \in 1..L : outputs'[i] = outputs[i]
    BY <2>1, <2>2, <2>3 DEF new
  <2>6. \A i \in 1..L : outputs[i].domain # d
    BY <1>2, <2>3 DEF AgentReturns, Answered
  <2>7. DomainsDiffer(outputs')
    <3> SUFFICES ASSUME NEW i \in 1..(L + 1), NEW j \in 1..(L + 1), i # j
                 PROVE  outputs'[i].domain # outputs'[j].domain
      BY <2>5 DEF DomainsDiffer
    <3>1. \A k \in 1..(L + 1) : k \in 1..L \/ k = L + 1
      BY <2>3
    <3>2. CASE i \in 1..L /\ j \in 1..L
      BY <2>3, <2>5, <3>2 DEF DomainsDiffer
    <3>3. CASE i \in 1..L /\ j = L + 1
      BY <2>2, <2>5, <2>6, <3>3
    <3>4. CASE j \in 1..L /\ i = L + 1
      BY <2>2, <2>5, <2>6, <3>4
    <3> QED BY <3>1, <3>2, <3>3, <3>4
  <2>8. result' = NoComposition /\ ~composed'
    BY <1>2 DEF AgentReturns
  <2> QED BY <2>4, <2>7, <2>8 DEF DomainsDiffer
<1>3. CASE Compose
  <2>1. outputs' = outputs /\ composed' /\ result' = Composition(outputs)
    BY <1>3 DEF Compose
  <2>2. outputs' \in Seq(Output) /\ DomainsDiffer(outputs')
    BY <2>1
  <2>3. Composition(outputs') = Composition(outputs)
    BY <2>1
  <2> QED BY <2>1, <2>2, <2>3 DEF DomainsDiffer
<1> QED BY <1>1, <1>2, <1>3 DEF ComposerNext

\* The invariant holds of every run.
LEMMA ComposerInvariant == ComposerSpec => []ComposerInv
BY InitComposer, NextComposer, PTL DEF ComposerSpec

\* What the result is, then.
LEMMA ResultIs ==
  ASSUME ComposerInv
  PROVE  \/ result = NoComposition \/ result = Statement("passthrough", "none", << >>)
         \/ result = Statement(IF JoinKey(outputs) = "none" THEN "cross_join" ELSE "inner_join",
                               JoinKey(outputs), Items(outputs, JoinKey(outputs)))
BY CompositionIs DEF ComposerInv

\* The items of a composed result are what they should be.
LEMMA ItemsHold ==
  ASSUME ComposerInv
  PROVE  LET key == JoinKey(outputs) IN
         ItemsGood(Items(outputs, key), outputs, key, Len(outputs)) /\ key \in Key
BY JoinKeyCommon, ItemsAreGood DEF ComposerInv

\* The joined key is a foreign key of a table that every part uses, and no SELECT of
\* which a column is known lacks it (composer.py:117-126, 157-172), for every set of
\* foreign keys, of fragments and every order of the known columns.
THEOREM JoinsOnASharedKey == ComposerSpec => []JoinGrounded
<1>1. ComposerInv => JoinGrounded
  <2> SUFFICES ASSUME ComposerInv, result.key # "none", NEW i \in Parts
               PROVE  LET fragment == outputs[i].fragment IN
                      /\ \E t \in fragment.used : result.key \in Outgoing(t)
                      /\ fragment.sql = "select" =>
                           fragment.listed = << >> \/ result.key \in ToSet(fragment.listed)
    BY DEF JoinGrounded
  <2> DEFINE key == JoinKey(outputs)
  <2>1. result.key = key
    BY ResultIs DEF Statement, NoComposition
  <2>2. /\ key \in CommonKeys(outputs)
        /\ \A j \in NonEmpty(outputs) :
             OutputColumns(outputs[j]) # << >> => key \in ToSet(OutputColumns(outputs[j]))
    BY <2>1, JoinKeyCommon
  <2> HIDE DEF key
  <2>3. i \in NonEmpty(outputs)
    BY DEF Parts
  <2>4. key \in CandidateKeys(outputs[i])
    BY <2>2, <2>3 DEF CommonKeys
  <2>5. \E t \in outputs[i].fragment.used : key \in Outgoing(t)
    BY <2>4 DEF CandidateKeys
  <2>6. outputs[i].fragment.sql = "select" =>
          outputs[i].fragment.listed = << >> \/ key \in ToSet(outputs[i].fragment.listed)
    BY <2>2, <2>3 DEF OutputColumns
  <2> QED BY <2>1, <2>5, <2>6
<1> QED BY <1>1, ComposerInvariant, PTL

\* The place of a column that is shown, and what is shown there and elsewhere.
LEMMA ShownAt ==
  ASSUME NEW items \in Seq(Column), NEW domain, NEW cols \in Seq(Columns),
         Shows(items, domain, cols)
  PROVE  /\ \A c \in ToSet(cols) :
              \E n \in DOMAIN items : items[n].of = domain /\ items[n].column = c
         /\ \A n \in DOMAIN items : items[n].of = domain => items[n].column \in ToSet(cols)
<1>1. PICK k \in 0..Len(items) :
        /\ k + Len(cols) <= Len(items)
        /\ \A n \in DOMAIN items :
             IF n \in (k + 1)..(k + Len(cols))
               THEN items[n].of = domain /\ items[n].column = cols[n - k]
               ELSE items[n].of # domain
  BY DEF Shows
<1>2. /\ Len(items) \in Nat /\ Len(cols) \in Nat /\ DOMAIN items = 1..Len(items)
      /\ DOMAIN cols = 1..Len(cols) /\ ToSet(cols) = {cols[i] : i \in DOMAIN cols}
  BY DEF ToSet
<1>3. ASSUME NEW c \in ToSet(cols)
      PROVE  \E n \in DOMAIN items : items[n].of = domain /\ items[n].column = c
  <2>1. PICK i \in 1..Len(cols) : cols[i] = c
    BY <1>2
  <2>2. k + i \in DOMAIN items /\ k + i \in (k + 1)..(k + Len(cols)) /\ (k + i) - k = i
    BY <1>1, <1>2
  <2>3. items[k + i].of = domain /\ items[k + i].column = cols[(k + i) - k]
    BY <1>1, <2>2
  <2> QED BY <2>1, <2>2, <2>3
<1>4. ASSUME NEW n \in DOMAIN items, items[n].of = domain PROVE items[n].column \in ToSet(cols)
  <2>1. n \in (k + 1)..(k + Len(cols)) /\ items[n].column = cols[n - k]
    BY <1>1, <1>4
  <2>2. n - k \in DOMAIN cols
    BY <1>1, <1>2, <2>1
  <2> QED BY <1>2, <2>1, <2>2
<1> QED BY <1>3, <1>4

\* Which items have the same name, of items that are each once and named as they are.
LEMMA SameNames ==
  ASSUME NEW items \in Seq(Column), Distinct(items),
         \A k \in DOMAIN items : items[k].of = "any" => k = 1
  PROVE  (\E m, n \in DOMAIN items : m # n /\ items[m].name = items[n].name)
         <=> \E n \in DOMAIN items :
               /\ \E k \in 1..(n - 1) : items[k].column = items[n].column
               /\ \E m \in DOMAIN items : items[m].column = Prefixed[<<items[n].of, items[n].column>>]
<1> DEFINE Again(n) == \E k \in 1..(n - 1) : items[k].column = items[n].column
           New(n) == Prefixed[<<items[n].of, items[n].column>>]
<1>1. Len(items) \in Nat /\ DOMAIN items = 1..Len(items) /\ \A n \in DOMAIN items : items[n] \in Column
  OBVIOUS
<1>2. \A n \in DOMAIN items :
        items[n].name = IF Again(n) THEN New(n) ELSE items[n].column
  BY DEF Distinct, NamedAs
<1>3. \A n \in DOMAIN items : Again(n) => <<items[n].of, items[n].column>> \in Domains \X Columns
  <2> SUFFICES ASSUME NEW n \in DOMAIN items, Again(n)
               PROVE  <<items[n].of, items[n].column>> \in Domains \X Columns
    OBVIOUS
  <2>1. n # 1
    BY <1>1
  <2> QED BY <1>1, <2>1 DEF Column
<1>4. \A m, n \in DOMAIN items : Again(m) /\ Again(n) /\ New(m) = New(n) => m = n
  <2> SUFFICES ASSUME NEW m \in DOMAIN items, NEW n \in DOMAIN items, Again(m), Again(n), New(m) = New(n)
               PROVE  m = n
    OBVIOUS
  <2> DEFINE p == <<items[m].of, items[m].column>>
             r == <<items[n].of, items[n].column>>
  <2>1. p \in DOMAIN Prefixed /\ r \in DOMAIN Prefixed /\ Prefixed[p] = Prefixed[r]
    BY <1>3, ComposerAssumption
  <2>2. p = r
    <3> HIDE DEF p, r
    <3> QED BY <2>1, ComposerAssumption DEF IsInjective
  <2>3. items[m].of = items[n].of /\ items[m].column = items[n].column
    BY <2>2
  <2> QED BY <2>3 DEF Distinct
<1>5. \A m, n \in DOMAIN items : ~Again(m) /\ ~Again(n) /\ items[m].column = items[n].column => m = n
  <2> SUFFICES ASSUME NEW m \in DOMAIN items, NEW n \in DOMAIN items, ~Again(m), ~Again(n),
                      items[m].column = items[n].column, m # n
               PROVE  FALSE
    OBVIOUS
  <2>1. m \in 1..(n - 1) \/ n \in 1..(m - 1)
    BY <1>1
  <2> QED BY <2>1
<1>6. ASSUME NEW m \in DOMAIN items, NEW n \in DOMAIN items, m # n, items[m].name = items[n].name
      PROVE  \E x \in DOMAIN items : Again(x) /\ \E y \in DOMAIN items : items[y].column = New(x)
  <2> HIDE DEF Again, New
  <2>1. ~(Again(m) /\ Again(n)) /\ ~(~Again(m) /\ ~Again(n))
    BY <1>2, <1>4, <1>5, <1>6
  <2> QED BY <1>2, <1>6, <2>1
<1>7. ASSUME NEW n \in DOMAIN items, Again(n), NEW y \in DOMAIN items, items[y].column = New(n)
      PROVE  \E a, b \in DOMAIN items : a # b /\ items[a].name = items[b].name
  <2> DEFINE S == {k \in DOMAIN items : items[k].column = New(n)}
  <2>1. PICK x \in S : \A k \in S : x <= k
    <3>1. S # {} /\ S \in SUBSET Nat
      BY <1>1, <1>7
    <3> HIDE DEF S
    <3> QED BY <3>1, HasLeast
  <2>2. ~Again(x)
    <3> SUFFICES ASSUME NEW k \in 1..(x - 1), items[k].column = items[x].column PROVE FALSE
      OBVIOUS
    <3>1. x \in DOMAIN items /\ items[x].column = New(n)
      BY <2>1
    <3>2. k \in DOMAIN items /\ k < x /\ items[k].column = New(n)
      BY <1>1, <3>1
    <3>3. x <= k
      BY <2>1, <3>2
    <3> QED BY <1>1, <3>1, <3>2, <3>3
  <2>3. x \in DOMAIN items /\ items[x].name = New(n)
    <3> HIDE DEF Again, New
    <3> QED BY <1>2, <2>1, <2>2
  <2>4. items[n].name = New(n) /\ x # n
    <3> HIDE DEF Again, New
    <3> QED BY <1>2, <1>7, <2>2
  <2> QED BY <2>3, <2>4
<1> QED BY <1>6, <1>7

\* Two columns of the result have the same name exactly when an agent returns a
\* column that is already there, and some agent one called what the first is renamed
\* to (composer.py:174-193, main.py:193), whatever the agents return and however many
\* they are.
THEOREM NamesClashTheorem == ComposerSpec => []NamesClash
<1>1. ComposerInv => NamesClash
  <2> SUFFICES ASSUME ComposerInv, Joined PROVE NamesClash
    BY DEF NamesClash
  <2> DEFINE key == JoinKey(outputs)
             items == Items(outputs, key)
             Cols(i) == OutputColumns(outputs[i])
             Clash == \E m, n \in DOMAIN items : m # n /\ items[m].name = items[n].name
             Again(n) == \E k \in 1..(n - 1) : items[k].column = items[n].column
             Told == \E i \in Parts : \E c \in ToSet(Cols(i)) :
                       /\ Mentioned(c, {j \in Parts : j < i})
                       /\ Mentioned(Prefixed[<<outputs[i].domain, c>>], Parts)
  <2>1. result.items = items /\ result.key = key
    BY ResultIs DEF Statement, NoComposition, Joined
  <2>2. ItemsGood(items, outputs, key, Len(outputs)) /\ key \in Key /\ items \in Seq(Column)
    BY ItemsHold, JoinKeyCommon, ItemsAreGood DEF ComposerInv
  <2> HIDE DEF key, items
  <2>3. /\ DOMAIN outputs = 1..Len(outputs) /\ Parts \subseteq DOMAIN outputs /\ Parts = NonEmpty(outputs)
        /\ Len(outputs) \in Nat /\ \A i \in DOMAIN outputs : outputs[i] \in Output
    BY DEF ComposerInv, Parts, NonEmpty
  <2>4. Len(items) \in Nat /\ DOMAIN items = 1..Len(items) /\ \A n \in DOMAIN items : items[n] \in Column
    BY <2>2
  <2>5. \A i \in Parts :
          /\ \A c \in ToSet(Cols(i)) :
               \E n \in DOMAIN items : items[n].of = outputs[i].domain /\ items[n].column = c
          /\ \A n \in DOMAIN items : items[n].of = outputs[i].domain => items[n].column \in ToSet(Cols(i))
    <3> SUFFICES ASSUME NEW i \in Parts
                 PROVE  /\ \A c \in ToSet(Cols(i)) :
                             \E n \in DOMAIN items : items[n].of = outputs[i].domain /\ items[n].column = c
                        /\ \A n \in DOMAIN items :
                             items[n].of = outputs[i].domain => items[n].column \in ToSet(Cols(i))
      OBVIOUS
    <3>1. Shows(items, outputs[i].domain, Cols(i)) /\ Cols(i) \in Seq(Columns)
      BY <2>2, <2>3, ColumnsType DEF ItemsGood
    <3> DEFINE C == Cols(i)
               d == outputs[i].domain
    <3> HIDE DEF C, d
    <3> QED BY <2>2, <3>1, ShownAt DEF C, d
  <2>6. /\ key # "none" => \E n \in DOMAIN items : items[n].of = "any" /\ items[n].column = key
        /\ \A n \in DOMAIN items : items[n].of = "any" => items[n].column = key /\ n = 1
    <3> DEFINE C == KeyColumns(key)
               d == "any"
    <3>1. Shows(items, d, C) /\ C \in Seq(Columns) /\ InOrder(items, outputs, Len(outputs))
      BY <2>2 DEF ItemsGood, KeyColumns, Key
    <3>2. ToSet(C) = IF key = "none" THEN {} ELSE {key}
      BY DEF ToSet, KeyColumns
    <3> HIDE DEF C, d
    <3>3. /\ \A c \in ToSet(C) : \E n \in DOMAIN items : items[n].of = d /\ items[n].column = c
          /\ \A n \in DOMAIN items : items[n].of = d => items[n].column \in ToSet(C)
      BY <2>2, <3>1, ShownAt
    <3>4. \A n \in DOMAIN items : items[n].of = d => items[n].column = key
      BY <3>2, <3>3
    <3>5. key # "none" => \E n \in DOMAIN items : items[n].of = d /\ items[n].column = key
      BY <3>2, <3>3
    <3> QED BY <3>1, <3>4, <3>5 DEF InOrder, d
  <2>7. \A n \in DOMAIN items : items[n].of = "any" \/ \E i \in Parts : items[n].of = outputs[i].domain
    BY <2>2, <2>3 DEF ItemsGood
  <2>8. \A i \in Parts : outputs[i].domain \in Domains /\ outputs[i].domain # "any"
    BY <2>3, ComposerAssumption DEF Output
  <2>9. ASSUME NEW x PROVE Mentioned(x, Parts) <=> \E m \in DOMAIN items : items[m].column = x
    <3>1. ASSUME Mentioned(x, Parts) PROVE \E m \in DOMAIN items : items[m].column = x
      <4>1. CASE x = key
        BY <2>6, <3>1, <4>1, ComposerAssumption DEF Mentioned
      <4>2. CASE \E i \in Parts : x \in ToSet(Cols(i))
        BY <2>5, <4>2
      <4> QED BY <2>1, <3>1, <4>1, <4>2 DEF Mentioned
    <3>2. ASSUME NEW m \in DOMAIN items, items[m].column = x PROVE Mentioned(x, Parts)
      <4>1. x \in Columns
        BY <2>4, <3>2 DEF Column
      <4> QED BY <2>1, <2>5, <2>6, <2>7, <3>2, <4>1 DEF Mentioned
    <3> QED BY <3>1, <3>2
  <2>10. ASSUME NEW i \in Parts, NEW n \in DOMAIN items, items[n].of = outputs[i].domain
         PROVE  Again(n) <=> Mentioned(items[n].column, {j \in Parts : j < i})
    <3> DEFINE c == items[n].column
    <3>1. c \in Columns /\ n \in 1..Len(items)
      BY <2>4 DEF Column
    <3>2. ASSUME Again(n) PROVE Mentioned(c, {j \in Parts : j < i})
      <4>1. PICK k \in 1..(n - 1) : items[k].column = c
        BY <3>2
      <4>2. k \in DOMAIN items /\ k < n /\ k # n
        BY <2>4, <3>1
      <4>3. CASE items[k].of = "any"
        BY <2>1, <2>6, <3>1, <4>1, <4>2, <4>3 DEF Mentioned
      <4>4. CASE items[k].of # "any"
        <5>1. PICK j \in Parts : items[k].of = outputs[j].domain
          BY <2>7, <4>2, <4>4
        <5>2. j <= i
          <6>1. InOrder(items, outputs, Len(outputs)) /\ i \in 1..Len(outputs) /\ j \in 1..Len(outputs)
            BY <2>2, <2>3 DEF ItemsGood
          <6> QED BY <2>10, <4>2, <5>1, <6>1 DEF InOrder
        <5>3. j # i
          <6>1. Distinct(items)
            BY <2>2 DEF ItemsGood
          <6> QED BY <2>10, <4>1, <4>2, <5>1, <6>1 DEF Distinct
        <5>4. j < i
          BY <2>3, <5>2, <5>3
        <5>5. c \in ToSet(Cols(j))
          BY <2>5, <4>1, <4>2, <5>1
        <5> QED BY <3>1, <5>4, <5>5 DEF Mentioned
      <4> QED BY <4>3, <4>4
    <3>3. ASSUME Mentioned(c, {j \in Parts : j < i}) PROVE Again(n)
      <4>1. ASSUME NEW k \in DOMAIN items, items[k].column = c, k < n PROVE Again(n)
        <5>1. k \in 1..(n - 1)
          BY <2>4, <3>1, <4>1
        <5> QED BY <4>1, <5>1
      <4>2. CASE c = key
        <5>1. PICK k \in DOMAIN items : items[k].of = "any" /\ items[k].column = key
          BY <2>6, <3>1, <4>2, ComposerAssumption
        <5>2. k = 1 /\ n # 1
          BY <2>6, <2>8, <2>10, <5>1
        <5>3. k < n
          BY <2>4, <3>1, <5>2
        <5> QED BY <4>1, <4>2, <5>1, <5>3
      <4>3. CASE c # key
        <5>1. PICK j \in Parts : j < i /\ c \in ToSet(Cols(j))
          BY <2>1, <3>3, <4>3 DEF Mentioned
        <5>2. PICK k \in DOMAIN items : items[k].of = outputs[j].domain /\ items[k].column = c
          BY <2>5, <5>1
        <5>3. k # n
          <6>1. outputs[j].domain # outputs[i].domain
            BY <2>3, <5>1 DEF ComposerInv, DomainsDiffer
          <6> QED BY <2>10, <5>2, <6>1
        <5>4. ~(n < k)
          <6>1. InOrder(items, outputs, Len(outputs)) /\ i \in 1..Len(outputs) /\ j \in 1..Len(outputs)
            BY <2>2, <2>3 DEF ItemsGood
          <6>2. n < k => i <= j
            BY <2>10, <5>2, <6>1 DEF InOrder
          <6> QED BY <5>1, <6>1, <6>2
        <5>5. k < n
          BY <2>4, <3>1, <5>2, <5>3, <5>4
        <5> QED BY <4>1, <5>2, <5>5
      <4> QED BY <4>2, <4>3
    <3> QED BY <3>2, <3>3
  <2>11. Clash <=> \E n \in DOMAIN items :
                     Again(n) /\ \E m \in DOMAIN items :
                                   items[m].column = Prefixed[<<items[n].of, items[n].column>>]
    <3>1. Distinct(items) /\ \A k \in DOMAIN items : items[k].of = "any" => k = 1
      BY <2>2, <2>6 DEF ItemsGood
    <3> QED BY <2>2, <3>1, SameNames
  <2>12. ASSUME Clash PROVE Told
    <3>1. PICK n \in DOMAIN items :
            /\ Again(n)
            /\ Mentioned(Prefixed[<<items[n].of, items[n].column>>], Parts)
      <4> HIDE DEF Clash, Again
      <4> QED BY <2>9, <2>11, <2>12
    <3>2. n # 1
      BY <2>4, <3>1
    <3>3. PICK i \in Parts : items[n].of = outputs[i].domain
      BY <2>6, <2>7, <3>2
    <3>4. items[n].column \in ToSet(Cols(i))
      BY <2>5, <3>3
    <3>5. Mentioned(items[n].column, {j \in Parts : j < i})
      BY <2>10, <3>1, <3>3
    <3>6. Mentioned(Prefixed[<<outputs[i].domain, items[n].column>>], Parts)
      BY <3>1, <3>3
    <3> QED BY <3>4, <3>5, <3>6
  <2>13. ASSUME Told PROVE Clash
    <3>1. PICK i \in Parts : \E c \in ToSet(Cols(i)) :
            /\ Mentioned(c, {j \in Parts : j < i})
            /\ Mentioned(Prefixed[<<outputs[i].domain, c>>], Parts)
      BY <2>13
    <3>2. PICK c \in ToSet(Cols(i)) :
            /\ Mentioned(c, {j \in Parts : j < i})
            /\ Mentioned(Prefixed[<<outputs[i].domain, c>>], Parts)
      BY <3>1
    <3>3. PICK n \in DOMAIN items : items[n].of = outputs[i].domain /\ items[n].column = c
      BY <2>5, <3>2
    <3>4. Again(n)
      BY <2>10, <3>2, <3>3
    <3>5. \E m \in DOMAIN items : items[m].column = Prefixed[<<items[n].of, items[n].column>>]
      BY <2>9, <3>2, <3>3
    <3> HIDE DEF Clash, Again
    <3> QED BY <2>11, <3>4, <3>5
  <2> QED BY <2>1, <2>12, <2>13 DEF NamesClash
<1> QED BY <1>1, ComposerInvariant, PTL

\* Every column an agent names is in the result once, under its own CTE and in the
\* agent's order, and nothing else but the key (composer.py:174-193).
THEOREM ListedAreShown == ComposerSpec => []ListedShown
<1>1. ComposerInv => ListedShown
  <2> SUFFICES ASSUME ComposerInv, Joined PROVE ListedShown
    BY DEF ListedShown
  <2> DEFINE key == JoinKey(outputs)
             items == Items(outputs, key)
  <2>1. result.items = items /\ result.key = key
    BY ResultIs DEF Statement, NoComposition, Joined
  <2>2. ItemsGood(items, outputs, key, Len(outputs))
    BY ItemsHold
  <2> HIDE DEF key, items
  <2>3. DOMAIN outputs = 1..Len(outputs) /\ Parts \subseteq DOMAIN outputs /\ Parts = NonEmpty(outputs)
    BY DEF ComposerInv, Parts, NonEmpty
  <2>4. \A i \in Parts : Shows(items, outputs[i].domain, OutputColumns(outputs[i]))
    BY <2>2, <2>3 DEF ItemsGood
  <2>5. \A n \in DOMAIN items : items[n].of \in {outputs[i].domain : i \in Parts} \cup {"any"}
    BY <2>2, <2>3 DEF ItemsGood
  <2>6. Shows(items, "any", KeyColumns(key))
    BY <2>2 DEF ItemsGood
  <2>7. Shows(items, "any", IF key = "none" THEN << >> ELSE <<key>>)
    BY Zenon, <2>6 DEF KeyColumns
  <2> QED BY <2>1, <2>4, <2>5, <2>7 DEF ListedShown
<1> QED BY <1>1, ComposerInvariant, PTL

\* The strategy and the key do not depend on the order in which the router named the
\* domains (composer.py:157-172), however many they are.
THEOREM OrderDoesNotMatter == ComposerSpec => []OrderIrrelevant
<1>1. ComposerInv => OrderIrrelevant
  <2> SUFFICES ASSUME ComposerInv, composed, NEW outs \in SetToSeqs(ToSet(outputs))
               PROVE  /\ Composition(outs).strategy = result.strategy
                      /\ Composition(outs).key = result.key
    BY DEF OrderIrrelevant
  <2> DEFINE S == ToSet(outputs)
             n == Cardinality(S)
  <2>1. /\ DOMAIN outputs = 1..Len(outputs) /\ Len(outputs) \in Nat
        /\ S = {outputs[i] : i \in DOMAIN outputs}
    BY DEF ComposerInv, ToSet
  <2>2. S \subseteq Output
    BY <2>1 DEF ComposerInv
  <2>3. outs \in [1..n -> S] /\ \A i, j \in 1..n : i # j => outs[i] # outs[j]
    BY Zenon DEF SetToSeqs
  <2>4. IsFiniteSet(S)
    <3>1. IsFiniteSet(1..Len(outputs))
      BY <2>1, FS_Interval
    <3> DEFINE f == [i \in 1..Len(outputs) |-> outputs[i]]
    <3>2. f \in Surjection(1..Len(outputs), S)
      BY <2>1 DEF Surjection
    <3> HIDE DEF f, S
    <3> QED BY <3>1, <3>2, FS_Surjection
  <2> HIDE DEF S
  <2>5. n \in Nat
    BY <2>4, FS_CardinalityType
  <2> HIDE DEF n
  <2>6. IsFiniteSet(1..n) /\ Cardinality(1..n) = n
    <3>1. 1 \in Int /\ n \in Int /\ (1 > n => n = 0) /\ n - 1 + 1 = n
      BY <2>5
    <3> QED BY <3>1, FS_Interval
  <2>7. outs \in Injection(1..n, S)
    BY <2>3 DEF Injection, IsInjective
  <2>8. outs \in Surjection(1..n, S)
    BY <2>4, <2>6, <2>7, FS_Injection DEF n
  <2>9. \A s \in S : \E i \in 1..n : outs[i] = s
    BY <2>8 DEF Surjection
  <2>10. outs \in Seq(Output) /\ DOMAIN outs = 1..n
    BY <2>2, <2>3, <2>5
  <2>11. \A i, j \in DOMAIN outputs : i # j => outputs[i] # outputs[j]
    BY DEF ComposerInv, DomainsDiffer
  <2>12. SameOutputs(outs, outputs)
    <3>1. \A i \in 1..n : \E j \in DOMAIN outputs : outputs[j] = outs[i]
      BY <2>1, <2>3
    <3>2. \A j \in DOMAIN outputs : \E i \in 1..n : outs[i] = outputs[j]
      BY <2>1, <2>9
    <3>3. outputs \in Seq(Output)
      BY DEF ComposerInv
    <3> QED BY <2>3, <2>10, <2>11, <3>1, <3>2, <3>3 DEF SameOutputs
  <2> QED BY <2>12, SameComposition DEF ComposerInv
<1> QED BY <1>1, ComposerInvariant, PTL
================================================================================
