----------------------- MODULE ConversationMemoryProofs -----------------------
(***************************************************************************)
(* Proofs about the conversation store, for every set of sessions, every   *)
(* window and every capacity.                                              *)
(***************************************************************************)
EXTENDS SessionUse, SequenceTheorems, FiniteSetTheorems, TLAPS

(***************************************************************************)
(* The slices: what they return and that together they are the sequence.   *)
(***************************************************************************)
LEMMA LastNProperties ==
  ASSUME NEW S, NEW seq \in Seq(S), NEW n \in Nat
  PROVE  /\ LastN(seq, n) \in Seq(S)
         /\ Len(LastN(seq, n)) = IF n = 0 \/ Len(seq) <= n THEN Len(seq) ELSE n
         /\ \A i \in 1..Len(LastN(seq, n)) :
              LastN(seq, n)[i] = seq[Len(seq) - Len(LastN(seq, n)) + i]
<1>0. Len(seq) \in Nat /\ \A i \in 1..Len(seq) : seq[i] \in S
  BY LenProperties, ElementOfSeq
<1>1. CASE n = 0 \/ Len(seq) <= n
  <2>1. LastN(seq, n) = seq
    BY <1>1 DEF LastN
  <2> QED BY <1>0, <1>1, <2>1
<1>2. CASE ~(n = 0 \/ Len(seq) <= n)
  <2> DEFINE m == Len(seq) - n + 1
  <2>1. m \in Int /\ Len(seq) \in Int /\ m >= 1 /\ m <= Len(seq)
    BY <1>0, <1>2
  <2>2. \A i \in m .. Len(seq) : seq[i] \in S
    BY <1>0, <2>1
  <2>3. LastN(seq, n) = SubSeq(seq, m, Len(seq))
    BY <1>2 DEF LastN
  <2> HIDE DEF m
  <2>4. /\ SubSeq(seq, m, Len(seq)) \in Seq(S)
        /\ Len(SubSeq(seq, m, Len(seq))) = Len(seq) - m + 1
        /\ \A i \in 1 .. Len(seq) - m + 1 : SubSeq(seq, m, Len(seq))[i] = seq[m + i - 1]
    BY <2>1, <2>2, SubSeqProperties
  <2> QED
    BY <1>0, <1>2, <2>3, <2>4 DEF m
<1> QED BY <1>1, <1>2

\* The slice without the last n elements is a sequence of the same set, empty
\* when there is nothing to cut.
LEMMA AllButLastNProperties ==
  ASSUME NEW S, NEW seq \in Seq(S), NEW n \in Nat
  PROVE  /\ AllButLastN(seq, n) \in Seq(S)
         /\ Len(AllButLastN(seq, n)) = IF n = 0 \/ Len(seq) <= n THEN 0 ELSE Len(seq) - n
         /\ \A i \in 1..Len(AllButLastN(seq, n)) : AllButLastN(seq, n)[i] = seq[i]
<1>0. Len(seq) \in Nat /\ \A i \in 1..Len(seq) : seq[i] \in S
  BY LenProperties, ElementOfSeq
<1>1. CASE n = 0 \/ Len(seq) <= n
  BY <1>0, <1>1 DEF AllButLastN
<1>2. CASE ~(n = 0 \/ Len(seq) <= n)
  <2> DEFINE m == Len(seq) - n
  <2>1. m \in Int /\ m >= 1 /\ m <= Len(seq)
    BY <1>0, <1>2
  <2>2. \A i \in 1 .. m : seq[i] \in S
    BY <1>0, <2>1
  <2>3. AllButLastN(seq, n) = SubSeq(seq, 1, m)
    BY <1>2 DEF AllButLastN
  <2> HIDE DEF m
  <2>4. /\ SubSeq(seq, 1, m) \in Seq(S)
        /\ Len(SubSeq(seq, 1, m)) = m
        /\ \A i \in 1 .. m : SubSeq(seq, 1, m)[i] = seq[i]
    BY <2>1, <2>2, SubSeqProperties
  <2> QED
    BY <1>0, <1>2, <2>3, <2>4 DEF m
<1> QED BY <1>1, <1>2

\* The two slices that compression takes are the whole list again: no turn is
\* lost and none is kept twice.
LEMMA SlicesRejoin ==
  ASSUME NEW S, NEW seq \in Seq(S), NEW n \in Nat
  PROVE  AllButLastN(seq, n) \o LastN(seq, n) = seq
<1> DEFINE front == AllButLastN(seq, n)
           back == LastN(seq, n)
<1>1. /\ front \in Seq(S) /\ back \in Seq(S)
      /\ Len(seq) \in Nat
      /\ Len(front) + Len(back) = Len(seq)
      /\ Len(front) \in Nat /\ Len(back) \in Nat
  BY LastNProperties, AllButLastNProperties, LenProperties
<1>2. \A i \in 1..Len(front) : front[i] = seq[i]
  BY AllButLastNProperties
<1>3. \A i \in 1..Len(back) : back[i] = seq[Len(front) + i]
  <2>1. \A i \in 1..Len(back) : back[i] = seq[Len(seq) - Len(back) + i]
    BY LastNProperties
  <2>2. Len(seq) - Len(back) = Len(front)
    BY <1>1
  <2> QED BY <2>1, <2>2
<1> HIDE DEF front, back
<1>4. /\ front \o back \in Seq(S)
      /\ Len(front \o back) = Len(seq)
      /\ \A i \in 1..Len(seq) :
           (front \o back)[i] = IF i <= Len(front) THEN front[i] ELSE back[i - Len(front)]
  BY <1>1, ConcatProperties
<1>5. ASSUME NEW i \in 1..Len(seq) PROVE (front \o back)[i] = seq[i]
  <2>1. CASE i <= Len(front)
    <3>1. i \in 1..Len(front)
      BY <1>1, <2>1
    <3> QED BY <1>2, <1>4, <2>1, <3>1
  <2>2. CASE ~(i <= Len(front))
    <3>1. /\ i - Len(front) \in 1..Len(back)
          /\ Len(front) + (i - Len(front)) = i
      BY <1>1, <2>2
    <3>2. back[i - Len(front)] = seq[i]
      BY <1>3, <3>1
    <3> QED BY <1>4, <2>2, <3>2
  <2> QED BY <2>1, <2>2
<1>6. front \o back = seq
  BY <1>1, <1>4, <1>5, SeqEqual
<1> QED BY <1>6 DEF front, back

(***************************************************************************)
(* The keys of an OrderedDict: a sequence without repetitions.  Removing a *)
(* key, appending a new one and cutting the oldest ones keep it so.        *)
(***************************************************************************)
Distinct(seq) == \A i, j \in DOMAIN seq : seq[i] = seq[j] => i = j

\* What is left of a sequence is in the order it was in.
Follows(left, seq) ==
  \A i, j \in DOMAIN left : i < j =>
    \E m, n \in DOMAIN seq : m < n /\ left[i] = seq[m] /\ left[j] = seq[n]

\* Removing a key leaves the other keys in order, once each if they were there once.
LEMMA RemoveFirstProperties ==
  ASSUME NEW S, NEW seq \in Seq(S), Distinct(seq), NEW e
  PROVE  /\ RemoveFirst(seq, e) \in Seq(S)
         /\ Distinct(RemoveFirst(seq, e))
         /\ ToSet(RemoveFirst(seq, e)) = ToSet(seq) \ {e}
         /\ Len(RemoveFirst(seq, e)) = IF e \in ToSet(seq) THEN Len(seq) - 1 ELSE Len(seq)
         /\ Follows(RemoveFirst(seq, e), seq)
<1>0. /\ Len(seq) \in Nat /\ \A i \in 1..Len(seq) : seq[i] \in S
      /\ DOMAIN seq = 1..Len(seq)
  BY LenProperties, ElementOfSeq
<1>1. CASE e \notin ToSet(seq)
  <2>1. ~ \E i \in 1..Len(seq) : seq[i] = e
    BY <1>0, <1>1 DEF ToSet
  <2>2. RemoveFirst(seq, e) = seq
    BY <2>1 DEF RemoveFirst
  <2>3. Follows(seq, seq)
    BY DEF Follows
  <2> QED BY <1>1, <2>2, <2>3
<1>2. CASE e \in ToSet(seq)
  <2>1. PICK k \in 1..Len(seq) : seq[k] = e
    BY <1>0, <1>2 DEF ToSet
  <2>2. {i \in 1..Len(seq) : seq[i] = e} = {k}
    BY <1>0, <2>1 DEF Distinct
  <2>3. Min({k}) = k
    BY <2>1 DEF Min
  <2>4. SelectInSeq(seq, LAMBDA v : v = e) = k
    BY <2>2, <2>3 DEF SelectInSeq
  <2>5. RemoveFirst(seq, e) = RemoveAt(seq, k)
    BY <2>1, <2>4 DEF RemoveFirst
  <2> DEFINE front == SubSeq(seq, 1, k - 1)
             back == SubSeq(seq, k + 1, Len(seq))
             rest == front \o back
  <2>6. /\ front \in Seq(S) /\ Len(front) = k - 1
        /\ \A i \in 1 .. k - 1 : front[i] = seq[i]
    <3>1. 1 \in Int /\ k - 1 \in Int /\ \A i \in 1 .. k - 1 : seq[i] \in S
      BY <1>0, <2>1
    <3>2. /\ front \in Seq(S)
          /\ Len(front) = IF 1 <= k - 1 THEN (k - 1) - 1 + 1 ELSE 0
          /\ \A i \in 1 .. (k - 1) - 1 + 1 : front[i] = seq[1 + i - 1]
      BY <3>1, SubSeqProperties
    <3> HIDE DEF front
    <3> QED BY <2>1, <3>2
  <2>7. /\ back \in Seq(S) /\ Len(back) = Len(seq) - k
        /\ \A i \in 1 .. Len(seq) - k : back[i] = seq[k + i]
    <3>1. k + 1 \in Int /\ Len(seq) \in Int /\ \A i \in k + 1 .. Len(seq) : seq[i] \in S
      BY <1>0, <2>1
    <3>2. /\ back \in Seq(S)
          /\ Len(back) = IF k + 1 <= Len(seq) THEN Len(seq) - (k + 1) + 1 ELSE 0
          /\ \A i \in 1 .. Len(seq) - (k + 1) + 1 : back[i] = seq[k + 1 + i - 1]
      BY <3>1, SubSeqProperties
    <3> HIDE DEF back
    <3>3. k \in Int /\ Len(seq) \in Int /\ k <= Len(seq)
      BY <1>0, <2>1
    <3>4. Len(seq) - (k + 1) + 1 = Len(seq) - k
      BY <3>3
    <3>5. Len(back) = Len(seq) - k
      <4>1. Len(back) = IF k + 1 <= Len(seq) THEN Len(seq) - (k + 1) + 1 ELSE 0
        BY <3>2
      <4>2. CASE k + 1 <= Len(seq)
        BY <4>1, <4>2, <3>3, <3>4
      <4>3. CASE ~(k + 1 <= Len(seq))
        <5>1. k = Len(seq)
          BY <3>3, <4>3
        <5>2. Len(back) = 0
          BY <4>1, <4>3
        <5> QED BY <3>3, <5>1, <5>2
      <4> QED BY <4>2, <4>3
    <3>6. \A i \in 1 .. Len(seq) - k : k + 1 + i - 1 = k + i
      BY <1>0, <2>1
    <3> QED BY <3>2, <3>4, <3>5, <3>6
  <2> HIDE DEF front, back
  <2>8. /\ rest \in Seq(S) /\ Len(rest) = Len(seq) - 1
        /\ \A i \in 1 .. Len(seq) - 1 : rest[i] = IF i < k THEN seq[i] ELSE seq[i + 1]
    <3>1. /\ rest \in Seq(S) /\ Len(rest) = Len(front) + Len(back)
          /\ \A i \in 1 .. Len(front) + Len(back) :
               rest[i] = IF i <= Len(front) THEN front[i] ELSE back[i - Len(front)]
      BY <2>6, <2>7, ConcatProperties
    <3> HIDE DEF rest
    <3>2. Len(front) + Len(back) = Len(seq) - 1
      BY <1>0, <2>1, <2>6, <2>7
    <3>3. ASSUME NEW i \in 1 .. Len(seq) - 1
          PROVE  rest[i] = IF i < k THEN seq[i] ELSE seq[i + 1]
      <4>1. CASE i < k
        <5>1. /\ i \in 1 .. k - 1 /\ i <= Len(front)
              /\ i \in 1 .. Len(front) + Len(back)
          BY <1>0, <2>1, <2>6, <3>2, <4>1
        <5>2. rest[i] = front[i]
          BY <3>1, <5>1
        <5> QED BY <2>6, <4>1, <5>1, <5>2
      <4>2. CASE ~(i < k)
        <5>1. /\ ~(i <= Len(front)) /\ i \in 1 .. Len(front) + Len(back)
              /\ i - Len(front) \in 1 .. Len(seq) - k
              /\ k + (i - Len(front)) = i + 1
          BY <1>0, <2>1, <2>6, <3>2, <4>2
        <5>2. rest[i] = back[i - Len(front)]
          BY <3>1, <5>1
        <5> QED BY <2>7, <4>2, <5>1, <5>2
      <4> QED BY <4>1, <4>2
    <3> QED BY <3>1, <3>2, <3>3
  <2> HIDE DEF rest
  <2>9. DOMAIN rest = 1 .. Len(seq) - 1
    BY <2>8, LenProperties
  <2>10. Distinct(rest)
    BY <1>0, <2>1, <2>8, <2>9 DEF Distinct
  <2>11. ToSet(rest) = ToSet(seq) \ {e}
    <3>1. ASSUME NEW i \in 1 .. Len(seq) - 1 PROVE rest[i] \in ToSet(seq) \ {e}
      <4>1. CASE i < k
        <5>1. i \in 1 .. Len(seq) /\ i # k /\ rest[i] = seq[i]
          BY <1>0, <2>1, <2>8, <4>1
        <5> QED BY <1>0, <2>1, <5>1 DEF Distinct, ToSet
      <4>2. CASE ~(i < k)
        <5>1. i + 1 \in 1 .. Len(seq) /\ i + 1 # k /\ rest[i] = seq[i + 1]
          BY <1>0, <2>1, <2>8, <4>2
        <5> QED BY <1>0, <2>1, <5>1 DEF Distinct, ToSet
      <4> QED BY <4>1, <4>2
    <3>2. ASSUME NEW i \in 1 .. Len(seq), seq[i] # e
          PROVE  \E j \in 1 .. Len(seq) - 1 : rest[j] = seq[i]
      <4>1. CASE i < k
        BY <1>0, <2>1, <2>8, <4>1
      <4>2. CASE i > k
        <5>1. i - 1 \in 1 .. Len(seq) - 1 /\ rest[i - 1] = seq[i]
          BY <1>0, <2>1, <2>8, <4>2
        <5> QED BY <5>1
      <4> QED BY <1>0, <2>1, <3>2, <4>1, <4>2
    <3>3. ToSet(rest) = {rest[i] : i \in 1 .. Len(seq) - 1}
      BY <2>9 DEF ToSet
    <3>4. ToSet(seq) = {seq[i] : i \in 1 .. Len(seq)}
      BY <1>0 DEF ToSet
    <3>5. ToSet(rest) \subseteq ToSet(seq) \ {e}
      BY <3>1, <3>3
    <3>6. ASSUME NEW x \in ToSet(seq) \ {e} PROVE x \in ToSet(rest)
      <4>1. PICK i \in 1 .. Len(seq) : x = seq[i]
        BY <3>4
      <4> QED BY <3>2, <3>3, <3>6, <4>1
    <3> QED BY <3>5, <3>6
  <2>12. RemoveFirst(seq, e) = rest
    BY <2>5 DEF RemoveAt, rest, front, back
  <2>13. ASSUME NEW i \in 1 .. Len(seq) - 1, NEW j \in 1 .. Len(seq) - 1, i < j
         PROVE  \E m, n \in 1..Len(seq) : m < n /\ rest[i] = seq[m] /\ rest[j] = seq[n]
    <3>1. \A n \in 1 .. Len(seq) - 1 :
            /\ n \in 1..Len(seq) /\ n + 1 \in 1..Len(seq)
            /\ rest[n] = IF n < k THEN seq[n] ELSE seq[n + 1]
      BY <1>0, <2>8
    <3>2. k \in Nat /\ i \in Nat /\ j \in Nat /\ i < j + 1 /\ i + 1 < j + 1
      BY <1>0, <2>1, <2>13
    <3>3. CASE i < k /\ j < k
      BY <2>13, <3>1, <3>3
    <3>4. CASE i < k /\ ~(j < k)
      BY <3>1, <3>2, <3>4
    <3>5. CASE ~(i < k) /\ ~(j < k)
      BY <3>1, <3>2, <3>5
    <3> QED BY <2>13, <3>2, <3>3, <3>4, <3>5
  <2>14. Follows(rest, seq)
    <3>1. ASSUME NEW i \in DOMAIN rest, NEW j \in DOMAIN rest, i < j
          PROVE  \E m, n \in DOMAIN seq : m < n /\ rest[i] = seq[m] /\ rest[j] = seq[n]
      <4>1. i \in 1 .. Len(seq) - 1 /\ j \in 1 .. Len(seq) - 1
        BY Zenon, <2>9
      <4>2. \E m, n \in 1..Len(seq) : m < n /\ rest[i] = seq[m] /\ rest[j] = seq[n]
        BY Zenon, <2>13, <3>1, <4>1
      <4> QED BY Zenon, <1>0, <4>2
    <3> QED BY Zenon, <3>1 DEF Follows
  <2> QED BY <1>2, <2>8, <2>10, <2>11, <2>12, <2>14
<1> QED BY <1>1, <1>2

\* Moving a key to the end makes it the last of the same keys, once each.
LEMMA MoveToEndProperties ==
  ASSUME NEW S, NEW ks \in Seq(S), Distinct(ks), NEW s \in S
  PROVE  LET moved == MoveToEnd(ks, s) IN
         /\ moved \in Seq(S)
         /\ Distinct(moved)
         /\ ToSet(moved) = ToSet(ks) \cup {s}
         /\ Len(moved) = IF s \in ToSet(ks) THEN Len(ks) ELSE Len(ks) + 1
         /\ moved[Len(moved)] = s
<1> DEFINE rest == RemoveFirst(ks, s)
           moved == MoveToEnd(ks, s)
<1>1. /\ rest \in Seq(S) /\ Distinct(rest)
      /\ ToSet(rest) = ToSet(ks) \ {s}
      /\ Len(rest) = IF s \in ToSet(ks) THEN Len(ks) - 1 ELSE Len(ks)
  BY RemoveFirstProperties
<1>2. moved = Append(rest, s)
  BY DEF MoveToEnd
<1> HIDE DEF rest, moved
<1>3. Len(ks) \in Nat /\ Len(rest) \in Nat /\ DOMAIN rest = 1..Len(rest)
  BY <1>1, LenProperties
<1>4. /\ moved \in Seq(S) /\ Len(moved) = Len(rest) + 1
      /\ \A i \in 1..Len(rest) : moved[i] = rest[i]
      /\ moved[Len(rest) + 1] = s
  BY <1>1, <1>2, AppendProperties
<1>5. DOMAIN moved = 1..Len(rest) + 1
  BY <1>4, LenProperties
<1>6. ASSUME NEW i \in 1..Len(rest) PROVE rest[i] # s /\ rest[i] \in ToSet(rest)
  BY <1>1, <1>3 DEF ToSet
<1>7. Distinct(moved)
  <2> SUFFICES ASSUME NEW i \in 1..Len(rest) + 1, NEW j \in 1..Len(rest) + 1,
                      moved[i] = moved[j]
               PROVE  i = j
    BY <1>5 DEF Distinct
  <2>1. CASE i \in 1..Len(rest) /\ j \in 1..Len(rest)
    BY <1>1, <1>3, <1>4, <2>1 DEF Distinct
  <2>2. CASE i = Len(rest) + 1 \/ j = Len(rest) + 1
    BY <1>3, <1>4, <1>6, <2>2
  <2> QED BY <1>3, <2>1, <2>2
<1>8. ToSet(moved) = ToSet(rest) \cup {s}
  <2>1. ToSet(moved) = {moved[i] : i \in 1..Len(rest) + 1}
    BY <1>5 DEF ToSet
  <2>2. ToSet(rest) = {rest[i] : i \in 1..Len(rest)}
    BY <1>3 DEF ToSet
  <2>3. ASSUME NEW i \in 1..Len(rest) + 1 PROVE moved[i] \in ToSet(rest) \cup {s}
    BY <1>3, <1>4, <1>6
  <2>4. ASSUME NEW i \in 1..Len(rest) PROVE rest[i] \in ToSet(moved)
    BY <1>3, <1>4, <2>1
  <2>5. s \in ToSet(moved)
    BY <1>3, <1>4, <2>1
  <2> QED BY <2>1, <2>2, <2>3, <2>4, <2>5
<1>9. ToSet(rest) \cup {s} = ToSet(ks) \cup {s}
  BY <1>1
<1> QED BY <1>1, <1>3, <1>4, <1>7, <1>8, <1>9 DEF moved

\* Eviction keeps a suffix of the keys that fits the store, the last key in it.
LEMMA EvictProperties ==
  ASSUME NEW S, NEW ks \in Seq(S), Distinct(ks), ks # << >>,
         Len(ks) <= MaxSessions + 1
  PROVE  LET left == Evict(ks) IN
         /\ left \in Seq(S)
         /\ Distinct(left)
         /\ Len(left) <= MaxSessions
         /\ left[Len(left)] = ks[Len(ks)]
         /\ ks[Len(ks)] \in ToSet(left)
         /\ ToSet(left) = IF Len(ks) <= MaxSessions THEN ToSet(ks) ELSE ToSet(ks) \ {ks[1]}
<1> DEFINE left == Evict(ks)
<1>1. /\ left \in Seq(S)
      /\ Len(left) = IF Len(ks) <= MaxSessions THEN Len(ks) ELSE MaxSessions
      /\ \A i \in 1..Len(left) : left[i] = ks[Len(ks) - Len(left) + i]
  BY LastNProperties, MemoryAssumption DEF Evict
<1> HIDE DEF left
<1>m. MaxSessions \in Nat /\ MaxSessions >= 1
  BY MemoryAssumption
<1>2. /\ Len(ks) \in Nat /\ Len(ks) >= 1 /\ Len(left) \in Nat
      /\ DOMAIN ks = 1..Len(ks) /\ DOMAIN left = 1..Len(left)
  <2>1. Len(ks) \in Nat \ {0}
    BY EmptySeq
  <2> QED BY <1>1, <2>1, LenProperties
<1>3. CASE Len(ks) <= MaxSessions
  <2>1. left = ks
    BY <1>3 DEF left, Evict, LastN
  <2> QED BY <1>2, <1>3, <2>1 DEF ToSet, left
<1>4. CASE Len(ks) > MaxSessions
  <2>1. Len(left) = MaxSessions /\ Len(ks) = MaxSessions + 1
    <3>1. Len(left) = IF Len(ks) <= MaxSessions THEN Len(ks) ELSE MaxSessions
      BY <1>1
    <3>2. ~(Len(ks) <= MaxSessions)
      BY <1>m, <1>2, <1>4
    <3>3. Len(ks) = MaxSessions + 1
      <4>1. Len(ks) <= MaxSessions + 1
        OBVIOUS
      <4>2. Len(ks) \in Int /\ MaxSessions \in Int
        BY <1>m, <1>2
      <4>3. Len(ks) > MaxSessions
        BY <1>4
      <4> QED BY <4>1, <4>2, <4>3
    <3>4. Len(left) = MaxSessions
      BY <3>1, <3>2
    <3> QED BY <3>3, <3>4
  <2>2. \A i \in 1..MaxSessions : left[i] = ks[i + 1]
    <3>1. \A i \in 1..MaxSessions : Len(ks) - Len(left) + i = i + 1
      BY <1>m, <2>1
    <3> QED BY <1>1, <2>1, <3>1
  <2>3. Distinct(left)
    <3> SUFFICES ASSUME NEW i \in 1..MaxSessions, NEW j \in 1..MaxSessions,
                        left[i] = left[j]
                 PROVE  i = j
      BY <1>2, <2>1 DEF Distinct
    <3>1. i + 1 \in DOMAIN ks /\ j + 1 \in DOMAIN ks /\ ks[i + 1] = ks[j + 1]
      BY <1>m, <1>2, <2>1, <2>2
    <3>2. i + 1 = j + 1
      BY <3>1 DEF Distinct
    <3> QED BY <3>2
  <2>4. ToSet(left) = ToSet(ks) \ {ks[1]}
    <3>1. ASSUME NEW i \in 1..MaxSessions PROVE left[i] \in ToSet(ks) \ {ks[1]}
      <4>1. i + 1 \in DOMAIN ks /\ 1 \in DOMAIN ks /\ i + 1 # 1
        BY <1>m, <1>2, <2>1
      <4>2. ks[i + 1] # ks[1]
        BY <4>1 DEF Distinct
      <4> QED BY <2>2, <4>1, <4>2 DEF ToSet
    <3>2. ASSUME NEW i \in 1..Len(ks), ks[i] # ks[1]
          PROVE  \E j \in 1..MaxSessions : left[j] = ks[i]
      <4>1. i - 1 \in 1..MaxSessions /\ left[i - 1] = ks[i]
        BY <1>m, <1>2, <2>1, <2>2, <3>2
      <4> QED BY <4>1
    <3>3. ToSet(left) = {left[i] : i \in 1..MaxSessions} /\ ToSet(ks) = {ks[i] : i \in 1..Len(ks)}
      BY <1>2, <2>1 DEF ToSet
    <3> QED BY <3>1, <3>2, <3>3
  <2>5. left[Len(left)] = ks[Len(ks)]
    BY <1>m, <2>1, <2>2
  <2>6. ks[Len(ks)] \in ToSet(left)
    BY <1>m, <1>2, <2>1, <2>5 DEF ToSet
  <2> QED BY <1>1, <1>4, <2>1, <2>3, <2>4, <2>5, <2>6 DEF left
<1> QED BY <1>m, <1>2, <1>3, <1>4 DEF left

(***************************************************************************)
(* What one use of the store does to its keys.                             *)
(***************************************************************************)
LEMMA UseProperties ==
  ASSUME NEW s \in SessionIds, keys \in Seq(SessionIds), Distinct(keys),
         Len(keys) <= MaxSessions
  PROVE  LET moved == MoveToEnd(keys, s)
             left == Evict(moved) IN
         /\ left \in Seq(SessionIds)
         /\ Distinct(left)
         /\ Len(left) <= MaxSessions
         /\ s \in ToSet(left)
         /\ ToSet(moved) = ToSet(keys) \cup {s}
         /\ Len(moved) \in Nat
         /\ Distinct(moved) /\ moved \in Seq(SessionIds)
         /\ ToSet(left) = IF Len(moved) <= MaxSessions
                            THEN ToSet(moved) ELSE ToSet(moved) \ {moved[1]}
         /\ Len(moved) > MaxSessions => moved[1] \in ToSet(moved) \ {s}
<1> DEFINE moved == MoveToEnd(keys, s)
           left == Evict(moved)
<1>1. /\ moved \in Seq(SessionIds) /\ Distinct(moved)
      /\ ToSet(moved) = ToSet(keys) \cup {s}
      /\ Len(moved) = IF s \in ToSet(keys) THEN Len(keys) ELSE Len(keys) + 1
      /\ moved[Len(moved)] = s
  BY MoveToEndProperties
<1> HIDE DEF moved
<1>2. Len(keys) \in Nat /\ Len(moved) \in Nat /\ DOMAIN moved = 1..Len(moved)
  BY <1>1, LenProperties
<1>m. MaxSessions \in Nat /\ MaxSessions >= 1
  BY MemoryAssumption
<1>3. moved # << >> /\ Len(moved) <= MaxSessions + 1
  <2>1. Len(moved) \in 1..MaxSessions + 1
    <3>1. Len(moved) = IF s \in ToSet(keys) THEN Len(keys) ELSE Len(keys) + 1
      BY <1>1
    <3>2. Len(moved) <= MaxSessions + 1
      BY <1>2, <1>m, <3>1
    <3>3. Len(moved) # 0
      <4>1. ToSet(moved) # {}
        BY <1>1
      <4> QED BY <1>2, <4>1 DEF ToSet
    <3> QED BY <1>2, <1>m, <3>2, <3>3
  <2>2. Len(<< >>) = 0
    OBVIOUS
  <2> QED BY <1>m, <2>1, <2>2
<1>4. /\ left \in Seq(SessionIds) /\ Distinct(left)
      /\ Len(left) <= MaxSessions
      /\ moved[Len(moved)] \in ToSet(left)
      /\ ToSet(left) = IF Len(moved) <= MaxSessions
                         THEN ToSet(moved) ELSE ToSet(moved) \ {moved[1]}
  BY <1>1, <1>3, EvictProperties
<1>5. Len(moved) > MaxSessions => moved[1] \in ToSet(moved) \ {s}
  <2> SUFFICES ASSUME Len(moved) > MaxSessions PROVE moved[1] \in ToSet(moved) \ {s}
    OBVIOUS
  <2>1. 1 \in DOMAIN moved /\ Len(moved) \in DOMAIN moved /\ 1 # Len(moved)
    BY <1>m, <1>2
  <2> QED BY <1>1, <2>1 DEF Distinct, ToSet
<1> HIDE DEF left
<1>6. s \in ToSet(left)
  BY <1>1, <1>4
<1> QED BY <1>1, <1>2, <1>4, <1>5, <1>6 DEF moved, left

(***************************************************************************)
(* What recording one turn does to its session.                            *)
(***************************************************************************)
\* WindowFull and IdsSaturate of one session.
Shape(ses) ==
  /\ Len(ses.turns) <= Window
  /\ ses.older # << >> => Len(ses.turns) = Window

Numbered(ses) ==
  \A n \in 1..Len(Whole(ses)) :
    Whole(ses)[n].id = IF n <= Window THEN n ELSE Window + 1

\* Concatenation of lists of turns is associative.
LEMMA Associative ==
  \A s, t, u \in Seq(Turn) : (s \o t) \o u = s \o (t \o u)
BY ConcatAssociative

\* Compression yields a session of the right type that says the same, and
\* leaves no more than a window of turns.
LEMMA CompressProperties ==
  ASSUME NEW ses \in Session
  PROVE  /\ Compress(ses) \in Session
         /\ Whole(Compress(ses)) = Whole(ses)
         /\ Window > 0 /\ (ses.older # << >> => Len(ses.turns) >= Window)
              => Shape(Compress(ses))
<1> USE MemoryAssumption
<1>1. /\ ses.older \in Seq(Turn) /\ ses.turns \in Seq(Turn)
      /\ Len(ses.turns) \in Nat
      /\ ses = [older |-> ses.older, turns |-> ses.turns]
  BY DEF Session
<1>2. CASE Len(ses.turns) <= Window
  <2>1. Compress(ses) = ses
    BY <1>2 DEF Compress
  <2>2. Len(ses.turns) >= Window => Len(ses.turns) = Window
    BY <1>1, <1>2
  <2> QED BY <1>2, <2>1, <2>2 DEF Shape
<1>3. CASE ~(Len(ses.turns) <= Window)
  <2> DEFINE front == AllButLastN(ses.turns, Window)
             back == LastN(ses.turns, Window)
  <2>1. /\ Compress(ses).older = ses.older \o front
        /\ Compress(ses).turns = back
        /\ Compress(ses) = [older |-> ses.older \o front, turns |-> back]
    BY <1>3 DEF Compress
  <2>2. front \in Seq(Turn) /\ back \in Seq(Turn) /\ front \o back = ses.turns
    BY <1>1, LastNProperties, AllButLastNProperties, SlicesRejoin
  <2>3. Len(back) = IF Window = 0 THEN Len(ses.turns) ELSE Window
    BY <1>1, <1>3, LastNProperties
  <2> HIDE DEF front, back
  <2>4. Compress(ses) \in Session
    BY <1>1, <2>1, <2>2, ConcatProperties DEF Session
  <2>5. (ses.older \o front) \o back = ses.older \o (front \o back)
    BY <1>1, <2>2, Associative
  <2>6. Whole(Compress(ses)) = Whole(ses)
    BY <2>1, <2>2, <2>5 DEF Whole
  <2>7. Window > 0 => Shape(Compress(ses))
    BY <2>1, <2>3 DEF Shape
  <2> QED BY <2>4, <2>6, <2>7
<1> QED BY <1>2, <1>3

\* Recording a turn in a good session yields a good session with that turn last.
LEMMA AddTurnProperties ==
  ASSUME NEW ses \in Session, NEW e \in Entries
  PROVE  /\ AddTurn(ses, e) \in Session
         /\ Whole(AddTurn(ses, e)) =
              Append(Whole(ses), [id |-> NextTurnId(ses), entry |-> e])
         /\ Window > 0 /\ Shape(ses) =>
              /\ Shape(AddTurn(ses, e))
              /\ Numbered(ses) => Numbered(AddTurn(ses, e))
<1> USE MemoryAssumption
<1> DEFINE turn == [id |-> NextTurnId(ses), entry |-> e]
           longer == [ses EXCEPT !.turns = Append(@, turn)]
<1>1. /\ ses.older \in Seq(Turn) /\ ses.turns \in Seq(Turn)
      /\ Len(ses.turns) \in Nat /\ Len(ses.older) \in Nat
  BY LenProperties DEF Session
<1>2. turn \in Turn /\ turn.id = Len(ses.turns) + 1
  BY <1>1 DEF Turn, NextTurnId
<1> HIDE DEF turn
<1>3. /\ longer \in Session
      /\ longer.older = ses.older
      /\ longer.turns = Append(ses.turns, turn)
      /\ Len(longer.turns) = Len(ses.turns) + 1
  <2>1. Append(ses.turns, turn) \in Seq(Turn) /\ Len(Append(ses.turns, turn)) = Len(ses.turns) + 1
    BY <1>1, <1>2, AppendProperties
  <2>2. longer = [older |-> ses.older, turns |-> Append(ses.turns, turn)]
    BY DEF Session
  <2> QED BY <1>1, <2>1, <2>2 DEF Session
<1>4. AddTurn(ses, e) = Compress(longer)
  BY DEF AddTurn, turn
<1> HIDE DEF longer
<1>5. Whole(longer) = Append(Whole(ses), turn)
  <2>1. Append(ses.turns, turn) = ses.turns \o <<turn>>
    BY <1>1, <1>2, AppendIsConcat
  <2>2. <<turn>> \in Seq(Turn)
    BY <1>2
  <2>3. ses.older \o (ses.turns \o <<turn>>) = (ses.older \o ses.turns) \o <<turn>>
    BY <1>1, <2>2, Associative
  <2>4. Whole(ses) \in Seq(Turn)
    BY <1>1, ConcatProperties DEF Whole
  <2>5. Append(Whole(ses), turn) = Whole(ses) \o <<turn>>
    BY <1>2, <2>4, AppendIsConcat
  <2> QED BY <1>3, <2>1, <2>3, <2>5 DEF Whole
<1>6. Whole(AddTurn(ses, e)) = Append(Whole(ses), turn) /\ AddTurn(ses, e) \in Session
  BY <1>3, <1>4, <1>5, CompressProperties
<1>7. ASSUME Window > 0, Shape(ses) PROVE Shape(AddTurn(ses, e))
  <2>1. longer.older # << >> => Len(longer.turns) >= Window
    BY <1>1, <1>3, <1>7 DEF Shape
  <2> QED BY <1>3, <1>4, <1>7, <2>1, CompressProperties
<1>8. ASSUME Window > 0, Shape(ses), Numbered(ses) PROVE Numbered(AddTurn(ses, e))
  <2> DEFINE all == Whole(ses)
             len == Len(all)
  <2>1. /\ all \in Seq(Turn) /\ len \in Nat
        /\ len = Len(ses.older) + Len(ses.turns)
    BY <1>1, ConcatProperties, LenProperties DEF Whole
  <2>2. \A n \in 1..len : all[n].id = IF n <= Window THEN n ELSE Window + 1
    BY <1>8 DEF Numbered
  <2>3. turn.id = IF len + 1 <= Window THEN len + 1 ELSE Window + 1
    <3>1. CASE ses.older = << >>
      <4>1. len = Len(ses.turns) /\ len <= Window
        BY <1>1, <1>8, <2>1, <3>1, EmptySeq DEF Shape
      <4>2. turn.id = len + 1
        BY <1>2, <4>1
      <4>3. CASE len + 1 <= Window
        BY <4>2, <4>3
      <4>4. CASE ~(len + 1 <= Window)
        <5>1. len \in Int /\ len <= Window
          <6>1. len \in Nat
            BY <2>1
          <6> HIDE DEF len
          <6> QED BY <4>1, <6>1
        <5> HIDE DEF len
        <5>2. len + 1 = Window + 1
          BY <4>4, <5>1
        <5> QED BY <4>2, <4>4, <5>2
      <4> QED BY <4>3, <4>4
    <3>2. CASE ses.older # << >>
      <4>1. Len(ses.turns) = Window /\ Len(ses.older) >= 1
        BY <1>1, <1>8, <3>2, EmptySeq DEF Shape
      <4>2. len + 1 > Window
        BY <1>1, <2>1, <4>1
      <4> QED BY <1>2, <2>1, <4>1, <4>2
    <3> QED BY <3>1, <3>2
  <2>4. /\ Len(Append(all, turn)) = len + 1
        /\ \A n \in 1..len : Append(all, turn)[n] = all[n]
        /\ Append(all, turn)[len + 1] = turn
    <3>1. all \in Seq(Turn)
      BY <2>1
    <3> HIDE DEF all
    <3> QED BY <1>2, <3>1, AppendProperties
  <2>0. len \in Nat
    BY <2>1
  <2> HIDE DEF all, len
  <2>5. \A n \in 1..len + 1 :
          Append(all, turn)[n].id = IF n <= Window THEN n ELSE Window + 1
    <3> TAKE n \in 1..len + 1
    <3>1. CASE n = len + 1
      BY <2>3, <2>4, <3>1
    <3>2. CASE n # len + 1
      <4>1. n \in 1..len
        BY <2>0, <3>2
      <4> QED BY <2>2, <2>4, <4>1
    <3> QED BY <3>1, <3>2
  <2> QED BY <1>6, <2>4, <2>5 DEF Numbered, all
<1> QED BY <1>6, <1>7, <1>8 DEF turn

(***************************************************************************)
(* The inductive invariant: the store is bounded, and every session it     *)
(* holds has the shape that compression leaves behind.  The shape alone    *)
(* bounds the ids: the next id is the length of the turns plus one, and    *)
(* that length tells how many turns there were only until the window is    *)
(* full.                                                                   *)
(***************************************************************************)
Good(ses) == ses \in Session /\ (Window > 0 => Shape(ses) /\ Numbered(ses))

Inv ==
  /\ keys \in Seq(SessionIds) /\ Distinct(keys) /\ Len(keys) <= MaxSessions
  /\ session \in [SessionIds -> Session]
  /\ \A t \in SessionIds :
       Good(session[t]) /\ (t \notin ToSet(keys) => session[t] = NewSession)

\* A fresh session is good.
LEMMA NewSessionGood == Good(NewSession)
<1>1. NewSession \in Session
  BY DEF NewSession, Session
<1>2. /\ Whole(NewSession) = << >> /\ NewSession.older = << >>
      /\ Len(NewSession.turns) = 0 /\ Len(Whole(NewSession)) = 0
  BY DEF NewSession, Whole
<1> QED
  BY <1>1, <1>2, MemoryAssumption DEF Good, Shape, Numbered

\* The sessions kept are good when the ones offered are.
LEMMA KeptGood ==
  ASSUME NEW ks, NEW f \in [SessionIds -> Session], \A t \in SessionIds : Good(f[t])
  PROVE  /\ Kept(ks, f) \in [SessionIds -> Session]
         /\ \A t \in SessionIds :
              /\ Good(Kept(ks, f)[t])
              /\ t \notin ToSet(ks) => Kept(ks, f)[t] = NewSession
BY NewSessionGood DEF Kept, Good

\* The store starts in the invariant.
LEMMA InvInit == Init => Inv
<1> SUFFICES ASSUME Init PROVE Inv
  OBVIOUS
<1>1. keys \in Seq(SessionIds) /\ Distinct(keys) /\ Len(keys) <= MaxSessions
  BY MemoryAssumption DEF Init, Distinct
<1>2. \A t \in SessionIds : session[t] = NewSession
  BY DEF Init
<1>3. session \in [SessionIds -> Session]
  BY NewSessionGood DEF Init, Good
<1> QED BY <1>1, <1>2, <1>3, NewSessionGood DEF Inv

\* Get keeps the invariant.
LEMMA InvGet ==
  ASSUME Inv, NEW s \in SessionIds, Get(s)
  PROVE  Inv'
<1>1. keys' = Evict(MoveToEnd(keys, s)) /\ session' = Kept(keys', session)
  BY DEF Get
<1>2. keys' \in Seq(SessionIds) /\ Distinct(keys') /\ Len(keys') <= MaxSessions
  BY <1>1, UseProperties DEF Inv
<1>3. /\ session' \in [SessionIds -> Session]
      /\ \A t \in SessionIds :
           Good(session'[t]) /\ (t \notin ToSet(keys') => session'[t] = NewSession)
  BY <1>1, KeptGood DEF Inv
<1> QED BY <1>2, <1>3 DEF Inv, Distinct, Good, Shape, Numbered, Whole

\* RecordTurn keeps the invariant.
LEMMA InvRecordTurn ==
  ASSUME Inv, NEW s \in SessionIds, NEW e \in Entries, RecordTurn(s, e)
  PROVE  Inv'
<1> DEFINE updated == [session EXCEPT ![s] = AddTurn(@, e)]
<1>1. keys' = Evict(MoveToEnd(keys, s)) /\ session' = Kept(keys', updated)
  BY DEF RecordTurn
<1>2. keys' \in Seq(SessionIds) /\ Distinct(keys') /\ Len(keys') <= MaxSessions
  BY <1>1, UseProperties DEF Inv
<1>3. Good(AddTurn(session[s], e))
  BY AddTurnProperties DEF Inv, Good
<1>4. updated \in [SessionIds -> Session] /\ \A t \in SessionIds : Good(updated[t])
  BY <1>3 DEF Inv, Good
<1> HIDE DEF updated
<1>5. /\ session' \in [SessionIds -> Session]
      /\ \A t \in SessionIds :
           Good(session'[t]) /\ (t \notin ToSet(keys') => session'[t] = NewSession)
  BY <1>1, <1>4, KeptGood
<1> QED BY <1>2, <1>5 DEF Inv, Distinct, Good, Shape, Numbered, Whole

\* Reset keeps the invariant.
LEMMA InvReset ==
  ASSUME Inv, NEW s \in SessionIds, Reset(s)
  PROVE  Inv'
<1>1. keys' = RemoveFirst(keys, s) /\ session' = Kept(keys', session)
  BY DEF Reset
<1>2. keys' \in Seq(SessionIds) /\ Distinct(keys') /\ Len(keys') <= MaxSessions
  <2>1. keys \in Seq(SessionIds) /\ Distinct(keys) /\ Len(keys) <= MaxSessions
    BY DEF Inv
  <2>2. /\ keys' \in Seq(SessionIds) /\ Distinct(keys')
        /\ Len(keys') = IF s \in ToSet(keys) THEN Len(keys) - 1 ELSE Len(keys)
    BY <1>1, <2>1, RemoveFirstProperties
  <2>3. Len(keys) \in Nat /\ MaxSessions \in Nat
    BY <2>1, LenProperties, MemoryAssumption
  <2> QED BY <2>1, <2>2, <2>3
<1>3. /\ session' \in [SessionIds -> Session]
      /\ \A t \in SessionIds :
           Good(session'[t]) /\ (t \notin ToSet(keys') => session'[t] = NewSession)
  BY <1>1, KeptGood DEF Inv
<1> QED BY <1>2, <1>3 DEF Inv, Distinct, Good, Shape, Numbered, Whole

\* Every step keeps the invariant.
LEMMA InvNext == Inv /\ [Next]_vars => Inv'
<1> SUFFICES ASSUME Inv, [Next]_vars PROVE Inv'
  OBVIOUS
<1>1. ASSUME NEW s \in SessionIds, Get(s) PROVE Inv'
  BY <1>1, InvGet
<1>2. ASSUME NEW s \in SessionIds, NEW e \in Entries, RecordTurn(s, e) PROVE Inv'
  BY <1>2, InvRecordTurn
<1>3. ASSUME NEW s \in SessionIds, Reset(s) PROVE Inv'
  BY <1>3, InvReset
<1>4. CASE UNCHANGED vars
  BY <1>4 DEF vars, Inv, Good, Shape, Numbered, Whole, Distinct
<1> QED BY <1>1, <1>2, <1>3, <1>4 DEF Next

\* The invariant holds in every reachable state.
LEMMA InvAlways == Spec => []Inv
BY InvInit, InvNext, PTL DEF Spec

\* The store's state has its types in every reachable state.
THEOREM TypeCorrect == Spec => []TypeOK
<1>1. Inv => TypeOK
  BY DEF Inv, TypeOK
<1> QED BY <1>1, InvAlways, PTL

\* For every capacity, the store holds at most that many sessions, each once,
\* and nothing of a session it dropped.
THEOREM StoreIsBounded == Spec => []StoreBounded
<1>1. Inv => StoreBounded
  BY DEF Inv, StoreBounded, Distinct
<1> QED BY <1>1, InvAlways, PTL

\* For every window, no session keeps more turns than the window, and one that
\* has a summary keeps exactly that many.
THEOREM WindowIsFull == Spec => []WindowFull
<1>1. Inv => WindowFull
  BY DEF Inv, WindowFull, Good, Shape
<1> QED BY <1>1, InvAlways, PTL

\* For every window, ids count the turns until the window is full and stay one
\* above it from then on, so from then on no id names one turn.
THEOREM TurnIdsSaturate == Spec => []IdsSaturate
<1>1. Inv => IdsSaturate
  <2> SUFFICES ASSUME Inv, Window > 0, NEW s \in SessionIds, NEW n \in DOMAIN AllTurns(s)
               PROVE  AllTurns(s)[n].id = IF n <= Window THEN n ELSE Window + 1
    BY DEF IdsSaturate
  <2>1. Numbered(session[s]) /\ session[s] \in Session
    BY DEF Inv, Good
  <2>2. Whole(session[s]) \in Seq(Turn)
    BY <2>1, ConcatProperties DEF Whole, Session
  <2>3. n \in 1..Len(Whole(session[s]))
    BY <2>2, LenProperties DEF AllTurns
  <2> QED BY <2>1, <2>3 DEF Numbered, AllTurns
<1> QED BY <1>1, InvAlways, PTL

(***************************************************************************)
(* The store implements the log of SessionLog.                             *)
(***************************************************************************)
LEMMA KeyCount ==
  ASSUME NEW S, NEW ks \in Seq(S), Distinct(ks)
  PROVE  Cardinality(ToSet(ks)) = Len(ks)
<1>1. Len(ks) \in Nat /\ ks \in [1..Len(ks) -> S] /\ DOMAIN ks = 1..Len(ks)
  BY LenProperties
<1>2. ks \in Bijection(1..Len(ks), ToSet(ks))
  BY <1>1 DEF Distinct, ToSet, Bijection, Injection, Surjection, IsInjective
<1>3. ExistsBijection(1..Len(ks), ToSet(ks))
  BY <1>2 DEF ExistsBijection
<1> QED BY <1>1, <1>3, FS_CountingElements

\* The sessions held after s has been used are among those SessionLog allows.
LEMMA UseHolds ==
  ASSUME Inv, NEW s \in SessionIds, keys' = Evict(MoveToEnd(keys, s))
  PROVE  ToSet(keys') \in Log!Held(s)
<1> DEFINE moved == MoveToEnd(keys, s)
           wanted == ToSet(keys) \cup {s}
<1>1. /\ moved \in Seq(SessionIds) /\ Distinct(moved) /\ Len(moved) \in Nat
      /\ ToSet(moved) = wanted
      /\ ToSet(keys') = IF Len(moved) <= MaxSessions THEN ToSet(moved) ELSE ToSet(moved) \ {moved[1]}
      /\ Len(moved) > MaxSessions => moved[1] \in ToSet(moved) \ {s}
  BY UseProperties DEF Inv
<1> HIDE DEF moved
<1>2. Log!Cardinality(wanted) = Len(moved)
  <2>1. Cardinality(wanted) = Len(moved)
    BY <1>1, KeyCount
  <2>2. Log!Cardinality(wanted) = Cardinality(wanted)
    BY DEF Log!Cardinality, Cardinality
  <2> QED BY <2>1, <2>2
<1>3. DOMAIN [t \in ToSet(keys) |-> EntriesIn(AllTurns(t))] = ToSet(keys)
  OBVIOUS
<1>4. CASE Len(moved) <= MaxSessions
  BY <1>1, <1>2, <1>3, <1>4 DEF Log!Held
<1>5. CASE ~(Len(moved) <= MaxSessions)
  <2>1. moved[1] \in wanted \ {s} /\ ToSet(keys') = wanted \ {moved[1]}
    BY <1>1, <1>5, MemoryAssumption
  <2> HIDE DEF wanted
  <2>2. ToSet(keys') \in {wanted \ {victim} : victim \in wanted \ {s}}
    BY <2>1
  <2>3. ~(Log!Cardinality(wanted) <= MaxSessions)
    BY <1>2, <1>5
  <2> QED BY <1>3, <2>2, <2>3 DEF Log!Held, wanted
<1> QED BY <1>4, <1>5

\* The entries of a session with one more turn are its entries and that one.
LEMMA EntriesOfAppend ==
  ASSUME NEW turns \in Seq(Turn), NEW turn \in Turn
  PROVE  EntriesIn(Append(turns, turn)) = Append(EntriesIn(turns), turn.entry)
<1>1. /\ Len(turns) \in Nat
      /\ Len(Append(turns, turn)) = Len(turns) + 1
      /\ \A n \in 1..Len(turns) : Append(turns, turn)[n] = turns[n]
      /\ Append(turns, turn)[Len(turns) + 1] = turn
      /\ \A n \in 1..Len(turns) : turns[n] \in Turn
  BY AppendProperties, LenProperties, ElementOfSeq
<1>2. /\ EntriesIn(turns) \in Seq(Entries) /\ Len(EntriesIn(turns)) = Len(turns)
      /\ turn.entry \in Entries
  BY <1>1 DEF EntriesIn, Turn
<1>3. /\ Append(EntriesIn(turns), turn.entry) \in Seq(Entries)
      /\ Len(Append(EntriesIn(turns), turn.entry)) = Len(turns) + 1
      /\ \A n \in 1..Len(turns) : Append(EntriesIn(turns), turn.entry)[n] = turns[n].entry
      /\ Append(EntriesIn(turns), turn.entry)[Len(turns) + 1] = turn.entry
  BY <1>1, <1>2, AppendProperties DEF EntriesIn
<1>4. /\ EntriesIn(Append(turns, turn)) \in Seq(Entries)
      /\ Len(EntriesIn(Append(turns, turn))) = Len(turns) + 1
      /\ \A n \in 1..Len(turns) : EntriesIn(Append(turns, turn))[n] = turns[n].entry
      /\ EntriesIn(Append(turns, turn))[Len(turns) + 1] = turn.entry
  BY <1>1, <1>2 DEF EntriesIn, Turn
<1>5. \A n \in 1..Len(turns) + 1 :
        EntriesIn(Append(turns, turn))[n] = Append(EntriesIn(turns), turn.entry)[n]
  BY <1>1, <1>3, <1>4
<1> QED BY <1>3, <1>4, <1>5, SeqEqual

\* A fresh session has no entries.
LEMMA EntriesOfNew == EntriesIn(Whole(NewSession)) = << >>
<1>1. Whole(NewSession) = << >> /\ Len(<< >>) = 0
  BY DEF Whole, NewSession
<1> QED BY <1>1 DEF EntriesIn

\* Get is a Use of the abstract log.
LEMMA GetImplementsUse ==
  ASSUME Inv, NEW s \in SessionIds, Get(s)
  PROVE  Log!Use(s)
<1> DEFINE held == ToSet(keys')
<1>1. keys' = Evict(MoveToEnd(keys, s)) /\ session' = Kept(keys', session)
  BY DEF Get
<1>2. held \in Log!Held(s) /\ held \subseteq SessionIds
  BY <1>1, UseHolds, InvGet, RangeOfSeq DEF Inv, ToSet
<1>3. ASSUME NEW t \in held PROVE EntriesIn(AllTurns(t))' = Log!EntriesOf(t)
  <2>1. session'[t] = session[t]
    BY <1>1, <1>2 DEF Kept
  <2>2. EntriesIn(AllTurns(t))' = EntriesIn(Whole(session[t]))
    BY <2>1 DEF AllTurns, Whole, EntriesIn
  <2>3. CASE t \in ToSet(keys)
    BY <2>2, <2>3 DEF Log!EntriesOf, AllTurns
  <2>4. CASE t \notin ToSet(keys)
    BY <1>2, <2>2, <2>4, EntriesOfNew DEF Log!EntriesOf, Inv
  <2> QED BY <2>3, <2>4
<1>4. [t \in held |-> EntriesIn(AllTurns(t))'] = [t \in held |-> Log!EntriesOf(t)]
  BY <1>3
<1> QED BY <1>2, <1>4 DEF Log!Use

\* RecordTurn is a Record of the abstract log.
LEMMA RecordTurnImplementsRecord ==
  ASSUME Inv, NEW s \in SessionIds, NEW e \in Entries, RecordTurn(s, e)
  PROVE  Log!Record(s, e)
<1> DEFINE held == ToSet(keys')
           updated == [session EXCEPT ![s] = AddTurn(@, e)]
<1>1. keys' = Evict(MoveToEnd(keys, s)) /\ session' = Kept(keys', updated)
  BY DEF RecordTurn
<1>2. held \in Log!Held(s) /\ held \subseteq SessionIds
  BY <1>1, UseHolds, InvRecordTurn, RangeOfSeq DEF Inv, ToSet
<1>3. session \in [SessionIds -> Session]
  BY DEF Inv
<1>4. \A t \in held : EntriesIn(Whole(session[t])) = Log!EntriesOf(t)
  <2> TAKE t \in held
  <2>1. CASE t \in ToSet(keys)
    BY <2>1 DEF Log!EntriesOf, AllTurns
  <2>2. CASE t \notin ToSet(keys)
    BY <1>2, <2>2, EntriesOfNew DEF Log!EntriesOf, Inv
  <2> QED BY <2>1, <2>2
<1>5. ASSUME NEW t \in held
      PROVE  EntriesIn(AllTurns(t))' =
               IF t = s THEN Append(Log!EntriesOf(s), e) ELSE Log!EntriesOf(t)
  <2>1. session'[t] = IF t = s THEN AddTurn(session[s], e) ELSE session[t]
    BY <1>1, <1>2, <1>3 DEF Kept
  <2>2. EntriesIn(AllTurns(t))' = EntriesIn(Whole(session'[t]))
    BY DEF AllTurns, Whole, EntriesIn
  <2>3. CASE t # s
    BY <1>4, <2>1, <2>2, <2>3
  <2>4. CASE t = s
    <3> DEFINE turn == [id |-> NextTurnId(session[s]), entry |-> e]
    <3>1. Whole(AddTurn(session[s], e)) = Append(Whole(session[s]), turn)
      BY <1>3, AddTurnProperties
    <3>2. Whole(session[s]) \in Seq(Turn)
      BY <1>3, ConcatProperties DEF Session, Whole
    <3>3. turn \in Turn /\ turn.entry = e
      BY <1>3, LenProperties DEF Session, Turn, NextTurnId
    <3> HIDE DEF turn
    <3>4. EntriesIn(Append(Whole(session[s]), turn)) = Append(EntriesIn(Whole(session[s])), e)
      BY <3>2, <3>3, EntriesOfAppend
    <3> QED BY <1>4, <2>1, <2>2, <2>4, <3>1, <3>4
  <2> QED BY <2>3, <2>4
<1>6. [t \in held |-> EntriesIn(AllTurns(t))'] =
        [t \in held |-> IF t = s THEN Append(Log!EntriesOf(s), e) ELSE Log!EntriesOf(t)]
  BY <1>5
<1> QED BY <1>2, <1>6 DEF Log!Record

\* Reset is a Forget of the abstract log, or changes nothing in it.
LEMMA ResetImplementsForget ==
  ASSUME Inv, NEW s \in SessionIds, Reset(s)
  PROVE  Log!Forget(s)
<1> DEFINE held == ToSet(keys')
<1>1. keys' = RemoveFirst(keys, s) /\ session' = Kept(keys', session)
  BY DEF Reset
<1>2. held = ToSet(keys) \ {s} /\ ToSet(keys) \subseteq SessionIds
  <2>1. keys \in Seq(SessionIds) /\ Distinct(keys)
    BY DEF Inv
  <2>2. held = ToSet(keys) \ {s}
    BY <1>1, <2>1, RemoveFirstProperties
  <2>3. ToSet(keys) \subseteq SessionIds
    BY <2>1, LenProperties, ElementOfSeq DEF ToSet
  <2> QED BY <2>2, <2>3
<1>3. ASSUME NEW t \in held
      PROVE  EntriesIn(AllTurns(t))' = [u \in ToSet(keys) |-> EntriesIn(AllTurns(u))][t]
  <2>1. session'[t] = session[t] /\ t \in ToSet(keys)
    BY <1>1, <1>2 DEF Kept
  <2> QED BY <2>1 DEF AllTurns, Whole, EntriesIn
<1> QED BY <1>2, <1>3 DEF Log!Forget

\* A reader who puts the summary before the window sees a plain log of every
\* session held; sessions are forgotten whole, and never the one in use.
THEOREM StoreImplementsLog == Spec => ImplementsSessionLog
<1>1. Init => Log!Init
  <2> SUFFICES ASSUME Init PROVE Log!Init
    OBVIOUS
  <2>1. ToSet(keys) = {}
    BY DEF Init, ToSet
  <2> QED BY <2>1 DEF Log!Init
<1>2. Inv /\ [Next]_vars => [Log!Next]_([s \in ToSet(keys) |-> EntriesIn(AllTurns(s))])
  <2> SUFFICES ASSUME Inv, [Next]_vars
               PROVE  [Log!Next]_([s \in ToSet(keys) |-> EntriesIn(AllTurns(s))])
    OBVIOUS
  <2>1. ASSUME NEW s \in SessionIds, Get(s) PROVE Log!Next
    BY <2>1, GetImplementsUse DEF Log!Next
  <2>2. ASSUME NEW s \in SessionIds, NEW e \in Entries, RecordTurn(s, e) PROVE Log!Next
    BY <2>2, RecordTurnImplementsRecord DEF Log!Next
  <2>3. ASSUME NEW s \in SessionIds, Reset(s) PROVE Log!Next
    BY <2>3, ResetImplementsForget DEF Log!Next
  <2>4. CASE UNCHANGED vars
    BY <2>4 DEF vars, AllTurns, Whole, EntriesIn, ToSet
  <2> QED BY <2>1, <2>2, <2>3, <2>4 DEF Next
<1> QED BY <1>1, <1>2, InvAlways, PTL DEF Spec, ImplementsSessionLog, Log!Spec

(***************************************************************************)
(* The order of the keys is the order of the sessions' last uses.  The     *)
(* times of use are ranks: the used sessions have the numbers from 1 to    *)
(* their count, no two the same.                                           *)
(***************************************************************************)
Used(rank) == {u \in SessionIds : rank[u] > 0}

Ranked(rank) ==
  /\ rank \in [SessionIds -> Nat]
  /\ IsFiniteSet(Used(rank))
  /\ \A u \in SessionIds : rank[u] <= Cardinality(Used(rank))
  /\ \A u, v \in Used(rank) : rank[u] = rank[v] => u = v

Ordered(ks, rank) ==
  \A i, j \in DOMAIN ks : i < j => rank[ks[i]] < rank[ks[j]]

\* The ranks when s has been used: the ranks UseNow gives.
Reranked(rank, s) ==
  [t \in SessionIds |->
    IF t = s THEN Cardinality(Used(rank) \cup {s})
    ELSE IF rank[s] > 0 /\ rank[t] > rank[s] THEN rank[t] - 1
    ELSE rank[t]]

\* A use gives the ranks their new values.
LEMMA UseReranks ==
  ASSUME NEW s \in SessionIds, UseNow(s)
  PROVE  lastUse' = Reranked(lastUse, s)
BY DEF UseNow, Reranked, Used

\* A use makes the used session the highest and keeps the order of the others.
LEMMA RerankedProperties ==
  ASSUME NEW rank, Ranked(rank), NEW s \in SessionIds
  PROVE  /\ Ranked(Reranked(rank, s))
         /\ \A t \in SessionIds \ {s} : Reranked(rank, s)[t] < Reranked(rank, s)[s]
         /\ \A t, u \in SessionIds \ {s} :
              rank[t] < rank[u] => Reranked(rank, s)[t] < Reranked(rank, s)[u]
<1> DEFINE new == Reranked(rank, s)
           n == Cardinality(Used(rank))
           m == Cardinality(Used(rank) \cup {s})
<1>1. /\ rank \in [SessionIds -> Nat]
      /\ \A u \in SessionIds : rank[u] <= n
      /\ \A u, v \in SessionIds : rank[u] > 0 /\ rank[u] = rank[v] => u = v
  BY DEF Ranked, Used
<1>2. IsFiniteSet(Used(rank)) /\ n \in Nat
  BY FS_CardinalityType DEF Ranked
<1>3. /\ IsFiniteSet(Used(rank) \cup {s})
      /\ m = IF rank[s] > 0 THEN n ELSE n + 1
  <2>1. s \in Used(rank) <=> rank[s] > 0
    BY DEF Used
  <2>2. /\ IsFiniteSet(Used(rank) \cup {s})
        /\ m = IF s \in Used(rank) THEN n ELSE n + 1
    BY <1>2, FS_AddElement
  <2> QED BY <2>1, <2>2
<1>4. new[s] = m
  BY DEF Reranked
<1>5. ASSUME NEW t \in SessionIds, t # s
      PROVE  new[t] = IF rank[s] > 0 /\ rank[t] > rank[s] THEN rank[t] - 1 ELSE rank[t]
  BY <1>5 DEF Reranked
<1>6. DOMAIN new = SessionIds /\ new = [t \in SessionIds |-> new[t]]
  BY DEF Reranked
<1> HIDE DEF new, n, m
<1>7. m \in Nat /\ m >= 1 /\ m >= n
  <2>1. rank[s] \in Nat /\ rank[s] <= n
    BY <1>1
  <2> QED BY <1>2, <1>3, <2>1
<1>8. ASSUME NEW t \in SessionIds, t # s
      PROVE  new[t] \in Nat /\ new[t] < m /\ (new[t] > 0 <=> rank[t] > 0)
  <2>1. rank[s] \in Nat /\ rank[t] \in Nat /\ rank[t] <= n /\ rank[s] <= n
    BY <1>1
  <2>2. rank[s] > 0 => rank[s] # rank[t]
    BY <1>1, <1>8
  <2> QED BY <1>2, <1>3, <1>5, <1>7, <1>8, <2>1, <2>2
<1>9. new \in [SessionIds -> Nat]
  BY <1>4, <1>6, <1>7, <1>8
<1>10. Used(new) = Used(rank) \cup {s}
  BY <1>4, <1>7, <1>8 DEF Used
<1>11. \A u \in SessionIds : new[u] <= Cardinality(Used(new))
  <2>1. Cardinality(Used(new)) = m
    BY <1>10 DEF m
  <2>2. ASSUME NEW u \in SessionIds PROVE new[u] <= m
    BY <1>4, <1>7, <1>8
  <2> QED BY <2>1, <2>2
<1>12. ASSUME NEW t \in SessionIds \ {s}, NEW u \in SessionIds \ {s}, rank[t] < rank[u]
       PROVE  new[t] < new[u]
  <2>1. rank[s] \in Nat /\ rank[t] \in Nat /\ rank[u] \in Nat
    BY <1>1
  <2>2. rank[s] > 0 => rank[s] # rank[t] /\ rank[s] # rank[u]
    BY <1>1
  <2>3. /\ new[t] = IF rank[s] > 0 /\ rank[t] > rank[s] THEN rank[t] - 1 ELSE rank[t]
        /\ new[u] = IF rank[s] > 0 /\ rank[u] > rank[s] THEN rank[u] - 1 ELSE rank[u]
    BY <1>5
  <2> QED BY <1>12, <2>1, <2>2, <2>3
<1>13. \A u, v \in Used(new) : new[u] = new[v] => u = v
  <2> SUFFICES ASSUME NEW u \in SessionIds, NEW v \in SessionIds,
                      new[u] > 0, new[v] > 0, new[u] = new[v], u # v
               PROVE  FALSE
    BY DEF Used
  <2>1. CASE u = s \/ v = s
    <3>1. new[u] \in Nat /\ new[v] \in Nat
      BY <1>9
    <3> QED BY <1>4, <1>7, <1>8, <2>1, <3>1
  <2>2. CASE u # s /\ v # s
    <3>1. rank[u] > 0 /\ rank[v] > 0 /\ rank[u] \in Nat /\ rank[v] \in Nat
      BY <1>1, <1>8, <2>2
    <3>2. rank[u] # rank[v]
      BY <1>1, <3>1
    <3>3. rank[u] < rank[v] \/ rank[v] < rank[u]
      BY <3>1, <3>2
    <3>4. new[u] < new[v] \/ new[v] < new[u]
      BY <1>12, <2>2, <3>3
    <3>5. new[u] \in Nat /\ new[v] \in Nat
      BY <1>9
    <3> QED BY <3>4, <3>5
  <2> QED BY <2>1, <2>2
<1>14. Ranked(new)
  BY <1>3, <1>9, <1>10, <1>11, <1>13 DEF Ranked
<1>15. \A t \in SessionIds \ {s} : new[t] < new[s]
  BY <1>4, <1>8
<1> QED BY <1>12, <1>14, <1>15 DEF new

\* What follows the order of ordered keys is ordered.
LEMMA FollowsOrdered ==
  ASSUME NEW ks, NEW left, NEW rank, Follows(left, ks), Ordered(ks, rank)
  PROVE  Ordered(left, rank)
BY DEF Follows, Ordered

\* A key moved to the end leaves the keys before it in their order.
LEMMA MoveToEndOrders ==
  ASSUME NEW ks \in Seq(SessionIds), Distinct(ks), NEW s \in SessionIds,
         NEW rank, Ordered(ks, rank)
  PROVE  \A i, j \in DOMAIN MoveToEnd(ks, s) :
           i < j /\ MoveToEnd(ks, s)[j] # s =>
             rank[MoveToEnd(ks, s)[i]] < rank[MoveToEnd(ks, s)[j]]
<1> DEFINE rest == RemoveFirst(ks, s)
           moved == MoveToEnd(ks, s)
<1>1. rest \in Seq(SessionIds) /\ Follows(rest, ks)
  BY RemoveFirstProperties
<1>2. Ordered(rest, rank)
  BY <1>1, FollowsOrdered
<1>3. moved = Append(rest, s)
  BY DEF MoveToEnd
<1> HIDE DEF rest, moved
<1>4. Len(rest) \in Nat /\ DOMAIN rest = 1..Len(rest)
  BY <1>1, LenProperties
<1>5. /\ DOMAIN moved = 1..Len(rest) + 1
      /\ \A i \in 1..Len(rest) : moved[i] = rest[i]
      /\ moved[Len(rest) + 1] = s
  <2>1. /\ moved \in Seq(SessionIds) /\ Len(moved) = Len(rest) + 1
        /\ \A i \in 1..Len(rest) : moved[i] = rest[i]
        /\ moved[Len(rest) + 1] = s
    BY <1>1, <1>3, AppendProperties
  <2> QED BY <2>1, LenProperties
<1>6. ASSUME NEW i \in DOMAIN moved, NEW j \in DOMAIN moved, i < j, moved[j] # s
      PROVE  rank[moved[i]] < rank[moved[j]]
  <2>1. i \in 1..Len(rest) /\ j \in 1..Len(rest)
    BY <1>4, <1>5, <1>6
  <2>2. rank[rest[i]] < rank[rest[j]]
    BY <1>2, <1>4, <1>6, <2>1 DEF Ordered
  <2> QED BY <1>5, <2>1, <2>2
<1> QED BY <1>6 DEF moved

\* The keys that eviction leaves are the last ones.
LEMMA EvictOrders ==
  ASSUME NEW ks \in Seq(SessionIds), NEW rank, Ordered(ks, rank)
  PROVE  Ordered(Evict(ks), rank)
<1> DEFINE left == Evict(ks)
<1>1. /\ left \in Seq(SessionIds)
      /\ Len(left) = IF Len(ks) <= MaxSessions THEN Len(ks) ELSE MaxSessions
      /\ \A i \in 1..Len(left) : left[i] = ks[Len(ks) - Len(left) + i]
  BY LastNProperties, MemoryAssumption DEF Evict
<1> HIDE DEF left
<1>2. /\ Len(ks) \in Nat /\ Len(left) \in Nat /\ Len(left) <= Len(ks)
      /\ DOMAIN ks = 1..Len(ks) /\ DOMAIN left = 1..Len(left)
  BY <1>1, LenProperties, MemoryAssumption
<1>3. ASSUME NEW i \in 1..Len(left), NEW j \in 1..Len(left), i < j
      PROVE  rank[left[i]] < rank[left[j]]
  <2> DEFINE k == Len(ks) - Len(left) + i
             l == Len(ks) - Len(left) + j
  <2>1. k \in 1..Len(ks) /\ l \in 1..Len(ks) /\ k < l
    BY <1>2, <1>3
  <2>2. left[i] = ks[k] /\ left[j] = ks[l]
    BY <1>1
  <2> HIDE DEF k, l
  <2> QED BY <1>2, <2>1, <2>2 DEF Ordered
<1>4. Ordered(left, rank)
  BY <1>2, <1>3 DEF Ordered
<1> QED BY <1>4 DEF left

(***************************************************************************)
(* The store and the ranks.                                                *)
(***************************************************************************)
HInv == Inv /\ Ranked(lastUse) /\ Ordered(keys, lastUse)

\* The first step needs no use at all.
LEMMA HInvInit == HInit => HInv
<1> SUFFICES ASSUME HInit PROVE HInv
  OBVIOUS
<1>1. Inv
  BY InvInit DEF HInit
<1>2. lastUse \in [SessionIds -> Nat] /\ \A s \in SessionIds : lastUse[s] = 0
  BY DEF HInit
<1>3. Used(lastUse) = {}
  BY <1>2 DEF Used
<1>4. IsFiniteSet({}) /\ Cardinality({}) = 0
  BY FS_EmptySet
<1>5. Ranked(lastUse)
  BY <1>2, <1>3, <1>4 DEF Ranked
<1>6. keys = << >>
  BY DEF HInit, Init
<1>7. Ordered(<< >>, lastUse)
  BY DEF Ordered
<1> QED BY <1>1, <1>5, <1>6, <1>7 DEF HInv

\* A use keeps the keys in the order of their last use.
LEMMA UseOrders ==
  ASSUME NEW s \in SessionIds, NEW ks \in Seq(SessionIds), Distinct(ks),
         NEW rank, Ranked(rank), Ordered(ks, rank)
  PROVE  Ordered(Evict(MoveToEnd(ks, s)), Reranked(rank, s))
<1> DEFINE moved == MoveToEnd(ks, s)
           new == Reranked(rank, s)
<1>1. /\ moved \in Seq(SessionIds) /\ Distinct(moved)
      /\ moved[Len(moved)] = s
  BY MoveToEndProperties
<1>2. \A i, j \in DOMAIN moved :
        i < j /\ moved[j] # s => rank[moved[i]] < rank[moved[j]]
  BY MoveToEndOrders
<1>3. /\ \A t \in SessionIds \ {s} : new[t] < new[s]
      /\ \A t, u \in SessionIds \ {s} : rank[t] < rank[u] => new[t] < new[u]
  BY RerankedProperties
<1> HIDE DEF moved, new
<1>4. Len(moved) \in Nat /\ DOMAIN moved = 1..Len(moved)
      /\ \A i \in 1..Len(moved) : moved[i] \in SessionIds
  BY <1>1, LenProperties, ElementOfSeq
<1>5. ASSUME NEW i \in DOMAIN moved, NEW j \in DOMAIN moved, i < j
      PROVE  new[moved[i]] < new[moved[j]]
  <2>1. moved[i] \in SessionIds /\ moved[j] \in SessionIds
    BY <1>4
  <2>2. moved[i] # s
    <3>1. Len(moved) \in DOMAIN moved /\ i # Len(moved)
      BY <1>4, <1>5
    <3> QED BY <1>1, <3>1 DEF Distinct
  <2>3. CASE moved[j] = s
    BY <1>3, <2>1, <2>2, <2>3
  <2>4. CASE moved[j] # s
    BY <1>2, <1>3, <1>5, <2>1, <2>2, <2>4
  <2> QED BY <2>3, <2>4
<1>6. Ordered(moved, new)
  BY <1>5 DEF Ordered
<1>7. Ordered(Evict(moved), new)
  BY <1>1, <1>6, EvictOrders
<1> QED BY <1>7 DEF moved, new

\* A use drops nothing, or the first key, and then it brings a new session.
LEMMA UseDropsFirst ==
  ASSUME NEW s \in SessionIds, NEW ks \in Seq(SessionIds), Distinct(ks),
         Len(ks) <= MaxSessions, NEW rank, Ordered(ks, rank),
         NEW gone \in ToSet(ks) \ ToSet(Evict(MoveToEnd(ks, s))),
         NEW t \in ToSet(Evict(MoveToEnd(ks, s))) \cap ToSet(ks)
  PROVE  rank[gone] < rank[t]
<1> DEFINE moved == MoveToEnd(ks, s)
           left == Evict(moved)
<1>1. /\ moved \in Seq(SessionIds) /\ Distinct(moved)
      /\ ToSet(moved) = ToSet(ks) \cup {s}
      /\ Len(moved) = IF s \in ToSet(ks) THEN Len(ks) ELSE Len(ks) + 1
      /\ moved[Len(moved)] = s
  BY MoveToEndProperties
<1>2. \A i, j \in DOMAIN moved :
        i < j /\ moved[j] # s => rank[moved[i]] < rank[moved[j]]
  BY MoveToEndOrders
<1> HIDE DEF moved
<1>3. /\ Len(moved) \in Nat /\ Len(ks) \in Nat /\ DOMAIN moved = 1..Len(moved)
      /\ MaxSessions \in Nat
  BY <1>1, LenProperties, MemoryAssumption
<1>4. Len(moved) <= MaxSessions + 1 /\ moved # << >>
  <2>1. Len(moved) <= MaxSessions + 1
    BY <1>1, <1>3
  <2>2. s \in ToSet(moved)
    BY <1>1
  <2>3. ToSet(<< >>) = {}
    BY DEF ToSet
  <2> QED BY <2>1, <2>2, <2>3
<1>5. ToSet(left) = IF Len(moved) <= MaxSessions THEN ToSet(moved)
                      ELSE ToSet(moved) \ {moved[1]}
  BY <1>1, <1>4, EvictProperties
<1>6. /\ gone \in ToSet(moved) /\ gone \notin ToSet(left) /\ gone \in ToSet(ks)
      /\ t \in ToSet(left) /\ t \in ToSet(ks)
  BY <1>1 DEF moved
<1> HIDE DEF left
<1>7. Len(moved) > MaxSessions /\ gone = moved[1] /\ t \in ToSet(moved) /\ t # moved[1]
  BY <1>3, <1>5, <1>6
<1>8. s \notin ToSet(ks)
  BY <1>1, <1>3, <1>7
<1>9. PICK j \in DOMAIN moved : moved[j] = t
  BY <1>7 DEF ToSet
<1>10. 1 \in DOMAIN moved /\ 1 < j /\ moved[j] # s
  <2>1. j # 1
    BY <1>7, <1>9
  <2>2. j \in 1..Len(moved)
    BY <1>3
  <2>3. moved[j] # s
    BY <1>6, <1>8, <1>9
  <2> QED BY <1>3, <2>1, <2>2, <2>3
<1> QED BY <1>2, <1>7, <1>9, <1>10

\* A use keeps the invariant and drops only what was used before what stays.
LEMMA HUse ==
  ASSUME HInv, Inv', NEW s \in SessionIds, UseNow(s),
         keys' = Evict(MoveToEnd(keys, s))
  PROVE  /\ HInv'
         /\ \A gone \in ToSet(keys) \ ToSet(keys') :
              \A t \in ToSet(keys') \cap ToSet(keys) : lastUse[gone] < lastUse[t]
<1>1. /\ keys \in Seq(SessionIds) /\ Distinct(keys) /\ Len(keys) <= MaxSessions
      /\ Ranked(lastUse) /\ Ordered(keys, lastUse)
  BY DEF HInv, Inv
<1>2. lastUse' = Reranked(lastUse, s)
  BY UseReranks
<1>3. Ranked(lastUse')
  BY <1>1, <1>2, RerankedProperties
<1>4. Ordered(keys', lastUse')
  BY <1>1, <1>2, UseOrders
<1>5. HInv'
  BY <1>3, <1>4 DEF HInv, Ranked, Ordered, Used
<1>6. \A gone \in ToSet(keys) \ ToSet(keys') :
        \A t \in ToSet(keys') \cap ToSet(keys) : lastUse[gone] < lastUse[t]
  BY <1>1, UseDropsFirst
<1> QED BY <1>5, <1>6

\* A reset keeps the invariant and leaves room in the store.
LEMMA HForget ==
  ASSUME HInv, NEW s \in SessionIds, HReset(s)
  PROVE  HInv' /\ (ToSet(keys) # ToSet(keys') => Len(keys') # MaxSessions)
<1>1. /\ keys \in Seq(SessionIds) /\ Distinct(keys) /\ Len(keys) <= MaxSessions
      /\ Ranked(lastUse) /\ Ordered(keys, lastUse)
  BY DEF HInv, Inv
<1>2. keys' = RemoveFirst(keys, s) /\ lastUse' = lastUse
  BY DEF HReset, Reset
<1>3. Inv'
  BY InvReset DEF HInv, HReset
<1>4. /\ ToSet(keys') = ToSet(keys) \ {s}
      /\ Len(keys') = IF s \in ToSet(keys) THEN Len(keys) - 1 ELSE Len(keys)
      /\ Follows(keys', keys)
  BY <1>1, <1>2, RemoveFirstProperties
<1>5. Ordered(keys', lastUse') /\ Ranked(lastUse')
  BY <1>1, <1>2, <1>4, FollowsOrdered
<1>6. HInv'
  BY <1>3, <1>5 DEF HInv, Ranked, Ordered, Used
<1>7. ASSUME ToSet(keys) # ToSet(keys') PROVE Len(keys') # MaxSessions
  <2>1. s \in ToSet(keys)
    BY <1>4, <1>7
  <2>2. Len(keys) \in Nat /\ MaxSessions \in Nat
    BY <1>1, LenProperties, MemoryAssumption
  <2> QED BY <1>1, <1>4, <2>1, <2>2
<1> QED BY <1>6, <1>7

\* One step of the store: what it drops to make room was used before what stays.
Drops ==
  \A gone \in ToSet(keys) \ ToSet(keys') :
    Len(keys') = MaxSessions =>
      \A t \in ToSet(keys') \cap ToSet(keys) : lastUse[gone] < lastUse[t]

\* Every step keeps the invariant and drops the least recently used.
LEMMA HInvNext == HInv /\ [HNext]_hvars => HInv' /\ Drops
<1> SUFFICES ASSUME HInv, [HNext]_hvars PROVE HInv' /\ Drops
  OBVIOUS
<1>0. Inv
  BY DEF HInv
<1>1. ASSUME NEW s \in SessionIds, HGet(s) PROVE HInv' /\ Drops
  <2>1. Get(s) /\ UseNow(s) /\ keys' = Evict(MoveToEnd(keys, s))
    BY <1>1 DEF HGet, Get
  <2>2. Inv'
    BY <1>0, <2>1, InvGet
  <2> QED BY <2>1, <2>2, HUse DEF Drops
<1>2. ASSUME NEW s \in SessionIds, NEW e \in Entries, HRecord(s, e) PROVE HInv' /\ Drops
  <2>1. RecordTurn(s, e) /\ UseNow(s) /\ keys' = Evict(MoveToEnd(keys, s))
    BY <1>2 DEF HRecord, RecordTurn
  <2>2. Inv'
    BY <1>0, <2>1, InvRecordTurn
  <2> QED BY <2>1, <2>2, HUse DEF Drops
<1>3. ASSUME NEW s \in SessionIds, HReset(s) PROVE HInv' /\ Drops
  BY <1>3, HForget DEF Drops
<1>4. CASE UNCHANGED hvars
  <2>1. keys' = keys /\ session' = session /\ lastUse' = lastUse
    BY <1>4 DEF hvars
  <2>2. Inv'
    BY <1>0, <2>1, InvNext DEF vars
  <2>3. Drops
    BY <2>1 DEF Drops
  <2> QED BY <2>1, <2>2, <2>3 DEF HInv, Ranked, Ordered, Used
<1> QED BY <1>1, <1>2, <1>3, <1>4 DEF HNext

\* For every capacity and every set of sessions, a session dropped to make room
\* was used before every session that stays (memory.py:103-111, 148-150).
THEOREM DropsTheLeastRecentlyUsed == HSpec => DropsLeastRecentlyUsed
<1>1. HInit => HInv
  BY HInvInit
<1>2. HInv /\ [HNext]_hvars => HInv' /\ Drops
  BY HInvNext
<1>3. Drops => [\A gone \in ToSet(keys) \ ToSet(keys') :
                  Len(keys') = MaxSessions =>
                    \A s \in ToSet(keys') \cap ToSet(keys) : lastUse[gone] < lastUse[s]]_hvars
  BY DEF Drops
<1> QED BY <1>1, <1>2, <1>3, PTL DEF HSpec, DropsLeastRecentlyUsed
=============================================================================
