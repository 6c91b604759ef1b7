---------------------------- MODULE ClientProofs ----------------------------
(***************************************************************************)
(* The rest of what is proved of the client: the dialog of a line's custom *)
(* fields agrees with the server when it is at rest, and each page keeps   *)
(* the types of its state.  The invariants of PagesProofs carry most of    *)
(* the types already; what they leave out is added here.                   *)
(***************************************************************************)
EXTENDS PagesProofs, WellFoundedInduction

\* Fields of a line have ids of their own.
Keyed(S) ==
    /\ IsFiniteSet(S) /\ S \subseteq [id : Nat \ {0}, name : Names, order : Nat]
    /\ \A f, g \in S : f.id = g.id => f = g

Column(f) == [id |-> f.id, name |-> f.name]

\* The fields of a set as the server lists them.
ListOf(S) == [i \in 1..Cardinality(S) |-> Column(CHOOSE f \in S : Rank(f, S) = i)]

\* What a load of a line brings is the list of its fields.
LEMMA ListedIs == \A l : Listed(l) = ListOf(defined[l])
BY DEF Listed, ListOf, Column

\* Fields with ids of their own are in a strict order.
LEMMA BeforeOrders ==
  ASSUME NEW S, Keyed(S), NEW f \in S, NEW g \in S
  PROVE  /\ f # g => Before(f, g) \/ Before(g, f)
         /\ ~(Before(f, g) /\ Before(g, f))
         /\ ~Before(f, f)
         /\ \A h \in S : Before(f, g) /\ Before(g, h) => Before(f, h)
<1>1. \A h \in S : h.id \in Nat /\ h.order \in Nat BY DEF Keyed
<1>2. f # g => f.id # g.id BY DEF Keyed
<1> QED BY <1>1, <1>2 DEF Before

\* The ranks of the fields number them, in their order.
LEMMA RanksNumber ==
  ASSUME NEW S, Keyed(S)
  PROVE  /\ Cardinality(S) \in Nat
         /\ \A f \in S : Rank(f, S) \in 1..Cardinality(S)
         /\ \A f, g \in S : Before(f, g) <=> Rank(f, S) < Rank(g, S)
         /\ \A f, g \in S : Rank(f, S) = Rank(g, S) => f = g
         /\ \A i \in 1..Cardinality(S) : \E f \in S : Rank(f, S) = i
<1> DEFINE n == Cardinality(S)
           Below(f) == {g \in S : Before(g, f)}
<1>1. IsFiniteSet(S) /\ n \in Nat BY FS_CardinalityType DEF Keyed
<1>2. ASSUME NEW f \in S
      PROVE  /\ IsFiniteSet(Below(f)) /\ Cardinality(Below(f)) \in Nat
             /\ Cardinality(Below(f)) < n
             /\ Rank(f, S) = Cardinality(Below(f)) + 1
  <2>1. Below(f) \in SUBSET S /\ f \notin Below(f) BY BeforeOrders
  <2>2. IsFiniteSet(Below(f)) /\ Cardinality(Below(f)) <= n /\ (n = Cardinality(Below(f)) => S = Below(f))
    BY <1>1, <2>1, FS_Subset
  <2>3. Cardinality(Below(f)) \in Nat BY <2>2, FS_CardinalityType
  <2>4. Rank(f, S) = Cardinality(Below(f)) + 1 BY DEF Rank
  <2> HIDE DEF Below
  <2> QED BY <1>1, <2>1, <2>2, <2>3, <2>4
<1>3. ASSUME NEW f \in S, NEW g \in S, Before(f, g)
      PROVE  Rank(f, S) < Rank(g, S)
  <2>1. Below(f) \in SUBSET Below(g) /\ f \in Below(g) /\ f \notin Below(f)
    BY <1>3, BeforeOrders
  <2>2. IsFiniteSet(Below(g)) BY <1>2
  <2>3. Cardinality(Below(f)) <= Cardinality(Below(g))
        /\ (Cardinality(Below(g)) = Cardinality(Below(f)) => Below(g) = Below(f))
    BY <2>1, <2>2, FS_Subset
  <2>4. /\ Cardinality(Below(f)) \in Nat /\ Cardinality(Below(g)) \in Nat
        /\ Rank(f, S) = Cardinality(Below(f)) + 1 /\ Rank(g, S) = Cardinality(Below(g)) + 1
    BY <1>2
  <2> HIDE DEF Below
  <2> QED BY <2>1, <2>3, <2>4
<1>4. ASSUME NEW f \in S PROVE Rank(f, S) \in 1..n
  <2> HIDE DEF Below, n
  <2> QED BY <1>1, <1>2
<1>5. ASSUME NEW f \in S, NEW g \in S PROVE Before(f, g) <=> Rank(f, S) < Rank(g, S)
  <2>1. Rank(f, S) \in Int /\ Rank(g, S) \in Int BY <1>1, <1>4
  <2> QED BY <1>3, <2>1, BeforeOrders
<1>6. ASSUME NEW f \in S, NEW g \in S, Rank(f, S) = Rank(g, S) PROVE f = g
  <2>1. Rank(f, S) \in Int /\ Rank(g, S) \in Int BY <1>1, <1>4
  <2> QED BY <1>3, <1>6, <2>1, BeforeOrders
<1>7. ASSUME NEW i \in 1..n PROVE \E f \in S : Rank(f, S) = i
  <2> DEFINE rank == [f \in S |-> Rank(f, S)]
  <2>1. rank \in Injection(S, 1..n)
    <3>1. rank \in [S -> 1..n] BY <1>4
    <3>2. IsInjective(rank) BY <1>6 DEF IsInjective
    <3> QED BY <3>1, <3>2 DEF Injection
  <2>2. IsFiniteSet(1..n) /\ Cardinality(1..n) = n
    <3>1. IsFiniteSet(1..n) /\ Cardinality(1..n) = IF 1 > n THEN 0 ELSE n - 1 + 1
      BY <1>1, FS_Interval
    <3> HIDE DEF n
    <3> QED BY <1>1, <3>1
  <2>3. rank \in Surjection(S, 1..n) BY <2>1, <2>2, FS_Injection
  <2> QED BY <2>3 DEF Surjection
<1> QED BY <1>1, <1>4, <1>5, <1>6, <1>7

\* The fields in the order of a listing.
LEMMA InOrder ==
  ASSUME NEW S, Keyed(S)
  PROVE  \E s \in [1..Cardinality(S) -> S] :
            /\ \A f \in S : \E i \in 1..Cardinality(S) : s[i] = f
            /\ \A i, j \in 1..Cardinality(S) : i < j => Before(s[i], s[j])
            /\ ListOf(S) = [i \in 1..Cardinality(S) |-> Column(s[i])]
<1> DEFINE n == Cardinality(S)
           s == [i \in 1..n |-> CHOOSE f \in S : Rank(f, S) = i]
<1>1. \A i \in 1..n : s[i] \in S /\ Rank(s[i], S) = i BY RanksNumber
<1>2. s \in [1..n -> S] BY <1>1
<1>3. ListOf(S) = [i \in 1..n |-> Column(s[i])] BY DEF ListOf
<1> HIDE DEF s, n
<1>4. \A f \in S : \E i \in 1..n : s[i] = f BY <1>1, RanksNumber DEF n
<1>5. \A i, j \in 1..n : i < j => Before(s[i], s[j]) BY <1>1, RanksNumber DEF n
<1> QED BY <1>2, <1>3, <1>4, <1>5 DEF n

\* A sequence of the fields that ascends is what is listed.
LEMMA ListIs ==
  ASSUME NEW S, Keyed(S), NEW n \in Nat, NEW s \in [1..n -> S],
         \A f \in S : \E i \in 1..n : s[i] = f,
         \A i, j \in 1..n : i < j => Before(s[i], s[j])
  PROVE  /\ ListOf(S) = [i \in 1..n |-> ListOf(S)[i]]
         /\ \A i \in 1..n : ListOf(S)[i] = Column(s[i])
<1>1. \A i, j \in 1..n : s[i] = s[j] => i = j
  <2>1. ASSUME NEW i \in 1..n, NEW j \in 1..n, s[i] = s[j], i # j PROVE FALSE
    <3>1. i < j \/ j < i BY <2>1
    <3>2. s[i] \in S OBVIOUS
    <3> QED BY <2>1, <3>1, <3>2, BeforeOrders
  <2> QED BY <2>1
<1>2. s \in Bijection(1..n, S) BY <1>1 DEF Bijection, Injection, Surjection, IsInjective
<1>3. Cardinality(S) = n BY <1>2, FS_CountingElements DEF ExistsBijection
<1>4. ASSUME NEW i \in 1..n PROVE Rank(s[i], S) = i
  <2> DEFINE B == {g \in S : Before(g, s[i])}
             t == [j \in 1..(i - 1) |-> s[j]]
  <2>1. \A j \in 1..(i - 1) : j \in 1..n /\ j < i OBVIOUS
  <2>2. t \in [1..(i - 1) -> B] BY <2>1
  <2>3. \A j, k \in 1..(i - 1) : t[j] = t[k] => j = k BY <1>1, <2>1
  <2>4. ASSUME NEW g \in B PROVE \E j \in 1..(i - 1) : t[j] = g
    <3>1. PICK j \in 1..n : s[j] = g OBVIOUS
    <3>2. s[i] \in S /\ s[j] \in S /\ Before(s[j], s[i]) BY <3>1
    <3>3. j # i /\ ~(i < j) BY <3>2, BeforeOrders
    <3>4. j \in 1..(i - 1) BY <3>1, <3>3
    <3> QED BY <3>1, <3>4
  <2> HIDE DEF B, t
  <2>5. t \in Bijection(1..(i - 1), B)
    BY <2>2, <2>3, <2>4 DEF Bijection, Injection, Surjection, IsInjective
  <2>6. i - 1 \in Nat OBVIOUS
  <2>7. Cardinality(B) = i - 1 BY <2>5, <2>6, FS_CountingElements DEF ExistsBijection
  <2>8. Rank(s[i], S) = Cardinality(B) + 1 BY DEF Rank, B
  <2> QED BY <2>6, <2>7, <2>8
<1>5. ASSUME NEW i \in 1..n PROVE (CHOOSE f \in S : Rank(f, S) = i) = s[i]
  <2>1. s[i] \in S /\ Rank(s[i], S) = i BY <1>4
  <2> QED BY <2>1, RanksNumber
<1>6. ListOf(S) = [i \in 1..n |-> Column(CHOOSE f \in S : Rank(f, S) = i)]
  BY <1>3 DEF ListOf
<1> QED BY <1>5, <1>6

Row == [id : 0..MaxIds, name : Names \cup {""}]

\* No two rows are the same field; those never saved are the last.
OneId(rows) ==
    \A i, j \in DOMAIN rows : (i # j /\ rows[i].id # 0) => rows[i].id # rows[j].id
NewLast(rows) ==
    \A i, j \in DOMAIN rows : (i < j /\ rows[i].id = 0) => rows[j].id = 0

\* The rows of a list of fields have the ids of the fields, each once.
LEMMA RowsAre ==
  ASSUME NEW rows \in FieldRows
  PROVE  /\ Len(rows) \in Nat /\ DOMAIN rows = 1..Len(rows)
         /\ rows \in [1..Len(rows) -> Row]
         /\ rows = [i \in 1..Len(rows) |-> rows[i]]
         /\ \A i \in 1..Len(rows) : /\ rows[i].id \in 0..MaxIds /\ rows[i].id \in Nat
                                    /\ rows[i] = Column(rows[i])
<1>1. rows \in Seq(Row) BY DEF FieldRows, Row
<1>2. Len(rows) \in Nat /\ rows \in [1..Len(rows) -> Row] BY <1>1, LenProperties, ElementOfSeq
<1>3. ASSUME NEW r \in Row PROVE r.id \in 0..MaxIds /\ r.id \in Nat /\ r = Column(r)
  <2>1. r.id \in 0..MaxIds BY DEF Row
  <2>2. r = [id |-> r.id, name |-> r.name] BY DEF Row
  <2> QED BY <2>1, <2>2 DEF Column
<1> HIDE DEF Row
<1> QED BY <1>2, <1>3

\* A row is taken out: the others are there still, in order.
LEMMA RowsRemoved ==
  ASSUME NEW rows \in FieldRows, NEW k \in DOMAIN rows
  PROVE  /\ RemoveAt(rows, k) \in FieldRows /\ Len(RemoveAt(rows, k)) = Len(rows) - 1
         /\ Len(rows) - 1 \in Nat
         /\ RemoveAt(rows, k) = [i \in 1..Len(rows) - 1 |-> IF i < k THEN rows[i] ELSE rows[i + 1]]
<1> DEFINE t == RemoveAt(rows, k)
<1>1. rows \in Seq(Row) BY DEF FieldRows, Row
<1>2. /\ t \in Seq(Row) /\ Len(t) = Len(rows) - 1
      /\ \A i \in 1..Len(rows) - 1 : t[i] = IF i < k THEN rows[i] ELSE rows[i + 1]
  BY <1>1, RemovedElement
<1>3. Len(rows) - 1 \in Nat /\ k \in 1..Len(rows) BY RowsAre
<1> HIDE DEF t
<1>4. t \in FieldRows BY <1>2 DEF FieldRows, Row
<1>5. t = [i \in 1..Len(t) |-> t[i]] BY <1>4, RowsAre
<1>6. t = [i \in 1..Len(rows) - 1 |-> t[i]] BY <1>2, <1>5
<1> QED BY <1>2, <1>3, <1>4, <1>6 DEF t

\* Taking a row out keeps the others, their order and their ids.
LEMMA IdsRemoved ==
  ASSUME NEW rows \in FieldRows, NEW k \in DOMAIN rows
  PROVE  /\ OneId(rows) => /\ OneId(RemoveAt(rows, k))
                           /\ Ids(RemoveAt(rows, k)) = Ids(rows) \ {rows[k].id}
         /\ NewLast(rows) => NewLast(RemoveAt(rows, k))
         /\ \A i \in DOMAIN RemoveAt(rows, k) : \E j \in DOMAIN rows : RemoveAt(rows, k)[i] = rows[j]
         /\ \A j \in DOMAIN rows : j # k => \E i \in DOMAIN RemoveAt(rows, k) : RemoveAt(rows, k)[i] = rows[j]
<1> DEFINE t == RemoveAt(rows, k)
           n == Len(rows)
           from(i) == IF i < k THEN i ELSE i + 1
<1>1. n \in Nat /\ DOMAIN rows = 1..n /\ k \in 1..n /\ (\A i \in 1..n : rows[i].id \in Nat)
  BY RowsAre
<1>2. t = [i \in 1..n - 1 |-> IF i < k THEN rows[i] ELSE rows[i + 1]]
  BY RowsRemoved
<1> HIDE DEF t, n
<1>3. DOMAIN t = 1..n - 1 /\ \A i \in 1..n - 1 : t[i] = rows[from(i)] BY <1>2
<1>4. /\ \A i \in 1..n - 1 : from(i) \in 1..n /\ from(i) # k
      /\ \A i, j \in 1..n - 1 : (i < j => from(i) < from(j)) /\ (i # j => from(i) # from(j))
  BY <1>1
<1>5. \A j \in 1..n : j # k => \E i \in 1..n - 1 : from(i) = j
  <2>1. ASSUME NEW j \in 1..n, j # k PROVE \E i \in 1..n - 1 : from(i) = j
    <3>1. CASE j < k
      <4>1. j \in 1..n - 1 /\ from(j) = j BY <1>1, <2>1, <3>1
      <4> QED BY <4>1
    <3>2. CASE ~(j < k)
      <4>1. j - 1 \in 1..n - 1 /\ from(j - 1) = j BY <1>1, <2>1, <3>2
      <4> QED BY <4>1
    <3> QED BY <3>1, <3>2
  <2> QED BY <2>1
<1> HIDE DEF from
<1>6. OneId(rows) => OneId(t) BY <1>1, <1>3, <1>4 DEF OneId
<1>7. NewLast(rows) => NewLast(t) BY <1>1, <1>3, <1>4 DEF NewLast
<1>8. ASSUME OneId(rows) PROVE Ids(t) = Ids(rows) \ {rows[k].id}
  <2>1. ASSUME NEW x \in Ids(t) PROVE x \in Ids(rows) \ {rows[k].id}
    <3>1. PICK i \in 1..n - 1 : x = t[i].id /\ x # 0 BY <2>1, <1>3 DEF Ids
    <3>2. x = rows[from(i)].id /\ from(i) \in 1..n /\ from(i) # k BY <1>3, <1>4, <3>1
    <3>3. x # rows[k].id BY <1>1, <1>8, <3>1, <3>2 DEF OneId
    <3> QED BY <1>1, <3>1, <3>2, <3>3 DEF Ids
  <2>2. ASSUME NEW x \in Ids(rows) \ {rows[k].id} PROVE x \in Ids(t)
    <3>1. PICK j \in 1..n : x = rows[j].id /\ x # 0 /\ j # k BY <2>2, <1>1 DEF Ids
    <3>2. PICK i \in 1..n - 1 : from(i) = j BY <1>5, <3>1
    <3>3. x = t[i].id BY <1>3, <3>1, <3>2
    <3> QED BY <1>3, <3>1, <3>3 DEF Ids
  <2> QED BY <2>1, <2>2
<1>9. \A i \in DOMAIN t : \E j \in DOMAIN rows : t[i] = rows[j] BY <1>1, <1>3, <1>4
<1>10. \A j \in DOMAIN rows : j # k => \E i \in DOMAIN t : t[i] = rows[j] BY <1>1, <1>3, <1>5
<1> QED BY <1>6, <1>7, <1>8, <1>9, <1>10 DEF t

\* What the server lists are the fields, each once.
LEMMA ListShows ==
  ASSUME NEW S, Keyed(S)
  PROVE  /\ DOMAIN ListOf(S) = 1..Cardinality(S) /\ Cardinality(S) \in Nat
         /\ \A i \in DOMAIN ListOf(S) : \E f \in S : ListOf(S)[i] = Column(f)
         /\ \A f \in S : \E i \in DOMAIN ListOf(S) : ListOf(S)[i] = Column(f)
         /\ \A i \in DOMAIN ListOf(S) : ListOf(S)[i].id \in Nat \ {0}
         /\ OneId(ListOf(S)) /\ NewLast(ListOf(S))
         /\ Ids(ListOf(S)) = {f.id : f \in S}
<1> DEFINE n == Cardinality(S)
<1>1. PICK s \in [1..n -> S] :
         /\ \A f \in S : \E i \in 1..n : s[i] = f
         /\ \A i, j \in 1..n : i < j => Before(s[i], s[j])
         /\ ListOf(S) = [i \in 1..n |-> Column(s[i])]
  BY InOrder
<1>2. n \in Nat BY RanksNumber
<1> DEFINE t == ListOf(S)
<1>3. DOMAIN t = 1..n /\ \A i \in 1..n : t[i] = Column(s[i]) /\ s[i] \in S BY <1>1
<1>4. \A f \in S : f.id \in Nat \ {0} /\ Column(f).id = f.id BY DEF Keyed, Column
<1> HIDE DEF t, n
<1>5. \A i \in DOMAIN t : t[i].id = s[i].id /\ t[i].id \in Nat \ {0} BY <1>3, <1>4
<1>6. OneId(t)
  <2>1. ASSUME NEW i \in 1..n, NEW j \in 1..n, i # j PROVE s[i].id # s[j].id
    <3>1. Before(s[i], s[j]) \/ Before(s[j], s[i]) BY <1>1, <1>2, <2>1
    <3>2. s[i] # s[j] BY <1>3, <3>1, BeforeOrders
    <3> QED BY <1>3, <3>2 DEF Keyed
  <2> QED BY <1>3, <1>5, <2>1 DEF OneId
<1>7. NewLast(t) BY <1>5 DEF NewLast
<1>8. Ids(t) = {f.id : f \in S}
  <2>1. \A x \in Ids(t) : \E f \in S : x = f.id BY <1>3, <1>5 DEF Ids
  <2>2. ASSUME NEW f \in S PROVE f.id \in Ids(t)
    <3>1. PICK i \in 1..n : s[i] = f BY <1>1
    <3>2. t[i].id = f.id /\ f.id # 0 /\ i \in DOMAIN t BY <1>3, <1>4, <1>5, <3>1
    <3> QED BY <3>2 DEF Ids
  <2> QED BY <2>1, <2>2
<1>9. \A f \in S : \E i \in DOMAIN t : t[i] = Column(f) BY <1>1, <1>3
<1> QED BY <1>2, <1>3, <1>5, <1>6, <1>7, <1>8, <1>9 DEF t, n

\* Without one field the listing is that without its row.
LEMMA ListWithout ==
  ASSUME NEW S, Keyed(S), NEW rows \in FieldRows, rows = ListOf(S), NEW k \in DOMAIN rows
  PROVE  ListOf({f \in S : f.id # rows[k].id}) = RemoveAt(rows, k)
<1> DEFINE n == Cardinality(S)
           T == {f \in S : f.id # rows[k].id}
           from(i) == IF i < k THEN i ELSE i + 1
<1>1. PICK s \in [1..n -> S] :
         /\ \A f \in S : \E i \in 1..n : s[i] = f
         /\ \A i, j \in 1..n : i < j => Before(s[i], s[j])
         /\ ListOf(S) = [i \in 1..n |-> Column(s[i])]
  BY InOrder
<1>2. n \in Nat BY RanksNumber
<1>3. DOMAIN rows = 1..n /\ k \in 1..n /\ \A i \in 1..n : rows[i] = Column(s[i]) /\ s[i] \in S
  BY <1>1
<1>4. Keyed(T) BY FS_Subset DEF Keyed
<1> DEFINE t == [i \in 1..n - 1 |-> s[from(i)]]
<1> HIDE DEF n
<1>5. \A i \in 1..n : i # k => s[i].id # s[k].id
  <2>1. ASSUME NEW i \in 1..n, i # k PROVE s[i].id # s[k].id
    <3>1. Before(s[i], s[k]) \/ Before(s[k], s[i]) BY <1>1, <1>2, <1>3, <2>1
    <3>2. s[i] # s[k] BY <1>3, <3>1, BeforeOrders
    <3> QED BY <1>3, <3>2 DEF Keyed
  <2> QED BY <2>1
<1>6. rows[k].id = s[k].id BY <1>3 DEF Column
<1>7. n - 1 \in Nat /\ \A i \in 1..n - 1 : from(i) \in 1..n /\ from(i) # k BY <1>2, <1>3
<1>8. \A i, j \in 1..n - 1 : i < j => from(i) < from(j) BY <1>2, <1>3
<1>9. \A j \in 1..n : j # k => \E i \in 1..n - 1 : from(i) = j
  <2>1. ASSUME NEW j \in 1..n, j # k PROVE \E i \in 1..n - 1 : from(i) = j
    <3>1. CASE j < k
      <4>1. j \in 1..n - 1 /\ from(j) = j BY <1>2, <1>3, <2>1, <3>1
      <4> QED BY <4>1
    <3>2. CASE ~(j < k)
      <4>1. j - 1 \in 1..n - 1 /\ from(j - 1) = j BY <1>2, <1>3, <2>1, <3>2
      <4> QED BY <4>1
    <3> QED BY <3>1, <3>2
  <2> QED BY <2>1
<1>10. Len(rows) = n BY <1>2, <1>3, RowsAre
<1>11. RemoveAt(rows, k) = [i \in 1..n - 1 |-> rows[from(i)]]
  <2>1. RemoveAt(rows, k) = [i \in 1..n - 1 |-> IF i < k THEN rows[i] ELSE rows[i + 1]]
    BY <1>10, RowsRemoved
  <2> QED BY <2>1
<1> HIDE DEF from
<1>12. t \in [1..n - 1 -> T] BY <1>3, <1>5, <1>6, <1>7
<1>13. \A i, j \in 1..n - 1 : i < j => Before(t[i], t[j]) BY <1>1, <1>7, <1>8
<1>14. ASSUME NEW f \in T PROVE \E i \in 1..n - 1 : t[i] = f
  <2>1. PICK j \in 1..n : s[j] = f BY <1>1
  <2>2. j # k BY <1>6, <2>1
  <2>3. PICK i \in 1..n - 1 : from(i) = j BY <1>9, <2>2
  <2> QED BY <2>1, <2>3
<1> HIDE DEF t, T
<1>15. /\ ListOf(T) = [i \in 1..n - 1 |-> ListOf(T)[i]]
       /\ \A i \in 1..n - 1 : ListOf(T)[i] = Column(t[i])
  BY <1>4, <1>7, <1>12, <1>13, <1>14, ListIs
<1>16. \A i \in 1..n - 1 : Column(t[i]) = rows[from(i)] BY <1>3, <1>7 DEF t
<1>17. ListOf(T) = RemoveAt(rows, k) BY <1>11, <1>15, <1>16
<1> QED BY <1>17 DEF T

\* Rows that were all saved are listed in the order of the dialog.
LEMMA ListSaved ==
  ASSUME NEW S, Keyed(S), NEW rows \in FieldRows,
         \A i \in DOMAIN rows : Stored(rows[i], i) \in S /\ rows[i].id # 0,
         \A f \in S : \E i \in DOMAIN rows : f = Stored(rows[i], i)
  PROVE  ListOf(S) = rows
<1> DEFINE n == Len(rows)
           s == [i \in 1..n |-> Stored(rows[i], i)]
<1>1. /\ n \in Nat /\ DOMAIN rows = 1..n
      /\ rows = [i \in 1..n |-> rows[i]] /\ \A i \in 1..n : rows[i] = Column(rows[i])
  BY RowsAre
<1> HIDE DEF n
<1>2. s \in [1..n -> S] /\ \A f \in S : \E i \in 1..n : s[i] = f BY <1>1
<1>3. \A i, j \in 1..n : i < j => Before(s[i], s[j]) BY <1>1 DEF Before, Stored
<1>4. \A i \in 1..n : Column(s[i]) = rows[i] BY <1>1 DEF Stored, Column
<1> HIDE DEF s
<1>5. /\ ListOf(S) = [i \in 1..n |-> ListOf(S)[i]]
      /\ \A i \in 1..n : ListOf(S)[i] = Column(s[i])
  <2>1. n \in Nat BY <1>1
  <2> QED BY <1>2, <1>3, <2>1, ListIs
<1> QED BY <1>1, <1>4, <1>5

\* The types of the dialog, of its requests and of the fields of the server.
ManagerState == [line : Lines \cup {NoLine}, rows : FieldRows, loading : BOOLEAN,
                 saving : BOOLEAN, token : 0..MaxTokens, dirty : BOOLEAN]
FieldLoads == [line : Lines, token : 1..MaxTokens, served : BOOLEAN, rows : FieldRows]
FieldDeletes == [line : Lines, id : 1..MaxIds, index : 1..MaxRows, token : 0..MaxTokens,
                 served : BOOLEAN]
SaverState == [line : Lines \cup {NoLine}, at : Nat, rows : FieldRows, saved : FieldRows,
               token : 0..MaxTokens]
Definitions == [id : 1..MaxIds, name : Names, order : Nat \ {0}]

FieldTypes ==
    /\ manager \in ManagerState /\ fetches \subseteq FieldLoads /\ deletes \subseteq FieldDeletes
    /\ saver \in SaverState /\ (saver # NoSave => saver.line \in Lines)
    /\ defined \in [Lines -> SUBSET Definitions]
    /\ \A l \in Lines : Keyed(defined[l])
    /\ lastId \in 0..MaxIds /\ saveCount \in 0..MaxFieldSaves /\ mishap \in BOOLEAN

\* The bounds are numbers.
LEMMA FieldBounds == MaxIds \in Nat /\ MaxRows \in Nat /\ MaxTokens \in Nat /\ MaxFieldSaves \in Nat
<1>1. {MaxIds, MaxRows, MaxTokens, MaxFieldSaves} \subseteq Nat BY LineFieldsAssumption
<1>2. \A x \in {MaxIds, MaxRows, MaxTokens, MaxFieldSaves} : x \in Nat BY <1>1
<1> QED BY <1>2

\* An empty list of rows.
LEMMA NoRows == <<>> \in FieldRows /\ Len(<<>>) = 0 /\ DOMAIN <<>> = {}
<1>1. <<>> \in Seq(Row) /\ Len(<<>>) = 0 BY EmptySeq
<1>2. <<>> \in FieldRows BY <1>1 DEF FieldRows, Row
<1>3. DOMAIN <<>> = 1..Len(<<>>) BY <1>2, RowsAre
<1> QED BY <1>1, <1>2, <1>3

\* A row more, for a field without an id.
LEMMA RowAppended ==
  ASSUME NEW rows \in FieldRows, NEW r \in Row
  PROVE  /\ Append(rows, r) \in FieldRows /\ Len(Append(rows, r)) = Len(rows) + 1
         /\ \A i \in 1..Len(rows) + 1 :
              Append(rows, r)[i] = IF i <= Len(rows) THEN rows[i] ELSE r
<1>1. rows \in Seq(Row) BY DEF FieldRows, Row
<1>2. Append(rows, r) \in Seq(Row) BY <1>1, AppendProperties
<1>3. Len(rows) \in Nat BY RowsAre
<1>4. Len(Append(rows, r)) = Len(rows) + 1 BY <1>1, AppendProperties
<1>5. \A i \in 1..Len(rows) + 1 : Append(rows, r)[i] = IF i <= Len(rows) THEN rows[i] ELSE r
  BY <1>1, <1>3, AppendProperties
<1> QED BY <1>2, <1>4, <1>5 DEF FieldRows, Row

\* A row is given another name.
LEMMA RowRenamed ==
  ASSUME NEW rows \in FieldRows, NEW i \in DOMAIN rows, NEW n \in Names
  PROVE  /\ [rows EXCEPT ![i].name = n] \in FieldRows
         /\ DOMAIN [rows EXCEPT ![i].name = n] = DOMAIN rows
         /\ \A j \in DOMAIN rows : [rows EXCEPT ![i].name = n][j].id = rows[j].id
<1> DEFINE m == Len(rows)
           t == [rows EXCEPT ![i].name = n]
<1>1. m \in Nat /\ DOMAIN rows = 1..m /\ rows \in [1..m -> Row] BY RowsAre
<1>2. \A r \in Row : [r EXCEPT !.name = n] \in Row /\ [r EXCEPT !.name = n].id = r.id
  BY DEF Row
<1> HIDE DEF Row, m
<1>3. t = [rows EXCEPT ![i] = [rows[i] EXCEPT !.name = n]] OBVIOUS
<1>4. t \in [1..m -> Row] /\ \A j \in 1..m : t[j].id = rows[j].id BY <1>1, <1>2, <1>3
<1>5. t \in Seq(Row) BY <1>1, <1>4, SeqDef
<1> HIDE DEF t
<1> QED BY <1>1, <1>4, <1>5 DEF FieldRows, Row, t

\* What a load brings is a list of rows.
LEMMA ListedTyped ==
  ASSUME FieldTypes, NEW l \in Lines
  PROVE  Listed(l) \in FieldRows
<1> DEFINE n == Cardinality(defined[l])
           t == Listed(l)
<1>1. Keyed(defined[l]) /\ defined[l] \subseteq Definitions /\ t = ListOf(defined[l])
  BY ListedIs DEF FieldTypes
<1>2. n \in Nat /\ DOMAIN t = 1..n /\ \A i \in 1..n : \E f \in defined[l] : t[i] = Column(f)
  BY <1>1, ListShows
<1>3. t = [i \in 1..n |-> t[i]] BY <1>1 DEF ListOf
<1>4. ASSUME NEW f \in Definitions PROVE Column(f) \in Row
  <2>1. f.id \in 1..MaxIds /\ f.name \in Names BY DEF Definitions
  <2>2. f.id \in 0..MaxIds BY <2>1
  <2> QED BY <2>1, <2>2 DEF Column, Row
<1> HIDE DEF t, n, Row
<1>5. \A i \in 1..n : t[i] \in Row BY <1>1, <1>2, <1>4
<1>6. t \in [1..n -> Row] BY <1>3, <1>5
<1>7. t \in Seq(Row) BY <1>2, <1>6, SeqDef
<1> QED BY <1>7 DEF FieldRows, Row, t

\* The state of the dialog is in order at the start,
LEMMA FieldTypesStart == FieldsInit => FieldTypes
<1> SUFFICES ASSUME FieldsInit PROVE FieldTypes
  OBVIOUS
<1>1. NoLine \in Lines \cup {NoLine} /\ 0 \in 0..MaxTokens /\ 0 \in 0..MaxIds
      /\ 0 \in 0..MaxFieldSaves
  BY FieldBounds
<1>2. manager \in ManagerState BY <1>1, NoRows DEF FieldsInit, ManagerState
<1>3. saver \in SaverState /\ saver = NoSave BY <1>1, NoRows DEF FieldsInit, SaverState, NoSave
<1>4. Keyed({}) BY FS_EmptySet DEF Keyed
<1>5. defined \in [Lines -> SUBSET Definitions] /\ \A l \in Lines : Keyed(defined[l])
  BY <1>4 DEF FieldsInit
<1> QED BY <1>1, <1>2, <1>3, <1>5 DEF FieldsInit, FieldTypes

\* and after every step.
LEMMA FieldTypesStep == FieldTypes /\ [FieldsNext]_fieldVars => FieldTypes'
<1> SUFFICES ASSUME FieldTypes, [FieldsNext]_fieldVars PROVE FieldTypes'
  OBVIOUS
<1>0. /\ manager \in ManagerState /\ fetches \subseteq FieldLoads /\ deletes \subseteq FieldDeletes
      /\ saver \in SaverState /\ (saver # NoSave => saver.line \in Lines)
      /\ defined \in [Lines -> SUBSET Definitions] /\ (\A l \in Lines : Keyed(defined[l]))
      /\ lastId \in 0..MaxIds /\ saveCount \in 0..MaxFieldSaves /\ mishap \in BOOLEAN
  BY DEF FieldTypes
<1>m. /\ manager.rows \in FieldRows /\ manager.token \in 0..MaxTokens /\ manager.loading \in BOOLEAN
      /\ manager.line \in Lines \cup {NoLine}
  BY <1>0 DEF ManagerState
<1>d. NoSave \in SaverState BY NoRows, FieldBounds DEF SaverState, NoSave
<1>1. ASSUME NEW l \in Lines, Manage(l) PROVE FieldTypes'
  <2>1. manager.token + 1 \in 1..MaxTokens /\ manager.token + 1 \in 0..MaxTokens
    BY <1>m, <1>1, FieldBounds DEF Manage
  <2>2. manager' \in ManagerState BY <1>0, <1>1, <2>1, NoRows DEF Manage, ManagerState
  <2>3. [line |-> l, token |-> manager.token + 1, served |-> FALSE, rows |-> <<>>] \in FieldLoads
    BY <2>1, NoRows DEF FieldLoads
  <2>4. fetches' \subseteq FieldLoads BY <1>0, <1>1, <2>3 DEF Manage
  <2>5. mishap' \in BOOLEAN BY <1>0, <1>1 DEF Manage, Pending
  <2> QED BY <1>0, <1>1, <2>2, <2>4, <2>5 DEF Manage, FieldTypes
<1>2. CASE CloseManager
  <2>1. manager' \in ManagerState BY <1>0, <1>2, NoRows DEF CloseManager, ManagerState
  <2> QED BY <1>0, <1>2, <2>1 DEF CloseManager, FieldTypes
<1>3. CASE AddField
  <2>1. NewField \in Row BY FieldBounds DEF NewField, Row
  <2>2. Append(manager.rows, NewField) \in FieldRows BY <1>m, <2>1, RowAppended
  <2>3. manager' \in ManagerState BY <1>0, <1>3, <2>2 DEF AddField, ManagerState
  <2> QED BY <1>0, <1>3, <2>3 DEF AddField, FieldTypes
<1>4. CASE SaveFields
  <2>1. manager' \in ManagerState BY <1>0, <1>4 DEF SaveFields, ManagerState
  <2>2. manager.line \in Lines BY <1>m, <1>4 DEF SaveFields, Editable
  <2>3. saver' \in SaverState /\ saver'.line \in Lines
    BY <1>m, <1>4, <2>2, NoRows DEF SaveFields, SaverState
  <2>4. saveCount' \in 0..MaxFieldSaves BY <1>0, <1>4, FieldBounds DEF SaveFields
  <2>5. mishap' \in BOOLEAN BY <1>0, <1>4 DEF SaveFields, Pending
  <2> QED BY <1>0, <1>4, <2>1, <2>3, <2>4, <2>5 DEF SaveFields, FieldTypes
<1>5. ASSUME NEW i \in 1..MaxRows, DeleteField(i) PROVE FieldTypes'
  <2>1. i \in DOMAIN manager.rows /\ manager.line \in Lines
    BY <1>m, <1>5 DEF DeleteField, Editable
  <2>2. UNCHANGED <<fetches, saver, defined, lastId, saveCount>> BY <1>5 DEF DeleteField
  <2>3. CASE manager.rows[i].id = 0
    <3>1. RemoveAt(manager.rows, i) \in FieldRows BY <1>m, <2>1, RowsRemoved
    <3>2. manager' = [manager EXCEPT !.rows = RemoveAt(manager.rows, i)] /\ UNCHANGED <<deletes, mishap>>
      BY <1>5, <2>1, <2>3 DEF DeleteField, WithoutField
    <3>3. manager' \in ManagerState BY <1>0, <3>1, <3>2 DEF ManagerState
    <3> QED BY <1>0, <2>2, <3>2, <3>3 DEF FieldTypes
  <2>4. CASE manager.rows[i].id # 0
    <3> DEFINE d == [line |-> manager.line, id |-> manager.rows[i].id, index |-> i,
                     token |-> manager.token, served |-> FALSE]
    <3>1. manager.rows[i].id \in 1..MaxIds BY <1>m, <2>1, <2>4, RowsAre, FieldBounds
    <3>2. d \in FieldDeletes BY <1>m, <2>1, <3>1 DEF FieldDeletes
    <3>3. deletes' = deletes \cup {d} /\ mishap' \in BOOLEAN /\ UNCHANGED manager
      BY <1>0, <1>5, <2>4 DEF DeleteField, Pending
    <3> QED BY <1>0, <2>2, <3>2, <3>3 DEF FieldTypes
  <2> QED BY <2>3, <2>4
<1>6. ASSUME NEW i \in 1..MaxRows, NEW n \in Names, RenameField(i, n) PROVE FieldTypes'
  <2>1. i \in DOMAIN manager.rows BY <1>6 DEF RenameField
  <2>2. [manager.rows EXCEPT ![i].name = n] \in FieldRows BY <1>m, <2>1, RowRenamed
  <2>3. manager' = [manager EXCEPT !.rows = [manager.rows EXCEPT ![i].name = n], !.dirty = TRUE]
    BY <1>0, <1>6 DEF RenameField, ManagerState
  <2>4. manager' \in ManagerState BY <1>0, <2>2, <2>3 DEF ManagerState
  <2> QED BY <1>0, <1>6, <2>4 DEF RenameField, FieldTypes
<1>7. ASSUME NEW f \in fetches, ServeFields(f) PROVE FieldTypes'
  <2>1. f \in FieldLoads /\ Listed(f.line) \in FieldRows
    BY <1>0, ListedTyped DEF FieldLoads
  <2>2. [f EXCEPT !.served = TRUE, !.rows = Listed(f.line)] \in FieldLoads BY <2>1 DEF FieldLoads
  <2> QED BY <1>0, <1>7, <2>2 DEF ServeFields, FieldTypes
<1>8. ASSUME NEW f \in fetches, FieldsLoaded(f) PROVE FieldTypes'
  <2>1. f.rows \in FieldRows BY <1>0 DEF FieldLoads
  <2>2. manager' \in ManagerState BY <1>0, <1>8, <2>1 DEF FieldsLoaded, ManagerState
  <2> QED BY <1>0, <1>8, <2>2 DEF FieldsLoaded, FieldTypes
<1>9. ASSUME NEW f \in fetches, FieldsNotLoaded(f) PROVE FieldTypes'
  <2>1. manager' \in ManagerState BY <1>0, <1>9 DEF FieldsNotLoaded, ManagerState
  <2>2. mishap' \in BOOLEAN BY <1>0, <1>9 DEF FieldsNotLoaded
  <2> QED BY <1>0, <1>9, <2>1, <2>2 DEF FieldsNotLoaded, FieldTypes
<1>10. ASSUME NEW d \in deletes, ServeDelete(d) PROVE FieldTypes'
  <2>1. d \in FieldDeletes /\ d.line \in Lines BY <1>0 DEF FieldDeletes
  <2>2. [d EXCEPT !.served = TRUE] \in FieldDeletes BY <2>1 DEF FieldDeletes
  <2> DEFINE S == {f \in defined[d.line] : f.id # d.id}
  <2>3. S \subseteq Definitions BY <1>0, <2>1
  <2>4. Keyed(S)
    <3>1. Keyed(defined[d.line]) /\ S \in SUBSET defined[d.line] BY <1>0, <2>1
    <3>2. IsFiniteSet(S) BY <3>1, FS_Subset DEF Keyed
    <3> QED BY <3>1, <3>2 DEF Keyed
  <2>5. defined' = [defined EXCEPT ![d.line] = S] BY <1>10 DEF ServeDelete
  <2> HIDE DEF S
  <2>6. defined' \in [Lines -> SUBSET Definitions] /\ \A l \in Lines : Keyed(defined'[l])
    BY <1>0, <2>1, <2>3, <2>4, <2>5
  <2> QED BY <1>0, <1>10, <2>2, <2>6 DEF ServeDelete, FieldTypes
<1>11. ASSUME NEW d \in deletes, FieldDeleted(d) PROVE FieldTypes'
  <2>1. WithoutField(manager.rows, d.index) \in FieldRows BY <1>m, RowsRemoved DEF WithoutField
  <2>2. manager' \in ManagerState BY <1>0, <1>11, <2>1 DEF FieldDeleted, ManagerState
  <2>3. mishap' \in BOOLEAN BY <1>0, <1>11 DEF FieldDeleted
  <2> QED BY <1>0, <1>11, <2>2, <2>3 DEF FieldDeleted, FieldTypes
<1>12. ASSUME NEW d \in deletes, FieldNotDeleted(d) PROVE FieldTypes'
  <2>1. mishap' \in BOOLEAN BY <1>0, <1>12 DEF FieldNotDeleted, FieldDeletes
  <2> QED BY <1>0, <1>12, <2>1 DEF FieldNotDeleted, FieldTypes
<1>13. CASE SaveRow
  <2> DEFINE row == saver.rows[saver.at]
             given == IF row.id = 0 THEN [row EXCEPT !.id = lastId + 1] ELSE row
             S == {f \in defined[saver.line] : f.id # given.id} \cup {Stored(given, saver.at)}
  <2>1. saver.rows \in FieldRows /\ saver.saved \in FieldRows /\ saver.at \in Nat
    BY <1>0 DEF SaverState
  <2>2. saver.at \in DOMAIN saver.rows /\ saver.at \in Nat \ {0} /\ row \in Row
    BY <1>13, <2>1, RowsAre DEF SaveRow
  <2>3. saver # NoSave /\ saver.line \in Lines
    BY <1>0, <2>2, NoRows DEF NoSave
  <2>n. row.name # "" BY <1>13 DEF SaveRow, Accepted
  <2>4. given.id <= MaxIds BY <1>13 DEF SaveRow
  <2>i. lastId \in 0..MaxIds BY <1>0
  <2>5. given \in Row /\ given.id \in 1..MaxIds /\ given.name \in Names
    <3>1. CASE row.id = 0
      <4>1. given = [row EXCEPT !.id = lastId + 1] BY <3>1
      <4> HIDE DEF given
      <4>2. given.id = lastId + 1 /\ given.name = row.name BY <2>2, <4>1 DEF Row
      <4>3. given.id \in 1..MaxIds /\ given.id \in 0..MaxIds BY <2>4, <2>i, <4>2, FieldBounds
      <4>4. given \in Row BY <2>2, <4>1, <4>2, <4>3 DEF Row
      <4> QED BY <2>2, <2>n, <4>2, <4>3, <4>4 DEF Row
    <3>2. CASE row.id # 0
      <4>1. given = row BY <3>2
      <4>2. row.id \in 0..MaxIds BY <2>2 DEF Row
      <4>3. row.id \in 1..MaxIds BY <3>2, <4>2, FieldBounds
      <4>4. row.name \in Names BY <2>2, <2>n DEF Row
      <4> QED BY <2>2, <4>1, <4>3, <4>4
    <3> QED BY <3>1, <3>2
  <2>6. /\ defined' = [defined EXCEPT ![saver.line] = S]
        /\ lastId' = IF row.id = 0 THEN lastId + 1 ELSE lastId
        /\ saver' = [saver EXCEPT !.at = @ + 1, !.saved = Append(saver.saved, given)]
        /\ UNCHANGED <<manager, fetches, deletes, saveCount, mishap>>
    BY <1>13, <2>2 DEF SaveRow
  <2>7. lastId' \in 0..MaxIds
    <3>1. row.id = 0 => given.id = lastId + 1 BY <2>2 DEF Row
    <3> HIDE DEF given, row
    <3> QED BY <1>0, <2>5, <2>6, <3>1, FieldBounds
  <2>8. Append(saver.saved, given) \in FieldRows BY <2>1, <2>5, RowAppended
  <2>9. S \subseteq Definitions /\ Keyed(S)
    <3> HIDE DEF given, row
    <3> DEFINE R == {f \in defined[saver.line] : f.id # given.id}
    <3>1. Keyed(defined[saver.line]) /\ defined[saver.line] \subseteq Definitions
          /\ R \in SUBSET defined[saver.line]
      BY <1>0, <2>3
    <3>2. IsFiniteSet(R) BY <3>1, FS_Subset DEF Keyed
    <3>3. IsFiniteSet(S) BY <3>2, FS_AddElement
    <3>4. Stored(given, saver.at) \in Definitions /\ Stored(given, saver.at).id = given.id
      BY <2>2, <2>5 DEF Stored, Definitions
    <3>5. S \subseteq Definitions BY <3>1, <3>4
    <3>6. \A f, g \in S : f.id = g.id => f = g BY <3>1, <3>4 DEF Keyed
    <3>7. \A f \in Definitions : f \in [id : Nat \ {0}, name : Names, order : Nat]
      BY FieldBounds DEF Definitions
    <3> HIDE DEF S
    <3> QED BY <3>3, <3>5, <3>6, <3>7 DEF Keyed
  <2> HIDE DEF S, given, row
  <2>10. saver' \in SaverState /\ saver'.line \in Lines
    <3>1. saver.at + 1 \in Nat BY <2>1
    <3> QED BY <1>0, <2>3, <2>6, <2>8, <3>1 DEF SaverState
  <2>11. defined' \in [Lines -> SUBSET Definitions] /\ \A l \in Lines : Keyed(defined'[l])
    BY <1>0, <2>3, <2>6, <2>9
  <2> QED BY <1>0, <2>6, <2>7, <2>10, <2>11 DEF FieldTypes
<1>14. CASE FieldsSaved
  <2>1. saver.saved \in FieldRows BY <1>0 DEF SaverState
  <2>2. manager' \in ManagerState BY <1>0, <1>14, <2>1 DEF FieldsSaved, ManagerState
  <2>3. mishap' \in BOOLEAN BY <1>0, <1>14 DEF FieldsSaved
  <2> QED BY <1>0, <1>14, <1>d, <2>2, <2>3 DEF FieldsSaved, FieldTypes
<1>15. CASE FieldsNotSaved
  <2>1. manager' \in ManagerState BY <1>0, <1>15 DEF FieldsNotSaved, ManagerState
  <2>2. mishap' \in BOOLEAN BY <1>0, <1>15 DEF FieldsNotSaved
  <2> QED BY <1>0, <1>15, <1>d, <2>1, <2>2 DEF FieldsNotSaved, FieldTypes
<1>16. CASE UNCHANGED fieldVars
  BY <1>0, <1>16 DEF fieldVars, FieldTypes
<1> QED BY <1>1, <1>2, <1>3, <1>4, <1>5, <1>6, <1>7, <1>8, <1>9, <1>10, <1>11, <1>12, <1>13,
           <1>14, <1>15, <1>16
        DEF FieldsNext, FetchAnswers, DeleteAnswers, SaverAnswers

\* Rows of the dialog that can be saved: no id twice, and every id was given.
Proper(rows, last) == OneId(rows) /\ NewLast(rows) /\ \A i \in DOMAIN rows : rows[i].id <= last

\* The operations on rows keep ids in them once, and given.
LEMMA ProperRows ==
  ASSUME NEW rows \in FieldRows, NEW last \in Nat, Proper(rows, last)
  PROVE  /\ \A k \in DOMAIN rows : Proper(RemoveAt(rows, k), last)
         /\ \A k \in 1..MaxRows : Proper(WithoutField(rows, k), last)
         /\ Proper(Append(rows, NewField), last)
         /\ \A i \in DOMAIN rows : \A n \in Names : Proper([rows EXCEPT ![i].name = n], last)
<1>1. /\ Len(rows) \in Nat /\ DOMAIN rows = 1..Len(rows)
      /\ \A i \in DOMAIN rows : rows[i].id \in Nat /\ rows[i].id <= last
  BY RowsAre DEF Proper
<1>2. ASSUME NEW k \in DOMAIN rows PROVE Proper(RemoveAt(rows, k), last)
  BY IdsRemoved DEF Proper
<1>3. \A k \in 1..MaxRows : Proper(WithoutField(rows, k), last) BY <1>2 DEF WithoutField
<1>4. Proper(Append(rows, NewField), last)
  <2> DEFINE t == Append(rows, NewField)
             m == Len(rows)
  <2>1. NewField \in Row BY FieldBounds DEF NewField, Row
  <2>2. /\ t \in FieldRows /\ Len(t) = m + 1
        /\ \A i \in 1..m + 1 : t[i] = IF i <= m THEN rows[i] ELSE NewField
    BY <2>1, RowAppended
  <2> HIDE DEF t, m
  <2>3. DOMAIN t = 1..m + 1 BY <2>2, RowsAre
  <2>4. m \in Nat /\ DOMAIN rows = 1..m /\ NewField.id = 0 BY <1>1 DEF m, NewField
  <2>5. \A i \in 1..m + 1 : \/ i \in 1..m /\ t[i].id = rows[i].id
                            \/ i = m + 1 /\ t[i].id = 0
    BY <2>2, <2>4
  <2>6. OneId(t) BY <1>1, <2>3, <2>4, <2>5 DEF OneId, Proper
  <2>7. NewLast(t) BY <1>1, <2>3, <2>4, <2>5 DEF NewLast, Proper
  <2>8. \A i \in DOMAIN t : t[i].id <= last BY <1>1, <2>3, <2>4, <2>5
  <2> QED BY <2>6, <2>7, <2>8 DEF Proper, t
<1>5. ASSUME NEW i \in DOMAIN rows, NEW n \in Names
      PROVE  Proper([rows EXCEPT ![i].name = n], last)
  BY RowRenamed DEF Proper, OneId, NewLast
<1> QED BY <1>2, <1>3, <1>4, <1>5

\* Ids given stay given.
LEMMA ProperLater ==
  ASSUME NEW rows \in FieldRows, NEW m \in Nat, NEW n \in Nat, m <= n, Proper(rows, m)
  PROVE  Proper(rows, n)
<1>1. \A i \in DOMAIN rows : rows[i].id \in Nat BY RowsAre
<1> QED BY <1>1 DEF Proper

RowsProper ==
    /\ Proper(manager.rows, lastId) /\ Proper(saver.rows, lastId) /\ Proper(saver.saved, lastId)
    /\ \A f \in fetches : Proper(f.rows, lastId)
    /\ \A l \in Lines : \A f \in defined[l] : f.id <= lastId

\* A save has the ids of the rows it has stored, and none of those to come.
SavedSoFar ==
    saver # NoSave =>
      /\ saver.at \in 1..Len(saver.rows) + 1 /\ Len(saver.saved) = saver.at - 1
      /\ \A i \in DOMAIN saver.saved :
           /\ saver.saved[i].id # 0
           /\ \A j \in saver.at..Len(saver.rows) : saver.rows[j].id # saver.saved[i].id

\* Before the first load there is no row,
LEMMA RowsProperStart == FieldsInit => RowsProper /\ SavedSoFar
<1> SUFFICES ASSUME FieldsInit PROVE RowsProper /\ SavedSoFar
  OBVIOUS
<1>1. Proper(<<>>, lastId) BY NoRows DEF Proper, OneId, NewLast
<1> QED BY <1>1 DEF FieldsInit, RowsProper, SavedSoFar, NoSave

\* and no step gives two rows one id.
LEMMA RowsProperStep ==
  ASSUME FieldTypes, RowsProper, SavedSoFar, [FieldsNext]_fieldVars
  PROVE  RowsProper' /\ SavedSoFar'
<1>0. /\ manager \in ManagerState /\ fetches \subseteq FieldLoads /\ saver \in SaverState
      /\ defined \in [Lines -> SUBSET Definitions] /\ \A l \in Lines : Keyed(defined[l])
  BY DEF FieldTypes
<1>l. lastId \in Nat
  <2>1. lastId \in 0..MaxIds BY DEF FieldTypes
  <2> QED BY <2>1
<1>m. manager.rows \in FieldRows /\ saver.rows \in FieldRows /\ saver.saved \in FieldRows
  BY <1>0 DEF ManagerState, SaverState
<1>p. /\ Proper(manager.rows, lastId) /\ Proper(saver.rows, lastId) /\ Proper(saver.saved, lastId)
      /\ \A f \in fetches : Proper(f.rows, lastId)
      /\ \A l \in Lines : \A f \in defined[l] : f.id <= lastId
  BY DEF RowsProper
<1>d. Proper(<<>>, lastId) BY NoRows DEF Proper, OneId, NewLast
<1>a. ASSUME Proper(manager'.rows, lastId), UNCHANGED <<saver, defined, lastId>>,
             \A f \in fetches' : f \in fetches \/ Proper(f.rows, lastId)
      PROVE  RowsProper' /\ SavedSoFar'
  BY <1>a, <1>p DEF RowsProper, SavedSoFar
<1>1. ASSUME NEW l \in Lines, Manage(l) PROVE RowsProper' /\ SavedSoFar'
  <2>1. manager'.rows = <<>> BY <1>0, <1>1 DEF Manage, ManagerState
  <2>2. \A f \in fetches' : f \in fetches \/ f.rows = <<>> BY <1>1 DEF Manage
  <2> QED BY <1>a, <1>d, <1>1, <2>1, <2>2 DEF Manage
<1>2. CASE CloseManager
  <2>1. manager'.rows = <<>> BY <1>0, <1>2 DEF CloseManager, ManagerState
  <2> QED BY <1>a, <1>d, <1>2, <2>1 DEF CloseManager
<1>3. CASE AddField
  <2>1. manager'.rows = Append(manager.rows, NewField)
    BY <1>0, <1>3 DEF AddField, ManagerState
  <2>2. Proper(manager'.rows, lastId) BY <1>l, <1>m, <1>p, <2>1, ProperRows
  <2> QED BY <1>a, <1>3, <2>2 DEF AddField
<1>4. CASE SaveFields
  <2>1. /\ manager'.rows = manager.rows /\ UNCHANGED <<fetches, defined, lastId>>
        /\ saver'.rows = manager.rows /\ saver'.saved = <<>> /\ saver'.at = 1
    BY <1>0, <1>4 DEF SaveFields, ManagerState
  <2>2. RowsProper' BY <1>d, <1>p, <2>1 DEF RowsProper
  <2>3. Len(manager.rows) \in Nat BY <1>m, RowsAre
  <2>4. SavedSoFar'
    <3>1. saver'.at \in 1..Len(saver'.rows) + 1 /\ Len(saver'.saved) = saver'.at - 1
      BY <2>1, <2>3, NoRows
    <3>2. DOMAIN saver'.saved = {} BY <2>1, NoRows
    <3> QED BY <3>1, <3>2 DEF SavedSoFar
  <2> QED BY <2>2, <2>4
<1>5. ASSUME NEW i \in 1..MaxRows, DeleteField(i) PROVE RowsProper' /\ SavedSoFar'
  <2>1. manager'.rows \in {manager.rows, WithoutField(manager.rows, i)}
    BY <1>0, <1>5 DEF DeleteField, ManagerState
  <2>2. Proper(manager'.rows, lastId) BY <1>l, <1>m, <1>p, <2>1, ProperRows
  <2>3. UNCHANGED <<fetches, saver, defined, lastId>> BY <1>5 DEF DeleteField
  <2> QED BY <1>a, <2>2, <2>3
<1>6. ASSUME NEW i \in 1..MaxRows, NEW n \in Names, RenameField(i, n)
      PROVE  RowsProper' /\ SavedSoFar'
  <2>1. manager'.rows = [manager.rows EXCEPT ![i].name = n] /\ i \in DOMAIN manager.rows
    BY <1>0, <1>6 DEF RenameField, ManagerState
  <2>2. Proper(manager'.rows, lastId) BY <1>l, <1>m, <1>p, <2>1, ProperRows
  <2> QED BY <1>a, <1>6, <2>2 DEF RenameField
<1>7. ASSUME NEW f \in fetches, ServeFields(f) PROVE RowsProper' /\ SavedSoFar'
  <2> DEFINE t == Listed(f.line)
  <2>1. f \in FieldLoads /\ f.line \in Lines BY <1>0 DEF FieldLoads
  <2>2. Proper(t, lastId)
    <3>1. Keyed(defined[f.line]) /\ t = ListOf(defined[f.line]) BY <1>0, <2>1, ListedIs
    <3>2. /\ OneId(t) /\ NewLast(t)
          /\ \A i \in DOMAIN t : \E g \in defined[f.line] : t[i] = Column(g)
      BY <3>1, ListShows
    <3>3. \A g \in defined[f.line] : Column(g).id <= lastId BY <1>p, <2>1 DEF Column
    <3> HIDE DEF t
    <3> QED BY <3>2, <3>3 DEF Proper
  <2>3. [f EXCEPT !.served = TRUE, !.rows = Listed(f.line)].rows = t BY <2>1 DEF FieldLoads
  <2>4. fetches' = (fetches \ {f}) \cup {[f EXCEPT !.served = TRUE, !.rows = Listed(f.line)]}
        /\ UNCHANGED <<manager, saver, defined, lastId>>
    BY <1>7 DEF ServeFields
  <2> HIDE DEF t
  <2> QED BY <1>a, <1>p, <2>2, <2>3, <2>4
<1>8. ASSUME NEW f \in fetches, FieldsLoaded(f) PROVE RowsProper' /\ SavedSoFar'
  <2>1. manager'.rows \in {manager.rows, f.rows} BY <1>0, <1>8 DEF FieldsLoaded, ManagerState
  <2> QED BY <1>a, <1>p, <1>8, <2>1 DEF FieldsLoaded
<1>9. ASSUME NEW f \in fetches, FieldsNotLoaded(f) PROVE RowsProper' /\ SavedSoFar'
  <2>1. manager'.rows = manager.rows BY <1>0, <1>9 DEF FieldsNotLoaded, ManagerState
  <2> QED BY <1>a, <1>p, <1>9, <2>1 DEF FieldsNotLoaded
<1>10. ASSUME NEW d \in deletes, ServeDelete(d) PROVE RowsProper' /\ SavedSoFar'
  <2>1. /\ \A l \in Lines : defined'[l] \subseteq defined[l]
        /\ UNCHANGED <<manager, fetches, saver, lastId>>
    BY <1>0, <1>10 DEF ServeDelete
  <2> QED BY <1>p, <2>1 DEF RowsProper, SavedSoFar
<1>11. ASSUME NEW d \in deletes, FieldDeleted(d) PROVE RowsProper' /\ SavedSoFar'
  <2>1. manager'.rows = WithoutField(manager.rows, d.index) /\ d.index \in 1..MaxRows
    BY <1>0, <1>11 DEF FieldDeleted, ManagerState, FieldTypes, FieldDeletes
  <2>2. Proper(manager'.rows, lastId) BY <1>l, <1>m, <1>p, <2>1, ProperRows
  <2> QED BY <1>a, <1>11, <2>2 DEF FieldDeleted
<1>12. ASSUME NEW d \in deletes, FieldNotDeleted(d) PROVE RowsProper' /\ SavedSoFar'
  BY <1>a, <1>p, <1>12 DEF FieldNotDeleted
<1>13. CASE SaveRow
  <2> DEFINE row == saver.rows[saver.at]
             given == IF row.id = 0 THEN [row EXCEPT !.id = lastId + 1] ELSE row
             at == saver.at
             saved == saver.saved
  <2>1. at \in DOMAIN saver.rows /\ at \in Nat \ {0} /\ row \in Row /\ saver.line \in Lines
        /\ saver # NoSave
    <3>1. at \in DOMAIN saver.rows BY <1>13 DEF SaveRow
    <3>2. saver # NoSave BY <3>1, NoRows DEF NoSave
    <3> QED BY <1>m, <3>1, <3>2, RowsAre DEF FieldTypes
  <2>2. /\ defined' = [defined EXCEPT ![saver.line] =
                         {f \in @ : f.id # given.id} \cup {Stored(given, at)}]
        /\ lastId' = IF row.id = 0 THEN lastId + 1 ELSE lastId
        /\ saver' = [saver EXCEPT !.at = @ + 1, !.saved = Append(saved, given)]
        /\ UNCHANGED <<manager, fetches>>
    BY <1>13, <2>1 DEF SaveRow
  <2>3. given \in Row /\ given.id \in Nat \ {0} /\ given.id <= lastId'
        /\ (given.id = row.id \/ given.id = lastId + 1)
        /\ lastId' \in Nat /\ lastId <= lastId'
    <3>1. row.id \in Nat /\ row.id <= lastId BY <1>m, <1>p, <2>1, RowsAre DEF Proper
    <3>2. CASE row.id = 0
      <4>1. given = [row EXCEPT !.id = lastId + 1] /\ lastId' = lastId + 1 BY <2>2, <3>2
      <4>2. given.id <= MaxIds BY <1>13 DEF SaveRow
      <4> HIDE DEF given, row
      <4>3. given.id = lastId + 1 /\ given.name = row.name BY <2>1, <4>1 DEF Row
      <4>4. given.id \in 0..MaxIds BY <1>l, <4>2, <4>3, FieldBounds
      <4>5. given \in Row BY <2>1, <4>1, <4>4, <4>3 DEF Row
      <4> QED BY <1>l, <4>1, <4>3, <4>5
    <3>3. CASE row.id # 0
      <4>1. given = row /\ lastId' = lastId BY <2>2, <3>3
      <4> QED BY <1>l, <2>1, <3>1, <3>3, <4>1
    <3> QED BY <3>2, <3>3
  <2> HIDE DEF given
  <2>4. /\ Len(saver.rows) \in Nat /\ DOMAIN saver.rows = 1..Len(saver.rows)
        /\ \A i \in 1..Len(saver.rows) : saver.rows[i].id \in Nat /\ saver.rows[i].id <= lastId
    BY <1>m, <1>p, RowsAre DEF Proper
  <2>5. /\ Len(saved) = at - 1 /\ DOMAIN saved = 1..at - 1
        /\ \A i \in 1..at - 1 : /\ saved[i].id \in Nat \ {0} /\ saved[i].id <= lastId
                                /\ \A j \in at..Len(saver.rows) : saver.rows[j].id # saved[i].id
    <3>1. Len(saved) = at - 1 /\ DOMAIN saved = 1..Len(saved) BY <1>m, <2>1, RowsAre DEF SavedSoFar
    <3>2. \A i \in DOMAIN saved : saved[i].id \in Nat /\ saved[i].id <= lastId
      BY <1>m, <1>p, RowsAre DEF Proper
    <3>3. \A i \in DOMAIN saved : /\ saved[i].id # 0
                                  /\ \A j \in at..Len(saver.rows) : saver.rows[j].id # saved[i].id
      BY <2>1 DEF SavedSoFar
    <3> QED BY <3>1, <3>2, <3>3
  <2> DEFINE more == Append(saved, given)
  <2>6. /\ more \in FieldRows /\ Len(more) = at /\ DOMAIN more = 1..at
        /\ \A i \in 1..at : more[i] = IF i <= at - 1 THEN saved[i] ELSE given
    <3>1. /\ more \in FieldRows /\ Len(more) = Len(saved) + 1
          /\ \A i \in 1..Len(saved) + 1 : more[i] = IF i <= Len(saved) THEN saved[i] ELSE given
      BY <1>m, <2>3, RowAppended
    <3> HIDE DEF more
    <3>2. Len(saved) + 1 = at BY <2>1, <2>5
    <3>3. DOMAIN more = 1..Len(more) BY <3>1, RowsAre
    <3> QED BY <2>5, <3>1, <3>2, <3>3
  <2>7. saver'.saved = more /\ saver'.at = at + 1 /\ saver'.rows = saver.rows
    BY <1>0, <2>2 DEF SaverState
  <2> HIDE DEF more, saved
  <2>8. ASSUME NEW i \in 1..at - 1 PROVE saved[i].id # given.id
    <3>1. CASE given.id = lastId + 1
      <4>1. saved[i].id \in Nat /\ saved[i].id <= lastId BY <2>5
      <4> QED BY <1>l, <3>1, <4>1
    <3>2. CASE given.id = row.id
      <4>1. at \in at..Len(saver.rows) BY <2>1, <2>4
      <4>2. saver.rows[at].id # saved[i].id BY <2>5, <4>1
      <4> QED BY <3>2, <4>2
    <3> QED BY <2>3, <3>1, <3>2
  <2> HIDE DEF row
  <2>9. \A i \in 1..at : \/ i \in 1..at - 1 /\ more[i].id = saved[i].id
                         \/ i = at /\ more[i].id = given.id
    BY <2>1, <2>6
  <2>10. Proper(more, lastId')
    <3>1. OneId(more)
      <4>1. \A i, j \in 1..at - 1 : i # j => saved[i].id # saved[j].id
        BY <1>p, <2>5 DEF Proper, OneId, saved
      <4> HIDE DEF at
      <4> QED BY <2>6, <2>8, <2>9, <4>1 DEF OneId
    <3>2. \A i \in 1..at : more[i].id # 0 /\ more[i].id <= lastId'
      <4>1. \A i \in 1..at - 1 : saved[i].id <= lastId' /\ saved[i].id # 0
        BY <1>l, <2>3, <2>5
      <4> QED BY <2>3, <2>9, <4>1
    <3>3. NewLast(more) BY <2>6, <3>2 DEF NewLast
    <3> QED BY <2>6, <3>1, <3>2, <3>3 DEF Proper
  <2>11. \A f \in fetches : f.rows \in FieldRows BY <1>0 DEF FieldLoads
  <2>12. /\ Proper(manager.rows, lastId') /\ Proper(saver.rows, lastId')
         /\ \A f \in fetches : Proper(f.rows, lastId')
    BY <1>l, <1>m, <1>p, <2>3, <2>11, ProperLater
  <2>13. \A l \in Lines : \A f \in defined'[l] : f.id <= lastId'
    <3>1. ASSUME NEW l \in Lines, NEW f \in defined'[l] PROVE f.id <= lastId'
      <4>1. f \in defined[l] \/ f = Stored(given, at) BY <1>0, <2>1, <2>2, <3>1
      <4>2. CASE f \in defined[l]
        <5>1. f.id <= lastId /\ f.id \in Nat BY <1>0, <1>p, <4>2 DEF Keyed
        <5> QED BY <1>l, <2>3, <5>1
      <4>3. CASE f = Stored(given, at) BY <2>3, <4>3 DEF Stored
      <4> QED BY <4>1, <4>2, <4>3
    <3> QED BY <3>1
  <2>14. RowsProper' BY <2>2, <2>7, <2>10, <2>12, <2>13 DEF RowsProper
  <2>15. SavedSoFar'
    <3>1. at + 1 \in 1..Len(saver.rows) + 1 /\ Len(more) = (at + 1) - 1 BY <2>1, <2>4, <2>6
    <3>2. ASSUME NEW j \in at + 1..Len(saver.rows)
          PROVE  saver.rows[j].id # given.id
      <4>1. j \in 1..Len(saver.rows) /\ j # at /\ at \in 1..Len(saver.rows) BY <2>1, <2>4
      <4>2. CASE given.id = lastId + 1
        <5>1. saver.rows[j].id <= lastId /\ saver.rows[j].id \in Nat BY <2>4, <4>1
        <5> QED BY <1>l, <4>2, <5>1
      <4>3. CASE given.id = saver.rows[at].id
        BY <1>p, <2>3, <2>4, <4>1, <4>3 DEF Proper, OneId
      <4> QED BY <2>3, <4>2, <4>3 DEF row
    <3>3. \A i \in 1..at - 1 : \A j \in at + 1..Len(saver.rows) : saver.rows[j].id # saved[i].id
      <4>1. \A j \in at + 1..Len(saver.rows) : j \in at..Len(saver.rows) BY <2>1, <2>4
      <4> QED BY <2>5, <4>1
    <3>4. ASSUME NEW i \in DOMAIN more
          PROVE  /\ more[i].id # 0
                 /\ \A j \in at + 1..Len(saver.rows) : saver.rows[j].id # more[i].id
      <4>1. i \in 1..at BY <2>6
      <4>2. CASE i \in 1..at - 1 /\ more[i].id = saved[i].id BY <2>5, <3>3, <4>2
      <4>3. CASE i = at /\ more[i].id = given.id BY <2>3, <3>2, <4>3
      <4> QED BY <2>9, <4>1, <4>2, <4>3
    <3> QED BY <2>7, <3>1, <3>4 DEF SavedSoFar
  <2> QED BY <2>14, <2>15
<1>e. ASSUME saver' = NoSave, Proper(manager'.rows, lastId), UNCHANGED <<fetches, defined, lastId>>
      PROVE  RowsProper' /\ SavedSoFar'
  <2>1. saver'.rows = <<>> /\ saver'.saved = <<>> BY <1>e DEF NoSave
  <2> QED BY <1>d, <1>e, <1>p, <2>1 DEF RowsProper, SavedSoFar
<1>14. CASE FieldsSaved
  <2>1. manager'.rows = saver.saved BY <1>0, <1>14 DEF FieldsSaved, ManagerState
  <2> QED BY <1>e, <1>p, <1>14, <2>1 DEF FieldsSaved
<1>15. CASE FieldsNotSaved
  <2>1. manager'.rows = manager.rows BY <1>0, <1>15 DEF FieldsNotSaved, ManagerState
  <2> QED BY <1>e, <1>p, <1>15, <2>1 DEF FieldsNotSaved
<1>16. CASE UNCHANGED fieldVars
  BY <1>a, <1>p, <1>16 DEF fieldVars
<1> QED BY <1>1, <1>2, <1>3, <1>4, <1>5, <1>6, <1>7, <1>8, <1>9, <1>10, <1>11, <1>12, <1>13,
           <1>14, <1>15, <1>16
        DEF FieldsNext, FetchAnswers, DeleteAnswers, SaverAnswers

\* Loads are told apart by their token; while one is awaited nothing else is
\* under way, so that its answer is what the server has.
LoadsInv ==
    /\ \A f, g \in fetches : f.token = g.token => f = g
    /\ \A f \in fetches :
         /\ f.token <= manager.token
         /\ (manager.line # NoLine /\ f.token = manager.token)
              => manager.loading /\ f.line = manager.line
    /\ (manager.loading /\ ~mishap) =>
         /\ ~Pending
         /\ \A f \in fetches : (f.served /\ f.token = manager.token) => f.rows = Listed(f.line)

\* What went wrong stays on record.
LEMMA MishapStays == FieldTypes /\ [FieldsNext]_fieldVars => (mishap => mishap')
<1> SUFFICES ASSUME FieldTypes, [FieldsNext]_fieldVars, mishap PROVE mishap'
  OBVIOUS
<1>1. CASE UNCHANGED mishap BY <1>1
<1>2. ASSUME NEW x, mishap' = (mishap \/ x) PROVE mishap' BY <1>2, Zenon
<1>3. ASSUME NEW l \in Lines, Manage(l) PROVE mishap' BY <1>2, <1>3 DEF Manage
<1>4. ASSUME NEW i \in 1..MaxRows, DeleteField(i) PROVE mishap'
  <2>1. mishap' = mishap \/ mishap' = (mishap \/ Pending) BY <1>4, Zenon DEF DeleteField
  <2> QED BY <1>1, <1>2, <2>1
<1>5. CASE SaveFields BY <1>2, <1>5 DEF SaveFields
<1>6. ASSUME NEW f \in fetches, FieldsNotLoaded(f) PROVE mishap'
  BY <1>2, <1>6 DEF FieldsNotLoaded
<1>7. ASSUME NEW d \in deletes, FieldDeleted(d) \/ FieldNotDeleted(d) PROVE mishap'
  <2>1. mishap' = (mishap \/ d.token # manager.token) \/ mishap' = (mishap \/ d.served)
    BY <1>7, Zenon DEF FieldDeleted, FieldNotDeleted
  <2> QED BY <1>2, <2>1
<1>8. CASE FieldsSaved \/ FieldsNotSaved
  <2>1. \/ mishap' = (mishap \/ (saver.token # manager.token \/ manager.line = NoLine))
        \/ mishap' = (mishap \/ (saver.saved # <<>> \/ saver.token # manager.token))
    BY <1>8, Zenon DEF FieldsSaved, FieldsNotSaved
  <2> QED BY <1>2, <2>1
<1> QED BY <1>1, <1>3, <1>4, <1>5, <1>6, <1>7, <1>8
        DEF FieldsNext, FetchAnswers, DeleteAnswers, SaverAnswers, CloseManager, AddField, RenameField, ServeFields,
            FieldsLoaded, ServeDelete, SaveRow, fieldVars

\* A load that is awaited brings what the server has, until something goes wrong.
LEMMA LoadsInvStep ==
  ASSUME FieldTypes, LoadsInv, [FieldsNext]_fieldVars
  PROVE  LoadsInv'
<1>0. /\ manager \in ManagerState /\ fetches \subseteq FieldLoads
      /\ manager.token \in Nat /\ mishap \in BOOLEAN /\ manager.loading \in BOOLEAN
      /\ (\A f \in fetches : f.token \in Nat /\ f.served \in BOOLEAN) /\ (mishap => mishap')
  <2>1. manager.token \in 0..MaxTokens /\ \A f \in fetches : f.token \in 1..MaxTokens
    BY DEF FieldTypes, ManagerState, FieldLoads
  <2>2. mishap => mishap' BY MishapStays
  <2> QED BY <2>1, <2>2 DEF FieldTypes, ManagerState, FieldLoads
<1>n. manager.line # NoLine => manager.line \in Lines BY <1>0 DEF ManagerState
<1>a. ASSUME UNCHANGED fetches, manager'.line = manager.line, manager'.token = manager.token,
             manager'.loading = manager.loading, mishap => mishap',
             (manager.loading /\ ~Pending) => ~Pending' /\ UNCHANGED defined
      PROVE  LoadsInv'
  <2>1. ASSUME manager'.loading, ~mishap'
        PROVE  /\ ~Pending'
               /\ \A f \in fetches : (f.served /\ f.token = manager.token) => f.rows = Listed(f.line)'
    <3>1. manager.loading /\ ~mishap BY <1>a, <2>1
    <3>2. UNCHANGED defined /\ ~Pending' BY <1>a, <3>1 DEF LoadsInv
    <3>3. \A f \in fetches : Listed(f.line)' = Listed(f.line) BY <3>2 DEF Listed
    <3> QED BY <3>1, <3>2, <3>3 DEF LoadsInv
  <2>2. /\ \A f, g \in fetches' : f.token = g.token => f = g
        /\ \A f \in fetches' :
             /\ f.token <= manager'.token
             /\ (manager'.line # NoLine /\ f.token = manager'.token)
                  => manager'.loading /\ f.line = manager'.line
    BY <1>a DEF LoadsInv
  <2>3. (manager'.loading /\ ~mishap') =>
         /\ ~Pending'
         /\ \A f \in fetches' : (f.served /\ f.token = manager'.token) => f.rows = Listed(f.line)'
    BY <1>a, <2>1
  <2> QED BY <2>2, <2>3 DEF LoadsInv
<1>1. ASSUME NEW l \in Lines, Manage(l) PROVE LoadsInv'
  <2> DEFINE new == [line |-> l, token |-> manager.token + 1, served |-> FALSE, rows |-> <<>>]
  <2>1. /\ manager'.line = l /\ manager'.loading /\ manager'.token = manager.token + 1
        /\ fetches' = fetches \cup {new} /\ mishap' = (mishap \/ Pending)
        /\ UNCHANGED <<deletes, saver, defined>>
    BY <1>0, <1>1 DEF Manage, ManagerState
  <2>2. new.token = manager.token + 1 /\ new.line = l /\ ~new.served OBVIOUS
  <2> HIDE DEF new
  <2>3. \A f \in fetches : f.token <= manager.token /\ f.token # manager.token + 1
        /\ f.token <= manager.token + 1
    BY <1>0 DEF LoadsInv
  <2>4. ~mishap' => ~Pending' BY <2>1 DEF Pending
  <2>5. \A f \in fetches' : f.token = manager'.token => f = new BY <2>1, <2>3
  <2>6. \A f, g \in fetches' : f.token = g.token => f = g BY <2>1, <2>2, <2>3 DEF LoadsInv
  <2>7. \A f \in fetches' : f.token <= manager'.token BY <1>0, <2>1, <2>2, <2>3
  <2> QED BY <2>1, <2>2, <2>4, <2>5, <2>6, <2>7 DEF LoadsInv
<1>2. CASE CloseManager
  <2>1. /\ manager'.line = NoLine /\ ~manager'.loading /\ manager'.token = manager.token
        /\ UNCHANGED fetches
    BY <1>0, <1>2 DEF CloseManager, ManagerState
  <2> QED BY <2>1 DEF LoadsInv
<1>3. CASE AddField \/ SaveFields \/ (\E i \in 1..MaxRows : DeleteField(i))
             \/ (\E i \in 1..MaxRows : \E n \in Names : RenameField(i, n))
  <2>1. ~manager.loading /\ UNCHANGED fetches
    BY <1>3 DEF AddField, SaveFields, DeleteField, RenameField, Editable
  <2>2. /\ manager'.line = manager.line /\ manager'.token = manager.token
        /\ manager'.loading = manager.loading
    <3>1. CASE AddField BY <1>0, <3>1 DEF AddField, ManagerState
    <3>2. CASE SaveFields BY <1>0, <3>2 DEF SaveFields, ManagerState
    <3>3. ASSUME NEW i \in 1..MaxRows, DeleteField(i)
          PROVE  /\ manager'.line = manager.line /\ manager'.token = manager.token
                 /\ manager'.loading = manager.loading
      BY <1>0, <3>3 DEF DeleteField, ManagerState
    <3>4. ASSUME NEW i \in 1..MaxRows, NEW n \in Names, RenameField(i, n)
          PROVE  /\ manager'.line = manager.line /\ manager'.token = manager.token
                 /\ manager'.loading = manager.loading
      BY <1>0, <3>4 DEF RenameField, ManagerState
    <3> QED BY <1>3, <3>1, <3>2, <3>3, <3>4
  <2> QED BY <1>0, <1>a, <2>1, <2>2
<1>4. ASSUME NEW f \in fetches, ServeFields(f) PROVE LoadsInv'
  <2> DEFINE g == [f EXCEPT !.served = TRUE, !.rows = Listed(f.line)]
  <2>1. /\ fetches' = (fetches \ {f}) \cup {g}
        /\ UNCHANGED <<manager, deletes, saver, defined, mishap>>
    BY <1>4 DEF ServeFields
  <2>2. g.token = f.token /\ g.line = f.line /\ g.rows = Listed(f.line)
    BY <1>0 DEF FieldLoads
  <2> HIDE DEF g
  <2>3. \A h \in fetches' : h = g \/ (h \in fetches /\ h # f) BY <2>1
  <2>4. \A h \in fetches' : Listed(h.line)' = Listed(h.line) BY <2>1 DEF Listed
  <2>5. Pending' = Pending BY <2>1 DEF Pending
  <2>6. \A h, k \in fetches' : h.token = k.token => h = k BY <2>2, <2>3 DEF LoadsInv
  <2>7. \A h \in fetches' :
         /\ h.token <= manager.token
         /\ (manager.line # NoLine /\ h.token = manager.token)
              => manager.loading /\ h.line = manager.line
    BY <2>2, <2>3 DEF LoadsInv
  <2>8. (manager.loading /\ ~mishap) =>
         \A h \in fetches' : (h.served /\ h.token = manager.token) => h.rows = Listed(h.line)
    BY <2>2, <2>3 DEF LoadsInv
  <2> QED BY <2>1, <2>4, <2>5, <2>6, <2>7, <2>8 DEF LoadsInv
<1>5. ASSUME NEW f \in fetches, FieldsLoaded(f) \/ FieldsNotLoaded(f) PROVE LoadsInv'
  <2>1. /\ fetches' = fetches \ {f} /\ UNCHANGED <<deletes, saver, defined>>
    BY <1>5 DEF FieldsLoaded, FieldsNotLoaded
  <2>2. /\ manager'.line = manager.line /\ manager'.token = manager.token
        /\ manager'.loading = (manager.loading /\ f.token # manager.token)
    <3>1. CASE FieldsLoaded(f) BY <1>0, <3>1 DEF FieldsLoaded, ManagerState
    <3>2. CASE FieldsNotLoaded(f) BY <1>0, <3>2 DEF FieldsNotLoaded, ManagerState
    <3> QED BY <1>5, <3>1, <3>2
  <2>3. \A h \in fetches' : h \in fetches /\ h.token # f.token /\ Listed(h.line)' = Listed(h.line)
    BY <2>1 DEF Listed, LoadsInv
  <2>4. Pending' = Pending BY <2>1 DEF Pending
  <2> QED BY <1>0, <2>1, <2>2, <2>3, <2>4 DEF LoadsInv
<1>6. ASSUME NEW d \in deletes, ServeDelete(d) \/ FieldDeleted(d) \/ FieldNotDeleted(d)
      PROVE  LoadsInv'
  <2>1. Pending BY DEF Pending
  <2>2. UNCHANGED fetches
    BY <1>6 DEF ServeDelete, FieldDeleted, FieldNotDeleted
  <2>3. /\ manager'.line = manager.line /\ manager'.token = manager.token
        /\ manager'.loading = manager.loading
    BY <1>0, <1>6 DEF ServeDelete, FieldDeleted, FieldNotDeleted, ManagerState
  <2> QED BY <1>0, <1>a, <2>1, <2>2, <2>3
<1>7. CASE SaveRow \/ FieldsSaved \/ FieldsNotSaved
  <2>1. Pending
    <3>1. CASE SaveRow
      <4>1. saver.at \in DOMAIN saver.rows BY <3>1 DEF SaveRow
      <4>2. saver # NoSave BY <4>1, NoRows DEF NoSave
      <4> QED BY <4>2 DEF Pending
    <3>2. CASE FieldsSaved \/ FieldsNotSaved BY <3>2 DEF Pending, FieldsSaved, FieldsNotSaved
    <3> QED BY <1>7, <3>1, <3>2
  <2>2. UNCHANGED fetches
    BY <1>7 DEF SaveRow, FieldsSaved, FieldsNotSaved
  <2>3. /\ manager'.line = manager.line /\ manager'.token = manager.token
        /\ manager'.loading = manager.loading
    BY <1>0, <1>7 DEF SaveRow, FieldsSaved, FieldsNotSaved, ManagerState
  <2> QED BY <1>0, <1>a, <2>1, <2>2, <2>3
<1>8. CASE UNCHANGED fieldVars
  <2>1. Pending' = Pending BY <1>8 DEF fieldVars, Pending
  <2> QED BY <1>0, <1>8, <1>a, <2>1 DEF fieldVars
<1> QED BY <1>1, <1>2, <1>3, <1>4, <1>5, <1>6, <1>7, <1>8 DEF FieldsNext, FetchAnswers, DeleteAnswers, SaverAnswers

\* The rows of the dialog and the fields of its line.
Agree(rows, dirty, S) == Ids(rows) = {f.id : f \in S} /\ (~dirty => rows = ListOf(S))

\* What an operation by itself will still change.
WhileDeleting ==
    deletes # {} =>
      /\ saver = NoSave
      /\ \E d \in deletes :
           /\ deletes = {d} /\ d.token = manager.token /\ d.line = manager.line
           /\ d.index \in DOMAIN manager.rows /\ manager.rows[d.index].id = d.id
           /\ Agree(IF d.served THEN RemoveAt(manager.rows, d.index) ELSE manager.rows,
                    manager.dirty, defined[manager.line])
WhileSaving ==
    saver # NoSave =>
      /\ saver.line = manager.line /\ saver.token = manager.token
      /\ manager.rows = saver.rows /\ manager.saving
      /\ saver.at = 1 => Agree(manager.rows, manager.dirty, defined[manager.line])
      /\ \A i \in DOMAIN saver.saved : Stored(saver.saved[i], i) \in defined[manager.line]
      /\ \A f \in defined[manager.line] :
           \/ \E i \in DOMAIN saver.saved : f = Stored(saver.saved[i], i)
           \/ \E j \in saver.at..Len(saver.rows) : saver.rows[j].id = f.id

Settled == manager.line # NoLine /\ ~manager.loading /\ ~mishap

\* Until something goes wrong an open dialog is as far as its operation is.
SyncInv ==
    Settled =>
      /\ (deletes = {} /\ saver = NoSave)
           => Agree(manager.rows, manager.dirty, defined[manager.line])
      /\ WhileDeleting /\ WhileSaving

FieldsInv == FieldTypes /\ RowsProper /\ SavedSoFar /\ LoadsInv /\ SyncInv

\* Each step leaves the dialog as far as its deletion or its save is.
LEMMA SyncInvStep ==
  ASSUME FieldsInv, [FieldsNext]_fieldVars, FieldTypes', RowsProper'
  PROVE  SyncInv'
<1> USE DEF FieldsInv
<1> SUFFICES ASSUME Settled' PROVE SyncInv'
  BY DEF SyncInv
<1>0. /\ manager \in ManagerState /\ fetches \subseteq FieldLoads /\ deletes \subseteq FieldDeletes
      /\ saver \in SaverState /\ manager.rows \in FieldRows /\ saver.rows \in FieldRows
      /\ saver.saved \in FieldRows /\ mishap \in BOOLEAN
      /\ defined \in [Lines -> SUBSET Definitions] /\ \A l \in Lines : Keyed(defined[l])
      /\ manager.line \in Lines \cup {NoLine}
  BY DEF FieldTypes, ManagerState, SaverState
<1>s. ~mishap /\ ~mishap' /\ manager'.line # NoLine /\ ~manager'.loading
  BY MishapStays DEF Settled
<1>p. OneId(manager.rows) /\ NewLast(manager.rows) /\ OneId(saver'.saved)
  BY DEF RowsProper, Proper
<1>u. ASSUME UNCHANGED <<manager, deletes, saver, defined>> PROVE SyncInv'
  BY <1>s, <1>u DEF SyncInv, Settled, WhileDeleting, WhileSaving
\* An edit keeps the ids, and the rows that have one in their places.
<1>e. ASSUME Editable, UNCHANGED <<deletes, saver, defined>>, manager'.line = manager.line,
             manager'.token = manager.token, manager'.rows \in FieldRows, OneId(manager'.rows),
             Ids(manager'.rows) = Ids(manager.rows), manager'.dirty,
             \A k \in DOMAIN manager.rows : manager.rows[k].id # 0 =>
                k \in DOMAIN manager'.rows /\ manager'.rows[k].id = manager.rows[k].id
      PROVE  SyncInv'
  <2>1. Settled /\ saver = NoSave
    <3>1. Settled BY <1>s, <1>e DEF Settled, Editable
    <3>2. ~manager.saving BY <1>e DEF Editable
    <3> QED BY <3>1, <3>2 DEF SyncInv, WhileSaving
  <2>2. deletes = {} => Agree(manager.rows, manager.dirty, defined[manager.line])
    BY <2>1 DEF SyncInv
  <2>3. deletes = {} => Agree(manager'.rows, manager'.dirty, defined'[manager'.line])
    BY <1>e, <2>2 DEF Agree
  <2>4. WhileDeleting'
    <3> SUFFICES ASSUME deletes # {} PROVE WhileDeleting'
      BY <1>e DEF WhileDeleting
    <3>1. PICK d \in deletes :
            /\ deletes = {d} /\ d.token = manager.token /\ d.line = manager.line
            /\ d.index \in DOMAIN manager.rows /\ manager.rows[d.index].id = d.id
            /\ Agree(IF d.served THEN RemoveAt(manager.rows, d.index) ELSE manager.rows,
                     manager.dirty, defined[manager.line])
      BY <2>1 DEF SyncInv, WhileDeleting
    <3>2. d.id # 0 BY <1>0 DEF FieldDeletes
    <3>3. d.index \in DOMAIN manager'.rows /\ manager'.rows[d.index].id = d.id
      BY <1>e, <3>1, <3>2
    <3>4. /\ Ids(RemoveAt(manager.rows, d.index)) = Ids(manager.rows) \ {d.id}
          /\ Ids(RemoveAt(manager'.rows, d.index)) = Ids(manager'.rows) \ {d.id}
      BY <1>0, <1>e, <1>p, <3>1, <3>3, IdsRemoved
    <3>5. Agree(IF d.served THEN RemoveAt(manager'.rows, d.index) ELSE manager'.rows,
                manager'.dirty, defined'[manager'.line])
      <4>1. CASE d.served BY <1>e, <3>1, <3>4, <4>1 DEF Agree
      <4>2. CASE ~d.served BY <1>e, <3>1, <4>2 DEF Agree
      <4> QED BY <4>1, <4>2
    <3> QED BY <1>e, <2>1, <3>1, <3>3, <3>5 DEF WhileDeleting
  <2> QED BY <1>e, <2>1, <2>3, <2>4 DEF SyncInv, WhileSaving
<1>1. ASSUME NEW l \in Lines, Manage(l) PROVE SyncInv'
  <2>1. manager'.loading BY <1>0, <1>1 DEF Manage, ManagerState
  <2> QED BY <1>s, <2>1
<1>2. CASE CloseManager
  <2>1. manager'.line = NoLine BY <1>0, <1>2 DEF CloseManager, ManagerState
  <2> QED BY <1>s, <2>1
<1>3. CASE AddField
  <2> DEFINE t == Append(manager.rows, NewField)
             m == Len(manager.rows)
  <2>1. /\ manager'.rows = t /\ manager'.dirty /\ manager'.line = manager.line
        /\ manager'.token = manager.token /\ Editable /\ UNCHANGED <<deletes, saver, defined>>
    BY <1>0, <1>3 DEF AddField, ManagerState
  <2>2. NewField \in Row BY FieldBounds DEF NewField, Row
  <2>3. /\ t \in FieldRows /\ Len(t) = m + 1
        /\ \A i \in 1..m + 1 : t[i] = IF i <= m THEN manager.rows[i] ELSE NewField
    BY <1>0, <2>2, RowAppended
  <2> HIDE DEF t
  <2>4. m \in Nat /\ DOMAIN manager.rows = 1..m /\ DOMAIN t = 1..m + 1 BY <1>0, <2>3, RowsAre
  <2> HIDE DEF m
  <2>5. NewField.id = 0 BY DEF NewField
  <2>6. \A i \in 1..m : i \in 1..m + 1 /\ t[i] = manager.rows[i] BY <2>3, <2>4
  <2>7. \A i \in 1..m + 1 : i \in 1..m \/ t[i] = NewField BY <2>3, <2>4
  <2>8. Ids(t) = Ids(manager.rows)
    <3>1. \A x \in Ids(t) : x \in Ids(manager.rows) BY <2>4, <2>5, <2>6, <2>7 DEF Ids
    <3>2. \A x \in Ids(manager.rows) : x \in Ids(t) BY <2>4, <2>6 DEF Ids
    <3> QED BY <3>1, <3>2
  <2>9. OneId(t)
    <3>1. OneId(manager'.rows) BY DEF RowsProper, Proper
    <3> QED BY <2>1, <3>1
  <2> QED BY <1>e, <2>1, <2>3, <2>4, <2>6, <2>8, <2>9
<1>4. CASE SaveFields
  <2>1. /\ manager'.rows = manager.rows /\ manager'.saving /\ manager'.line = manager.line
        /\ manager'.token = manager.token /\ manager'.dirty = manager.dirty
        /\ manager'.loading = manager.loading /\ UNCHANGED <<deletes, defined>>
    BY <1>0, <1>4 DEF SaveFields, ManagerState
  <2>2. ~Pending BY <1>s, <1>4 DEF SaveFields
  <2>3. Settled BY <1>s, <2>1 DEF Settled
  <2>4. Agree(manager.rows, manager.dirty, defined[manager.line]) /\ deletes = {}
    BY <2>2, <2>3 DEF SyncInv, Pending
  <2>5. /\ saver'.line = manager.line /\ saver'.token = manager.token /\ saver'.at = 1
        /\ saver'.rows = manager.rows /\ saver'.saved = <<>>
    BY <1>4 DEF SaveFields
  <2>6. DOMAIN manager.rows = 1..Len(manager.rows) BY <1>0, RowsAre
  <2>7. \A f \in defined[manager.line] : \E j \in 1..Len(manager.rows) : manager.rows[j].id = f.id
    BY <2>4, <2>6 DEF Agree, Ids
  <2>8. DOMAIN saver'.saved = {} BY <2>5, NoRows
  <2>9. saver' # NoSave BY <2>5 DEF NoSave
  <2>10. WhileSaving' BY <2>1, <2>4, <2>5, <2>7, <2>8 DEF WhileSaving
  <2> QED BY <2>1, <2>4, <2>9, <2>10 DEF SyncInv, WhileDeleting
<1>5. ASSUME NEW i \in 1..MaxRows, DeleteField(i) PROVE SyncInv'
  <2>1. /\ Editable /\ i \in DOMAIN manager.rows /\ UNCHANGED <<saver, defined>>
        /\ ~manager.saving /\ manager.line # NoLine /\ manager.line \in Lines
    BY <1>0, <1>5 DEF DeleteField, Editable
  <2>2. Settled /\ saver = NoSave
    <3>1. Settled BY <1>s, <2>1 DEF Settled, Editable
    <3> QED BY <2>1, <3>1 DEF SyncInv, WhileSaving
  <2>3. CASE manager.rows[i].id = 0
    <3> DEFINE t == RemoveAt(manager.rows, i)
               S == defined[manager.line]
    <3>1. /\ manager'.rows = t /\ manager'.dirty = manager.dirty /\ manager'.line = manager.line
          /\ manager'.token = manager.token /\ UNCHANGED deletes
      BY <1>0, <1>5, <2>1, <2>3 DEF DeleteField, WithoutField, ManagerState
    <3>2. \A k \in DOMAIN ListOf(S) : ListOf(S)[k].id # 0 BY <1>0, <2>1, ListShows
    <3>3. manager.dirty
      <4>1. CASE deletes = {}
        <5>1. Agree(manager.rows, manager.dirty, S) BY <2>2, <4>1 DEF SyncInv
        <5> QED BY <2>1, <2>3, <3>2, <5>1 DEF Agree
      <4>2. CASE deletes # {}
        <5>1. PICK d \in deletes :
                /\ d.index \in DOMAIN manager.rows /\ manager.rows[d.index].id = d.id
                /\ Agree(IF d.served THEN RemoveAt(manager.rows, d.index) ELSE manager.rows,
                         manager.dirty, S)
          BY <2>2, <4>2 DEF SyncInv, WhileDeleting
        <5>2. d.id # 0 BY <1>0 DEF FieldDeletes
        <5>3. CASE ~d.served BY <2>1, <2>3, <3>2, <5>1, <5>3 DEF Agree
        <5>4. CASE d.served
          <6>1. i # d.index BY <2>3, <5>1, <5>2
          <6>2. \E k \in DOMAIN RemoveAt(manager.rows, d.index) :
                   RemoveAt(manager.rows, d.index)[k] = manager.rows[i]
            BY <1>0, <2>1, <5>1, <6>1, IdsRemoved
          <6> QED BY <2>3, <3>2, <5>1, <5>4, <6>2 DEF Agree
        <5> QED BY <5>3, <5>4
      <4> QED BY <4>1, <4>2
    <3>4. t \in FieldRows /\ OneId(t) /\ Ids(t) = Ids(manager.rows)
      <4>1. Ids(t) = Ids(manager.rows) \ {0} BY <1>0, <1>p, <2>1, <2>3, IdsRemoved
      <4>2. 0 \notin Ids(manager.rows) BY DEF Ids
      <4>3. t \in FieldRows BY <1>0, <2>1, RowsRemoved
      <4>4. OneId(t) BY <1>0, <1>p, <2>1, IdsRemoved
      <4> QED BY <4>1, <4>2, <4>3, <4>4
    <3>5. ASSUME NEW k \in DOMAIN manager.rows, manager.rows[k].id # 0
          PROVE  k \in DOMAIN t /\ t[k].id = manager.rows[k].id
      <4>1. k < i
        <5>1. ~(i < k) /\ i # k BY <1>p, <2>1, <2>3, <3>5 DEF NewLast
        <5>2. i \in Int /\ k \in Int BY <1>0, <2>1, RowsAre
        <5> QED BY <5>1, <5>2
      <4>2. Len(manager.rows) \in Nat /\ i \in 1..Len(manager.rows) /\ k \in 1..Len(manager.rows)
        BY <1>0, <2>1, RowsAre
      <4>3. t = [j \in 1..Len(manager.rows) - 1 |->
                   IF j < i THEN manager.rows[j] ELSE manager.rows[j + 1]]
        BY <1>0, <2>1, RowsRemoved
      <4>4. k \in 1..Len(manager.rows) - 1 BY <4>1, <4>2
      <4> HIDE DEF t
      <4> QED BY <4>1, <4>3, <4>4
    <3> HIDE DEF t
    <3> QED BY <1>e, <2>1, <3>1, <3>3, <3>4, <3>5
  <2>4. CASE manager.rows[i].id # 0
    <3> DEFINE d == [line |-> manager.line, id |-> manager.rows[i].id, index |-> i,
                     token |-> manager.token, served |-> FALSE]
    <3>1. deletes' = deletes \cup {d} /\ mishap' = (mishap \/ Pending) /\ UNCHANGED manager
      BY <1>5, <2>4 DEF DeleteField
    <3>2. ~Pending BY <1>s, <3>1
    <3>3. deletes = {} /\ deletes' = {d} BY <3>1, <3>2 DEF Pending
    <3>4. Agree(manager.rows, manager.dirty, defined[manager.line]) BY <2>2, <3>3 DEF SyncInv
    <3>5. WhileDeleting' BY <2>1, <2>2, <3>1, <3>3, <3>4 DEF WhileDeleting
    <3> QED BY <2>1, <2>2, <3>3, <3>5 DEF SyncInv, WhileSaving
  <2> QED BY <2>3, <2>4
<1>6. ASSUME NEW i \in 1..MaxRows, NEW n \in Names, RenameField(i, n) PROVE SyncInv'
  <2> DEFINE t == [manager.rows EXCEPT ![i].name = n]
  <2>1. /\ manager'.rows = t /\ manager'.dirty /\ manager'.line = manager.line
        /\ manager'.token = manager.token /\ Editable /\ i \in DOMAIN manager.rows
        /\ UNCHANGED <<deletes, saver, defined>>
    BY <1>0, <1>6 DEF RenameField, ManagerState
  <2>2. /\ t \in FieldRows /\ DOMAIN t = DOMAIN manager.rows
        /\ \A j \in DOMAIN manager.rows : t[j].id = manager.rows[j].id
    BY <1>0, <2>1, RowRenamed
  <2> HIDE DEF t
  <2>3. OneId(t) /\ Ids(t) = Ids(manager.rows)
    <3>1. OneId(t) BY <1>p, <2>2 DEF OneId
    <3>2. {t[j].id : j \in DOMAIN t} = {manager.rows[j].id : j \in DOMAIN manager.rows} BY <2>2
    <3> QED BY <3>1, <3>2 DEF Ids
  <2> QED BY <1>e, <2>1, <2>2, <2>3
<1>7. ASSUME NEW f \in fetches, ServeFields(f) PROVE SyncInv'
  BY <1>u, <1>7 DEF ServeFields
<1>8. ASSUME NEW f \in fetches, FieldsLoaded(f) PROVE SyncInv'
  <2>1. CASE f.token # manager.token BY <1>u, <1>8, <2>1 DEF FieldsLoaded
  <2>2. CASE f.token = manager.token
    <3>1. /\ manager'.rows = f.rows /\ ~manager'.dirty /\ manager'.line = manager.line /\ f.served
          /\ UNCHANGED <<deletes, saver, defined>>
      BY <1>0, <1>8, <2>2 DEF FieldsLoaded, ManagerState
    <3>2. manager.loading /\ f.line = manager.line /\ f.line \in Lines
      BY <1>0, <1>s, <2>2, <3>1 DEF LoadsInv
    <3>3. deletes = {} /\ saver = NoSave /\ f.rows = Listed(f.line)
      BY <1>s, <2>2, <3>1, <3>2 DEF LoadsInv, Pending
    <3>4. f.rows = ListOf(defined[f.line]) /\ Keyed(defined[f.line]) BY <1>0, <3>2, <3>3, ListedIs
    <3>5. Agree(f.rows, manager'.dirty, defined[f.line]) BY <3>4, ListShows DEF Agree
    <3> QED BY <3>1, <3>2, <3>3, <3>5 DEF SyncInv, WhileDeleting, WhileSaving
  <2> QED BY <2>1, <2>2
<1>9. ASSUME NEW f \in fetches, FieldsNotLoaded(f) PROVE SyncInv'
  <2>1. f.token # manager.token BY <1>s, <1>9 DEF FieldsNotLoaded
  <2>2. /\ manager'.line = manager.line /\ manager'.loading = manager.loading
        /\ manager'.rows = manager.rows /\ manager'.dirty = manager.dirty
        /\ manager'.token = manager.token /\ manager'.saving = manager.saving
        /\ UNCHANGED <<deletes, saver, defined>>
    BY <1>0, <1>9, <2>1 DEF FieldsNotLoaded, ManagerState
  <2>3. Settled BY <1>s, <2>2 DEF Settled
  <2>4. WhileDeleting' BY <2>2, <2>3 DEF SyncInv, WhileDeleting
  <2>5. WhileSaving' BY <2>2, <2>3 DEF SyncInv, WhileSaving
  <2> QED BY <2>2, <2>3, <2>4, <2>5 DEF SyncInv
\* An operation that is answered belongs to the open dialog.
<1>d. ASSUME NEW d \in deletes, Settled
      PROVE  /\ deletes = {d} /\ saver = NoSave /\ d.token = manager.token /\ d.line = manager.line
             /\ d.index \in DOMAIN manager.rows /\ manager.rows[d.index].id = d.id
             /\ Agree(IF d.served THEN RemoveAt(manager.rows, d.index) ELSE manager.rows,
                      manager.dirty, defined[manager.line])
  BY <1>d DEF SyncInv, WhileDeleting
<1>10. ASSUME NEW d \in deletes, ServeDelete(d) PROVE SyncInv'
  <2> DEFINE S == defined[manager.line]
             T == {f \in S : f.id # d.id}
             e == [d EXCEPT !.served = TRUE]
             t == RemoveAt(manager.rows, d.index)
  <2>1. /\ ~d.served /\ deletes' = (deletes \ {d}) \cup {e} /\ UNCHANGED <<manager, saver>>
        /\ defined' = [defined EXCEPT ![d.line] = {f \in @ : f.id # d.id}]
    BY <1>10 DEF ServeDelete
  <2>2. Settled BY <1>s, <2>1 DEF Settled
  <2>3. /\ deletes = {d} /\ saver = NoSave /\ d.token = manager.token /\ d.line = manager.line
        /\ d.index \in DOMAIN manager.rows /\ manager.rows[d.index].id = d.id
        /\ Agree(manager.rows, manager.dirty, S)
    BY <1>d, <2>1, <2>2
  <2>4. manager.line \in Lines /\ Keyed(S) BY <1>0, <2>2 DEF Settled
  <2>5. defined'[manager.line] = T BY <1>0, <2>1, <2>3, <2>4
  <2>6. /\ e.token = d.token /\ e.line = d.line /\ e.index = d.index /\ e.id = d.id /\ e.served
        /\ deletes' = {e}
    BY <1>0, <2>1, <2>3 DEF FieldDeletes
  <2>7. Agree(t, manager.dirty, T)
    <3>1. Ids(t) = Ids(manager.rows) \ {d.id} BY <1>0, <1>p, <2>3, IdsRemoved
    <3>2. Ids(manager.rows) = {f.id : f \in S} BY <2>3 DEF Agree
    <3>3. Ids(t) = {f.id : f \in T} BY <3>1, <3>2
    <3>4. ~manager.dirty => t = ListOf(T)
      <4>1. ~manager.dirty => manager.rows = ListOf(S) BY <2>3 DEF Agree
      <4>2. manager.rows = ListOf(S) => ListOf({f \in S : f.id # manager.rows[d.index].id}) = t
        BY <1>0, <2>3, <2>4, ListWithout
      <4> QED BY <2>3, <4>1, <4>2
    <3> QED BY <3>3, <3>4 DEF Agree
  <2> HIDE DEF e, t, T
  <2>8. WhileDeleting' BY <2>1, <2>3, <2>5, <2>6, <2>7 DEF WhileDeleting, t
  <2>9. deletes' # {} /\ saver' = NoSave BY <2>1, <2>3, <2>6
  <2> QED BY <2>8, <2>9 DEF SyncInv, WhileSaving
<1>11. ASSUME NEW d \in deletes, FieldDeleted(d) PROVE SyncInv'
  <2>1. /\ d.served /\ deletes' = deletes \ {d} /\ d.token = manager.token
        /\ UNCHANGED <<saver, defined>>
    BY <1>s, <1>11 DEF FieldDeleted
  <2>2. /\ manager'.rows = WithoutField(manager.rows, d.index) /\ manager'.line = manager.line
        /\ manager'.loading = manager.loading /\ manager'.dirty = manager.dirty
    BY <1>0, <1>11 DEF FieldDeleted, ManagerState
  <2>3. Settled BY <1>s, <2>2 DEF Settled
  <2>4. /\ deletes = {d} /\ saver = NoSave /\ d.index \in DOMAIN manager.rows
        /\ Agree(RemoveAt(manager.rows, d.index), manager.dirty, defined[manager.line])
    BY <1>d, <2>1, <2>3
  <2>5. Agree(manager'.rows, manager'.dirty, defined'[manager'.line])
    BY <2>1, <2>2, <2>4 DEF WithoutField
  <2>6. deletes' = {} /\ saver' = NoSave BY <2>1, <2>4
  <2> QED BY <2>5, <2>6 DEF SyncInv, WhileDeleting, WhileSaving
<1>12. ASSUME NEW d \in deletes, FieldNotDeleted(d) PROVE SyncInv'
  <2>1. ~d.served /\ deletes' = deletes \ {d} /\ UNCHANGED <<manager, saver, defined>>
    BY <1>s, <1>12 DEF FieldNotDeleted
  <2>2. Settled BY <1>s, <2>1 DEF Settled
  <2>3. /\ deletes = {d} /\ saver = NoSave
        /\ Agree(manager.rows, manager.dirty, defined[manager.line])
    BY <1>d, <2>1, <2>2
  <2>4. deletes' = {} /\ saver' = NoSave BY <2>1, <2>3
  <2> QED BY <2>1, <2>3, <2>4 DEF SyncInv, WhileDeleting, WhileSaving
<1>v. ASSUME saver # NoSave, Settled
      PROVE  /\ deletes = {} /\ manager.rows = saver.rows /\ manager.saving
             /\ saver.line = manager.line /\ saver.token = manager.token /\ saver.line \in Lines
             /\ saver.at = 1 => Agree(manager.rows, manager.dirty, defined[manager.line])
             /\ \A i \in DOMAIN saver.saved : Stored(saver.saved[i], i) \in defined[manager.line]
             /\ \A f \in defined[manager.line] :
                  \/ \E i \in DOMAIN saver.saved : f = Stored(saver.saved[i], i)
                  \/ \E j \in saver.at..Len(saver.rows) : saver.rows[j].id = f.id
  <2>1. saver.line \in Lines BY <1>v DEF FieldTypes
  <2>2. WhileSaving /\ WhileDeleting BY <1>v DEF SyncInv
  <2>3. deletes = {} BY <1>v, <2>2 DEF WhileDeleting
  <2> QED BY <1>v, <2>1, <2>2, <2>3 DEF WhileSaving
<1>w. ASSUME saver # NoSave
      PROVE  /\ saver.at \in Nat \ {0} /\ saver.at \in 1..Len(saver.rows) + 1
             /\ DOMAIN saver.saved = 1..saver.at - 1 /\ Len(saver.saved) = saver.at - 1
             /\ DOMAIN saver.rows = 1..Len(saver.rows) /\ Len(saver.rows) \in Nat
  <2>1. saver.at \in 1..Len(saver.rows) + 1 /\ Len(saver.saved) = saver.at - 1
    BY <1>w DEF SavedSoFar
  <2>2. /\ DOMAIN saver.saved = 1..Len(saver.saved)
        /\ DOMAIN saver.rows = 1..Len(saver.rows) /\ Len(saver.rows) \in Nat
    BY <1>0, RowsAre
  <2> QED BY <2>1, <2>2
<1>13. CASE SaveRow
  <2> DEFINE row == saver.rows[saver.at]
             given == IF row.id = 0 THEN [row EXCEPT !.id = lastId + 1] ELSE row
             at == saver.at
             S == defined[manager.line]
  <2>1. saver # NoSave /\ at \in DOMAIN saver.rows
    <3>1. at \in DOMAIN saver.rows BY <1>13 DEF SaveRow
    <3> QED BY <3>1, NoRows DEF NoSave
  <2>2. /\ defined' = [defined EXCEPT ![saver.line] =
                         {f \in @ : f.id # given.id} \cup {Stored(given, at)}]
        /\ saver' = [saver EXCEPT !.at = @ + 1, !.saved = Append(@, given)]
        /\ UNCHANGED <<manager, fetches, deletes, mishap>>
    BY <1>13 DEF SaveRow
  <2>3. Settled BY <1>s, <2>2 DEF Settled
  <2>4. row.id # 0 => given = row OBVIOUS
  <2>5. saver'.line = saver.line /\ saver'.token = saver.token /\ saver'.at = at + 1
        /\ saver'.rows = saver.rows /\ saver'.saved = Append(saver.saved, given)
    BY <1>0, <2>2 DEF SaverState
  <2>6. at \in Nat \ {0} /\ saver'.saved \in FieldRows
    BY <1>w, <2>1 DEF FieldTypes, SaverState
  <2> HIDE DEF given
  <2>7. DOMAIN saver'.saved = 1..at
        /\ \A i \in 1..at : saver'.saved[i] = IF i <= at - 1 THEN saver.saved[i] ELSE given
    <3>1. saver.saved \in Seq(Row) /\ Len(saver.saved) = at - 1
      BY <1>0, <1>w, <2>1 DEF FieldRows, Row
    <3>2. Len(saver'.saved) = Len(saver.saved) + 1 BY <2>5, <3>1, AppendProperties
    <3>3. DOMAIN saver'.saved = 1..Len(saver'.saved) BY <2>6, RowsAre
    <3>4. /\ \A i \in 1..Len(saver.saved) : saver'.saved[i] = saver.saved[i]
          /\ saver'.saved[Len(saver.saved) + 1] = given
      BY <2>5, <3>1, AppendProperties
    <3>5. Len(saver.saved) + 1 = at BY <2>6, <3>1
    <3>6. DOMAIN saver'.saved = 1..at BY <3>2, <3>3, <3>5
    <3>7. \A i \in 1..at : saver'.saved[i] = IF i <= at - 1 THEN saver.saved[i] ELSE given
      BY <2>6, <3>1, <3>4, <3>5
    <3> QED BY <3>6, <3>7
  <2>8. manager.line \in Lines /\ saver.line = manager.line BY <1>v, <2>1, <2>3
  <2>9. defined'[manager.line] = {f \in S : f.id # given.id} \cup {Stored(given, at)}
    BY <1>0, <2>2, <2>8
  <2>10. ASSUME NEW i \in DOMAIN saver'.saved
         PROVE  Stored(saver'.saved[i], i) \in defined'[manager.line]
    <3>1. CASE i = at BY <2>6, <2>7, <2>9, <3>1
    <3>2. CASE i # at
      <4>1. i \in 1..at - 1 /\ i \in 1..at /\ at \in 1..at BY <2>6, <2>7, <3>2
      <4>2. saver'.saved[i] = saver.saved[i] /\ saver'.saved[at] = given BY <2>6, <2>7, <4>1
      <4>3. Stored(saver.saved[i], i) \in S BY <1>v, <1>w, <2>1, <2>3, <4>1
      <4>4. saver'.saved[i].id # 0
        <5>1. Keyed(S) BY <1>0, <2>8
        <5>2. Stored(saver.saved[i], i).id # 0 BY <4>3, <5>1 DEF Keyed
        <5> QED BY <4>2, <5>2 DEF Stored
      <4>5. saver.saved[i].id # given.id BY <1>p, <2>7, <3>2, <4>1, <4>2, <4>4 DEF OneId
      <4>6. Stored(saver.saved[i], i).id = saver.saved[i].id BY DEF Stored
      <4> QED BY <2>9, <4>2, <4>3, <4>5, <4>6
    <3> QED BY <3>1, <3>2
  <2>11. ASSUME NEW f \in defined'[manager.line]
         PROVE  \/ \E i \in DOMAIN saver'.saved : f = Stored(saver'.saved[i], i)
                \/ \E j \in at + 1..Len(saver.rows) : saver.rows[j].id = f.id
    <3>1. CASE f = Stored(given, at)
      <4>1. at \in DOMAIN saver'.saved /\ saver'.saved[at] = given BY <2>6, <2>7
      <4> QED BY <3>1, <4>1
    <3>2. CASE f \in S /\ f.id # given.id
      <4>1. \/ \E i \in DOMAIN saver.saved : f = Stored(saver.saved[i], i)
            \/ \E j \in at..Len(saver.rows) : saver.rows[j].id = f.id
        BY <1>v, <2>1, <2>3, <3>2
      <4>2. CASE \E i \in DOMAIN saver.saved : f = Stored(saver.saved[i], i)
        <5>1. PICK i \in 1..at - 1 : f = Stored(saver.saved[i], i) BY <1>w, <2>1, <4>2
        <5>2. i \in 1..at /\ i <= at - 1 BY <2>6, <5>1
        <5>3. saver'.saved[i] = saver.saved[i] BY <2>7, <5>2
        <5> QED BY <2>7, <5>1, <5>2, <5>3
      <4>3. CASE \E j \in at..Len(saver.rows) : saver.rows[j].id = f.id
        <5>1. PICK j \in at..Len(saver.rows) : saver.rows[j].id = f.id BY <4>3
        <5>2. f.id # 0
          <6>1. Keyed(S) BY <1>0, <2>8
          <6> QED BY <3>2, <6>1 DEF Keyed
        <5>3. j # at BY <2>4, <3>2, <5>1, <5>2
        <5>4. j \in at + 1..Len(saver.rows) BY <2>6, <5>1, <5>3
        <5> QED BY <5>1, <5>4
      <4> QED BY <4>1, <4>2, <4>3
    <3> QED BY <2>9, <3>1, <3>2
  <2>12. at + 1 # 1 BY <2>6
  <2>13. WhileSaving'
    <3>1. /\ deletes = {} /\ manager.rows = saver.rows /\ manager.saving
          /\ saver.line = manager.line /\ saver.token = manager.token
      BY <1>v, <2>1, <2>3
    <3>2. /\ saver'.line = manager'.line /\ saver'.token = manager'.token
          /\ manager'.rows = saver'.rows /\ manager'.saving
      BY <2>2, <2>5, <3>1
    <3>3. saver'.at # 1 BY <2>5, <2>12
    <3>4. \A i \in DOMAIN saver'.saved : Stored(saver'.saved[i], i) \in defined'[manager'.line]
      BY <2>2, <2>10
    <3>5. \A f \in defined'[manager'.line] :
            \/ \E i \in DOMAIN saver'.saved : f = Stored(saver'.saved[i], i)
            \/ \E j \in saver'.at..Len(saver'.rows) : saver'.rows[j].id = f.id
      BY <2>2, <2>5, <2>11
    <3> HIDE DEF at
    <3> QED BY <3>2, <3>3, <3>4, <3>5 DEF WhileSaving, Stored
  <2>14. deletes' = {} /\ saver' # NoSave
    <3>1. saver' # NoSave BY <2>5, <2>6 DEF NoSave
    <3> QED BY <1>v, <2>1, <2>2, <2>3, <3>1
  <2> QED BY <2>13, <2>14 DEF SyncInv, WhileDeleting
<1>14. CASE FieldsSaved
  <2> DEFINE S == defined[manager.line]
  <2>1. /\ saver # NoSave /\ saver.at > Len(saver.rows) /\ saver' = NoSave
        /\ UNCHANGED <<deletes, defined>>
    BY <1>14 DEF FieldsSaved
  <2>2. /\ manager'.rows = saver.saved /\ manager'.line = manager.line /\ ~manager'.dirty
        /\ manager'.loading = manager.loading
    BY <1>0, <1>14 DEF FieldsSaved, ManagerState
  <2>3. Settled BY <1>s, <2>2 DEF Settled
  <2>4. manager.line \in Lines /\ Keyed(S) /\ deletes = {} BY <1>0, <1>v, <2>1, <2>3
  <2>5. \A j \in saver.at..Len(saver.rows) : FALSE BY <1>w, <2>1
  <2>6. \A f \in S : \E i \in DOMAIN saver.saved : f = Stored(saver.saved[i], i)
    BY <1>v, <2>1, <2>3, <2>5
  <2>7. \A i \in DOMAIN saver.saved : Stored(saver.saved[i], i) \in S /\ saver.saved[i].id # 0
    BY <1>v, <2>1, <2>3 DEF SavedSoFar
  <2>8. ListOf(S) = saver.saved BY <1>0, <2>4, <2>6, <2>7, ListSaved
  <2>9. Agree(saver.saved, manager'.dirty, S) BY <2>4, <2>8, ListShows DEF Agree
  <2> QED BY <2>1, <2>2, <2>4, <2>9 DEF SyncInv, WhileDeleting, WhileSaving
<1>15. CASE FieldsNotSaved
  <2>1. saver # NoSave /\ saver' = NoSave /\ saver.saved = <<>> /\ UNCHANGED <<deletes, defined>>
    BY <1>s, <1>15 DEF FieldsNotSaved
  <2>2. /\ manager'.rows = manager.rows /\ manager'.line = manager.line
        /\ manager'.dirty = manager.dirty /\ manager'.loading = manager.loading
    BY <1>0, <1>15 DEF FieldsNotSaved, ManagerState
  <2>3. Settled BY <1>s, <2>2 DEF Settled
  <2>4. saver.at = 1
    <3>1. saver.at \in Nat /\ 0 = saver.at - 1 BY <1>w, <2>1, NoRows
    <3> QED BY <3>1
  <2>5. Agree(manager.rows, manager.dirty, defined[manager.line]) /\ deletes = {}
    BY <1>v, <2>1, <2>3, <2>4
  <2> QED BY <2>1, <2>2, <2>5 DEF SyncInv, WhileDeleting, WhileSaving
<1>16. CASE UNCHANGED fieldVars
  BY <1>u, <1>16 DEF fieldVars
<1> QED BY <1>1, <1>2, <1>3, <1>4, <1>5, <1>6, <1>7, <1>8, <1>9, <1>10, <1>11, <1>12, <1>13,
           <1>14, <1>15, <1>16
        DEF FieldsNext, FetchAnswers, DeleteAnswers, SaverAnswers

\* The dialog and the server agree at the start,
LEMMA FieldsStart == FieldsInit => FieldsInv
<1>1. FieldsInit => LoadsInv BY DEF FieldsInit, LoadsInv
<1>2. FieldsInit => SyncInv BY DEF FieldsInit, SyncInv, Settled
<1> QED BY <1>1, <1>2, FieldTypesStart, RowsProperStart DEF FieldsInv

\* and go on to, by the four parts of the invariant,
LEMMA FieldsStep == FieldsInv /\ [FieldsNext]_fieldVars => FieldsInv'
<1> SUFFICES ASSUME FieldsInv, [FieldsNext]_fieldVars PROVE FieldsInv'
  OBVIOUS
<1>1. FieldTypes' BY FieldTypesStep DEF FieldsInv
<1>2. RowsProper' /\ SavedSoFar' BY RowsProperStep DEF FieldsInv
<1>3. LoadsInv' BY LoadsInvStep DEF FieldsInv
<1>4. SyncInv' BY <1>1, <1>2, SyncInvStep
<1> QED BY <1>1, <1>2, <1>3, <1>4 DEF FieldsInv

\* which say what is claimed of a dialog at rest.
LEMMA FieldsInvShows == FieldsInv => DialogInSync /\ LineFieldsTypeOK
<1> SUFFICES ASSUME FieldsInv PROVE DialogInSync /\ LineFieldsTypeOK
  OBVIOUS
<1>1. ASSUME Editable, ~Pending, ~mishap
      PROVE  /\ Ids(manager.rows) = {f.id : f \in defined[manager.line]}
             /\ ~manager.dirty => manager.rows = Listed(manager.line)
  <2>1. Settled /\ deletes = {} /\ saver = NoSave BY <1>1 DEF Settled, Editable, Pending
  <2>2. Agree(manager.rows, manager.dirty, defined[manager.line])
    BY <2>1 DEF FieldsInv, SyncInv
  <2> QED BY <2>2, ListedIs DEF Agree
<1>2. \A rows \in {manager.rows, saver.rows} : OneId(rows)
  BY DEF FieldsInv, RowsProper, Proper
<1>3. DialogInSync BY <1>1, <1>2 DEF DialogInSync, OneId
<1>4. LineFieldsTypeOK
  BY DEF FieldsInv, FieldTypes, LineFieldsTypeOK, ManagerState, FieldLoads, FieldDeletes,
         SaverState, Definitions
<1> QED BY <1>3, <1>4

-----------------------------------------------------------------------------
(***************************************************************************)
(* Requests in flight, counted.                                            *)
(***************************************************************************)
\* One that is made.
LEMMA OneMore ==
  ASSUME NEW S, IsFiniteSet(S), NEW r
  PROVE  /\ IsFiniteSet(S \cup {r}) /\ Cardinality(S \cup {r}) \in Nat
         /\ Cardinality(S \cup {r}) <= Cardinality(S) + 1
<1>1. Cardinality(S) \in Nat BY FS_CardinalityType
<1>2. /\ IsFiniteSet(S \cup {r})
      /\ Cardinality(S \cup {r}) = IF r \in S THEN Cardinality(S) ELSE Cardinality(S) + 1
  BY FS_AddElement
<1> QED BY <1>1, <1>2

\* One that ends.
LEMMA OneLess ==
  ASSUME NEW S, IsFiniteSet(S), NEW r \in S
  PROVE  /\ IsFiniteSet(S \ {r}) /\ Cardinality(S \ {r}) \in Nat
         /\ Cardinality(S) \in Nat /\ Cardinality(S \ {r}) = Cardinality(S) - 1
<1>1. /\ IsFiniteSet(S \ {r})
      /\ Cardinality(S \ {r}) = IF r \in S THEN Cardinality(S) - 1 ELSE Cardinality(S)
  BY FS_RemoveElement
<1>2. Cardinality(S) \in Nat /\ Cardinality(S \ {r}) \in Nat BY <1>1, FS_CardinalityType
<1> QED BY <1>1, <1>2

\* A sequence with one more at its end.
LEMMA OneAppended ==
  ASSUME NEW S, NEW s \in Seq(S), NEW e
  PROVE  Len(Append(s, e)) = Len(s) + 1
<1> DEFINE T == S \cup {e}
<1>1. s \in Seq(T) /\ e \in T OBVIOUS
<1> HIDE DEF T
<1> QED BY <1>1, AppendProperties

-----------------------------------------------------------------------------
(***************************************************************************)
(* The types of the drawer of mappings.                                    *)
(***************************************************************************)
CallsBounded == Len(remapping) + Len(mappingLoads) <= MaxCalls

\* No call is in flight at the start,
LEMMA CallsBoundedStart == RelationsInit => CallsBounded
BY RelationsAssumption DEF RelationsInit, CallsBounded

\* and one more is made only below the bound.
LEMMA CallsBoundedStep ==
  RelationsInv /\ CallsBounded /\ [RelationsNext]_relationVars => CallsBounded'
<1> SUFFICES ASSUME RelationsInv, CallsBounded, [RelationsNext]_relationVars PROVE CallsBounded'
  OBVIOUS
<1> DEFINE n == Len(remapping)
           m == Len(mappingLoads)
<1>0. /\ remapping \in Seq(ChangeOfMapping) /\ mappingLoads \in Seq(LoadOfMappings)
      /\ n \in Nat /\ m \in Nat /\ n + m <= MaxCalls /\ MaxCalls \in Nat
  BY RelationsAssumption, LenProperties DEF RelationsInv, RelationsTypes, CallsBounded
<1>1. CASE UNCHANGED <<remapping, mappingLoads>> BY <1>1 DEF CallsBounded
<1>a. \A r : Len(Append(remapping, r)) = n + 1 /\ Len(Append(mappingLoads, r)) = m + 1
  BY <1>0, OneAppended
<1>r. \A i \in DOMAIN remapping : Len(RemoveAt(remapping, i)) = n - 1
  BY <1>0, RemovedElement
<1>2. ASSUME MayCall, \/ (\E r : remapping' = Append(remapping, r)) /\ UNCHANGED mappingLoads
                      \/ (\E r : mappingLoads' = Append(mappingLoads, r)) /\ UNCHANGED remapping
      PROVE  CallsBounded'
  <2>1. n + m < MaxCalls BY <1>2 DEF MayCall
  <2>2. (n + 1) + m <= MaxCalls /\ n + (m + 1) <= MaxCalls BY <1>0, <2>1
  <2> QED BY <1>2, <1>a, <2>2 DEF CallsBounded
<1>3. ASSUME NEW i \in DOMAIN remapping, NEW r, remapping' = RemoveAt(remapping, i),
             mappingLoads' = Append(mappingLoads, r)
      PROVE  CallsBounded'
  <2>1. (n - 1) + (m + 1) <= MaxCalls BY <1>0
  <2> QED BY <1>3, <1>a, <1>r, <2>1 DEF CallsBounded
<1>5. ASSUME NEW p \in Relatives, OpenElsewhere(p) PROVE CallsBounded'
  BY <1>1, <1>5 DEF OpenElsewhere, mappingVars
<1>6. ASSUME NEW p \in Relatives,
             HandleViewRelations(p) \/ HandleDeleteRelation(p) \/ HandleAddRelation(p)
      PROVE  CallsBounded'
  BY <1>2, <1>6 DEF HandleViewRelations, HandleDeleteRelation, HandleAddRelation, Remap,
     LoadMappings
<1>7. CASE CloseDrawer \/ StartAdding \/ SearchApplied \/ CloseAddRelationModal
  BY <1>1, <1>7 DEF CloseDrawer, StartAdding, SearchApplied, CloseAddRelationModal, mappingVars
<1>8. ASSUME NEW s \in Searches, TypeSearch(s) PROVE CallsBounded'
  BY <1>1, <1>8 DEF TypeSearch, mappingVars
<1>9. ASSUME NEW c \in candidateLoads, NEW ps \in SUBSET Relatives,
             CandidatesAnswered(c, ps) \/ CandidatesFailed(c)
      PROVE  CallsBounded'
  BY <1>1, <1>9 DEF CandidatesAnswered, CandidatesFailed, mappingVars
<1>10. ASSUME NEW i, MappingsAnswered(i) \/ MappingsFailed(i) PROVE CallsBounded'
  <2>1. /\ i \in DOMAIN mappingLoads /\ mappingLoads' = MappingsEnded(i) /\ UNCHANGED remapping
    BY <1>10 DEF MappingsAnswered, MappingsFailed
  <2>2. i \in 1 .. m BY <1>0, <2>1, LenProperties
  <2>3. m - 1 \in Nat BY <1>0, <2>2
  <2>4. DOMAIN mappingLoads' = 1 .. m - 1 BY <2>1 DEF MappingsEnded
  <2>5. mappingLoads' \in Seq(LoadOfMappings)
    <3>1. MappingsEnded(i) = Remaining(mappingLoads, i) BY DEF MappingsEnded, Remaining
    <3> QED BY <1>0, <2>1, <3>1, MappingsPassable, LoadsRemain
  <2>6. Len(mappingLoads') = m - 1 BY <2>3, <2>4, <2>5, LenProperties
  <2>7. n + (m - 1) <= MaxCalls BY <1>0
  <2> QED BY <2>1, <2>6, <2>7 DEF CallsBounded
<1>11. ASSUME NEW i, ServeMappings(i) \/ FindMapping(i) \/ ServeRemapping(i)
       PROVE  CallsBounded'
  <2>1. CASE ServeMappings(i)
    <3>1. PICK l : mappingLoads' = [mappingLoads EXCEPT ![i] = l] BY <2>1 DEF ServeMappings
    <3>2. UNCHANGED remapping BY <2>1 DEF ServeMappings
    <3>3. Len(mappingLoads') = m BY <3>1
    <3> QED BY <1>0, <3>2, <3>3 DEF CallsBounded
  <2>2. CASE FindMapping(i) \/ ServeRemapping(i)
    <3>1. PICK r : remapping' = [remapping EXCEPT ![i] = r]
      BY <2>2 DEF FindMapping, ServeRemapping
    <3>2. UNCHANGED mappingLoads BY <2>2 DEF FindMapping, ServeRemapping
    <3>3. Len(remapping') = n BY <3>1
    <3> QED BY <1>0, <3>2, <3>3 DEF CallsBounded
  <2> QED BY <1>11, <2>1, <2>2
<1>12. ASSUME NEW i, RelationDeleted(i) \/ RelationAdded(i) PROVE CallsBounded'
  BY <1>3, <1>12 DEF RelationDeleted, RelationAdded, LoadMappings
<1>13. ASSUME NEW i, RemappingFailed(i) PROVE CallsBounded'
  <2> DEFINE mark(l) == [l EXCEPT !.passed = l.passed \/ l.served]
  <2>1. /\ i \in DOMAIN remapping /\ remapping' = RemoveAt(remapping, i)
        /\ \/ UNCHANGED mappingLoads
           \/ mappingLoads' = [j \in DOMAIN mappingLoads |-> mark(mappingLoads[j])]
    BY <1>13 DEF RemappingFailed
  <2> HIDE DEF mark
  <2>2. DOMAIN mappingLoads = 1 .. m BY <1>0, LenProperties
  <2>3. Len(mappingLoads') = m
    <3>1. CASE UNCHANGED mappingLoads BY <3>1
    <3>2. CASE mappingLoads' = [j \in DOMAIN mappingLoads |-> mark(mappingLoads[j])]
      <4>1. mappingLoads' = [j \in 1 .. m |-> mark(mappingLoads[j])] BY <2>2, <3>2
      <4> QED BY <1>0, <4>1
    <3> QED BY <2>1, <3>1, <3>2
  <2>4. Len(remapping') = n - 1 BY <1>r, <2>1
  <2>5. (n - 1) + m <= MaxCalls BY <1>0
  <2> QED BY <2>3, <2>4, <2>5 DEF CallsBounded
<1>14. CASE UNCHANGED relationVars BY <1>1, <1>14 DEF relationVars, mappingVars
<1> QED BY <1>5, <1>6, <1>7, <1>8, <1>9, <1>10, <1>11, <1>12, <1>13, <1>14
        DEF RelationsNext, MappingAnswers, RemappingAnswers, CandidateAnswers

\* So the state of the drawer is in order.
LEMMA RelationsTyped == RelationsInv /\ CallsBounded => RelationsTypeOK
<1> SUFFICES ASSUME RelationsInv, CallsBounded PROVE RelationsTypeOK
  OBVIOUS
<1>1. drawer \in DrawerState /\ RelationsTypes BY DEF RelationsInv, RelationsTypes
<1>2. /\ drawer.related \in [of : Relatives \cup {Nothing}, children : SUBSET Relatives]
      /\ drawer.candidates \in [search : Searches \cup {Nothing}, programs : SUBSET Relatives]
      /\ {drawer.typed, drawer.search} \subseteq Searches
      /\ drawer.current \in Relatives \cup {Nothing}
      /\ {drawer.open, drawer.adding, drawer.loading} \subseteq BOOLEAN
  BY <1>1 DEF DrawerState
<1> QED
  BY <1>1, <1>2
  DEF RelationsTypes, LoadOfMappings, RowOfMapping, NewRow, ChangeOfMapping, CallsBounded,
      RelationsTypeOK

-----------------------------------------------------------------------------
(***************************************************************************)
(* The types of a tab of the permission page.                              *)
(***************************************************************************)
MatrixRest ==
    /\ busy \in [loading : BOOLEAN, saving : BOOLEAN]
    /\ counts \in [elsewhere : 0..MaxElsewhere, saves : 0..MaxMatrixSaves]
    /\ edited \subseteq Targets \X Cells
    /\ DOMAIN matrix.rows # {} => matrix.of \in Targets

\* Nothing is loaded or changed at the start,
LEMMA MatrixRestStart == MatrixInit => MatrixRest
<1> SUFFICES ASSUME MatrixInit PROVE MatrixRest
  OBVIOUS
<1>1. /\ matrix = [rows |-> Unanswered, changes |-> Unanswered, of |-> NoTarget]
      /\ busy = [loading |-> FALSE, saving |-> FALSE]
      /\ counts = [elsewhere |-> 0, saves |-> 0] /\ edited = {}
  BY DEF MatrixInit
<1>2. DOMAIN matrix.rows = {}
  <2>1. matrix.rows = Unanswered BY <1>1
  <2> QED BY <2>1, UnansweredIsEmpty
<1>3. MaxElsewhere \in Nat /\ MaxMatrixSaves \in Nat BY MatrixAssumption
<1> QED BY <1>1, <1>2, <1>3 DEF MatrixRest

\* and rows shown are those of a target.
LEMMA MatrixRestStep == MatrixInv /\ MatrixRest /\ [MatrixNext]_matrixVars => MatrixRest'
<1> SUFFICES ASSUME MatrixInv, MatrixRest, [MatrixNext]_matrixVars PROVE MatrixRest'
  OBVIOUS
<1>0. /\ busy \in [loading : BOOLEAN, saving : BOOLEAN]
      /\ counts \in [elsewhere : 0..MaxElsewhere, saves : 0..MaxMatrixSaves]
      /\ edited \subseteq Targets \X Cells /\ matrix \in Tabbed
      /\ DOMAIN matrix.rows # {} => matrix.of \in Targets
      /\ loads \in Seq(MatrixLoad) /\ saving \subseteq MatrixSave
      /\ MaxElsewhere \in Nat /\ MaxMatrixSaves \in Nat
  BY MatrixAssumption DEF MatrixRest, MatrixInv, MatrixTypes
<1>b. ASSUME UNCHANGED <<counts, edited>>,
             \E b \in BOOLEAN : busy' \in {busy, [busy EXCEPT !.loading = b],
                                           [busy EXCEPT !.saving = b]},
             \/ matrix' = matrix
             \/ \E x, y : \E t \in Targets : matrix' = [rows |-> x, changes |-> y, of |-> t]
      PROVE  MatrixRest'
  <2>1. busy' \in [loading : BOOLEAN, saving : BOOLEAN] BY <1>0, <1>b
  <2>2. DOMAIN matrix'.rows # {} => matrix'.of \in Targets BY <1>0, <1>b
  <2> QED BY <1>0, <1>b, <2>1, <2>2 DEF MatrixRest
<1>1. ASSUME NEW t \in Targets, TargetsArrived(t) \/ ChooseTarget(t) PROVE MatrixRest'
  BY <1>b, <1>1 DEF TargetsArrived, ChooseTarget, LoadMatrix
<1>2. CASE Reload
  BY <1>b, <1>2 DEF Reload, LoadMatrix
<1>3. ASSUME NEW c \in Cells, NEW d \in Decisions, ChangeDecision(c, d) PROVE MatrixRest'
  <2>1. /\ matrix' = [matrix EXCEPT !.changes = Changed(c, d)] /\ c \in DOMAIN matrix.rows
        /\ edited' = edited \cup {<<matrix.of, c>>} /\ UNCHANGED <<busy, counts>>
    BY <1>3 DEF ChangeDecision
  <2>2. matrix'.rows = matrix.rows /\ matrix'.of = matrix.of BY <1>0, <2>1 DEF Tabbed
  <2>3. <<matrix.of, c>> \in Targets \X Cells BY <1>0, <2>1
  <2> QED BY <1>0, <2>1, <2>2, <2>3 DEF MatrixRest
<1>4. CASE Save
  <2>1. /\ busy' = [busy EXCEPT !.saving = TRUE] /\ counts.saves < MaxMatrixSaves
        /\ counts' = [counts EXCEPT !.saves = @ + 1] /\ UNCHANGED <<matrix, edited>>
    BY <1>4 DEF Save
  <2>2. counts.saves + 1 \in 0..MaxMatrixSaves BY <1>0, <2>1
  <2>3. counts' \in [elsewhere : 0..MaxElsewhere, saves : 0..MaxMatrixSaves]
    BY <1>0, <2>1, <2>2
  <2> QED BY <1>0, <2>1, <2>3 DEF MatrixRest
<1>5. ASSUME NEW s \in saving, SaveAnswered(s) PROVE MatrixRest'
  <2>1. s.target \in Targets BY <1>0 DEF MatrixSave
  <2> QED BY <1>b, <1>5, <2>1 DEF SaveAnswered
<1>6. ASSUME NEW s \in saving, SaveFailed(s) PROVE MatrixRest'
  BY <1>b, <1>6 DEF SaveFailed
<1>7. ASSUME NEW k \in DOMAIN loads, MatrixLoaded(k) PROVE MatrixRest'
  <2>1. loads[k] \in MatrixLoad BY <1>0, ElementOfSeq
  <2>2. loads[k].target \in Targets BY <2>1 DEF MatrixLoad
  <2> QED BY <1>b, <1>7, <2>2 DEF MatrixLoaded
<1>8. ASSUME NEW k \in DOMAIN loads, LoadFailed(k) \/ ServeMatrix(k) PROVE MatrixRest'
  BY <1>b, <1>8 DEF LoadFailed, ServeMatrix
<1>9. ASSUME NEW s \in saving, ServeSave(s) PROVE MatrixRest'
  BY <1>b, <1>9 DEF ServeSave
<1>10. ASSUME NEW t \in Targets, NEW c \in Cells, NEW d \in Decisions, ChangeElsewhere(t, c, d)
       PROVE  MatrixRest'
  <2>1. /\ counts.elsewhere < MaxElsewhere /\ counts' = [counts EXCEPT !.elsewhere = @ + 1]
        /\ UNCHANGED <<matrix, busy, edited>>
    BY <1>10 DEF ChangeElsewhere
  <2>2. counts.elsewhere + 1 \in 0..MaxElsewhere BY <1>0, <2>1
  <2>3. counts' \in [elsewhere : 0..MaxElsewhere, saves : 0..MaxMatrixSaves]
    BY <1>0, <2>1, <2>2
  <2> QED BY <1>0, <2>1, <2>3 DEF MatrixRest
<1>11. CASE UNCHANGED matrixVars
  BY <1>0, <1>11 DEF matrixVars, MatrixRest
<1> QED BY <1>1, <1>2, <1>3, <1>4, <1>5, <1>6, <1>7, <1>8, <1>9, <1>10, <1>11
        DEF MatrixNext, LoadAnswers, SaveAnswers

\* So the state of the tab is in order.
LEMMA MatrixTyped == MatrixInv /\ MatrixRest => MatrixTypeOK
BY DEF MatrixInv, MatrixTypes, Tabbed, MatrixLoad, MatrixSave, Rows, MatrixRest, MatrixTypeOK

-----------------------------------------------------------------------------
(***************************************************************************)
(* The types of the system page.                                           *)
(***************************************************************************)
Posted == {r \in statusAsked : r.state = "posted"}

\* Every migration that is asked for begins once at most, and requests are
\* made by a page that was opened.
MigrationBounds ==
    /\ system.visit <= MaxVisits /\ (system.open => system.visit # 0)
    /\ system.handle <= system.made /\ system.made <= MaxIntervals
    /\ \A p \in pollers : p.visit \in 1..MaxVisits
    /\ \A r \in statusAsked : r.visit \in 1..MaxVisits
    /\ IsFiniteSet(Posted) /\ migration.begun + Cardinality(Posted) <= migration.asked
    /\ migration.asked <= MaxMigrations

\* No migration was asked for at the start,
LEMMA MigrationBoundsStart == MigrationInit => MigrationBounds
<1> SUFFICES ASSUME MigrationInit PROVE MigrationBounds
  OBVIOUS
<1>1. /\ system.visit = 0 /\ ~system.open /\ system.handle = 0 /\ system.made = 0
      /\ pollers = {} /\ statusAsked = {} /\ migration.begun = 0 /\ migration.asked = 0
  BY DEF MigrationInit, NoPoller
<1>2. Posted = {} BY <1>1 DEF Posted
<1>3. IsFiniteSet(Posted) /\ Cardinality(Posted) = 0 BY <1>2, FS_EmptySet
<1>4. MaxVisits \in Nat /\ MaxIntervals \in Nat /\ MaxMigrations \in Nat
  BY MigrationAssumption
<1> QED BY <1>1, <1>3, <1>4 DEF MigrationBounds

\* A handler that calls startMigrationPolling keeps to the bounds.
LEMMA PollingStartedBounds ==
  ASSUME MigrationInv, MigrationBounds, NEW r \in statusAsked, NEW n \in Nat,
         NEW shown, StartMigrationPolling(r, n, shown), r.state # "posted",
         statusAsked' = statusAsked \ {r}, UNCHANGED migration
  PROVE  MigrationBounds'
<1>1. /\ system \in SystemState /\ pollers \subseteq [id : Nat \ {0}, visit : Nat]
      /\ system.made \in Nat /\ system.handle \in Nat
  BY DEF MigrationInv, MigrationTypes, SystemState
<1>2. /\ system.made + n <= MaxIntervals
      /\ pollers' = {p \in pollers : n = 0 \/ p.id # r.sees}
                       \cup {[id |-> system.made + i, visit |-> r.visit] : i \in 1..n}
      /\ system' = [system EXCEPT !.made = @ + n,
                                  !.shown = IF Here(r) THEN shown ELSE @,
                                  !.handle = IF Here(r) /\ n > 0 THEN system.made + n ELSE @]
  BY DEF StartMigrationPolling
<1>3. /\ system'.made = system.made + n /\ system'.visit = system.visit
      /\ system'.open = system.open
      /\ system'.handle \in {system.handle, system.made + n}
  BY <1>1, <1>2 DEF SystemState
<1>4. system'.handle <= system'.made BY <1>1, <1>3 DEF MigrationBounds
<1>5. \A p \in pollers' : p.visit \in 1..MaxVisits BY <1>2 DEF MigrationBounds
<1>6. Posted' = Posted BY DEF Posted
<1> QED BY <1>2, <1>3, <1>4, <1>5, <1>6 DEF MigrationBounds

\* and each that was begins once.
LEMMA MigrationBoundsStep ==
  MigrationInv /\ MigrationBounds /\ [MigrationNext]_migrationVars => MigrationBounds'
<1> SUFFICES ASSUME MigrationInv, MigrationBounds, [MigrationNext]_migrationVars
             PROVE  MigrationBounds'
  OBVIOUS
<1>0. /\ system \in SystemState /\ migration \in MigrationState
      /\ statusAsked \subseteq StatusCalls /\ pollers \subseteq [id : Nat \ {0}, visit : Nat]
      /\ system.made \in Nat /\ system.visit \in Nat
      /\ migration.begun \in Nat /\ migration.asked \in Nat
      /\ IsFiniteSet(Posted) /\ Cardinality(Posted) \in Nat
      /\ MaxVisits \in Nat /\ MaxIntervals \in Nat /\ MaxMigrations \in Nat
  BY MigrationAssumption, FS_CardinalityType
     DEF MigrationInv, MigrationTypes, MigrationBounds, SystemState, MigrationState
<1>s. ASSUME /\ UNCHANGED <<pollers, migration>>
             /\ \A r \in statusAsked' : r.visit \in 1..MaxVisits
             /\ Posted' = Posted
             /\ system'.visit <= MaxVisits /\ (system'.open => system'.visit # 0)
             /\ system'.handle <= system'.made /\ system'.made <= MaxIntervals
      PROVE  MigrationBounds'
  BY <1>s DEF MigrationBounds
<1>m. ASSUME UNCHANGED <<system, pollers>>,
             \A r \in statusAsked' : r.visit \in 1..MaxVisits,
             IsFiniteSet(Posted'), migration'.asked <= MaxMigrations,
             migration'.begun + Cardinality(Posted') <= migration'.asked
      PROVE  MigrationBounds'
  BY <1>m DEF MigrationBounds
<1>1. CASE OpenSystem
  <2> DEFINE s == StatusRequest("open", NoPoller, system.visit + 1, "sent")
  <2>1. /\ system.visit < MaxVisits
        /\ system' = [system EXCEPT !.visit = @ + 1, !.open = TRUE, !.shown = "not_started",
                                    !.handle = NoPoller]
        /\ statusAsked' = statusAsked \cup {s} /\ UNCHANGED <<pollers, migration>>
    BY <1>1 DEF OpenSystem, AskStatus
  <2>2. s.state = "sent" /\ s.visit = system.visit + 1 BY DEF StatusRequest
  <2> HIDE DEF s
  <2>3. Posted' = Posted BY <2>1, <2>2 DEF Posted
  <2>4. /\ system'.visit = system.visit + 1 /\ system'.handle = 0
        /\ system'.made = system.made
    BY <1>0, <2>1 DEF SystemState, NoPoller
  <2>5. s.visit \in 1..MaxVisits BY <1>0, <2>1, <2>2
  <2>6. \A r \in statusAsked' : r.visit \in 1..MaxVisits BY <2>1, <2>5 DEF MigrationBounds
  <2>7. /\ system'.visit <= MaxVisits /\ system'.visit # 0
        /\ system'.handle <= system'.made /\ system'.made <= MaxIntervals
    BY <1>0, <2>1, <2>4 DEF MigrationBounds
  <2> QED BY <1>s, <2>1, <2>3, <2>6, <2>7
<1>2. CASE LeaveSystem
  <2>1. /\ system'.visit = system.visit /\ system'.handle = system.handle
        /\ system'.made = system.made /\ ~system'.open
        /\ UNCHANGED <<pollers, statusAsked, migration>>
    BY <1>0, <1>2 DEF LeaveSystem, SystemState
  <2>2. Posted' = Posted BY <2>1 DEF Posted
  <2> QED BY <1>s, <2>1, <2>2 DEF MigrationBounds
<1>3. CASE ServerRestarts \/ MigrationBegins \/ \E s \in {"completed", "failed"} : MigrationEnds(s)
  <2>1. UNCHANGED <<system, pollers, statusAsked>>
    BY <1>3 DEF ServerRestarts, MigrationBegins, MigrationEnds
  <2>2. migration'.asked = migration.asked /\ migration'.begun \in Nat
        /\ migration'.begun <= migration.begun
    <3>1. CASE ServerRestarts
      BY <1>0, <3>1 DEF ServerRestarts, MigrationState
    <3>2. CASE MigrationBegins
      <4>1. migration'.begun = migration.begun - 1 /\ migration.begun > 0
            /\ migration'.asked = migration.asked
        BY <1>0, <3>2 DEF MigrationBegins, MigrationState
      <4> QED BY <1>0, <4>1
    <3>3. ASSUME NEW s \in {"completed", "failed"}, MigrationEnds(s)
          PROVE  migration'.asked = migration.asked /\ migration'.begun = migration.begun
      BY <1>0, <3>3 DEF MigrationEnds, MigrationState
    <3> QED BY <1>0, <1>3, <3>1, <3>2, <3>3
  <2>3. Posted' = Posted BY <2>1 DEF Posted
  <2>4. migration'.begun + Cardinality(Posted') <= migration'.asked
    BY <1>0, <2>2, <2>3 DEF MigrationBounds
  <2> QED BY <1>0, <1>m, <2>1, <2>2, <2>3, <2>4 DEF MigrationBounds
<1>4. ASSUME NEW by \in {"start", "rollback"}, AskMigration(by) PROVE MigrationBounds'
  <2> DEFINE s == StatusRequest(by, system.handle, system.visit, "posted")
  <2>1. /\ system.open /\ migration.asked < MaxMigrations
        /\ statusAsked' = statusAsked \cup {s} /\ UNCHANGED <<system, pollers>>
        /\ migration' = [migration EXCEPT !.asked = @ + 1]
    BY <1>4 DEF AskMigration, AskStatus
  <2>2. s.state = "posted" /\ s.visit = system.visit BY DEF StatusRequest
  <2> HIDE DEF s
  <2>3. Posted' = Posted \cup {s} BY <2>1, <2>2 DEF Posted
  <2>4. /\ IsFiniteSet(Posted') /\ Cardinality(Posted') \in Nat
        /\ Cardinality(Posted') <= Cardinality(Posted) + 1
    BY <1>0, <2>3, OneMore
  <2>5. migration'.asked = migration.asked + 1 /\ migration'.begun = migration.begun
    BY <1>0, <2>1 DEF MigrationState
  <2>6. migration'.begun + Cardinality(Posted') <= migration'.asked
        /\ migration'.asked <= MaxMigrations
    BY <1>0, <2>1, <2>4, <2>5 DEF MigrationBounds
  <2>7. s.visit \in 1..MaxVisits BY <1>0, <2>1, <2>2 DEF MigrationBounds
  <2>8. \A r \in statusAsked' : r.visit \in 1..MaxVisits BY <2>1, <2>7 DEF MigrationBounds
  <2> QED BY <1>m, <2>1, <2>4, <2>6, <2>8
<1>5. ASSUME NEW p \in pollers, PollStatus(p) PROVE MigrationBounds'
  <2> DEFINE s == StatusRequest("poll", p.id, p.visit, "sent")
  <2>1. statusAsked' = statusAsked \cup {s} /\ UNCHANGED <<system, pollers, migration>>
    BY <1>5 DEF PollStatus, AskStatus
  <2>2. s.state = "sent" /\ s.visit = p.visit BY DEF StatusRequest
  <2> HIDE DEF s
  <2>3. Posted' = Posted BY <2>1, <2>2 DEF Posted
  <2>4. s.visit \in 1..MaxVisits BY <2>2 DEF MigrationBounds
  <2> QED BY <1>s, <2>1, <2>3, <2>4 DEF MigrationBounds
<1>6. ASSUME NEW r \in statusAsked, MigrationAccepted(r) PROVE MigrationBounds'
  <2> DEFINE s == [r EXCEPT !.state = "sent"]
  <2>1. /\ r.state = "posted" /\ statusAsked' = (statusAsked \ {r}) \cup {s}
        /\ \E k \in {0, 1} : migration' = [migration EXCEPT !.begun = @ + k]
        /\ UNCHANGED <<system, pollers>>
    BY <1>6 DEF MigrationAccepted
  <2>2. s.state = "sent" /\ s.visit = r.visit BY <1>0 DEF StatusCalls
  <2> HIDE DEF s
  <2>3. Posted' = Posted \ {r} /\ r \in Posted BY <2>1, <2>2 DEF Posted
  <2>4. IsFiniteSet(Posted') /\ Cardinality(Posted') = Cardinality(Posted) - 1
    BY <1>0, <2>3, OneLess
  <2>5. /\ migration'.asked = migration.asked
        /\ migration'.begun \in {migration.begun, migration.begun + 1}
    BY <1>0, <2>1 DEF MigrationState
  <2>6. migration'.begun + Cardinality(Posted') <= migration'.asked
    BY <1>0, <2>4, <2>5 DEF MigrationBounds
  <2>7. \A q \in statusAsked' : q.visit \in 1..MaxVisits BY <2>1, <2>2 DEF MigrationBounds
  <2> QED BY <1>m, <2>1, <2>4, <2>5, <2>6, <2>7 DEF MigrationBounds
<1>7. ASSUME NEW r \in statusAsked, MigrationRefused(r) PROVE MigrationBounds'
  <2>1. /\ r.state = "posted" /\ statusAsked' = statusAsked \ {r}
        /\ migration' = migration \/ migration' = [migration EXCEPT !.begun = @ + 1]
        /\ UNCHANGED <<system, pollers>>
    BY <1>7 DEF MigrationRefused
  <2>2. Posted' = Posted \ {r} /\ r \in Posted BY <2>1 DEF Posted
  <2>3. IsFiniteSet(Posted') /\ Cardinality(Posted') = Cardinality(Posted) - 1
    BY <1>0, <2>2, OneLess
  <2>4. /\ migration'.asked = migration.asked
        /\ migration'.begun \in {migration.begun, migration.begun + 1}
    BY <1>0, <2>1 DEF MigrationState
  <2>5. migration'.begun + Cardinality(Posted') <= migration'.asked
    BY <1>0, <2>3, <2>4 DEF MigrationBounds
  <2> QED BY <1>m, <2>1, <2>3, <2>4, <2>5 DEF MigrationBounds
<1>8. ASSUME NEW r \in statusAsked, ServeStatus(r) PROVE MigrationBounds'
  <2> DEFINE s == [r EXCEPT !.state = migration.status]
  <2>1. /\ r.state = "sent" /\ statusAsked' = (statusAsked \ {r}) \cup {s}
        /\ UNCHANGED <<system, pollers, migration>>
    BY <1>8 DEF ServeStatus
  <2>2. s.state = migration.status /\ s.visit = r.visit BY <1>0 DEF StatusCalls
  <2>3. migration.status # "posted" BY <1>0 DEF MigrationState, MigrationStatus, Running
  <2> HIDE DEF s
  <2>4. Posted' = Posted BY <2>1, <2>2, <2>3 DEF Posted
  <2> QED BY <1>s, <2>1, <2>2, <2>4 DEF MigrationBounds
<1>9. ASSUME NEW r \in statusAsked, StatusLoaded(r) PROVE MigrationBounds'
  <2> DEFINE n == Pollings(r, r.state)
  <2>1. /\ r.state \in MigrationStatus /\ statusAsked' = statusAsked \ {r}
        /\ StartMigrationPolling(r, n, r.state) /\ UNCHANGED migration
    BY <1>9 DEF StatusLoaded
  <2>2. n \in Nat /\ r.state # "posted" BY <2>1 DEF Pollings, MigrationStatus, Running
  <2> HIDE DEF n
  <2> QED BY <2>1, <2>2, PollingStartedBounds
<1>10. ASSUME NEW r \in statusAsked, StatusNotLoaded(r) PROVE MigrationBounds'
  <2> DEFINE n == Pollings(r, "unknown")
  <2>1. /\ statusAsked' = statusAsked \ {r} /\ r.state # "posted"
        /\ StartMigrationPolling(r, n, system.shown) /\ UNCHANGED migration
    BY <1>10 DEF StatusNotLoaded
  <2>2. n \in Nat BY DEF Pollings
  <2> HIDE DEF n
  <2> QED BY <2>1, <2>2, PollingStartedBounds
<1>11. ASSUME NEW r \in statusAsked, StatusPolled(r) \/ StatusNotPolled(r)
       PROVE  MigrationBounds'
  <2>1. /\ statusAsked' = statusAsked \ {r} /\ UNCHANGED migration
        /\ pollers' \subseteq pollers
        /\ \/ system' = system
           \/ \E x : system' = [system EXCEPT !.shown = x]
           \/ \E x : system' = [system EXCEPT !.shown = x, !.handle = NoPoller]
    BY <1>11 DEF StatusPolled, StatusNotPolled, IntervalCleared
  <2>2. /\ system'.visit = system.visit /\ system'.open = system.open
        /\ system'.made = system.made /\ system'.handle \in {system.handle, 0}
    BY <1>0, <2>1 DEF SystemState, NoPoller
  <2>3. IsFiniteSet(Posted') /\ Cardinality(Posted') \in Nat
        /\ Cardinality(Posted') <= Cardinality(Posted)
    <3>1. CASE r \in Posted
      <4>1. Posted' = Posted \ {r} BY <2>1 DEF Posted
      <4>2. /\ IsFiniteSet(Posted') /\ Cardinality(Posted') \in Nat
            /\ Cardinality(Posted') = Cardinality(Posted) - 1
        BY <1>0, <3>1, <4>1, OneLess
      <4> QED BY <1>0, <4>2
    <3>2. CASE r \notin Posted
      <4>1. Posted' = Posted BY <2>1, <3>2 DEF Posted
      <4> QED BY <1>0, <4>1
    <3> QED BY <3>1, <3>2
  <2>4. migration.begun + Cardinality(Posted') <= migration.asked
    BY <1>0, <2>3 DEF MigrationBounds
  <2>5. system'.handle <= system'.made BY <1>0, <2>2 DEF MigrationBounds
  <2> QED BY <2>1, <2>2, <2>3, <2>4, <2>5 DEF MigrationBounds
<1>12. CASE UNCHANGED migrationVars
  <2>1. UNCHANGED <<system, pollers, statusAsked, migration>> BY <1>12 DEF migrationVars
  <2>2. Posted' = Posted BY <2>1 DEF Posted
  <2> QED BY <2>1, <2>2 DEF MigrationBounds
<1> QED
  BY <1>1, <1>2, <1>3, <1>4, <1>5, <1>6, <1>7, <1>8, <1>9, <1>10, <1>11, <1>12
  DEF MigrationNext, StatusAnswers, MigrationGoesOn

\* So the state of the system page is in order.
LEMMA MigrationTyped == MigrationInv /\ MigrationBounds => MigrationTypeOK
<1> SUFFICES ASSUME MigrationInv, MigrationBounds PROVE MigrationTypeOK
  OBVIOUS
<1>1. /\ MigrationTypes /\ IntervalsInv /\ system \in SystemState /\ migration \in MigrationState
      /\ pollers \subseteq [id : Nat \ {0}, visit : Nat] /\ statusAsked \subseteq StatusCalls
  BY DEF MigrationInv, MigrationTypes
<1>2. /\ system.visit \in 0..MaxVisits /\ system.handle \in 0..MaxIntervals
      /\ system.made \in 0..MaxIntervals /\ migration.begun \in 0..MaxMigrations
  <2>1. /\ system.visit \in Nat /\ system.handle \in Nat /\ system.made \in Nat
        /\ migration.begun \in Nat /\ migration.asked \in Nat
        /\ MaxVisits \in Nat /\ MaxIntervals \in Nat /\ MaxMigrations \in Nat
    BY <1>1, MigrationAssumption DEF SystemState, MigrationState
  <2>2. Cardinality(Posted) \in Nat BY FS_CardinalityType DEF MigrationBounds
  <2> QED BY <2>1, <2>2 DEF MigrationBounds
<1>3. pollers \subseteq [id : 1..MaxIntervals, visit : 1..MaxVisits]
  <2> SUFFICES ASSUME NEW p \in pollers PROVE p \in [id : 1..MaxIntervals, visit : 1..MaxVisits]
    OBVIOUS
  <2>1. p \in [id : Nat \ {0}, visit : Nat] /\ p.id <= system.made /\ p.visit \in 1..MaxVisits
    BY <1>1 DEF IntervalsInv, MigrationBounds
  <2>2. p.id \in 1..MaxIntervals BY <1>2, <2>1, MigrationAssumption
  <2> QED BY <2>1, <2>2
<1>4. statusAsked \subseteq [by : {"open", "start", "rollback", "poll"}, sees : 0..MaxIntervals,
                             visit : 1..MaxVisits,
                             state : MigrationStatus \cup {"posted", "sent"}]
  <2> SUFFICES ASSUME NEW r \in statusAsked
               PROVE  r \in [by : {"open", "start", "rollback", "poll"}, sees : 0..MaxIntervals,
                             visit : 1..MaxVisits,
                             state : MigrationStatus \cup {"posted", "sent"}]
    OBVIOUS
  <2>1. r \in StatusCalls /\ r.sees <= system.made /\ r.visit \in 1..MaxVisits
    BY <1>1 DEF IntervalsInv, MigrationBounds
  <2>2. r.sees \in Nat BY <2>1 DEF StatusCalls
  <2>3. r.sees \in 0..MaxIntervals BY <1>2, <2>1, <2>2, MigrationAssumption
  <2> QED BY <2>1, <2>3 DEF StatusCalls
<1> QED BY <1>1, <1>2, <1>3, <1>4
        DEF MigrationTypes, SystemState, MigrationState, MigrationTypeOK

-----------------------------------------------------------------------------
(***************************************************************************)
(* The bounds of the table of programs, of the backups and of the export   *)
(* page.                                                                   *)
(***************************************************************************)
LEMMA BoundsArePositive ==
  /\ MaxLoads \in Nat \ {0} /\ MaxListings \in Nat \ {0} /\ MaxCenterVisits \in Nat \ {0}
BY TableAssumption, BackupAssumption, CenterAssumption, Zenon

LoadsBounded == IsFiniteSet(fieldLoads) /\ Len(rowLoads) <= MaxLoads

\* The table is loaded once when it opens,
LEMMA LoadsBoundedStart == TableInit => LoadsBounded
<1> SUFFICES ASSUME TableInit PROVE LoadsBounded
  OBVIOUS
<1>1. fieldLoads = {} /\ Len(rowLoads) = 1 BY DEF TableInit
<1>2. 1 <= MaxLoads BY BoundsArePositive
<1> QED BY <1>1, <1>2, FS_EmptySet DEF LoadsBounded

\* and again only below the bound.
LEMMA LoadsBoundedStep == TableInv /\ LoadsBounded /\ [TableNext]_tableVars => LoadsBounded'
<1> SUFFICES ASSUME TableInv, LoadsBounded, [TableNext]_tableVars PROVE LoadsBounded'
  OBVIOUS
<1>1. CASE UNCHANGED tableVars BY <1>1 DEF tableVars, LoadsBounded
<1>2. CASE TableNext
  <2>1. IsFiniteSet(fieldLoads')
    <3>0. IsFiniteSet(fieldLoads) BY DEF LoadsBounded
    <3>1. IsFiniteSet(Superseded) /\ \A f : IsFiniteSet(Superseded \cup {f})
      <4> DEFINE old == [f \in fieldLoads |-> [f EXCEPT !.old = TRUE]]
      <4>1. Superseded = {old[f] : f \in fieldLoads} BY DEF Superseded
      <4>2. old = [f \in fieldLoads |-> old[f]] OBVIOUS
      <4> HIDE DEF old
      <4>3. old \in Surjection(fieldLoads, Superseded) BY <4>1, <4>2, Zenon DEF Surjection
      <4>4. IsFiniteSet(Superseded) BY <3>0, <4>3, FS_Surjection, Zenon
      <4> QED BY <4>4, FS_AddElement
    <3>2. \/ UNCHANGED fieldLoads
          \/ fieldLoads' = Superseded \/ \E f : fieldLoads' = Superseded \cup {f}
          \/ \E f : fieldLoads' = fieldLoads \ {f}
      BY <1>2 DEF TableNext, TableSteps, RowAnswers, TypeKeyword, KeywordFromAddress,
         ApplySearchKeyword, DebounceFires, HandleResetFilter, FilterByLine,
         FilterFieldsAnswered, FilterFieldsFailed, FilterByField, TurnPage, ChangePrograms,
         ProgramsChanged, ProgramsNotChanged, RowsAnswered, RowsFailed
    <3>3. \A f : IsFiniteSet(fieldLoads \ {f}) BY <3>0, FS_RemoveElement
    <3> QED BY <3>0, <3>1, <3>2, <3>3
  <2>2. Cardinality(fieldLoads') \in Nat BY <2>1, FS_CardinalityType
  <2>3. Len(rowLoads') \in Nat
    <3>1. TableInv' BY TableStep
    <3>2. rowLoads' \in Seq(RowLoads) BY <3>1 DEF TableInv, TableTypes
    <3> QED BY <3>2, LenProperties
  <2> DEFINE n == Len(rowLoads')
             m == Cardinality(fieldLoads')
             c == IF changing' = NoQuery THEN 0 ELSE 1
  <2>4. n + m + c <= MaxLoads BY <1>2 DEF TableNext, UnderWay
  <2>5. c \in Nat OBVIOUS
  <2> HIDE DEF n, m, c
  <2>6. n <= MaxLoads BY <2>2, <2>3, <2>4, <2>5, BoundsArePositive DEF n, m
  <2> QED BY <2>1, <2>6 DEF n, LoadsBounded
<1> QED BY <1>1, <1>2

\* So the state of the table is in order.
LEMMA TableTyped == TableInv /\ LoadsBounded => TableTypeOK
<1> SUFFICES ASSUME TableInv, LoadsBounded PROVE TableTypeOK
  OBVIOUS
<1>1. table \in TableState /\ TableTypes BY DEF TableInv, TableTypes
<1>2. /\ Query(table) \in Queries /\ table.input \in Keywords
      /\ table.fields \in FilterLines \cup {AnyLine} /\ table.rows \in Queries \cup {NoQuery}
      /\ {table.typed, table.loading} \subseteq BOOLEAN
  BY <1>1, QueryOfTable DEF TableState, LineChoices
<1> QED BY <1>1, <1>2 DEF TableTypes, RowLoads, OutdatedState, LoadsBounded, TableTypeOK

ListingsBounded == Len(listings) <= MaxListings

\* The backups are listed once when the page opens,
LEMMA ListingsBoundedStart == BackupInit => ListingsBounded
<1> SUFFICES ASSUME BackupInit PROVE ListingsBounded
  OBVIOUS
<1>1. Len(listings) = 1 BY DEF BackupInit
<1>2. 1 <= MaxListings BY BoundsArePositive
<1> QED BY <1>1, <1>2 DEF ListingsBounded

\* and again only below the bound.
LEMMA ListingsBoundedStep ==
  BackupInv /\ ListingsBounded /\ [BackupNext]_backupVars => ListingsBounded'
<1> SUFFICES ASSUME BackupInv, ListingsBounded, [BackupNext]_backupVars PROVE ListingsBounded'
  OBVIOUS
<1>0. /\ listings \in Seq(ListingsOfBackups) /\ Len(listings) \in Nat
      /\ Len(listings) <= MaxListings /\ MaxListings \in Nat
      /\ DOMAIN listings = 1 .. Len(listings)
      /\ \A i \in DOMAIN listings : listings[i] \in ListingsOfBackups
  BY LenProperties, ElementOfSeq, BoundsArePositive
     DEF BackupInv, BackupTypes, ListingsBounded
<1>k. ASSUME Len(listings') = Len(listings) PROVE ListingsBounded'
  BY <1>0, <1>k DEF ListingsBounded
<1>l. ASSUME NEW new, NEW task, LoadBackups(new, task) PROVE ListingsBounded'
  <2>1. listings' = Append(listings, Listing(task)) /\ Len(listings) + 1 <= MaxListings
    BY <1>0, <1>l DEF LoadBackups
  <2>2. Len(listings') = Len(listings) + 1
    <3> DEFINE more == Listing(task)
               S == ListingsOfBackups \cup {more}
    <3> HIDE DEF more
    <3>1. listings \in Seq(S) /\ more \in S BY <1>0
    <3> HIDE DEF S
    <3>2. Len(Append(listings, more)) = Len(listings) + 1 BY <3>1, AppendProperties
    <3> QED BY <2>1, <3>2 DEF more
  <2> QED BY <2>1, <2>2 DEF ListingsBounded
<1>u. ASSUME Untold PROVE ListingsBounded'
  <2> DEFINE f == [i \in DOMAIN listings |->
                     [listings[i] EXCEPT !.passed = @ \/ listings[i].found # Unread]]
  <2>1. \A i \in DOMAIN listings :
          [listings[i] EXCEPT !.passed = @ \/ listings[i].found # Unread] \in ListingsOfBackups
    BY <1>0 DEF ListingsOfBackups
  <2>2. f \in [1 .. Len(listings) -> ListingsOfBackups] BY <1>0, <2>1
  <2>3. listings' = listings \/ listings' = f BY <1>u DEF Untold
  <2> HIDE DEF f
  <2>4. Len(f) = Len(listings) BY <1>0, <2>2, AsSequence
  <2> QED BY <1>k, <2>3, <2>4
<1>1. ASSUME UNCHANGED listings PROVE ListingsBounded'
  BY <1>k, <1>1
<1>2. CASE RefreshBackups BY <1>l, <1>2 DEF RefreshBackups
<1>3. ASSUME NEW i, BackupsRead(i) PROVE ListingsBounded'
  <2> DEFINE l == [listings[i] EXCEPT !.found = stored]
  <2>1. i \in DOMAIN listings /\ listings' = [listings EXCEPT ![i] = l]
    BY <1>3 DEF BackupsRead
  <2>2. l \in ListingsOfBackups
    <3>1. stored \subseteq Backups BY DEF BackupInv, BackupTypes
    <3> QED BY <1>0, <2>1, <3>1 DEF ListingsOfBackups
  <2> HIDE DEF l
  <2>3. Len(listings') = Len(listings) BY <1>0, <2>1, <2>2, ExceptSeq
  <2> QED BY <1>k, <2>3
<1>4. ASSUME NEW i, BackupsListed(i) \/ BackupsNotListed(i) PROVE ListingsBounded'
  <2>1. BackupInv' BY BackupStep
  <2>2. listings' \in Seq(ListingsOfBackups) BY <2>1 DEF BackupInv, BackupTypes
  <2>3. i \in 1 .. Len(listings) /\ listings' = ListingEnded(i)
    BY <1>0, <1>4 DEF BackupsListed, BackupsNotListed
  <2> DEFINE n == Len(listings) - 1
             m == Len(listings')
  <2>4. DOMAIN listings' = 1 .. n /\ n \in Nat
    <3>1. n \in Nat BY <1>0, <2>3
    <3> QED BY <2>3, <3>1 DEF ListingEnded
  <2>5. m \in Nat /\ 1 .. m = 1 .. n BY <2>2, <2>4, LenProperties
  <2>6. m <= MaxListings
    <3>1. n <= MaxListings BY <1>0, <2>4
    <3> HIDE DEF n, m
    <3>2. m = 0 \/ m \in 1 .. m BY <2>5
    <3>3. m = 0 \/ m \in 1 .. n BY <2>5, <3>2
    <3> QED BY <1>0, <2>4, <2>5, <3>1, <3>3
  <2> QED BY <2>6 DEF ListingsBounded
<1>5. ASSUME NEW kind, CreateBackup(kind) PROVE ListingsBounded'
  BY <1>1, <1>5 DEF CreateBackup, Begin
<1>6. ASSUME NEW b, DeleteBackup(b) \/ ConfirmRestore(b) PROVE ListingsBounded'
  BY <1>1, <1>6 DEF DeleteBackup, ConfirmRestore, Begin
<1>7. CASE CancelRestore \/ ExecuteRestore
  BY <1>1, <1>7 DEF CancelRestore, ExecuteRestore, Begin
<1>8. ASSUME NEW t, NEW b, TaskDone(t, b) PROVE ListingsBounded'
  BY <1>l, <1>8 DEF TaskDone
<1>9. ASSUME NEW t, NEW b, TaskFailed(t, b) \/ TaskEndsUnseen(t, b) PROVE ListingsBounded'
  BY <1>u, <1>9 DEF TaskFailed, TaskEndsUnseen
<1>10. ASSUME NEW t, TaskTimesOut(t) PROVE ListingsBounded'
  BY <1>1, <1>10 DEF TaskTimesOut
<1>11. CASE UNCHANGED backupVars BY <1>1, <1>11 DEF backupVars
<1> QED BY <1>2, <1>3, <1>4, <1>5, <1>6, <1>7, <1>8, <1>9, <1>10, <1>11
     DEF BackupNext, ListingAnswers

\* So the state of the backups is in order.
LEMMA BackupTyped == BackupInv /\ ListingsBounded => BackupTypeOK
BY DEF BackupInv, BackupTypes, BackupState, BackupTasks, ListingsBounded, BackupTypeOK

VisitsBounded == visits \in 1..MaxCenterVisits

\* The first visit of the export page,
LEMMA VisitsBoundedStart == CenterInit => VisitsBounded
BY BoundsArePositive DEF CenterInit, VisitsBounded

\* and those that follow it.
LEMMA VisitsBoundedStep == VisitsBounded /\ [CenterNext]_centerVars => VisitsBounded'
<1> SUFFICES ASSUME VisitsBounded, [CenterNext]_centerVars PROVE VisitsBounded'
  OBVIOUS
<1> DEFINE Kept == visits' = visits
<1>1. Kept \/ (visits < MaxCenterVisits /\ visits' = visits + 1)
  <2>s. ASSUME NEW new, NEW anew, ShowCenter(new, anew) PROVE Kept
    BY <2>s DEF ShowCenter
  <2>k. ASSUME NEW keys, SelectColumns(keys) PROVE Kept
    BY <2>s, <2>k, Zenon DEF SelectColumns
  <2> HIDE DEF Kept
  <2>1. CASE PreviewAnswers
    BY <2>1 DEF Kept, PreviewAnswers, PreviewAnswered, PreviewFailed
  <2>2. CASE FigureAnswers
    BY <2>2 DEF Kept, FigureAnswers, FiguresAnswered, FiguresFailed
  <2>3. CASE ColumnAnswers
    BY <2>3, <2>s, Zenon DEF ColumnAnswers, ColumnsAnswered, ColumnsFailed
  <2>4. CASE ExportEnds \/ RefreshCenter \/ HandleExport
    BY <2>4 DEF Kept, ExportEnds, RefreshCenter, HandleExport
  <2>5. CASE ReopenCenter BY <2>5 DEF ReopenCenter
  <2>6. CASE SelectAllColumns \/ DeselectAllColumns
    BY <2>6, <2>k, Zenon DEF SelectAllColumns, DeselectAllColumns
  <2>7. CASE KeywordCounts BY <2>7, <2>s, Zenon DEF KeywordCounts
  <2>8. CASE \E k \in CenterKeywords : TypeCenterKeyword(k)
    BY <2>8, <2>s, Zenon DEF TypeCenterKeyword
  <2>9. CASE \E f \in CenterFilters : FilterCenter(f)
    BY <2>9, <2>s, Zenon DEF FilterCenter
  <2>10. CASE \E p \in CenterPages : TurnPreviewPage(p)
    BY <2>10, <2>s, Zenon DEF TurnPreviewPage
  <2>11. CASE \E group \in {{c} : c \in Columns} \cup {BuiltinColumns, CustomColumns} :
                ToggleColumns(group)
    BY <2>11, <2>k, Zenon DEF ToggleColumns
  <2>12. CASE UNCHANGED centerVars BY <2>12 DEF Kept, centerVars
  <2> QED BY <2>1, <2>2, <2>3, <2>4, <2>5, <2>6, <2>7, <2>8, <2>9, <2>10, <2>11, <2>12, Zenon
          DEF CenterNext, CenterSteps
<1> QED BY <1>1, BoundsArePositive DEF VisitsBounded

\* So the state of the export page is in order.
LEMMA CenterTyped == CenterInv /\ VisitsBounded => CenterTypeOK
<1> SUFFICES ASSUME CenterInv, VisitsBounded PROVE CenterTypeOK
  OBVIOUS
<1>1. center \in CenterState /\ CenterTypes BY DEF CenterInv, CenterTypes
<1>2. PreviewOf(center) \in AllPreviews BY <1>1, WantedOf
<1>3. /\ center.offered \subseteq Columns /\ center.typed \in CenterKeywords
      /\ center.preview \in AllPreviews \cup {NoPreview}
      /\ {center.figures, center.turned} \subseteq AllWanted \cup {NoFigures}
      /\ {center.columnsLoading, center.loading, center.counting, center.exporting}
            \subseteq BOOLEAN
  BY <1>1 DEF CenterState
<1> QED BY <1>1, <1>2, <1>3
        DEF CenterTypes, PreviewLoads, FigureLoads, VisitsBounded, CenterTypeOK

-----------------------------------------------------------------------------
(***************************************************************************)
(* The types of the lists of departments, production lines, users and      *)
(* vehicle models.                                                         *)
(***************************************************************************)
SomeEntry == Entries \cup {New}
ListPages == {1} \cup 1 .. Cardinality(Entries)
ListTotals == 0 .. Cardinality(Entries)
ListDetails == [model : Entries, program : Carried]
ListState == [kind : ListKinds, typed : BOOLEAN, narrow : BOOLEAN, row : SomeEntry,
              page : ListPages, total : ListTotals, of : BOOLEAN, loading : BOOLEAN,
              current : SomeEntry, modal : BOOLEAN, drawer : BOOLEAN, programs : SomeEntry]
PageLoads == [page : ListPages, narrow : BOOLEAN, passed : BOOLEAN]
EditState == [of : SomeEntry, removes : BOOLEAN, page : ListPages, narrow : BOOLEAN]
DetailShown == ListDetails \cup {NoDetail}
DetailState == [of : DetailShown, shown : DetailShown, open : BOOLEAN]

\* What the table and its loads are made of.
TableShape ==
    /\ list \in ListState /\ listLoads \in Seq(PageLoads)
    /\ editing \in EditState \cup {NoEdit}

\* What the drawers are made of.
DrawerShape ==
    /\ viewing \subseteq Entries /\ detailing \subseteq ListDetails /\ detail \in DetailState

ServerShape == entries \subseteq Entries /\ edits \in 0 .. MaxEdits

ListShape == TableShape /\ DrawerShape /\ ServerShape

\* A field of the state of the page is set.
LEMMA SetList ==
  ASSUME NEW l \in ListState
  PROVE  /\ \A b \in BOOLEAN :
              /\ [l EXCEPT !.typed = b] \in ListState /\ [l EXCEPT !.narrow = b] \in ListState
              /\ [l EXCEPT !.of = b] \in ListState /\ [l EXCEPT !.loading = b] \in ListState
              /\ [l EXCEPT !.modal = b] \in ListState /\ [l EXCEPT !.drawer = b] \in ListState
         /\ \A e \in SomeEntry :
              /\ [l EXCEPT !.row = e] \in ListState /\ [l EXCEPT !.current = e] \in ListState
              /\ [l EXCEPT !.programs = e] \in ListState
         /\ \A p \in ListPages : [l EXCEPT !.page = p] \in ListState
         /\ \A t \in ListTotals : [l EXCEPT !.total = t] \in ListState
BY DEF ListState

\* The fields of the state of the page.
LEMMA FieldsOfList ==
  ASSUME NEW l \in ListState
  PROVE  /\ l.kind \in ListKinds /\ l.row \in SomeEntry /\ l.current \in SomeEntry
         /\ l.programs \in SomeEntry /\ l.page \in ListPages /\ l.total \in ListTotals
         /\ l.typed \in BOOLEAN /\ l.narrow \in BOOLEAN /\ l.of \in BOOLEAN
         /\ l.loading \in BOOLEAN /\ l.modal \in BOOLEAN /\ l.drawer \in BOOLEAN
BY DEF ListState

\* There are finitely many entries.
LEMMA EntriesCounted == IsFiniteSet(Entries) /\ Cardinality(Entries) \in Nat /\ MaxEdits \in Nat
BY ListAssumption, FS_CardinalityType

\* A page of entries begins in order,
LEMMA ListShapeStart == AdminInit => ListShape
<1> SUFFICES ASSUME AdminInit PROVE ListShape
  OBVIOUS
<1>1. PICK k \in ListKinds :
        /\ list = [kind |-> k, typed |-> FALSE, narrow |-> FALSE, row |-> New, page |-> 1,
                   total |-> 0, of |-> FALSE, loading |-> TRUE, current |-> New,
                   modal |-> FALSE, drawer |-> FALSE, programs |-> New]
        /\ listLoads = IF k = "departments" THEN <<Load(1, FALSE)>>
                       ELSE <<Load(1, FALSE), Load(1, FALSE)>>
  BY DEF AdminInit
<1>2. /\ 1 \in ListPages /\ 0 \in ListTotals /\ New \in SomeEntry /\ 0 \in 0 .. MaxEdits
  BY EntriesCounted DEF ListPages, ListTotals, SomeEntry
<1>3. list \in ListState BY <1>1, <1>2, Zenon DEF ListState
<1>4. listLoads \in Seq(PageLoads)
  <2> DEFINE first == Load(1, FALSE)
  <2>1. first \in PageLoads BY <1>2 DEF Load, PageLoads
  <2>2. listLoads = <<first>> \/ listLoads = <<first, first>> BY <1>1
  <2> HIDE DEF first
  <2>3. <<first>> \in Seq(PageLoads) /\ <<first, first>> \in Seq(PageLoads) BY <2>1
  <2> QED BY <2>2, <2>3
<1>5. detail \in DetailState
  BY DEF AdminInit, DetailState, DetailShown
<1> QED BY <1>2, <1>3, <1>4, <1>5 DEF AdminInit, ListShape, TableShape, DrawerShape, ServerShape

\* What is loaded is a page of the table.
LEMMA LoadsPage ==
  ASSUME NEW new \in ListState, NEW load \in PageLoads, listLoads \in Seq(PageLoads),
         Loads(new, load)
  PROVE  list' \in ListState /\ listLoads' \in Seq(PageLoads)
<1>1. listLoads' = Append(listLoads, load) /\ list' = [new EXCEPT !.loading = TRUE]
  BY DEF Loads
<1> QED BY <1>1, SetList, AppendProperties

\* A load is of a page and a filter.
LEMMA LoadOfPage ==
  ASSUME NEW p \in ListPages, NEW b \in BOOLEAN
  PROVE  /\ Load(p, b) \in PageLoads
         /\ \A c \in BOOLEAN : [Load(p, b) EXCEPT !.passed = c] \in PageLoads
BY DEF Load, PageLoads

\* A filter loads the first page.
LEMMA LoadsFiltered ==
  ASSUME NEW new \in ListState, listLoads \in Seq(PageLoads), Filtered(new)
  PROVE  list' \in ListState /\ listLoads' \in Seq(PageLoads)
<1>1. Load(1, new.narrow) \in PageLoads
  <2>1. 1 \in ListPages BY DEF ListPages
  <2> QED BY <2>1, FieldsOfList, LoadOfPage
<1> QED BY <1>1, LoadsPage DEF Filtered

\* An answer: of the rows selected one is shown.
LEMMA RowIsSelected ==
  ASSUME ServerShape, NEW load \in PageLoads
  PROVE  RowOf(load) \in SomeEntry /\ Cardinality(Selected(load.narrow)) \in ListTotals
<1>1. Selected(load.narrow) \subseteq Entries BY DEF ServerShape, Selected
<1>2. RowOf(load) \in SomeEntry
  <2> DEFINE found == Selected(load.narrow)
             nth == {e \in found : Cardinality({d \in found : d <= e}) = load.page}
  <2>1. nth \subseteq Entries BY <1>1
  <2>2. RowOf(load) = IF nth # {} THEN CHOOSE e \in nth : TRUE ELSE New BY DEF RowOf
  <2> HIDE DEF nth
  <2>3. CASE nth # {}
    <3>1. (CHOOSE e \in nth : TRUE) \in nth BY <2>3
    <3> QED BY <2>1, <2>2, <2>3, <3>1 DEF SomeEntry
  <2>4. CASE nth = {} BY <2>2, <2>4 DEF SomeEntry
  <2> QED BY <2>3, <2>4
<1>3. /\ Cardinality(Selected(load.narrow)) \in Nat
      /\ Cardinality(Selected(load.narrow)) <= Cardinality(Entries)
  BY <1>1, EntriesCounted, FS_Subset, FS_CardinalityType
<1>4. Cardinality(Selected(load.narrow)) \in ListTotals
  BY <1>3, EntriesCounted DEF ListTotals
<1> QED BY <1>2, <1>4

\* A load may be passed by the answer to another.
LEMMA PageLoadsPassable == Passable(PageLoads)
BY DEF Passable, PageLoads

\* and stays so: whatever is edited, deleted or opened over it.
LEMMA ListShapeStep == ListShape /\ [AdminNext]_listVars => ListShape'
<1> SUFFICES ASSUME ListShape, [AdminNext]_listVars PROVE ListShape'
  OBVIOUS
<1>0. /\ TableShape /\ DrawerShape /\ ServerShape
      /\ list \in ListState /\ listLoads \in Seq(PageLoads)
      /\ editing \in EditState \cup {NoEdit}
      /\ viewing \subseteq Entries /\ detailing \subseteq ListDetails /\ detail \in DetailState
      /\ entries \subseteq Entries /\ edits \in 0 .. MaxEdits
      /\ New \in SomeEntry /\ Entries \subseteq SomeEntry
  BY DEF ListShape, TableShape, DrawerShape, ServerShape, SomeEntry
<1>f. /\ list.kind \in ListKinds /\ list.row \in SomeEntry /\ list.current \in SomeEntry
      /\ list.programs \in SomeEntry /\ list.page \in ListPages /\ list.total \in ListTotals
      /\ list.typed \in BOOLEAN /\ list.narrow \in BOOLEAN /\ list.modal \in BOOLEAN
  BY <1>0, FieldsOfList
<1>d. ASSUME UNCHANGED <<viewing, detail, detailing>> PROVE DrawerShape'
  BY <1>0, <1>d DEF DrawerShape
<1>s. ASSUME UNCHANGED <<entries, edits>> PROVE ServerShape'
  BY <1>0, <1>s DEF ServerShape
<1>t. ASSUME list' \in ListState, UNCHANGED listLoads, editing' = editing \/ editing' = NoEdit
      PROVE  TableShape'
  BY <1>0, <1>t DEF TableShape
<1>l. ASSUME list' \in ListState, listLoads' \in Seq(PageLoads),
             editing' = editing \/ editing' = NoEdit
      PROVE  TableShape'
  BY <1>0, <1>l DEF TableShape
\* The filters.
<1>1. ASSUME NEW narrow \in BOOLEAN, NEW typed \in BOOLEAN,
             Filtered([list EXCEPT !.narrow = narrow, !.typed = typed]),
             UNCHANGED <<editing, viewing, detail, detailing, entries, edits>>
      PROVE  ListShape'
  <2> DEFINE a == [list EXCEPT !.narrow = narrow]
             new == [a EXCEPT !.typed = typed]
  <2>1. a \in ListState BY <1>0, SetList
  <2> HIDE DEF a
  <2>2. new \in ListState BY <2>1, SetList
  <2>3. Filtered(new) BY <1>1 DEF a
  <2> HIDE DEF new
  <2>4. list' \in ListState /\ listLoads' \in Seq(PageLoads) BY <1>0, <2>2, <2>3, LoadsFiltered
  <2> QED BY <1>1, <1>d, <1>l, <1>s, <2>4 DEF ListShape
<1>2. ASSUME NEW narrow \in BOOLEAN, Filter(narrow) PROVE ListShape'
  BY <1>1, <1>2 DEF Filter, detailVars
<1>3. CASE ApplySearchInput
  <2> DEFINE new == [list EXCEPT !.narrow = list.typed]
  <2>1. Filtered(new) /\ UNCHANGED <<editing, viewing, detail, detailing, entries, edits>>
    BY <1>3 DEF ApplySearchInput, detailVars
  <2>2. new \in ListState BY <1>0, <1>f, SetList
  <2> HIDE DEF new
  <2>3. list' \in ListState /\ listLoads' \in Seq(PageLoads) BY <1>0, <2>1, <2>2, LoadsFiltered
  <2> QED BY <1>d, <1>l, <1>s, <2>1, <2>3 DEF ListShape
<1>4. CASE ResetFilters
  BY <1>1, <1>4 DEF ResetFilters, detailVars
<1>5. ASSUME NEW p \in 1 .. Cardinality(Entries), TurnTo(p) PROVE ListShape'
  <2> DEFINE load == Load(p, list.narrow)
  <2>1. Loads(list, load) /\ UNCHANGED <<editing, viewing, detail, detailing, entries, edits>>
    BY <1>5 DEF TurnTo, detailVars
  <2>2. load \in PageLoads BY <1>f, LoadOfPage DEF ListPages
  <2> HIDE DEF load
  <2>3. list' \in ListState /\ listLoads' \in Seq(PageLoads) BY <1>0, <2>1, <2>2, LoadsPage
  <2> QED BY <1>d, <1>l, <1>s, <2>1, <2>3 DEF ListShape
<1>6. ASSUME NEW narrow \in BOOLEAN, TypeSearchInput(narrow) PROVE ListShape'
  <2>1. /\ list' = [list EXCEPT !.typed = narrow]
        /\ UNCHANGED <<listLoads, editing, viewing, detail, detailing, entries, edits>>
    BY <1>6 DEF TypeSearchInput, detailVars
  <2>2. list' \in ListState BY <1>0, <2>1, SetList
  <2> QED BY <1>d, <1>s, <1>t, <2>1, <2>2 DEF ListShape
\* The dialog.
<1>7. ASSUME NEW e \in SomeEntry, OpenEntry(e) PROVE ListShape'
  <2> DEFINE a == [list EXCEPT !.current = e]
  <2>1. /\ list' = [a EXCEPT !.modal = TRUE]
        /\ UNCHANGED <<listLoads, editing, viewing, detail, detailing, entries, edits>>
    BY <1>7 DEF OpenEntry, detailVars
  <2>2. a \in ListState BY <1>0, SetList
  <2> HIDE DEF a
  <2>3. list' \in ListState BY <2>1, <2>2, SetList
  <2> QED BY <1>d, <1>s, <1>t, <2>1, <2>3 DEF ListShape
<1>8. CASE CloseEntry
  <2>1. /\ list' = [list EXCEPT !.modal = FALSE]
        /\ UNCHANGED <<listLoads, editing, viewing, detail, detailing, entries, edits>>
    BY <1>8 DEF CloseEntry, detailVars
  <2>2. list' \in ListState BY <1>0, <2>1, SetList
  <2> QED BY <1>d, <1>s, <1>t, <2>1, <2>2 DEF ListShape
<1>9. ASSUME NEW of \in SomeEntry, NEW removes \in BOOLEAN, Edit(of, removes) PROVE ListShape'
  <2>1. /\ edits < MaxEdits /\ edits' = edits + 1
        /\ editing' = [of |-> of, removes |-> removes, page |-> list.page, narrow |-> list.narrow]
        /\ UNCHANGED <<list, listLoads, viewing, detail, detailing, entries>>
    BY <1>9 DEF Edit, detailVars
  <2>2. editing' \in EditState BY <1>f, <2>1 DEF EditState
  <2>3. edits' \in 0 .. MaxEdits BY <1>0, <2>1, EntriesCounted
  <2>4. TableShape' BY <1>0, <2>1, <2>2 DEF TableShape
  <2>5. ServerShape' BY <1>0, <2>1, <2>3 DEF ServerShape
  <2> QED BY <1>d, <2>1, <2>4, <2>5 DEF ListShape
<1>10. CASE SubmitEntry \/ DeleteEntry
  BY <1>9, <1>10, <1>f DEF SubmitEntry, DeleteEntry
<1>e. ASSUME NEW e \in SomeEntry, Done(e) \/ UNCHANGED entries, edits' = edits PROVE ServerShape'
  <2>1. entries' \subseteq Entries BY <1>0, <1>e DEF Done
  <2> QED BY <1>0, <1>e, <2>1 DEF ServerShape
<1>11. ASSUME NEW e \in SomeEntry, EntryChanged(e) PROVE ListShape'
  <2> DEFINE m == list.modal /\ editing.removes
             new == [list EXCEPT !.modal = m]
             under == editing.narrow # list.narrow
             load == [Load(editing.page, editing.narrow) EXCEPT !.passed = under]
  <2>1. /\ editing # NoEdit /\ editing' = NoEdit /\ Loads(new, load) /\ Done(e)
        /\ UNCHANGED <<viewing, detail, detailing, edits>>
    BY <1>11 DEF EntryChanged, detailVars
  <2>2. m \in BOOLEAN /\ under \in BOOLEAN OBVIOUS
  <2>3. editing.page \in ListPages /\ editing.narrow \in BOOLEAN BY <1>0, <2>1 DEF EditState
  <2> HIDE DEF m, under
  <2>4. new \in ListState BY <1>0, <2>2, SetList
  <2>5. load \in PageLoads BY <2>2, <2>3, LoadOfPage
  <2> HIDE DEF new, load
  <2>6. list' \in ListState /\ listLoads' \in Seq(PageLoads)
    BY <1>0, <2>1, <2>4, <2>5, LoadsPage
  <2> QED BY <1>d, <1>e, <1>l, <2>1, <2>6 DEF ListShape
<1>12. ASSUME NEW e \in SomeEntry, EntryNotChanged(e) PROVE ListShape'
  <2>1. /\ editing' = NoEdit /\ UNCHANGED <<list, listLoads, viewing, detail, detailing, edits>>
        /\ Done(e) \/ UNCHANGED entries
    BY <1>12 DEF EntryNotChanged, detailVars
  <2> QED BY <1>0, <1>d, <1>e, <1>t, <2>1 DEF ListShape
\* Answers to loads.
<1>13. ASSUME NEW i, ListFallsBack(i) PROVE ListShape'
  <2> DEFINE p == listLoads[i].page - 1
             again == [listLoads[i] EXCEPT !.page = p]
  <2>1. /\ i \in DOMAIN listLoads /\ listLoads[i].page > 1
        /\ listLoads' = [listLoads EXCEPT ![i] = again]
        /\ list' = [list EXCEPT !.loading = TRUE]
        /\ UNCHANGED <<editing, viewing, detail, detailing, entries, edits>>
    BY <1>13 DEF ListFallsBack, FallsBack, detailVars
  <2>2. i \in 1 .. Len(listLoads) /\ listLoads[i] \in PageLoads
    BY <1>0, <2>1, LenProperties, ElementOfSeq
  <2>3. p \in ListPages BY <2>1, <2>2, EntriesCounted DEF PageLoads, ListPages
  <2> HIDE DEF p
  <2>4. again \in PageLoads BY <2>2, <2>3 DEF PageLoads
  <2> HIDE DEF again
  <2>5. listLoads' \in Seq(PageLoads) BY <1>0, <2>1, <2>2, <2>4, ExceptSeq
  <2>6. list' \in ListState BY <1>0, <2>1, SetList
  <2> QED BY <1>d, <1>l, <1>s, <2>1, <2>5, <2>6 DEF ListShape
<1>14. ASSUME NEW i, ListAnswered(i) \/ ListNotAnswered(i) PROVE ListShape'
  <2> DEFINE load == listLoads[i]
             r == RowOf(load)
             t == Cardinality(Selected(load.narrow))
             a == [list EXCEPT !.row = r]
             b == [a EXCEPT !.page = load.page]
             c == [b EXCEPT !.total = t]
             d == [c EXCEPT !.of = load.narrow]
  <2>1. /\ i \in DOMAIN listLoads /\ listLoads' = Remaining(listLoads, i)
        /\ UNCHANGED <<editing, viewing, detail, detailing, entries, edits>>
    BY <1>14 DEF ListAnswered, ListNotAnswered, ListEnded, Remaining, detailVars
  <2>2. list' = [d EXCEPT !.loading = FALSE] \/ list' = [list EXCEPT !.loading = FALSE]
    BY <1>14 DEF ListAnswered, ListNotAnswered
  <2>3. listLoads' \in Seq(PageLoads) BY <1>0, <2>1, LoadsRemain, PageLoadsPassable
  <2>4. load \in PageLoads BY <1>0, <2>1, LenProperties, ElementOfSeq
  <2>5. load.page \in ListPages /\ load.narrow \in BOOLEAN BY <2>4 DEF PageLoads
  <2>6. r \in SomeEntry /\ t \in ListTotals BY <1>0, <2>4, RowIsSelected
  <2> HIDE DEF r, t
  <2>7. a \in ListState BY <1>0, <2>6, SetList
  <2> HIDE DEF a
  <2>8. b \in ListState BY <2>5, <2>7, SetList
  <2> HIDE DEF b
  <2>9. c \in ListState BY <2>6, <2>8, SetList
  <2> HIDE DEF c
  <2>10. d \in ListState BY <2>5, <2>9, SetList
  <2> HIDE DEF d
  <2>11. list' \in ListState BY <1>0, <2>2, <2>10, SetList
  <2> QED BY <1>d, <1>l, <1>s, <2>1, <2>3, <2>11 DEF ListShape
\* The drawers.
<1>15. CASE HandleViewPrograms
  <2> DEFINE a == [list EXCEPT !.current = list.row]
  <2>1. /\ list' = [a EXCEPT !.loading = TRUE] /\ list.row # New
        /\ viewing' = viewing \cup {list.row}
        /\ UNCHANGED <<listLoads, editing, detail, detailing, entries, edits>>
    BY <1>15 DEF HandleViewPrograms, detailVars
  <2>2. a \in ListState BY <1>0, <1>f, SetList
  <2> HIDE DEF a
  <2>3. list' \in ListState BY <2>1, <2>2, SetList
  <2>4. DrawerShape' BY <1>0, <1>f, <2>1 DEF DrawerShape, SomeEntry
  <2> QED BY <1>s, <1>t, <2>1, <2>3, <2>4 DEF ListShape
<1>16. ASSUME NEW e \in Entries, ProgramsViewed(e) \/ ProgramsNotViewed(e) PROVE ListShape'
  <2> DEFINE a == [list EXCEPT !.programs = e]
             b == [a EXCEPT !.drawer = TRUE]
  <2>1. /\ list' = [b EXCEPT !.loading = FALSE] \/ list' = [list EXCEPT !.loading = FALSE]
        /\ viewing' = viewing \ {e}
        /\ UNCHANGED <<listLoads, editing, detail, detailing, entries, edits>>
    BY <1>16 DEF ProgramsViewed, ProgramsNotViewed, detailVars
  <2>2. a \in ListState BY <1>0, SetList
  <2> HIDE DEF a
  <2>3. b \in ListState BY <2>2, SetList
  <2> HIDE DEF b
  <2>4. list' \in ListState BY <1>0, <2>1, <2>3, SetList
  <2>5. DrawerShape' BY <1>0, <2>1 DEF DrawerShape
  <2> QED BY <1>s, <1>t, <2>1, <2>4, <2>5 DEF ListShape
<1>17. CASE CloseProgramsDrawer
  <2> DEFINE a == [list EXCEPT !.drawer = FALSE]
  <2>1. /\ list' = [a EXCEPT !.programs = New]
        /\ UNCHANGED <<listLoads, editing, viewing, detail, detailing, entries, edits>>
    BY <1>17 DEF CloseProgramsDrawer, detailVars
  <2>2. a \in ListState BY <1>0, SetList
  <2> HIDE DEF a
  <2>3. list' \in ListState BY <1>0, <2>1, <2>2, SetList
  <2> QED BY <1>d, <1>s, <1>t, <2>1, <2>3 DEF ListShape
<1>18. ASSUME NEW p \in Carried, HandleViewProgramDetail(p) PROVE ListShape'
  <2> DEFINE this == [model |-> list.programs, program |-> p]
  <2>1. /\ list.programs # New /\ detail' = [detail EXCEPT !.of = this]
        /\ detailing' = detailing \cup {this} /\ list' = [list EXCEPT !.loading = TRUE]
        /\ UNCHANGED <<listLoads, editing, viewing, entries, edits>>
    BY <1>18 DEF HandleViewProgramDetail
  <2>2. this \in ListDetails BY <1>f, <2>1 DEF ListDetails, SomeEntry
  <2> HIDE DEF this
  <2>3. list' \in ListState BY <1>0, <2>1, SetList
  <2>4. detail' \in DetailState BY <1>0, <2>1, <2>2 DEF DetailState, DetailShown
  <2>5. DrawerShape' BY <1>0, <2>1, <2>2, <2>4 DEF DrawerShape
  <2> QED BY <1>s, <1>t, <2>1, <2>3, <2>5 DEF ListShape
<1>19. ASSUME NEW d \in ListDetails, NEW shown, DetailViewed(d, shown) PROVE ListShape'
  <2> DEFINE a == [detail EXCEPT !.shown = shown]
  <2>1. /\ shown \in {d, NoDetail} /\ detail' = [a EXCEPT !.open = TRUE]
        /\ detailing' = detailing \ {d} /\ list' = [list EXCEPT !.loading = FALSE]
        /\ UNCHANGED <<listLoads, editing, viewing, entries, edits>>
    BY <1>19 DEF DetailViewed
  <2>2. shown \in DetailShown BY <2>1 DEF DetailShown
  <2>3. a \in DetailState BY <1>0, <2>2 DEF DetailState
  <2> HIDE DEF a
  <2>4. detail' \in DetailState BY <2>1, <2>3 DEF DetailState
  <2>5. list' \in ListState BY <1>0, <2>1, SetList
  <2>6. DrawerShape' BY <1>0, <2>1, <2>4 DEF DrawerShape
  <2> QED BY <1>s, <1>t, <2>1, <2>5, <2>6 DEF ListShape
<1>20. CASE CloseDetail
  <2> DEFINE o == IF detailing = {} THEN NoDetail ELSE detail.of
             a == [detail EXCEPT !.open = FALSE]
             b == [a EXCEPT !.shown = NoDetail]
  <2>1. /\ detail' = [b EXCEPT !.of = o]
        /\ UNCHANGED <<list, listLoads, editing, viewing, detailing, entries, edits>>
    BY <1>20 DEF CloseDetail
  <2>2. o \in DetailShown /\ NoDetail \in DetailShown BY <1>0 DEF DetailState, DetailShown
  <2> HIDE DEF o
  <2>3. a \in DetailState BY <1>0 DEF DetailState
  <2> HIDE DEF a
  <2>4. b \in DetailState BY <2>2, <2>3 DEF DetailState
  <2> HIDE DEF b
  <2>5. detail' \in DetailState BY <2>1, <2>2, <2>4 DEF DetailState
  <2>6. DrawerShape' BY <1>0, <2>1, <2>5 DEF DrawerShape
  <2> QED BY <1>0, <1>s, <1>t, <2>1, <2>6 DEF ListShape
<1>21. CASE UNCHANGED listVars
  BY <1>0, <1>21, <1>d, <1>s, <1>t DEF listVars, detailVars, ListShape
<1>e0. Entries \cup {New} = SomeEntry BY DEF SomeEntry
<1> QED
  BY <1>0, <1>e0, <1>2, <1>3, <1>4, <1>5, <1>6, <1>7, <1>8, <1>10, <1>11, <1>12, <1>13, <1>14,
     <1>15, <1>16, <1>17, <1>18, <1>19, <1>20, <1>21
  DEF AdminNext, ListAnswers

\* So the state of the lists is in order.
LEMMA ListTyped == ListShape => ListTypeOK
<1> SUFFICES ASSUME ListShape PROVE ListTypeOK
  OBVIOUS
<1>1. /\ list \in ListState /\ listLoads \in Seq(PageLoads) /\ detail \in DetailState
      /\ viewing \subseteq Entries /\ detailing \subseteq ListDetails
      /\ entries \subseteq Entries /\ edits \in 0 .. MaxEdits
  BY DEF ListShape, TableShape, DrawerShape, ServerShape
<1>2. {detail.of, detail.shown} \subseteq ListDetails \cup {NoDetail}
  BY <1>1 DEF DetailState, DetailShown
<1> QED BY <1>1, <1>2, FieldsOfList
        DEF ListTypeOK, PageLoads, ListPages, ListTotals, ListDetails, SomeEntry

-----------------------------------------------------------------------------
(***************************************************************************)
(* The bounds of the import dialog.  Each interval is that of a start that *)
(* was served, so that there are no more of them than imports.             *)
(***************************************************************************)
Served == {c \in calls : c.kind = "start" /\ c.task # 0}

ServedBounded == IsFiniteSet(Served) /\ intervals + Cardinality(Served) <= Len(imports)

ImportCounts ==
    /\ opening \in 0 .. MaxOpenings /\ restarts \in 0 .. MaxRestarts
    /\ Len(imports) <= MaxImports /\ Len(taskTable) <= Len(imports) /\ Len(polls) <= MaxPolls

ShownStatuses == [import : 0 .. MaxImports, state : {"none", "processing", "completed", "failed"}]
UnknownTask == [import |-> 0, state |-> "unknown"]
BoundedTasks == [import : 1 .. MaxImports, state : {"processing", "completed", "failed"}]

StatusesBounded ==
    /\ dialog.status \in ShownStatuses
    /\ \A k \in DOMAIN polls : polls[k].status \in ShownStatuses \cup {UnknownTask}
    /\ \A t \in DOMAIN taskTable : taskTable[t] \in BoundedTasks

\* Up to n intervals were made.
HandlesUpTo(n) == [no : 0 .. n, task : 0 .. MaxImports]
IntervalsUpTo(n) == [no : 1 .. n, task : 1 .. MaxImports]

HandlesBounded ==
    /\ dialog.polling \in HandlesUpTo(intervals) /\ alive \subseteq IntervalsUpTo(intervals)
    /\ \A c \in calls : c.task \in 0 .. MaxImports

ImportBounds == ServedBounded /\ ImportCounts /\ StatusesBounded /\ HandlesBounded

\* The bounds are numbers.
LEMMA ImportLimits ==
  MaxOpenings \in Nat /\ MaxImports \in Nat /\ MaxPolls \in Nat /\ MaxRestarts \in Nat
BY ImportAssumption

\* Nothing was imported at the start.
LEMMA ImportBoundsStart == ImportInit => ImportBounds
<1> SUFFICES ASSUME ImportInit PROVE ImportBounds
  OBVIOUS
<1>1. /\ dialog = Closed /\ alive = {} /\ calls = {} /\ polls = <<>>
      /\ intervals = 0 /\ opening = 0 /\ imports = <<>> /\ taskTable = <<>> /\ restarts = 0
  BY DEF ImportInit
<1>2. Closed.status = NoStatus /\ Closed.polling = NoInterval BY DEF Closed
<1>3. ServedBounded
  <2>1. Served = {} BY <1>1 DEF Served
  <2>2. IsFiniteSet(Served) /\ Cardinality(Served) = 0 BY <2>1, FS_EmptySet
  <2>3. Len(imports) = 0 BY <1>1
  <2> QED BY <1>1, <2>2, <2>3 DEF ServedBounded
<1>4. ImportCounts BY <1>1, ImportLimits DEF ImportCounts
<1>5. StatusesBounded
  <2>1. NoStatus \in ShownStatuses BY ImportLimits DEF NoStatus, ShownStatuses
  <2> QED BY <1>1, <1>2, <2>1 DEF StatusesBounded
<1>6. HandlesBounded
  <2>1. NoInterval \in HandlesUpTo(0) BY ImportLimits DEF NoInterval, HandlesUpTo
  <2> QED BY <1>1, <1>2, <2>1 DEF HandlesBounded
<1> QED BY <1>3, <1>4, <1>5, <1>6 DEF ImportBounds

\* Polls that end or are lost leave fewer, one that is served leaves as many.
LEMMA PollsCounted ==
  ASSUME DialogTypes, NEW k \in DOMAIN polls,
         Removed(k) \/ polls' = RemoveAt(polls, k) \/ ServePoll(k)
  PROVE  Len(polls') <= Len(polls)
<1>0. polls \in Seq(DialogPolls) /\ Len(polls) \in Nat BY LenProperties DEF DialogTypes
<1>1. CASE ServePoll(k)
  <2>1. PICK s : polls' = Append(RemoveAt(polls, k), s) BY <1>1 DEF ServePoll
  <2>2. RemoveAt(polls, k) \in Seq(DialogPolls) /\ Len(RemoveAt(polls, k)) = Len(polls) - 1
    BY <1>0, RemovedElement
  <2>3. Len(Append(RemoveAt(polls, k), s)) = Len(polls) - 1 + 1 BY <2>2, OneAppended
  <2> QED BY <1>0, <2>1, <2>3
<1>2. CASE Removed(k) \/ polls' = RemoveAt(polls, k)
  <2> DEFINE n == Len(polls) - 1
             m == Len(polls')
  <2>1. polls' \in Seq(DialogPolls) /\ DOMAIN polls' = 1 .. n BY <1>2, PollsRemoved
  <2>2. m \in Nat /\ 1 .. m = 1 .. n BY <2>1, LenProperties
  <2> HIDE DEF m
  <2>3. m = 0 \/ m \in 1 .. m BY <2>2
  <2>4. m = 0 \/ m \in 1 .. n BY <2>2, <2>3
  <2> QED BY <1>0, <2>4 DEF m
<1> QED BY <1>1, <1>2

\* Openings, imports, polls and restarts are counted up to their bounds.
LEMMA ImportCountsStep ==
  DialogTypes /\ ImportCounts /\ [ImportNext]_importVars => ImportCounts'
<1> SUFFICES ASSUME DialogTypes, ImportCounts, [ImportNext]_importVars PROVE ImportCounts'
  OBVIOUS
<1>0. /\ opening \in 0 .. MaxOpenings /\ restarts \in 0 .. MaxRestarts
      /\ Len(imports) <= MaxImports /\ Len(taskTable) <= Len(imports) /\ Len(polls) <= MaxPolls
      /\ polls \in Seq(DialogPolls) /\ taskTable \in Seq(ImportTasks)
      /\ imports \in Seq([unlined : SUBSET Workstations, opening : Nat])
      /\ Len(polls) \in Nat /\ Len(imports) \in Nat /\ Len(taskTable) \in Nat
  BY LenProperties DEF ImportCounts, DialogTypes
<1>u. ASSUME UNCHANGED <<polls, opening, imports, taskTable, restarts>> PROVE ImportCounts'
  BY <1>0, <1>u DEF ImportCounts
<1>1. CASE Open
  <2>1. opening' \in 0 .. MaxOpenings BY <1>0, <1>1, ImportLimits DEF Open
  <2>2. UNCHANGED <<polls, imports, taskTable, restarts>> BY <1>1 DEF Open, server
  <2> QED BY <1>0, <2>1, <2>2 DEF ImportCounts
<1>2. CASE BackToUpload \/ Confirm \/ Close \/ Leave
  BY <1>u, <1>2 DEF BackToUpload, Confirm, Close, Leave, server
<1>3. ASSUME NEW a \in Archives, Upload(a) PROVE ImportCounts'
  BY <1>u, <1>3 DEF Upload, server
<1>4. ASSUME NEW w \in Workstations, MapLine(w) PROVE ImportCounts'
  BY <1>u, <1>4 DEF MapLine, server
<1>5. ASSUME NEW c \in calls, UploadParsed(c) \/ StartAnswered(c) PROVE ImportCounts'
  BY <1>u, <1>5 DEF UploadParsed, StartAnswered, server
<1>6. ASSUME NEW c \in calls, NEW missing \in BOOLEAN,
             UploadFailed(c, missing) \/ StartFailed(c, missing)
      PROVE  ImportCounts'
  BY <1>u, <1>6 DEF UploadFailed, StartFailed, server
<1>7. ASSUME NEW unlined, NEW of, CreateTask(unlined, of),
             UNCHANGED <<polls, opening, restarts>>
      PROVE  ImportCounts'
  <2> DEFINE import == [unlined |-> unlined, opening |-> of]
             task == [import |-> Len(imports) + 1, state |-> "processing"]
  <2>1. /\ Len(imports) < MaxImports
        /\ imports' = Append(imports, import) /\ taskTable' = Append(taskTable, task)
    BY <1>7 DEF CreateTask
  <2> HIDE DEF import, task
  <2>2. Len(imports') = Len(imports) + 1 /\ Len(taskTable') = Len(taskTable) + 1
    BY <1>0, <2>1, OneAppended, Zenon
  <2> QED BY <1>0, <1>7, <2>1, <2>2, ImportLimits DEF ImportCounts
<1>8. ASSUME NEW c \in calls, ServeStart(c) PROVE ImportCounts'
  BY <1>7, <1>8 DEF ServeStart
<1>9. CASE StartElsewhere BY <1>7, <1>9 DEF StartElsewhere
<1>10. ASSUME NEW i \in alive, Poll(i) PROVE ImportCounts'
  <2> DEFINE p == [interval |-> i, opening |-> opening, status |-> NoStatus, passed |-> FALSE]
  <2>1. /\ Len(polls) < MaxPolls /\ polls' = Append(polls, p)
        /\ UNCHANGED <<opening, imports, taskTable, restarts>>
    BY <1>10 DEF Poll, server
  <2> HIDE DEF p
  <2>2. Len(polls') = Len(polls) + 1 BY <1>0, <2>1, OneAppended
  <2> QED BY <1>0, <2>1, <2>2, ImportLimits DEF ImportCounts
<1>11. ASSUME NEW k \in DOMAIN polls,
              ServePoll(k) \/ PollAnswered(k) \/ PollUnknown(k) \/ PollLost(k)
       PROVE  ImportCounts'
  <2>1. Removed(k) \/ polls' = RemoveAt(polls, k) \/ ServePoll(k)
    BY <1>11 DEF PollAnswered, PollUnknown, PollLost
  <2>2. UNCHANGED <<opening, imports, taskTable, restarts>>
    BY <1>11 DEF ServePoll, PollAnswered, PollUnknown, PollLost, server
  <2>3. Len(polls') <= Len(polls) BY <2>1, PollsCounted
  <2>4. polls' \in Seq(DialogPolls) BY DialogTypesStep DEF DialogTypes
  <2>5. Len(polls') \in Nat BY <2>4, LenProperties
  <2>6. Len(polls') <= MaxPolls BY <1>0, <2>3, <2>5, ImportLimits
  <2> QED BY <1>0, <2>2, <2>6 DEF ImportCounts
<1>12. ASSUME NEW t \in DOMAIN taskTable, NEW s \in {"completed", "failed"}, RunTask(t, s)
       PROVE  ImportCounts'
  <2> DEFINE task == [taskTable[t] EXCEPT !.state = s]
  <2>1. taskTable' = [taskTable EXCEPT ![t] = task]
        /\ UNCHANGED <<polls, opening, imports, restarts>>
    BY <1>12 DEF RunTask
  <2>2. t \in 1 .. Len(taskTable) BY <1>0, LenProperties
  <2> HIDE DEF task
  <2>3. Len(taskTable') = Len(taskTable)
    <3> DEFINE T == ImportTasks \cup {task}
    <3>1. taskTable \in Seq(T) /\ task \in T BY <1>0
    <3> HIDE DEF T
    <3> QED BY <2>1, <2>2, <3>1, ExceptSeq
  <2> QED BY <1>0, <2>1, <2>3 DEF ImportCounts
<1>13. CASE Restart
  <2>1. /\ restarts < MaxRestarts /\ taskTable' = <<>> /\ restarts' = restarts + 1
        /\ UNCHANGED <<polls, opening, imports>>
    BY <1>13 DEF Restart
  <2>2. restarts' \in 0 .. MaxRestarts BY <1>0, <2>1, ImportLimits
  <2>3. Len(taskTable') = 0 BY <2>1
  <2> QED BY <1>0, <2>1, <2>2, <2>3 DEF ImportCounts
<1>14. CASE UNCHANGED importVars BY <1>u, <1>14 DEF importVars
<1> QED
  BY <1>1, <1>2, <1>3, <1>4, <1>5, <1>6, <1>8, <1>9, <1>10, <1>11, <1>12, <1>13, <1>14
  DEF ImportNext, ImportUser, UploadAnswers, StartAnswers, ServeTasks

\* Each interval is of a start that was served.
LEMMA ServedBoundedStep ==
  DialogTypes /\ ServedBounded /\ [ImportNext]_importVars => ServedBounded'
<1> SUFFICES ASSUME DialogTypes, ServedBounded, [ImportNext]_importVars PROVE ServedBounded'
  OBVIOUS
<1> DEFINE n == Cardinality(Served)
<1>0. /\ IsFiniteSet(Served) /\ n \in Nat /\ intervals \in Nat /\ Len(imports) \in Nat
      /\ intervals + n <= Len(imports)
      /\ imports \in Seq([unlined : SUBSET Workstations, opening : Nat])
      /\ calls \subseteq UploadCalls \cup StartCalls
  BY FS_CardinalityType, LenProperties DEF ServedBounded, DialogTypes
\* Less is served, and nothing is imported.
<1>l. ASSUME Served' \subseteq Served, UNCHANGED <<intervals, imports>> PROVE ServedBounded'
  <2> DEFINE m == Cardinality(Served')
  <2>1. IsFiniteSet(Served') /\ m <= n BY <1>0, <1>l, FS_Subset
  <2>2. m \in Nat BY <2>1, FS_CardinalityType
  <2>3. intervals' + m <= Len(imports') 
    <3> HIDE DEF m, n
    <3>1. intervals' = intervals /\ Len(imports') = Len(imports) BY <1>l
    <3> QED BY <1>0, <2>1, <2>2, <3>1
  <2> QED BY <2>1, <2>3 DEF ServedBounded
\* Calls end, or are made that are not served.
<1>c. ASSUME \A c \in calls' : c \in calls \/ c.task = 0, UNCHANGED <<intervals, imports>>
      PROVE  ServedBounded'
  <2>1. Served' \subseteq Served BY <1>c DEF Served
  <2> QED BY <1>c, <1>l, <2>1
<1>1. CASE Open \/ BackToUpload \/ Close \/ Leave
  BY <1>c, <1>1 DEF Open, BackToUpload, Close, Leave, server
<1>2. CASE Confirm
  <2> DEFINE c == [kind |-> "start", opening |-> opening, archive |-> dialog.preview,
                   lined |-> dialog.lined, task |-> 0, polling |-> dialog.polling]
  <2>1. calls' = calls \cup {c} /\ c.task = 0 /\ UNCHANGED <<intervals, imports>>
    BY <1>2 DEF Confirm, server
  <2> HIDE DEF c
  <2> QED BY <1>c, <2>1
<1>3. ASSUME NEW a \in Archives, Upload(a) PROVE ServedBounded'
  <2> DEFINE c == [kind |-> "upload", opening |-> opening, archive |-> a,
                   task |-> 0, polling |-> NoInterval]
  <2>1. calls' = calls \cup {c} /\ c.task = 0 /\ UNCHANGED <<intervals, imports>>
    BY <1>3 DEF Upload, server
  <2> HIDE DEF c
  <2> QED BY <1>c, <2>1
<1>4. ASSUME NEW w \in Workstations, MapLine(w) PROVE ServedBounded'
  BY <1>c, <1>4 DEF MapLine, server
<1>5. ASSUME NEW c \in calls, UploadParsed(c) PROVE ServedBounded'
  BY <1>c, <1>5 DEF UploadParsed, Answered, server
<1>6. ASSUME NEW c \in calls, NEW missing \in BOOLEAN,
             UploadFailed(c, missing) \/ StartFailed(c, missing)
      PROVE  ServedBounded'
  BY <1>c, <1>6 DEF UploadFailed, StartFailed, Answered, server
\* A start that was served becomes an interval.
<1>7. ASSUME NEW c \in calls, StartAnswered(c) PROVE ServedBounded'
  <2> DEFINE m == Cardinality(Served')
  <2>1. c \in Served /\ intervals' = intervals + 1 /\ calls' = calls \ {c} /\ imports' = imports
    BY <1>7 DEF StartAnswered, Answered, Served, server
  <2>2. Served' = Served \ {c} BY <2>1 DEF Served
  <2>3. IsFiniteSet(Served \ {c}) /\ Cardinality(Served \ {c}) = n - 1 BY <1>0, <2>1, OneLess
  <2>4. IsFiniteSet(Served') /\ m = n - 1 BY <2>2, <2>3, Zenon
  <2> HIDE DEF m, n
  <2>5. intervals' + m <= Len(imports')
    <3>1. Len(imports') = Len(imports) BY <2>1
    <3> QED BY <1>0, <2>1, <2>4, <3>1
  <2> QED BY <2>4, <2>5 DEF m, ServedBounded
<1>8. ASSUME NEW unlined, NEW of, CreateTask(unlined, of), UNCHANGED intervals
      PROVE  Len(imports') = Len(imports) + 1
  <2> DEFINE import == [unlined |-> unlined, opening |-> of]
  <2>1. imports' = Append(imports, import) BY <1>8 DEF CreateTask
  <2> HIDE DEF import
  <2> QED BY <1>0, <2>1, OneAppended, Zenon
\* A start is served: an import more.
<1>9. ASSUME NEW c \in calls, ServeStart(c) PROVE ServedBounded'
  <2> DEFINE served == [c EXCEPT !.task = Len(taskTable) + 1]
             more == Served \cup {served}
             m == Cardinality(Served')
  <2>1. calls' = (calls \ {c}) \cup {served} /\ intervals' = intervals
        /\ CreateTask(c.archive \ c.lined, c.opening)
    BY <1>9 DEF ServeStart
  <2>2. Len(imports') = Len(imports) + 1 BY <1>8, <2>1
  <2> HIDE DEF served
  <2>3. Served' \subseteq more BY <2>1 DEF Served
  <2>4. IsFiniteSet(more) /\ Cardinality(more) \in Nat /\ Cardinality(more) <= n + 1
    BY <1>0, OneMore
  <2> HIDE DEF more
  <2>5. IsFiniteSet(Served') /\ m <= Cardinality(more) BY <2>3, <2>4, FS_Subset
  <2>6. m \in Nat BY <2>5, FS_CardinalityType
  <2> HIDE DEF m, n
  <2>7. intervals' + m <= Len(imports') BY <1>0, <2>1, <2>2, <2>4, <2>5, <2>6
  <2> QED BY <2>5, <2>7 DEF m, ServedBounded
<1>10. CASE StartElsewhere
  <2>1. UNCHANGED <<calls, intervals>> /\ CreateTask({}, 0) BY <1>10 DEF StartElsewhere
  <2>2. Len(imports') = Len(imports) + 1 BY <1>8, <2>1
  <2>3. Served' = Served BY <2>1 DEF Served
  <2>4. IsFiniteSet(Served') /\ Cardinality(Served') = n BY <1>0, <2>3, Zenon
  <2> HIDE DEF n
  <2>5. intervals' + n <= Len(imports') BY <1>0, <2>1, <2>2
  <2> QED BY <2>4, <2>5 DEF ServedBounded
<1>11. ASSUME NEW i \in alive, Poll(i) PROVE ServedBounded'
  BY <1>c, <1>11 DEF Poll, server
<1>12. ASSUME NEW k \in DOMAIN polls,
              ServePoll(k) \/ PollAnswered(k) \/ PollUnknown(k) \/ PollLost(k)
       PROVE  ServedBounded'
  BY <1>c, <1>12 DEF ServePoll, PollAnswered, PollUnknown, PollLost, server
<1>13. ASSUME NEW t \in DOMAIN taskTable, NEW s \in {"completed", "failed"}, RunTask(t, s)
       PROVE  ServedBounded'
  BY <1>c, <1>13 DEF RunTask
<1>14. CASE Restart BY <1>c, <1>14 DEF Restart
<1>15. CASE UNCHANGED importVars BY <1>c, <1>15 DEF importVars
<1> QED
  BY <1>1, <1>2, <1>3, <1>4, <1>5, <1>6, <1>7, <1>9, <1>10, <1>11, <1>12, <1>13, <1>14, <1>15
  DEF ImportNext, ImportUser, UploadAnswers, StartAnswers, ServeTasks

\* The statuses that polls bring are of the imports there are.
LEMMA BoundedStatuses ==
  /\ NoStatus \in ShownStatuses /\ BoundedTasks \subseteq ShownStatuses
  /\ UnknownTask.import = 0
  /\ \A t \in BoundedTasks, s \in {"completed", "failed"} :
       [t EXCEPT !.state = s] \in BoundedTasks
<1>1. NoStatus \in ShownStatuses BY ImportLimits DEF NoStatus, ShownStatuses
<1>2. BoundedTasks \subseteq ShownStatuses
  <2>1. 1 .. MaxImports \subseteq 0 .. MaxImports BY ImportLimits
  <2> QED BY <2>1 DEF BoundedTasks, ShownStatuses
<1>3. UnknownTask.import = 0 BY DEF UnknownTask
<1>4. \A t \in BoundedTasks, s \in {"completed", "failed"} :
        [t EXCEPT !.state = s] \in BoundedTasks
  BY DEF BoundedTasks
<1> QED BY <1>1, <1>2, <1>3, <1>4

PollStatuses == ShownStatuses \cup {UnknownTask}

\* Every status is of an import the server was asked for.
LEMMA StatusesBoundedStep ==
  DialogTypes /\ StatusesBounded /\ [ImportNext]_importVars => StatusesBounded'
<1> SUFFICES ASSUME DialogTypes, StatusesBounded, [ImportNext]_importVars PROVE StatusesBounded'
  OBVIOUS
<1>0. /\ dialog \in DialogState /\ dialog.status \in ShownStatuses
      /\ \A k \in DOMAIN polls : polls[k].status \in PollStatuses
      /\ \A t \in DOMAIN taskTable : taskTable[t] \in BoundedTasks
      /\ polls \in Seq(DialogPolls) /\ Len(polls) \in Nat /\ DOMAIN polls = 1 .. Len(polls)
      /\ taskTable \in Seq(ImportTasks) /\ Len(taskTable) \in Nat
      /\ DOMAIN taskTable = 1 .. Len(taskTable)
  BY LenProperties DEF StatusesBounded, PollStatuses, DialogTypes
<1>d. ASSUME dialog'.status \in ShownStatuses, UNCHANGED <<polls, taskTable>>
      PROVE  StatusesBounded'
  BY <1>0, <1>d DEF StatusesBounded, PollStatuses
<1>p. ASSUME dialog'.status \in ShownStatuses, taskTable' = taskTable,
             \A k \in DOMAIN polls' : polls'[k].status \in PollStatuses
      PROVE  StatusesBounded'
  BY <1>0, <1>p DEF StatusesBounded, PollStatuses
<1>t. ASSUME UNCHANGED <<dialog, polls>>,
             \A t \in DOMAIN taskTable' : taskTable'[t] \in BoundedTasks
      PROVE  StatusesBounded'
  BY <1>0, <1>t DEF StatusesBounded, PollStatuses
<1>1. ASSUME \/ Open \/ BackToUpload \/ Confirm \/ Close \/ Leave
             \/ \E a \in Archives : Upload(a)
             \/ \E w \in Workstations : MapLine(w)
      PROVE  StatusesBounded'
  <2>1. dialog'.status = dialog.status \/ dialog'.status = NoStatus
    BY <1>1, DialogAfterUser, Zenon
  <2>2. UNCHANGED <<polls, taskTable>>
    BY <1>1 DEF Open, BackToUpload, Confirm, Close, Leave, Upload, MapLine, server
  <2> QED BY <1>0, <1>d, <2>1, <2>2, BoundedStatuses
<1>2. ASSUME NEW c \in calls,
             \/ UploadParsed(c) \/ StartAnswered(c)
             \/ \E missing \in BOOLEAN : UploadFailed(c, missing) \/ StartFailed(c, missing)
      PROVE  StatusesBounded'
  <2>1. dialog'.status = dialog.status
    <3>1. CASE mounted BY <1>2, <3>1, DialogAfterAnswer, Zenon
    <3>2. CASE ~mounted
      BY <1>2, <3>2 DEF UploadParsed, StartAnswered, UploadFailed, StartFailed, Set
    <3> QED BY <3>1, <3>2
  <2>2. UNCHANGED <<polls, taskTable>>
    BY <1>2 DEF UploadParsed, StartAnswered, UploadFailed, StartFailed, server
  <2> QED BY <1>0, <1>d, <2>1, <2>2
<1>3. ASSUME NEW unlined, NEW of, CreateTask(unlined, of), UNCHANGED <<dialog, polls>>
      PROVE  StatusesBounded'
  <2> DEFINE task == [import |-> Len(imports) + 1, state |-> "processing"]
  <2>1. taskTable' = Append(taskTable, task) /\ Len(imports) < MaxImports BY <1>3 DEF CreateTask
  <2>2. Len(imports) \in Nat BY LenProperties DEF DialogTypes
  <2>3. task \in BoundedTasks /\ task \in ImportTasks
    <3>1. Len(imports) + 1 \in 1 .. MaxImports /\ Len(imports) + 1 \in Nat \ {0}
      BY <2>1, <2>2, ImportLimits
    <3> QED BY <3>1 DEF BoundedTasks, ImportTasks
  <2> HIDE DEF task
  <2>4. /\ DOMAIN taskTable' = 1 .. Len(taskTable) + 1 /\ taskTable'[Len(taskTable) + 1] = task
        /\ \A t \in 1 .. Len(taskTable) : taskTable'[t] = taskTable[t]
    BY <1>0, <2>1, <2>3, AppendProperties, LenProperties
  <2>5. \A t \in 1 .. Len(taskTable) + 1 : t \in 1 .. Len(taskTable) \/ t = Len(taskTable) + 1
    BY <1>0
  <2>6. \A t \in DOMAIN taskTable' : taskTable'[t] \in BoundedTasks
    BY <1>0, <2>3, <2>4, <2>5
  <2> QED BY <1>3, <1>t, <2>6
<1>4. ASSUME NEW c \in calls, ServeStart(c) PROVE StatusesBounded'
  BY <1>3, <1>4 DEF ServeStart
<1>5. CASE StartElsewhere BY <1>3, <1>5 DEF StartElsewhere
<1>6. ASSUME NEW t \in DOMAIN taskTable, NEW s \in {"completed", "failed"}, RunTask(t, s)
      PROVE  StatusesBounded'
  <2> DEFINE task == [taskTable[t] EXCEPT !.state = s]
  <2>1. taskTable' = [taskTable EXCEPT ![t] = task] /\ UNCHANGED <<dialog, polls>>
    BY <1>6 DEF RunTask
  <2>2. task \in BoundedTasks BY <1>0, BoundedStatuses
  <2> HIDE DEF task
  <2>3. \A u \in DOMAIN taskTable' : taskTable'[u] \in BoundedTasks BY <1>0, <2>1, <2>2
  <2> QED BY <1>t, <2>1, <2>3
<1>7. CASE Restart
  <2>1. taskTable' = <<>> /\ UNCHANGED <<dialog, polls>> BY <1>7 DEF Restart
  <2> QED BY <1>t, <2>1
<1>8. ASSUME NEW i \in alive, Poll(i) PROVE StatusesBounded'
  <2> DEFINE p == [interval |-> i, opening |-> opening, status |-> NoStatus, passed |-> FALSE]
  <2>1. polls' = Append(polls, p) /\ UNCHANGED <<dialog, taskTable>> BY <1>8 DEF Poll, server
  <2>2. p \in DialogPolls /\ p.status = NoStatus
    BY DEF DialogTypes, DialogPolls, TaskStatuses, NoStatus
  <2> HIDE DEF p
  <2>3. /\ DOMAIN polls' = 1 .. Len(polls) + 1 /\ polls'[Len(polls) + 1] = p
        /\ \A k \in 1 .. Len(polls) : polls'[k] = polls[k]
    BY <1>0, <2>1, <2>2, AppendProperties, LenProperties
  <2>4. \A k \in 1 .. Len(polls) + 1 : k \in 1 .. Len(polls) \/ k = Len(polls) + 1
    BY <1>0
  <2>5. \A k \in DOMAIN polls' : polls'[k].status \in PollStatuses
    BY <1>0, <2>2, <2>3, <2>4, BoundedStatuses DEF PollStatuses
  <2> QED BY <1>0, <1>p, <2>1, <2>5
<1>9. ASSUME NEW k \in DOMAIN polls, PollAnswered(k) \/ PollUnknown(k) \/ PollLost(k)
      PROVE  StatusesBounded'
  <2>1. (Removed(k) \/ polls' = RemoveAt(polls, k)) /\ taskTable' = taskTable
    BY <1>9 DEF PollAnswered, PollUnknown, PollLost, server
  <2>2. \A j \in DOMAIN polls' : Earlier(k, j) \in DOMAIN polls
                                 /\ polls'[j].status = polls[Earlier(k, j)].status
    BY <2>1, PollsRemoved
  <2>3. \A j \in DOMAIN polls' : polls'[j].status \in PollStatuses BY <1>0, <2>2
  <2>4. dialog'.status \in ShownStatuses
    <3>1. CASE PollAnswered(k)
      <4>1. polls[k].status \in ShownStatuses
        <5>1. polls[k].status.import # 0 BY <3>1 DEF PollAnswered
        <5> QED BY <1>0, <5>1, BoundedStatuses DEF PollStatuses
      <4>2. CASE mounted
        <5>1. dialog'.status = polls[k].status BY <3>1, <4>2, DialogAfterAnswer, Zenon
        <5> QED BY <4>1, <5>1
      <4>3. CASE ~mounted BY <1>0, <3>1, <4>3 DEF PollAnswered, Set
      <4> QED BY <4>2, <4>3
    <3>2. CASE PollUnknown(k)
      <4> DEFINE d == [dialog EXCEPT !.polling = NoInterval, !.supported = FALSE]
      <4>1. d.status = dialog.status BY <1>0 DEF DialogState
      <4>2. dialog' = d \/ dialog' = dialog BY <3>2 DEF PollUnknown, Set
      <4> HIDE DEF d
      <4> QED BY <1>0, <4>1, <4>2
    <3>3. CASE PollLost(k) BY <1>0, <3>3 DEF PollLost
    <3> QED BY <1>9, <3>1, <3>2, <3>3
  <2> QED BY <1>p, <2>1, <2>3, <2>4
<1>10. ASSUME NEW k \in DOMAIN polls, ServePoll(k) PROVE StatusesBounded'
  <2> DEFINE task == polls[k].interval.task
             status == IF task \in DOMAIN taskTable THEN taskTable[task]
                                                    ELSE [import |-> 0, state |-> "unknown"]
             new == [polls[k] EXCEPT !.status = status]
             rest == RemoveAt(polls, k)
  <2>1. polls' = Append(rest, new) /\ UNCHANGED <<dialog, taskTable>>
    BY <1>10 DEF ServePoll, server
  <2>2. status \in PollStatuses BY <1>0, BoundedStatuses DEF PollStatuses, UnknownTask
  <2> HIDE DEF status
  <2>3. new.status = status
    <3>1. polls[k] \in DialogPolls BY <1>0, ElementOfSeq
    <3> QED BY <3>1 DEF DialogPolls
  <2> HIDE DEF new
  <2>4. /\ rest \in Seq(DialogPolls) /\ Len(rest) = Len(polls) - 1
        /\ \A j \in 1 .. Len(polls) - 1 : rest[j] = IF j < k THEN polls[j] ELSE polls[j + 1]
    BY <1>0, RemovedElement
  <2>5. \A j \in 1 .. Len(polls) - 1 : rest[j].status \in PollStatuses
    <3>1. \A j \in 1 .. Len(polls) - 1 : j \in 1 .. Len(polls) /\ j + 1 \in 1 .. Len(polls)
      BY <1>0
    <3> QED BY <1>0, <2>4, <3>1
  <2> DEFINE S == DialogPolls \cup {new}
             n == Len(rest)
  <2>6. rest \in Seq(S) /\ new \in S BY <2>4
  <2> HIDE DEF rest, S
  <2>7. /\ DOMAIN polls' = 1 .. n + 1 /\ polls'[n + 1] = new
        /\ \A j \in 1 .. n : polls'[j] = rest[j]
    BY <2>1, <2>6, AppendProperties, LenProperties
  <2>8. n \in Nat BY <2>6, LenProperties
  <2> HIDE DEF n
  <2>9. \A j \in 1 .. n + 1 : j \in 1 .. n \/ j = n + 1 BY <2>8
  <2>10. \A j \in DOMAIN polls' : polls'[j].status \in PollStatuses
    BY <2>2, <2>3, <2>4, <2>5, <2>7, <2>9 DEF n
  <2> QED BY <1>0, <1>p, <2>1, <2>10
<1>11. CASE UNCHANGED importVars BY <1>0, <1>d, <1>11 DEF importVars
<1> QED
  BY <1>1, <1>2, <1>4, <1>5, <1>6, <1>7, <1>8, <1>9, <1>10, <1>11
  DEF ImportNext, ImportUser, UploadAnswers, StartAnswers, ServeTasks

\* The handle of the dialog is kept, or dropped, by all but the answer to a start.
LEMMA HandleKept ==
  ASSUME DialogTypes, [ImportNext]_importVars, \A c \in calls : ~StartAnswered(c)
  PROVE  dialog'.polling = dialog.polling \/ dialog'.polling = NoInterval
<1>0. dialog \in DialogState BY DEF DialogTypes
<1>r. Reset(dialog) \in DialogState /\ Reset(dialog).polling = dialog.polling
  BY <1>0, ResetFields
<1>1. CASE Open BY <1>1, <1>r DEF Open, DialogState
<1>2. CASE Close BY <1>2, <1>r DEF Close, DialogState
<1>3. CASE Leave BY <1>3 DEF Leave, Closed
<1>4. CASE BackToUpload \/ Confirm BY <1>0, <1>4 DEF BackToUpload, Confirm, DialogState
<1>5. ASSUME NEW a \in Archives, Upload(a) PROVE dialog'.polling = dialog.polling
  BY <1>0, <1>5 DEF Upload, DialogState
<1>6. ASSUME NEW w \in Workstations, MapLine(w) PROVE dialog'.polling = dialog.polling
  <2>1. PICK l : dialog' = [dialog EXCEPT !.lined = l] BY <1>6 DEF MapLine
  <2> QED BY <1>0, <2>1 DEF DialogState
<1>7. ASSUME NEW c \in calls, UploadParsed(c) PROVE dialog'.polling = dialog.polling
  <2> DEFINE p == Parsed(dialog, c.archive)
  <2>1. c.archive \in SUBSET Workstations
    BY <1>7 DEF DialogTypes, UploadParsed, UploadCalls, StartCalls
  <2>2. p.polling = dialog.polling BY <1>0, <2>1, ParsedFields
  <2>3. dialog' = p \/ dialog' = dialog BY <1>7 DEF UploadParsed, Set, Parsed
  <2> HIDE DEF p
  <2> QED BY <2>2, <2>3
<1>8. ASSUME NEW c \in calls, NEW missing \in BOOLEAN,
             UploadFailed(c, missing) \/ StartFailed(c, missing)
      PROVE  dialog'.polling = dialog.polling
  BY <1>0, <1>8 DEF UploadFailed, StartFailed, Set, DialogState
<1>9. ASSUME NEW k \in DOMAIN polls, PollAnswered(k) \/ PollUnknown(k)
      PROVE  dialog'.polling = dialog.polling \/ dialog'.polling = NoInterval
  BY <1>0, <1>9 DEF PollAnswered, PollUnknown, Set, DialogState
<1>10. ASSUME UNCHANGED dialog PROVE dialog'.polling = dialog.polling
  BY <1>10
<1>11. ASSUME \/ \E c \in calls : ServeStart(c)
              \/ \E i \in alive : Poll(i)
              \/ \E k \in DOMAIN polls : ServePoll(k) \/ PollLost(k)
              \/ ServeTasks \/ StartElsewhere \/ Restart \/ UNCHANGED importVars
       PROVE  UNCHANGED dialog
  BY <1>11 DEF ServeStart, Poll, ServePoll, PollLost, ServeTasks, RunTask, StartElsewhere,
     Restart, importVars
<1> QED
  BY <1>1, <1>2, <1>3, <1>4, <1>5, <1>6, <1>7, <1>8, <1>9, <1>10, <1>11, Zenon
  DEF ImportNext, ImportUser, UploadAnswers, StartAnswers

\* An interval is made when a start is answered, and is of its task.
LEMMA HandlesBoundedStep ==
  DialogTypes /\ ImportCounts /\ HandlesBounded /\ [ImportNext]_importVars => HandlesBounded'
<1> SUFFICES ASSUME DialogTypes, ImportCounts, HandlesBounded, [ImportNext]_importVars
             PROVE  HandlesBounded'
  OBVIOUS
<1>0. /\ intervals \in Nat /\ dialog.polling \in HandlesUpTo(intervals)
      /\ alive \subseteq IntervalsUpTo(intervals) /\ \A c \in calls : c.task \in 0 .. MaxImports
      /\ NoInterval \in HandlesUpTo(intervals)
  BY ImportLimits DEF DialogTypes, HandlesBounded, NoInterval, HandlesUpTo
\* No interval is made.
<1>k. ASSUME dialog'.polling = dialog.polling \/ dialog'.polling = NoInterval,
             alive' \subseteq alive, intervals' = intervals,
             \A c \in calls' : c.task \in 0 .. MaxImports
      PROVE  HandlesBounded'
  BY <1>0, <1>k DEF HandlesBounded
<1>1. ASSUME NEW c \in calls, StartAnswered(c) PROVE HandlesBounded'
  <2> DEFINE i == [no |-> intervals + 1, task |-> c.task]
             d == [dialog EXCEPT !.polling = i]
             rest == Replaced(alive \ {c.polling}, i)
  <2>1. /\ c.task # 0 /\ Set(d) /\ alive' = rest \cup {i} /\ intervals' = intervals + 1
        /\ calls' = calls \ {c}
    BY <1>1 DEF StartAnswered, Answered
  <2>2. rest \subseteq alive BY ReplacedIntervals
  <2>3. c.task \in 1 .. MaxImports BY <1>0, <2>1, ImportLimits
  <2>4. i \in IntervalsUpTo(intervals + 1)
    <3>1. intervals + 1 \in 1 .. intervals + 1 BY <1>0
    <3> QED BY <2>3, <3>1 DEF IntervalsUpTo
  <2>5. /\ IntervalsUpTo(intervals) \subseteq IntervalsUpTo(intervals + 1)
        /\ HandlesUpTo(intervals) \subseteq HandlesUpTo(intervals + 1)
        /\ IntervalsUpTo(intervals + 1) \subseteq HandlesUpTo(intervals + 1)
    <3>1. /\ 1 .. intervals \subseteq 1 .. intervals + 1
          /\ 0 .. intervals \subseteq 0 .. intervals + 1
          /\ 1 .. intervals + 1 \subseteq 0 .. intervals + 1
          /\ 1 .. MaxImports \subseteq 0 .. MaxImports
      BY <1>0, ImportLimits
    <3> QED BY <3>1 DEF IntervalsUpTo, HandlesUpTo
  <2>6. dialog'.polling = i \/ dialog'.polling = dialog.polling
    <3>1. d.polling = i BY DEF DialogTypes, DialogState
    <3>2. dialog' = d \/ dialog' = dialog BY <2>1 DEF Set
    <3> HIDE DEF d, i
    <3> QED BY <3>1, <3>2
  <2> HIDE DEF i, d, rest
  <2>7. dialog'.polling \in HandlesUpTo(intervals') BY <1>0, <2>1, <2>4, <2>5, <2>6
  <2>8. alive' \subseteq IntervalsUpTo(intervals') BY <1>0, <2>1, <2>2, <2>4, <2>5
  <2>9. \A e \in calls' : e.task \in 0 .. MaxImports BY <1>0, <2>1
  <2> QED BY <2>7, <2>8, <2>9 DEF HandlesBounded
<1>2. CASE \A c \in calls : ~StartAnswered(c)
  <2>0. dialog'.polling = dialog.polling \/ dialog'.polling = NoInterval
    BY <1>2, HandleKept
  <2>c. ASSUME UNCHANGED calls PROVE \A c \in calls' : c.task \in 0 .. MaxImports
    BY <1>0, <2>c
  <2>1. CASE Open \/ BackToUpload \/ Close \/ Leave
    <3>1. alive' \subseteq alive /\ UNCHANGED <<intervals, calls>>
      BY <2>1 DEF Open, BackToUpload, Close, Leave
    <3> QED BY <1>k, <2>0, <2>c, <3>1
  <2>2. CASE Confirm
    <3> DEFINE c == [kind |-> "start", opening |-> opening, archive |-> dialog.preview,
                     lined |-> dialog.lined, task |-> 0, polling |-> dialog.polling]
    <3>1. calls' = calls \cup {c} /\ c.task = 0 /\ UNCHANGED <<intervals, alive>>
      BY <2>2 DEF Confirm
    <3> HIDE DEF c
    <3>2. \A e \in calls' : e.task \in 0 .. MaxImports BY <1>0, <3>1, ImportLimits
    <3> QED BY <1>k, <2>0, <3>1, <3>2
  <2>3. ASSUME NEW a \in Archives, Upload(a) PROVE HandlesBounded'
    <3> DEFINE c == [kind |-> "upload", opening |-> opening, archive |-> a,
                     task |-> 0, polling |-> NoInterval]
    <3>1. calls' = calls \cup {c} /\ c.task = 0 /\ UNCHANGED <<intervals, alive>>
      BY <2>3 DEF Upload
    <3> HIDE DEF c
    <3>2. \A e \in calls' : e.task \in 0 .. MaxImports BY <1>0, <3>1, ImportLimits
    <3> QED BY <1>k, <2>0, <3>1, <3>2
  <2>4. ASSUME NEW w \in Workstations, MapLine(w) PROVE HandlesBounded'
    <3>1. UNCHANGED <<alive, intervals, calls>> BY <2>4 DEF MapLine
    <3> QED BY <1>k, <2>0, <2>c, <3>1
  <2>5. ASSUME NEW c \in calls,
               \/ UploadParsed(c)
               \/ \E missing \in BOOLEAN : UploadFailed(c, missing) \/ StartFailed(c, missing)
        PROVE  HandlesBounded'
    <3>1. calls' = calls \ {c} /\ UNCHANGED <<alive, intervals>>
      BY <2>5 DEF UploadParsed, UploadFailed, StartFailed, Answered
    <3> QED BY <1>0, <1>k, <2>0, <3>1
  <2>6. ASSUME NEW c \in calls, ServeStart(c) PROVE HandlesBounded'
    <3> DEFINE task == Len(taskTable) + 1
               served == [c EXCEPT !.task = task]
    <3>1. /\ c.kind = "start" /\ Len(imports) < MaxImports
          /\ calls' = (calls \ {c}) \cup {served} /\ UNCHANGED <<alive, intervals>>
      BY <2>6 DEF ServeStart, CreateTask
    <3>2. task \in 0 .. MaxImports
      <4>1. Len(taskTable) \in Nat /\ Len(imports) \in Nat /\ Len(taskTable) <= Len(imports)
        BY LenProperties DEF DialogTypes, ImportCounts
      <4> QED BY <3>1, <4>1, ImportLimits
    <3>3. c \in StartCalls BY <3>1 DEF DialogTypes, UploadCalls, StartCalls
    <3> HIDE DEF task
    <3>4. served.task = task BY <3>3 DEF StartCalls
    <3> HIDE DEF served
    <3>5. \A e \in calls' : e.task \in 0 .. MaxImports BY <1>0, <3>1, <3>2, <3>4
    <3> QED BY <1>k, <2>0, <3>1, <3>5
  <2>7. ASSUME NEW i \in alive, Poll(i) PROVE HandlesBounded'
    <3>1. UNCHANGED <<alive, intervals, calls>> BY <2>7 DEF Poll
    <3> QED BY <1>k, <2>0, <2>c, <3>1
  <2>8. ASSUME NEW k \in DOMAIN polls,
               ServePoll(k) \/ PollAnswered(k) \/ PollUnknown(k) \/ PollLost(k)
        PROVE  HandlesBounded'
    <3>1. UNCHANGED <<intervals, calls>>
      BY <2>8 DEF ServePoll, PollAnswered, PollUnknown, PollLost
    <3>2. alive' \subseteq alive
      <4>1. Replaced(alive \ {polls[k].interval}, NoInterval) \subseteq alive
        BY ReplacedIntervals
      <4> QED BY <2>8, <4>1, Zenon DEF ServePoll, PollAnswered, PollUnknown, PollLost
    <3> QED BY <1>k, <2>0, <2>c, <3>1, <3>2
  <2>9. CASE ServeTasks \/ StartElsewhere \/ Restart \/ UNCHANGED importVars
    <3>1. UNCHANGED <<alive, intervals, calls>>
      BY <2>9 DEF ServeTasks, RunTask, StartElsewhere, Restart, importVars
    <3> QED BY <1>k, <2>0, <2>c, <3>1
  <2> QED
    BY <1>2, <2>1, <2>2, <2>3, <2>4, <2>5, <2>6, <2>7, <2>8, <2>9, Zenon
    DEF ImportNext, ImportUser, UploadAnswers, StartAnswers
<1> QED BY <1>1, <1>2

\* All the bounds of the import dialog.
LEMMA ImportBoundsStep ==
  ImportInv /\ ImportBounds /\ [ImportNext]_importVars => ImportBounds'
BY ServedBoundedStep, ImportCountsStep, StatusesBoundedStep, HandlesBoundedStep
DEF ImportInv, ImportBounds

\* So the state of the import dialog is in order.
LEMMA ImportTyped == ImportInv /\ ImportBounds => ImportTypeOK
<1> SUFFICES ASSUME ImportInv, ImportBounds PROVE ImportTypeOK
  OBVIOUS
<1>0. DialogTypes /\ ServedBounded /\ ImportCounts /\ StatusesBounded /\ HandlesBounded
  BY DEF ImportInv, ImportBounds
<1> DEFINE D == [supported : BOOLEAN, visible : BOOLEAN, step : 0..2,
                 preview : SUBSET Workstations, mappings : SUBSET Workstations,
                 lined : SUBSET Workstations, status : ShownStatuses,
                 polling : HandlesUpTo(intervals), uploading : BOOLEAN]
<1>1. dialog \in D
  BY <1>0 DEF DialogTypes, DialogState, StatusesBounded, HandlesBounded
<1>2. intervals \in 0 .. MaxImports
  <2> DEFINE n == Cardinality(Served)
  <2>1. n \in Nat /\ Len(imports) \in Nat /\ intervals \in Nat /\ intervals + n <= Len(imports)
        /\ Len(imports) <= MaxImports
    BY <1>0, FS_CardinalityType, LenProperties DEF DialogTypes, ServedBounded, ImportCounts
  <2> HIDE DEF n
  <2> QED BY <2>1, ImportLimits
<1>3. alive \subseteq IntervalsUpTo(intervals) BY <1>0 DEF HandlesBounded
<1>4. mounted \in BOOLEAN /\ past \in [stray : BOOLEAN, overtaken : BOOLEAN]
  BY <1>0 DEF DialogTypes
<1> QED BY <1>0, <1>1, <1>2, <1>3, <1>4, Zenon
        DEF ImportTypeOK, ImportCounts, ShownStatuses, HandlesUpTo, IntervalsUpTo

-----------------------------------------------------------------------------
(***************************************************************************)
(* The types of the dialogs of the program page.  They say of the versions *)
(* and their descriptions that they are those the server gave, be they     *)
(* shown, written or under way.                                            *)
(***************************************************************************)
\* Of finitely many versions there is a newest.
LEMMA Largest ==
  ASSUME NEW n \in Nat, NEW S \in SUBSET (1 .. n), S # {}
  PROVE  Max(S) \in S /\ \A k \in S : Max(S) >= k
<1> DEFINE R == {ss \in Nat \X Nat : ss[1] < ss[2]}
           T == {n - k : k \in S}
<1>1. IsWellFoundedOn(R, Nat) BY NatLessThanWellFounded DEF OpToRel
<1>2. T \subseteq Nat /\ T # {}
  <2>1. \A k \in S : k \in 1 .. n /\ n - k \in Nat OBVIOUS
  <2> QED BY <2>1
<1>3. PICK x \in T : \A y \in T : ~(<<y, x>> \in R) 
  <2> HIDE DEF R, T
  <2> QED BY <1>1, <1>2, WFMin
<1>4. \A y \in T : x <= y
  <2>1. ASSUME NEW y \in T PROVE x <= y
    <3>1. x \in Nat /\ y \in Nat BY <1>2, <2>1, Zenon
    <3>2. <<y, x>> \in Nat \X Nat /\ <<y, x>> \notin R BY <1>3, <2>1, <3>1, Zenon
    <3>3. ~(y < x) BY <3>2
    <3> QED BY <3>1, <3>3
  <2> QED BY <2>1
<1>5. PICK m \in S : x = n - m BY <1>3
<1>6. \A k \in S : m >= k BY <1>4, <1>5
<1> QED BY <1>6 DEF Max

NotesUpTo(n) == UNION {[S -> Texts] : S \in SUBSET (1 .. n)}
VersionLists(n) == [of : MaybeProgram, notes : NotesUpTo(n)]
EditorsUpTo(n) ==
    [current : MaybeProgram, modal : BOOLEAN, viewer : BOOLEAN, upload : MaybeProgram,
     versions : VersionLists(n), selected : 0 .. n, text : WrittenTexts,
     describing : BOOLEAN, draft : WrittenTexts, editing : BOOLEAN, snapshot : MaybeLine,
     loading : BOOLEAN, supported : BOOLEAN]
Forms == [of : MaybeProgram, line : MaybeLine, fields : MaybeLine]
Descriptions == [of : Programs, note : Texts]

\* What is uploaded is of a program, and says which one is to be loaded then.
TypedRequest(r) ==
    /\ r.of \in MaybeProgram /\ r.line \in MaybeLine \cup MaybeProgram
    /\ r.text \in WrittenTexts
    /\ r.kind = "upload" => r.of \in Programs /\ r.line \in MaybeProgram

CatalogueTyped ==
    /\ lastVersion \in 0 .. MaxVersions /\ DOMAIN described \subseteq 1 .. lastVersion
    /\ \A v \in DOMAIN described : described[v] \in Descriptions

EditorTyped ==
    /\ editor \in EditorsUpTo(lastVersion) /\ form \in Forms
    /\ \A r \in asked : TypedRequest(r)
    /\ CatalogueTyped

\* The bounds are numbers.
LEMMA EditorLimits ==
  FirstVersions \in Nat /\ MaxVersions \in Nat /\ FirstVersions <= MaxVersions
BY EditorAssumption

\* A description may be empty.
LEMMA NothingWritten == "" \in Texts
BY EditorAssumption, Zenon

\* What stands for none is in its place everywhere.
LEMMA EditorConstants ==
  /\ NoProgram \in MaybeProgram /\ Programs \subseteq MaybeProgram
  /\ NoLineId \in MaybeLine /\ FormLines \subseteq MaybeLine
  /\ NoText \in WrittenTexts
  /\ \A n \in Nat : NoVersions \in VersionLists(n) /\ NoVersion \in 0 .. n
<1>1. /\ NoProgram \in MaybeProgram /\ Programs \subseteq MaybeProgram
      /\ NoLineId \in MaybeLine /\ FormLines \subseteq MaybeLine
  BY DEF MaybeProgram, MaybeLine
<1>2. NoText \in WrittenTexts
  <2>1. NoVersion \in 0 .. MaxVersions /\ FALSE \in BOOLEAN
    BY EditorLimits DEF NoVersion
  <2> QED BY <2>1, NothingWritten, Zenon DEF NoText, WrittenTexts
<1>3. ASSUME NEW n \in Nat PROVE NoVersions \in VersionLists(n) /\ NoVersion \in 0 .. n
  <2>1. NoVersion \in 0 .. n BY DEF NoVersion
  <2>2. <<>> \in NotesUpTo(n)
    <3>1. <<>> \in [{} -> Texts] OBVIOUS
    <3>2. {} \in SUBSET (1 .. n) OBVIOUS
    <3> QED BY <3>1, <3>2, Zenon DEF NotesUpTo
  <2>3. NoVersions \in VersionLists(n) BY <1>1, <2>2, Zenon DEF NoVersions, VersionLists
  <2> QED BY <2>1, <2>3
<1> QED BY <1>1, <1>2, <1>3

\* A field of the dialogs is set.
LEMMA SetEditor ==
  ASSUME NEW n, NEW e \in EditorsUpTo(n)
  PROVE  /\ \A p \in MaybeProgram :
              /\ [e EXCEPT !.current = p] \in EditorsUpTo(n)
              /\ [e EXCEPT !.upload = p] \in EditorsUpTo(n)
         /\ \A b \in BOOLEAN :
              /\ [e EXCEPT !.modal = b] \in EditorsUpTo(n)
              /\ [e EXCEPT !.viewer = b] \in EditorsUpTo(n)
              /\ [e EXCEPT !.describing = b] \in EditorsUpTo(n)
              /\ [e EXCEPT !.editing = b] \in EditorsUpTo(n)
              /\ [e EXCEPT !.loading = b] \in EditorsUpTo(n)
              /\ [e EXCEPT !.supported = b] \in EditorsUpTo(n)
         /\ \A v \in VersionLists(n) : [e EXCEPT !.versions = v] \in EditorsUpTo(n)
         /\ \A v \in 0 .. n : [e EXCEPT !.selected = v] \in EditorsUpTo(n)
         /\ \A t \in WrittenTexts :
              /\ [e EXCEPT !.text = t] \in EditorsUpTo(n)
              /\ [e EXCEPT !.draft = t] \in EditorsUpTo(n)
         /\ \A l \in MaybeLine : [e EXCEPT !.snapshot = l] \in EditorsUpTo(n)
<1> DEFINE Lists == VersionLists(n)
           VersionIds == 0 .. n
           E == [current : MaybeProgram, modal : BOOLEAN, viewer : BOOLEAN,
                 upload : MaybeProgram, versions : Lists, selected : VersionIds, text : WrittenTexts,
                 describing : BOOLEAN, draft : WrittenTexts, editing : BOOLEAN,
                 snapshot : MaybeLine, loading : BOOLEAN, supported : BOOLEAN]
<1>0. EditorsUpTo(n) = E BY DEF EditorsUpTo
<1> HIDE DEF Lists, VersionIds
<1>e. e \in E BY <1>0
<1>1. \A p \in MaybeProgram : [e EXCEPT !.current = p] \in E /\ [e EXCEPT !.upload = p] \in E
  BY <1>e
<1>2. \A b \in BOOLEAN :
        /\ [e EXCEPT !.modal = b] \in E /\ [e EXCEPT !.viewer = b] \in E
        /\ [e EXCEPT !.describing = b] \in E
  BY <1>e
<1>3. \A b \in BOOLEAN :
        /\ [e EXCEPT !.editing = b] \in E /\ [e EXCEPT !.loading = b] \in E
        /\ [e EXCEPT !.supported = b] \in E
  BY <1>e
<1>4. \A v \in Lists : [e EXCEPT !.versions = v] \in E BY <1>e
<1>5. \A v \in VersionIds : [e EXCEPT !.selected = v] \in E BY <1>e
<1>6. \A t \in WrittenTexts : [e EXCEPT !.text = t] \in E /\ [e EXCEPT !.draft = t] \in E
  BY <1>e
<1>7. \A l \in MaybeLine : [e EXCEPT !.snapshot = l] \in E BY <1>e
<1> HIDE DEF E
<1> QED BY <1>0, <1>1, <1>2, <1>3, <1>4, <1>5, <1>6, <1>7, Zenon DEF Lists, VersionIds

\* The fields of the dialogs.
LEMMA FieldsOfEditor ==
  ASSUME NEW n, NEW e \in EditorsUpTo(n)
  PROVE  /\ e.current \in MaybeProgram /\ e.upload \in MaybeProgram
         /\ e.versions \in VersionLists(n) /\ e.selected \in 0 .. n
         /\ e.text \in WrittenTexts /\ e.draft \in WrittenTexts /\ e.snapshot \in MaybeLine
         /\ e.modal \in BOOLEAN /\ e.viewer \in BOOLEAN /\ e.describing \in BOOLEAN
         /\ e.editing \in BOOLEAN /\ e.loading \in BOOLEAN /\ e.supported \in BOOLEAN
BY DEF EditorsUpTo

\* The versions shown, and their descriptions.
LEMMA NotesOfVersions ==
  ASSUME NEW n, NEW vs \in VersionLists(n)
  PROVE  /\ vs.of \in MaybeProgram /\ DOMAIN vs.notes \subseteq 1 .. n
         /\ \A v \in DOMAIN vs.notes : vs.notes[v] \in Texts
<1>1. vs.of \in MaybeProgram /\ vs.notes \in NotesUpTo(n) BY DEF VersionLists
<1>2. PICK S \in SUBSET (1 .. n) : vs.notes \in [S -> Texts] BY <1>1 DEF NotesUpTo
<1> QED BY <1>1, <1>2

\* The version shown is one there is, and what is rendered is its description.
LEMMA ShownTyped ==
  ASSUME NEW n \in 0 .. MaxVersions, NEW e \in EditorsUpTo(n)
  PROVE  ShownVersion(e) \in 0 .. n /\ RenderedText(e) \in WrittenTexts
<1> DEFINE ids == DOMAIN e.versions.notes
           v == ShownVersion(e)
           note == IF v = NoVersion THEN "" ELSE e.versions.notes[v]
<1>0. n \in Nat /\ n <= MaxVersions /\ MaxVersions \in Nat
  <2>1. MaxVersions \in Nat /\ n \in 0 .. MaxVersions BY EditorLimits
  <2> QED BY <2>1
<1>1. /\ ids \subseteq 1 .. n /\ \A w \in ids : e.versions.notes[w] \in Texts
      /\ e.selected \in 0 .. n
  BY FieldsOfEditor, NotesOfVersions
<1>2. v \in ids \/ v = NoVersion
  <2>1. v = IF e.selected \in ids THEN e.selected
            ELSE IF ids = {} THEN NoVersion ELSE Max(ids)
    BY DEF ShownVersion
  <2> HIDE DEF ids, v
  <2>2. ids # {} => Max(ids) \in ids BY <1>0, <1>1, Largest
  <2> QED BY <2>1, <2>2
<1>3. v \in 0 .. n BY <1>0, <1>1, <1>2 DEF NoVersion
<1>4. note \in Texts BY <1>1, <1>2, NothingWritten, Zenon
<1>5. RenderedText(e) = [by |-> v, note |-> note, restored |-> FALSE]
  BY DEF RenderedText, ShownText
<1> HIDE DEF v, note
<1>6. v \in 0 .. MaxVersions BY <1>0, <1>3
<1>7. RenderedText(e) \in WrittenTexts BY <1>4, <1>5, <1>6 DEF WrittenTexts
<1> QED BY <1>3, <1>7 DEF v

\* So the effects of a render leave the dialogs in order.
LEMMA RenderedTyped ==
  ASSUME NEW n \in 0 .. MaxVersions, NEW e \in EditorsUpTo(n)
  PROVE  Rendered(e) \in EditorsUpTo(n)
<1> DEFINE c == Chosen(e)
<1>1. c \in EditorsUpTo(n) BY ShownTyped, SetEditor DEF Chosen
<1>2. Rendered(e) \in {c, [c EXCEPT !.text = RenderedText(c)]} BY DEF Rendered
<1> HIDE DEF c
<1>3. RenderedText(c) \in WrittenTexts BY <1>1, ShownTyped
<1>4. [c EXCEPT !.text = RenderedText(c)] \in EditorsUpTo(n) BY <1>1, <1>3, SetEditor
<1> QED BY <1>1, <1>2, <1>4

\* What a load brings are versions the server gave.
LEMMA VersionsLoaded ==
  ASSUME CatalogueTyped, NEW p \in MaybeProgram
  PROVE  Loaded(p) \in VersionLists(lastVersion)
<1> DEFINE ids == {v \in DOMAIN described : described[v].of = p}
           notes == [v \in ids |-> described[v].note]
<1>1. ids \in SUBSET (1 .. lastVersion) BY DEF CatalogueTyped
<1>2. \A v \in ids : described[v].note \in Texts BY DEF CatalogueTyped, Descriptions
<1> HIDE DEF ids
<1>3. notes \in [ids -> Texts] BY <1>2
<1>4. notes \in NotesUpTo(lastVersion) BY <1>1, <1>3, Zenon DEF NotesUpTo
<1>5. Loaded(p) = [of |-> p, notes |-> notes] BY DEF Loaded, ids
<1> HIDE DEF notes
<1> QED BY <1>4, <1>5 DEF VersionLists

\* A version more: those shown are still there.
LEMMA MoreVersions ==
  ASSUME NEW n \in Nat
  PROVE  EditorsUpTo(n) \subseteq EditorsUpTo(n + 1)
<1>1. 0 .. n \subseteq 0 .. n + 1 /\ 1 .. n \subseteq 1 .. n + 1 OBVIOUS
<1>2. NotesUpTo(n) \subseteq NotesUpTo(n + 1) BY <1>1 DEF NotesUpTo
<1>3. VersionLists(n) \subseteq VersionLists(n + 1) BY <1>2 DEF VersionLists
<1> DEFINE Fewer == VersionLists(n)
           Lists == VersionLists(n + 1)
           Some == 0 .. n
           VersionIds == 0 .. n + 1
<1>4. Fewer \subseteq Lists /\ Some \subseteq VersionIds BY <1>1, <1>3
<1> HIDE DEF Fewer, Lists, Some, VersionIds
<1> DEFINE E(L, I) ==
      [current : MaybeProgram, modal : BOOLEAN, viewer : BOOLEAN,
       upload : MaybeProgram, versions : L, selected : I, text : WrittenTexts,
       describing : BOOLEAN, draft : WrittenTexts, editing : BOOLEAN,
       snapshot : MaybeLine, loading : BOOLEAN, supported : BOOLEAN]
<1>5. E(Fewer, Some) \subseteq E(Lists, VersionIds) BY <1>4
<1> QED BY <1>5 DEF EditorsUpTo, Fewer, Lists, Some, VersionIds

\* A request other than an upload.
LEMMA RequestTyped ==
  ASSUME NEW kind, kind # "upload", NEW of \in MaybeProgram,
         NEW line \in MaybeLine \cup MaybeProgram
  PROVE  /\ TypedRequest(Request(kind, of, line))
         /\ \A v : TypedRequest([Request(kind, of, line) EXCEPT !.version = v])
<1> DEFINE q == Request(kind, of, line)
<1>1. /\ q.kind = kind /\ q.of = of /\ q.line = line /\ q.text = NoText
      /\ DOMAIN q = {"kind", "of", "line", "version", "text"}
  BY DEF Request
<1>2. NoText \in WrittenTexts BY EditorConstants
<1> HIDE DEF q
<1>3. TypedRequest(q) BY <1>1, <1>2 DEF TypedRequest
<1>4. ASSUME NEW v PROVE TypedRequest([q EXCEPT !.version = v])
  <2> DEFINE s == [q EXCEPT !.version = v]
  <2>1. s.kind = kind /\ s.of = of /\ s.line = line /\ s.text = NoText BY <1>1
  <2> HIDE DEF s
  <2>2. TypedRequest(s) BY <1>2, <2>1 DEF TypedRequest
  <2> QED BY <2>2 DEF s
<1> QED BY <1>3, <1>4 DEF q

\* The dialogs are in order at the start,
LEMMA EditorTypedStart == EditorInit => EditorTyped
<1> SUFFICES ASSUME EditorInit PROVE EditorTyped
  OBVIOUS
<1>1. /\ lastVersion = FirstVersions /\ asked = {}
      /\ described \in [1 .. FirstVersions -> [of : Programs, note : {""}]]
      /\ form = [of |-> NoProgram, line |-> NoLineId, fields |-> NoLineId]
      /\ editor = [current |-> NoProgram, modal |-> FALSE, viewer |-> FALSE,
                   upload |-> NoProgram, versions |-> NoVersions, selected |-> NoVersion,
                   text |-> NoText, describing |-> FALSE, draft |-> NoText,
                   editing |-> FALSE, snapshot |-> NoLineId, loading |-> FALSE,
                   supported |-> TRUE]
  BY DEF EditorInit
<1>2. CatalogueTyped
  <2>1. lastVersion = FirstVersions BY <1>1
  <2>b. lastVersion \in 0 .. MaxVersions BY <2>1, EditorLimits
  <2>2. [of : Programs, note : {""}] \subseteq Descriptions
    <3>1. {""} \subseteq Texts BY NothingWritten, Zenon
    <3> QED BY <3>1 DEF Descriptions
  <2> DEFINE D == [of : Programs, note : {""}]
  <2>3. described \in [1 .. FirstVersions -> D] /\ D \subseteq Descriptions BY <1>1, <2>2
  <2> HIDE DEF D
  <2> QED BY <2>1, <2>b, <2>3 DEF CatalogueTyped
<1>3. form \in Forms BY <1>1, EditorConstants DEF Forms
<1>4. editor \in EditorsUpTo(lastVersion)
  <2>1. NoVersions \in VersionLists(lastVersion) /\ NoVersion \in 0 .. lastVersion
    BY <1>1, EditorConstants, EditorLimits
  <2>2. NoText \in WrittenTexts /\ NoProgram \in MaybeProgram /\ NoLineId \in MaybeLine
    BY EditorConstants
  <2> QED BY <1>1, <2>1, <2>2, Zenon DEF EditorsUpTo
<1> QED BY <1>1, <1>2, <1>3, <1>4 DEF EditorTyped

\* A file is uploaded: a version more perhaps, without a description.
LEMMA CatalogueGrows ==
  ASSUME CatalogueTyped, NEW p \in Programs, Uploaded(p)
  PROVE  CatalogueTyped' /\ EditorsUpTo(lastVersion) \subseteq EditorsUpTo(lastVersion')
<1>0. /\ lastVersion \in 0 .. MaxVersions /\ DOMAIN described \subseteq 1 .. lastVersion
      /\ \A v \in DOMAIN described : described[v] \in Descriptions
  BY DEF CatalogueTyped
<1>m. MaxVersions \in Nat BY EditorLimits
<1>1. CASE UNCHANGED catalogue BY <1>0, <1>1 DEF CatalogueTyped, catalogue
<1>2. CASE lastVersion < MaxVersions /\ lastVersion' = lastVersion + 1
           /\ described' = [v \in DOMAIN described \cup {lastVersion'} |->
                   IF v = lastVersion' THEN [of |-> p, note |-> ""] ELSE described[v]]
  <2> DEFINE bare == [of |-> p, note |-> ""]
             ids == DOMAIN described \cup {lastVersion'}
  <2>1. bare \in Descriptions BY NothingWritten, Zenon DEF Descriptions
  <2> HIDE DEF bare
  <2>2. /\ DOMAIN described' = ids
        /\ \A v \in ids : described'[v] = IF v = lastVersion' THEN bare ELSE described[v]
    BY <1>2 DEF bare
  <2>a. lastVersion < MaxVersions /\ lastVersion' = lastVersion + 1 BY <1>2, Zenon
  <2>b. lastVersion \in Nat /\ lastVersion <= MaxVersions BY <1>0, <1>m, <2>a
  <2>3. lastVersion' \in 0 .. MaxVersions /\ ids \subseteq 1 .. lastVersion'
    BY <1>0, <1>m, <2>a, <2>b
  <2>4. \A v \in ids : described'[v] \in Descriptions BY <1>0, <2>1, <2>2
  <2> HIDE DEF ids
  <2>5. CatalogueTyped' BY <2>2, <2>3, <2>4 DEF CatalogueTyped
  <2> QED BY <2>5, <2>a, <2>b, MoreVersions
<1> QED BY <1>1, <1>2 DEF Uploaded

\* A file is deleted: a version less perhaps.
LEMMA CatalogueShrinks ==
  ASSUME CatalogueTyped, NEW v, FileDeleted(v)
  PROVE  CatalogueTyped' /\ lastVersion' = lastVersion
BY DEF CatalogueTyped, FileDeleted

\* A description is saved.
LEMMA CatalogueDescribed ==
  ASSUME CatalogueTyped, NEW r, TypedRequest(r), Described(r), lastVersion' = lastVersion
  PROVE  CatalogueTyped'
<1> DEFINE x == r.text.note
           d == [described[r.version] EXCEPT !.note = x]
<1>0. /\ lastVersion \in 0 .. MaxVersions /\ DOMAIN described \subseteq 1 .. lastVersion
      /\ \A v \in DOMAIN described : described[v] \in Descriptions
  BY DEF CatalogueTyped
<1>1. r.version \in DOMAIN described /\ described' = [described EXCEPT ![r.version] = d]
  BY DEF Described
<1>2. x \in Texts BY DEF TypedRequest, WrittenTexts
<1> HIDE DEF x
<1>3. d \in Descriptions BY <1>0, <1>1, <1>2 DEF Descriptions
<1> HIDE DEF d
<1>4. DOMAIN described' = DOMAIN described /\ \A v \in DOMAIN described' : described'[v] \in Descriptions
  BY <1>0, <1>1, <1>3
<1> QED BY <1>0, <1>4 DEF CatalogueTyped

\* and after every step, whatever was uploaded, deleted or described.
LEMMA EditorTypedStep == EditorTyped /\ [EditorNext]_editorVars => EditorTyped'
<1> SUFFICES ASSUME EditorTyped, [EditorNext]_editorVars PROVE EditorTyped'
  OBVIOUS
<1> DEFINE Editors == EditorsUpTo(lastVersion)
           Inv == EditorTyped'
<1>0. /\ editor \in Editors /\ form \in Forms /\ CatalogueTyped
      /\ \A r \in asked : TypedRequest(r)
  BY DEF EditorTyped
<1>n. lastVersion \in 0 .. MaxVersions BY <1>0 DEF CatalogueTyped
<1>c. /\ NoProgram \in MaybeProgram /\ Programs \subseteq MaybeProgram
      /\ NoLineId \in MaybeLine /\ FormLines \subseteq MaybeLine
      /\ NoText \in WrittenTexts
      /\ NoVersions \in VersionLists(lastVersion) /\ NoVersion \in 0 .. lastVersion
  <2>1. lastVersion \in Nat BY <1>n
  <2> QED BY <2>1, EditorConstants
<1>f. /\ form.of \in MaybeProgram /\ form.line \in MaybeLine /\ form.fields \in MaybeLine
      /\ \A l \in MaybeLine :
           [form EXCEPT !.line = l] \in Forms /\ [form EXCEPT !.fields = l] \in Forms
  BY <1>0 DEF Forms
<1>d. /\ editor.current \in MaybeProgram /\ editor.upload \in MaybeProgram
      /\ editor.versions \in VersionLists(lastVersion) /\ editor.selected \in 0 .. lastVersion
      /\ editor.text \in WrittenTexts /\ editor.draft \in WrittenTexts
      /\ editor.snapshot \in MaybeLine /\ editor.supported \in BOOLEAN
      /\ ShownVersion(editor) \in 0 .. lastVersion
  BY <1>0, <1>n, FieldsOfEditor, ShownTyped
<1>R. ASSUME NEW e \in Editors PROVE Rendered(e) \in Editors
  BY <1>n, <1>R, RenderedTyped
\* One request more, or none.
<1>q. ASSUME NEW q, TypedRequest(q), asked' \subseteq asked \cup {q}
      PROVE  \A r \in asked' : TypedRequest(r)
  BY <1>0, <1>q
<1>a. ASSUME NEW q, TypedRequest(q), Ask(q) PROVE \A r \in asked' : TypedRequest(r)
  BY <1>0, <1>a DEF Ask
<1>l. ASSUME asked' \subseteq asked PROVE \A r \in asked' : TypedRequest(r)
  BY <1>0, <1>l
<1>k. ASSUME UNCHANGED catalogue PROVE CatalogueTyped' /\ lastVersion' = lastVersion
  BY <1>0, <1>k DEF CatalogueTyped, catalogue
<1>e. ASSUME editor' \in Editors, form' \in Forms, UNCHANGED catalogue,
             \A r \in asked' : TypedRequest(r)
      PROVE  Inv
  BY <1>e, <1>k DEF EditorTyped
<1>v. ASSUME editor' \in Editors, form' \in Forms, CatalogueTyped', lastVersion' = lastVersion,
             \A r \in asked' : TypedRequest(r)
      PROVE  Inv
  BY <1>v DEF EditorTyped
<1> SUFFICES Inv
  OBVIOUS
<1> HIDE DEF Inv
\* Opening and closing.
<1>1. CASE HandleAdd
  <2> DEFINE a == [editor EXCEPT !.current = NoProgram]
             b == [a EXCEPT !.modal = TRUE]
             c == [b EXCEPT !.editing = TRUE]
             d == [c EXCEPT !.snapshot = NoLineId]
             e == [d EXCEPT !.describing = TRUE]
             f == [e EXCEPT !.draft = NoText]
  <2>1. /\ editor' = Rendered(f) /\ asked' = asked /\ UNCHANGED catalogue
        /\ form' = [of |-> NoProgram, line |-> NoLineId, fields |-> NoLineId]
    BY <1>1 DEF HandleAdd
  <2>2. a \in Editors BY <1>0, <1>c, SetEditor
  <2> HIDE DEF a
  <2>3. b \in Editors BY <2>2, SetEditor
  <2> HIDE DEF b
  <2>4. c \in Editors BY <2>3, SetEditor
  <2> HIDE DEF c
  <2>5. d \in Editors BY <1>c, <2>4, SetEditor
  <2> HIDE DEF d
  <2>6. e \in Editors BY <2>5, SetEditor
  <2> HIDE DEF e
  <2>7. f \in Editors BY <1>c, <2>6, SetEditor
  <2> HIDE DEF f
  <2>8. form' \in Forms BY <1>c, <2>1 DEF Forms
  <2> QED BY <1>R, <1>e, <1>l, <2>1, <2>7, <2>8
<1>2. ASSUME NEW p \in Programs, NEW l \in FormLines, HandleEdit(p, l) PROVE Inv
  <2> DEFINE a == [editor EXCEPT !.current = p]
             b == [a EXCEPT !.modal = TRUE]
             c == [b EXCEPT !.viewer = FALSE]
             d == [c EXCEPT !.versions = NoVersions]
             e == [d EXCEPT !.selected = NoVersion]
             f == [e EXCEPT !.editing = FALSE]
             g == [f EXCEPT !.snapshot = NoLineId]
             h == [g EXCEPT !.describing = FALSE]
             j == [h EXCEPT !.draft = NoText]
  <2>1. /\ editor' = Rendered(j) /\ UNCHANGED catalogue /\ Ask(Request("edit", p, l))
        /\ form' = [of |-> p, line |-> l, fields |-> NoLineId]
    BY <1>2 DEF HandleEdit
  <2>2. a \in Editors BY <1>0, <1>c, SetEditor
  <2> HIDE DEF a
  <2>3. b \in Editors BY <2>2, SetEditor
  <2> HIDE DEF b
  <2>4. c \in Editors BY <2>3, SetEditor
  <2> HIDE DEF c
  <2>5. d \in Editors BY <1>c, <2>4, SetEditor
  <2> HIDE DEF d
  <2>6. e \in Editors BY <1>c, <2>5, SetEditor
  <2> HIDE DEF e
  <2>7. f \in Editors BY <2>6, SetEditor
  <2> HIDE DEF f
  <2>8. g \in Editors BY <1>c, <2>7, SetEditor
  <2> HIDE DEF g
  <2>9. h \in Editors BY <2>8, SetEditor
  <2> HIDE DEF h
  <2>10. j \in Editors BY <1>c, <2>9, SetEditor
  <2> HIDE DEF j
  <2>11. form' \in Forms BY <1>c, <2>1 DEF Forms
  <2>12. TypedRequest(Request("edit", p, l)) BY <1>c, RequestTyped
  <2> QED BY <1>R, <1>e, <1>a, <2>1, <2>10, <2>11, <2>12
<1>3. ASSUME NEW p \in Programs, HandleViewFiles(p) PROVE Inv
  <2> DEFINE a == [editor EXCEPT !.current = p]
             b == [a EXCEPT !.versions = NoVersions]
             c == [b EXCEPT !.loading = TRUE]
  <2>1. /\ editor' = Rendered(c) /\ UNCHANGED <<form, catalogue>>
        /\ Ask(Request("view", p, NoLineId))
    BY <1>3 DEF HandleViewFiles
  <2>2. a \in Editors BY <1>0, <1>c, SetEditor
  <2> HIDE DEF a
  <2>3. b \in Editors BY <1>c, <2>2, SetEditor
  <2> HIDE DEF b
  <2>4. c \in Editors BY <2>3, SetEditor
  <2> HIDE DEF c
  <2>5. TypedRequest(Request("view", p, NoLineId)) BY <1>c, RequestTyped
  <2> QED BY <1>0, <1>R, <1>e, <1>a, <2>1, <2>4, <2>5
<1>4. ASSUME NEW p \in Programs, HandleUpload(p) PROVE Inv
  <2> DEFINE a == [editor EXCEPT !.current = p]
             b == [a EXCEPT !.upload = p]
  <2>1. editor' = Rendered(b) /\ UNCHANGED <<form, asked, catalogue>>
    BY <1>4 DEF HandleUpload
  <2>2. a \in Editors BY <1>0, <1>c, SetEditor
  <2> HIDE DEF a
  <2>3. b \in Editors BY <1>c, <2>2, SetEditor
  <2> HIDE DEF b
  <2> QED BY <1>0, <1>R, <1>e, <1>l, <2>1, <2>3
<1>5. CASE Retransfer
  <2> DEFINE a == [editor EXCEPT !.upload = editor.current]
  <2>1. editor' = a /\ UNCHANGED <<form, asked, catalogue>> BY <1>5 DEF Retransfer
  <2>2. a \in Editors BY <1>0, <1>d, SetEditor
  <2> HIDE DEF a
  <2> QED BY <1>0, <1>e, <1>l, <2>1, <2>2
<1>6. CASE CloseEditor
  <2> DEFINE a == [editor EXCEPT !.modal = FALSE]
             b == [a EXCEPT !.editing = FALSE]
             c == [b EXCEPT !.snapshot = NoLineId]
             d == [c EXCEPT !.describing = FALSE]
             e == [d EXCEPT !.draft = NoText]
  <2>1. /\ editor' = Rendered(e) /\ UNCHANGED <<asked, catalogue>>
        /\ form' = [form EXCEPT !.fields = NoLineId]
    BY <1>6 DEF CloseEditor
  <2>2. a \in Editors BY <1>0, SetEditor
  <2> HIDE DEF a
  <2>3. b \in Editors BY <2>2, SetEditor
  <2> HIDE DEF b
  <2>4. c \in Editors BY <1>c, <2>3, SetEditor
  <2> HIDE DEF c
  <2>5. d \in Editors BY <2>4, SetEditor
  <2> HIDE DEF d
  <2>6. e \in Editors BY <1>c, <2>5, SetEditor
  <2> HIDE DEF e
  <2>7. form' \in Forms BY <1>c, <1>f, <2>1
  <2> QED BY <1>R, <1>e, <1>l, <2>1, <2>6, <2>7
<1>7. CASE CloseViewer
  <2> DEFINE a == [editor EXCEPT !.viewer = FALSE]
  <2>1. editor' = Rendered(a) /\ UNCHANGED <<form, asked, catalogue>> BY <1>7 DEF CloseViewer
  <2>2. a \in Editors BY <1>0, SetEditor
  <2> HIDE DEF a
  <2> QED BY <1>0, <1>R, <1>e, <1>l, <2>1, <2>2
<1>8. CASE CloseUpload
  <2> DEFINE a == [editor EXCEPT !.upload = NoProgram]
  <2>1. editor' = a /\ UNCHANGED <<form, asked, catalogue>> BY <1>8 DEF CloseUpload
  <2>2. a \in Editors BY <1>0, <1>c, SetEditor
  <2> HIDE DEF a
  <2> QED BY <1>0, <1>e, <1>l, <2>1, <2>2
\* Requests.
<1>b. ASSUME NEW q, TypedRequest(q), Ask(q), UNCHANGED <<editor, form, catalogue>> PROVE Inv
  BY <1>0, <1>a, <1>b, <1>e
<1>9. CASE LoadPage
  <2> DEFINE q == Request("reload", editor.current, NoLineId)
  <2>1. Ask(q) /\ UNCHANGED <<editor, form, catalogue>> BY <1>9 DEF LoadPage
  <2>2. TypedRequest(q) BY <1>c, <1>d, RequestTyped
  <2> HIDE DEF q
  <2> QED BY <1>b, <2>1, <2>2
<1>10. CASE SubmitUpload
  <2> DEFINE shown == IF editor.modal THEN editor.current ELSE NoProgram
             q == [Request("upload", editor.upload, NoLineId) EXCEPT !.line = shown]
  <2>1. Ask(q) /\ UNCHANGED <<editor, form, catalogue>> BY <1>10 DEF SubmitUpload
  <2>2. editor.upload \in Programs /\ shown \in MaybeProgram
    BY <1>10, <1>c, <1>d DEF SubmitUpload, AtUpload, MaybeProgram
  <2> HIDE DEF shown
  <2>3. q.of = editor.upload /\ q.line = shown /\ q.text = NoText
    BY DEF Request
  <2> HIDE DEF q
  <2>4. TypedRequest(q) BY <1>c, <2>2, <2>3 DEF TypedRequest
  <2> QED BY <1>b, <2>1, <2>4
<1>11. CASE DeleteVersionFile
  <2> DEFINE q == [Request("delete", editor.current, NoLineId)
                     EXCEPT !.version = ShownVersion(editor)]
  <2>1. Ask(q) /\ UNCHANGED <<editor, form, catalogue>> BY <1>11 DEF DeleteVersionFile
  <2>2. TypedRequest(q) BY <1>c, <1>d, RequestTyped
  <2> HIDE DEF q
  <2> QED BY <1>b, <2>1, <2>2
<1>12. CASE SubmitForm
  <2> DEFINE q == Request("update", editor.current, form.line)
  <2>1. Ask(q) /\ UNCHANGED <<editor, form, catalogue>> BY <1>12 DEF SubmitForm
  <2>2. TypedRequest(q) BY <1>f, <1>d, RequestTyped
  <2> HIDE DEF q
  <2> QED BY <1>b, <2>1, <2>2
<1>13. CASE SaveDescription
  <2> DEFINE a == Request("describe", editor.current, NoLineId)
             b == [a EXCEPT !.version = ShownVersion(editor)]
             q == [b EXCEPT !.text = editor.text]
  <2>1. Ask(q) /\ UNCHANGED <<editor, form, catalogue>> BY <1>13 DEF SaveDescription
  <2>2. /\ q.kind = "describe" /\ q.of = editor.current /\ q.line = NoLineId
        /\ q.text = editor.text
    BY DEF Request
  <2> HIDE DEF q
  <2>3. q.kind # "upload" BY <2>2
  <2>4. TypedRequest(q) BY <1>c, <1>d, <2>2, <2>3 DEF TypedRequest
  <2> QED BY <1>b, <2>1, <2>4
<1>14. ASSUME NEW v, Select(v) PROVE Inv
  <2> DEFINE a == [editor EXCEPT !.selected = v]
  <2>1. /\ editor' = Rendered(a) /\ UNCHANGED <<form, asked, catalogue>>
        /\ v \in DOMAIN editor.versions.notes
    BY <1>14 DEF Select
  <2>2. v \in 0 .. lastVersion
    <3>1. v \in 1 .. lastVersion BY <1>d, <2>1, NotesOfVersions
    <3> QED BY <1>n, <3>1
  <2>3. a \in Editors BY <1>0, <2>2, SetEditor
  <2> HIDE DEF a
  <2> QED BY <1>0, <1>R, <1>e, <1>l, <2>1, <2>3
\* The description of the version shown.
<1>15. CASE StartDescriptionEdit
  <2> DEFINE a == [editor EXCEPT !.describing = TRUE]
             b == [a EXCEPT !.draft = editor.text]
  <2>1. editor' = b /\ UNCHANGED <<form, asked, catalogue>> BY <1>15 DEF StartDescriptionEdit
  <2>2. a \in Editors BY <1>0, SetEditor
  <2> HIDE DEF a
  <2>3. b \in Editors BY <1>d, <2>2, SetEditor
  <2> HIDE DEF b
  <2> QED BY <1>0, <1>e, <1>l, <2>1, <2>3
<1>16. ASSUME NEW note \in Texts, WriteDescription(note) PROVE Inv
  <2> DEFINE t == [editor.text EXCEPT !.note = note]
             a == [editor EXCEPT !.text = t]
  <2>1. editor' = [editor EXCEPT !.text.note = note] /\ UNCHANGED <<form, asked, catalogue>>
    BY <1>16 DEF WriteDescription
  <2>2. [editor EXCEPT !.text.note = note] = a OBVIOUS
  <2>3. t \in WrittenTexts BY <1>d DEF WrittenTexts
  <2> HIDE DEF t
  <2>4. a \in Editors BY <1>0, <2>3, SetEditor
  <2> HIDE DEF a
  <2> QED BY <1>0, <1>e, <1>l, <2>1, <2>2, <2>4
<1>17. CASE CancelDescriptionEdit
  <2> DEFINE t == [editor.draft EXCEPT !.restored = editor.draft.by # ShownVersion(editor)]
             a == [editor EXCEPT !.describing = FALSE]
             b == [a EXCEPT !.draft = NoText]
             e == [b EXCEPT !.text = t]
  <2>1. editor' = e /\ UNCHANGED <<form, asked, catalogue>> BY <1>17 DEF CancelDescriptionEdit
  <2>2. t \in WrittenTexts BY <1>d DEF WrittenTexts
  <2> HIDE DEF t
  <2>3. a \in Editors BY <1>0, SetEditor
  <2> HIDE DEF a
  <2>4. b \in Editors BY <1>c, <2>3, SetEditor
  <2> HIDE DEF b
  <2>5. e \in Editors BY <2>2, <2>4, SetEditor
  <2> HIDE DEF e
  <2> QED BY <1>0, <1>e, <1>l, <2>1, <2>5
\* The editing of the description ends.
<1>u. Undescribing \in Editors
  <2> DEFINE a == [editor EXCEPT !.describing = FALSE]
             b == [a EXCEPT !.draft = NoText]
  <2>1. a \in Editors BY <1>0, SetEditor
  <2>2. Undescribing = b BY DEF Undescribing
  <2> HIDE DEF a
  <2>3. b \in Editors BY <1>c, <2>1, SetEditor
  <2> QED BY <2>2, <2>3
\* Answers.
<1>t. ASSUME NEW r \in asked PROVE
        /\ r.of \in MaybeProgram /\ r.line \in MaybeLine \cup MaybeProgram
        /\ r.kind = "upload" => r.of \in Programs /\ r.line \in MaybeProgram
        /\ Loaded(r.of) \in VersionLists(lastVersion)
        /\ TypedRequest(r)
  BY <1>0, <1>t, VersionsLoaded DEF TypedRequest
<1>18. ASSUME NEW r \in asked, NEW versions \in {NoVersions, Loaded(r.of)},
              EditVersions(r, versions)
       PROVE  Inv
  <2> DEFINE chosen == IF versions = NoVersions THEN NoVersion ELSE editor.selected
             a == [editor EXCEPT !.versions = versions]
             e == [a EXCEPT !.selected = chosen]
             q == Request("fields", NoProgram, r.line)
  <2>1. editor' = Rendered(e)
    <3>1. editor' = Rendered([editor EXCEPT !.versions = versions,
                                !.selected = IF versions = NoVersions THEN NoVersion ELSE @])
      BY <1>18 DEF EditVersions
    <3>2. [editor EXCEPT !.versions = versions,
                         !.selected = IF versions = NoVersions THEN NoVersion ELSE @] = e
      BY <1>0 DEF EditorsUpTo
    <3> QED BY <3>1, <3>2
  <2>2. UNCHANGED <<form, catalogue>> /\ asked' = (asked \ {r}) \cup {q}
    BY <1>18 DEF EditVersions
  <2>3. chosen \in 0 .. lastVersion /\ versions \in VersionLists(lastVersion)
    BY <1>c, <1>d, <1>t
  <2>4. TypedRequest(q) BY <1>c, <1>t, RequestTyped
  <2> HIDE DEF chosen, q
  <2>5. a \in Editors BY <1>0, <2>3, SetEditor
  <2> HIDE DEF a
  <2>6. e \in Editors BY <2>3, <2>5, SetEditor
  <2> HIDE DEF e
  <2>7. asked' \subseteq asked \cup {q} BY <2>2
  <2> QED BY <1>0, <1>R, <1>e, <1>q, <2>1, <2>2, <2>4, <2>6, <2>7
<1>19. ASSUME NEW r \in asked, ViewAnswered(r) PROVE Inv
  <2> DEFINE a == [editor EXCEPT !.versions = Loaded(r.of)]
             b == [a EXCEPT !.viewer = TRUE]
             e == [b EXCEPT !.loading = FALSE]
  <2>1. /\ editor' = Rendered(e) /\ UNCHANGED <<form, catalogue>>
        /\ asked' \subseteq asked
    BY <1>19 DEF ViewAnswered
  <2>2. a \in Editors BY <1>0, <1>t, SetEditor
  <2> HIDE DEF a
  <2>3. b \in Editors BY <2>2, SetEditor
  <2> HIDE DEF b
  <2>4. e \in Editors BY <2>3, SetEditor
  <2> HIDE DEF e
  <2> QED BY <1>0, <1>R, <1>e, <1>l, <2>1, <2>4
<1>20. ASSUME NEW r \in asked, ViewFailed(r) PROVE Inv
  <2> DEFINE a == [editor EXCEPT !.loading = FALSE]
  <2>1. editor' = a /\ UNCHANGED <<form, catalogue>> /\ asked' \subseteq asked
    BY <1>20 DEF ViewFailed
  <2>2. a \in Editors BY <1>0, SetEditor
  <2> HIDE DEF a
  <2> QED BY <1>0, <1>e, <1>l, <2>1, <2>2
<1>21. ASSUME NEW r \in asked, Reloaded(r) PROVE Inv
  <2> DEFINE a == [editor EXCEPT !.versions = Loaded(r.of)]
  <2>1. editor' = Rendered(a) /\ UNCHANGED <<form, catalogue>> /\ asked' \subseteq asked
    BY <1>21 DEF Reloaded
  <2>2. a \in Editors BY <1>0, <1>t, SetEditor
  <2> HIDE DEF a
  <2> QED BY <1>0, <1>R, <1>e, <1>l, <2>1, <2>2
<1>22. ASSUME NEW r \in asked, UploadAnswered(r) PROVE Inv
  <2> DEFINE a == [editor EXCEPT !.upload = NoProgram]
             q == Request("reload", r.line, NoLineId)
  <2>1. /\ editor' = a /\ UNCHANGED form /\ Uploaded(r.of) /\ r.kind = "upload"
        /\ asked' = (asked \ {r}) \cup (IF r.line = NoProgram THEN {} ELSE {q})
    BY <1>22 DEF UploadAnswered
  <2>2. TypedRequest(q)
    <3>1. r.line \in MaybeProgram BY <1>t, <2>1
    <3> QED BY <1>c, <3>1, RequestTyped
  <2>3. a \in Editors BY <1>0, <1>c, SetEditor
  <2> HIDE DEF a, q
  <2>4. asked' \subseteq asked \cup {q} BY <2>1
  <2>5. CatalogueTyped' /\ Editors \subseteq EditorsUpTo(lastVersion')
    BY <1>0, <1>t, <2>1, CatalogueGrows
  <2>6. editor' \in EditorsUpTo(lastVersion') BY <2>1, <2>3, <2>5
  <2>7. form' \in Forms /\ \A s \in asked' : TypedRequest(s) BY <1>0, <1>q, <2>1, <2>2, <2>4
  <2> HIDE DEF Editors
  <2> QED BY <2>5, <2>6, <2>7 DEF Inv, EditorTyped
<1>23. ASSUME NEW r \in asked, FileDeletedReload(r) PROVE Inv
  <2> DEFINE q == Request("reload", r.of, NoLineId)
  <2>1. /\ UNCHANGED <<editor, form>> /\ FileDeleted(r.version)
        /\ asked' = (asked \ {r}) \cup (IF r.of = NoProgram THEN {} ELSE {q})
    BY <1>23 DEF FileDeletedReload
  <2>2. TypedRequest(q) BY <1>c, <1>t, RequestTyped
  <2> HIDE DEF q
  <2>3. asked' \subseteq asked \cup {q} BY <2>1
  <2>4. CatalogueTyped' /\ lastVersion' = lastVersion BY <1>0, <2>1, CatalogueShrinks
  <2> QED BY <1>0, <1>q, <1>v, <2>1, <2>2, <2>3, <2>4
<1>24. ASSUME NEW r \in asked, OnlyReported(r) PROVE Inv
  <2>1. /\ UNCHANGED <<editor, form>> /\ asked' \subseteq asked
        /\ r.kind \in {"upload", "delete", "reload", "update", "described"}
    BY <1>24 DEF OnlyReported
  <2>2. form' \in Forms /\ \A s \in asked' : TypedRequest(s) BY <1>0, <1>l, <2>1
  <2>3. CASE r.kind = "upload"
    <3>1. Uploaded(r.of) BY <1>24, <2>3 DEF OnlyReported
    <3>2. CatalogueTyped' /\ Editors \subseteq EditorsUpTo(lastVersion')
      BY <1>0, <1>t, <2>3, <3>1, CatalogueGrows
    <3>3. editor' \in EditorsUpTo(lastVersion') BY <1>0, <2>1, <3>2
    <3> HIDE DEF Editors
    <3> QED BY <2>2, <3>2, <3>3 DEF Inv, EditorTyped
  <2>4. CASE r.kind = "delete"
    <3>1. FileDeleted(r.version) BY <1>24, <2>4 DEF OnlyReported
    <3>2. CatalogueTyped' /\ lastVersion' = lastVersion BY <1>0, <3>1, CatalogueShrinks
    <3> QED BY <1>0, <1>v, <2>1, <2>2, <3>2
  <2>5. CASE r.kind \notin {"upload", "delete"}
    <3>1. UNCHANGED catalogue BY <1>24, <2>5 DEF OnlyReported
    <3> QED BY <1>0, <1>e, <2>1, <2>2, <3>1
  <2> QED BY <2>3, <2>4, <2>5
<1>25. ASSUME NEW r \in asked, DescriptionSaved(r) PROVE Inv
  <2> DEFINE q == Request("described", r.of, NoLineId)
  <2>1. /\ Described(r) /\ UNCHANGED form /\ lastVersion' = lastVersion
        /\ \/ editor' = Undescribing /\ asked' = asked \ {r}
           \/ editor' = editor /\ asked' = (asked \ {r}) \cup {q}
    BY <1>25 DEF DescriptionSaved
  <2>2. TypedRequest(q) BY <1>c, <1>t, RequestTyped
  <2> HIDE DEF q
  <2>3. asked' \subseteq asked \cup {q} BY <2>1
  <2>4. CatalogueTyped' BY <1>0, <1>t, <2>1, CatalogueDescribed
  <2>5. editor' \in Editors BY <1>0, <1>u, <2>1
  <2> QED BY <1>0, <1>q, <1>v, <2>1, <2>2, <2>3, <2>4, <2>5
<1>26. ASSUME NEW r \in asked, DescriptionReloaded(r) PROVE Inv
  <2> DEFINE a == [Undescribing EXCEPT !.versions = Loaded(r.of)]
  <2>1. editor' = Rendered(a) /\ UNCHANGED <<form, catalogue>> /\ asked' \subseteq asked
    BY <1>26 DEF DescriptionReloaded
  <2>2. a \in Editors BY <1>u, <1>t, SetEditor
  <2> HIDE DEF a
  <2> QED BY <1>0, <1>R, <1>e, <1>l, <2>1, <2>2
<1>27. ASSUME NEW r \in asked, NEW missing \in BOOLEAN, DescriptionNotSaved(r, missing)
       PROVE  Inv
  <2> DEFINE known == editor.supported /\ ~missing
             a == [editor EXCEPT !.supported = known]
  <2>1. /\ editor' = a /\ UNCHANGED <<form, lastVersion>> /\ asked' \subseteq asked
        /\ Described(r) \/ UNCHANGED described
    <3>1. editor' = [editor EXCEPT !.supported = @ /\ ~missing]
      BY <1>27 DEF DescriptionNotSaved
    <3> QED BY <1>27, <3>1 DEF DescriptionNotSaved
  <2>2. a \in Editors
    <3>1. known \in BOOLEAN OBVIOUS
    <3> HIDE DEF known
    <3> QED BY <1>0, <3>1, SetEditor
  <2> HIDE DEF a
  <2>3. CatalogueTyped'
    <3>1. CASE Described(r) BY <1>0, <1>t, <2>1, <3>1, CatalogueDescribed
    <3>2. CASE UNCHANGED described BY <1>0, <2>1, <3>2 DEF CatalogueTyped
    <3> QED BY <2>1, <3>1, <3>2
  <2>4. editor' \in Editors BY <2>1, <2>2
  <2> QED BY <1>0, <1>l, <1>v, <2>1, <2>3, <2>4
\* The properties of the program.
<1>28. CASE StartPropertyEdit
  <2> DEFINE a == [editor EXCEPT !.editing = TRUE]
             b == [a EXCEPT !.snapshot = form.line]
  <2>1. editor' = b /\ UNCHANGED <<form, asked, catalogue>> BY <1>28 DEF StartPropertyEdit
  <2>2. a \in Editors BY <1>0, SetEditor
  <2> HIDE DEF a
  <2>3. b \in Editors BY <1>f, <2>2, SetEditor
  <2> HIDE DEF b
  <2> QED BY <1>0, <1>e, <1>l, <2>1, <2>3
<1>29. ASSUME NEW l \in FormLines, ChangeLine(l) PROVE Inv
  <2> DEFINE q == Request("fields", NoProgram, l)
  <2>1. Ask(q) /\ form' = [form EXCEPT !.line = l] /\ UNCHANGED <<editor, catalogue>>
    BY <1>29 DEF ChangeLine
  <2>2. TypedRequest(q) BY <1>c, RequestTyped
  <2> HIDE DEF q
  <2>3. form' \in Forms BY <1>c, <1>f, <2>1
  <2> QED BY <1>0, <1>a, <1>e, <2>1, <2>2, <2>3
<1>30. ASSUME NEW r \in asked, FieldsAnswered(r) \/ FieldsFailed(r) PROVE Inv
  <2>1. /\ \/ form' = form
           \/ form.line = r.line /\ form' = [form EXCEPT !.fields = r.line]
           \/ form' = [form EXCEPT !.fields = NoLineId]
        /\ UNCHANGED <<editor, catalogue>> /\ asked' \subseteq asked
    BY <1>30 DEF FieldsAnswered, FieldsFailed
  <2>2. form' \in Forms BY <1>0, <1>c, <1>f, <2>1
  <2> QED BY <1>0, <1>e, <1>l, <2>1, <2>2
<1>31. CASE CancelPropertyEdit
  <2> DEFINE a == [editor EXCEPT !.editing = FALSE]
             b == [a EXCEPT !.snapshot = NoLineId]
  <2>1. /\ editor' = b /\ UNCHANGED <<asked, catalogue>>
        /\ form' = form \/ form' = [form EXCEPT !.line = editor.snapshot]
    BY <1>31 DEF CancelPropertyEdit
  <2>2. a \in Editors BY <1>0, SetEditor
  <2> HIDE DEF a
  <2>3. b \in Editors BY <1>c, <2>2, SetEditor
  <2> HIDE DEF b
  <2>4. form' \in Forms BY <1>0, <1>d, <1>f, <2>1
  <2> QED BY <1>e, <1>l, <2>1, <2>3, <2>4
<1>32. ASSUME NEW r \in asked, UpdateAnswered(r) PROVE Inv
  <2> DEFINE x == [editor EXCEPT !.modal = FALSE]
             a == [Undescribing EXCEPT !.modal = FALSE]
             b == [a EXCEPT !.editing = FALSE]
             y == [b EXCEPT !.snapshot = NoLineId]
  <2>1. /\ editor' = Rendered(x) \/ editor' = Rendered(y)
        /\ form' = [form EXCEPT !.fields = NoLineId] /\ UNCHANGED catalogue
        /\ asked' \subseteq asked
    BY <1>32 DEF UpdateAnswered
  <2>2. x \in Editors BY <1>0, SetEditor
  <2>3. a \in Editors BY <1>u, SetEditor
  <2> HIDE DEF a
  <2>4. b \in Editors BY <2>3, SetEditor
  <2> HIDE DEF b
  <2>5. y \in Editors BY <1>c, <2>4, SetEditor
  <2> HIDE DEF x, y
  <2>6. editor' \in Editors BY <1>R, <2>1, <2>2, <2>5
  <2>7. form' \in Forms BY <1>c, <1>f, <2>1
  <2> QED BY <1>e, <1>l, <2>1, <2>6, <2>7
<1>z. CASE UNCHANGED editorVars
  BY <1>0, <1>e, <1>l, <1>z DEF editorVars, catalogue
<1>33. CASE EditorAnswers
  BY <1>33, <1>18, <1>19, <1>20, <1>21, <1>22, <1>23, <1>24, <1>25, <1>26, <1>27, <1>30,
     <1>32 DEF EditorAnswers
<1>34. CASE PageVersions \/ PageViewedVersions
  BY <1>34, <1>9 DEF PageVersions, PageViewedVersions
<1>35. ASSUME NEW v, SelectVersion(v) \/ SelectViewedVersion(v) PROVE Inv
  BY <1>35, <1>14 DEF SelectVersion, SelectViewedVersion
<1> QED
  BY <1>1, <1>2, <1>3, <1>4, <1>5, <1>6, <1>7, <1>8, <1>10, <1>11, <1>12, <1>13, <1>15, <1>16,
     <1>17, <1>28, <1>29, <1>31, <1>33, <1>34, <1>35, <1>z DEF EditorNext

\* So the state of the dialogs is in order.
LEMMA EditorTypesShown == EditorTyped => EditorTypeOK
<1> SUFFICES ASSUME EditorTyped PROVE EditorTypeOK
  OBVIOUS
<1>1. /\ editor \in EditorsUpTo(lastVersion) /\ form \in Forms /\ CatalogueTyped
      /\ \A r \in asked : TypedRequest(r)
  BY DEF EditorTyped
<1>2. /\ editor.current \in MaybeProgram /\ editor.upload \in MaybeProgram
      /\ editor.versions \in VersionLists(lastVersion) /\ editor.selected \in 0 .. lastVersion
      /\ editor.text \in WrittenTexts /\ editor.draft \in WrittenTexts
      /\ editor.snapshot \in MaybeLine
  BY <1>1, FieldsOfEditor
<1>3. {editor.modal, editor.viewer, editor.describing, editor.editing, editor.loading,
       editor.supported} \subseteq BOOLEAN
  BY <1>1 DEF EditorsUpTo
<1>4. editor.versions.of \in MaybeProgram /\ DOMAIN editor.versions.notes \subseteq 1 .. lastVersion
  BY <1>2, NotesOfVersions
<1>5. \A r \in asked : r.of \in MaybeProgram /\ r.line \in MaybeLine \cup MaybeProgram
  BY <1>1 DEF TypedRequest
<1>6. \A v \in DOMAIN described : v \in 1 .. lastVersion /\ described[v].of \in Programs
  BY <1>1 DEF CatalogueTyped, Descriptions
<1> QED BY <1>1, <1>2, <1>3, <1>4, <1>5, <1>6 DEF EditorTypeOK, Forms

-----------------------------------------------------------------------------
(***************************************************************************)
(* The pages side by side, the dialog of custom fields among them.         *)
(***************************************************************************)
LEMMA FieldsOfClient ==
  /\ ClientInit => FieldsInit
  /\ [ClientNext]_clientVars => [FieldsNext]_fieldVars
<1>1. ClientInit => FieldsInit BY DEF ClientInit
<1>2. ASSUME [ClientNext]_clientVars PROVE [FieldsNext]_fieldVars
  <2>1. CASE ImportArea(ImportNext)   BY <2>1 DEF ImportArea
  <2>2. CASE MatrixArea(MatrixNext)   BY <2>2 DEF MatrixArea
  <2>3. CASE FieldsArea(FieldsNext)   BY <2>3 DEF FieldsArea
  <2>4. CASE SessionArea(SessionNext) BY <2>4 DEF SessionArea
  <2>5. CASE EditorArea(EditorNext)   BY <2>5 DEF EditorArea
  <2>6. CASE TableArea(TableNext)     BY <2>6 DEF TableArea
  <2>7. CASE RelationsArea(RelationsNext) BY <2>7 DEF RelationsArea
  <2>8. CASE AdminArea(AdminNext)     BY <2>8 DEF AdminArea
  <2>9. CASE MigrationArea(MigrationNext) BY <2>9 DEF MigrationArea
  <2>10. CASE BackupArea(BackupNext)  BY <2>10 DEF BackupArea
  <2>11. CASE ExportArea(CenterNext)  BY <2>11 DEF ExportArea
  <2>12. CASE UNCHANGED clientVars    BY <2>12 DEF clientVars
  <2> QED
    BY <1>2, <2>1, <2>2, <2>3, <2>4, <2>5, <2>6, <2>7, <2>8, <2>9, <2>10, <2>11, <2>12
    DEF ClientNext
<1> QED BY <1>1, <1>2

\* A behaviour stays with the part it is about.
LEMMA AreaStays == area \in Areas /\ [ClientNext]_clientVars => (area \in Areas)'
<1> SUFFICES ASSUME area \in Areas, [ClientNext]_clientVars PROVE area' = area
  OBVIOUS
<1> QED BY DEF ClientNext, clientVars, ImportArea, MatrixArea, FieldsArea, SessionArea, EditorArea,
               TableArea, RelationsArea, AdminArea, MigrationArea, BackupArea, ExportArea

ClientInv ==
    /\ area \in Areas
    /\ RelationsInv /\ CallsBounded /\ MatrixInv /\ MatrixRest
    /\ MigrationInv /\ MigrationBounds /\ TableInv /\ LoadsBounded
    /\ BackupInv /\ ListingsBounded /\ CenterInv /\ VisitsBounded
    /\ ImportInv /\ ImportBounds /\ ListShape /\ EditorTyped /\ FieldsInv /\ SessionInv

\* Every page starts in order,
LEMMA ClientStart == ClientInit => ClientInv
<1> SUFFICES ASSUME ClientInit PROVE ClientInv
  OBVIOUS
<1>1. area \in Areas BY DEF ClientInit
<1>2. RelationsInv /\ CallsBounded BY PagesStart, RelationsStart, CallsBoundedStart
<1>3. MatrixInv /\ MatrixRest BY PagesStart, MatrixStart, MatrixRestStart
<1>4. MigrationInv /\ MigrationBounds BY PagesStart, MigrationStart, MigrationBoundsStart
<1>5. TableInv /\ LoadsBounded BY PagesStart, TableStart, LoadsBoundedStart
<1>6. BackupInv /\ ListingsBounded BY PagesStart, BackupStart, ListingsBoundedStart
<1>7. CenterInv /\ VisitsBounded BY PagesStart, CenterStart, VisitsBoundedStart
<1>8. ImportInv /\ ImportBounds BY PagesStart, ImportStart, ImportBoundsStart
<1>9. ListShape /\ EditorTyped BY PagesStart, ListShapeStart, EditorTypedStart
<1>10. FieldsInv /\ SessionInv BY PagesStart, FieldsOfClient, FieldsStart, SessionInit_Inv
<1> QED BY <1>1, <1>2, <1>3, <1>4, <1>5, <1>6, <1>7, <1>8, <1>9, <1>10 DEF ClientInv

\* each keeps its invariant while it moves, and rests while another does,
LEMMA ClientStep == ClientInv /\ [ClientNext]_clientVars => ClientInv'
<1> SUFFICES ASSUME ClientInv, [ClientNext]_clientVars PROVE ClientInv'
  OBVIOUS
<1>0. /\ area \in Areas
      /\ RelationsInv /\ CallsBounded /\ MatrixInv /\ MatrixRest
      /\ MigrationInv /\ MigrationBounds /\ TableInv /\ LoadsBounded
      /\ BackupInv /\ ListingsBounded /\ CenterInv /\ VisitsBounded
      /\ ImportInv /\ ImportBounds /\ ListShape /\ EditorTyped /\ FieldsInv /\ SessionInv
  BY DEF ClientInv
<1>1. (area \in Areas)' BY <1>0, AreaStays
<1>2. RelationsInv' /\ CallsBounded' BY <1>0, PagesStep, RelationsStep, CallsBoundedStep
<1>3. MatrixInv' /\ MatrixRest' BY <1>0, PagesStep, MatrixStep, MatrixRestStep
<1>4. MigrationInv' /\ MigrationBounds'
  BY <1>0, PagesStep, MigrationStep, MigrationBoundsStep
<1>5. TableInv' /\ LoadsBounded' BY <1>0, PagesStep, TableStep, LoadsBoundedStep
<1>6. BackupInv' /\ ListingsBounded' BY <1>0, PagesStep, BackupStep, ListingsBoundedStep
<1>7. CenterInv' /\ VisitsBounded' BY <1>0, PagesStep, CenterStep, VisitsBoundedStep
<1>8. ImportInv' /\ ImportBounds' BY <1>0, PagesStep, ImportStep, ImportBoundsStep
<1>9. ListShape' /\ EditorTyped' BY <1>0, PagesStep, ListShapeStep, EditorTypedStep
<1>10. FieldsInv' /\ SessionInv' BY <1>0, PagesStep, FieldsOfClient, FieldsStep, SessionStep
<1> QED BY <1>1, <1>2, <1>3, <1>4, <1>5, <1>6, <1>7, <1>8, <1>9, <1>10 DEF ClientInv

\* and the page that moves shows its types.
LEMMA ClientInvShows == ClientInv => ClientTypeOK
<1> SUFFICES ASSUME ClientInv PROVE ClientTypeOK
  OBVIOUS
<1>1. /\ RelationsTypeOK /\ MatrixTypeOK /\ MigrationTypeOK /\ TableTypeOK /\ BackupTypeOK
      /\ CenterTypeOK /\ ImportTypeOK /\ ListTypeOK /\ EditorTypeOK /\ LineFieldsTypeOK
  BY RelationsTyped, MatrixTyped, MigrationTyped, TableTyped, BackupTyped, CenterTyped,
     ImportTyped, ListTyped, EditorTypesShown, FieldsInvShows DEF ClientInv
<1>2. SessionTypeOK BY DEF ClientInv, SessionInv
<1>3. area \in {"import", "matrix", "fields", "session", "editor", "table", "relations",
                "lists", "migration", "backups", "export"}
  BY ClientAssumption DEF ClientInv
<1> QED BY <1>1, <1>2, <1>3 DEF ClientTypeOK

\* The dialog of the custom fields of a line (ProductionLineCustomFieldManager.tsx),
\* with any number of lines, rows, loads, saves and deletions: at rest it shows the
\* fields the server keeps of its line, in the server's order unless something was
\* edited, except after operations that overlapped or failed after their effect;
\* and even then no two rows are the same field and no save sends a field twice.
THEOREM DialogStaysInSync == ClientSpec => []DialogInSync
<1>1. ClientInit => FieldsInv
  BY FieldsOfClient, FieldsStart
<1>2. FieldsInv /\ [ClientNext]_clientVars => FieldsInv'
  BY FieldsOfClient, FieldsStep
<1>3. FieldsInv => DialogInSync
  BY FieldsInvShows
<1> QED BY <1>1, <1>2, <1>3, PTL DEF ClientSpec

\* The page that moves keeps the types of its state, whatever answers come in
\* whatever order: what is shown, offered and under way is of the programs, lines,
\* targets and tasks there are, and every counter stays within its bound.
THEOREM ClientTypes == ClientSpec => []ClientTypeOK
<1> QED BY ClientStart, ClientStep, ClientInvShows, PTL DEF ClientSpec

=============================================================================
