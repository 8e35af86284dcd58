------------------------- MODULE WatchTableProofs --------------------------
(***************************************************************************)
(* Proofs about WatchTable, for every network, every choice of hosts that  *)
(* answer, and every number of rescans and discovery workers.  The first   *)
(* part is about numbered sets, the second about tables and what may be    *)
(* done to one, the third has one lemma per action that changes the table, *)
(* and the last one the theorems.                                          *)
(***************************************************************************)
EXTENDS WatchTable, FiniteSetTheorems, SequenceTheorems, TLAPS

-----------------------------------------------------------------------------
(* Numbered sets.                                                          *)

Rank(S, i) == Cardinality({j \in S : j <= i})

(* Every member of a finite set of numbers has a place of its own among    *)
(* the places 1, 2, ..., in their order, and no place is left empty.       *)
LEMMA RankIsAPlace ==
    ASSUME NEW S \in SUBSET Int, IsFiniteSet(S)
    PROVE  /\ Cardinality(S) \in Nat
           /\ \A i \in S : Rank(S, i) \in 1..Cardinality(S)
           /\ \A i, j \in S : i < j => Rank(S, i) < Rank(S, j)
           /\ \A k \in 1..Cardinality(S) : \E i \in S : Rank(S, i) = k
<1>1. Cardinality(S) \in Nat
  BY FS_CardinalityType
<1>2. ASSUME NEW i \in S
      PROVE  Rank(S, i) \in 1..Cardinality(S)
  <2> DEFINE B == {j \in S : j <= i}
  <2>1. B \in SUBSET S /\ i \in B
    OBVIOUS
  <2>2. IsFiniteSet(B) /\ Cardinality(B) <= Cardinality(S) /\ Cardinality(B) \in Nat
    BY <2>1, FS_Subset, FS_CardinalityType
  <2>3. Cardinality(B) # 0
    BY <2>1, <2>2, FS_EmptySet
  <2> QED  BY <1>1, <2>2, <2>3 DEF Rank
<1>3. ASSUME NEW i \in S, NEW j \in S, i < j
      PROVE  Rank(S, i) < Rank(S, j)
  <2> DEFINE A == {x \in S : x <= i}
             B == {x \in S : x <= j}
  <2>1. A \in SUBSET B /\ B \in SUBSET S /\ j \in B /\ j \notin A
    <3>1. i \in Int /\ j \in Int /\ ~(j <= i)
      BY <1>3
    <3>2. \A x \in S : x <= i => x <= j
      <4> TAKE x \in S
      <4>1. x \in Int
        OBVIOUS
      <4> QED  BY <4>1, <3>1, <1>3
    <3>3. \A x : x \in A => x \in B
      BY <3>2
    <3>4. B \in SUBSET S
      OBVIOUS
    <3>5. j \in B
      BY <3>1
    <3>6. j \notin A
      BY <3>1
    <3> QED  BY <3>3, <3>4, <3>5, <3>6
  <2>2. IsFiniteSet(B)
    BY <2>1, FS_Subset
  <2>3. IsFiniteSet(A) /\ Cardinality(A) <= Cardinality(B) /\ Cardinality(A) # Cardinality(B)
    BY <2>1, <2>2, FS_Subset
  <2>4. Cardinality(A) \in Nat /\ Cardinality(B) \in Nat
    BY <2>2, <2>3, FS_CardinalityType
  <2> QED  BY <2>3, <2>4 DEF Rank
<1>4. \A k \in 1..Cardinality(S) : \E i \in S : Rank(S, i) = k
  <2> DEFINE n == Cardinality(S)
             f == [i \in S |-> Rank(S, i)]
  <2>1. f \in [S -> 1..n]
    BY <1>2
  <2>2. \A i, j \in S : f[i] = f[j] => i = j
    <3> SUFFICES ASSUME NEW i \in S, NEW j \in S, i # j
                 PROVE  f[i] # f[j]
      OBVIOUS
    <3>1. Rank(S, i) \in Int /\ Rank(S, j) \in Int
      BY <1>2, <1>1
    <3>2. CASE i < j
      BY <3>1, <3>2, <1>3
    <3>3. CASE j < i
      BY <3>1, <3>3, <1>3
    <3> QED  BY <3>2, <3>3
  <2>3. f \in Injection(S, 1..n)
    BY <2>1, <2>2 DEF Injection, IsInjective
  <2>4. IsFiniteSet(1..n) /\ Cardinality(1..n) = n
    BY <1>1, FS_Interval
  <2>5. f \in Surjection(S, 1..n)
    BY <2>3, <2>4, FS_Injection
  <2>6. \A k \in 1..n : \E i \in S : f[i] = k
    BY <2>5 DEF Surjection
  <2> QED  BY <2>6
<1> QED  BY <1>1, <1>2, <1>3, <1>4

(* Nth undoes Rank.                                                        *)
LEMMA NthIsAMember ==
    ASSUME NEW S \in SUBSET Int, IsFiniteSet(S)
    PROVE  /\ \A k \in 1..Cardinality(S) : Nth(S, k) \in S /\ Rank(S, Nth(S, k)) = k
           /\ \A i \in S : Nth(S, Rank(S, i)) = i
<1>1. \A k \in 1..Cardinality(S) : Nth(S, k) \in S /\ Rank(S, Nth(S, k)) = k
  <2> TAKE k \in 1..Cardinality(S)
  <2>1. PICK i \in S : Cardinality({j \in S : j <= i}) = k
    BY RankIsAPlace DEF Rank
  <2> QED  BY <2>1 DEF Nth, Rank
<1>2. ASSUME NEW i \in S
      PROVE  Nth(S, Rank(S, i)) = i
  <2>1. PICK m : m = Nth(S, Rank(S, i))
    OBVIOUS
  <2>2. Rank(S, i) \in 1..Cardinality(S)
    BY RankIsAPlace
  <2>3. m \in S /\ Rank(S, m) = Rank(S, i)
    BY <1>1, <2>1, <2>2
  <2>4. ~(m < i) /\ ~(i < m)
    <3>1. Rank(S, m) \in Int /\ Rank(S, i) \in Int
      BY <2>2, <2>3, RankIsAPlace
    <3> QED  BY <2>3, <3>1, RankIsAPlace
  <2> QED  BY <2>1, <2>3, <2>4
<1> QED  BY <1>1, <1>2

(* InOrder lists a finite set of numbers, each member once.                *)
LEMMA InOrderLists ==
    ASSUME NEW S \in SUBSET Int, IsFiniteSet(S)
    PROVE  /\ Cardinality(S) \in Nat
           /\ InOrder(S) \in [1..Cardinality(S) -> S]
           /\ \A k, l \in 1..Cardinality(S) : InOrder(S)[k] = InOrder(S)[l] => k = l
           /\ \A i \in S : \E k \in 1..Cardinality(S) : InOrder(S)[k] = i
<1>1. Cardinality(S) \in Nat
  BY FS_CardinalityType
<1>2. InOrder(S) \in [1..Cardinality(S) -> S]
  BY NthIsAMember DEF InOrder
<1>3. \A k \in 1..Cardinality(S) : Rank(S, InOrder(S)[k]) = k
  BY NthIsAMember DEF InOrder
<1>4. \A i \in S : \E k \in 1..Cardinality(S) : InOrder(S)[k] = i
  <2> TAKE i \in S
  <2>1. PICK r : r = Rank(S, i)
    OBVIOUS
  <2>2. r \in 1..Cardinality(S) /\ Nth(S, r) = i
    BY <2>1, RankIsAPlace, NthIsAMember
  <2> QED  BY <2>2 DEF InOrder
<1> QED  BY <1>1, <1>2, <1>3, <1>4

(* Select keeps the rows of the chosen places, in their order.             *)
LEMMA SelectKeeps ==
    ASSUME NEW t, NEW S \in SUBSET Int, IsFiniteSet(S)
    PROVE  /\ Cardinality(S) \in Nat
           /\ DOMAIN Select(t, S) = 1..Cardinality(S)
           /\ \A k \in 1..Cardinality(S) : \E i \in S :
                 k = Rank(S, i) /\ Select(t, S)[k] = t[i]
           /\ \A i \in S : /\ Rank(S, i) \in 1..Cardinality(S)
                           /\ Select(t, S)[Rank(S, i)] = t[i]
<1>1. Cardinality(S) \in Nat
  BY FS_CardinalityType
<1>2. DOMAIN Select(t, S) = 1..Cardinality(S)
  BY DEF Select
<1>3. ASSUME NEW k \in 1..Cardinality(S)
      PROVE  \E i \in S : k = Rank(S, i) /\ Select(t, S)[k] = t[i]
  <2>1. PICK i : i = Nth(S, k)
    OBVIOUS
  <2>2. i \in S /\ k = Rank(S, i)
    BY <2>1, NthIsAMember
  <2>3. Select(t, S)[k] = t[i]
    BY <2>1 DEF Select
  <2> QED  BY <2>2, <2>3
<1>4. ASSUME NEW i \in S
      PROVE  /\ Rank(S, i) \in 1..Cardinality(S)
             /\ Select(t, S)[Rank(S, i)] = t[i]
  <2>1. PICK r : r = Rank(S, i)
    OBVIOUS
  <2>2. r \in 1..Cardinality(S) /\ Nth(S, r) = i
    BY <2>1, RankIsAPlace, NthIsAMember
  <2>3. Select(t, S)[r] = t[i]
    BY <2>2 DEF Select
  <2> QED  BY <2>1, <2>2, <2>3
<1> QED  BY <1>1, <1>2, <1>3, <1>4

-----------------------------------------------------------------------------
(* Tables: t before a step and u after it.                                 *)

Listed(t, ip) == \E i \in DOMAIN t : t[i].ip = ip
Distinct(t) == \A i, k \in DOMAIN t : t[i].ip = t[k].ip => i = k
NoneDeadWithLatency(t) == \A i \in DOMAIN t : t[i].status = "dead" => t[i].lat = -1

(* Only a dead row is below a row it was above.                            *)
OrderKept(t, u) ==
    \A i, k \in DOMAIN t : \A p, q \in DOMAIN u :
        i < k /\ u[p].ip = t[i].ip /\ u[q].ip = t[k].ip /\ q < p => u[p].status = "dead"

EvidenceKept(t, u) ==
    \A i \in DOMAIN t : t[i].ports \/ t[i].mac => Listed(u, t[i].ip)

RowsKept(t, u) == \A i \in DOMAIN t : Listed(u, t[i].ip)

LEMMA RowType ==
    ASSUME NEW r \in Row
    PROVE  /\ r.ip \in Hosts /\ r.status \in Status /\ r.ports \in BOOLEAN
           /\ r.lat \in Latency /\ r.mac \in BOOLEAN
BY DEF Row

LEMMA LatencyIsInt == Latency \subseteq Int /\ -1 \in Latency
BY WatchAssumption DEF Latency

(* A table keeps its rows in place and gets new ones at the end.           *)
LEMMA Extended ==
    ASSUME NEW t \in Seq(Row), Distinct(t), NEW m \in Nat,
           NEW u \in [1..(Len(t) + m) -> Row],
           \A i \in 1..Len(t) : u[i].ip = t[i].ip,
           \A k \in 1..m : ~Listed(t, u[Len(t) + k].ip),
           \A k, l \in 1..m : u[Len(t) + k].ip = u[Len(t) + l].ip => k = l
    PROVE  /\ u \in Seq(Row) /\ Distinct(u)
           /\ OrderKept(t, u) /\ EvidenceKept(t, u) /\ RowsKept(t, u)
<1> DEFINE n == Len(t)
<1>1. n \in Nat /\ DOMAIN t = 1..n /\ DOMAIN u = 1..(n + m)
  OBVIOUS
<1>2. u \in Seq(Row)
  <2>1. n + m \in Nat
    BY <1>1
  <2> QED  BY <2>1
<1>3. \A p \in 1..(n + m) : p \in 1..n \/ \E k \in 1..m : p = n + k
  <2> TAKE p \in 1..(n + m)
  <2>1. CASE p <= n
    BY <2>1
  <2>2. CASE p > n
    <3>1. p - n \in 1..m /\ p = n + (p - n)
      BY <2>2, <1>1
    <3> QED  BY <3>1
  <2> QED  BY <2>1, <2>2, <1>1
<1>4. ASSUME NEW i \in 1..n, NEW k \in 1..m
      PROVE  u[n + k].ip # u[i].ip
  BY <1>1, <1>4 DEF Listed
<1>5. ASSUME NEW i \in 1..n, NEW k \in 1..n, u[i].ip = u[k].ip
      PROVE  i = k
  BY <1>1, <1>5 DEF Distinct
<1>6. Distinct(u)
  <2> SUFFICES ASSUME NEW p \in 1..(n + m), NEW q \in 1..(n + m), u[p].ip = u[q].ip
               PROVE  p = q
    BY <1>1 DEF Distinct
  <2>1. CASE p \in 1..n /\ q \in 1..n
    BY <2>1, <1>5
  <2>2. CASE p \in 1..n /\ \E k \in 1..m : q = n + k
    BY <2>2, <1>4
  <2>3. CASE q \in 1..n /\ \E k \in 1..m : p = n + k
    BY <2>3, <1>4
  <2>4. CASE (\E k \in 1..m : p = n + k) /\ (\E l \in 1..m : q = n + l)
    BY <2>4
  <2> QED  BY <1>3, <2>1, <2>2, <2>3, <2>4
<1>7. RowsKept(t, u)
  <2> SUFFICES ASSUME NEW i \in 1..n
               PROVE  Listed(u, t[i].ip)
    BY <1>1 DEF RowsKept
  <2>1. i \in DOMAIN u /\ u[i].ip = t[i].ip
    BY <1>1
  <2> QED  BY <2>1 DEF Listed
<1>8. OrderKept(t, u)
  <2> SUFFICES ASSUME NEW i \in 1..n, NEW k \in 1..n,
                      NEW p \in 1..(n + m), NEW q \in 1..(n + m),
                      i < k, u[p].ip = t[i].ip, u[q].ip = t[k].ip, q < p
               PROVE  FALSE
    BY <1>1 DEF OrderKept
  <2>1. i \in DOMAIN u /\ k \in DOMAIN u /\ u[i].ip = t[i].ip /\ u[k].ip = t[k].ip
    BY <1>1
  <2>2. p = i /\ q = k
    BY <2>1, <1>1, <1>6 DEF Distinct
  <2> QED  BY <2>2
<1> QED  BY <1>2, <1>6, <1>7, <1>8 DEF EvidenceKept, RowsKept

(* Of the rows outside the places K, those with evidence are listed in u.  *)
EvidenceMoved(t, K, u) ==
    \A i \in DOMAIN t \ K : t[i].ports \/ t[i].mac => Listed(u, t[i].ip)

(* Behind the first n places of u are other rows than those of K, each    *)
(* once, and they are dead or new.                                         *)
Behind(t, K, u, n) ==
    \A p \in DOMAIN u : p > n =>
        /\ \A i \in K : u[p].ip # t[i].ip
        /\ \A q \in DOMAIN u : q > n /\ u[p].ip = u[q].ip => p = q
        /\ u[p].status = "dead" \/ ~Listed(t, u[p].ip)

(* A table keeps the rows of the places K in their order, and the others   *)
(* of its rows go behind them or leave.                                    *)
LEMMA Rearranged ==
    ASSUME NEW t \in Seq(Row), Distinct(t), NEW K \in SUBSET DOMAIN t,
           NEW u \in Seq(Row), Cardinality(K) <= Len(u),
           \A i \in K : u[Rank(K, i)].ip = t[i].ip,
           Behind(t, K, u, Cardinality(K)),
           EvidenceMoved(t, K, u)
    PROVE  /\ Distinct(u)
           /\ OrderKept(t, u) /\ EvidenceKept(t, u)
           /\ \A i \in K : Listed(u, t[i].ip)
<1> DEFINE n == Cardinality(K)
           m == Len(u)
<1>1. K \in SUBSET Int /\ IsFiniteSet(K) /\ DOMAIN t = 1..Len(t) /\ DOMAIN u = 1..m /\ m \in Nat
  <2>1. IsFiniteSet(1..Len(t))
    BY FS_Interval
  <2> QED  BY <2>1, FS_Subset
<1>2. n \in Nat /\ 1..n \subseteq 1..m
  BY <1>1, FS_CardinalityType
<1>3. \A p \in 1..m : (\E i \in K : p = Rank(K, i)) \/ p \in (n + 1)..m
  <2> TAKE p \in 1..m
  <2>1. CASE p <= n
    <3>1. p \in 1..n
      BY <2>1, <1>2
    <3> QED  BY <3>1, <1>1, RankIsAPlace
  <2>2. CASE p > n
    BY <2>2, <1>1, <1>2
  <2> QED  BY <2>1, <2>2, <1>1, <1>2
<1>3a. /\ \A p \in (n + 1)..m : \A i \in K : u[p].ip # t[i].ip
       /\ \A p, q \in (n + 1)..m : u[p].ip = u[q].ip => p = q
       /\ \A p \in (n + 1)..m : u[p].status = "dead" \/ ~Listed(t, u[p].ip)
  <2>1. \A p \in (n + 1)..m : p \in DOMAIN u /\ p > n
    BY <1>1, <1>2
  <2> QED  BY <2>1 DEF Behind
<1>4. \A i \in K : Rank(K, i) \in 1..n
  BY <1>1, RankIsAPlace
<1>5. \A i, k \in K : t[i].ip = t[k].ip => i = k
  BY DEF Distinct
<1>6. Distinct(u)
  <2> SUFFICES ASSUME NEW p \in 1..m, NEW q \in 1..m, u[p].ip = u[q].ip
               PROVE  p = q
    BY <1>1 DEF Distinct
  <2>1. CASE (\E i \in K : p = Rank(K, i)) /\ (\E k \in K : q = Rank(K, k))
    BY <2>1, <1>5
  <2>2. CASE (\E i \in K : p = Rank(K, i)) /\ q \in (n + 1)..m
    BY <2>2, <1>3a
  <2>3. CASE p \in (n + 1)..m /\ (\E k \in K : q = Rank(K, k))
    BY <2>3, <1>3a
  <2>4. CASE p \in (n + 1)..m /\ q \in (n + 1)..m
    BY <2>4, <1>3a
  <2> QED  BY <1>3, <2>1, <2>2, <2>3, <2>4
<1>7. ASSUME NEW i \in K
      PROVE  Listed(u, t[i].ip)
  <2>1. PICK r : r = Rank(K, i)
    OBVIOUS
  <2>2. r \in DOMAIN u /\ u[r].ip = t[i].ip
    BY <2>1, <1>1, <1>2, <1>4
  <2> QED  BY <2>2 DEF Listed
<1>8. EvidenceKept(t, u)
  <2> SUFFICES ASSUME NEW i \in DOMAIN t, t[i].ports \/ t[i].mac
               PROVE  Listed(u, t[i].ip)
    BY DEF EvidenceKept
  <2>1. CASE i \in K
    BY <2>1, <1>7
  <2>2. CASE i \notin K
    BY <2>2 DEF EvidenceMoved
  <2> QED  BY <2>1, <2>2
<1>9. OrderKept(t, u)
  <2> SUFFICES ASSUME NEW i \in DOMAIN t, NEW k \in DOMAIN t,
                      NEW p \in 1..m, NEW q \in 1..m,
                      i < k, u[p].ip = t[i].ip, u[q].ip = t[k].ip, q < p
               PROVE  u[p].status = "dead"
    BY <1>1 DEF OrderKept
  <2>1. CASE p \in (n + 1)..m
    BY <2>1, <1>3a DEF Listed
  <2>2. CASE \E a \in K : p = Rank(K, a)
    <3>1. i \in K /\ p = Rank(K, i)
      BY <2>2 DEF Distinct
    <3>2. q \notin (n + 1)..m
      BY <3>1, <1>2, <1>4
    <3>3. k \in K /\ q = Rank(K, k)
      BY <3>2, <1>3 DEF Distinct
    <3>4. p < q
      BY <3>1, <3>3, <1>1, RankIsAPlace
    <3>5. p \in Int /\ q \in Int
      BY <1>1
    <3> QED  BY <3>4, <3>5
  <2> QED  BY <1>3, <2>1, <2>2
<1> QED  BY <1>6, <1>7, <1>8, <1>9

(* What a step that changes the table has to leave.                        *)
GoodTable(t, u) ==
    u \in Seq(Row) /\ Distinct(u) /\ OrderKept(t, u) /\ EvidenceKept(t, u)

LEMMA SameTable ==
    ASSUME NEW t \in Seq(Row), Distinct(t)
    PROVE  GoodTable(t, t) /\ RowsKept(t, t)
BY DEF GoodTable, Distinct, OrderKept, EvidenceKept, RowsKept, Listed

(* Rows written in place.                                                  *)
LEMMA Rewritten ==
    ASSUME NEW t \in Seq(Row), Distinct(t), NEW u,
           u \in [DOMAIN t -> Row], \A i \in DOMAIN t : u[i].ip = t[i].ip
    PROVE  GoodTable(t, u) /\ RowsKept(t, u)
<1>1. DOMAIN t = 1..Len(t) /\ Len(t) + 0 = Len(t)
  OBVIOUS
<1>2. u \in [1..(Len(t) + 0) -> Row]
  BY <1>1
<1> QED  BY <1>1, <1>2, Extended DEF GoodTable

(* One row more.                                                           *)
LEMMA Appended ==
    ASSUME NEW t \in Seq(Row), Distinct(t), NEW r \in Row, ~Listed(t, r.ip)
    PROVE  /\ GoodTable(t, Append(t, r)) /\ RowsKept(t, Append(t, r))
           /\ Listed(Append(t, r), r.ip)
           /\ \A i \in DOMAIN Append(t, r) : Append(t, r)[i] = r \/ (i \in DOMAIN t /\ Append(t, r)[i] = t[i])
<1>1. PICK u : u = Append(t, r)
  OBVIOUS
<1>2. /\ u \in [1..(Len(t) + 1) -> Row]
      /\ \A i \in 1..Len(t) : u[i] = t[i]
      /\ u[Len(t) + 1] = r
      /\ Len(t) \in Nat /\ DOMAIN t = 1..Len(t) /\ DOMAIN u = 1..(Len(t) + 1)
  <2> DEFINE R == Row
  <2>1. t \in Seq(R) /\ r \in R
    OBVIOUS
  <2> HIDE DEF R
  <2>2. u \in Seq(R) /\ Len(u) = Len(t) + 1
    BY <1>1, <2>1
  <2>3. u \in [1..(Len(t) + 1) -> R]
    BY <2>2
  <2>4. \A i \in 1..Len(t) : u[i] = t[i]
    BY <1>1, <2>1
  <2>5. u[Len(t) + 1] = r
    BY <1>1, <2>1
  <2>6. Len(t) \in Nat /\ DOMAIN t = 1..Len(t)
    BY <2>1
  <2> QED  BY <2>3, <2>4, <2>5, <2>6 DEF R
<1>3. GoodTable(t, u) /\ RowsKept(t, u)
  <2>1. \A i \in 1..Len(t) : u[i].ip = t[i].ip
    BY <1>2
  <2>2. \A k \in 1..1 : k = 1
    OBVIOUS
  <2>3. \A k \in 1..1 : ~Listed(t, u[Len(t) + k].ip)
    BY <1>2, <2>2
  <2> QED  BY <1>2, <2>1, <2>2, <2>3, Extended DEF GoodTable
<1>4. Listed(u, r.ip)
  <2>1. Len(t) + 1 \in DOMAIN u
    BY <1>2
  <2> QED  BY <1>2, <2>1 DEF Listed
<1>5. \A i \in DOMAIN u : u[i] = r \/ (i \in DOMAIN t /\ u[i] = t[i])
  <2> TAKE i \in DOMAIN u
  <2>1. i \in 1..Len(t) \/ i = Len(t) + 1
    BY <1>2
  <2> QED  BY <1>2, <2>1
<1> QED  BY <1>1, <1>3, <1>4, <1>5

-----------------------------------------------------------------------------
(* Rows.                                                                   *)

LEMMA EnrichedIsARow ==
    ASSUME NEW ip \in Hosts, NEW ports \in BOOLEAN, NEW arp \in BOOLEAN,
           NEW hit \in BOOLEAN, NEW lat \in Latency, NEW r, r = Enriched(ip, ports, arp, hit, lat)
    PROVE  r \in Row /\ r.ip = ip /\ r.lat = lat /\ r.status # "dead"
<1>1. \A d \in BOOLEAN : HostStatus(ports, arp, d, hit) \in Status \ {"dead"}
  BY DEF HostStatus, Status
<1>2. PICK s : s = HostStatus(ports, arp, ip \in ARPHosts /\ ~ports /\ ~hit, hit)
  OBVIOUS
<1>3. s \in Status \ {"dead"}
  BY <1>1, <1>2
<1>4. r = [ip |-> ip, ports |-> ports, lat |-> lat, mac |-> ip \in MACHosts, status |-> s]
  BY <1>2 DEF Enriched
<1> QED  BY <1>3, <1>4 DEF Row

LEMMA MarkDeadRow ==
    ASSUME NEW r \in Row
    PROVE  /\ MarkDead(r) \in Row /\ MarkDead(r).ip = r.ip
           /\ MarkDead(r).status = "dead" /\ MarkDead(r).lat = -1
BY LatencyIsInt DEF MarkDead, Row, Status

LEMMA AnsweredRow ==
    ASSUME NEW r \in Row, NEW lat \in Latency
    PROVE  /\ Answered(r, lat) \in Row /\ Answered(r, lat).ip = r.ip
           /\ Answered(r, lat).status # "dead"
<1>1. PICK s : s = IF r.status # "dead" THEN r.status ELSE IF r.ports THEN "live" ELSE ""
  OBVIOUS
<1>2. s \in Status /\ s # "dead"
  BY <1>1, RowType DEF Status
<1>3. Answered(r, lat) = [r EXCEPT !.lat = lat, !.status = s]
  BY <1>1, RowType DEF Answered, Row
<1> QED  BY <1>2, <1>3 DEF Row

LEMMA NewRowIsARow ==
    ASSUME NEW ip \in Hosts, NEW s \in Status, NEW lat \in Latency
    PROVE  /\ NewRow(ip, s, lat) \in Row
           /\ NewRow(ip, s, lat).ip = ip /\ NewRow(ip, s, lat).status = s
           /\ NewRow(ip, s, lat).lat = lat
BY DEF NewRow, Row

LEMMA ReplyTypes ==
    ASSUME NEW ip \in Hosts
    PROVE  PingResult(ip) \subseteq Latency /\ OpenResult(ip) \subseteq BOOLEAN
BY DEF PingResult, OpenResult, ReplyTimes, Latency

LEMMA HostsAreNumbers == Hosts \subseteq Int /\ IsFiniteSet(Hosts)
BY WatchAssumption

-----------------------------------------------------------------------------
(* The table as it is.                                                     *)

LEMMA TableIsDistinct == OneRowPerHost <=> Distinct(table)
BY DEF OneRowPerHost, Distinct

LEMMA HasRowIsListed == \A ip : HasRow(ip) <=> Listed(table, ip)
BY DEF HasRow, Listed

LEMMA IndexOfRow ==
    TypeOK /\ OneRowPerHost =>
        \A ip : HasRow(ip) => /\ IndexOf(ip) \in DOMAIN table
                              /\ table[IndexOf(ip)].ip = ip
                              /\ \A i \in DOMAIN table : table[i].ip = ip => i = IndexOf(ip)
<1> SUFFICES ASSUME TypeOK, OneRowPerHost, NEW ip, HasRow(ip)
             PROVE  /\ IndexOf(ip) \in DOMAIN table
                    /\ table[IndexOf(ip)].ip = ip
                    /\ \A i \in DOMAIN table : table[i].ip = ip => i = IndexOf(ip)
  OBVIOUS
<1>1. PICK i \in DOMAIN table : table[i].ip = ip
  BY DEF HasRow
<1>2. table[i].ip = ip /\ \A k \in 1..(i - 1) : table[k].ip # ip
  <2>1. DOMAIN table = 1..Len(table) /\ Len(table) \in Nat
    BY DEF TypeOK
  <2>2. \A k \in 1..(i - 1) : k \in DOMAIN table /\ k # i
    BY <2>1
  <2> QED  BY <1>1, <2>2 DEF OneRowPerHost
<1>3. IndexOf(ip) \in DOMAIN table /\ table[IndexOf(ip)].ip = ip
  BY <1>2 DEF IndexOf
<1> QED  BY <1>3 DEF OneRowPerHost

LEMMA TableRows ==
    ASSUME TypeOK
    PROVE  /\ DOMAIN table = 1..Len(table) /\ Len(table) \in Nat
           /\ \A i \in DOMAIN table : table[i] \in Row /\ table[i].ip \in Hosts
<1> DEFINE R == Row
<1>1. table \in Seq(R)
  BY DEF TypeOK
<1> HIDE DEF R
<1>2. \A i \in DOMAIN table : table[i] \in R
  BY <1>1
<1> QED  BY <1>1, <1>2, RowType DEF R

(* HostReady and upsertHost.                                               *)
LEMMA Upserted ==
    ASSUME TypeOK, OneRowPerHost, NEW r \in Row, table' = Upsert(r)
    PROVE  /\ GoodTable(table, table') /\ RowsKept(table, table') /\ Listed(table', r.ip)
           /\ \A i \in DOMAIN table' : table'[i] = r \/ (i \in DOMAIN table /\ table'[i] = table[i])
<1>1. table \in Seq(Row) /\ Distinct(table)
  BY TableIsDistinct DEF TypeOK
<1>2. CASE HasRow(r.ip)
  <2>1. PICK n : n = IndexOf(r.ip)
    OBVIOUS
  <2>2. n \in DOMAIN table /\ table[n].ip = r.ip
    BY <1>2, <2>1, IndexOfRow
  <2>3. table' = [table EXCEPT ![n] = r]
    BY <1>2, <2>1 DEF Upsert
  <2>4. /\ DOMAIN table' = DOMAIN table /\ table'[n] = r
        /\ \A i \in DOMAIN table : i # n => table'[i] = table[i]
    BY <2>2, <2>3
  <2>5. table' \in [DOMAIN table -> Row]
    BY <2>3, TableRows
  <2>6. \A i \in DOMAIN table : table'[i].ip = table[i].ip
    BY <2>2, <2>4
  <2>7. GoodTable(table, table') /\ RowsKept(table, table')
    BY <1>1, <2>5, <2>6, Rewritten
  <2>8. Listed(table', r.ip)
    <3>1. n \in DOMAIN table' /\ table'[n].ip = r.ip
      BY <2>2, <2>4
    <3> QED  BY <3>1, Zenon DEF Listed
  <2> QED  BY <2>4, <2>7, <2>8
<1>3. CASE ~HasRow(r.ip)
  <2>1. table' = Append(table, r)
    BY <1>3 DEF Upsert
  <2>2. ~Listed(table, r.ip)
    BY <1>3, HasRowIsListed
  <2> QED  BY <1>1, <2>1, <2>2, Appended
<1> QED  BY <1>2, <1>3

LEMMA Concatenated ==
    ASSUME NEW R, NEW a \in Seq(R), NEW b \in Seq(R)
    PROVE  /\ a \o b \in Seq(R)
           /\ Len(a) \in Nat /\ Len(b) \in Nat /\ Len(a \o b) = Len(a) + Len(b)
           /\ \A i \in 1..Len(a) : (a \o b)[i] = a[i]
           /\ \A k \in 1..Len(b) : (a \o b)[Len(a) + k] = b[k]
OBVIOUS

LEMMA FunctionIsSeq ==
    ASSUME NEW R, NEW n \in Nat, NEW f \in [1..n -> R]
    PROVE  f \in Seq(R) /\ Len(f) = n /\ DOMAIN f = 1..n
OBVIOUS

(* upsertPlaceholderLocked for a set of addresses.                         *)
LEMMA Placed ==
    ASSUME TypeOK, OneRowPerHost, NEW ips \in SUBSET Hosts, NEW best \in [Hosts -> Latency],
           NEW u, u = Placeholders(ips, best)
    PROVE  GoodTable(table, u) /\ RowsKept(table, u)
<1> DEFINE F == {ip \in ips : ~HasRow(ip)}
           Low(row, lat) == IF lat >= 0 /\ (row.lat < 0 \/ lat < row.lat) THEN lat ELSE row.lat
           a == [i \in DOMAIN table |->
                   IF table[i].ip \in ips
                   THEN [table[i] EXCEPT !.lat = Low(table[i], best[table[i].ip])] ELSE table[i]]
           n == Len(table)
           R == Row
<1>1. PICK fresh : fresh = InOrder(F)
  OBVIOUS
<1>2. PICK m : m = Cardinality(F)
  OBVIOUS
<1>3. /\ m \in Nat /\ fresh \in [1..m -> F] /\ DOMAIN fresh = 1..m
      /\ \A k, l \in 1..m : fresh[k] = fresh[l] => k = l
  <2>1. F \in SUBSET Int /\ F \in SUBSET Hosts
    BY HostsAreNumbers
  <2>2. IsFiniteSet(F)
    BY <2>1, HostsAreNumbers, FS_Subset
  <2>3. fresh \in [1..m -> F]
    BY <1>1, <1>2, <2>1, <2>2, InOrderLists
  <2> QED  BY <1>1, <1>2, <2>1, <2>2, <2>3, InOrderLists
<1> DEFINE b == [k \in 1..m |-> NewRow(fresh[k], "", best[fresh[k]])]
<1>4. u = a \o b
  BY <1>1, <1>3 DEF Placeholders
<1>5. a \in Seq(Row) /\ Len(a) = n /\ \A i \in DOMAIN table : a[i].ip = table[i].ip
  <2>1. ASSUME NEW i \in DOMAIN table
        PROVE  a[i] \in Row /\ a[i].ip = table[i].ip
    <3>1. table[i] \in Row /\ table[i].ip \in Hosts
      BY TableRows
    <3>2. PICK lat : lat = best[table[i].ip]
      OBVIOUS
    <3>3. PICK low : low = Low(table[i], lat)
      OBVIOUS
    <3>4. low \in Latency
      BY <3>1, <3>2, <3>3, RowType
    <3>5. a[i] = IF table[i].ip \in ips THEN [table[i] EXCEPT !.lat = low] ELSE table[i]
      BY <3>2, <3>3
    <3> HIDE DEF a
    <3> QED  BY <3>1, <3>4, <3>5 DEF Row
  <2>2. DOMAIN table = 1..n /\ n \in Nat
    BY TableRows
  <2>3. a \in [1..n -> Row]
    BY <2>1, <2>2
  <2> HIDE DEF a
  <2>4. a \in Seq(Row) /\ Len(a) = n
    BY <2>2, <2>3, FunctionIsSeq
  <2> QED  BY <2>1, <2>4
<1>6. /\ b \in Seq(Row) /\ Len(b) = m
      /\ \A k \in 1..m : b[k].ip = fresh[k]
  <2>1. ASSUME NEW k \in 1..m
        PROVE  b[k] \in Row /\ b[k].ip = fresh[k]
    <3>1. PICK ip \in Hosts, lat \in Latency : ip = fresh[k] /\ lat = best[fresh[k]]
      BY <1>3
    <3>2. PICK unknown \in Status : unknown = ""
      BY DEF Status
    <3>3. b[k] = NewRow(ip, unknown, lat)
      BY <3>1, <3>2
    <3> HIDE DEF b, F
    <3>4. NewRow(ip, unknown, lat) \in Row /\ NewRow(ip, unknown, lat).ip = ip
      BY NewRowIsARow
    <3> QED  BY <3>1, <3>3, <3>4
  <2>2. b \in [1..m -> Row]
    BY <2>1
  <2>3. m \in Nat
    BY <1>3
  <2> HIDE DEF b, F
  <2>4. b \in Seq(Row) /\ Len(b) = m
    BY <2>2, <2>3, FunctionIsSeq
  <2> QED  BY <2>1, <2>4
<1> HIDE DEF a, b, F
<1>7. /\ u \in Seq(Row) /\ Len(u) = n + m /\ n \in Nat
      /\ \A i \in 1..n : u[i] = a[i]
      /\ \A k \in 1..m : u[n + k] = b[k]
  <2>1. a \in Seq(R) /\ b \in Seq(R)
    BY <1>5, <1>6
  <2>2. Len(a) = n /\ Len(b) = m
    BY <1>5, <1>6
  <2> HIDE DEF R
  <2>3. /\ a \o b \in Seq(R) /\ Len(a) \in Nat /\ Len(a \o b) = Len(a) + Len(b)
        /\ \A i \in 1..Len(a) : (a \o b)[i] = a[i]
        /\ \A k \in 1..Len(b) : (a \o b)[Len(a) + k] = b[k]
    BY <2>1, Concatenated
  <2>4. u \in Seq(R)
    BY <1>4, <2>3
  <2> QED  BY <1>4, <2>2, <2>3, <2>4 DEF R
<1>8. u \in [1..(n + m) -> Row]
  <2>1. u \in Seq(R)
    BY <1>7
  <2> HIDE DEF R
  <2>2. u \in [1..(n + m) -> R]
    BY <1>7, <2>1
  <2> QED  BY <2>2 DEF R
<1>9. \A i \in 1..n : u[i].ip = table[i].ip
  BY <1>5, <1>7, TableRows
<1>10. \A k \in 1..m : u[n + k].ip = fresh[k]
  BY <1>6, <1>7
<1>11. \A k \in 1..m : ~Listed(table, u[n + k].ip)
  <2> TAKE k \in 1..m
  <2>1. fresh[k] \in F
    BY <1>3
  <2>2. ~HasRow(fresh[k])
    BY <2>1 DEF F
  <2> QED  BY <2>2, <1>10, HasRowIsListed
<1>12. table \in Seq(Row) /\ Distinct(table)
  BY TableIsDistinct DEF TypeOK
<1>13. \A k, l \in 1..m : u[n + k].ip = u[n + l].ip => k = l
  <2> TAKE k, l \in 1..m
  <2>1. u[n + k].ip = fresh[k] /\ u[n + l].ip = fresh[l]
    BY <1>10
  <2>2. fresh[k] = fresh[l] => k = l
    BY <1>3
  <2> QED  BY <2>1, <2>2
<1> QED  BY <1>3, <1>8, <1>9, <1>11, <1>12, <1>13, Extended DEF GoodTable

(* s has a row for every place of t, of the same address.                  *)
SameAddresses(t, s) ==
    s \in [DOMAIN t -> Row] /\ \A i \in DOMAIN t : s[i].ip = t[i].ip

PlacesOf(t, K) == K \subseteq DOMAIN t

(* The rows of x are not those of the places K, and are dead or new.       *)
Elsewhere(t, K, x) ==
    \A k \in DOMAIN x : /\ \A i \in K : x[k].ip # t[i].ip
                        /\ x[k].status = "dead" \/ ~Listed(t, x[k].ip)

Followed(s, K, x) == Select(s, K) \o x

(* A table some rows of which stay, as s writes them, while the rows of x  *)
(* come last.                                                              *)
LEMMA RowsMoved ==
    ASSUME NEW t \in Seq(Row), Distinct(t), NEW K, PlacesOf(t, K),
           NEW s, SameAddresses(t, s),
           NEW x \in Seq(Row), Elsewhere(t, K, x), Distinct(x),
           EvidenceMoved(t, K, x),
           NEW u, u = Followed(s, K, x)
    PROVE  /\ GoodTable(t, u)
           /\ \A i \in K : Listed(u, t[i].ip)
           /\ \A k \in DOMAIN x : Listed(u, x[k].ip)
           /\ \A p \in DOMAIN u : (\E i \in K : u[p] = s[i]) \/ (\E k \in DOMAIN x : u[p] = x[k])
<1> DEFINE R == Row
<1>0. K \in SUBSET DOMAIN t /\ s \in [DOMAIN t -> Row]
  BY DEF PlacesOf, SameAddresses
<1>1. K \in SUBSET Int /\ IsFiniteSet(K)
  <2>1. DOMAIN t = 1..Len(t) /\ Len(t) \in Nat
    OBVIOUS
  <2>2. IsFiniteSet(1..Len(t))
    BY <2>1, FS_Interval
  <2> QED  BY <1>0, <2>1, <2>2, FS_Subset
<1>2. PICK n : n = Cardinality(K)
  OBVIOUS
<1>3. PICK a : a = Select(s, K)
  OBVIOUS
<1>4. /\ n \in Nat /\ DOMAIN a = 1..n
      /\ \A k \in 1..n : \E i \in K : k = Rank(K, i) /\ a[k] = s[i]
      /\ \A i \in K : Rank(K, i) \in 1..n /\ a[Rank(K, i)] = s[i]
  BY <1>1, <1>2, <1>3, SelectKeeps
<1>5. a \in Seq(Row) /\ Len(a) = n
  <2>1. a \in [1..n -> Row]
    <3>1. a = [k \in 1..n |-> s[Nth(K, k)]]
      BY <1>2, <1>3 DEF Select
    <3>2. \A k \in 1..n : a[k] \in Row
      BY <1>0, <1>4
    <3> QED  BY <3>1, <3>2
  <2> QED  BY <1>4, <2>1, FunctionIsSeq
<1>6. PICK m : m = Len(x)
  OBVIOUS
<1>7. /\ u \in Seq(Row) /\ m \in Nat /\ Len(u) = n + m /\ DOMAIN x = 1..m
      /\ \A k \in 1..n : u[k] = a[k]
      /\ \A k \in 1..m : u[n + k] = x[k]
  <2>1. a \in Seq(R) /\ x \in Seq(R)
    BY <1>5
  <2> HIDE DEF R
  <2>2. /\ a \o x \in Seq(R) /\ Len(x) \in Nat /\ Len(a \o x) = Len(a) + Len(x)
        /\ \A i \in 1..Len(a) : (a \o x)[i] = a[i]
        /\ \A k \in 1..Len(x) : (a \o x)[Len(a) + k] = x[k]
    BY <2>1, Concatenated
  <2>3. DOMAIN x = 1..m
    BY <1>6, <2>1
  <2>4. u \in Seq(R)
    BY <1>3, <2>2 DEF Followed
  <2> QED  BY <1>3, <1>5, <1>6, <2>2, <2>3, <2>4 DEF R, Followed
<1>8. DOMAIN u = 1..(n + m)
  BY <1>7
<1>9. \A p \in 1..(n + m) : p \in 1..n \/ \E k \in 1..m : p = n + k
  <2> TAKE p \in 1..(n + m)
  <2>1. CASE p <= n
    BY <2>1
  <2>2. CASE p > n
    <3>1. p - n \in 1..m /\ p = n + (p - n)
      BY <2>2, <1>4, <1>7
    <3> QED  BY <3>1
  <2> QED  BY <2>1, <2>2, <1>4, <1>7
<1>10. \A p \in (n + 1)..(n + m) : \E k \in 1..m : p = n + k
  <2> TAKE p \in (n + 1)..(n + m)
  <2>1. p - n \in 1..m /\ p = n + (p - n)
    BY <1>4, <1>7
  <2> QED  BY <2>1
<1>11. \A k \in 1..m : n + k \in DOMAIN u /\ u[n + k].ip = x[k].ip
  BY <1>4, <1>7, <1>8
<1>12. \A k \in DOMAIN x : Listed(u, x[k].ip)
  BY <1>7, <1>11 DEF Listed
<1>13. \A p \in DOMAIN u : (\E i \in K : u[p] = s[i]) \/ (\E k \in DOMAIN x : u[p] = x[k])
  <2> TAKE p \in DOMAIN u
  <2>1. p \in 1..n \/ \E k \in 1..m : p = n + k
    BY <1>8, <1>9
  <2>2. CASE p \in 1..n
    <3>1. PICK i \in K : a[p] = s[i]
      BY <2>2, <1>4
    <3> QED  BY <2>2, <3>1, <1>7
  <2>3. CASE \E k \in 1..m : p = n + k
    <3>1. PICK k \in 1..m : p = n + k
      BY <2>3
    <3>2. k \in DOMAIN x /\ u[p] = x[k]
      BY <3>1, <1>7
    <3> QED  BY <3>2
  <2> QED  BY <2>1, <2>2, <2>3
<1>14. \A i \in K : u[Rank(K, i)].ip = t[i].ip
  <2> TAKE i \in K
  <2>1. PICK r : r = Rank(K, i)
    OBVIOUS
  <2>2. r \in 1..n /\ a[r] = s[i]
    BY <1>4, <2>1
  <2> QED  BY <1>0, <1>7, <2>1, <2>2 DEF SameAddresses
<1>15. \A p \in (n + 1)..(n + m) : \A i \in K : u[p].ip # t[i].ip
  <2> TAKE p \in (n + 1)..(n + m)
  <2> TAKE i \in K
  <2>1. PICK k \in 1..m : p = n + k
    BY <1>10
  <2>2. u[p].ip = x[k].ip /\ k \in DOMAIN x
    BY <2>1, <1>7, <1>11
  <2> QED  BY <2>2 DEF Elsewhere
<1>16. \A p, q \in (n + 1)..(n + m) : u[p].ip = u[q].ip => p = q
  <2> TAKE p, q \in (n + 1)..(n + m)
  <2>1. PICK k \in 1..m : p = n + k
    BY <1>10
  <2>2. PICK l \in 1..m : q = n + l
    BY <1>10
  <2>3. /\ k \in DOMAIN x /\ u[p].ip = x[k].ip
        /\ l \in DOMAIN x /\ u[q].ip = x[l].ip
    BY <2>1, <2>2, <1>7, <1>11
  <2>4. x[k].ip = x[l].ip => k = l
    BY <2>3 DEF Distinct
  <2> QED  BY <2>1, <2>2, <2>3, <2>4
<1>17. \A p \in (n + 1)..(n + m) : u[p].status = "dead" \/ ~Listed(t, u[p].ip)
  <2> TAKE p \in (n + 1)..(n + m)
  <2>1. PICK k \in 1..m : p = n + k
    BY <1>10
  <2>2. u[p] = x[k] /\ k \in DOMAIN x
    BY <2>1, <1>7
  <2> QED  BY <2>2 DEF Elsewhere
<1>18. EvidenceMoved(t, K, u)
  BY <1>12 DEF Listed, EvidenceMoved
<1>19. Behind(t, K, u, n)
  <2>1. \A p \in DOMAIN u : p > n => p \in (n + 1)..(n + m)
    BY <1>4, <1>7, <1>8
  <2> QED  BY <2>1, <1>15, <1>16, <1>17 DEF Behind
<1>20. Distinct(u) /\ OrderKept(t, u) /\ EvidenceKept(t, u) /\ \A i \in K : Listed(u, t[i].ip)
  <2>1. n <= Len(u) /\ u \in Seq(Row)
    BY <1>4, <1>7
  <2> QED  BY <1>0, <1>2, <1>14, <1>18, <1>19, <2>1, Rearranged
<1> QED  BY <1>7, <1>12, <1>13, <1>20 DEF GoodTable

-----------------------------------------------------------------------------
(* The actions that change the table.                                      *)

LEMMA InvTable ==
    ASSUME WatchInv
    PROVE  /\ TypeOK /\ OneRowPerHost /\ table \in Seq(Row) /\ Distinct(table)
           /\ phase = "watch" => NoneDeadWithLatency(table)
BY TableIsDistinct DEF WatchInv, TypeOK, DeadShowsNoLatency, NoneDeadWithLatency

LEMMA SweepApplyTable ==
    ASSUME WatchInv, SweepApply
    PROVE  /\ GoodTable(table, table') /\ RowsKept(table, table')
           /\ phase' = "watch" => NoneDeadWithLatency(table')
<1> DEFINE Met(r) == [r EXCEPT !.mac = @ \/ r.ip \in ARPHosts]
<1>1. PICK pings \in [Hosts -> Latency] :
        table' = [i \in DOMAIN table |->
                    IF pings[Met(table[i]).ip] >= 0
                    THEN Answered(Met(table[i]), pings[Met(table[i]).ip]) ELSE Met(table[i])]
  BY DEF SweepApply
<1>2. ASSUME NEW i \in DOMAIN table
      PROVE  /\ table'[i] \in Row /\ table'[i].ip = table[i].ip
             /\ table'[i].status = "dead" => /\ table[i].status = "dead"
                                             /\ table'[i].lat = table[i].lat
  <2>1. table[i] \in Row
    BY InvTable, TableRows
  <2>2. PICK b : b = (table[i].mac \/ table[i].ip \in ARPHosts)
    OBVIOUS
  <2>3. PICK r : r = Met(table[i])
    OBVIOUS
  <2>4. r = [table[i] EXCEPT !.mac = b] /\ b \in BOOLEAN
    BY <2>2, <2>3
  <2>5. r \in Row /\ r.ip = table[i].ip /\ r.status = table[i].status /\ r.lat = table[i].lat
    BY <2>1, <2>4 DEF Row
  <2>6. PICK lat : lat = pings[r.ip]
    OBVIOUS
  <2>7. lat \in Latency
    BY <2>5, <2>6, RowType
  <2>8. table'[i] = IF lat >= 0 THEN Answered(r, lat) ELSE r
    BY <1>1, <2>3, <2>6
  <2>9. CASE lat >= 0
    BY <2>5, <2>7, <2>8, <2>9, AnsweredRow
  <2>10. CASE ~(lat >= 0)
    BY <2>5, <2>8, <2>10
  <2> QED  BY <2>9, <2>10
<1>3. DOMAIN table' = DOMAIN table
  BY <1>1
<1>4. table' \in [DOMAIN table -> Row]
  <2>1. table' = [i \in DOMAIN table |-> table'[i]]
    BY <1>1
  <2> QED  BY <1>2, <2>1
<1>5. GoodTable(table, table') /\ RowsKept(table, table')
  BY <1>2, <1>4, InvTable, Rewritten
<1>6. phase' = phase
  BY DEF SweepApply
<1>7. phase' = "watch" => NoneDeadWithLatency(table')
  BY <1>2, <1>3, <1>6, InvTable DEF NoneDeadWithLatency
<1> QED  BY <1>5, <1>7

LEMMA SweepDiscoverTable ==
    ASSUME WatchInv, SweepDiscover
    PROVE  /\ GoodTable(table, table') /\ RowsKept(table, table')
           /\ phase' = "watch" => NoneDeadWithLatency(table')
<1>1. PICK d \in sweep.todo :
        \/ table' = table
        \/ /\ ~HasRow(d[1])
           /\ table' = Append(table, NewRow(d[1], IF d[2] >= 0 THEN "live" ELSE "", d[2]))
  BY DEF SweepDiscover
<1>2. phase' = phase
  BY DEF SweepDiscover
<1>3. CASE table' = table
  BY <1>2, <1>3, InvTable, SameTable
<1>4. CASE /\ ~HasRow(d[1])
           /\ table' = Append(table, NewRow(d[1], IF d[2] >= 0 THEN "live" ELSE "", d[2]))
  <2>1. d[1] \in Hosts /\ d[2] \in Latency
    <3>1. sweep.todo \in SUBSET (Hosts \X Latency)
      BY InvTable DEF TypeOK
    <3> QED  BY <3>1
  <2>2. PICK s : s = IF d[2] >= 0 THEN "live" ELSE ""
    OBVIOUS
  <2>3. s \in Status /\ s # "dead"
    BY <2>2 DEF Status
  <2>4. PICK r : r = NewRow(d[1], s, d[2])
    OBVIOUS
  <2>5. r \in Row /\ r.ip = d[1] /\ r.status = s
    BY <2>1, <2>3, <2>4, NewRowIsARow
  <2>6. table' = Append(table, r) /\ ~Listed(table, r.ip)
    BY <1>4, <2>2, <2>4, <2>5, HasRowIsListed
  <2>7. /\ GoodTable(table, table') /\ RowsKept(table, table')
        /\ \A i \in DOMAIN table' : table'[i] = r \/ (i \in DOMAIN table /\ table'[i] = table[i])
    BY <2>5, <2>6, InvTable, Appended
  <2> QED  BY <1>2, <2>3, <2>5, <2>7, InvTable DEF NoneDeadWithLatency
<1> QED  BY <1>1, <1>3, <1>4

LEMMA PlaceholderTable ==
    ASSUME WatchInv, NEW ip, (ip \in Hosts /\ PortOpen(ip)) \/ EnrichStart
    PROVE  /\ GoodTable(table, table') /\ RowsKept(table, table')
           /\ phase' # "watch"
<1>1. phase' # "watch"
  <2>1. scan.pc = "scanning"
    BY DEF PortOpen, EnrichStart
  <2>2. phase = "scanning"
    BY <2>1 DEF WatchInv, PhaseInStep, Idle
  <2> QED  BY <2>2 DEF PortOpen, EnrichStart
<1>2. CASE ip \in Hosts /\ PortOpen(ip)
  <2>1. PICK lat, best :
          /\ lat \in ReplyTimes(ip)
          /\ best = IF scanHosts[ip] < 0 \/ lat < scanHosts[ip] THEN lat ELSE scanHosts[ip]
          /\ scanHosts' = [scanHosts EXCEPT ![ip] = best]
          /\ table' = Placeholders({ip}, scanHosts')
    BY <1>2 DEF PortOpen
  <2>2. scanHosts \in [Hosts -> Latency]
    BY InvTable DEF TypeOK
  <2>3. best \in Latency
    BY <1>2, <2>1, <2>2 DEF Latency, ReplyTimes
  <2>4. scanHosts' \in [Hosts -> Latency]
    BY <1>2, <2>1, <2>2, <2>3
  <2> QED  BY <1>1, <1>2, <2>1, <2>4, InvTable, Placed
<1>3. CASE EnrichStart
  <2>1. PICK ips \in SUBSET Hosts : table' = Placeholders(ips, scanHosts)
    <3>1. PICK hits \in SUBSET (Discoverable \ gone) :
            table' = Placeholders({h \in Hosts : scanHosts[h] >= 0} \cup hits
                                  \cup (IF scan.arp THEN ARPHosts ELSE {}), scanHosts)
      BY <1>3 DEF EnrichStart
    <3>2. {h \in Hosts : scanHosts[h] >= 0} \cup hits
            \cup (IF scan.arp THEN ARPHosts ELSE {}) \in SUBSET Hosts
      BY WatchAssumption
    <3> QED  BY <3>1, <3>2
  <2>2. scanHosts \in [Hosts -> Latency]
    BY InvTable DEF TypeOK
  <2> QED  BY <1>1, <2>1, <2>2, InvTable, Placed
<1> QED  BY <1>2, <1>3

LEMMA DiscoverRejectTable ==
    ASSUME WatchInv, NEW ip \in Hosts, DiscoverReject(ip)
    PROVE  /\ GoodTable(table, table')
           /\ \A i \in DOMAIN table : table[i].ip # ip => Listed(table', table[i].ip)
           /\ \/ RowsKept(table, table') /\ misses' = misses
              \/ misses' = Forget(misses, ip)
           /\ phase' = "watch" => NoneDeadWithLatency(table')
<1>1. phase' = phase
  BY DEF DiscoverReject
<1>2. CASE HasRow(ip) /\ Removable(RowOf(ip))
  <2>1. PICK n : n = IndexOf(ip)
    OBVIOUS
  <2>2. n \in DOMAIN table /\ table[n].ip = ip
    BY <1>2, <2>1, InvTable, IndexOfRow
  <2>3. PICK K : K = DOMAIN table \ {n}
    OBVIOUS
  <2>4. table' = Select(table, K) /\ misses' = Forget(misses, ip)
    BY <1>2, <2>1, <2>3 DEF DiscoverReject
  <2>5. table' = Select(table, K) \o <<>>
    <3>1. K \in SUBSET Int /\ IsFiniteSet(K)
      <4>1. DOMAIN table = 1..Len(table) /\ Len(table) \in Nat /\ IsFiniteSet(1..Len(table))
        BY InvTable, TableRows, FS_Interval
      <4> QED  BY <4>1, <2>3, FS_Subset
    <3>2. PICK m : m = Cardinality(K)
      OBVIOUS
    <3>3. PICK a : a = Select(table, K)
      OBVIOUS
    <3>4. /\ m \in Nat /\ DOMAIN a = 1..m
          /\ \A k \in 1..m : \E i \in K : a[k] = table[i]
      BY <3>1, <3>2, <3>3, SelectKeeps
    <3>5. a \in [1..m -> Row]
      <4>1. a = [k \in 1..m |-> table[Nth(K, k)]]
        BY <3>2, <3>3 DEF Select
      <4>2. \A k \in 1..m : a[k] \in Row
        BY <3>4, <2>3, InvTable, TableRows
      <4> QED  BY <4>1, <4>2
    <3>6. a \in Seq(Row)
      BY <3>4, <3>5, FunctionIsSeq
    <3>7. a \o <<>> = a
      BY <3>6, ConcatEmptySeq
    <3> QED  BY <2>4, <3>3, <3>7
  <2>6. \A i \in DOMAIN table \ K : ~table[i].ports /\ ~table[i].mac
    BY <1>2, <2>1, <2>3 DEF Removable, RowOf
  <2>7. EvidenceMoved(table, K, <<>>)
    BY <2>6 DEF EvidenceMoved
  <2>8. PICK x : x = <<>>
    OBVIOUS
  <2>9. table \in [DOMAIN table -> Row] /\ K \in SUBSET DOMAIN table
    BY <2>3, InvTable, TableRows
  <2>10. /\ GoodTable(table, table')
         /\ \A i \in K : Listed(table', table[i].ip)
         /\ \A p \in DOMAIN table' : \E i \in K : table'[p] = table[i]
    <3>1. x \in Seq(Row) /\ DOMAIN x = {}
      BY <2>8
    <3>2. /\ Elsewhere(table, K, x) /\ Distinct(x)
          /\ SameAddresses(table, table) /\ PlacesOf(table, K)
      BY <2>9, <3>1 DEF Distinct, Elsewhere, SameAddresses, PlacesOf
    <3>3. EvidenceMoved(table, K, x) /\ table' = Followed(table, K, x)
      BY <2>5, <2>7, <2>8 DEF Followed
    <3>4. table \in Seq(Row) /\ Distinct(table)
      BY InvTable
    <3>5. PICK t, s, u : t = table /\ s = table /\ u = table'
      OBVIOUS
    <3>6. t \in Seq(Row) /\ Distinct(t) /\ PlacesOf(t, K) /\ SameAddresses(t, s)
      BY <3>2, <3>4, <3>5
    <3>7. /\ x \in Seq(Row) /\ Elsewhere(t, K, x) /\ Distinct(x) /\ EvidenceMoved(t, K, x)
          /\ u = Followed(s, K, x)
      BY <3>1, <3>2, <3>3, <3>5
    <3>8. /\ GoodTable(t, u)
          /\ \A i \in K : Listed(u, t[i].ip)
          /\ \A p \in DOMAIN u :
                (\E i \in K : u[p] = s[i]) \/ (\E k \in DOMAIN x : u[p] = x[k])
      BY <3>6, <3>7, RowsMoved
    <3> QED  BY <3>1, <3>5, <3>8
  <2>11. \A i \in DOMAIN table : table[i].ip # ip => i \in K
    BY <2>2, <2>3
  <2>12. phase' = "watch" => NoneDeadWithLatency(table')
    BY <1>1, <2>9, <2>10, InvTable DEF NoneDeadWithLatency
  <2> QED  BY <2>4, <2>10, <2>11, <2>12
<1>3. CASE ~(HasRow(ip) /\ Removable(RowOf(ip)))
  <2>1. table' = table /\ misses' = misses
    BY <1>3 DEF DiscoverReject
  <2>2. GoodTable(table, table') /\ RowsKept(table, table')
    BY <2>1, InvTable, SameTable
  <2> QED  BY <1>1, <2>1, <2>2, InvTable DEF RowsKept
<1> QED  BY <1>2, <1>3

(* What a ping, a port scan and enrichHost return is a row.                *)
LEMMA DiscoverAcceptTable ==
    ASSUME WatchInv, NEW ip \in Hosts, DiscoverAccept(ip)
    PROVE  /\ GoodTable(table, table') /\ RowsKept(table, table') /\ Listed(table', ip)
           /\ phase' = "watch" => NoneDeadWithLatency(table')
           /\ \E lat \in Latency : misses' = RecordPing(misses, ip, lat)
<1>1. PICK lat \in IF disc[ip].lat >= 0 THEN {disc[ip].lat} ELSE PingResult(ip) :
        /\ table' = Upsert(Enriched(ip, disc[ip].ports, disc[ip].arp, FALSE, lat))
        /\ misses' = RecordPing(misses, ip, lat)
  BY DEF DiscoverAccept
<1>2. disc[ip].lat \in Latency /\ disc[ip].ports \in BOOLEAN /\ disc[ip].arp \in BOOLEAN
  BY InvTable DEF TypeOK
<1>3. lat \in Latency
  BY <1>1, <1>2, InvTable, ReplyTypes
<1>4. PICK r : r = Enriched(ip, disc[ip].ports, disc[ip].arp, FALSE, lat)
  OBVIOUS
<1>5. r \in Row /\ r.ip = ip /\ r.status # "dead"
  <2>1. PICK ports \in BOOLEAN : ports = disc[ip].ports
    BY <1>2
  <2>2. PICK arp \in BOOLEAN : arp = disc[ip].arp
    BY <1>2
  <2>3. PICK hit \in BOOLEAN : hit = FALSE
    OBVIOUS
  <2>4. r = Enriched(ip, ports, arp, hit, lat)
    BY <1>4, <2>1, <2>2, <2>3
  <2> QED  BY <1>3, <2>4, EnrichedIsARow
<1>6. /\ GoodTable(table, table') /\ RowsKept(table, table') /\ Listed(table', ip)
      /\ \A i \in DOMAIN table' : table'[i] = r \/ (i \in DOMAIN table /\ table'[i] = table[i])
  BY <1>1, <1>4, <1>5, InvTable, Upserted
<1>7. phase' = phase
  BY DEF DiscoverAccept
<1>8. phase' = "watch" => NoneDeadWithLatency(table')
  BY <1>5, <1>6, <1>7, InvTable DEF NoneDeadWithLatency
<1> QED  BY <1>1, <1>3, <1>6, <1>8

LEMMA HostReadyTable ==
    ASSUME WatchInv, NEW ip \in Hosts, HostReady(ip)
    PROVE  /\ GoodTable(table, table') /\ RowsKept(table, table') /\ Listed(table', ip)
           /\ phase' # "watch"
           /\ \E lat \in Latency : misses' = RecordPing(misses, ip, lat)
           /\ \E r \in Row : /\ r.status # "dead"
                             /\ scan' = [scan EXCEPT !.ips = @ \ {ip}, !.results = @ \cup {r}]
<1>1. PICK lat, r :
        /\ lat \in PingResult(ip)
        /\ r = Enriched(ip, scanHosts[ip] >= 0, scan.arp, ip \in scan.hits, lat)
        /\ scan' = [scan EXCEPT !.ips = @ \ {ip}, !.results = @ \cup {r}]
        /\ table' = Upsert(r)
        /\ misses' = RecordPing(misses, ip, lat)
  BY DEF HostReady
<1>2. lat \in Latency
  BY <1>1, InvTable, ReplyTypes
<1>3. scan.arp \in BOOLEAN /\ (scanHosts[ip] >= 0) \in BOOLEAN /\ (ip \in scan.hits) \in BOOLEAN
  BY InvTable DEF TypeOK
<1>4. r \in Row /\ r.ip = ip /\ r.status # "dead"
  <2>1. PICK ports \in BOOLEAN : ports = (scanHosts[ip] >= 0)
    BY <1>3
  <2>2. PICK arp \in BOOLEAN : arp = scan.arp
    BY <1>3
  <2>3. PICK hit \in BOOLEAN : hit = (ip \in scan.hits)
    BY <1>3
  <2>4. r = Enriched(ip, ports, arp, hit, lat)
    BY <1>1, <2>1, <2>2, <2>3
  <2> QED  BY <1>2, <2>4, EnrichedIsARow
<1>5. GoodTable(table, table') /\ RowsKept(table, table') /\ Listed(table', ip)
  BY <1>1, <1>4, InvTable, Upserted
<1>6. phase' # "watch"
  <2>1. phase = "enriching" /\ phase' = phase
    BY DEF HostReady, WatchInv, PhaseInStep, Idle
  <2> QED  BY <2>1
<1> QED  BY <1>1, <1>2, <1>4, <1>5, <1>6

LEMMA MissedIsMore ==
    ASSUME NEW n \in Nat \cup {NoStats}
    PROVE  Missed(n) \in Nat /\ Missed(n) >= 1 /\ Missed(n) <= n + 2
           /\ (n # NoStats => Missed(n) = n + 1)
BY DEF Missed, NoStats

(* A sequence that lists a finite set, as SetToSeqs gives them.            *)
LEMMA ListsAll ==
    ASSUME NEW S, IsFiniteSet(S), NEW order \in SetToSeqs(S)
    PROVE  /\ Cardinality(S) \in Nat
           /\ order \in [1..Cardinality(S) -> S]
           /\ \A k, l \in 1..Cardinality(S) : order[k] = order[l] => k = l
           /\ \A e \in S : \E k \in 1..Cardinality(S) : order[k] = e
<1> DEFINE m == Cardinality(S)
<1>1. m \in Nat /\ IsFiniteSet(1..m) /\ Cardinality(1..m) = m
  BY FS_CardinalityType, FS_Interval
<1>2. order \in [1..m -> S] /\ \A k, l \in 1..m : k # l => order[k] # order[l]
  BY DEF SetToSeqs
<1>3. order \in Injection(1..m, S)
  BY <1>2 DEF Injection, IsInjective
<1>4. order \in Surjection(1..m, S)
  BY <1>1, <1>3, FS_Injection
<1>5. \A e \in S : \E k \in 1..m : order[k] = e
  BY <1>4 DEF Surjection
<1> QED  BY <1>1, <1>2, <1>5

LEMMA FastApplyTable ==
    ASSUME WatchInv, FastApply
    PROVE  /\ GoodTable(table, table') /\ RowsKept(table, table')
           /\ phase' = "watch" => NoneDeadWithLatency(table')
<1> DEFINE Count(pings, ip) == IF pings[ip] >= 0 THEN 0 ELSE Missed(misses[ip])
           Probed == {ip \in fast.suspects : HasRow(ip)}
           Dying(pings) == {ip \in Probed : Count(pings, ip) >= DeadAfter /\ RowOf(ip).status # "dead"}
           Updated(pings) == [i \in DOMAIN table |->
                                IF table[i].ip \in Dying(pings) THEN MarkDead(table[i])
                                ELSE IF table[i].ip \in Probed /\ pings[table[i].ip] >= 0
                                THEN Answered(table[i], pings[table[i].ip]) ELSE table[i]]
<1>1. PICK pings \in [fast.suspects -> Latency] :
        \E order \in SetToSeqs(Dying(pings)) :
           table' = Select(Updated(pings), {i \in DOMAIN table : table[i].ip \notin Dying(pings)})
                    \o [k \in DOMAIN order |-> Updated(pings)[IndexOf(order[k])]]
  BY DEF FastApply
<1>2. PICK dying : dying = Dying(pings)
  OBVIOUS
<1>3. PICK s : s = Updated(pings)
  OBVIOUS
<1>4. PICK order \in SetToSeqs(dying) :
        table' = Select(s, {i \in DOMAIN table : table[i].ip \notin dying})
                 \o [k \in DOMAIN order |-> s[IndexOf(order[k])]]
  <2> HIDE DEF Updated, Dying
  <2> QED  BY <1>1, <1>2, <1>3
<1>5. PICK K : K = {i \in DOMAIN table : table[i].ip \notin dying}
  OBVIOUS
<1>6. PICK m : m = Cardinality(dying)
  OBVIOUS
<1>7. /\ \A ip \in dying : HasRow(ip)
      /\ dying \in SUBSET Hosts /\ IsFiniteSet(dying)
  <2>1. fast.suspects \in SUBSET Hosts
    BY InvTable DEF TypeOK
  <2>2. dying \in SUBSET Hosts /\ \A ip \in dying : HasRow(ip)
    BY <1>2, <2>1
  <2> QED  BY <2>2, HostsAreNumbers, FS_Subset
<1>8. /\ m \in Nat /\ order \in [1..m -> dying]
      /\ \A k, l \in 1..m : order[k] = order[l] => k = l
      /\ \A ip \in dying : \E k \in 1..m : order[k] = ip
  BY <1>6, <1>7, ListsAll
<1>9. ASSUME NEW i \in DOMAIN table
      PROVE  /\ s[i] \in Row /\ s[i].ip = table[i].ip
             /\ table[i].ip \in dying => s[i].status = "dead"
             /\ s[i].status = "dead" => s[i].lat = -1 \/ s[i] = table[i]
  <2>1. table[i] \in Row
    BY InvTable, TableRows
  <2>2. CASE table[i].ip \in dying
    <3>1. s[i] = MarkDead(table[i])
      BY <1>2, <1>3, <2>2
    <3> QED  BY <2>1, <3>1, MarkDeadRow
  <2>3. CASE table[i].ip \notin dying /\ table[i].ip \in Probed /\ pings[table[i].ip] >= 0
    <3>1. PICK lat : lat = pings[table[i].ip]
      OBVIOUS
    <3>2. s[i] = Answered(table[i], lat) /\ lat \in Latency
      BY <1>2, <1>3, <2>3, <3>1
    <3> QED  BY <2>1, <2>3, <3>2, AnsweredRow
  <2>4. CASE table[i].ip \notin dying /\ ~(table[i].ip \in Probed /\ pings[table[i].ip] >= 0)
    <3>1. s[i] = table[i]
      BY <1>2, <1>3, <2>4
    <3> QED  BY <2>1, <2>4, <3>1
  <2> QED  BY <2>2, <2>3, <2>4
<1>10. s \in [DOMAIN table -> Row]
  <2>1. s = [i \in DOMAIN table |-> s[i]]
    BY <1>3
  <2> QED  BY <1>9, <2>1
<1>11. PICK x : x = [k \in DOMAIN order |-> s[IndexOf(order[k])]]
  OBVIOUS
<1>12. /\ DOMAIN x = 1..m /\ x \in Seq(Row)
       /\ \A k \in 1..m : /\ x[k].ip = order[k] /\ x[k].status = "dead"
                          /\ \E i \in DOMAIN table : x[k] = s[i]
  <2>1. ASSUME NEW k \in 1..m
        PROVE  /\ x[k] \in Row /\ x[k].ip = order[k] /\ x[k].status = "dead"
               /\ \E i \in DOMAIN table : x[k] = s[i]
    <3>1. PICK i : i = IndexOf(order[k])
      OBVIOUS
    <3>2. order[k] \in dying
      BY <1>8
    <3>3. i \in DOMAIN table /\ table[i].ip = order[k]
      BY <1>7, <3>1, <3>2, InvTable, IndexOfRow
    <3>4. x[k] = s[i]
      BY <1>8, <1>11, <3>1
    <3> QED  BY <1>9, <3>2, <3>3, <3>4
  <2>2. x = [k \in 1..m |-> x[k]]
    BY <1>8, <1>11
  <2>3. x \in [1..m -> Row]
    BY <2>1, <2>2
  <2> QED  BY <1>8, <2>1, <2>3, FunctionIsSeq
<1> HIDE DEF Updated, Dying, Probed, Count
<1>13. table' = Followed(s, K, x) /\ PlacesOf(table, K) /\ SameAddresses(table, s)
  BY <1>4, <1>5, <1>9, <1>10, <1>11 DEF Followed, PlacesOf, SameAddresses
<1>14. Elsewhere(table, K, x)
  <2>1. \A k \in DOMAIN x : \A i \in K : x[k].ip # table[i].ip
    BY <1>5, <1>8, <1>12
  <2> QED  BY <1>12, <2>1 DEF Elsewhere
<1>15. Distinct(x)
  BY <1>8, <1>12 DEF Distinct
<1>16. \A i \in DOMAIN table \ K : Listed(x, table[i].ip)
  <2> TAKE i \in DOMAIN table \ K
  <2>1. table[i].ip \in dying
    BY <1>5
  <2>2. PICK k \in 1..m : order[k] = table[i].ip
    BY <1>8, <2>1
  <2>3. k \in DOMAIN x /\ x[k].ip = table[i].ip
    BY <1>12, <2>2
  <2> QED  BY <2>3 DEF Listed
<1>17. EvidenceMoved(table, K, x)
  BY <1>16 DEF EvidenceMoved
<1>18. /\ GoodTable(table, table')
       /\ \A i \in K : Listed(table', table[i].ip)
       /\ \A k \in DOMAIN x : Listed(table', x[k].ip)
       /\ \A p \in DOMAIN table' :
             (\E i \in K : table'[p] = s[i]) \/ (\E k \in DOMAIN x : table'[p] = x[k])
  <2>1. PICK t, u : t = table /\ u = table'
    OBVIOUS
  <2>2. /\ t \in Seq(Row) /\ Distinct(t) /\ PlacesOf(t, K) /\ SameAddresses(t, s)
        /\ x \in Seq(Row) /\ Elsewhere(t, K, x) /\ Distinct(x) /\ EvidenceMoved(t, K, x)
        /\ u = Followed(s, K, x)
    BY <1>12, <1>13, <1>14, <1>15, <1>17, <2>1, InvTable
  <2>3. /\ GoodTable(t, u)
        /\ \A i \in K : Listed(u, t[i].ip)
        /\ \A k \in DOMAIN x : Listed(u, x[k].ip)
        /\ \A p \in DOMAIN u : (\E i \in K : u[p] = s[i]) \/ (\E k \in DOMAIN x : u[p] = x[k])
    BY <2>2, RowsMoved
  <2> QED  BY <2>1, <2>3
<1>19. RowsKept(table, table')
  <2> SUFFICES ASSUME NEW i \in DOMAIN table
               PROVE  Listed(table', table[i].ip)
    BY DEF RowsKept
  <2>1. CASE i \in K
    BY <2>1, <1>18
  <2>2. CASE i \notin K
    <3>1. PICK k \in DOMAIN x : x[k].ip = table[i].ip
      BY <2>2, <1>16 DEF Listed
    <3> QED  BY <3>1, <1>18
  <2> QED  BY <2>1, <2>2
<1>20. ASSUME phase' = "watch"
       PROVE  NoneDeadWithLatency(table')
  <2>1. NoneDeadWithLatency(table)
    BY <1>20, InvTable DEF FastApply
  <2>2. \A i \in DOMAIN table : s[i].status = "dead" => s[i].lat = -1
    BY <1>9, <2>1 DEF NoneDeadWithLatency
  <2>3. \A p \in DOMAIN table' : \E i \in DOMAIN table : table'[p] = s[i]
    BY <1>5, <1>12, <1>18
  <2> QED  BY <2>2, <2>3 DEF NoneDeadWithLatency
<1> QED  BY <1>18, <1>19, <1>20

LEMMA ApplyRescanTable ==
    ASSUME WatchInv, ApplyRescan
    PROVE  /\ GoodTable(table, table') /\ RowsKept(table, table')
           /\ NoneDeadWithLatency(table')
           /\ \A ip \in ResultIPs : Listed(table', ip)
<1>1. table' = Reconciled
  BY DEF ApplyRescan
<1>2. \A ip \in ResultIPs : /\ ip \in Hosts /\ ResultFor(ip) \in Row
                            /\ ResultFor(ip).ip = ip /\ ResultFor(ip).status # "dead"
  <2> TAKE ip \in ResultIPs
  <2>1. \E row \in scan.results : row.ip = ip
    BY DEF ResultIPs
  <2>2. PICK r : r = ResultFor(ip)
    OBVIOUS
  <2>3. r \in scan.results /\ r.ip = ip
    BY <2>1, <2>2 DEF ResultFor
  <2>4. scan.results \in SUBSET Row
    BY InvTable DEF TypeOK
  <2>5. r \in Row /\ r.status # "dead"
    BY <2>3, <2>4 DEF WatchInv, ResultsAreAlive
  <2> QED  BY <2>2, <2>3, <2>5, RowType
<1>3. PICK D : D = DOMAIN table
  OBVIOUS
<1>4. PICK K : K = {i \in DOMAIN table : table[i].ip \in ResultIPs}
  OBVIOUS
<1>5. PICK s : s = [i \in DOMAIN table |-> IF i \in K THEN ResultFor(table[i].ip)
                                                    ELSE MarkDead(table[i])]
  OBVIOUS
<1>6. PICK F : F = {ip \in ResultIPs : ~HasRow(ip)}
  OBVIOUS
<1>7. PICK fresh : fresh = InOrder(F)
  OBVIOUS
<1>8. PICK b : b = Select(s, D \ K)
  OBVIOUS
<1>9. PICK c : c = [k \in DOMAIN fresh |-> ResultFor(fresh[k])]
  OBVIOUS
<1>10. PICK a : a = Select(s, K)
  OBVIOUS
<1>11. table' = (a \o b) \o c
  BY <1>1, <1>3, <1>4, <1>5, <1>6, <1>7, <1>8, <1>9, <1>10 DEF Reconciled
<1>12. ASSUME NEW i \in D
       PROVE  /\ s[i] \in Row /\ s[i].ip = table[i].ip
              /\ i \notin K => s[i].status = "dead"
              /\ s[i].status = "dead" => s[i].lat = -1
  <2>1. table[i] \in Row
    BY <1>3, InvTable, TableRows
  <2>2. CASE i \in K
    <3>1. s[i] = ResultFor(table[i].ip) /\ table[i].ip \in ResultIPs
      BY <1>4, <1>5, <2>2
    <3> QED  BY <1>2, <2>2, <3>1
  <2>3. CASE i \notin K
    <3>1. s[i] = MarkDead(table[i])
      BY <1>3, <1>5, <2>3
    <3> QED  BY <2>1, <3>1, MarkDeadRow
  <2> QED  BY <2>2, <2>3
<1>13. s \in [D -> Row]
  <2>1. s = [i \in D |-> s[i]]
    BY <1>3, <1>5
  <2> QED  BY <1>12, <2>1
<1>14. /\ D \in SUBSET Int /\ IsFiniteSet(D) /\ K \in SUBSET D
       /\ K \in SUBSET Int /\ IsFiniteSet(K)
       /\ D \ K \in SUBSET Int /\ IsFiniteSet(D \ K)
  <2>1. D = 1..Len(table) /\ Len(table) \in Nat /\ IsFiniteSet(1..Len(table))
    BY <1>3, InvTable, TableRows, FS_Interval
  <2>2. K \in SUBSET D /\ D \ K \in SUBSET D
    BY <1>3, <1>4
  <2>3. D \in SUBSET Int /\ IsFiniteSet(D)
    BY <2>1
  <2>4. IsFiniteSet(K) /\ IsFiniteSet(D \ K)
    BY <2>2, <2>3, FS_Subset
  <2> QED  BY <2>2, <2>3, <2>4
<1>15. PICK nb : nb = Cardinality(D \ K)
  OBVIOUS
<1>16. /\ nb \in Nat /\ DOMAIN b = 1..nb
       /\ \A k \in 1..nb : \E i \in D \ K : k = Rank(D \ K, i) /\ b[k] = s[i]
       /\ \A i \in D \ K : Rank(D \ K, i) \in 1..nb /\ b[Rank(D \ K, i)] = s[i]
  <2>1. PICK S \in SUBSET Int : S = D \ K /\ IsFiniteSet(S)
    BY <1>14
  <2>2. /\ Cardinality(S) \in Nat
        /\ DOMAIN Select(s, S) = 1..Cardinality(S)
        /\ \A k \in 1..Cardinality(S) : \E i \in S : k = Rank(S, i) /\ Select(s, S)[k] = s[i]
        /\ \A i \in S : /\ Rank(S, i) \in 1..Cardinality(S)
                        /\ Select(s, S)[Rank(S, i)] = s[i]
    BY <2>1, SelectKeeps
  <2>3. nb = Cardinality(S) /\ b = Select(s, S)
    BY <1>8, <1>15, <2>1
  <2> QED  BY <2>1, <2>2, <2>3
<1>17. b \in Seq(Row) /\ Len(b) = nb
  <2>1. b = [k \in 1..nb |-> s[Nth(D \ K, k)]]
    BY <1>8, <1>15 DEF Select
  <2>2. \A k \in 1..nb : b[k] \in Row
    BY <1>12, <1>16
  <2>3. b \in [1..nb -> Row]
    BY <2>1, <2>2
  <2> QED  BY <1>16, <2>3, FunctionIsSeq
<1>18. a \in Seq(Row)
  <2>1. PICK na : na = Cardinality(K)
    OBVIOUS
  <2>2. /\ na \in Nat
        /\ \A k \in 1..na : \E i \in K : a[k] = s[i]
    BY <1>10, <1>14, <2>1, SelectKeeps
  <2>3. a = [k \in 1..na |-> s[Nth(K, k)]]
    BY <1>10, <2>1 DEF Select
  <2>4. \A k \in 1..na : a[k] \in Row
    BY <1>12, <1>14, <2>2
  <2>5. a \in [1..na -> Row]
    BY <2>3, <2>4
  <2> QED  BY <2>2, <2>5, FunctionIsSeq
<1>19. PICK m : m = Cardinality(F)
  OBVIOUS
<1>20. /\ F \in SUBSET Hosts /\ F \in SUBSET ResultIPs /\ \A ip \in F : ~HasRow(ip)
  BY <1>2, <1>6
<1>21. /\ m \in Nat /\ fresh \in [1..m -> F]
       /\ \A k, l \in 1..m : fresh[k] = fresh[l] => k = l
       /\ \A ip \in F : \E k \in 1..m : fresh[k] = ip
  <2>1. F \in SUBSET Int /\ IsFiniteSet(F)
    BY <1>20, HostsAreNumbers, FS_Subset
  <2> QED  BY <1>7, <1>19, <2>1, InOrderLists
<1>22. /\ c \in Seq(Row) /\ Len(c) = m /\ DOMAIN c = 1..m
       /\ \A k \in 1..m : c[k].ip = fresh[k] /\ c[k].status # "dead"
  <2>1. ASSUME NEW k \in 1..m
        PROVE  c[k] \in Row /\ c[k].ip = fresh[k] /\ c[k].status # "dead"
    <3>1. PICK ip : ip = fresh[k]
      OBVIOUS
    <3>2. ip \in ResultIPs /\ c[k] = ResultFor(ip)
      BY <1>9, <1>20, <1>21, <3>1
    <3> QED  BY <1>2, <3>1, <3>2
  <2>2. c = [k \in 1..m |-> c[k]]
    BY <1>9, <1>21
  <2>3. c \in [1..m -> Row]
    BY <2>1, <2>2
  <2>4. m \in Nat
    BY <1>21
  <2>5. c \in Seq(Row) /\ Len(c) = m /\ DOMAIN c = 1..m
    BY <2>3, <2>4, FunctionIsSeq
  <2> QED  BY <2>1, <2>5
<1>23. PICK x : x = b \o c
  OBVIOUS
<1>24. table' = Followed(s, K, x)
  <2>1. (a \o b) \o c = a \o x
    <3>1. PICK f \in Seq(Row), g \in Seq(Row), h \in Seq(Row) : f = a /\ g = b /\ h = c
      BY <1>17, <1>18, <1>22
    <3>2. (f \o g) \o h = f \o (g \o h)
      BY ConcatAssociative, SMTT(30)
    <3> QED  BY <1>23, <3>1, <3>2, Zenon
  <2> QED  BY <1>10, <1>11, <2>1 DEF Followed
<1>25. /\ x \in Seq(Row) /\ DOMAIN x = 1..(nb + m)
       /\ \A k \in 1..nb : x[k] = b[k]
       /\ \A k \in 1..m : x[nb + k] = c[k]
  <2> DEFINE R == Row
  <2>1. b \in Seq(R) /\ c \in Seq(R)
    BY <1>17, <1>22
  <2> HIDE DEF R
  <2>2. /\ b \o c \in Seq(R) /\ Len(b \o c) = Len(b) + Len(c)
        /\ \A i \in 1..Len(b) : (b \o c)[i] = b[i]
        /\ \A k \in 1..Len(c) : (b \o c)[Len(b) + k] = c[k]
    BY <2>1, Concatenated
  <2>3. x \in Seq(R)
    BY <1>23, <2>2
  <2>4. DOMAIN x = 1..Len(x)
    BY <2>3
  <2> QED  BY <1>17, <1>22, <1>23, <2>2, <2>3, <2>4 DEF R
<1>26. \A k \in DOMAIN x : k \in 1..nb \/ \E l \in 1..m : k = nb + l
  <2> TAKE k \in DOMAIN x
  <2>1. k \in 1..(nb + m)
    BY <1>25
  <2>2. CASE k <= nb
    BY <2>1, <2>2
  <2>3. CASE k > nb
    <3>1. k - nb \in 1..m /\ k = nb + (k - nb)
      BY <2>1, <2>3, <1>16, <1>21
    <3> QED  BY <3>1
  <2> QED  BY <2>1, <2>2, <2>3, <1>16
<1>27. \A k \in 1..nb : \E i \in D \ K :
          /\ k = Rank(D \ K, i) /\ x[k].ip = table[i].ip
          /\ x[k].status = "dead" /\ x[k].lat = -1
  <2> TAKE k \in 1..nb
  <2>1. PICK i \in D \ K : k = Rank(D \ K, i) /\ b[k] = s[i]
    BY <1>16
  <2>2. x[k] = s[i]
    BY <1>25, <2>1
  <2> QED  BY <1>12, <2>1, <2>2
<1>28. \A l \in 1..m : /\ x[nb + l].ip = fresh[l] /\ x[nb + l].status # "dead"
                       /\ ~Listed(table, x[nb + l].ip)
  <2> TAKE l \in 1..m
  <2>1. x[nb + l] = c[l]
    BY <1>25
  <2>2. ~HasRow(fresh[l])
    BY <1>20, <1>21
  <2> QED  BY <1>22, <2>1, <2>2, HasRowIsListed
<1>29. \A i \in D \ K : Listed(x, table[i].ip)
  <2> TAKE i \in D \ K
  <2>1. PICK r : r = Rank(D \ K, i)
    OBVIOUS
  <2>2. r \in 1..nb /\ b[r] = s[i]
    BY <1>16, <2>1
  <2>3. r \in DOMAIN x /\ x[r].ip = table[i].ip
    BY <1>12, <1>16, <1>21, <1>25, <2>2
  <2> QED  BY <2>3 DEF Listed
<1>30. Elsewhere(table, K, x)
  <2> SUFFICES ASSUME NEW k \in DOMAIN x
               PROVE  /\ \A i \in K : x[k].ip # table[i].ip
                      /\ x[k].status = "dead" \/ ~Listed(table, x[k].ip)
    BY DEF Elsewhere
  <2>1. CASE k \in 1..nb
    <3>1. PICK i \in D \ K : x[k].ip = table[i].ip /\ x[k].status = "dead"
      BY <1>27, <2>1
    <3>2. table[i].ip \notin ResultIPs /\ \A j \in K : table[j].ip \in ResultIPs
      BY <1>3, <1>4
    <3> QED  BY <3>1, <3>2
  <2>2. CASE \E l \in 1..m : k = nb + l
    <3>1. ~Listed(table, x[k].ip)
      BY <1>28, <2>2
    <3>2. \A i \in K : Listed(table, table[i].ip)
      BY <1>4 DEF Listed
    <3> QED  BY <3>1, <3>2
  <2> QED  BY <1>26, <2>1, <2>2
<1>31. Distinct(x)
  <2> SUFFICES ASSUME NEW k \in DOMAIN x, NEW j \in DOMAIN x, x[k].ip = x[j].ip
               PROVE  k = j
    BY DEF Distinct
  <2>1. \A k1 \in 1..nb : Listed(table, x[k1].ip)
    BY <1>3, <1>27 DEF Listed
  <2>2. CASE k \in 1..nb /\ j \in 1..nb
    <3>1. PICK i1 \in D \ K : k = Rank(D \ K, i1) /\ x[k].ip = table[i1].ip
      BY <1>27, <2>2
    <3>2. PICK i2 \in D \ K : j = Rank(D \ K, i2) /\ x[j].ip = table[i2].ip
      BY <1>27, <2>2
    <3>3. i1 = i2
      BY <1>3, <3>1, <3>2, InvTable DEF Distinct
    <3> QED  BY <3>1, <3>2, <3>3
  <2>3. CASE k \in 1..nb /\ \E l \in 1..m : j = nb + l
    BY <1>28, <2>1, <2>3
  <2>4. CASE j \in 1..nb /\ \E l \in 1..m : k = nb + l
    BY <1>28, <2>1, <2>4
  <2>5. CASE (\E l \in 1..m : k = nb + l) /\ (\E l \in 1..m : j = nb + l)
    <3>1. PICK l1 \in 1..m : k = nb + l1
      BY <2>5
    <3>2. PICK l2 \in 1..m : j = nb + l2
      BY <2>5
    <3>3. fresh[l1] = fresh[l2]
      BY <1>28, <3>1, <3>2
    <3> QED  BY <1>21, <3>1, <3>2, <3>3
  <2> QED  BY <1>26, <2>2, <2>3, <2>4, <2>5
<1>32. EvidenceMoved(table, K, x) /\ PlacesOf(table, K) /\ SameAddresses(table, s)
  BY <1>3, <1>12, <1>13, <1>14, <1>29 DEF EvidenceMoved, PlacesOf, SameAddresses
<1>33. /\ GoodTable(table, table')
       /\ \A i \in K : Listed(table', table[i].ip)
       /\ \A k \in DOMAIN x : Listed(table', x[k].ip)
       /\ \A p \in DOMAIN table' :
             (\E i \in K : table'[p] = s[i]) \/ (\E k \in DOMAIN x : table'[p] = x[k])
  <2>1. PICK t, u : t = table /\ u = table'
    OBVIOUS
  <2>2. /\ t \in Seq(Row) /\ Distinct(t) /\ PlacesOf(t, K) /\ SameAddresses(t, s)
        /\ x \in Seq(Row) /\ Elsewhere(t, K, x) /\ Distinct(x) /\ EvidenceMoved(t, K, x)
        /\ u = Followed(s, K, x)
    BY <1>24, <1>25, <1>30, <1>31, <1>32, <2>1, InvTable
  <2>3. /\ GoodTable(t, u)
        /\ \A i \in K : Listed(u, t[i].ip)
        /\ \A k \in DOMAIN x : Listed(u, x[k].ip)
        /\ \A p \in DOMAIN u : (\E i \in K : u[p] = s[i]) \/ (\E k \in DOMAIN x : u[p] = x[k])
    BY <2>2, RowsMoved
  <2> QED  BY <2>1, <2>3
<1>34. RowsKept(table, table')
  <2> SUFFICES ASSUME NEW i \in D
               PROVE  Listed(table', table[i].ip)
    BY <1>3 DEF RowsKept
  <2>1. CASE i \in K
    BY <2>1, <1>33
  <2>2. CASE i \notin K
    <3>1. PICK k \in DOMAIN x : x[k].ip = table[i].ip
      BY <2>2, <1>29 DEF Listed
    <3> QED  BY <3>1, <1>33
  <2> QED  BY <2>1, <2>2
<1>35. NoneDeadWithLatency(table')
  <2> SUFFICES ASSUME NEW p \in DOMAIN table', table'[p].status = "dead"
               PROVE  table'[p].lat = -1
    BY DEF NoneDeadWithLatency
  <2>1. CASE \E i \in K : table'[p] = s[i]
    BY <1>12, <1>14, <2>1
  <2>2. CASE \E k \in DOMAIN x : table'[p] = x[k]
    <3>1. PICK k \in DOMAIN x : table'[p] = x[k]
      BY <2>2
    <3>2. k \in 1..nb
      BY <1>26, <1>28, <3>1
    <3> QED  BY <1>27, <3>1, <3>2
  <2> QED  BY <1>33, <2>1, <2>2
<1>36. \A ip \in ResultIPs : Listed(table', ip)
  <2> TAKE ip \in ResultIPs
  <2>1. CASE HasRow(ip)
    BY <1>34, <2>1 DEF HasRow, RowsKept
  <2>2. CASE ~HasRow(ip)
    <3>1. PICK l \in 1..m : fresh[l] = ip
      BY <1>6, <1>21, <2>2
    <3>2. nb + l \in DOMAIN x /\ x[nb + l].ip = ip
      BY <1>16, <1>21, <1>25, <1>28, <3>1
    <3> QED  BY <1>33, <3>2
  <2> QED  BY <2>1, <2>2
<1> QED  BY <1>33, <1>34, <1>35, <1>36

(* Every other step leaves the table alone.                                *)
LEMMA TableStep ==
    ASSUME WatchInv, [Next]_vars
    PROVE  GoodTable(table, table') /\ (phase' = "watch" => NoneDeadWithLatency(table'))
<1> USE InvTable
<1>1. ASSUME table' = table, phase' = "watch" => phase = "watch"
      PROVE  GoodTable(table, table') /\ (phase' = "watch" => NoneDeadWithLatency(table'))
  BY <1>1, SameTable
<1>2. CASE Sweep
  <2>1. CASE SweepStart \/ SweepEnd
    BY <1>1, <2>1 DEF SweepStart, SweepEnd
  <2>2. CASE SweepApply
    BY <2>2, SweepApplyTable
  <2>3. CASE SweepDiscover
    BY <2>3, SweepDiscoverTable
  <2> QED  BY <1>2, <2>1, <2>2, <2>3 DEF Sweep
<1>3. CASE Fast
  BY <1>1, <1>3, FastApplyTable DEF Fast, FastStart
<1>4. CASE Rescan
  <2>1. ASSUME NEW ip \in Hosts, PortOpen(ip)
        PROVE  GoodTable(table, table') /\ (phase' = "watch" => NoneDeadWithLatency(table'))
    BY <2>1, PlaceholderTable
  <2>2. ASSUME NEW ip \in Hosts, HostReady(ip)
        PROVE  GoodTable(table, table') /\ (phase' = "watch" => NoneDeadWithLatency(table'))
    BY <2>2, HostReadyTable
  <2>3. CASE EnrichStart
    BY <2>3, PlaceholderTable
  <2>4. CASE ApplyRescan
    BY <2>4, ApplyRescanTable
  <2> QED  BY <1>4, <2>1, <2>2, <2>3, <2>4 DEF Rescan
<1>5. CASE Keys
  <2>1. CASE TriggerRescan
    BY <1>1, <2>1 DEF TriggerRescan
  <2>2. CASE ToggleAutoPing \/ ToggleAutoScan \/ ToggleARP
    BY <1>1, <2>2 DEF ToggleAutoPing, ToggleAutoScan, ToggleARP
  <2> QED  BY <1>5, <2>1, <2>2 DEF Keys, KeyRescan, TimerRescan
<1>6. ASSUME NEW ip \in Hosts, Discover(ip)
      PROVE  GoodTable(table, table') /\ (phase' = "watch" => NoneDeadWithLatency(table'))
  <2>1. CASE DiscoverAcquire(ip) \/ DiscoverKeep(ip) \/ DiscoverLeave(ip)
    BY <1>1, <2>1 DEF DiscoverAcquire, DiscoverKeep, DiscoverLeave
  <2>2. CASE DiscoverReject(ip)
    BY <2>2, DiscoverRejectTable
  <2>3. CASE DiscoverAccept(ip)
    BY <2>3, DiscoverAcceptTable
  <2> QED  BY <1>6, <2>1, <2>2, <2>3 DEF Discover
<1>7. ASSUME NEW ip \in Hosts, HostGone(ip)
      PROVE  GoodTable(table, table') /\ (phase' = "watch" => NoneDeadWithLatency(table'))
  BY <1>1, <1>7 DEF HostGone
<1>8. CASE UNCHANGED vars
  BY <1>1, <1>8 DEF vars
<1> QED  BY <1>2, <1>3, <1>4, <1>5, <1>6, <1>7, <1>8 DEF Next

-----------------------------------------------------------------------------
(* The statistics.                                                         *)

StatsType == misses \in [Hosts -> Nat \cup {NoStats}]
StatsParts == StatsType /\ MissesBounded /\ StatsHaveRows /\ SuspectsBelowLimit

LEMMA InvStats ==
    ASSUME WatchInv
    PROVE  /\ misses \in [Hosts -> Nat \cup {NoStats}]
           /\ \A ip \in Hosts : misses[ip] \in Int /\ misses[ip] <= DeadAfter
           /\ \A ip \in Hosts : misses[ip] # NoStats => Listed(table, ip)
           /\ fast.pc = "pinging" => \A ip \in fast.suspects : misses[ip] < DeadAfter
           /\ fast.suspects \in SUBSET Hosts
           /\ DeadAfter \in Nat /\ DeadAfter >= 2
BY WatchAssumption, HasRowIsListed
   DEF WatchInv, TypeOK, MissesBounded, StatsHaveRows, SuspectsBelowLimit, NoStats

LEMMA HasRowNext == \A ip : HasRow(ip)' <=> Listed(table', ip)
BY DEF HasRow, Listed

(* A count that stays, goes with its row, or is that of a listed address   *)
(* and below the limit.                                                    *)
LEMMA StatsFromCounts ==
    ASSUME WatchInv, fast' = fast,
           misses' \in [Hosts -> Nat \cup {NoStats}],
           \A ip \in Hosts :
              \/ misses'[ip] = misses[ip] /\ (Listed(table, ip) => Listed(table', ip))
              \/ misses'[ip] = NoStats
              \/ misses'[ip] < DeadAfter /\ Listed(table', ip)
    PROVE  StatsParts'
<1> USE InvStats
<1>1. MissesBounded'
  BY DEF MissesBounded, NoStats
<1>2. StatsHaveRows'
  BY HasRowNext DEF StatsHaveRows
<1>3. SuspectsBelowLimit'
  BY DEF SuspectsBelowLimit, NoStats
<1> QED  BY <1>1, <1>2, <1>3 DEF StatsParts, StatsType

LEMMA StatsKept ==
    ASSUME WatchInv, fast' = fast, misses' = misses, RowsKept(table, table')
    PROVE  StatsParts'
<1>1. \A ip \in Hosts : Listed(table, ip) => Listed(table', ip)
  BY DEF Listed, RowsKept
<1> QED  BY <1>1, InvStats, StatsFromCounts

LEMMA StatsRecorded ==
    ASSUME WatchInv, fast' = fast, RowsKept(table, table'),
           NEW ip \in Hosts, NEW lat \in Latency, Listed(table', ip),
           misses' = RecordPing(misses, ip, lat)
    PROVE  StatsParts'
<1>1. \A h \in Hosts : Listed(table, h) => Listed(table', h)
  BY DEF Listed, RowsKept
<1>2. misses' = misses \/ misses' = [misses EXCEPT ![ip] = 0]
  BY DEF RecordPing
<1>3. /\ misses' \in [Hosts -> Nat \cup {NoStats}]
      /\ \A h \in Hosts : misses'[h] = misses[h] \/ (h = ip /\ misses'[h] = 0)
  BY <1>2, InvStats
<1>4. 0 < DeadAfter
  BY InvStats
<1> QED  BY <1>1, <1>3, <1>4, StatsFromCounts

LEMMA SweepApplyStats ==
    ASSUME WatchInv, SweepApply
    PROVE  StatsParts'
<1>1. PICK pings \in [Hosts -> Latency] :
        misses' = [ip \in Hosts |->
                     IF ~HasRow(ip) THEN misses[ip]
                     ELSE IF pings[ip] >= 0 THEN 0
                     ELSE IF hostWasLive(RowOf(ip)) /\ SweepCounts(misses[ip])
                     THEN Missed(misses[ip])
                     ELSE misses[ip]]
  BY DEF SweepApply
<1>2. RowsKept(table, table') /\ fast' = fast
  BY SweepApplyTable DEF SweepApply
<1>3. ASSUME NEW ip \in Hosts
      PROVE  /\ misses'[ip] \in Nat \cup {NoStats}
             /\ \/ misses'[ip] = misses[ip] /\ (Listed(table, ip) => Listed(table', ip))
                \/ misses'[ip] < DeadAfter /\ Listed(table', ip)
  <2>1. Listed(table, ip) => Listed(table', ip)
    BY <1>2 DEF Listed, RowsKept
  <2>2. misses[ip] \in Nat \cup {NoStats}
    BY InvStats
  <2>3. CASE misses'[ip] = misses[ip]
    BY <2>1, <2>2, <2>3
  <2>4. CASE HasRow(ip) /\ misses'[ip] = 0
    BY <2>1, <2>4, HasRowIsListed, InvStats
  <2>5. CASE HasRow(ip) /\ SweepCounts(misses[ip]) /\ misses'[ip] = Missed(misses[ip])
    <3>1. misses'[ip] = 1
      BY <2>5 DEF SweepCounts, Missed, NoStats
    <3> QED  BY <2>1, <2>5, <3>1, HasRowIsListed, InvStats
  <2> QED  BY <1>1, <2>3, <2>4, <2>5
<1>4. misses' \in [Hosts -> Nat \cup {NoStats}]
  <2>1. misses' = [ip \in Hosts |-> misses'[ip]]
    BY <1>1
  <2> QED  BY <1>3, <2>1
<1> QED  BY <1>2, <1>3, <1>4, StatsFromCounts

LEMMA FastApplyStats ==
    ASSUME WatchInv, FastApply
    PROVE  StatsParts'
<1> DEFINE Probed == {ip \in fast.suspects : HasRow(ip)}
<1>1. PICK pings \in [fast.suspects -> Latency] :
        misses' = [ip \in Hosts |->
                     IF ip \in Probed
                     THEN IF pings[ip] >= 0 THEN 0 ELSE Missed(misses[ip]) ELSE misses[ip]]
  BY DEF FastApply
<1>2. RowsKept(table, table') /\ fast.pc = "pinging" /\ fast' = NoFast
  BY FastApplyTable DEF FastApply
<1>3. ASSUME NEW ip \in Hosts
      PROVE  /\ misses'[ip] \in Nat \cup {NoStats} /\ misses'[ip] <= DeadAfter
             /\ misses'[ip] # NoStats => Listed(table', ip)
  <2>1. Listed(table, ip) => Listed(table', ip)
    BY <1>2 DEF Listed, RowsKept
  <2>2. misses[ip] \in Nat \cup {NoStats}
    BY InvStats
  <2>3. CASE misses'[ip] = misses[ip]
    BY <2>1, <2>2, <2>3, InvStats
  <2>4. CASE HasRow(ip) /\ misses'[ip] = 0
    BY <2>1, <2>4, HasRowIsListed, InvStats
  <2>5. CASE ip \in Probed /\ misses'[ip] = Missed(misses[ip])
    <3>1. misses[ip] < DeadAfter
      BY <1>2, <2>5, InvStats
    <3>2. misses'[ip] \in Nat /\ misses'[ip] <= DeadAfter
      BY <2>2, <2>5, <3>1, InvStats DEF Missed, NoStats
    <3> QED  BY <2>1, <2>5, <3>2, HasRowIsListed
  <2> QED  BY <1>1, <2>3, <2>4, <2>5
<1>4. misses' \in [Hosts -> Nat \cup {NoStats}]
  <2>1. misses' = [ip \in Hosts |-> misses'[ip]]
    BY <1>1
  <2> QED  BY <1>3, <2>1
<1>5. StatsHaveRows' /\ MissesBounded'
  BY <1>3, HasRowNext DEF StatsHaveRows, MissesBounded
<1>6. SuspectsBelowLimit'
  BY <1>2 DEF SuspectsBelowLimit, NoFast, Idle
<1> QED  BY <1>4, <1>5, <1>6 DEF StatsParts, StatsType

LEMMA ApplyRescanStats ==
    ASSUME WatchInv, ApplyRescan
    PROVE  StatsParts'
<1>1. /\ misses' = [ip \in Hosts |->
                      IF ip \in ResultIPs /\ ResultFor(ip).lat >= 0 THEN 0 ELSE misses[ip]]
      /\ fast' = fast
  BY DEF ApplyRescan
<1>2. RowsKept(table, table') /\ \A ip \in ResultIPs : Listed(table', ip)
  BY ApplyRescanTable
<1>3. \A ip \in Hosts :
        \/ misses'[ip] = misses[ip] /\ (Listed(table, ip) => Listed(table', ip))
        \/ misses'[ip] = 0 /\ Listed(table', ip)
  BY <1>1, <1>2 DEF Listed, RowsKept
<1>4. misses' \in [Hosts -> Nat \cup {NoStats}]
  BY <1>1, InvStats
<1>5. 0 < DeadAfter
  BY InvStats
<1> QED  BY <1>1, <1>3, <1>4, <1>5, StatsFromCounts

LEMMA DiscoverRejectStats ==
    ASSUME WatchInv, NEW ip \in Hosts, DiscoverReject(ip)
    PROVE  StatsParts'
<1>1. fast' = fast
  BY DEF DiscoverReject
<1>2. /\ \A i \in DOMAIN table : table[i].ip # ip => Listed(table', table[i].ip)
      /\ \/ RowsKept(table, table') /\ misses' = misses
         \/ misses' = Forget(misses, ip)
  BY DiscoverRejectTable
<1>3. CASE RowsKept(table, table') /\ misses' = misses
  BY <1>1, <1>3, StatsKept
<1>4. CASE misses' = Forget(misses, ip)
  <2>1. \A h \in Hosts : h # ip => (Listed(table, h) => Listed(table', h))
    BY <1>2 DEF Listed
  <2>2. misses' = [misses EXCEPT ![ip] = NoStats]
    BY <1>4 DEF Forget
  <2>3. /\ misses' \in [Hosts -> Nat \cup {NoStats}]
        /\ \A h \in Hosts : IF h = ip THEN misses'[h] = NoStats ELSE misses'[h] = misses[h]
    BY <2>2, InvStats
  <2> QED  BY <1>1, <2>1, <2>3, StatsFromCounts
<1> QED  BY <1>2, <1>3, <1>4

LEMMA SweepDiscoverStats ==
    ASSUME WatchInv, SweepDiscover
    PROVE  StatsParts'
<1>1. PICK d \in sweep.todo :
        \/ UNCHANGED <<table, misses>>
        \/ /\ \E s : table' = Append(table, NewRow(d[1], s, d[2]))
           /\ misses' = RecordPing(misses, d[1], d[2])
  BY DEF SweepDiscover
<1>2. fast' = fast /\ RowsKept(table, table')
  BY SweepDiscoverTable DEF SweepDiscover
<1>3. CASE UNCHANGED <<table, misses>>
  BY <1>2, <1>3, StatsKept
<1>4. CASE /\ \E s : table' = Append(table, NewRow(d[1], s, d[2]))
           /\ misses' = RecordPing(misses, d[1], d[2])
  <2>1. d[1] \in Hosts /\ d[2] \in Latency
    <3>1. sweep.todo \in SUBSET (Hosts \X Latency)
      BY InvTable DEF TypeOK
    <3> QED  BY <3>1
  <2>2. Listed(table', d[1])
    <3>1. PICK s : table' = Append(table, NewRow(d[1], s, d[2]))
      BY <1>4
    <3>2. PICK r : r = NewRow(d[1], s, d[2])
      OBVIOUS
    <3>3. r.ip = d[1]
      BY <3>2 DEF NewRow
    <3>4. Len(table) + 1 \in DOMAIN table' /\ table'[Len(table) + 1] = r
      <4>1. DOMAIN table = 1..Len(table) /\ Len(table) \in Nat
        BY InvTable, TableRows
      <4> QED  BY <3>1, <3>2, <4>1
    <3> QED  BY <3>3, <3>4 DEF Listed
  <2> QED  BY <1>2, <1>4, <2>1, <2>2, StatsRecorded
<1> QED  BY <1>1, <1>3, <1>4

LEMMA StatsStep ==
    ASSUME WatchInv, [Next]_vars
    PROVE  StatsParts'
<1>1. ASSUME table' = table, misses' = misses, fast' = fast
      PROVE  StatsParts'
  BY <1>1, InvTable, SameTable, StatsKept
<1>2. CASE Sweep
  <2>1. CASE SweepStart \/ SweepEnd
    BY <1>1, <2>1 DEF SweepStart, SweepEnd
  <2> QED  BY <1>2, <2>1, SweepApplyStats, SweepDiscoverStats DEF Sweep
<1>3. CASE Fast
  <2>1. CASE FastStart
    <3>1. misses' = misses /\ table' = table /\ fast' = [pc |-> "pinging", suspects |-> Suspects]
      BY <2>1 DEF FastStart
    <3>2. MissesBounded' /\ StatsHaveRows' /\ StatsType'
      BY <3>1, InvStats, HasRowNext DEF MissesBounded, StatsHaveRows, StatsType
    <3>3. \A ip \in Suspects : ip \in Hosts /\ misses[ip] < DeadAfter
      BY InvStats DEF Suspects
    <3>4. SuspectsBelowLimit'
      BY <3>1, <3>3 DEF SuspectsBelowLimit
    <3> QED  BY <3>2, <3>4 DEF StatsParts
  <2>2. CASE FastApply
    BY <2>2, FastApplyStats
  <2> QED  BY <1>3, <2>1, <2>2 DEF Fast
<1>4. CASE Rescan
  <2>1. ASSUME NEW ip \in Hosts, PortOpen(ip)
        PROVE  StatsParts'
    <3>1. misses' = misses /\ fast' = fast
      BY <2>1 DEF PortOpen
    <3> QED  BY <2>1, <3>1, PlaceholderTable, StatsKept
  <2>2. ASSUME NEW ip \in Hosts, HostReady(ip)
        PROVE  StatsParts'
    <3>1. fast' = fast
      BY <2>2 DEF HostReady
    <3> QED  BY <2>2, <3>1, HostReadyTable, StatsRecorded
  <2>3. CASE EnrichStart
    <3>1. misses' = misses /\ fast' = fast
      BY <2>3 DEF EnrichStart
    <3> QED  BY <2>3, <3>1, PlaceholderTable, StatsKept
  <2>4. CASE ApplyRescan
    BY <2>4, ApplyRescanStats
  <2> QED  BY <1>4, <2>1, <2>2, <2>3, <2>4 DEF Rescan
<1>5. CASE Keys
  <2>1. CASE TriggerRescan
    BY <1>1, <2>1 DEF TriggerRescan
  <2>2. CASE ToggleAutoPing \/ ToggleAutoScan \/ ToggleARP
    BY <1>1, <2>2 DEF ToggleAutoPing, ToggleAutoScan, ToggleARP
  <2> QED  BY <1>5, <2>1, <2>2 DEF Keys, KeyRescan, TimerRescan
<1>6. ASSUME NEW ip \in Hosts, Discover(ip)
      PROVE  StatsParts'
  <2>1. CASE DiscoverAcquire(ip) \/ DiscoverKeep(ip) \/ DiscoverLeave(ip)
    BY <1>1, <2>1 DEF DiscoverAcquire, DiscoverKeep, DiscoverLeave
  <2>2. CASE DiscoverReject(ip)
    BY <2>2, DiscoverRejectStats
  <2>3. CASE DiscoverAccept(ip)
    <3>1. fast' = fast
      BY <2>3 DEF DiscoverAccept
    <3> QED  BY <2>3, <3>1, DiscoverAcceptTable, StatsRecorded
  <2> QED  BY <1>6, <2>1, <2>2, <2>3 DEF Discover
<1>7. ASSUME NEW ip \in Hosts, HostGone(ip)
      PROVE  StatsParts'
  BY <1>1, <1>7 DEF HostGone
<1>8. CASE UNCHANGED vars
  BY <1>1, <1>8 DEF vars
<1> QED  BY <1>2, <1>3, <1>4, <1>5, <1>6, <1>7, <1>8 DEF Next

-----------------------------------------------------------------------------
(* The loops, the rescan and the keys.                                     *)

SweepType == sweep \in [pc : {Idle, "pinging", "discovering"}, known : SUBSET Hosts,
                        arp : BOOLEAN, todo : SUBSET (Hosts \X Latency)]
FastType == fast \in [pc : {Idle, "pinging"}, suspects : SUBSET Hosts]
DiscState == [pc : {Idle, "queued", "scanning", "enriching", "leaving"},
              lat : Latency, arp : BOOLEAN, ports : BOOLEAN]
DiscType == disc \in [Hosts -> DiscState]
ScanType == scan \in [pc : {Idle, "scanning", "enriching"}, arp : BOOLEAN, hits : SUBSET Hosts,
                      ips : SUBSET Hosts, results : SUBSET Row, count : 0..MaxRescans]
FlagsType ==
    /\ phase \in {"watch", "scanning", "enriching"}
    /\ rescanning \in BOOLEAN /\ autoPing \in BOOLEAN /\ autoScan \in BOOLEAN
    /\ autoARP \in BOOLEAN /\ enrichARP \in BOOLEAN
    /\ gone \in SUBSET Hosts
    /\ scanHosts \in [Hosts -> Latency]

LEMMA TypeOKParts ==
    TypeOK <=> /\ table \in Seq(Row) /\ StatsType /\ FlagsType
               /\ SweepType /\ FastType /\ DiscType /\ ScanType
BY DEF TypeOK, StatsType, FlagsType, SweepType, FastType, DiscType, DiscState, ScanType

LEMMA SweepTypeStep ==
    ASSUME WatchInv, [Next]_vars
    PROVE  SweepType'
<1>1. SweepType /\ enrichARP \in BOOLEAN
  BY InvTable, TypeOKParts DEF FlagsType
<1>2. ASSUME sweep' = sweep
      PROVE  SweepType'
  BY <1>1, <1>2 DEF SweepType
<1>3. CASE SweepStart
  <2>1. PICK known : known = {table[i].ip : i \in DOMAIN table}
    OBVIOUS
  <2>2. \A ip \in known : ip \in Hosts
    BY <2>1, InvTable, TableRows
  <2>3. sweep' = [pc |-> "pinging", known |-> known, arp |-> enrichARP, todo |-> {}]
    BY <1>3, <2>1 DEF SweepStart
  <2> QED  BY <1>1, <2>2, <2>3 DEF SweepType
<1>4. CASE SweepApply
  <2>1. PICK pings \in [Hosts -> Latency] :
          sweep' = [sweep EXCEPT
                      !.pc = "discovering",
                      !.todo = {<<ip, pings[ip]>> : ip \in {h \in Hosts : pings[h] >= 0} \ sweep.known}
                               \cup (IF sweep.arp THEN (ARPHosts \ sweep.known) \X {-1} ELSE {})]
    BY <1>4 DEF SweepApply
  <2>2. PICK todo : todo = {<<ip, pings[ip]>> : ip \in {h \in Hosts : pings[h] >= 0} \ sweep.known}
                           \cup (IF sweep.arp THEN (ARPHosts \ sweep.known) \X {-1} ELSE {})
    OBVIOUS
  <2>3. todo \in SUBSET (Hosts \X Latency)
    <3>1. ARPHosts \subseteq Hosts /\ -1 \in Latency
      BY WatchAssumption, LatencyIsInt
    <3>2. \A ip \in {h \in Hosts : pings[h] >= 0} \ sweep.known : <<ip, pings[ip]>> \in Hosts \X Latency
      OBVIOUS
    <3>3. {<<ip, pings[ip]>> : ip \in {h \in Hosts : pings[h] >= 0} \ sweep.known}
             \subseteq Hosts \X Latency
      BY <3>2
    <3>4. (ARPHosts \ sweep.known) \X {-1} \subseteq Hosts \X Latency
      BY <3>1
    <3> QED  BY <2>2, <3>3, <3>4
  <2>4. sweep' = [sweep EXCEPT !.pc = "discovering", !.todo = todo]
    BY <2>1, <2>2
  <2> QED  BY <1>1, <2>3, <2>4 DEF SweepType
<1>5. CASE SweepDiscover
  <2>1. PICK d : sweep' = [sweep EXCEPT !.todo = @ \ {d}]
    BY <1>5 DEF SweepDiscover
  <2> QED  BY <1>1, <2>1 DEF SweepType
<1>6. CASE SweepEnd
  BY <1>6 DEF SweepEnd, SweepType, NoSweep, Idle
<1>7. CASE Fast
  BY <1>2, <1>7 DEF Fast, FastStart, FastApply
<1>8. CASE Rescan
  BY <1>2, <1>8 DEF Rescan, PortOpen, HostReady, EnrichStart, ApplyRescan
<1>9. CASE Keys
  BY <1>2, <1>9 DEF Keys, KeyRescan, TimerRescan, TriggerRescan,
                    ToggleAutoPing, ToggleAutoScan, ToggleARP
<1>10. ASSUME NEW ip \in Hosts, Discover(ip) \/ HostGone(ip)
       PROVE  SweepType'
  BY <1>2, <1>10 DEF Discover, DiscoverAcquire, DiscoverReject, DiscoverKeep, DiscoverAccept,
                     DiscoverLeave, HostGone
<1>11. CASE UNCHANGED vars
  BY <1>2, <1>11 DEF vars
<1> QED  BY <1>3, <1>4, <1>5, <1>6, <1>7, <1>8, <1>9, <1>10, <1>11 DEF Next, Sweep

LEMMA FastTypeStep ==
    ASSUME WatchInv, [Next]_vars
    PROVE  FastType'
<1>1. FastType
  BY InvTable, TypeOKParts
<1>2. ASSUME fast' = fast
      PROVE  FastType'
  BY <1>1, <1>2 DEF FastType
<1>3. CASE FastStart
  BY <1>3 DEF FastStart, FastType, Suspects
<1>4. CASE FastApply
  BY <1>4 DEF FastApply, FastType, NoFast
<1>5. CASE Sweep
  BY <1>2, <1>5 DEF Sweep, SweepStart, SweepApply, SweepDiscover, SweepEnd
<1>6. CASE Rescan
  BY <1>2, <1>6 DEF Rescan, PortOpen, HostReady, EnrichStart, ApplyRescan
<1>7. CASE Keys
  BY <1>2, <1>7 DEF Keys, KeyRescan, TimerRescan, TriggerRescan,
                    ToggleAutoPing, ToggleAutoScan, ToggleARP
<1>8. ASSUME NEW ip \in Hosts, Discover(ip) \/ HostGone(ip)
      PROVE  FastType'
  BY <1>2, <1>8 DEF Discover, DiscoverAcquire, DiscoverReject, DiscoverKeep, DiscoverAccept,
                    DiscoverLeave, HostGone
<1>9. CASE UNCHANGED vars
  BY <1>2, <1>9 DEF vars
<1> QED  BY <1>3, <1>4, <1>5, <1>6, <1>7, <1>8, <1>9 DEF Next, Fast

LEMMA DiscTypeStep ==
    ASSUME WatchInv, [Next]_vars
    PROVE  DiscType'
<1>1. DiscType /\ sweep.arp \in BOOLEAN /\ sweep.todo \in SUBSET (Hosts \X Latency)
  BY InvTable, TypeOKParts DEF SweepType
<1>2. ASSUME disc' = disc
      PROVE  DiscType'
  BY <1>1, <1>2 DEF DiscType
<1>3. ASSUME NEW ip \in Hosts, NEW d \in DiscState, disc' = [disc EXCEPT ![ip] = d]
      PROVE  DiscType'
  BY <1>1, <1>3 DEF DiscType
<1>4. NoDiscover \in DiscState
  BY LatencyIsInt DEF NoDiscover, DiscState, Idle
<1>5. CASE SweepDiscover
  <2>1. PICK e \in sweep.todo :
          \/ disc' = disc
          \/ disc' = [disc EXCEPT ![e[1]] =
                        [NoDiscover EXCEPT !.pc = "queued", !.lat = e[2], !.arp = sweep.arp]]
    BY <1>5 DEF SweepDiscover
  <2>2. e[1] \in Hosts /\ e[2] \in Latency
    BY <1>1, <2>1
  <2>3. [NoDiscover EXCEPT !.pc = "queued", !.lat = e[2], !.arp = sweep.arp] \in DiscState
    BY <1>1, <1>4, <2>2 DEF DiscState
  <2> QED  BY <1>2, <1>3, <2>1, <2>2, <2>3
<1>6. ASSUME NEW ip \in Hosts, Discover(ip)
      PROVE  DiscType'
  <2>1. disc[ip] \in DiscState
    BY <1>1 DEF DiscType
  <2>2. CASE DiscoverAcquire(ip)
    <3>1. disc' = [disc EXCEPT ![ip] = [disc[ip] EXCEPT !.pc = "scanning"]]
      BY <2>2 DEF DiscoverAcquire
    <3>2. [disc[ip] EXCEPT !.pc = "scanning"] \in DiscState
      BY <2>1 DEF DiscState
    <3> QED  BY <1>3, <3>1, <3>2
  <2>3. CASE DiscoverReject(ip) \/ DiscoverAccept(ip)
    <3>1. disc' = [disc EXCEPT ![ip] = [NoDiscover EXCEPT !.pc = "leaving"]]
      BY <2>3 DEF DiscoverReject, DiscoverAccept
    <3>2. [NoDiscover EXCEPT !.pc = "leaving"] \in DiscState
      BY <1>4 DEF DiscState
    <3> QED  BY <1>3, <3>1, <3>2
  <2>4. CASE DiscoverKeep(ip)
    <3>1. PICK ports \in OpenResult(ip) :
            disc' = [disc EXCEPT ![ip].pc = "enriching", ![ip].ports = ports]
      BY <2>4 DEF DiscoverKeep
    <3>2. ports \in BOOLEAN
      BY <3>1, InvTable, ReplyTypes
    <3>3. disc' = [disc EXCEPT ![ip] = [disc[ip] EXCEPT !.pc = "enriching", !.ports = ports]]
      BY <1>1, <2>1, <3>1 DEF DiscType, DiscState
    <3>4. [disc[ip] EXCEPT !.pc = "enriching", !.ports = ports] \in DiscState
      BY <2>1, <3>2 DEF DiscState
    <3> QED  BY <1>3, <3>3, <3>4
  <2>5. CASE DiscoverLeave(ip)
    BY <1>3, <1>4, <2>5 DEF DiscoverLeave
  <2> QED  BY <1>6, <2>2, <2>3, <2>4, <2>5 DEF Discover
<1>7. CASE SweepStart \/ SweepApply \/ SweepEnd
  BY <1>2, <1>7 DEF SweepStart, SweepApply, SweepEnd
<1>8. CASE Fast
  BY <1>2, <1>8 DEF Fast, FastStart, FastApply
<1>9. CASE Rescan
  BY <1>2, <1>9 DEF Rescan, PortOpen, HostReady, EnrichStart, ApplyRescan
<1>10. CASE Keys
  BY <1>2, <1>10 DEF Keys, KeyRescan, TimerRescan, TriggerRescan,
                     ToggleAutoPing, ToggleAutoScan, ToggleARP
<1>11. ASSUME NEW ip \in Hosts, HostGone(ip)
       PROVE  DiscType'
  BY <1>2, <1>11 DEF HostGone
<1>12. CASE UNCHANGED vars
  BY <1>2, <1>12 DEF vars
<1> QED  BY <1>5, <1>6, <1>7, <1>8, <1>9, <1>10, <1>11, <1>12 DEF Next, Sweep

(* What the rescan, the phase and the flag say of each other.              *)
RescanParts == ScanType /\ PhaseInStep /\ ResultsAreAlive

LEMMA InvRescan == WatchInv => RescanParts
BY TypeOKParts DEF WatchInv, RescanParts

LEMMA RescanStep ==
    ASSUME WatchInv, [Next]_vars
    PROVE  RescanParts'
<1>1. RescanParts /\ rescanning \in BOOLEAN /\ enrichARP \in BOOLEAN
  BY InvRescan, InvTable, TypeOKParts DEF FlagsType
<1>2. ASSUME UNCHANGED <<scan, phase, rescanning>>
      PROVE  RescanParts'
  BY <1>1, <1>2 DEF RescanParts, ScanType, PhaseInStep, ResultsAreAlive
<1>3. CASE TriggerRescan
  <2>1. PICK n : n = scan.count + 1
    OBVIOUS
  <2>2. n \in 0..MaxRescans
    BY <1>1, <1>3, <2>1, WatchAssumption DEF TriggerRescan, RescanParts, ScanType
  <2>3. scan' = [pc |-> "scanning", arp |-> enrichARP, hits |-> {}, ips |-> {},
                 results |-> {}, count |-> n]
    BY <1>3, <2>1 DEF TriggerRescan, NoScan
  <2>4. ScanType'
    BY <1>1, <2>2, <2>3 DEF ScanType
  <2>5. rescanning' = TRUE /\ phase' = "scanning"
    BY <1>3, Zenon DEF TriggerRescan
  <2>6. scan'.pc = "scanning" /\ scan'.results = {}
    BY <2>3
  <2> QED  BY <2>4, <2>5, <2>6 DEF RescanParts, PhaseInStep, ResultsAreAlive, Idle
<1>4. CASE EnrichStart
  <2>1. PICK hits \in SUBSET (Discoverable \ gone) :
          scan' = [scan EXCEPT !.pc = "enriching", !.hits = hits,
                               !.ips = {ip \in Hosts : scanHosts[ip] >= 0} \cup hits
                                       \cup (IF scan.arp THEN ARPHosts ELSE {})]
    BY <1>4 DEF EnrichStart
  <2>2. PICK ips : ips = {ip \in Hosts : scanHosts[ip] >= 0} \cup hits
                         \cup (IF scan.arp THEN ARPHosts ELSE {})
    OBVIOUS
  <2>3. hits \in SUBSET Hosts /\ ips \in SUBSET Hosts
    BY <2>1, <2>2, WatchAssumption
  <2>4. scan' = [scan EXCEPT !.pc = "enriching", !.hits = hits, !.ips = ips]
    BY <2>1, <2>2
  <2>5. ScanType' /\ scan'.pc = "enriching" /\ scan'.results = scan.results
    BY <1>1, <2>3, <2>4 DEF RescanParts, ScanType
  <2>6. phase' = "enriching" /\ rescanning' = rescanning /\ scan.pc = "scanning"
    BY <1>4 DEF EnrichStart
  <2> QED  BY <1>1, <2>5, <2>6 DEF RescanParts, PhaseInStep, ResultsAreAlive, Idle
<1>5. ASSUME NEW ip \in Hosts, HostReady(ip)
      PROVE  RescanParts'
  <2>1. PICK r \in Row : /\ r.status # "dead"
                         /\ scan' = [scan EXCEPT !.ips = @ \ {ip}, !.results = @ \cup {r}]
    BY <1>5, HostReadyTable
  <2>2. /\ ScanType' /\ scan'.pc = scan.pc
        /\ scan'.results = scan.results \cup {r}
    BY <1>1, <2>1 DEF RescanParts, ScanType
  <2>3. phase' = phase /\ rescanning' = rescanning
    BY <1>5 DEF HostReady
  <2> QED  BY <1>1, <2>1, <2>2, <2>3 DEF RescanParts, PhaseInStep, ResultsAreAlive
<1>6. CASE ApplyRescan
  <2>1. scan' = [pc |-> Idle, arp |-> FALSE, hits |-> {}, ips |-> {}, results |-> {},
                 count |-> scan.count]
    BY <1>6 DEF ApplyRescan, NoScan
  <2>2. ScanType' /\ scan'.pc = Idle /\ scan'.results = {}
    BY <1>1, <2>1 DEF RescanParts, ScanType
  <2>3. phase' = "watch" /\ rescanning' = FALSE
    BY <1>6 DEF ApplyRescan, ReturnToWatch
  <2> QED  BY <2>2, <2>3 DEF RescanParts, PhaseInStep, ResultsAreAlive
<1>7. ASSUME NEW ip \in Hosts, PortOpen(ip) \/ Discover(ip) \/ HostGone(ip)
      PROVE  RescanParts'
  BY <1>2, <1>7 DEF PortOpen, Discover, DiscoverAcquire, DiscoverReject, DiscoverKeep,
                    DiscoverAccept, DiscoverLeave, HostGone
<1>8. CASE Sweep
  BY <1>2, <1>8 DEF Sweep, SweepStart, SweepApply, SweepDiscover, SweepEnd
<1>9. CASE Fast
  BY <1>2, <1>9 DEF Fast, FastStart, FastApply
<1>10. CASE ToggleAutoPing \/ ToggleAutoScan \/ ToggleARP
  BY <1>2, <1>10 DEF ToggleAutoPing, ToggleAutoScan, ToggleARP
<1>11. CASE UNCHANGED vars
  BY <1>2, <1>11 DEF vars
<1> QED  BY <1>3, <1>4, <1>5, <1>6, <1>7, <1>8, <1>9, <1>10, <1>11
         DEF Next, Rescan, Keys, KeyRescan, TimerRescan

LEMMA FlagsTypeStep ==
    ASSUME WatchInv, [Next]_vars
    PROVE  FlagsType'
<1>1. FlagsType /\ scan.arp \in BOOLEAN
  BY InvTable, TypeOKParts DEF ScanType
<1>2. ASSUME UNCHANGED <<phase, rescanning, toggles, gone, scanHosts>>
      PROVE  FlagsType'
  BY <1>1, <1>2 DEF FlagsType, toggles
<1>3. CASE TriggerRescan
  BY <1>1, <1>3, LatencyIsInt DEF TriggerRescan, FlagsType, toggles
<1>4. CASE EnrichStart
  BY <1>1, <1>4 DEF EnrichStart, FlagsType
<1>5. CASE ApplyRescan
  BY <1>1, <1>5 DEF ApplyRescan, ReturnToWatch, FlagsType, toggles
<1>6. CASE ToggleAutoPing \/ ToggleAutoScan \/ ToggleARP
  BY <1>1, <1>6 DEF ToggleAutoPing, ToggleAutoScan, ToggleARP, FlagsType
<1>7. ASSUME NEW ip \in Hosts, PortOpen(ip)
      PROVE  FlagsType'
  <2>1. PICK lat, best :
          /\ lat \in ReplyTimes(ip)
          /\ best = IF scanHosts[ip] < 0 \/ lat < scanHosts[ip] THEN lat ELSE scanHosts[ip]
          /\ scanHosts' = [scanHosts EXCEPT ![ip] = best]
    BY <1>7 DEF PortOpen
  <2>2. best \in Latency
    BY <1>1, <2>1 DEF Latency, ReplyTimes, FlagsType
  <2>3. scanHosts' \in [Hosts -> Latency]
    BY <1>1, <2>1, <2>2 DEF FlagsType
  <2> QED  BY <1>1, <1>7, <2>3 DEF PortOpen, FlagsType, toggles
<1>8. ASSUME NEW ip \in Hosts, HostReady(ip) \/ Discover(ip)
      PROVE  FlagsType'
  BY <1>2, <1>8 DEF HostReady, Discover, DiscoverAcquire, DiscoverReject, DiscoverKeep,
                    DiscoverAccept, DiscoverLeave
<1>9. ASSUME NEW ip \in Hosts, HostGone(ip)
      PROVE  FlagsType'
  <2>1. gone' \in SUBSET Hosts
    BY <1>1, <1>9 DEF HostGone, FlagsType
  <2> QED  BY <1>1, <1>9, <2>1 DEF HostGone, FlagsType, toggles
<1>10. CASE Sweep
  BY <1>2, <1>10 DEF Sweep, SweepStart, SweepApply, SweepDiscover, SweepEnd
<1>11. CASE Fast
  BY <1>2, <1>11 DEF Fast, FastStart, FastApply
<1>12. CASE UNCHANGED vars
  BY <1>2, <1>12 DEF vars
<1> QED  BY <1>3, <1>4, <1>5, <1>6, <1>7, <1>8, <1>9, <1>10, <1>11, <1>12
         DEF Next, Rescan, Keys, KeyRescan, TimerRescan

(* Every step keeps the inductive invariant.                               *)
LEMMA WatchStep ==
    ASSUME WatchInv, [Next]_vars
    PROVE  WatchInv'
<1>1. table' \in Seq(Row) /\ Distinct(table') /\ (phase' = "watch" => NoneDeadWithLatency(table'))
  BY TableStep DEF GoodTable
<1>2. StatsType' /\ MissesBounded' /\ StatsHaveRows' /\ SuspectsBelowLimit'
  BY StatsStep DEF StatsParts
<1>3. ScanType' /\ PhaseInStep' /\ ResultsAreAlive'
  BY RescanStep DEF RescanParts
<1>4. SweepType' /\ FastType' /\ DiscType' /\ FlagsType'
  BY SweepTypeStep, FastTypeStep, DiscTypeStep, FlagsTypeStep
<1>5. TypeOK'
  BY <1>1, <1>2, <1>3, <1>4
     DEF TypeOK, StatsType, FlagsType, SweepType, FastType, DiscType, DiscState, ScanType
<1>6. OneRowPerHost' /\ DeadShowsNoLatency'
  BY <1>1 DEF OneRowPerHost, Distinct, DeadShowsNoLatency, NoneDeadWithLatency
<1> QED  BY <1>2, <1>3, <1>5, <1>6 DEF WatchInv

(* The table Finish leaves: one row for each of some addresses.            *)
LEMMA InitTable ==
    ASSUME Init
    PROVE  /\ table \in Seq(Row) /\ Distinct(table)
           /\ \A i \in DOMAIN table : table[i].status # "dead"
<1>1. PICK present \in SUBSET Hosts :
        /\ table \in [1..Cardinality(present) -> UNION {ScanRows(ip, ARPDead) : ip \in present}]
        /\ \A i \in DOMAIN table : table[i].ip = InOrder(present)[i]
  BY DEF Init
<1>2. \A r \in UNION {ScanRows(ip, ARPDead) : ip \in present} : r \in Row /\ r.status # "dead"
  <2> TAKE r \in UNION {ScanRows(ip, ARPDead) : ip \in present}
  <2>1. PICK ip \in present : r \in ScanRows(ip, ARPDead)
    OBVIOUS
  <2>2. PICK ports \in OpenResult(ip), hit \in {h \in BOOLEAN : h => ip \in Discoverable},
             lat \in PingResult(ip) : r = Enriched(ip, ports, ARPDead, hit, lat)
    BY <2>1 DEF ScanRows
  <2>3. ports \in BOOLEAN /\ hit \in BOOLEAN /\ lat \in Latency /\ ip \in Hosts /\ ARPDead \in BOOLEAN
    BY <2>2, ReplyTypes, WatchAssumption
  <2> QED  BY <2>2, <2>3, EnrichedIsARow
<1>3. IsFiniteSet(present) /\ present \in SUBSET Int
  BY HostsAreNumbers, FS_Subset
<1>4. PICK n : n = Cardinality(present)
  OBVIOUS
<1>5. n \in Nat /\ \A k, l \in 1..n : InOrder(present)[k] = InOrder(present)[l] => k = l
  BY <1>3, <1>4, InOrderLists
<1>6. DOMAIN table = 1..n /\ table \in [1..n -> Row]
  BY <1>1, <1>2, <1>4
<1>7. table \in Seq(Row)
  BY <1>5, <1>6, FunctionIsSeq
<1>8. Distinct(table)
  BY <1>1, <1>5, <1>6 DEF Distinct
<1>9. \A i \in DOMAIN table : table[i].status # "dead"
  BY <1>1, <1>2
<1> QED  BY <1>7, <1>8, <1>9

LEMMA InitInv == Init => WatchInv
<1> SUFFICES ASSUME Init
             PROVE  WatchInv
  OBVIOUS
<1> USE WatchAssumption
<1>1. /\ table \in Seq(Row) /\ Distinct(table)
      /\ \A i \in DOMAIN table : table[i].status # "dead"
  BY InitTable
<1>2. /\ misses \in [Hosts -> Nat \cup {NoStats}]
      /\ \A ip \in Hosts : misses[ip] = 0 \/ misses[ip] = NoStats
      /\ \A ip \in Hosts : misses[ip] # NoStats => HasRow(ip)
  BY DEF Init, HasRow, NoStats
<1>3. MissesBounded /\ StatsHaveRows /\ StatsType
  BY <1>2 DEF MissesBounded, StatsHaveRows, StatsType, NoStats
<1>4. SweepType /\ FastType
  BY DEF Init, SweepType, FastType, NoSweep, NoFast
<1>5. DiscType
  BY LatencyIsInt DEF Init, DiscType, DiscState, NoDiscover
<1>6. ScanType /\ PhaseInStep /\ ResultsAreAlive
  <2>1. /\ scan = [pc |-> Idle, arp |-> FALSE, hits |-> {}, ips |-> {}, results |-> {}, count |-> 0]
        /\ phase = "watch" /\ rescanning = FALSE
    BY DEF Init, NoScan
  <2>2. ScanType
    BY <2>1 DEF ScanType
  <2>3. scan.pc = Idle /\ scan.results = {}
    BY <2>1
  <2> QED  BY <2>1, <2>2, <2>3 DEF PhaseInStep, ResultsAreAlive
<1>7. FlagsType
  BY LatencyIsInt DEF Init, FlagsType
<1>8. SuspectsBelowLimit
  BY DEF Init, SuspectsBelowLimit, NoFast, Idle
<1>9. OneRowPerHost /\ DeadShowsNoLatency
  BY <1>1, TableIsDistinct DEF DeadShowsNoLatency
<1>10. TypeOK
  BY <1>1, <1>3, <1>4, <1>5, <1>6, <1>7, TypeOKParts
<1> QED  BY <1>3, <1>6, <1>8, <1>9, <1>10 DEF WatchInv

-----------------------------------------------------------------------------
(* The theorems.                                                           *)

(* The table, the statistics and the loops stay consistent (WatchInv),     *)
(* whatever the order in which the critical sections of src/tui.go run.    *)
THEOREM WatchInvariant == Spec => []WatchInv
BY InitInv, WatchStep, PTL DEF Spec

(* No address is ever listed twice.                                        *)
THEOREM NoDuplicateRow == Spec => []OneRowPerHost
BY WatchInvariant, PTL DEF WatchInv

(* The sweep and fastLoop together never count a miss beyond the limit.    *)
THEOREM MissesStayBounded == Spec => []MissesBounded
BY WatchInvariant, PTL DEF WatchInv

(* No probe brings back the statistics of a row that was removed.          *)
THEOREM StatsFollowRows == Spec => []StatsHaveRows
BY WatchInvariant, PTL DEF WatchInv

(* In the watch phase no dead row shows a latency.                         *)
THEOREM DeadRowsShowNoLatency == Spec => []DeadShowsNoLatency
BY WatchInvariant, PTL DEF WatchInv

(* A row with open ports or a MAC is never taken off the table.            *)
THEOREM EvidenceIsKept == Spec => EvidenceStays
<1>1. ASSUME WatchInv, [Next]_vars, NEW ip \in Hosts,
             HasRow(ip), RowOf(ip).ports \/ RowOf(ip).mac
      PROVE  HasRow(ip)'
  <2>1. EvidenceKept(table, table')
    BY <1>1, TableStep DEF GoodTable
  <2>2. PICK n : n = IndexOf(ip)
    OBVIOUS
  <2>3. n \in DOMAIN table /\ table[n].ip = ip
    BY <1>1, <2>2, IndexOfRow, InvTable
  <2>4. table[n].ports \/ table[n].mac
    BY <1>1, <2>2 DEF RowOf
  <2>5. Listed(table', ip)
    BY <2>1, <2>3, <2>4 DEF EvidenceKept
  <2> QED  BY <2>5, HasRowNext
<1>2. WatchInv /\ [Next]_vars =>
        [\A ip \in Hosts : HasRow(ip) /\ (RowOf(ip).ports \/ RowOf(ip).mac) => HasRow(ip)']_vars
  BY <1>1
<1> QED  BY <1>2, WatchInvariant, PTL DEF Spec, EvidenceStays

(* A row sinks below another only by dying.                                *)
THEOREM OrderOnScreen == Spec => RowsKeepTheirOrder
<1>1. (TypeOK /\ OneRowPerHost =>
         \A ip : HasRow(ip) => /\ IndexOf(ip) \in DOMAIN table
                               /\ table[IndexOf(ip)].ip = ip
                               /\ \A i \in DOMAIN table : table[i].ip = ip => i = IndexOf(ip))'
  BY IndexOfRow, PTL
<1>2. ASSUME WatchInv, [Next]_vars, NEW a \in Hosts, NEW b \in Hosts, Above(a, b), Above(b, a)'
      PROVE  RowOf(a)'.status = "dead"
  <2>1. OrderKept(table, table') /\ WatchInv'
    BY <1>2, TableStep, WatchStep DEF GoodTable
  <2>2. PICK i, k : i = IndexOf(a) /\ k = IndexOf(b)
    OBVIOUS
  <2>3. i \in DOMAIN table /\ k \in DOMAIN table /\ table[i].ip = a /\ table[k].ip = b /\ i < k
    BY <1>2, <2>2, IndexOfRow, InvTable DEF Above
  <2>4. PICK p, q : p = IndexOf(a)' /\ q = IndexOf(b)'
    OBVIOUS
  <2>5. TypeOK' /\ OneRowPerHost'
    BY <2>1 DEF WatchInv
  <2>6. HasRow(a)' /\ HasRow(b)' /\ q < p
    BY <1>2, <2>4 DEF Above
  <2>7. p \in DOMAIN table' /\ q \in DOMAIN table' /\ table'[p].ip = a /\ table'[q].ip = b
    BY <1>1, <2>4, <2>5, <2>6
  <2>8. table'[p].status = "dead"
    BY <2>1, <2>3, <2>6, <2>7 DEF OrderKept
  <2> QED  BY <2>4, <2>8 DEF RowOf
<1>3. WatchInv /\ [Next]_vars =>
        [\A a, b \in Hosts : Above(a, b) /\ Above(b, a)' => RowOf(a)'.status = "dead"]_vars
  BY <1>2
<1> QED  BY <1>3, WatchInvariant, PTL DEF Spec, RowsKeepTheirOrder
=============================================================================
