---------------------------- MODULE TargetsProofs ----------------------------
(***************************************************************************)
(* Proofs about Targets, for every width of an address, every prefix       *)
(* length, chunk size and port limit, and every command line.  The first   *)
(* part is about numbers and sequences, the second about networks, the     *)
(* third about the steps of run and of the sweeps.                         *)
(***************************************************************************)
EXTENDS Targets, SequenceTheorems, FiniteSetTheorems, TLAPS

-----------------------------------------------------------------------------
(* Numbers and sequences.                                                  *)

(* Induction over the numbers, for a set of them.                          *)
LEMMA Upward ==
    ASSUME NEW S \in SUBSET Nat, 0 \in S, \A n \in S : n + 1 \in S
    PROVE  \A n \in Nat : n \in S
<1> DEFINE T == {0..n : n \in Nat \ S}
           R == StrictSubsetOrdering(Nat)
<1>1. SUFFICES ASSUME T # {} PROVE FALSE
  <2>1. ASSUME NEW n \in Nat, n \notin S PROVE FALSE
    <3>1. 0..n \in T
      BY <2>1
    <3> QED  BY <1>1, <3>1
  <2> QED  BY <2>1
<1>2. IsWellFoundedOn(R, FiniteSubsetsOf(Nat))
  BY FS_StrictSubsetOrderingWellFounded
<1>3. T \subseteq FiniteSubsetsOf(Nat)
  <2>1. \A n \in Nat : IsFiniteSet(0..n) /\ 0..n \subseteq Nat
    BY FS_Interval
  <2> QED  BY <2>1 DEF FiniteSubsetsOf
<1>4. PICK x \in T : \A y \in T : <<y, x>> \notin R
  <2> HIDE DEF T, R
  <2> QED  BY <1>1, <1>2, <1>3, WFMin
<1>5. PICK m \in Nat \ S : x = 0..m
  OBVIOUS
<1>6. m - 1 \in Nat \ S
  OBVIOUS
<1>7. 0..(m - 1) \in T
  BY <1>6
<1>8. 0..(m - 1) \subseteq 0..m /\ 0..(m - 1) # 0..m /\ 0..m \in SUBSET Nat /\ 0..(m - 1) \in SUBSET Nat
  <2>1. m \in 0..m /\ m \notin 0..(m - 1)
    OBVIOUS
  <2> QED  BY <2>1
<1>9. <<0..(m - 1), x>> \in R
  BY <1>5, <1>8 DEF StrictSubsetOrdering
<1> QED  BY <1>4, <1>7, <1>9

LEMMA DivIs ==
    ASSUME NEW a \in Nat, NEW s \in Nat \ {0}
    PROVE  a \div s \in Nat /\ (a \div s) * s <= a /\ a < (a \div s) * s + s
OBVIOUS

LEMMA DivUnique ==
    ASSUME NEW a \in Nat, NEW s \in Nat \ {0}, NEW q \in Nat, q * s <= a, a < q * s + s
    PROVE  a \div s = q
<1>1. PICK d \in Nat : d = a \div s
  BY DivIs
<1>2. d * s <= a /\ a < d * s + s
  BY DivIs, <1>1
<1>3. ~(d < q)
  <2> SUFFICES ASSUME d + 1 <= q PROVE FALSE
    OBVIOUS
  <2>1. (d + 1) * s <= q * s
    OBVIOUS
  <2> QED  BY <1>2, <2>1
<1>4. ~(q < d)
  <2> SUFFICES ASSUME q + 1 <= d PROVE FALSE
    OBVIOUS
  <2>1. (q + 1) * s <= d * s
    OBVIOUS
  <2> QED  BY <1>2, <2>1
<1> QED  BY <1>1, <1>3, <1>4

LEMMA ModIs ==
    ASSUME NEW a \in Nat, NEW s \in Nat \ {0}
    PROVE  (a < s => a % s = a) /\ (a = s => a % s = 0)
OBVIOUS

LEMMA MaxPortIs == MaxPort \in Nat \ {0} /\ ChunkSize \in Nat \ {0}
BY TargetsAssumption

(* Add appends what is not there yet.                                      *)
LEMMA AddIs ==
    ASSUME NEW S, NEW s \in Seq(S), NEW x \in S
    PROVE  /\ Add(s, x) \in Seq(S)
           /\ ToSet(Add(s, x)) = ToSet(s) \cup {x}
           /\ Distinct(s) => Distinct(Add(s, x))
<1>1. CASE \E i \in DOMAIN s : s[i] = x
  BY <1>1 DEF Add, ToSet
<1>2. CASE ~ \E i \in DOMAIN s : s[i] = x
  <2>1. PICK t \in Seq(S) : t = Append(s, x) /\ t = Add(s, x)
    <3>1. Append(s, x) \in Seq(S)
      BY AppendProperties
    <3>2. Add(s, x) = Append(s, x)
      BY <1>2 DEF Add
    <3> QED  BY <3>1, <3>2
  <2>2. /\ Len(t) = Len(s) + 1 /\ t[Len(s) + 1] = x /\ \A i \in 1..Len(s) : t[i] = s[i]
        /\ DOMAIN t = 1..(Len(s) + 1) /\ DOMAIN s = 1..Len(s) /\ Len(s) \in Nat
    <3>1. Len(s) \in Nat /\ DOMAIN s = 1..Len(s) /\ DOMAIN t = 1..Len(t)
      BY <2>1, LenProperties
    <3>2. Len(t) = Len(s) + 1 /\ t[Len(s) + 1] = x
      <4>1. Len(Append(s, x)) = Len(s) + 1 /\ Append(s, x)[Len(s) + 1] = x
        BY AppendProperties
      <4> QED  BY <2>1, <4>1, Zenon
    <3>3. \A i \in 1..Len(s) : t[i] = s[i]
      <4>1. \A i \in 1..Len(s) : Append(s, x)[i] = s[i]
        BY AppendProperties
      <4> QED  BY <2>1, <4>1, Zenon
    <3> QED  BY <3>1, <3>2, <3>3
  <2>3. ToSet(t) = ToSet(s) \cup {x}
    BY <2>2 DEF ToSet
  <2>4. Distinct(s) => Distinct(t)
    BY <1>2, <2>2 DEF Distinct
  <2> QED  BY <2>1, <2>3, <2>4
<1> QED  BY <1>1, <1>2

(* A list of n numbers, all different, can be sorted.                      *)
Sortable == {n \in Nat :
    \A s \in [1..n -> Nat] : Distinct(s) =>
        \E t \in [1..n -> ToSet(s)] : /\ ToSet(t) = ToSet(s)
                                      /\ \A i, j \in 1..n : i < j => t[i] < t[j]}
HasGreatest == {n \in Nat : \A s \in [1..(n + 1) -> Nat] :
                              \E m \in 1..(n + 1) : \A i \in 1..(n + 1) : s[i] <= s[m]}

LEMMA GreatestExists ==
    \A n \in Nat : n \in HasGreatest
<1>1. HasGreatest \in SUBSET Nat
  BY DEF HasGreatest
<1>2. 0 \in HasGreatest
  BY DEF HasGreatest
<1>3. ASSUME NEW n \in HasGreatest
      PROVE  n + 1 \in HasGreatest
  <2>1. n \in Nat /\ n + 1 \in Nat
    BY DEF HasGreatest
  <2>2. ASSUME NEW s \in [1..(n + 2) -> Nat]
        PROVE  \E m \in 1..(n + 2) : \A i \in 1..(n + 2) : s[i] <= s[m]
    <3>1. PICK r \in [1..(n + 1) -> Nat] : \A i \in 1..(n + 1) : r[i] = s[i]
      <4>1. [i \in 1..(n + 1) |-> s[i]] \in [1..(n + 1) -> Nat]
        BY <2>1
      <4> QED  BY <4>1
    <3>2. PICK m \in 1..(n + 1) : \A i \in 1..(n + 1) : r[i] <= r[m]
      BY DEF HasGreatest
    <3>3. m \in 1..(n + 2) /\ n + 2 \in 1..(n + 2)
          /\ \A i \in 1..(n + 2) : i \in 1..(n + 1) \/ i = n + 2
      BY <2>1, <3>2
    <3>4. \A i \in 1..(n + 1) : s[i] <= s[m]
      BY <3>1, <3>2
    <3>5. s[m] \in Nat /\ s[n + 2] \in Nat /\ \A i \in 1..(n + 2) : s[i] \in Nat
      BY <3>3
    <3>8. s[n + 2] <= s[m] \/ s[m] <= s[n + 2]
      BY <3>5
    <3>6. CASE s[n + 2] <= s[m]
      BY <3>3, <3>4, <3>6
    <3>7. CASE s[m] <= s[n + 2]
      <4>1. \A i \in 1..(n + 2) : s[i] <= s[n + 2]
        BY <3>3, <3>4, <3>5, <3>7
      <4> QED  BY <3>3, <4>1
    <3> QED  BY <3>6, <3>7, <3>8
  <2>3. (n + 1) + 1 = n + 2
    BY <2>1
  <2> QED  BY <2>1, <2>2, <2>3 DEF HasGreatest
<1> QED  BY <1>1, <1>2, <1>3, Upward


LEMMA SortExists ==
    \A n \in Nat : n \in Sortable
<1>1. Sortable \in SUBSET Nat
  BY DEF Sortable
<1>2. 0 \in Sortable
  <2>1. ASSUME NEW s \in [1..0 -> Nat]
        PROVE  \E t \in [1..0 -> ToSet(s)] : /\ ToSet(t) = ToSet(s)
                                             /\ \A i, j \in 1..0 : i < j => t[i] < t[j]
    <3>1. s \in [1..0 -> ToSet(s)] /\ \A i \in 1..0 : FALSE
      BY DEF ToSet
    <3> QED  BY <3>1
  <2> QED  BY <2>1 DEF Sortable
<1>3. ASSUME NEW n \in Sortable
      PROVE  n + 1 \in Sortable
  <2>1. n \in Nat /\ n + 1 \in Nat
    BY DEF Sortable
  <2>2. ASSUME NEW s \in [1..(n + 1) -> Nat], Distinct(s)
        PROVE  \E t \in [1..(n + 1) -> ToSet(s)] :
                  /\ ToSet(t) = ToSet(s)
                  /\ \A i, j \in 1..(n + 1) : i < j => t[i] < t[j]
    <3>1. PICK m \in 1..(n + 1) : \A i \in 1..(n + 1) : s[i] <= s[m]
      BY <2>1, GreatestExists DEF HasGreatest
    <3>2. DOMAIN s = 1..(n + 1) /\ (\A i \in 1..n : i \in 1..(n + 1)) /\ n + 1 \in 1..(n + 1)
          /\ \A i \in 1..(n + 1) : i \in 1..n \/ i = n + 1
      BY <2>1
    <3>3. \A i \in 1..(n + 1) : s[i] \in Nat
      OBVIOUS
    <3>4. \A i \in 1..(n + 1) : i # m => s[i] < s[m]
      BY <2>2, <3>1, <3>2, <3>3 DEF Distinct
    <3>5. PICK r \in [1..n -> Nat] : \A i \in 1..n : r[i] = IF i = m THEN s[n + 1] ELSE s[i]
      <4>1. [i \in 1..n |-> IF i = m THEN s[n + 1] ELSE s[i]] \in [1..n -> Nat]
        BY <3>2, <3>3
      <4> QED  BY <4>1
    <3>6. DOMAIN r = 1..n /\ \A i \in 1..n : i # n + 1
      BY <2>1
    <3>7. Distinct(r)
      BY <2>2, <3>2, <3>5, <3>6 DEF Distinct
    <3>8. ToSet(r) = ToSet(s) \ {s[m]}
      <4>1. \A i \in 1..n : r[i] \in ToSet(s) /\ r[i] # s[m]
        <5> SUFFICES ASSUME NEW i \in 1..n PROVE r[i] \in ToSet(s) /\ r[i] # s[m]
          OBVIOUS
        <5>1. CASE i = m
          BY <2>2, <3>2, <3>5, <3>6, <5>1 DEF Distinct, ToSet
        <5>2. CASE i # m
          BY <2>2, <3>2, <3>5, <3>6, <5>2 DEF Distinct, ToSet
        <5> QED  BY <5>1, <5>2
      <4>2. \A i \in 1..(n + 1) : s[i] # s[m] => \E j \in 1..n : r[j] = s[i]
        <5> SUFFICES ASSUME NEW i \in 1..(n + 1), s[i] # s[m] PROVE \E j \in 1..n : r[j] = s[i]
          OBVIOUS
        <5>1. CASE i \in 1..n
          BY <3>5, <5>1
        <5>2. CASE i = n + 1
          <6>1. m \in 1..n
            BY <3>2, <5>2
          <6> QED  BY <3>5, <5>2, <6>1
        <5> QED  BY <3>2, <5>1, <5>2
      <4> QED  BY <3>2, <3>6, <4>1, <4>2 DEF ToSet
    <3>9. PICK t \in [1..n -> ToSet(r)] : /\ ToSet(t) = ToSet(r)
                                          /\ \A i, j \in 1..n : i < j => t[i] < t[j]
      BY <3>7 DEF Sortable
    <3>10. PICK u \in [1..(n + 1) -> ToSet(s)] :
              u[n + 1] = s[m] /\ \A i \in 1..n : u[i] = t[i]
      <4>1. [i \in 1..(n + 1) |-> IF i = n + 1 THEN s[m] ELSE t[i]] \in [1..(n + 1) -> ToSet(s)]
        <5>1. s[m] \in ToSet(s)
          BY <3>2 DEF ToSet
        <5> QED  BY <3>2, <3>8, <5>1
      <4> QED  BY <3>2, <3>6, <4>1
    <3>11. ToSet(u) = ToSet(s)
      <4>1. \A y \in ToSet(s) : y # s[m] => \E i \in 1..n : t[i] = y
        BY <3>8, <3>9 DEF ToSet
      <4> QED  BY <3>2, <3>10, <4>1 DEF ToSet
    <3>12. \A i \in 1..n : u[i] \in Nat /\ u[i] < s[m]
      <4> SUFFICES ASSUME NEW i \in 1..n PROVE u[i] \in Nat /\ u[i] < s[m]
        OBVIOUS
      <4>1. u[i] \in ToSet(s) /\ u[i] # s[m]
        BY <3>8, <3>9, <3>10
      <4>2. PICK j \in 1..(n + 1) : u[i] = s[j]
        BY <3>2, <4>1 DEF ToSet
      <4> QED  BY <3>3, <3>4, <4>1, <4>2
    <3>13. ASSUME NEW i \in 1..(n + 1), NEW j \in 1..(n + 1), i < j
           PROVE  u[i] < u[j]
      <4>1. i \in 1..n
        BY <2>1, <3>13
      <4>2. CASE j = n + 1
        BY <3>10, <3>12, <4>1, <4>2
      <4>3. CASE j \in 1..n
        BY <3>9, <3>10, <3>13, <4>1, <4>3
      <4> QED  BY <3>2, <4>2, <4>3
    <3> QED  BY <3>11, <3>13
  <2> QED  BY <2>1, <2>2 DEF Sortable
<1> QED  BY <1>1, <1>2, <1>3, Upward

(* Sorting the ports keeps them, and leaves them different and in range.   *)
LEMMA SortedIs ==
    ASSUME NEW s \in Seq(1..MaxPort), Distinct(s)
    PROVE  Sorted(s) \in Seq(1..MaxPort) /\ ToSet(Sorted(s)) = ToSet(s) /\ Distinct(Sorted(s))
<1>1. PICK n \in Nat : n = Len(s) /\ DOMAIN s = 1..n
  BY LenProperties
<1>2. s \in [1..n -> Nat] /\ ToSet(s) \subseteq 1..MaxPort
  BY <1>1, MaxPortIs, ElementOfSeq DEF ToSet
<1>3. \E t \in [DOMAIN s -> ToSet(s)] : /\ ToSet(t) = ToSet(s)
                                        /\ \A i, j \in DOMAIN s : i < j => t[i] < t[j]
  BY <1>1, <1>2, SortExists DEF Sortable
<1>4. PICK t \in [1..n -> ToSet(s)] : /\ t = Sorted(s) /\ ToSet(t) = ToSet(s)
                                      /\ \A i, j \in 1..n : i < j => t[i] < t[j]
  BY <1>1, <1>3 DEF Sorted
<1>5. t \in Seq(1..MaxPort)
  <2>1. t \in [1..n -> 1..MaxPort]
    BY <1>2
  <2> QED  BY <2>1, SeqDef
<1>6. Distinct(t)
  <2>1. \A i \in 1..n : t[i] \in Nat
    BY <1>2
  <2> QED  BY <1>4, <2>1 DEF Distinct
<1> QED  BY <1>4, <1>5, <1>6


-----------------------------------------------------------------------------
(* Networks.                                                               *)

LEMMA LengthsAre ==
    /\ Bits \in Nat
    /\ \A len \in 0..Bits : Sizes[len] \in Nat
    /\ Sizes[Bits] = 1
    /\ \A len \in 0..Bits : len + 1 \in 0..Bits => Sizes[len] = 2 * Sizes[len + 1]
<1>1. Bits \in Nat /\ Sizes \in [0..Bits -> Nat] /\ Sizes[Bits] = 1
  BY TargetsAssumption
<1>2. \A len \in 1..Bits : Sizes[len - 1] = 2 * Sizes[len]
  BY TargetsAssumption
<1>3. ASSUME NEW len \in 0..Bits, len + 1 \in 0..Bits
      PROVE  Sizes[len] = 2 * Sizes[len + 1]
  <2>1. len + 1 \in 1..Bits /\ (len + 1) - 1 = len
    BY <1>1, <1>3
  <2> QED  BY <1>2, <2>1
<1> QED  BY <1>1, <1>3

LEMMA PrefixesAre ==
    /\ MinPrefix \in Nat \ {0} /\ tuiMaxPrefix \in Nat /\ tuiWarnPrefix \in Nat
    /\ MinPrefix <= tuiMaxPrefix /\ tuiMaxPrefix <= tuiWarnPrefix /\ tuiWarnPrefix <= Bits
BY TargetsAssumption

(* No network is empty.                                                    *)
LEMMA SizePositive ==
    \A len \in 0..Bits : Sizes[len] >= 1
<1> DEFINE S == {n \in Nat : n <= Bits => Sizes[Bits - n] >= 1}
<1>1. 0 \in S
  <2>1. Bits - 0 = Bits
    BY LengthsAre
  <2> QED  BY <2>1, LengthsAre
<1>2. ASSUME NEW n \in S, n + 1 <= Bits
      PROVE  Sizes[Bits - (n + 1)] >= 1
  <2>1. PICK len \in 0..Bits : len = Bits - (n + 1) /\ len + 1 = Bits - n /\ len + 1 \in 0..Bits
    BY <1>2, LengthsAre
  <2>2. Sizes[len + 1] \in Nat /\ Sizes[len + 1] >= 1
    BY <1>2, <2>1, LengthsAre
  <2>3. Sizes[len] = 2 * Sizes[len + 1]
    BY <2>1, LengthsAre
  <2> QED  BY <2>1, <2>2, <2>3
<1>3. \A n \in Nat : n \in S
  <2>1. S \in SUBSET Nat /\ \A n \in S : n + 1 \in S
    BY <1>2
  <2> HIDE DEF S
  <2> QED  BY <1>1, <2>1, Upward
<1>4. ASSUME NEW len \in 0..Bits PROVE Sizes[len] >= 1
  <2>1. PICK n \in Nat : n = Bits - len /\ n <= Bits /\ Bits - n = len
    BY LengthsAre
  <2>2. n \in S
    BY <1>3
  <2> QED  BY <2>1, <2>2
<1> QED  BY <1>4

(* A longer prefix is a smaller network.                                   *)
LEMMA LongerIsSmaller ==
    \A a, b \in 0..Bits : a < b => Sizes[b] < Sizes[a]
<1> SUFFICES ASSUME NEW a \in 0..Bits PROVE \A b \in 0..Bits : a < b => Sizes[b] < Sizes[a]
  OBVIOUS
<1> DEFINE S == {d \in Nat : a + d + 1 <= Bits => Sizes[a + d + 1] < Sizes[a]}
<1>1. 0 \in S
  <2>1. SUFFICES ASSUME a + 1 <= Bits PROVE Sizes[a + 1] < Sizes[a]
    BY LengthsAre
  <2>2. a + 1 \in 0..Bits /\ Sizes[a] = 2 * Sizes[a + 1]
    BY <2>1, LengthsAre
  <2>3. Sizes[a + 1] \in Nat /\ Sizes[a + 1] >= 1
    BY <2>2, LengthsAre, SizePositive
  <2> QED  BY <2>2, <2>3
<1>2. ASSUME NEW d \in S, a + (d + 1) + 1 <= Bits
      PROVE  Sizes[a + (d + 1) + 1] < Sizes[a]
  <2>1. PICK b \in 0..Bits : b = a + d + 1 /\ b + 1 = a + (d + 1) + 1 /\ b + 1 \in 0..Bits
    BY <1>2, LengthsAre
  <2>2. Sizes[b] < Sizes[a]
    BY <1>2, <2>1, LengthsAre
  <2>3. Sizes[b] = 2 * Sizes[b + 1] /\ Sizes[b + 1] \in Nat /\ Sizes[a] \in Nat
    BY <2>1, LengthsAre
  <2>4. Sizes[b + 1] < Sizes[a]
    BY <2>2, <2>3
  <2> QED  BY <2>1, <2>4
<1>3. \A d \in Nat : d \in S
  <2>1. ASSUME NEW d \in S PROVE d + 1 \in S
    <3>1. d + 1 \in Nat
      OBVIOUS
    <3>2. a + (d + 1) + 1 <= Bits => Sizes[a + (d + 1) + 1] < Sizes[a]
      BY <1>2
    <3> QED  BY <3>1, <3>2
  <2>2. S \in SUBSET Nat
    OBVIOUS
  <2> HIDE DEF S
  <2> QED  BY <1>1, <2>1, <2>2, Upward
<1>4. ASSUME NEW b \in 0..Bits, a < b PROVE Sizes[b] < Sizes[a]
  <2>1. PICK d \in Nat : d = b - a - 1 /\ a + d + 1 = b /\ b <= Bits
    BY <1>4, LengthsAre
  <2>2. d \in S
    BY <1>3
  <2> QED  BY <2>1, <2>2
<1> QED  BY <1>4

(* The address space is a whole number of networks, of two at least.       *)
LEMMA SpaceIs ==
    \A len \in 0..Bits : \E m \in Nat : Space = m * Sizes[len]
<1> DEFINE S == {len \in Nat : len <= Bits => \E m \in Nat : Space = m * Sizes[len]}
<1>1. 0 \in S
  <2>1. Space \in Nat /\ Space = 1 * Sizes[0]
    BY LengthsAre DEF Space
  <2> QED  BY <2>1
<1>2. ASSUME NEW len \in S, len + 1 <= Bits
      PROVE  \E m \in Nat : Space = m * Sizes[len + 1]
  <2>1. PICK m \in Nat : Space = m * Sizes[len]
    BY <1>2, LengthsAre
  <2>2. len \in 0..Bits /\ len + 1 \in 0..Bits
    BY <1>2, LengthsAre
  <2>3. PICK s \in Nat : s = Sizes[len + 1]
    BY <2>2, LengthsAre
  <2>4. Sizes[len] = 2 * s
    BY <2>2, <2>3, LengthsAre
  <2>5. m * (2 * s) = (2 * m) * s /\ 2 * m \in Nat
    OBVIOUS
  <2> QED  BY <2>1, <2>3, <2>4, <2>5
<1>3. \A len \in Nat : len \in S
  <2>1. S \in SUBSET Nat /\ \A len \in S : len + 1 \in S
    BY <1>2
  <2> HIDE DEF S
  <2> QED  BY <1>1, <2>1, Upward
<1>4. ASSUME NEW len \in 0..Bits PROVE \E m \in Nat : Space = m * Sizes[len]
  <2>1. len \in Nat /\ len <= Bits
    BY LengthsAre
  <2> QED  BY <1>3, <2>1
<1> QED  BY <1>4

(* A network is an interval that lies within the address space.            *)
LEMMA NetworkIs ==
    ASSUME NEW c \in CIDR
    PROVE  /\ Size(c) \in Nat \ {0} /\ Network(c) \in Nat /\ Space \in Nat
           /\ Network(c) <= c.ip /\ c.ip < Network(c) + Size(c) /\ Network(c) + Size(c) <= Space
           /\ c.len >= 1 => Size(c) < Space
           /\ \A a \in Nat : InNetwork(c, a) <=> Network(c) <= a /\ a < Network(c) + Size(c)
<1>1. c.len \in 0..Bits /\ c.ip \in Addresses /\ Space \in Nat /\ 0 \in 0..Bits
  BY LengthsAre DEF CIDR, Space
<1>2. c.ip \in Nat /\ c.ip < Space
  BY <1>1 DEF Addresses
<1>3. PICK s \in Nat \ {0} : s = Size(c)
  <2>1. Sizes[c.len] \in Nat /\ Sizes[c.len] >= 1
    BY <1>1, LengthsAre, SizePositive
  <2> QED  BY <2>1 DEF Size
<1>4. PICK q \in Nat : q = c.ip \div s
  BY <1>2, DivIs
<1>5. q * s <= c.ip /\ c.ip < q * s + s
  BY <1>2, <1>4, DivIs
<1>6. PICK n \in Nat : n = q * s /\ n = Network(c)
  BY <1>3, <1>4 DEF Network
<1>7. n + s <= Space
  <2>1. PICK m \in Nat : Space = m * s
    BY <1>1, <1>3, SpaceIs DEF Size
  <2>2. q < m
    <3> SUFFICES ASSUME m <= q PROVE FALSE
      OBVIOUS
    <3>1. m * s <= q * s
      OBVIOUS
    <3> QED  BY <1>2, <1>5, <2>1, <3>1
  <2>3. (q + 1) * s <= m * s /\ (q + 1) * s = q * s + s
    BY <2>2
  <2> QED  BY <1>6, <2>1, <2>3
<1>8. c.len >= 1 => s < Space
  BY <1>1, <1>3, LengthsAre, LongerIsSmaller DEF Size, Space
<1>9. ASSUME NEW a \in Nat
      PROVE  InNetwork(c, a) <=> n <= a /\ a < n + s
  <2>1. InNetwork(c, a) <=> a \div s = q
    BY <1>3, <1>4 DEF InNetwork
  <2>2. (a \div s) * s <= a /\ a < (a \div s) * s + s
    BY DivIs
  <2>3. q * s <= a /\ a < q * s + s => a \div s = q
    BY DivUnique
  <2> QED  BY <1>6, <2>1, <2>2, <2>3
<1>10. n <= c.ip /\ c.ip < n + s
  BY <1>5, <1>6
<1> QED  BY <1>1, <1>3, <1>6, <1>7, <1>8, <1>9, <1>10


(* The loop of expandCIDR runs through the network and stops after it: the *)
(* next address is past the broadcast address, or the first one of all.    *)
LEMMA TurnsAre ==
    ASSUME NEW c \in CIDR, c.len >= 1
    PROVE  Size(c) = CHOOSE n \in 1..Space :
               /\ ~InNetwork(c, incIP(Network(c), n))
               /\ \A m \in 1..(n - 1) : InNetwork(c, incIP(Network(c), m))
<1>1. PICK s \in Nat \ {0}, b \in Nat, w \in Nat : s = Size(c) /\ b = Network(c) /\ w = Space
  BY NetworkIs
<1>2. b + s <= w /\ s < w
  BY <1>1, NetworkIs
<1>3. \A a \in Nat : InNetwork(c, a) <=> b <= a /\ a < b + s
  BY <1>1, NetworkIs
<1>4. \A m \in Nat : m < s => incIP(b, m) = b + m /\ InNetwork(c, incIP(b, m))
  <2> SUFFICES ASSUME NEW m \in Nat, m < s
               PROVE  incIP(b, m) = b + m /\ InNetwork(c, incIP(b, m))
    OBVIOUS
  <2>1. b + m \in Nat /\ b + m < w /\ w \in Nat \ {0} /\ b + m < b + s /\ b <= b + m
    BY <1>2
  <2>2. incIP(b, m) = b + m
    BY <1>1, <2>1, ModIs DEF incIP
  <2> QED  BY <1>3, <2>1, <2>2
<1>5. ~InNetwork(c, incIP(b, s))
  <2>1. CASE b + s < w
    <3>1. b + s \in Nat /\ w \in Nat \ {0}
      BY <1>2
    <3>2. incIP(b, s) = b + s
      BY <1>1, <2>1, <3>1, ModIs DEF incIP
    <3> QED  BY <1>3, <3>1, <3>2
  <2>2. CASE b + s = w
    <3>1. b + s \in Nat /\ w \in Nat \ {0}
      BY <1>2
    <3>2. incIP(b, s) = 0
      BY <1>1, <2>2, <3>1, ModIs DEF incIP
    <3>3. b # 0
      BY <1>2, <2>2
    <3> QED  BY <1>3, <3>2, <3>3
  <2> QED  BY <1>2, <2>1, <2>2
<1>6. s \in 1..w /\ \A m \in 1..(s - 1) : InNetwork(c, incIP(b, m))
  BY <1>2, <1>4
<1>7. ASSUME NEW n \in 1..w, ~InNetwork(c, incIP(b, n)),
             \A m \in 1..(n - 1) : InNetwork(c, incIP(b, m))
      PROVE  n = s
  <2>1. ~(n < s)
    BY <1>4, <1>7
  <2>2. ~(s < n)
    <3> SUFFICES ASSUME s < n PROVE FALSE
      OBVIOUS
    <3>1. s \in 1..(n - 1)
      OBVIOUS
    <3> QED  BY <1>5, <1>7, <3>1
  <2> QED  BY <2>1, <2>2
<1>8. s = CHOOSE n \in 1..w : /\ ~InNetwork(c, incIP(b, n))
                              /\ \A m \in 1..(n - 1) : InNetwork(c, incIP(b, m))
  BY <1>5, <1>6, <1>7
<1> QED  BY <1>1, <1>8, Zenon

(* What expandCIDR lists: an interval of addresses, in order.              *)
LEMMA ExpandIs ==
    ASSUME NEW c \in CIDR, c.len >= 1
    PROVE  /\ expandCIDR(c) \in Seq(Addresses) /\ Len(expandCIDR(c)) >= 1
           /\ ToSet(expandCIDR(c)) =
                IF Size(c) > 2 THEN (Network(c) + 1)..(Broadcast(c) - 1) ELSE Network(c)..Broadcast(c)
<1>1. PICK s \in Nat \ {0}, b \in Nat, w \in Nat : s = Size(c) /\ b = Network(c) /\ w = Space
  BY NetworkIs
<1>2. b + s <= w /\ s < w
  BY <1>1, NetworkIs
<1> DEFINE all == [i \in 1..s |-> incIP(b, i - 1)]
<1>3. expandCIDR(c) = IF Len(all) > 2 THEN SubSeq(all, 2, Len(all) - 1) ELSE all
  <2> DEFINE turns == CHOOSE n \in 1..Space :
                          /\ ~InNetwork(c, incIP(Network(c), n))
                          /\ \A m \in 1..(n - 1) : InNetwork(c, incIP(Network(c), m))
             listed(n, a) == [i \in 1..n |-> incIP(a, i - 1)]
             inner(l) == IF Len(l) > 2 THEN SubSeq(l, 2, Len(l) - 1) ELSE l
  <2>1. expandCIDR(c) = inner(listed(turns, Network(c)))
    BY Zenon DEF expandCIDR
  <2>2. turns = s
    BY <1>1, TurnsAre, Zenon
  <2>3. all = listed(s, b)
    OBVIOUS
  <2> HIDE DEF turns, all, listed
  <2>4. expandCIDR(c) = inner(all)
    BY <1>1, <2>1, <2>2, <2>3, Zenon
  <2> QED  BY <2>4, Zenon
<1>4. \A i \in 1..s : all[i] = b + i - 1 /\ all[i] \in Addresses
  <2> SUFFICES ASSUME NEW i \in 1..s PROVE all[i] = b + i - 1 /\ all[i] \in Addresses
    OBVIOUS
  <2>1. PICK a \in Nat : a = b + (i - 1) /\ a < w /\ w \in Nat \ {0}
    BY <1>2
  <2>2. a % w = a
    BY <2>1, ModIs
  <2>3. all[i] = a
    BY <1>1, <2>1, <2>2 DEF incIP
  <2>4. a \in Addresses
    BY <1>1, <2>1 DEF Addresses
  <2> QED  BY <2>1, <2>3, <2>4
<1>5. all \in Seq(Addresses) /\ Len(all) = s /\ DOMAIN all = 1..s
  <2>1. all \in [1..s -> Addresses]
    BY <1>4
  <2>2. all \in Seq(Addresses)
    BY <2>1, SeqDef
  <2> QED  BY <2>1, <2>2, LenProperties
<1> HIDE DEF all
<1>6. CASE s > 2
  <2>1. expandCIDR(c) = SubSeq(all, 2, s - 1)
    BY <1>3, <1>5, <1>6
  <2>2. \A i \in 2..(s - 1) : i \in 1..s
    OBVIOUS
  <2>3. PICK t \in Seq(Addresses) : t = SubSeq(all, 2, s - 1) /\ Len(t) = s - 2
                                    /\ \A i \in 1..(s - 2) : t[i] = all[i + 1]
    <3>1. SubSeq(all, 2, s - 1) \in Seq(Addresses) /\ Len(SubSeq(all, 2, s - 1)) = s - 2
      BY <1>5, <1>6, SubSeqProperties
    <3>2. \A i \in 1..(s - 2) : SubSeq(all, 2, s - 1)[i] = all[i + 1]
      BY <1>5, <1>6
    <3> QED  BY <3>1, <3>2
  <2>4. DOMAIN t = 1..(s - 2) /\ \A i \in 1..(s - 2) : t[i] = b + i
    <3>1. DOMAIN t = 1..(s - 2)
      BY <2>3, LenProperties
    <3>2. \A i \in 1..(s - 2) : i + 1 \in 1..s /\ b + (i + 1) - 1 = b + i
      OBVIOUS
    <3> QED  BY <1>4, <2>3, <3>1, <3>2
  <2>5. ToSet(t) = (b + 1)..(b + s - 2)
    <3>1. \A a \in (b + 1)..(b + s - 2) : a - b \in 1..(s - 2) /\ a = b + (a - b)
      OBVIOUS
    <3>2. \A i \in 1..(s - 2) : b + i \in (b + 1)..(b + s - 2)
      OBVIOUS
    <3>3. ToSet(t) = {b + i : i \in 1..(s - 2)}
      BY <2>4 DEF ToSet
    <3> QED  BY <3>1, <3>2, <3>3
  <2>6. (Network(c) + 1)..(Broadcast(c) - 1) = (b + 1)..(b + s - 2)
    BY <1>1 DEF Broadcast
  <2>7. Len(t) >= 1
    BY <1>6, <2>3
  <2> QED  BY <1>1, <1>6, <2>1, <2>3, <2>5, <2>6, <2>7
<1>7. CASE ~(s > 2)
  <2>1. expandCIDR(c) = all
    BY <1>3, <1>5, <1>7
  <2>2. ToSet(all) = b..(b + s - 1)
    <3>1. \A a \in b..(b + s - 1) : a - b + 1 \in 1..s /\ a = b + (a - b + 1) - 1
      OBVIOUS
    <3>2. \A i \in 1..s : b + i - 1 \in b..(b + s - 1)
      OBVIOUS
    <3>3. ToSet(all) = {b + i - 1 : i \in 1..s}
      BY <1>4, <1>5 DEF ToSet
    <3> QED  BY <3>1, <3>2, <3>3
  <2>3. Network(c)..Broadcast(c) = b..(b + s - 1)
    BY <1>1 DEF Broadcast
  <2> QED  BY <1>1, <1>5, <1>7, <2>1, <2>2, <2>3
<1> QED  BY <1>6, <1>7


(* A network without the addresses its ends take, if it has room for both. *)
LEMMA UsableIs ==
    ASSUME NEW c \in CIDR, c.len >= 1
    PROVE  ToSet(expandCIDR(c)) = Usable(c)
<1>1. PICK s \in Nat \ {0}, b \in Nat, w \in Nat : s = Size(c) /\ b = Network(c) /\ w = Space
  BY NetworkIs
<1>2. b + s <= w
  BY <1>1, NetworkIs
<1>3. PICK e \in Nat : e = b + s - 1 /\ e = Broadcast(c) /\ b <= e
  BY <1>1 DEF Broadcast
<1>4. {a \in Addresses : InNetwork(c, a)} = b..e
  <2>1. \A a \in Nat : InNetwork(c, a) <=> b <= a /\ a < b + s
    BY <1>1, NetworkIs
  <2>2. \A a : a \in Addresses <=> a \in Nat /\ a < w
    BY <1>1 DEF Addresses
  <2>3. \A a : a \in b..e <=> a \in Nat /\ b <= a /\ a < b + s
    BY <1>3
  <2>4. \A a \in Nat : a < b + s => a < w
    BY <1>2
  <2> QED  BY <2>1, <2>2, <2>3, <2>4
<1>5. Cardinality(b..e) = s
  BY <1>3, FS_Interval
<1>6. Usable(c) = IF s <= 2 THEN b..e
                  ELSE {a \in b..e : (\E x \in b..e : x < a) /\ \E x \in b..e : a < x}
  BY <1>4, <1>5 DEF Usable
<1>7. ToSet(expandCIDR(c)) = IF s > 2 THEN (b + 1)..(e - 1) ELSE b..e
  BY <1>1, <1>3, ExpandIs
<1>8. CASE s <= 2
  BY <1>6, <1>7, <1>8
<1>9. CASE s > 2
  <2>1. b \in b..e /\ e \in b..e
    BY <1>3
  <2>2. \A a \in b..e : (\E x \in b..e : x < a) <=> b < a
    BY <2>1
  <2>3. \A a \in b..e : (\E x \in b..e : a < x) <=> a < e
    BY <2>1
  <2>4. \A a : a \in (b + 1)..(e - 1) <=> a \in b..e /\ b < a /\ a < e
    BY <1>3
  <2>5. Usable(c) = {a \in b..e : (\E x \in b..e : x < a) /\ \E x \in b..e : a < x}
    BY <1>6, <1>9
  <2>6. ToSet(expandCIDR(c)) = (b + 1)..(e - 1)
    BY <1>7, <1>9
  <2>7. \A a : a \in Usable(c) <=> a \in (b + 1)..(e - 1)
    BY <2>2, <2>3, <2>4, <2>5
  <2> QED  BY <2>6, <2>7
<1> QED  BY <1>8, <1>9

(* What ipInTarget lets in, expandCIDR lists.                              *)
LEMMA AddedIsListed ==
    ASSUME NEW c \in CIDR, c.len >= 1, NEW a \in Addresses, ipInTarget(a, c)
    PROVE  a \in ToSet(expandCIDR(c))
<1>1. PICK s \in Nat \ {0}, b \in Nat : s = Size(c) /\ b = Network(c)
  BY NetworkIs
<1>2. PICK e \in Nat : e = b + s - 1 /\ e = Broadcast(c)
  BY <1>1 DEF Broadcast
<1>3. a \in Nat
  BY DEF Addresses, Space
<1>4. b <= a /\ a < b + s /\ a # b /\ a # e
  BY <1>1, <1>2, <1>3, NetworkIs DEF ipInTarget
<1>5. a \in (b + 1)..(e - 1) /\ a \in b..e
  BY <1>2, <1>3, <1>4
<1>6. ToSet(expandCIDR(c)) = IF s > 2 THEN (b + 1)..(e - 1) ELSE b..e
  BY <1>1, <1>2, ExpandIs
<1> QED  BY <1>5, <1>6

-----------------------------------------------------------------------------
(* Port ranges and chunks.                                                 *)

LEMMA ExpandedIs ==
    ASSUME NEW r \in [lo : 0..(MaxPort + 1), hi : 0..(MaxPort + 1)], Valid(r)
    PROVE  /\ Expanded(r) \in Seq(1..MaxPort) /\ Len(Expanded(r)) >= 1
           /\ ToSet(Expanded(r)) = r.lo..r.hi
<1>1. PICK lo \in Nat, hi \in Nat, n \in Nat :
         lo = r.lo /\ hi = r.hi /\ n = hi - lo + 1 /\ lo >= 1 /\ hi <= MaxPort /\ lo <= hi
  BY MaxPortIs DEF Valid
<1> DEFINE t == [i \in 1..n |-> lo + i - 1]
<1>2. Expanded(r) = t
  BY <1>1 DEF Expanded
<1>3. t \in [1..n -> 1..MaxPort]
  BY <1>1, MaxPortIs
<1>4. t \in Seq(1..MaxPort)
  <2> HIDE DEF t
  <2> QED  BY <1>3, SeqDef
<1>5. DOMAIN t = 1..n /\ Len(t) = n /\ n >= 1
  BY <1>1, <1>4, LenProperties
<1>6. ToSet(t) = lo..hi
  <2>1. ToSet(t) = {lo + i - 1 : i \in 1..n}
    BY <1>5 DEF ToSet
  <2>2. \A p \in lo..hi : p - lo + 1 \in 1..n /\ p = lo + (p - lo + 1) - 1
    BY <1>1
  <2>3. \A i \in 1..n : lo + i - 1 \in lo..hi
    BY <1>1
  <2> HIDE DEF t
  <2> QED  BY <2>1, <2>2, <2>3
<1> QED  BY <1>1, <1>2, <1>4, <1>5, <1>6

(* The chunks of a list hold all of it.                                    *)
LEMMA ChunksHoldAll ==
    ASSUME NEW S, NEW s \in Seq(S)
    PROVE  /\ splitIPChunks(s) \in Seq(Seq(S)) /\ Len(splitIPChunks(s)) >= 1
           /\ \A x \in ToSet(s) : \E j \in DOMAIN splitIPChunks(s) : x \in ToSet(splitIPChunks(s)[j])
           /\ Len(s) <= ChunkSize => Len(splitIPChunks(s)) = 1
<1>1. PICK n \in Nat, cs \in Nat \ {0} : n = Len(s) /\ cs = ChunkSize /\ DOMAIN s = 1..n
  BY LenProperties, MaxPortIs
<1>2. CASE n <= cs
  <2>1. splitIPChunks(s) = <<s>>
    BY <1>1, <1>2 DEF splitIPChunks
  <2>2. <<s>> \in Seq(Seq(S)) /\ Len(<<s>>) = 1 /\ 1 \in DOMAIN <<s>> /\ <<s>>[1] = s
    OBVIOUS
  <2> QED  BY <2>1, <2>2
<1>3. CASE ~(n <= cs)
  <2>1. PICK t \in Nat : t = (n + cs - 1) \div cs
    BY DivIs
  <2>2. t * cs <= n + cs - 1 /\ n + cs - 1 < t * cs + cs
    BY <2>1, DivIs
  <2> DEFINE last(i) == IF i * cs > n THEN n ELSE i * cs
             l == [i \in 1..t |-> SubSeq(s, (i - 1) * cs + 1, last(i))]
  <2>3. splitIPChunks(s) = l
    BY <1>1, <1>3, <2>1 DEF splitIPChunks
  <2>4. \A i \in 1..t : SubSeq(s, (i - 1) * cs + 1, last(i)) \in Seq(S)
    <3> SUFFICES ASSUME NEW i \in 1..t PROVE SubSeq(s, (i - 1) * cs + 1, last(i)) \in Seq(S)
      OBVIOUS
    <3>1. PICK f \in Nat, g \in Nat : f = (i - 1) * cs /\ g = last(i) /\ g <= n
      <4>1. i \in Nat /\ i - 1 \in Nat
        BY <2>1
      <4>2. (i - 1) * cs \in Nat /\ i * cs \in Nat
        BY <4>1
      <4> QED  BY <4>2
    <3>2. \A x \in (f + 1)..g : x \in 1..n
      BY <3>1
    <3>3. \A x \in (f + 1)..g : s[x] \in S
      BY <1>1, <3>2, ElementOfSeq
    <3>4. SubSeq(s, f + 1, g) \in Seq(S)
      BY <3>3, SubSeqProperties
    <3> QED  BY <3>1, <3>4
  <2>5. l \in [1..t -> Seq(S)]
    BY <2>4
  <2>6. l \in Seq(Seq(S)) /\ DOMAIN l = 1..t /\ Len(l) = t
    <3> HIDE DEF l
    <3>1. l \in Seq(Seq(S))
      BY <2>5, SeqDef
    <3>2. DOMAIN l = 1..t
      BY <2>5
    <3> QED  BY <3>1, <3>2, LenProperties
  <2>7. ASSUME NEW i \in 1..n
        PROVE  \E j \in 1..t : s[i] \in ToSet(l[j])
    <3>1. i - 1 \in Nat
      OBVIOUS
    <3>2. PICK q \in Nat : q = (i - 1) \div cs
      BY <3>1, DivIs
    <3>3. q * cs <= i - 1 /\ i - 1 < q * cs + cs
      BY <3>1, <3>2, DivIs
    <3>4. q + 1 \in 1..t
      <4>1. ~(t <= q)
        <5> SUFFICES ASSUME t <= q PROVE FALSE
          OBVIOUS
        <5>1. t * cs <= q * cs
          OBVIOUS
        <5>2. PICK x \in Nat, y \in Nat : x = t * cs /\ y = q * cs
          OBVIOUS
        <5> QED  BY <2>2, <3>3, <5>1, <5>2
      <4> QED  BY <4>1
    <3>5. PICK f \in Nat : f = q * cs
      OBVIOUS
    <3>6. ((q + 1) - 1) * cs = f /\ (q + 1) * cs = f + cs
      BY <3>5
    <3>7. PICK g \in Nat : g = last(q + 1) /\ i <= g /\ g <= n /\ f + 1 <= i
      BY <3>3, <3>5, <3>6
    <3>8. l[q + 1] = SubSeq(s, f + 1, g)
      BY <3>4, <3>6, <3>7
    <3>9. /\ SubSeq(s, f + 1, g) \in Seq(S) /\ Len(SubSeq(s, f + 1, g)) = g - f
          /\ \A x \in 1..(g - f) : SubSeq(s, f + 1, g)[x] = s[f + x]
      <4>1. \A x \in (f + 1)..g : x \in 1..n
        BY <3>7
      <4>2. \A x \in (f + 1)..g : s[x] \in S
        BY <1>1, <4>1, ElementOfSeq
      <4>3. f + 1 <= g /\ f + 1 \in Int /\ g \in Int /\ g - (f + 1) + 1 = g - f
        BY <3>7
      <4>4. SubSeq(s, f + 1, g) \in Seq(S) /\ Len(SubSeq(s, f + 1, g)) = g - f
        BY <4>2, <4>3, SubSeqProperties
      <4>5. \A x \in 1..(g - f) : f + 1 + x - 1 = f + x
        OBVIOUS
      <4>6. \A x \in 1..(g - f) : SubSeq(s, f + 1, g)[x] = s[f + 1 + x - 1]
        BY <4>2, <4>3, SubSeqProperties
      <4> QED  BY <4>4, <4>5, <4>6
    <3>10. i - f \in 1..(g - f) /\ f + (i - f) = i
      BY <3>7
    <3>11. DOMAIN SubSeq(s, f + 1, g) = 1..(g - f)
      BY <3>9, LenProperties
    <3>12. s[i] \in ToSet(SubSeq(s, f + 1, g))
      BY <3>9, <3>10, <3>11 DEF ToSet
    <3> QED  BY <3>4, <3>8, <3>12
  <2>8. t >= 1
    <3>1. t # 0
      BY <1>3, <2>2
    <3> QED  BY <3>1
  <2> HIDE DEF l
  <2>9. \A x \in ToSet(s) : \E j \in 1..t : x \in ToSet(l[j])
    BY <1>1, <2>7 DEF ToSet
  <2> QED  BY <1>1, <1>3, <2>3, <2>6, <2>8, <2>9
<1> QED  BY <1>2, <1>3


-----------------------------------------------------------------------------
(* The loops.                                                              *)

(* What the indices of the loops index.                                    *)
LEMMA CommandLineIs ==
    ASSUME TypeOK
    PROVE  /\ targets \in Seq(CIDR) /\ Len(targets) \in Nat \ {0} /\ DOMAIN targets = 1..Len(targets)
           /\ \A i \in 1..Len(targets) : targets[i] \in CIDR /\ targets[i].len \in 0..Bits
           /\ spec \in Seq([lo : 0..(MaxPort + 1), hi : 0..(MaxPort + 1)])
           /\ Len(spec) \in Nat /\ DOMAIN spec = 1..Len(spec)
           /\ \A i \in 1..Len(spec) : spec[i] \in [lo : 0..(MaxPort + 1), hi : 0..(MaxPort + 1)]
<1>1. targets \in Seq(CIDR) /\ targets # <<>>
  BY TargetsAssumption DEF TypeOK
<1>2. Len(targets) \in Nat /\ DOMAIN targets = 1..Len(targets) /\ Len(targets) # 0
  BY <1>1, LenProperties, EmptySeq
<1>3. \A i \in 1..Len(targets) : targets[i] \in CIDR
  BY <1>1, ElementOfSeq
<1>4. \A c \in CIDR : c.len \in 0..Bits
  BY DEF CIDR
<1>5. spec \in Seq([lo : 0..(MaxPort + 1), hi : 0..(MaxPort + 1)])
  BY TargetsAssumption DEF TypeOK
<1>6. Len(spec) \in Nat /\ DOMAIN spec = 1..Len(spec)
  BY <1>5, LenProperties
<1>7. \A i \in 1..Len(spec) : spec[i] \in [lo : 0..(MaxPort + 1), hi : 0..(MaxPort + 1)]
  BY <1>5, ElementOfSeq
<1> QED  BY <1>1, <1>2, <1>3, <1>4, <1>5, <1>6, <1>7

(* One more turn of an outer loop.                                         *)
LEMMA OneMorePart ==
    ASSUME NEW n \in Nat \ {0}
    PROVE  PortsOf(n) = PortsOf(n - 1) \cup ToSet(Expanded(spec[n]))
<1>1. \A i : i \in 1..n <=> i \in 1..(n - 1) \/ i = n
  OBVIOUS
<1> QED  BY <1>1 DEF PortsOf

LEMMA OneMoreTarget ==
    ASSUME NEW n \in Nat \ {0}
    PROVE  AddressesOf(n) = AddressesOf(n - 1) \cup ToSet(expandCIDR(targets[n]))
<1>1. \A i : i \in 1..n <=> i \in 1..(n - 1) \/ i = n
  OBVIOUS
<1> QED  BY <1>1 DEF AddressesOf

LEMMA NoneYet ==
    ToSet(<<>>) = {} /\ PortsOf(0) = {} /\ AddressesOf(0) = {}
<1>1. \A i \in 1..0 : FALSE
  OBVIOUS
<1>2. DOMAIN <<>> = {}
  OBVIOUS
<1> QED  BY <1>1, <1>2 DEF ToSet, PortsOf, AddressesOf

(* One more turn of an inner loop, and its last turn.                      *)
LEMMA OneMoreElement ==
    ASSUME TypeOK, at <= Len(part)
    PROVE  /\ {part[i] : i \in 1..at} = DoneOf \cup {part[at]}
           /\ at = Len(part) => DoneOf \cup {part[at]} = ToSet(part)
<1>1. at \in Nat \ {0} /\ part \in Seq(Nat)
  BY DEF TypeOK
<1>2. \A i : i \in 1..at <=> i \in 1..(at - 1) \/ i = at
  BY <1>1
<1>3. {part[i] : i \in 1..at} = DoneOf \cup {part[at]}
  BY <1>2 DEF DoneOf
<1>4. DOMAIN part = 1..Len(part)
  BY <1>1, LenProperties
<1>5. at = Len(part) => {part[i] : i \in 1..at} = ToSet(part)
  BY <1>4 DEF ToSet
<1> QED  BY <1>3, <1>5

LEMMA InitInv ==
    Init => TargetsInv
<1> SUFFICES ASSUME Init PROVE TargetsInv
  OBVIOUS
<1>1. \A S : <<>> \in Seq(S)
  BY EmptySeq
<1>2. [a \in Addresses |-> 0] \in [Addresses -> Nat]
  OBVIOUS
<1>3. /\ targets \in TargetLists /\ spec \in PortSpecs /\ k = 1 /\ at = 1
      /\ confirmed = {} /\ pingChunk = 0 /\ batch = {} /\ skipped = [a \in Addresses |-> 0]
  BY DEF Init
<1>4. part = <<>> /\ ports = <<>> /\ ips = <<>> /\ chunks = <<>>
  BY DEF Init
<1>5. pc = "ports"
  BY DEF Init
<1>6. tui \in BOOLEAN
  BY Zenon DEF Init
<1>7. TypeOK
  <2>1. /\ targets \in TargetLists /\ spec \in PortSpecs
        /\ k \in Nat \ {0} /\ at \in Nat \ {0} /\ confirmed \subseteq Nat
        /\ pingChunk \in Nat /\ batch \subseteq Addresses /\ skipped \in [Addresses -> Nat]
    BY <1>2, <1>3
  <2>2. /\ part \in Seq(Nat) /\ ports \in Seq(1..MaxPort) /\ ips \in Seq(Addresses)
        /\ chunks \in Seq(Seq(Addresses))
    BY <1>1, <1>4
  <2>3. /\ pc \in {"ports", "adding", "checking", "asking", "expanding", "listing",
                   "watching", "done", "refused"}
        /\ pc # "watching"
    BY <1>5
  <2> QED  BY <1>6, <2>1, <2>2, <2>3, Zenon DEF TypeOK
<1>8. JobsDistinct
  <2>1. DOMAIN <<>> = {}
    OBVIOUS
  <2> QED  BY <1>4, <2>1 DEF JobsDistinct, Distinct
<1>9. ToSet(ports) = {}
  BY <1>4, NoneYet
<1>10. PortsSoFar
  <2>1. k <= Len(spec) + 1 /\ k - 1 = 0 /\ \A i \in 1..(k - 1) : Valid(spec[i])
    BY <1>3, <1>7, CommandLineIs
  <2>2. ToSet(ports) = PortsOf(k - 1)
    BY <1>9, <2>1, NoneYet
  <2> QED  BY <1>5, <2>1, <2>2 DEF PortsSoFar
<1>11. ChecksSoFar /\ AddressesSoFar
  BY <1>4, <1>5 DEF ChecksSoFar, AddressesSoFar, Scanning
<1>12. TurnsSoFar
  BY <1>3, <1>5 DEF TurnsSoFar
<1> QED  BY <1>7, <1>8, <1>10, <1>11, <1>12 DEF TargetsInv


(* Until the watch phase, no sweep.                                        *)
LEMMA NoSweepYet ==
    ASSUME TurnsSoFar, pc # "watching", pc' # "watching", UNCHANGED skipped
    PROVE  TurnsSoFar'
BY DEF TurnsSoFar

LEMMA ReadPartStep ==
    ASSUME TargetsInv, ReadPart
    PROVE  TargetsInv'
<1> USE DEF TargetsInv
<1>1. /\ pc = "ports" /\ k <= Len(spec) /\ k \in Nat \ {0} /\ at \in Nat \ {0}
      /\ UNCHANGED <<targets, spec, tui, k, ports, ips, confirmed, loops>>
  BY DEF ReadPart, TypeOK
<1>2. k \in 1..Len(spec) /\ Len(spec) \in Nat
  BY <1>1, CommandLineIs
<1>3. \/ Valid(spec[k]) /\ pc' = "adding" /\ part' = Expanded(spec[k]) /\ at' = 1
      \/ pc' = "refused" /\ UNCHANGED <<part, at>>
  BY DEF ReadPart, Begin
<1>4. Valid(spec[k]) =>
        Expanded(spec[k]) \in Seq(Nat) /\ Len(Expanded(spec[k])) >= 1 /\ Len(Expanded(spec[k])) \in Nat
  <2> SUFFICES ASSUME Valid(spec[k])
               PROVE  Expanded(spec[k]) \in Seq(Nat) /\ Len(Expanded(spec[k])) >= 1
                      /\ Len(Expanded(spec[k])) \in Nat
    OBVIOUS
  <2>1. Expanded(spec[k]) \in Seq(1..MaxPort) /\ Len(Expanded(spec[k])) >= 1
    BY <1>2, CommandLineIs, ExpandedIs
  <2>2. 1..MaxPort \subseteq Nat
    BY MaxPortIs
  <2> QED  BY <2>1, <2>2, SeqMonotonic, LenProperties
<1>5. part' \in Seq(Nat) /\ at' \in Nat \ {0}
  BY <1>1, <1>3, <1>4 DEF TypeOK
<1>6. TypeOK'
  BY <1>1, <1>3, <1>5 DEF TypeOK, loops
<1>7. JobsDistinct'
  BY <1>1 DEF JobsDistinct
<1>8. PortsSoFar'
  <2>1. CASE pc' = "adding"
    <3>1. Valid(spec[k]) /\ part' = Expanded(spec[k]) /\ at' = 1 /\ Len(part') >= 1
      BY <1>3, <1>4, <2>1
    <3>2. DoneOf' = {}
      <4>1. \A i \in 1..(at' - 1) : FALSE
        BY <3>1
      <4> QED  BY <4>1 DEF DoneOf
    <3>3. \A i \in 1..k : Valid(spec[i])
      <4>1. \A i \in 1..k : i \in 1..(k - 1) \/ i = k
        BY <1>2
      <4> QED  BY <1>1, <3>1, <4>1 DEF PortsSoFar
    <3>4. ToSet(ports) = PortsOf(k - 1)
      BY <1>1 DEF PortsSoFar
    <3>5. ToSet(ports') = PortsOf(k - 1)' \cup DoneOf'
      BY <1>1, <3>2, <3>4 DEF PortsOf
    <3> QED  BY <1>1, <2>1, <3>1, <3>3, <3>5 DEF PortsSoFar
  <2>2. CASE pc' = "refused"
    BY <2>2 DEF PortsSoFar
  <2> QED  BY <1>3, <2>1, <2>2
<1>9. ChecksSoFar'
  BY <1>3 DEF ChecksSoFar
<1>10. AddressesSoFar'
  BY <1>1, <1>3 DEF AddressesSoFar, Scanning
<1>11. TurnsSoFar'
  BY <1>1, <1>3, NoSweepYet DEF loops
<1> QED  BY <1>6, <1>7, <1>8, <1>9, <1>10, <1>11

LEMMA AddPortStep ==
    ASSUME TargetsInv, AddPort
    PROVE  TargetsInv'
<1> USE DEF TargetsInv
<1>1. /\ pc = "adding" /\ ports' = Add(ports, part[at])
      /\ k \in Nat \ {0} /\ at \in Nat \ {0} /\ part \in Seq(Nat) /\ Len(part) \in Nat
      /\ UNCHANGED <<targets, spec, tui, part, ips, confirmed, loops>>
  BY LenProperties DEF AddPort, TypeOK
<1>2. /\ k <= Len(spec) /\ part = Expanded(spec[k]) /\ at <= Len(part)
      /\ \A i \in 1..k : Valid(spec[i])
      /\ ToSet(ports) = PortsOf(k - 1) \cup DoneOf
  BY <1>1 DEF PortsSoFar
<1>3. k \in 1..Len(spec) /\ k \in 1..k /\ Len(spec) \in Nat
  BY <1>1, <1>2, CommandLineIs
<1>4. \/ at < Len(part) /\ at' = at + 1 /\ pc' = "adding" /\ k' = k
      \/ at = Len(part) /\ at' = at /\ pc' = "ports" /\ k' = k + 1
  BY <1>1, <1>2 DEF AddPort, Turn
<1>5. part[at] \in 1..MaxPort
  <2>1. Expanded(spec[k]) \in Seq(1..MaxPort)
    BY <1>2, <1>3, CommandLineIs, ExpandedIs
  <2>2. at \in 1..Len(part)
    BY <1>1, <1>2
  <2> QED  BY <1>2, <2>1, <2>2, ElementOfSeq
<1>6. /\ ports' \in Seq(1..MaxPort) /\ ToSet(ports') = ToSet(ports) \cup {part[at]}
      /\ Distinct(ports')
  <2>1. ports \in Seq(1..MaxPort) /\ Distinct(ports)
    BY DEF TypeOK, JobsDistinct
  <2>2. PICK p \in 1..MaxPort : p = part[at]
    BY <1>5
  <2>3. ports' = Add(ports, p)
    BY <1>1, <2>2
  <2>4. /\ Add(ports, p) \in Seq(1..MaxPort) /\ ToSet(Add(ports, p)) = ToSet(ports) \cup {p}
        /\ Distinct(Add(ports, p))
    <3>1. Add(ports, p) \in Seq(1..MaxPort)
      BY <2>1, AddIs
    <3>2. ToSet(Add(ports, p)) = ToSet(ports) \cup {p}
      <4>1. PICK S : ports \in Seq(S) /\ p \in S
        BY <2>1
      <4> QED  BY <4>1, AddIs
    <3>3. Distinct(Add(ports, p))
      BY <2>1, AddIs
    <3> QED  BY <3>1, <3>2, <3>3
  <2> QED  BY <2>2, <2>3, <2>4
<1>7. at' \in Nat \ {0} /\ k' \in Nat \ {0} /\ pc' \in {"adding", "ports"}
  BY <1>1, <1>4
<1>8. TypeOK'
  BY <1>1, <1>6, <1>7 DEF TypeOK, loops
<1>9. JobsDistinct'
  BY <1>1, <1>6 DEF JobsDistinct
<1>10. ToSet(ports') = PortsOf(k - 1) \cup {part[i] : i \in 1..at}
  BY <1>2, <1>6, OneMoreElement
<1>11. PortsSoFar'
  <2>1. CASE at < Len(part)
    <3>1. at' = at + 1 /\ pc' = "adding" /\ k' = k /\ at' <= Len(part')
      BY <1>1, <1>4, <2>1
    <3>2. DoneOf' = {part[i] : i \in 1..at}
      <4>1. at' - 1 = at
        BY <1>1, <3>1
      <4>2. part' = part
        BY <1>1
      <4> QED  BY <4>1, <4>2 DEF DoneOf
    <3>3. ToSet(ports') = PortsOf(k - 1)' \cup DoneOf'
      BY <1>1, <1>10, <3>1, <3>2 DEF PortsOf
    <3> QED  BY <1>1, <1>2, <3>1, <3>3 DEF PortsSoFar
  <2>2. CASE at = Len(part)
    <3>1. pc' = "ports" /\ k' = k + 1 /\ k' - 1 = k /\ k' <= Len(spec) + 1
      BY <1>1, <1>3, <1>4, <2>2
    <3>2. ToSet(ports') = PortsOf(k)
      BY <1>1, <1>2, <1>10, <2>2, OneMoreElement, OneMorePart
    <3>3. ToSet(ports') = PortsOf(k - 1)'
      BY <1>1, <3>1, <3>2 DEF PortsOf
    <3> QED  BY <1>1, <1>2, <3>1, <3>3 DEF PortsSoFar
  <2> QED  BY <1>4, <2>1, <2>2
<1>12. ChecksSoFar'
  BY <1>7 DEF ChecksSoFar
<1>13. AddressesSoFar'
  BY <1>1, <1>7 DEF AddressesSoFar, Scanning
<1>14. TurnsSoFar'
  BY <1>1, <1>7, NoSweepYet DEF loops
<1> QED  BY <1>8, <1>9, <1>11, <1>12, <1>13, <1>14

LEMMA SortPortsStep ==
    ASSUME TargetsInv, SortPorts
    PROVE  TargetsInv'
<1> USE DEF TargetsInv
<1>1. /\ pc = "ports" /\ k > Len(spec) /\ k \in Nat \ {0}
      /\ UNCHANGED <<targets, spec, tui, part, at, ips, confirmed, loops>>
  BY DEF SortPorts, TypeOK
<1>2. \/ pc' = "refused" /\ UNCHANGED <<k, ports>>
      \/ tui /\ pc' = "checking" /\ k' = 1 /\ ports' = Sorted(ports)
      \/ ~tui /\ pc' = "expanding" /\ k' = 1 /\ ports' = Sorted(ports)
  BY DEF SortPorts
<1>3. k - 1 = Len(spec) /\ DOMAIN spec = 1..Len(spec)
  BY <1>1, CommandLineIs DEF PortsSoFar
<1>4. ToSet(ports) = PortsOf(Len(spec)) /\ \A i \in DOMAIN spec : Valid(spec[i])
  BY <1>1, <1>3 DEF PortsSoFar
<1>5. ports' \in Seq(1..MaxPort) /\ Distinct(ports') /\ ToSet(ports') = ToSet(ports)
  BY <1>2, SortedIs DEF TypeOK, JobsDistinct
<1>6. k' \in Nat \ {0} /\ pc' \in {"refused", "checking", "expanding"}
  BY <1>1, <1>2
<1>7. TypeOK'
  BY <1>1, <1>5, <1>6 DEF TypeOK, loops
<1>8. JobsDistinct'
  BY <1>1, <1>5 DEF JobsDistinct
<1>9. PortsSoFar'
  BY <1>1, <1>4, <1>5, <1>6 DEF PortsSoFar, PortsOf
<1>10. \A i \in 1..0 : FALSE
  OBVIOUS
<1>11. ChecksSoFar'
  <2>1. CASE pc' = "refused"
    BY <2>1 DEF ChecksSoFar
  <2>2. CASE pc' # "refused"
    <3>1. k' = 1 /\ k' - 1 = 0 /\ k' <= Len(targets') + 1
      BY <1>1, <1>2, <2>2, CommandLineIs
    <3> QED  BY <1>1, <1>2, <1>10, <2>2, <3>1 DEF ChecksSoFar
  <2> QED  BY <2>1, <2>2
<1>12. AddressesSoFar'
  <2>1. ips = <<>>
    BY <1>1 DEF AddressesSoFar
  <2>2. CASE pc' # "expanding"
    BY <1>1, <1>6, <2>1, <2>2 DEF AddressesSoFar, Scanning
  <2>3. CASE pc' = "expanding"
    <3>1. k' = 1 /\ k' - 1 = 0 /\ k' <= Len(targets') + 1
      BY <1>1, <1>2, <2>3, CommandLineIs
    <3>2. ToSet(ips') = {} /\ AddressesOf(k - 1)' = {}
      BY <1>1, <1>10, <2>1, <3>1, NoneYet DEF AddressesOf
    <3> QED  BY <1>10, <2>3, <3>1, <3>2 DEF AddressesSoFar, Scanning
  <2> QED  BY <2>2, <2>3
<1>13. TurnsSoFar'
  BY <1>1, <1>6, NoSweepYet DEF loops
<1> QED  BY <1>7, <1>8, <1>9, <1>11, <1>12, <1>13


(* The steps of the checks and of the sweeps that leave the lists alone.   *)
LEMMA CheckStep ==
    ASSUME TargetsInv, CheckTarget \/ Confirm \/ Decline \/ EndChecks
    PROVE  TargetsInv'
<1> USE DEF TargetsInv
<1>1. /\ pc \in {"checking", "asking"} /\ k \in Nat \ {0}
      /\ UNCHANGED <<targets, spec, tui, part, at, ports, ips, loops>>
  BY DEF CheckTarget, Confirm, Decline, EndChecks, TypeOK
<1>2. /\ tui /\ k <= Len(targets) + 1 /\ \A i \in 1..(k - 1) : Agreed(i)
      /\ pc = "asking" => k <= Len(targets) /\ targets[k].len >= tuiMaxPrefix
  BY <1>1 DEF ChecksSoFar
<1>3. Len(targets) \in Nat \ {0} /\ DOMAIN targets = 1..Len(targets)
      /\ \A i \in 1..Len(targets) : targets[i].len \in 0..Bits
  BY CommandLineIs
<1>4. \/ /\ pc' = "checking" /\ k' = k + 1 /\ k <= Len(targets)
         /\ confirmed \subseteq confirmed' /\ confirmed' \subseteq confirmed \cup {k}
         /\ SmallEnough(targets[k]) \/ (pc = "asking" /\ k \in confirmed')
      \/ pc' = "refused" /\ UNCHANGED <<k, confirmed>>
      \/ /\ pc' = "asking" /\ UNCHANGED <<k, confirmed>>
         /\ k <= Len(targets) /\ ~(targets[k].len < tuiMaxPrefix)
      \/ pc' = "expanding" /\ k' = 1 /\ k > Len(targets) /\ UNCHANGED confirmed
  BY <1>2 DEF CheckTarget, Confirm, Decline, EndChecks
<1>5. k' \in Nat \ {0} /\ confirmed \subseteq confirmed' /\ confirmed' \subseteq Nat
      /\ pc' \in {"checking", "refused", "asking", "expanding"}
  <2>1. confirmed \subseteq Nat
    BY DEF TypeOK
  <2> QED  BY <1>1, <1>4, <2>1
<1>6. TypeOK'
  BY <1>1, <1>5 DEF TypeOK, loops
<1>7. JobsDistinct'
  BY <1>1 DEF JobsDistinct
<1>8. PortsSoFar'
  BY <1>1, <1>5 DEF PortsSoFar, PortsOf
<1>9. \A i \in 1..Len(targets) : Agreed(i) => Agreed(i)'
  BY <1>1, <1>5 DEF Agreed
<1>10. \A i \in 1..0 : FALSE
  OBVIOUS
<1>11. ChecksSoFar'
  <2>1. CASE pc' = "checking"
    <3>1. /\ k' = k + 1 /\ k' - 1 = k /\ k \in 1..Len(targets)
          /\ \A i \in 1..k : i \in 1..Len(targets) /\ (i \in 1..(k - 1) \/ i = k)
          /\ SmallEnough(targets[k]) \/ (pc = "asking" /\ k \in confirmed')
      BY <1>1, <1>3, <1>4, <2>1
    <3>2. ASSUME NEW n \in 1..Len(targets), n = k PROVE Agreed(n)'
      <4>1. PICK len \in 0..Bits : len = targets[n].len /\ len \in Nat
        BY <1>3
      <4>2. CASE SmallEnough(targets[k])
        <5>1. len >= tuiMaxPrefix /\ ~(len <= tuiWarnPrefix)
          BY <3>2, <4>1, <4>2, PrefixesAre DEF SmallEnough
        <5> QED  BY <1>1, <4>1, <5>1 DEF Agreed
      <4>3. CASE pc = "asking" /\ k \in confirmed'
        BY <1>1, <1>2, <3>2, <4>3 DEF Agreed
      <4> QED  BY <3>1, <4>2, <4>3
    <3>3. \A i \in 1..k : Agreed(i)'
      BY <1>2, <1>9, <3>1, <3>2
    <3>4. k' <= Len(targets') + 1 /\ (\A i \in 1..(k' - 1) : Agreed(i)')
      BY <1>1, <1>3, <3>1, <3>3
    <3> QED  BY <1>1, <1>2, <2>1, <3>4 DEF ChecksSoFar
  <2>2. CASE pc' = "refused"
    BY <2>2 DEF ChecksSoFar
  <2>3. CASE pc' = "asking"
    <3>1. k' = k /\ k <= Len(targets) /\ ~(targets[k].len < tuiMaxPrefix)
      BY <1>4, <2>3
    <3>2. targets[k].len >= tuiMaxPrefix
      BY <1>1, <1>3, <3>1, PrefixesAre
    <3>3. \A i \in 1..(k - 1) : Agreed(i)'
      BY <1>1, <1>2, <1>3, <1>9, <3>1
    <3> QED  BY <1>1, <1>2, <2>3, <3>1, <3>2, <3>3 DEF ChecksSoFar
  <2>4. CASE pc' = "expanding"
    <3>1. k - 1 = Len(targets)
      BY <1>1, <1>2, <1>3, <1>4, <2>4
    <3>2. \A i \in DOMAIN targets' : Agreed(i)'
      BY <1>1, <1>2, <1>3, <1>9, <3>1
    <3> QED  BY <2>4, <3>2 DEF ChecksSoFar
  <2> QED  BY <1>5, <2>1, <2>2, <2>3, <2>4
<1>12. AddressesSoFar'
  <2>1. ips = <<>>
    BY <1>1 DEF AddressesSoFar
  <2>2. CASE pc' # "expanding"
    BY <1>1, <1>5, <2>1, <2>2 DEF AddressesSoFar, Scanning
  <2>3. CASE pc' = "expanding"
    <3>1. k' = 1 /\ k' - 1 = 0 /\ k' <= Len(targets') + 1
      BY <1>1, <1>3, <1>4, <2>3
    <3>2. ToSet(ips') = {} /\ AddressesOf(k - 1)' = {}
      BY <1>1, <1>10, <2>1, <3>1, NoneYet DEF AddressesOf
    <3> QED  BY <1>10, <2>3, <3>1, <3>2 DEF AddressesSoFar, Scanning
  <2> QED  BY <2>2, <2>3
<1>13. TurnsSoFar'
  BY <1>1, <1>5, NoSweepYet DEF loops
<1> QED  BY <1>6, <1>7, <1>8, <1>11, <1>12, <1>13

LEMMA ExpandTargetStep ==
    ASSUME TargetsInv, ExpandTarget
    PROVE  TargetsInv'
<1> USE DEF TargetsInv
<1>1. /\ pc = "expanding" /\ k <= Len(targets) /\ k \in Nat \ {0} /\ at \in Nat \ {0}
      /\ UNCHANGED <<targets, spec, tui, k, ports, ips, confirmed, loops>>
  BY DEF ExpandTarget, TypeOK
<1>2. k \in 1..Len(targets) /\ Len(targets) \in Nat
      /\ targets[k] \in CIDR /\ targets[k].len \in 0..Bits /\ targets[k].len \in Nat
  BY <1>1, CommandLineIs
<1>3. \/ /\ ~(targets[k].len < MinPrefix)
         /\ pc' = "listing" /\ part' = expandCIDR(targets[k]) /\ at' = 1
      \/ pc' = "refused" /\ UNCHANGED <<part, at>>
  BY DEF ExpandTarget, Begin
<1>4. ~(targets[k].len < MinPrefix) =>
         /\ targets[k].len >= MinPrefix
         /\ expandCIDR(targets[k]) \in Seq(Nat) /\ Len(expandCIDR(targets[k])) >= 1
  <2> SUFFICES ASSUME ~(targets[k].len < MinPrefix)
               PROVE  /\ targets[k].len >= MinPrefix
                      /\ expandCIDR(targets[k]) \in Seq(Nat) /\ Len(expandCIDR(targets[k])) >= 1
    OBVIOUS
  <2>1. targets[k].len >= MinPrefix /\ targets[k].len >= 1
    BY <1>2, PrefixesAre
  <2>2. expandCIDR(targets[k]) \in Seq(Addresses) /\ Len(expandCIDR(targets[k])) >= 1
    BY <1>2, <2>1, ExpandIs
  <2>3. Addresses \subseteq Nat
    BY DEF Addresses
  <2> QED  BY <2>1, <2>2, <2>3, SeqMonotonic
<1>5. part' \in Seq(Nat) /\ at' \in Nat \ {0} /\ pc' \in {"listing", "refused"}
  BY <1>1, <1>3, <1>4 DEF TypeOK
<1>6. TypeOK'
  BY <1>1, <1>5 DEF TypeOK, loops
<1>7. JobsDistinct'
  BY <1>1 DEF JobsDistinct
<1>8. PortsSoFar'
  BY <1>1, <1>5 DEF PortsSoFar, PortsOf
<1>9. ChecksSoFar'
  BY <1>1, <1>5 DEF ChecksSoFar, Agreed
<1>10. AddressesSoFar'
  <2>1. CASE pc' = "listing"
    <3>1. /\ part' = expandCIDR(targets[k]) /\ at' = 1 /\ Len(part') >= 1
          /\ targets[k].len >= MinPrefix
      BY <1>3, <1>4, <2>1
    <3>2. DoneOf' = {}
      <4>1. \A i \in 1..(at' - 1) : FALSE
        BY <3>1
      <4> QED  BY <4>1 DEF DoneOf
    <3>3. \A i \in 1..k : targets[i].len >= MinPrefix
      <4>1. \A i \in 1..k : i \in 1..(k - 1) \/ i = k
        BY <1>2
      <4> QED  BY <1>1, <3>1, <4>1 DEF AddressesSoFar
    <3>4. ToSet(ips) = AddressesOf(k - 1)
      BY <1>1 DEF AddressesSoFar
    <3>5. ToSet(ips') = AddressesOf(k - 1)' \cup DoneOf'
      BY <1>1, <3>2, <3>4 DEF AddressesOf
    <3> QED  BY <1>1, <2>1, <3>1, <3>3, <3>5 DEF AddressesSoFar, Scanning
  <2>2. CASE pc' = "refused"
    BY <2>2 DEF AddressesSoFar, Scanning
  <2> QED  BY <1>5, <2>1, <2>2
<1>11. TurnsSoFar'
  BY <1>1, <1>5, NoSweepYet DEF loops
<1> QED  BY <1>6, <1>7, <1>8, <1>9, <1>10, <1>11


LEMMA ListAddressStep ==
    ASSUME TargetsInv, ListAddress
    PROVE  TargetsInv'
<1> USE DEF TargetsInv
<1>1. /\ pc = "listing" /\ ips' = Add(ips, part[at])
      /\ k \in Nat \ {0} /\ at \in Nat \ {0} /\ part \in Seq(Nat) /\ Len(part) \in Nat
      /\ UNCHANGED <<targets, spec, tui, part, ports, confirmed, loops>>
  BY LenProperties DEF ListAddress, TypeOK
<1>2. /\ k <= Len(targets) /\ part = expandCIDR(targets[k]) /\ at <= Len(part)
      /\ \A i \in 1..k : targets[i].len >= MinPrefix
      /\ ToSet(ips) = AddressesOf(k - 1) \cup DoneOf
  BY <1>1 DEF AddressesSoFar
<1>3. k \in 1..Len(targets) /\ k \in 1..k /\ Len(targets) \in Nat
      /\ targets[k] \in CIDR /\ targets[k].len \in 0..Bits
  BY <1>1, <1>2, CommandLineIs
<1>4. \/ at < Len(part) /\ at' = at + 1 /\ pc' = "listing" /\ k' = k
      \/ at = Len(part) /\ at' = at /\ pc' = "expanding" /\ k' = k + 1
  BY <1>1, <1>2 DEF ListAddress, Turn
<1>5. PICK a \in Addresses : a = part[at]
  <2>1. targets[k].len >= 1
    BY <1>2, <1>3, PrefixesAre
  <2>2. expandCIDR(targets[k]) \in Seq(Addresses)
    BY <1>3, <2>1, ExpandIs
  <2>3. at \in 1..Len(part)
    BY <1>1, <1>2
  <2> QED  BY <1>2, <2>2, <2>3, ElementOfSeq
<1>6. /\ ips' \in Seq(Addresses) /\ ToSet(ips') = ToSet(ips) \cup {part[at]}
      /\ Distinct(ips')
  <2>1. ips \in Seq(Addresses) /\ Distinct(ips)
    BY DEF TypeOK, JobsDistinct
  <2>2. ips' = Add(ips, a)
    BY <1>1, <1>5
  <2>3. Add(ips, a) \in Seq(Addresses)
    BY <2>1, AddIs
  <2>4. ToSet(Add(ips, a)) = ToSet(ips) \cup {a}
    BY <2>1, AddIs
  <2>5. Distinct(Add(ips, a))
    BY <2>1, AddIs
  <2> QED  BY <1>5, <2>2, <2>3, <2>4, <2>5
<1>7. at' \in Nat \ {0} /\ k' \in Nat \ {0} /\ pc' \in {"listing", "expanding"}
  BY <1>1, <1>4
<1>8. TypeOK'
  BY <1>1, <1>6, <1>7 DEF TypeOK, loops
<1>9. JobsDistinct'
  BY <1>1, <1>6 DEF JobsDistinct
<1>10. PortsSoFar'
  BY <1>1, <1>7 DEF PortsSoFar, PortsOf
<1>11. ChecksSoFar'
  BY <1>1, <1>7 DEF ChecksSoFar, Agreed
<1>12. ToSet(ips') = AddressesOf(k - 1) \cup {part[i] : i \in 1..at}
  BY <1>2, <1>6, OneMoreElement
<1>13. AddressesSoFar'
  <2>1. CASE at < Len(part)
    <3>1. at' = at + 1 /\ pc' = "listing" /\ k' = k /\ at' <= Len(part')
      BY <1>1, <1>4, <2>1
    <3>2. DoneOf' = {part[i] : i \in 1..at}
      <4>1. at' - 1 = at
        BY <1>1, <3>1
      <4>2. part' = part
        BY <1>1
      <4> QED  BY <4>1, <4>2 DEF DoneOf
    <3>3. ToSet(ips') = AddressesOf(k - 1)' \cup DoneOf'
      BY <1>1, <1>12, <3>1, <3>2 DEF AddressesOf
    <3> QED  BY <1>1, <1>2, <3>1, <3>3 DEF AddressesSoFar, Scanning
  <2>2. CASE at = Len(part)
    <3>1. pc' = "expanding" /\ k' = k + 1 /\ k' - 1 = k /\ k' <= Len(targets) + 1
      BY <1>1, <1>3, <1>4, <2>2
    <3>2. ToSet(ips') = AddressesOf(k)
      BY <1>1, <1>2, <1>12, <2>2, OneMoreElement, OneMoreTarget
    <3>3. ToSet(ips') = AddressesOf(k - 1)'
      BY <1>1, <3>1, <3>2 DEF AddressesOf
    <3> QED  BY <1>1, <1>2, <3>1, <3>3 DEF AddressesSoFar, Scanning
  <2> QED  BY <1>4, <2>1, <2>2
<1>14. TurnsSoFar'
  BY <1>1, <1>7, NoSweepYet DEF loops
<1> QED  BY <1>8, <1>9, <1>10, <1>11, <1>13, <1>14

-----------------------------------------------------------------------------
(* The sweeps.                                                             *)

(* How many sweeps ago a chunk had its turn: fewer than there are chunks.  *)
LEMMA SinceTurnIs ==
    ASSUME TypeOK, pc = "watching", NEW j \in DOMAIN chunks
    PROVE  SinceTurn(j) \in Nat /\ SinceTurn(j) < Len(chunks)
<1>1. Len(chunks) \in Nat /\ j \in 1..Len(chunks) /\ pingChunk \in 0..(Len(chunks) - 1)
  BY LenProperties DEF TypeOK
<1>2. CASE j <= pingChunk
  BY <1>1, <1>2 DEF SinceTurn
<1>3. CASE ~(j <= pingChunk)
  BY <1>1, <1>3 DEF SinceTurn
<1> QED  BY <1>2, <1>3

LEMMA ScanStep ==
    ASSUME TargetsInv, Scan
    PROVE  TargetsInv'
<1> USE DEF TargetsInv
<1>1. /\ pc = "expanding" /\ k > Len(targets) /\ k \in Nat \ {0} /\ pingChunk' = 0
      /\ UNCHANGED <<targets, spec, tui, k, part, at, ports, ips, confirmed, paused, batch, skipped>>
  BY DEF Scan, TypeOK
<1>2. \/ tui /\ pc' = "watching" /\ chunks' = splitIPChunks(ips)
      \/ pc' = "done" /\ UNCHANGED chunks
  BY DEF Scan
<1>3. /\ splitIPChunks(ips) \in Seq(Seq(Addresses)) /\ Len(splitIPChunks(ips)) >= 1
      /\ Len(splitIPChunks(ips)) \in Nat
  <2>1. ips \in Seq(Addresses)
    BY DEF TypeOK
  <2>2. splitIPChunks(ips) \in Seq(Seq(Addresses)) /\ Len(splitIPChunks(ips)) >= 1
    BY <2>1, ChunksHoldAll
  <2> QED  BY <2>2, LenProperties
<1>4. chunks' \in Seq(Seq(Addresses)) /\ (pc' = "watching" => pingChunk' \in 0..(Len(chunks') - 1))
  BY <1>1, <1>2, <1>3 DEF TypeOK
<1>5. pc' \in {"watching", "done"} /\ pingChunk' \in Nat
  BY <1>1, <1>2
<1>6. TypeOK'
  BY <1>1, <1>4, <1>5 DEF TypeOK
<1>7. JobsDistinct'
  BY <1>1 DEF JobsDistinct
<1>8. PortsSoFar'
  BY <1>1, <1>5 DEF PortsSoFar, PortsOf
<1>9. ChecksSoFar'
  BY <1>1, <1>5 DEF ChecksSoFar, Agreed
<1>10. AddressesSoFar'
  <2>1. k - 1 = Len(targets) /\ DOMAIN targets = 1..Len(targets)
    BY <1>1, CommandLineIs DEF AddressesSoFar
  <2>2. ToSet(ips) = AddressesOf(Len(targets)) /\ \A i \in DOMAIN targets : targets[i].len >= MinPrefix
    BY <1>1, <2>1 DEF AddressesSoFar
  <2> QED  BY <1>1, <1>5, <2>2 DEF AddressesSoFar, AddressesOf
<1>11. TurnsSoFar'
  <2>1. skipped = [a \in Addresses |-> 0]
    BY <1>1 DEF TurnsSoFar
  <2>2. CASE pc' = "done"
    BY <1>1, <2>1, <2>2 DEF TurnsSoFar
  <2>3. CASE pc' = "watching"
    <3>1. tui /\ chunks' = splitIPChunks(ips)
      BY <1>2, <2>3
    <3>2. ASSUME NEW j \in DOMAIN chunks', NEW a \in ToSet(chunks'[j])
          PROVE  skipped'[a] <= SinceTurn(j)'
      <4>1. j \in 1..Len(chunks') /\ chunks'[j] \in Seq(Addresses)
        BY <1>4, LenProperties, ElementOfSeq
      <4>2. a \in Addresses
        BY <4>1, LenProperties, ElementOfSeq DEF ToSet
      <4>3. skipped'[a] = 0
        BY <1>1, <2>1, <4>2
      <4>4. SinceTurn(j)' \in Nat
        <5>1. TypeOK' /\ (pc = "watching")' /\ (j \in DOMAIN chunks)'
          BY <1>6, <2>3, <3>2
        <5>2. Len(chunks') \in Nat
          BY <1>4, LenProperties
        <5> QED  BY <1>1, <4>1, <5>2 DEF SinceTurn
      <4> QED  BY <4>3, <4>4
    <3>3. \A a \in Addresses : a \notin ToSet(ips') => skipped'[a] = 0
      BY <1>1, <2>1
    <3> QED  BY <1>1, <2>3, <3>1, <3>2, <3>3 DEF TurnsSoFar
  <2> QED  BY <1>5, <2>2, <2>3
<1> QED  BY <1>6, <1>7, <1>8, <1>9, <1>10, <1>11


LEMMA RunPingTickStep ==
    ASSUME TargetsInv, RunPingTick
    PROVE  TargetsInv'
<1> USE DEF TargetsInv
<1> DEFINE pinged == ToSet(IF smallNet THEN ips ELSE chunks[pingChunk + 1])
<1>1. /\ pc = "watching" /\ batch' = pinged
      /\ skipped' = [a \in Addresses |->
                       IF a \in pinged \/ a \notin ToSet(ips) THEN 0
                       ELSE IF skipped[a] < Len(chunks) THEN skipped[a] + 1 ELSE skipped[a]]
      /\ pingChunk' = IF smallNet THEN pingChunk ELSE NextChunk(pingChunk)
      /\ UNCHANGED <<targets, spec, tui, pc, k, part, at, ports, ips, confirmed, chunks, paused>>
  BY DEF RunPingTick
<1>2. /\ chunks \in Seq(Seq(Addresses)) /\ pingChunk \in 0..(Len(chunks) - 1)
      /\ Len(chunks) \in Nat \ {0} /\ DOMAIN chunks = 1..Len(chunks)
      /\ pingChunk + 1 \in 1..Len(chunks)
  <2>1. chunks \in Seq(Seq(Addresses)) /\ pingChunk \in 0..(Len(chunks) - 1)
    BY <1>1 DEF TypeOK
  <2>2. Len(chunks) \in Nat /\ DOMAIN chunks = 1..Len(chunks)
    BY <2>1, LenProperties
  <2> QED  BY <2>1, <2>2
<1>3. /\ tui /\ chunks = splitIPChunks(ips)
      /\ \A a \in Addresses : a \notin ToSet(ips) => skipped[a] = 0
      /\ \A j \in DOMAIN chunks : \A a \in ToSet(chunks[j]) : skipped[a] <= SinceTurn(j)
  BY <1>1 DEF TurnsSoFar
<1>4. \A j \in DOMAIN chunks : ToSet(chunks[j]) \subseteq Addresses
  <2> SUFFICES ASSUME NEW j \in DOMAIN chunks, NEW a \in ToSet(chunks[j]) PROVE a \in Addresses
    OBVIOUS
  <2>1. chunks[j] \in Seq(Addresses)
    BY <1>2, ElementOfSeq
  <2> QED  BY <2>1, LenProperties, ElementOfSeq DEF ToSet
<1>5. ips \in Seq(Addresses) /\ skipped \in [Addresses -> Nat]
  BY DEF TypeOK
<1>6. pinged \subseteq Addresses
  <2>1. ToSet(ips) \subseteq Addresses
    BY <1>5, LenProperties, ElementOfSeq DEF ToSet
  <2>2. ToSet(chunks[pingChunk + 1]) \subseteq Addresses
    BY <1>2, <1>4
  <2> QED  BY <2>1, <2>2
<1> HIDE DEF pinged
<1>7. skipped' \in [Addresses -> Nat]
  <2>1. \A a \in Addresses : skipped[a] \in Nat /\ skipped[a] + 1 \in Nat
    BY <1>5
  <2> QED  BY <1>1, <2>1
<1>8. pingChunk' \in 0..(Len(chunks) - 1)
  <2>1. CASE smallNet
    BY <1>1, <1>2, <2>1
  <2>2. CASE ~smallNet
    <3>1. PICK p \in Nat, l \in Nat \ {0} : p = pingChunk /\ l = Len(chunks) /\ p < l
      <4>1. pingChunk \in Nat /\ Len(chunks) \in Nat \ {0} /\ pingChunk < Len(chunks)
        BY <1>2
      <4> QED  BY <4>1
    <3>2. p + 1 < l \/ p + 1 = l
      BY <3>1
    <3>3. pingChunk' = (p + 1) % l
      BY <1>1, <2>2, <3>1 DEF NextChunk
    <3>4. (p + 1) % l \in 0..(l - 1)
      OBVIOUS
    <3> QED  BY <3>1, <3>3, <3>4
  <2> QED  BY <2>1, <2>2
<1>9. TypeOK'
  <2>1. pingChunk' \in Nat
    BY <1>2, <1>8
  <2> QED  BY <1>1, <1>6, <1>7, <1>8, <2>1 DEF TypeOK
<1>10. JobsDistinct' /\ PortsSoFar'
  BY <1>1 DEF JobsDistinct, PortsSoFar, PortsOf
<1>11. ChecksSoFar' /\ AddressesSoFar'
  BY <1>1 DEF ChecksSoFar, Agreed, AddressesSoFar, AddressesOf, Scanning
<1>12. ASSUME NEW j \in DOMAIN chunks, NEW a \in ToSet(chunks[j])
       PROVE  skipped'[a] <= SinceTurn(j)'
  <2>1. PICK l \in Nat \ {0}, p \in Nat, q \in Nat, n \in Nat :
           /\ l = Len(chunks) /\ p = pingChunk /\ q = pingChunk' /\ n = skipped[a]
           /\ p < l /\ q < l
    <3>1. a \in Addresses
      BY <1>4
    <3>2. skipped[a] \in Nat
      BY <1>5, <3>1
    <3>3. pingChunk \in Nat /\ pingChunk < Len(chunks) /\ pingChunk' \in Nat /\ pingChunk' < Len(chunks)
      BY <1>2, <1>8
    <3> QED  BY <1>2, <3>2, <3>3
  <2>2. j \in 1..l
    BY <1>2, <2>1
  <2>3. SinceTurn(j) = IF j <= p THEN p - j ELSE p - j + l
    BY <2>1 DEF SinceTurn
  <2>4. SinceTurn(j)' = IF j <= q THEN q - j ELSE q - j + l
    BY <1>1, <2>1 DEF SinceTurn
  <2>5. n <= IF j <= p THEN p - j ELSE p - j + l
    BY <1>3, <2>1, <2>3
  <2>6. PICK m \in Nat : m = skipped'[a] /\ (m = 0 \/ (a \notin pinged /\ a \in ToSet(ips) /\ m <= n + 1))
    <3>1. a \in Addresses
      BY <1>4
    <3>2. skipped'[a] = IF a \in pinged \/ a \notin ToSet(ips) THEN 0
                        ELSE IF n < l THEN n + 1 ELSE n
      BY <1>1, <2>1, <3>1
    <3>3. CASE a \in pinged \/ a \notin ToSet(ips)
      BY <3>2, <3>3
    <3>4. CASE ~(a \in pinged \/ a \notin ToSet(ips))
      BY <3>2, <3>4
    <3> QED  BY <3>3, <3>4
  <2>7. CASE m = 0
    <3>1. 0 <= IF j <= q THEN q - j ELSE q - j + l
      BY <2>1, <2>2
    <3> QED  BY <2>4, <2>6, <2>7, <3>1
  <2>8. CASE a \notin pinged /\ a \in ToSet(ips) /\ m <= n + 1
    <3>1. ~smallNet
      BY <2>8 DEF pinged
    <3>2. a \notin ToSet(chunks[p + 1])
      BY <2>1, <2>8, <3>1 DEF pinged
    <3>3. j # p + 1
      BY <3>2
    <3>4. q = (p + 1) % l
      BY <1>1, <2>1, <3>1 DEF NextChunk
    <3>5. CASE p + 1 < l
      <4>1. q = p + 1
        BY <3>4, <3>5, ModIs
      <4>2. m <= IF j <= q THEN q - j ELSE q - j + l
        BY <2>2, <2>5, <2>8, <3>3, <4>1
      <4> QED  BY <2>4, <2>6, <4>2
    <3>6. CASE p + 1 = l
      <4>1. q = 0
        BY <3>4, <3>6, ModIs
      <4>2. m <= IF j <= q THEN q - j ELSE q - j + l
        BY <2>2, <2>5, <2>8, <3>3, <3>6, <4>1
      <4> QED  BY <2>4, <2>6, <4>2
    <3> QED  BY <2>1, <3>5, <3>6
  <2> QED  BY <2>6, <2>7, <2>8
<1>13. \A a \in Addresses : a \notin ToSet(ips) => skipped'[a] = 0
  BY <1>1
<1>14. TurnsSoFar'
  BY <1>1, <1>3, <1>12, <1>13 DEF TurnsSoFar
<1> QED  BY <1>9, <1>10, <1>11, <1>14

(* A pause, and the end, change nothing the invariant speaks of.           *)
LEMMA RestStep ==
    ASSUME TargetsInv, Pause \/ Ended \/ UNCHANGED vars
    PROVE  TargetsInv'
<1> USE DEF TargetsInv
<1>1. UNCHANGED <<targets, spec, tui, pc, k, part, at, ports, ips, confirmed,
                  chunks, pingChunk, batch, skipped>>
  BY DEF Pause, Ended, vars, loops
<1>2. TypeOK'
  BY <1>1 DEF TypeOK
<1>3. JobsDistinct' /\ PortsSoFar'
  BY <1>1 DEF JobsDistinct, PortsSoFar, PortsOf, DoneOf
<1>4. ChecksSoFar' /\ AddressesSoFar'
  BY <1>1 DEF ChecksSoFar, Agreed, AddressesSoFar, AddressesOf, Scanning, DoneOf
<1>5. TurnsSoFar'
  BY <1>1 DEF TurnsSoFar, SinceTurn
<1> QED  BY <1>2, <1>3, <1>4, <1>5

(* Each loop has done what it was to do, up to where it is: the inductive  *)
(* invariant of the way from the command line to the sweeps.               *)
THEOREM TargetsInvariant ==
    Spec => []TargetsInv
<1>1. TargetsInv /\ [Next]_vars => TargetsInv'
  BY ReadPartStep, AddPortStep, SortPortsStep, CheckStep, ExpandTargetStep, ListAddressStep,
     ScanStep, RunPingTickStep, RestStep DEF Next
<1> QED  BY InitInv, <1>1, PTL DEF Spec

(* No port of an address is probed twice: what PortScan assumes.           *)
THEOREM NothingTwice ==
    Spec => []JobsDistinct
<1>1. TargetsInv => JobsDistinct
  BY DEF TargetsInv
<1> QED  BY <1>1, TargetsInvariant, PTL

(* What is scanned, of every command line, is what was asked for: no       *)
(* address and no port less or more, and no large network unconfirmed.     *)
THEOREM AllAndOnlyWhatWasAsked ==
    Spec => []ScansWhatWasAsked
<1>1. TargetsInv => ScansWhatWasAsked
  <2> SUFFICES ASSUME TargetsInv, Scanning PROVE ScansWhatWasAsked
    BY DEF ScansWhatWasAsked
  <2>1. /\ Len(targets) \in Nat \ {0} /\ DOMAIN targets = 1..Len(targets)
        /\ \A i \in 1..Len(targets) : targets[i] \in CIDR /\ targets[i].len \in 0..Bits
    BY CommandLineIs DEF TargetsInv
  <2>2. ToSet(ips) = UNION {Usable(c) : c \in ToSet(targets)}
    <3>1. ToSet(ips) = AddressesOf(Len(targets))
      BY DEF TargetsInv, AddressesSoFar
    <3>2. \A i \in 1..Len(targets) : ToSet(expandCIDR(targets[i])) = Usable(targets[i])
      <4> SUFFICES ASSUME NEW i \in 1..Len(targets)
                   PROVE  ToSet(expandCIDR(targets[i])) = Usable(targets[i])
        OBVIOUS
      <4>1. targets[i].len >= MinPrefix
        BY <2>1 DEF TargetsInv, AddressesSoFar
      <4>2. targets[i] \in CIDR /\ targets[i].len >= 1
        BY <2>1, <4>1, PrefixesAre
      <4> QED  BY <4>2, UsableIs
    <3>3. AddressesOf(Len(targets)) = UNION {Usable(targets[i]) : i \in 1..Len(targets)}
      BY <3>2 DEF AddressesOf
    <3>4. ToSet(targets) = {targets[i] : i \in 1..Len(targets)}
      BY <2>1 DEF ToSet
    <3>5. UNION {Usable(targets[i]) : i \in 1..Len(targets)} = UNION {Usable(c) : c \in ToSet(targets)}
      BY <3>4
    <3> QED  BY <3>1, <3>3, <3>5
  <2>3. ToSet(ports) = {p \in 1..MaxPort : \E r \in ToSet(spec) : r.lo <= p /\ p <= r.hi}
    <3>1. ToSet(ports) = PortsOf(Len(spec)) /\ \A i \in DOMAIN spec : Valid(spec[i])
      BY DEF TargetsInv, PortsSoFar, Scanning
    <3>2. /\ DOMAIN spec = 1..Len(spec)
          /\ \A i \in 1..Len(spec) : spec[i] \in [lo : 0..(MaxPort + 1), hi : 0..(MaxPort + 1)]
      BY CommandLineIs DEF TargetsInv
    <3>3. \A i \in 1..Len(spec) : ToSet(Expanded(spec[i])) = spec[i].lo..spec[i].hi
      BY <3>1, <3>2, ExpandedIs
    <3>4. ASSUME NEW i \in 1..Len(spec), NEW p
          PROVE  p \in ToSet(Expanded(spec[i])) <=> p \in 1..MaxPort /\ spec[i].lo <= p /\ p <= spec[i].hi
      <4>1. PICK lo \in Nat, hi \in Nat : lo = spec[i].lo /\ hi = spec[i].hi /\ lo >= 1 /\ hi <= MaxPort
        BY <3>1, <3>2, MaxPortIs DEF Valid
      <4>2. p \in lo..hi <=> p \in 1..MaxPort /\ lo <= p /\ p <= hi
        BY <4>1, MaxPortIs
      <4> QED  BY <3>3, <4>1, <4>2
    <3>5. ToSet(spec) = {spec[i] : i \in 1..Len(spec)}
      BY <3>2 DEF ToSet
    <3>6. \A p : p \in PortsOf(Len(spec)) <=> \E i \in 1..Len(spec) : p \in ToSet(Expanded(spec[i]))
      BY DEF PortsOf
    <3>7. \A p : p \in ToSet(ports) <=>
                 p \in 1..MaxPort /\ \E r \in ToSet(spec) : r.lo <= p /\ p <= r.hi
      BY <3>1, <3>4, <3>5, <3>6
    <3> QED  BY <3>7
  <2>4. ASSUME pc = "watching", NEW i \in DOMAIN targets
        PROVE  /\ Size(targets[i]) <= Sizes[tuiMaxPrefix]
               /\ Size(targets[i]) >= Sizes[tuiWarnPrefix] => i \in confirmed
    <3>1. Agreed(i)
      BY <2>4 DEF TargetsInv, ChecksSoFar, TurnsSoFar
    <3>2. PICK len \in 0..Bits, s \in Nat : len = targets[i].len /\ s = Sizes[len] /\ s = Size(targets[i])
      BY <2>1, <2>4, LengthsAre DEF Size
    <3>3. len >= tuiMaxPrefix /\ (len <= tuiWarnPrefix => i \in confirmed)
      BY <3>1, <3>2 DEF Agreed
    <3>4. len \in Nat /\ tuiMaxPrefix \in 0..Bits /\ tuiWarnPrefix \in 0..Bits
      BY PrefixesAre, LengthsAre
    <3>5. PICK x \in Nat, y \in Nat : x = Sizes[tuiMaxPrefix] /\ y = Sizes[tuiWarnPrefix]
      BY <3>4, LengthsAre
    <3>6. len = tuiMaxPrefix \/ tuiMaxPrefix < len
      BY <3>3, <3>4
    <3>7. s <= x
      <4>1. len = tuiMaxPrefix => s = x
        BY <3>2, <3>5
      <4>2. tuiMaxPrefix < len => s < x
        BY <3>2, <3>4, <3>5, LongerIsSmaller
      <4> QED  BY <3>6, <4>1, <4>2
    <3>8. len <= tuiWarnPrefix \/ tuiWarnPrefix < len
      BY <3>4
    <3>9. tuiWarnPrefix < len => s < y
      BY <3>2, <3>4, <3>5, LongerIsSmaller
    <3>10. s >= y => i \in confirmed
      BY <3>3, <3>8, <3>9
    <3> QED  BY <3>2, <3>5, <3>7, <3>10
  <2> QED  BY <2>2, <2>3, <2>4 DEF ScansWhatWasAsked
<1> QED  BY <1>1, TargetsInvariant, PTL

(* The two ways the code tells what belongs to a network agree: ipInTarget *)
(* lets nothing into the report that expandCIDR did not have scanned.      *)
THEOREM AddedWasScanned ==
    Spec => []OnlyScannedAreAdded
<1>1. TargetsInv => OnlyScannedAreAdded
  <2> SUFFICES ASSUME TargetsInv, Scanning, NEW c \in ToSet(targets), NEW a \in Addresses, ipInTarget(a, c)
               PROVE  a \in ToSet(ips)
    BY DEF OnlyScannedAreAdded
  <2>1. PICK i \in 1..Len(targets) : c = targets[i]
    BY CommandLineIs DEF TargetsInv, ToSet
  <2>2. /\ targets[i].len >= MinPrefix /\ targets[i].len \in 0..Bits /\ targets[i] \in CIDR
        /\ ToSet(ips) = AddressesOf(Len(targets))
    BY CommandLineIs DEF TargetsInv, AddressesSoFar
  <2>3. c \in CIDR /\ c.len >= 1
    BY <2>1, <2>2, PrefixesAre
  <2>4. a \in ToSet(expandCIDR(targets[i]))
    BY <2>1, <2>3, AddedIsListed
  <2> QED  BY <2>1, <2>2, <2>4 DEF AddressesOf
<1> QED  BY <1>1, TargetsInvariant, PTL

(* No address of the scan waits longer than the other chunks take, however *)
(* large the network and however often the sweeps are paused.              *)
THEOREM NoChunkStarves ==
    Spec => []TurnsAreFair
<1>1. TargetsInv => TurnsAreFair
  <2> SUFFICES ASSUME TargetsInv, pc = "watching", NEW a \in Addresses
               PROVE  skipped[a] < Len(chunks)
    BY DEF TurnsAreFair
  <2>1. chunks \in Seq(Seq(Addresses)) /\ pingChunk \in 0..(Len(chunks) - 1) /\ skipped[a] \in Nat
        /\ ips \in Seq(Addresses)
    BY DEF TargetsInv, TypeOK
  <2>2. Len(chunks) \in Nat
    BY <2>1, LenProperties
  <2>3. CASE a \notin ToSet(ips)
    <3>1. skipped[a] = 0
      BY <2>3 DEF TargetsInv, TurnsSoFar
    <3> QED  BY <2>1, <2>2, <3>1
  <2>4. CASE a \in ToSet(ips)
    <3>1. PICK j \in DOMAIN chunks : a \in ToSet(chunks[j])
      BY <2>1, <2>4, ChunksHoldAll DEF TargetsInv, TurnsSoFar
    <3>2. skipped[a] <= SinceTurn(j)
      BY <3>1 DEF TargetsInv, TurnsSoFar
    <3>3. SinceTurn(j) \in Nat /\ SinceTurn(j) < Len(chunks)
      BY SinceTurnIs DEF TargetsInv
    <3> QED  BY <2>1, <2>2, <3>2, <3>3
  <2> QED  BY <2>3, <2>4
<1> QED  BY <1>1, TargetsInvariant, PTL
=============================================================================
