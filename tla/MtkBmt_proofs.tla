--------------------------- MODULE MtkBmt_proofs ---------------------------
(***************************************************************************)
(* Proofs about MtkBmt, for chips of any size, any blocks bad from the     *)
(* beginning, and any number of operations, faults and crashes.            *)
(***************************************************************************)
EXTENDS MtkBmt, FiniteSetTheorems, WellFoundedInduction, TLAPS

-----------------------------------------------------------------------------
(* The least, the greatest and the k-th element of a set of numbers.       *)

LEMMA HasLeast ==
  ASSUME NEW S \in SUBSET Nat, S # {}
  PROVE  Least(S) \in S /\ \A y \in S : Least(S) <= y
<1>1. \E x \in S : \A y \in S : ~ (<<y, x>> \in OpToRel(<, Nat))
  BY NatLessThanWellFounded, WFMin
<1>2. \E x \in S : \A y \in S : x <= y
  <2>1. PICK x \in S : \A y \in S : ~ (<<y, x>> \in OpToRel(<, Nat))
    BY <1>1
  <2>2. ASSUME NEW y \in S, y < x PROVE FALSE
    <3>1. <<y, x>> \in Nat \X Nat /\ <<y, x>>[1] = y /\ <<y, x>>[2] = x
      OBVIOUS
    <3>2. <<y, x>> \in OpToRel(<, Nat)
      BY <2>2, <3>1 DEF OpToRel
    <3>3. QED BY <2>1, <3>2
  <2>3. \A y \in S : x \in Nat /\ y \in Nat /\ ~ (y < x)
    BY <2>2
  <2>4. QED BY <2>3
<1>3. QED BY <1>2 DEF Least

LEMMA HasGreatest ==
  ASSUME NEW n \in Nat, NEW S \in SUBSET (0..n), S # {}
  PROVE  Greatest(S) \in S /\ \A y \in S : Greatest(S) >= y
<1> DEFINE T == {k \in 0..n : n - k \in S}
<1>1. PICK x \in S : TRUE
  OBVIOUS
<1>2. n - x \in 0..n /\ n - (n - x) = x
  OBVIOUS
<1>3. T \in SUBSET Nat /\ T # {}
  <2>1. n - x \in T
    BY <1>1, <1>2
  <2>2. T \in SUBSET Nat
    OBVIOUS
  <2>3. QED BY <2>1, <2>2
<1>4. Least(T) \in T /\ \A y \in T : Least(T) <= y
  BY <1>3, HasLeast
<1> HIDE DEF T
<1>5. PICK k \in T : \A y \in T : k <= y
  BY <1>4
<1>6. k \in 0..n /\ n - k \in S
  BY DEF T
<1>7. ASSUME NEW y \in S PROVE n - k >= y
  <2>1. n - y \in T
    <3>1. n - y \in 0..n /\ n - (n - y) = y
      OBVIOUS
    <3>2. QED BY <3>1 DEF T
  <2>2. k <= n - y
    BY <1>5, <2>1
  <2>3. QED BY <1>6, <2>2
<1>8. \E z \in S : \A y \in S : z >= y
  BY <1>6, <1>7
<1>9. QED BY <1>8 DEF Greatest

Below(S, x) == {y \in S : y < x}

LEMMA NextBelow ==
  ASSUME NEW S \in SUBSET Nat, IsFiniteSet(S), NEW x \in S
  PROVE  LET U == {y \in S : y > x} IN
         U # {} => /\ Least(U) \in S
                   /\ Cardinality(Below(S, Least(U))) = Cardinality(Below(S, x)) + 1
<1> DEFINE U == {y \in S : y > x}
           u == Least(U)
<1> SUFFICES ASSUME U # {}
             PROVE  u \in S /\ Cardinality(Below(S, u)) = Cardinality(Below(S, x)) + 1
  OBVIOUS
<1>1. u \in U /\ \A y \in U : u <= y
  BY HasLeast
<1> HIDE DEF u
<1>2. Below(S, u) = Below(S, x) \cup {x} /\ x \notin Below(S, x)
  <2>1. u \in S /\ u \in Nat /\ x \in Nat /\ x < u
    BY <1>1
  <2>2. \A y \in S : y > x => u <= y
    BY <1>1
  <2>3. \A y \in S : y < u <=> y < x \/ y = x
    <3> SUFFICES ASSUME NEW y \in S PROVE y < u <=> y < x \/ y = x
      OBVIOUS
    <3>1. y \in Nat /\ (y > x => u <= y)
      BY <2>2
    <3>2. QED BY <2>1, <3>1
  <2>4. \A y : y \in Below(S, u) <=> y \in Below(S, x) \cup {x}
    BY <2>1, <2>3 DEF Below
  <2>5. x \notin Below(S, x)
    BY <2>1 DEF Below
  <2>6. QED BY <2>4, <2>5
<1>3. IsFiniteSet(Below(S, x))
  BY FS_Subset DEF Below
<1>4. QED BY <1>1, <1>2, <1>3, FS_AddElement

LEMMA BelowFinite ==
  ASSUME NEW S \in SUBSET Nat, IsFiniteSet(S), NEW x
  PROVE  IsFiniteSet(Below(S, x)) /\ Cardinality(Below(S, x)) \in Nat
BY FS_Subset, FS_CardinalityType DEF Below

LEMMA HasNth ==
  ASSUME NEW S \in SUBSET Nat, IsFiniteSet(S), NEW k \in 0..(Cardinality(S) - 1)
  PROVE  Nth(S, k) \in S /\ Cardinality(Below(S, Nth(S, k))) = k
<1> DEFINE Reached(j) == \E x \in S : Cardinality(Below(S, x)) = j
           T == {j \in Nat : j < Cardinality(S) /\ ~Reached(j)}
<1>0. Cardinality(S) \in Nat
  BY FS_CardinalityType
<1>1. T = {}
  <2> SUFFICES ASSUME T # {} PROVE FALSE
    OBVIOUS
  <2> DEFINE j == Least(T)
  <2>1. j \in T /\ \A i \in T : j <= i
    BY HasLeast
  <2> HIDE DEF j
  <2>2. j \in Nat /\ j < Cardinality(S) /\ ~Reached(j)
    BY <2>1
  <2>3. CASE j = 0
    <3>1. S # {}
      BY <1>0, <2>2, <2>3, FS_EmptySet
    <3>2. Least(S) \in S /\ \A y \in S : Least(S) <= y
      BY <3>1, HasLeast
    <3>3. Below(S, Least(S)) = {}
      <4>1. PICK m \in S : m = Least(S) /\ \A y \in S : m <= y
        BY <3>2
      <4>2. \A y \in S : y \in Nat /\ m \in Nat /\ ~ (y < m)
        BY <4>1
      <4>3. QED BY <4>1, <4>2 DEF Below
    <3>4. QED BY <2>2, <2>3, <3>2, <3>3, FS_EmptySet
  <2>4. CASE j # 0
    <3>1. j - 1 \in Nat /\ j - 1 < Cardinality(S) /\ j - 1 \notin T
      BY <1>0, <2>1, <2>2, <2>4
    <3>2. PICK x \in S : Cardinality(Below(S, x)) = j - 1
      BY <3>1
    <3> DEFINE U == {y \in S : y > x}
    <3>3. U # {}
      <4> SUFFICES ASSUME U = {} PROVE FALSE
        OBVIOUS
      <4>1. S = Below(S, x) \cup {x} /\ x \notin Below(S, x)
        <5>1. \A y \in S : y < x \/ y = x
          <6> SUFFICES ASSUME NEW y \in S PROVE y < x \/ y = x
            OBVIOUS
          <6>1. ~ (y > x) /\ y \in Nat /\ x \in Nat
            OBVIOUS
          <6>2. QED BY <6>1
        <5>2. ~ (x < x)
          OBVIOUS
        <5>3. QED BY <5>1, <5>2 DEF Below
      <4>2. Cardinality(S) = j
        BY <2>2, <3>2, <4>1, BelowFinite, FS_AddElement
      <4>3. QED BY <2>2, <4>2
    <3>4. Least(U) \in S /\ Cardinality(Below(S, Least(U))) = j
      BY <2>2, <3>2, <3>3, NextBelow
    <3>5. QED BY <2>2, <3>4
  <2>5. QED BY <2>3, <2>4
<1>2. k \in Nat /\ k < Cardinality(S)
  BY <1>0
<1>3. \E x \in S : Cardinality({y \in S : y < x}) = k
  BY <1>1, <1>2 DEF Below
<1>4. QED BY <1>3 DEF Nth, Below

(* Different positions have different elements, in order.                  *)
LEMMA NthOrder ==
  ASSUME NEW S \in SUBSET Nat, IsFiniteSet(S),
         NEW j \in 0..(Cardinality(S) - 1), NEW k \in 0..(Cardinality(S) - 1), j < k
  PROVE  Nth(S, j) < Nth(S, k)
<1>0. Cardinality(S) \in Nat
  BY FS_CardinalityType
<1> DEFINE x == Nth(S, j)
           y == Nth(S, k)
<1>1. x \in S /\ y \in S /\ Cardinality(Below(S, x)) = j /\ Cardinality(Below(S, y)) = k
  BY HasNth
<1> HIDE DEF x, y
<1>2. y <= x => Below(S, y) \subseteq Below(S, x)
  <2>1. y <= x => \A z \in S : z < y => z < x
    <3> SUFFICES ASSUME y <= x, NEW z \in S, z < y PROVE z < x
      OBVIOUS
    <3>1. x \in Nat /\ y \in Nat /\ z \in Nat
      BY <1>1
    <3>2. QED BY <3>1
  <2>2. QED BY <2>1 DEF Below
<1>3. Below(S, y) \subseteq Below(S, x) => k <= j
  BY <1>1, BelowFinite, FS_Subset
<1>4. x < y
  BY <1>0, <1>1, <1>2, <1>3
<1>5. QED BY <1>4 DEF x, y

-----------------------------------------------------------------------------
(* Which blocks and entries a boot and a remap find.                       *)

Assumptions == BmtAssumption /\ TableAssumption

LEMMA Sizes ==
  ASSUME BmtAssumption
  PROVE  /\ Total \in Nat /\ Pages \in Nat /\ PoolLba \in Nat
         /\ 1 <= PoolLba /\ PoolLba < Total /\ 1 <= Pages
         /\ 0 \in Phys /\ 0 \in Logical /\ 1 \in Page
         /\ Logical \subseteq Phys /\ User \subseteq Logical
BY DEF BmtAssumption, Phys, Logical, Page, User

LEMMA TableIn ==
  ASSUME NEW p \in Phys, flash \in [Phys -> Content],
         flash[p].table # NoTable, flash[p].table # Torn
  PROVE  flash[p].table \in Table
BY DEF Content

LEMMA SignedFound ==
  ASSUME BmtAssumption, Signed # {}
  PROVE  /\ Greatest(Signed) \in Signed /\ Greatest(Signed) \in Phys
         /\ \A p \in Signed : p <= Greatest(Signed)
<1>1. Signed \in SUBSET (0..(Total - 1)) /\ Total - 1 \in Nat
  BY DEF BmtAssumption, Signed
<1>2. Greatest(Signed) \in Signed /\ \A p \in Signed : Greatest(Signed) >= p
  BY <1>1, HasGreatest
<1>3. PICK g \in Signed : g = Greatest(Signed) /\ \A p \in Signed : g >= p
  BY <1>2
<1>4. \A p \in Signed : p <= g
  BY <1>1, <1>3
<1>5. QED BY <1>1, <1>3, <1>4 DEF Phys

LEMMA FreeFound ==
  ASSUME BmtAssumption, FreeEntries # {}
  PROVE  Least(FreeEntries) \in FreeEntries /\ Least(FreeEntries) \in Phys
<1>1. FreeEntries \in SUBSET Nat
  BY DEF FreeEntries, Phys, BmtAssumption
<1>2. QED BY <1>1, HasLeast DEF FreeEntries

(* The index get_bmt_index() finds: the entry marked as the table's.       *)
BmtAt(pool) == {i \in Phys : pool[i].mapped = "bmt" /\ \A j \in 0..i : pool[j].block # 0}

LEMMA IndexFound ==
  ASSUME BmtAssumption, NEW pool
  PROVE  /\ BmtIndex(pool) \in Phys
         /\ BmtAt(pool) # {} => BmtIndex(pool) \in BmtAt(pool)
         /\ BmtAt(pool) = {} => BmtIndex(pool) = 0
<1>1. BmtAt(pool) \in SUBSET Nat /\ BmtAt(pool) \subseteq Phys
  BY DEF BmtAt, Phys, BmtAssumption
<1>2. BmtIndex(pool) = IF BmtAt(pool) = {} THEN 0 ELSE Least(BmtAt(pool))
  BY DEF BmtIndex, BmtAt
<1>3. QED BY <1>1, <1>2, HasLeast, Sizes

(* scan_bad_blocks() gives the logical blocks the first valid blocks, in   *)
(* order, and the pool those behind them.                                  *)
PoolBlocks == {p \in Valid : p >= Pba}

LEMMA ValidBlocks ==
  ASSUME BmtAssumption
  PROVE  /\ Valid \in SUBSET Nat /\ IsFiniteSet(Valid) /\ Cardinality(Valid) \in Nat
         /\ \A p \in Valid : p \in 1..(Total - 1)
<1>1. Valid \subseteq 1..(Total - 1)
  BY DEF Valid
<1>2. IsFiniteSet(1..(Total - 1))
  BY FS_Interval DEF BmtAssumption
<1>3. IsFiniteSet(Valid)
  BY <1>1, <1>2, FS_Subset
<1>4. QED BY <1>1, <1>3, FS_CardinalityType DEF BmtAssumption

LEMMA PoolBegins ==
  ASSUME BmtAssumption, EnoughBlocks
  PROVE  /\ Pba \in Nat /\ PoolLba <= Pba
         /\ Cardinality(Below(Valid, Pba)) = PoolLba - 1
         /\ \A l \in Logical : l # 0 => /\ ScannedMap[l] \in Valid
                                       /\ ScannedMap[l] < Pba
<1>0. /\ Valid \in SUBSET Nat /\ IsFiniteSet(Valid) /\ Cardinality(Valid) \in Nat
      /\ \A p \in Valid : p \in 1..(Total - 1)
      /\ PoolLba \in Nat /\ 1 <= PoolLba /\ PoolLba <= Cardinality(Valid)
  BY ValidBlocks, Sizes DEF EnoughBlocks
<1>1. CASE PoolLba = 1
  <2>1. Pba = 1
    BY <1>1 DEF Pba
  <2>2. Below(Valid, 1) = {}
    <3>1. \A p \in Valid : ~ (p < 1)
      BY <1>0
    <3>2. QED BY <3>1 DEF Below
  <2>3. \A l \in Logical : l = 0
    BY <1>1 DEF Logical
  <2>4. QED BY <1>1, <2>1, <2>2, <2>3, FS_EmptySet
<1>2. CASE PoolLba # 1
  <2> DEFINE k == PoolLba - 2
             x == Nth(Valid, k)
  <2>1. k \in 0..(Cardinality(Valid) - 1)
    BY <1>0, <1>2
  <2>2. x \in Valid /\ Cardinality(Below(Valid, x)) = k
    BY <1>0, <2>1, HasNth
  <2>3. Pba = x + 1
    BY <1>2 DEF Pba
  <2> HIDE DEF x
  <2>4. x \in Nat /\ Pba \in Nat
    BY <1>0, <2>2, <2>3
  <2>5. Below(Valid, Pba) = Below(Valid, x) \cup {x} /\ x \notin Below(Valid, x)
    <3>1. \A y \in Valid : y < x + 1 <=> y < x \/ y = x
      <4> SUFFICES ASSUME NEW y \in Valid PROVE y < x + 1 <=> y < x \/ y = x
        OBVIOUS
      <4>1. y \in Nat
        BY <1>0
      <4>2. QED BY <2>4, <4>1
    <3>2. \A y : y \in Below(Valid, Pba) <=> y \in Below(Valid, x) \cup {x}
      BY <2>2, <2>3, <3>1 DEF Below
    <3>3. x \notin Below(Valid, x)
      BY <2>4 DEF Below
    <3>4. QED BY <3>2, <3>3
  <2>6. Cardinality(Below(Valid, Pba)) = PoolLba - 1
    <3>1. IsFiniteSet(Below(Valid, x))
      BY <1>0, BelowFinite
    <3>2. Cardinality(Below(Valid, Pba)) = Cardinality(Below(Valid, x)) + 1
      BY <2>5, <3>1, FS_AddElement
    <3>3. QED BY <1>0, <2>2, <3>2
  <2>7. PoolLba <= Pba
    <3>1. Below(Valid, Pba) \subseteq 1..(Pba - 1)
      <4>1. \A y \in Valid : y < Pba => y \in 1..(Pba - 1)
        <5> SUFFICES ASSUME NEW y \in Valid, y < Pba PROVE y \in 1..(Pba - 1)
          OBVIOUS
        <5>1. y \in 1..(Total - 1)
          BY <1>0
        <5>2. QED BY <2>4, <5>1
      <4>2. QED BY <4>1 DEF Below
    <3>2. IsFiniteSet(1..(Pba - 1)) /\ Cardinality(1..(Pba - 1)) <= Pba - 1
      <4>1. 1 \in Int /\ Pba - 1 \in Int /\ 0 <= Pba - 1
        BY <2>3, <2>4
      <4>2. /\ IsFiniteSet(1..(Pba - 1))
            /\ Cardinality(1..(Pba - 1)) = IF 1 > Pba - 1 THEN 0 ELSE (Pba - 1) - 1 + 1
        BY ONLY <4>1, FS_Interval
      <4>3. QED BY <4>1, <4>2
    <3>3. Cardinality(Below(Valid, Pba)) <= Cardinality(1..(Pba - 1))
      BY <3>1, <3>2, FS_Subset
    <3>4. Cardinality(1..(Pba - 1)) \in Nat
      BY <3>2, FS_CardinalityType
    <3>5. QED BY <1>0, <2>4, <2>6, <3>2, <3>3, <3>4
  <2>8. ASSUME NEW l \in Logical, l # 0
        PROVE  ScannedMap[l] \in Valid /\ ScannedMap[l] < Pba
    <3>1. l - 1 \in 0..k /\ l - 1 \in 0..(Cardinality(Valid) - 1)
      BY <1>0, <2>8 DEF Logical
    <3>2. ScannedMap[l] = Nth(Valid, l - 1)
      BY <2>8 DEF ScannedMap
    <3>3. PICK z \in Valid : z = Nth(Valid, l - 1)
      BY <1>0, <3>1, HasNth
    <3>4. z = x \/ z < x
      <4>1. CASE l - 1 = k
        BY <3>3, <4>1 DEF x
      <4>2. CASE l - 1 < k
        <5>1. Nth(Valid, l - 1) < Nth(Valid, k)
          BY <1>0, <2>1, <3>1, <4>2, NthOrder
        <5>2. QED BY <3>3, <5>1 DEF x
      <4>3. QED BY <2>1, <3>1, <4>1, <4>2
    <3>5. z \in Nat
      BY <1>0
    <3>6. z < Pba
      BY <2>3, <2>4, <3>4, <3>5
    <3>7. QED BY <3>2, <3>3, <3>6
  <2>9. QED BY <2>4, <2>6, <2>7, <2>8
<1>3. QED BY <1>1, <1>2

LEMMA PoolFound ==
  ASSUME BmtAssumption, EnoughBlocks
  PROVE  /\ PoolBlocks \in SUBSET Nat /\ IsFiniteSet(PoolBlocks)
         /\ Cardinality(PoolBlocks) \in 1..(Total - 1)
<1>0. /\ Valid \in SUBSET Nat /\ IsFiniteSet(Valid) /\ Cardinality(Valid) \in Nat
      /\ \A p \in Valid : p \in 1..(Total - 1)
      /\ PoolLba \in Nat /\ 1 <= PoolLba /\ PoolLba <= Cardinality(Valid)
      /\ Total \in Nat
  BY ValidBlocks, Sizes DEF EnoughBlocks
<1>1. Pba \in Nat /\ Cardinality(Below(Valid, Pba)) = PoolLba - 1
  BY PoolBegins
<1>2. PoolBlocks \subseteq Valid /\ PoolBlocks \in SUBSET Nat
  BY <1>0 DEF PoolBlocks
<1>3. IsFiniteSet(PoolBlocks) /\ Cardinality(PoolBlocks) \in Nat
  BY <1>0, <1>2, FS_Subset, FS_CardinalityType
<1>4. Valid = Below(Valid, Pba) \cup PoolBlocks /\ Below(Valid, Pba) \cap PoolBlocks = {}
  <2>1. \A p \in Valid : p < Pba <=> ~ (p >= Pba)
    <3> SUFFICES ASSUME NEW p \in Valid PROVE p < Pba <=> ~ (p >= Pba)
      OBVIOUS
    <3>1. p \in Nat
      BY <1>0
    <3>2. QED BY <1>1, <3>1
  <2>2. QED BY <2>1 DEF Below, PoolBlocks
<1>5. IsFiniteSet(Below(Valid, Pba))
  BY <1>0, BelowFinite
<1>6. Cardinality(Valid) =
        Cardinality(Below(Valid, Pba)) + Cardinality(PoolBlocks) - 0
  BY <1>3, <1>4, <1>5, FS_Union, FS_EmptySet
<1>7. 1 <= Cardinality(PoolBlocks)
  BY <1>0, <1>1, <1>3, <1>6
<1>8. Cardinality(PoolBlocks) <= Total - 1
  <2>1. PoolBlocks \subseteq 1..(Total - 1)
    BY <1>0, <1>2
  <2>2. 1 \in Int /\ Total - 1 \in Int /\ 1 <= Total - 1
    BY Sizes
  <2>3. /\ IsFiniteSet(1..(Total - 1))
        /\ Cardinality(1..(Total - 1)) = IF 1 > Total - 1 THEN 0 ELSE (Total - 1) - 1 + 1
    BY ONLY <2>2, FS_Interval
  <2>4. Cardinality(PoolBlocks) <= Cardinality(1..(Total - 1))
    BY <2>1, <2>3, FS_Subset
  <2>5. QED BY <2>2, <2>3, <2>4
<1>9. QED BY <1>0, <1>2, <1>3, <1>7, <1>8

(* What a scan puts into the table, and which entry holds it.              *)
ScanIdx == Cardinality(PoolBlocks) - 1

LEMMA ScannedTable ==
  ASSUME BmtAssumption, EnoughBlocks
  PROVE  /\ ScanIdx \in Phys
         /\ [bb |-> ScannedMap, pool |-> ScannedPool(Pba)] \in Table
         /\ \A i \in Phys : i <= ScanIdx =>
              /\ ScannedPool(Pba)[i].block \in PoolBlocks
              /\ ScannedPool(Pba)[i].block = Nth(PoolBlocks, i)
              /\ ScannedPool(Pba)[i].mapped = IF i = ScanIdx THEN "bmt" ELSE "no"
         /\ \A i \in Phys : i > ScanIdx => ScannedPool(Pba)[i] = NoEntry
<1> DEFINE pool == ScannedPool(Pba)
           n == Cardinality(PoolBlocks)
<1>0. /\ PoolBlocks \in SUBSET Nat /\ IsFiniteSet(PoolBlocks) /\ n \in 1..(Total - 1)
      /\ PoolBlocks \subseteq Phys /\ Total \in Nat
  BY PoolFound, ValidBlocks, Sizes DEF PoolBlocks, Phys
<1>1. ScanIdx \in Phys /\ ScanIdx = n - 1
  BY <1>0 DEF ScanIdx, Phys
<1>2. pool = [i \in Phys |-> IF i >= n THEN NoEntry
                ELSE [block |-> Nth(PoolBlocks, i),
                      mapped |-> IF i = n - 1 THEN "bmt" ELSE "no"]]
  BY DEF ScannedPool, PoolBlocks
<1> HIDE DEF pool, n
<1>3. \A i \in Phys : ~ (i >= n) => Nth(PoolBlocks, i) \in PoolBlocks
  <2> SUFFICES ASSUME NEW i \in Phys, ~ (i >= n) PROVE Nth(PoolBlocks, i) \in PoolBlocks
    OBVIOUS
  <2>1. i \in 0..(n - 1)
    BY <1>0 DEF Phys
  <2>2. QED BY <1>0, <2>1, HasNth DEF n
<1>4. \A i \in Phys : pool[i] \in Entry
  <2>1. NoEntry \in Entry
    BY Sizes DEF NoEntry, Entry
  <2>2. QED BY <1>0, <1>2, <1>3, <2>1 DEF Entry
<1>5. pool \in [Phys -> Entry]
  BY <1>2, <1>4
<1>6. ScannedMap \in [Logical -> Phys]
  <2>1. \A l \in Logical : ScannedMap[l] \in Phys
    <3>1. \A l \in Logical : l # 0 => ScannedMap[l] \in Phys
      BY PoolBegins, ValidBlocks DEF Phys
    <3>2. ScannedMap[0] \in Phys
      BY Sizes DEF ScannedMap
    <3>3. QED BY <3>1, <3>2
  <2>2. QED BY <2>1 DEF ScannedMap
<1>7. \A i \in Phys : (i <= ScanIdx <=> ~ (i >= n)) /\ (i > ScanIdx <=> i >= n)
  BY <1>0, <1>1 DEF Phys
<1>8. \A i \in Phys : i <= ScanIdx =>
         /\ pool[i].block \in PoolBlocks
         /\ pool[i].block = Nth(PoolBlocks, i)
         /\ pool[i].mapped = IF i = ScanIdx THEN "bmt" ELSE "no"
  BY <1>1, <1>2, <1>3, <1>7
<1>9. \A i \in Phys : i > ScanIdx => pool[i] = NoEntry
  BY <1>2, <1>7
<1>10. QED BY <1>1, <1>5, <1>6, <1>8, <1>9 DEF Table, pool

-----------------------------------------------------------------------------
(* Types: what the steps write to the chip, the table and the operation    *)
(* stays in range.  A program operation of upload_bmt() has a place.       *)

TypeInv == BmtTypeOK /\ (pc = "uwrite" => Uploading)

LEMMA NoOpType ==
  ASSUME BmtAssumption
  PROVE  NoOp \in Op /\ AnyData \in Data /\ NoMap \in Table
<1>1. AnyData \in Data
  BY DEF AnyData, BmtAssumption
<1>2. NoOp \in Op
  BY <1>1, Sizes DEF NoOp, Op, Kind, Pc
<1>3. NoMap \in Table
  <2>1. NoEntry \in Entry
    BY Sizes DEF NoEntry, Entry
  <2>2. QED BY <2>1, Sizes DEF NoMap, Table
<1>4. QED BY <1>1, <1>2, <1>3

LEMMA FilledType ==
  ASSUME NEW c \in Cell
  PROVE  /\ Filled(c) \in Content
         /\ [Filled(c) EXCEPT !.table = Torn] \in Content
BY DEF Filled, Content

LEMMA CellTypes == "blank" \in Cell /\ "junk" \in Cell
BY DEF Cell

(* A page of the chip is programmed, or its block replaced.                *)
LEMMA PageWritten ==
  ASSUME flash \in [Phys -> Content], NEW b \in Phys, NEW p \in Page, NEW v \in Cell
  PROVE  [flash EXCEPT ![b].pages[p] = v] \in [Phys -> Content]
BY DEF Content

LEMMA RemapOpType ==
  ASSUME NEW o \in Op, NEW src \in Phys, NEW dst \in Phys, NEW len \in 0..Pages,
         NEW n \in -1..(Total - 1), NEW then \in Pc, 1 \in Page
  PROVE  [o EXCEPT !.src = src, !.dst = dst, !.len = len, !.at = 1,
                   !.retry = o.retry + 1, !.n = n, !.then = then] \in Op
<1>1. o.retry + 1 \in Nat
  BY DEF Op
<1>2. QED BY <1>1 DEF Op

LEMMA MappedType ==
  ASSUME NEW pool \in [Phys -> Entry], NEW i \in Phys, NEW m \in {"no", "normal", "bmt"}
  PROVE  [pool EXCEPT ![i].mapped = m] \in [Phys -> Entry]
BY DEF Entry

LEMMA BlockType ==
  ASSUME NEW pool \in [Phys -> Entry], NEW i \in Phys, NEW b \in Phys
  PROVE  [pool EXCEPT ![i].block = b] \in [Phys -> Entry]
BY DEF Entry

LEMMA FreedType ==
  ASSUME NEW pool \in [Phys -> Entry], NEW S
  PROVE  [i \in Phys |-> IF i \in S THEN [pool[i] EXCEPT !.mapped = "no"] ELSE pool[i]]
           \in [Phys -> Entry]
<1>1. ASSUME NEW i \in Phys PROVE [pool[i] EXCEPT !.mapped = "no"] \in Entry
  BY DEF Entry
<1>2. QED BY <1>1

LEMMA RemapType ==
  ASSUME BmtAssumption, TypeInv, NEW len \in 0..Pages, NEW then \in Pc,
         NEW otherwise \in Pc, otherwise # "uwrite", RemapOr(len, then, otherwise)
  PROVE  /\ tbl' \in Table /\ idx' \in Phys /\ op' \in Op
         /\ pc' \in Pc /\ pc' # "uwrite"
<1>0. /\ tbl \in Table /\ idx \in Phys /\ op \in Op /\ Cur \in Phys
  BY DEF TypeInv, BmtTypeOK, Cur, Table, Op
<1>1. CASE Remap(len, then)
  <2> DEFINE i == Least(FreeEntries)
             new == tbl.pool[i].block
  <2>1. i \in Phys
    BY <1>1, FreeFound DEF Remap
  <2>2. /\ tbl' = [bb |-> [tbl.bb EXCEPT ![op.blk] = new],
                   pool |-> [tbl.pool EXCEPT ![i].mapped = "normal"]]
        /\ op' = [op EXCEPT !.src = Cur, !.dst = new, !.len = len, !.at = 1,
                            !.retry = op.retry + 1, !.n = idx, !.then = then]
        /\ pc' = "prepare" /\ idx' = idx
    BY <1>1 DEF Remap
  <2> HIDE DEF i
  <2>3. new \in Phys
    BY <1>0, <2>1 DEF Table, Entry
  <2> HIDE DEF new
  <2>4. tbl' \in Table
    <3>1. [tbl.bb EXCEPT ![op.blk] = new] \in [Logical -> Phys]
      BY <1>0, <2>3 DEF Table, Op
    <3>2. [tbl.pool EXCEPT ![i].mapped = "normal"] \in [Phys -> Entry]
      BY <1>0, <2>1, MappedType DEF Table
    <3>3. QED BY <2>2, <3>1, <3>2 DEF Table
  <2>5. op' \in Op
    <3>1. idx \in -1..(Total - 1)
      BY <1>0, Sizes DEF Phys
    <3>2. QED BY <1>0, <2>2, <2>3, <3>1, Sizes, RemapOpType
  <2>6. QED BY <1>0, <2>2, <2>4, <2>5 DEF Pc
<1>2. CASE UNCHANGED <<tbl, idx>> /\ IF otherwise = "idle" THEN Done
             ELSE pc' = otherwise /\ op' = [op EXCEPT !.src = Cur]
  <2>1. op' \in Op
    BY <1>0, <1>2, NoOpType DEF Done, Op
  <2>2. pc' \in Pc /\ pc' # "uwrite"
    BY <1>2 DEF Done, Pc
  <2>3. QED BY <1>0, <1>2, <2>1, <2>2
<1>3. QED BY <1>1, <1>2 DEF RemapOr

LEMMA ScanType ==
  ASSUME BmtAssumption, TypeInv, Scan
  PROVE  /\ tbl' \in Table /\ idx' \in Phys /\ op' \in Op
         /\ pc' \in Pc /\ pc' # "uwrite"
<1>1. CASE EnoughBlocks
  <2>1. /\ tbl' = [bb |-> ScannedMap, pool |-> ScannedPool(Pba)]
        /\ idx' = ScanIdx /\ pc' = "uerase"
        /\ op' = [NoOp EXCEPT !.kind = "boot", !.n = idx']
    BY <1>1 DEF Scan, ScanIdx, PoolBlocks
  <2>2. tbl' \in Table /\ idx' \in Phys
    BY <1>1, <2>1, ScannedTable
  <2>3. op' \in Op
    <3>1. idx' \in -1..(Total - 1)
      BY <2>2, Sizes DEF Phys
    <3>2. QED BY <2>1, <3>1, NoOpType DEF Op, Kind
  <2>4. QED BY <2>1, <2>2, <2>3 DEF Pc
<1>2. CASE ~EnoughBlocks
  BY <1>2 DEF Scan, TypeInv, BmtTypeOK, Pc, ram
<1>3. QED BY <1>1, <1>2

(* No step leaves the ranges of the chip, the table and the operation, for  *)
(* any geometry; upload_bmt() programs only an entry that may hold a table. *)
LEMMA BmtTypeInvariant == Spec => []TypeInv
<1> USE BmtAssumption, TableAssumption DEF TypeInv
<1>1. Init => TypeInv
  <2> SUFFICES ASSUME Init PROVE TypeInv
    OBVIOUS
  <2>1. flash \in [Phys -> Content]
    BY FilledType, CellTypes DEF Init
  <2>2. want \in [Logical -> [Page -> Cell \cup {"any"}]]
    BY CellTypes DEF Init
  <2>3. bad \subseteq Phys
    BY DEF Init, BmtAssumption, Phys
  <2>4. 0 \in 0..MaxOp /\ 0 \in 0..MaxFault /\ 0 \in 0..MaxCrash
    BY DEF BmtAssumption
  <2>5. tbl \in Table /\ idx \in Phys /\ pc \in Pc /\ op \in Op /\ pc # "uwrite"
    BY NoOpType, Sizes DEF Init, Pc
  <2>6. QED BY <2>1, <2>2, <2>3, <2>4, <2>5 DEF Init, BmtTypeOK
<1>2. ASSUME TypeInv, [Next]_vars PROVE TypeInv'
  <2> USE <1>2
  <2>0. /\ flash \in [Phys -> Content] /\ bad \subseteq Phys
        /\ tbl \in Table /\ idx \in Phys /\ pc \in Pc /\ op \in Op
        /\ ops \in 0..MaxOp /\ faults \in 0..MaxFault /\ crashes \in 0..MaxCrash
        /\ want \in [Logical -> [Page -> Cell \cup {"any"}]] /\ moved \in BOOLEAN
        /\ harm \subseteq {"table", "moved", "copy", "repair", "alias", "freed"}
        /\ Cur \in Phys
        /\ op.blk \in Logical /\ op.page \in Page /\ op.at \in Page /\ op.val \in Cell
        /\ op.dst \in Phys /\ op.src \in Phys /\ op.len \in 0..Pages /\ op.then \in Pc
    BY DEF BmtTypeOK, Cur, Table, Op, Cell
  <2>1. CASE BootLoad
    <3>1. tbl' \in Table /\ idx' \in Phys
      BY <2>0, <2>1, SignedFound, IndexFound, TableIn DEF BootLoad, Signed
    <3>2. QED BY <2>0, <2>1, <3>1, NoOpType DEF BootLoad, Done, BmtTypeOK, Pc, history
  <2>2. CASE BootScan
    <3>1. faults' \in 0..MaxFault
      BY <2>0, <2>2 DEF BootScan, NoUsableTable, NoFault, Fault, BmtAssumption
    <3>2. harm' \subseteq {"table", "moved", "copy", "repair", "alias", "freed"}
      BY <2>0, <2>2 DEF BootScan, Harmed
    <3>3. QED BY <2>0, <2>2, <3>1, <3>2, ScanType DEF BootScan, BmtTypeOK
  <2>3. CASE BootTorn
    <3>1. harm' \subseteq {"table", "moved", "copy", "repair", "alias", "freed"}
      BY <2>0, <2>3 DEF BootTorn
    <3>2. CASE Scan
      BY <2>0, <2>3, <3>1, <3>2, ScanType DEF BootTorn, BmtTypeOK
    <3>3. CASE pc' = "wild" /\ UNCHANGED <<ram, op>>
      BY <2>0, <2>3, <3>1, <3>3 DEF BootTorn, BmtTypeOK, ram, Pc
    <3>4. QED BY <2>3, <3>2, <3>3 DEF BootTorn
  <2>4. CASE Operation
    <3>1. PICK o \in Op : Begin(o) /\ want' \in [Logical -> [Page -> Cell \cup {"any"}]]
      <4>1. ASSUME NEW b \in Logical, NEW p \in Page, NEW k \in Kind, NEW v \in Data
            PROVE  /\ [NoOp EXCEPT !.kind = k, !.blk = b] \in Op
                   /\ [NoOp EXCEPT !.kind = k, !.blk = b, !.page = p] \in Op
                   /\ [NoOp EXCEPT !.kind = k, !.blk = b, !.page = p, !.val = v] \in Op
        BY NoOpType DEF Op
      <4>2. ASSUME NEW b \in Logical, NEW w \in [Page -> Cell \cup {"any"}]
            PROVE  [want EXCEPT ![b] = w] \in [Logical -> [Page -> Cell \cup {"any"}]]
        BY <2>0
      <4>3. ASSUME NEW b \in User, NEW p \in Page, BeginRead(b, p)
            PROVE  \E o \in Op : Begin(o) /\ want' = want
        BY <4>1, <4>3, Sizes, NoOpType DEF BeginRead, Kind
      <4>4. ASSUME NEW b \in User, NEW p \in Page, NEW v \in Data, BeginWrite(b, p, v)
            PROVE  \E o \in Op : Begin(o) /\ want' \in [Logical -> [Page -> Cell \cup {"any"}]]
        <5>1. b \in Logical
          BY Sizes
        <5>2. [want[b] EXCEPT ![p] = "any"] \in [Page -> Cell \cup {"any"}]
          BY <2>0, <5>1
        <5>3. want' = [want EXCEPT ![b] = [want[b] EXCEPT ![p] = "any"]]
          BY <4>4 DEF BeginWrite
        <5>4. [NoOp EXCEPT !.kind = "write", !.blk = b, !.page = p, !.val = v] \in Op
          BY <4>1, <5>1 DEF Kind
        <5>5. want' \in [Logical -> [Page -> Cell \cup {"any"}]]
          BY ONLY <4>2, <5>1, <5>2, <5>3
        <5>6. Begin([NoOp EXCEPT !.kind = "write", !.blk = b, !.page = p, !.val = v])
          BY <4>4 DEF BeginWrite
        <5>7. QED BY <5>4, <5>5, <5>6
      <4>5. ASSUME NEW b \in User, BeginErase(b)
            PROVE  \E o \in Op : Begin(o) /\ want' \in [Logical -> [Page -> Cell \cup {"any"}]]
        <5>1. b \in Logical
          BY Sizes
        <5>2. [p \in Page |-> "any"] \in [Page -> Cell \cup {"any"}]
          OBVIOUS
        <5>3. [NoOp EXCEPT !.kind = "erase", !.blk = b] \in Op
          BY <4>1, <5>1, NoOpType, Sizes DEF Kind
        <5>4. QED BY <4>2, <4>5, <5>1, <5>2, <5>3 DEF BeginErase
      <4>6. ASSUME NEW b \in Logical, NEW k \in Kind, BeginOther(k, b)
            PROVE  \E o \in Op : Begin(o) /\ want' = want
        BY <4>1, <4>6, Sizes, NoOpType DEF BeginOther
      <4>7. QED
        BY <2>0, <2>4, <4>3, <4>4, <4>5, <4>6, Sizes DEF Operation, Kind
    <3>2. ops' \in 0..MaxOp
      BY <2>0, <3>1, BmtAssumption DEF Begin, BmtAssumption
    <3>3. QED BY <2>0, <3>1, <3>2 DEF Begin, BmtTypeOK, Pc, ram
  <2>5. CASE Prepare
    <3>1. flash' \in [Phys -> Content]
      BY <2>0, <2>5, FilledType, CellTypes DEF Prepare
    <3>2. faults' \in 0..MaxFault
      BY <2>0, <2>5 DEF Prepare, NoFault, Fault, BmtAssumption
    <3>3. harm' \subseteq {"table", "moved", "copy", "repair", "alias", "freed"}
      BY <2>0, <2>5 DEF Prepare
    <3>4. QED BY <2>0, <2>5, <3>1, <3>2, <3>3 DEF Prepare, BmtTypeOK, Pc, ram
  <2>6. CASE CopyPage
    <3>1. flash' \in [Phys -> Content]
      <4> DEFINE v == Programmed(flash[op.dst].pages[op.at], flash[op.src].pages[op.at])
      <4>1. v \in Cell
        BY <2>0, CellTypes DEF Content, Programmed
      <4>2. flash' = [flash EXCEPT ![op.dst].pages[op.at] = v]
        BY <2>6 DEF CopyPage
      <4> HIDE DEF v
      <4>3. QED BY <2>0, <4>1, <4>2, PageWritten
    <3>2. op' \in Op /\ pc' \in Pc /\ pc' # "uwrite"
      <4>1. CASE op.at < op.len
        <5>1. op.at + 1 \in Page
          BY <2>0, <4>1, Sizes DEF Page
        <5>2. QED BY <2>0, <2>6, <4>1, <5>1 DEF CopyPage, Op
      <4>2. CASE CopyEnds
        BY <2>0, <4>2, NoOpType DEF CopyEnds, Done, Pc
      <4>3. QED BY <2>6, <4>1, <4>2 DEF CopyPage
    <3>3. QED BY <2>0, <2>6, <3>1, <3>2 DEF CopyPage, BmtTypeOK, ram, history
  <2>7. CASE CopyStops
    <3>1. flash' \in [Phys -> Content]
      BY <2>0, <2>7, CellTypes, PageWritten DEF CopyStops
    <3>2. op' \in Op /\ pc' \in Pc /\ pc' # "uwrite"
      BY <2>0, <2>7, NoOpType DEF CopyStops, CopyEnds, Done, Pc
    <3>3. faults' \in 0..MaxFault
      BY <2>0, <2>7 DEF CopyStops, NoFault, Fault, BmtAssumption
    <3>4. harm' \subseteq {"table", "moved", "copy", "repair", "alias", "freed"}
      BY <2>0, <2>7 DEF CopyStops, Harmed
    <3>5. QED BY <2>0, <2>7, <3>1, <3>2, <3>3, <3>4 DEF CopyStops, BmtTypeOK, ram
  <2>8. ASSUME Uploading PROVE op.n \in Phys /\ Place \in Phys
    <3>1. op.n \in -1..(Total - 1) /\ op.n >= 0
      BY <2>0, <2>8 DEF Op, Uploading
    <3>2. op.n \in Phys
      BY <3>1, Sizes DEF Phys
    <3>3. QED BY <2>0, <3>2 DEF Place, Table, Entry
  <2>9. CASE UploadErase
    <3>1. flash' \in [Phys -> Content]
      BY <2>0, <2>8, <2>9, FilledType, CellTypes DEF UploadErase
    <3>2. Uploading'
      BY <2>9 DEF UploadErase, Uploading, ram
    <3>3. QED BY <2>0, <2>9, <3>1, <3>2 DEF UploadErase, BmtTypeOK, Pc, ram, history
  <2>10. CASE UploadWrite
    <3>1. Uploading
      BY <2>10 DEF UploadWrite
    <3>2. flash' \in [Phys -> Content]
      BY <2>0, <2>8, <2>10, <3>1 DEF UploadWrite, Content
    <3>3. op' \in Op /\ pc' \in Pc
      BY <2>0, <2>10, NoOpType DEF UploadWrite, Done, Pc
    <3>4. pc' = "uwrite" => Uploading'
      <4>1. CASE op.then = "idle"
        BY <2>10, <4>1 DEF UploadWrite, Done
      <4>2. CASE op.then # "idle"
        BY <2>10, <3>1, <4>2 DEF UploadWrite, Uploading
      <4>3. QED BY <4>1, <4>2
    <3>5. idx' \in Phys
      BY <2>8, <2>10, <3>1 DEF UploadWrite
    <3>6. QED BY <2>0, <2>10, <3>2, <3>3, <3>4, <3>5 DEF UploadWrite, BmtTypeOK, history
  <2>11. CASE UploadFails
    <3>1. Uploading
      BY <2>11 DEF UploadFails
    <3>2. flash' \in [Phys -> Content]
      <4>1. \A c \in {flash[Place], Filled("junk"), [Filled("junk") EXCEPT !.table = Torn]} :
               c \in Content
        BY <2>0, <2>8, <3>1, FilledType, CellTypes
      <4>2. QED BY <2>0, <2>8, <2>11, <3>1, <4>1 DEF UploadFails
    <3>3. tbl' \in Table
      <4>1. [tbl.pool EXCEPT ![op.n].block = 0] \in [Phys -> Entry]
        BY <2>0, <2>8, <3>1, Sizes, BlockType DEF Table
      <4>2. tbl' = [tbl EXCEPT !.pool = [tbl.pool EXCEPT ![op.n].block = 0]]
        BY <2>0, <2>11 DEF UploadFails, Table
      <4>3. QED BY <2>0, <4>1, <4>2 DEF Table
    <3>4. op' \in Op
      <4>1. op.n - 1 \in -1..(Total - 1)
        BY <2>8, <3>1, Sizes DEF Phys
      <4>2. QED BY <2>0, <2>11, <4>1 DEF UploadFails, Op
    <3>5. faults' \in 0..MaxFault
      BY <2>0, <2>11 DEF UploadFails, Fault, BmtAssumption
    <3>6. QED
      BY <2>0, <2>11, <3>2, <3>3, <3>4, <3>5 DEF UploadFails, BmtTypeOK, Pc
  <2>12. CASE UploadGivesUp
    <3>1. harm' \subseteq {"table", "moved", "copy", "repair", "alias", "freed"}
      BY <2>0, <2>12 DEF UploadGivesUp
    <3>2. QED BY <2>0, <2>12, <3>1 DEF UploadGivesUp, BmtTypeOK, Pc, ram
  <2>13. CASE ReadOk
    BY <2>0, <2>13, NoOpType DEF ReadOk, Done, BmtTypeOK, Pc, ram, history
  <2>14. Pages \in 0..Pages /\ 0 \in 0..Pages /\ "idle" \in Pc /\ "mark" \in Pc
         /\ (IF op.retry < MaxRetry THEN "attempt" ELSE "idle") \in Pc
    BY Sizes DEF Pc
  <2>15. CASE ReadFlips
    <3>1. faults' \in 0..MaxFault
      BY <2>0, <2>15 DEF ReadFlips, Fault, BmtAssumption
    <3>2. QED BY <2>0, <2>14, <2>15, <3>1, RemapType DEF ReadFlips, BmtTypeOK, history
  <2>16. CASE ReadFails
    <3>1. faults' \in 0..MaxFault
      BY <2>0, <2>16 DEF ReadFails, NoFault, Fault, BmtAssumption
    <3>2. flash' \in [Phys -> Content]
      BY <2>0, <2>16, CellTypes, PageWritten DEF ReadFails
    <3>3. want' \in [Logical -> [Page -> Cell \cup {"any"}]]
      BY <2>0, <2>16 DEF ReadFails
    <3>4. QED
      BY <2>0, <2>14, <2>16, <3>1, <3>2, <3>3, RemapType
         DEF ReadFails, RemapAndRetry, BmtTypeOK
  <2>17. CASE WriteOk
    <3>1. flash' \in [Phys -> Content]
      <4> DEFINE v == Programmed(flash[Cur].pages[op.page], op.val)
      <4>1. v \in Cell
        BY <2>0, CellTypes DEF Programmed
      <4>2. flash' = [flash EXCEPT ![Cur].pages[op.page] = v]
        BY <2>17 DEF WriteOk
      <4> HIDE DEF v
      <4>3. QED BY <2>0, <4>1, <4>2, PageWritten
    <3>2. want' \in [Logical -> [Page -> Cell \cup {"any"}]]
      BY <2>0, <2>17 DEF WriteOk
    <3>3. QED BY <2>0, <2>17, <3>1, <3>2, NoOpType DEF WriteOk, Done, BmtTypeOK, Pc, ram
  <2>18. CASE WriteFails
    <3>1. faults' \in 0..MaxFault
      BY <2>0, <2>18 DEF WriteFails, Fault, BmtAssumption
    <3>2. flash' \in [Phys -> Content]
      BY <2>0, <2>18, CellTypes, PageWritten DEF WriteFails
    <3>3. op.page - 1 \in 0..Pages
      BY <2>0, Sizes DEF Page
    <3>4. QED
      BY <2>0, <2>14, <2>18, <3>1, <3>2, <3>3, RemapType
         DEF WriteFails, RemapAndRetry, BmtTypeOK, history
  <2>19. CASE EraseOk
    <3>1. flash' \in [Phys -> Content]
      BY <2>0, <2>19, FilledType, CellTypes DEF EraseOk
    <3>2. want' \in [Logical -> [Page -> Cell \cup {"any"}]]
      BY <2>0, <2>19, CellTypes DEF EraseOk
    <3>3. QED BY <2>0, <2>19, <3>1, <3>2, NoOpType DEF EraseOk, Done, BmtTypeOK, Pc, ram
  <2>20. CASE EraseFails
    <3>1. faults' \in 0..MaxFault
      BY <2>0, <2>20 DEF EraseFails, Fault, BmtAssumption
    <3>2. flash' \in [Phys -> Content]
      <4>1. PICK c \in {flash[Cur], Filled("junk")} : flash' = [flash EXCEPT ![Cur] = c]
        BY <2>20 DEF EraseFails
      <4>2. c \in Content
        <5>1. flash[Cur] \in Content /\ Filled("junk") \in Content
          BY <2>0, CellTypes, FilledType
        <5>2. QED BY <4>1, <5>1
      <4>3. QED BY <2>0, <4>1, <4>2
    <3>3. QED
      BY <2>0, <2>14, <2>20, <3>1, <3>2, RemapType
         DEF EraseFails, RemapAndRetry, BmtTypeOK, history
  <2>21. CASE IsBad
    <3>1. CASE Done /\ UNCHANGED ram
      BY <2>0, <2>21, <3>1, NoOpType DEF IsBad, Done, BmtTypeOK, Pc, ram, history
    <3>2. CASE RemapAndRetry(Pages)
      BY <2>0, <2>14, <2>21, <3>2, RemapType DEF IsBad, RemapAndRetry, BmtTypeOK, history
    <3>3. QED BY <2>21, <3>1, <3>2 DEF IsBad
  <2>22. CASE MarkBadRemaps
    <3>1. PICK then \in {"mark", "idle"} : RemapOr(Pages, then, then)
      BY <2>22 DEF MarkBadRemaps
    <3>2. QED BY <2>0, <2>14, <2>22, <3>1, RemapType DEF MarkBadRemaps, BmtTypeOK, history
  <2>23. CASE MarkBad
    BY <2>0, <2>23, NoOpType DEF MarkBad, Done, BmtTypeOK, Pc, ram, history
  <2>24. CASE Unmap
    <3>1. tbl' \in Table
      <4>1. [tbl.bb EXCEPT ![op.blk] = op.blk] \in [Logical -> Phys]
        BY <2>0, Sizes DEF Table
      <4>2. tbl' = [tbl EXCEPT !.bb = [tbl.bb EXCEPT ![op.blk] = op.blk]]
        BY <2>0, <2>24 DEF Unmap, Table
      <4>3. QED BY <2>0, <4>1, <4>2 DEF Table
    <3>2. op' \in Op
      <4>1. idx \in -1..(Total - 1) /\ op.blk \in Phys
        BY <2>0, Sizes DEF Phys
      <4>2. PICK then \in {"prepare", "idle"} :
              op' = [op EXCEPT !.n = idx, !.src = Cur, !.dst = op.blk, !.len = Pages,
                               !.then = then]
        BY <2>24 DEF Unmap
      <4> HIDE DEF Cur
      <4>3. QED BY <2>0, <2>14, <4>1, <4>2 DEF Op, Pc
    <3>3. want' \in [Logical -> [Page -> Cell \cup {"any"}]]
      BY <2>0, <2>24 DEF Unmap
    <3>4. harm' \subseteq {"table", "moved", "copy", "repair", "alias", "freed"}
      BY <2>0, <2>24 DEF Unmap, Harmed
    <3>5. QED BY <2>0, <2>24, <3>1, <3>2, <3>3, <3>4 DEF Unmap, BmtTypeOK, Pc
  <2>25. CASE FreeUnused
    <3>1. harm' \subseteq {"table", "moved", "copy", "repair", "alias", "freed"}
      BY <2>0, <2>25 DEF FreeUnused, Harmed
    <3>2. CASE Done /\ UNCHANGED tbl
      BY <2>0, <2>25, <3>1, <3>2, NoOpType DEF FreeUnused, Done, BmtTypeOK, Pc
    <3>3. CASE Unused # {}
      <4> DEFINE pool == [i \in Phys |-> IF i \in Unused
                            THEN [tbl.pool[i] EXCEPT !.mapped = "no"] ELSE tbl.pool[i]]
      <4>1. pool \in [Phys -> Entry]
        <5>1. tbl.pool \in [Phys -> Entry]
          BY <2>0 DEF Table
        <5>2. QED BY <5>1, FreedType
      <4>2. tbl' = [tbl EXCEPT !.pool = pool]
        BY <2>0, <2>25, <3>3 DEF FreeUnused, Table
      <4> HIDE DEF pool
      <4>3. tbl' \in Table
        BY <2>0, <4>1, <4>2 DEF Table
      <4>4. op' \in Op
        <5>1. idx \in -1..(Total - 1)
          BY <2>0, Sizes DEF Phys
        <5>2. QED BY <2>0, <2>25, <3>3, <5>1 DEF FreeUnused, Op
      <4>5. QED BY <2>0, <2>25, <3>1, <3>3, <4>3, <4>4 DEF FreeUnused, BmtTypeOK, Pc
    <3>4. QED BY <2>25, <3>2, <3>3 DEF FreeUnused
  <2>26. CASE Crash
    <3>1. flash' \in [Phys -> Content]
      <4>1. Filled("junk") \in Content /\ [Filled("junk") EXCEPT !.table = Torn] \in Content
        BY FilledType, CellTypes
      <4>2. CASE UNCHANGED flash \/ flash' = [flash EXCEPT ![Cur].pages[op.page] = "junk"]
                 \/ flash' = [flash EXCEPT ![op.dst].pages[op.at] = "junk"]
        BY <2>0, <4>2, PageWritten, CellTypes
      <4>3. CASE HalfDone(Cur, {Filled("junk")}) \/ HalfDone(op.dst, {Filled("junk")})
        BY <2>0, <4>1, <4>3 DEF HalfDone
      <4>4. CASE Uploading /\ HalfDone(Place, {Filled("junk")})
        BY <2>0, <2>8, <4>1, <4>4 DEF HalfDone
      <4>5. CASE pc = "uwrite" /\ HalfDone(Place, {[Filled("junk") EXCEPT !.table = Torn]})
        BY <2>0, <2>8, <4>1, <4>5 DEF HalfDone
      <4>6. QED BY <2>26, <4>2, <4>3, <4>4, <4>5 DEF Crash, Interrupted
    <3>2. crashes' \in 0..MaxCrash
      BY <2>0, <2>26 DEF Crash, BmtAssumption
    <3>3. harm' \subseteq {"table", "moved", "copy", "repair", "alias", "freed"}
      BY <2>0, <2>26 DEF Crash
    <3>4. QED
      BY <2>0, <2>26, <3>1, <3>2, <3>3, NoOpType, Sizes DEF Crash, BmtTypeOK, Pc
  <2>27. CASE UNCHANGED vars
    BY <2>0, <2>27 DEF vars, BmtTypeOK, Uploading
  <2>28. QED
    BY <2>1, <2>2, <2>3, <2>4, <2>5, <2>6, <2>7, <2>9, <2>10, <2>11, <2>12, <2>13,
       <2>15, <2>16, <2>17, <2>18, <2>19, <2>20, <2>21, <2>22, <2>23, <2>24, <2>25,
       <2>26, <2>27 DEF Next
<1>3. QED BY <1>1, <1>2, PTL DEF Spec

COROLLARY BmtTypes == Spec => []BmtTypeOK
BY BmtTypeInvariant, PTL DEF TypeInv

-----------------------------------------------------------------------------
(* The table is sound: in RAM while the layer runs, and on the chip.       *)

(* The blocks of the pool are different ones, behind the logical blocks,   *)
(* and at most one of them is marked as the table's.                       *)
PoolOK(pool) ==
  /\ \A i \in Phys : pool[i].block # 0 => pool[i].block >= PoolLba
  /\ \A i, j \in Phys : pool[i].block # 0 /\ pool[i].block = pool[j].block => i = j
  /\ \A i, j \in Phys : pool[i].mapped = "bmt" /\ pool[j].mapped = "bmt" => i = j

(* What TableSound says of a table held in entry n.                        *)
Sound(t, n) ==
  /\ \A l, m \in Logical : l # m => t.bb[l] # t.bb[m]
  /\ \A l \in Logical, i \in Phys :
       i <= n /\ t.pool[i].block # 0 /\ t.bb[l] = t.pool[i].block
         => i < n /\ t.pool[i].mapped = "normal"

Unharmed == harm \cap {"alias", "freed"} = {}

(* A table on the chip that a boot can use is sound.                       *)
GoodTable(t) ==
  PoolOK(t.pool) /\ (Unharmed /\ BmtAt(t.pool) # {} => Sound(t, BmtIndex(t.pool)))
ChipOK == \A p \in Phys : flash[p].table \in Table => GoodTable(flash[p].table)

(* The table in RAM is sound for the entry it is held in, and an entry     *)
(* marked as the table's is not behind that one.                           *)
RamOK ==
  /\ PoolOK(tbl.pool)
  /\ Running => \A i \in BmtAt(tbl.pool) : i <= idx
  /\ Running /\ Unharmed => Sound(tbl, idx)

(* upload_bmt() has dropped the entries between idx and the one it is at.  *)
UploadOK ==
  /\ pc \in {"prepare", "copy"} => op.n = idx
  /\ pc \in {"uerase", "uwrite"} =>
       op.n <= idx /\ \A i \in Phys : op.n < i /\ i <= idx => tbl.pool[i].block = 0

SoundInv == ChipOK /\ RamOK /\ UploadOK

LEMMA HarmGrows ==
  ASSUME [Next]_vars PROVE harm \subseteq harm'
<1>1. CASE BootScan BY <1>1 DEF BootScan, Harmed
<1>2. CASE BootTorn BY <1>2 DEF BootTorn
<1>3. CASE Prepare BY <1>3 DEF Prepare
<1>4. CASE CopyStops BY <1>4 DEF CopyStops, Harmed
<1>5. CASE UploadGivesUp BY <1>5 DEF UploadGivesUp
<1>6. CASE Unmap BY <1>6 DEF Unmap, Harmed
<1>7. CASE FreeUnused BY <1>7 DEF FreeUnused, Harmed
<1>8. CASE Crash BY <1>8 DEF Crash
<1>9. CASE UNCHANGED harm BY <1>9
<1>10. CASE BootLoad \/ CopyPage \/ UploadErase \/ UploadWrite \/ UploadFails
            \/ ReadOk \/ ReadFlips \/ ReadFails \/ WriteOk \/ WriteFails
  BY <1>9, <1>10 DEF BootLoad, CopyPage, UploadErase, UploadWrite, UploadFails,
     ReadOk, ReadFlips, ReadFails, WriteOk, WriteFails, history
<1>11. CASE EraseOk \/ EraseFails \/ IsBad \/ MarkBadRemaps \/ MarkBad
  BY <1>9, <1>11 DEF EraseOk, EraseFails, IsBad, MarkBadRemaps, MarkBad, history
<1>12. CASE Operation
  BY <1>9, <1>12 DEF Operation, BeginRead, BeginWrite, BeginErase, BeginOther, Begin
<1>13. CASE UNCHANGED vars BY <1>9, <1>13 DEF vars
<1>14. QED
  BY <1>1, <1>2, <1>3, <1>4, <1>5, <1>6, <1>7, <1>8, <1>10, <1>11, <1>12, <1>13 DEF Next

(* Only upload_bmt() writes a table; a block may lose its own.             *)
OneBlock(p, c) == flash' = [flash EXCEPT ![p] = c]

LEMMA TablesKept ==
  ASSUME Assumptions, TypeInv, [Next]_vars, ~UploadWrite
  PROVE  \A p \in Phys : flash'[p].table \in {flash[p].table, NoTable, Torn}
<1> DEFINE Kept == \A p \in Phys : flash'[p].table \in {flash[p].table, NoTable, Torn}
<1>0. flash \in [Phys -> Content]
  BY DEF TypeInv, BmtTypeOK
<1>1. ASSUME NEW b, NEW c, c.table \in {NoTable, Torn}, OneBlock(b, c) PROVE Kept
  BY <1>0, <1>1 DEF OneBlock
<1>2. ASSUME NEW b, NEW p, NEW v, flash' = [flash EXCEPT ![b].pages[p] = v] PROVE Kept
  BY <1>0, <1>2 DEF Content
<1>3. ASSUME NEW x PROVE /\ Filled(x).table = NoTable
                         /\ [Filled(x) EXCEPT !.table = Torn].table = Torn
  BY DEF Filled
<1>4. CASE UNCHANGED flash
  BY <1>4
<1>5. CASE BootLoad \/ BootScan \/ BootTorn \/ UploadGivesUp \/ ReadOk \/ ReadFlips
           \/ IsBad \/ MarkBadRemaps \/ MarkBad \/ Unmap \/ FreeUnused
  BY <1>4, <1>5 DEF BootLoad, BootScan, BootTorn, UploadGivesUp, ReadOk, ReadFlips,
     IsBad, MarkBadRemaps, MarkBad, Unmap, FreeUnused
<1>6. CASE Operation
  BY <1>4, <1>6 DEF Operation, BeginRead, BeginWrite, BeginErase, BeginOther, Begin
<1>7. CASE Prepare \/ UploadErase \/ EraseOk
  <2>1. \E b, x : OneBlock(b, Filled(x))
    BY <1>7 DEF Prepare, UploadErase, EraseOk, OneBlock
  <2>2. QED BY <1>1, <1>3, <2>1
<1>8. CASE CopyPage \/ ReadFails \/ WriteOk \/ WriteFails
  <2>1. \E b, p, v : flash' = [flash EXCEPT ![b].pages[p] = v]
    <3>1. CASE CopyPage
      <4> DEFINE v == Programmed(flash[op.dst].pages[op.at], flash[op.src].pages[op.at])
      <4>1. flash' = [flash EXCEPT ![op.dst].pages[op.at] = v]
        BY <3>1 DEF CopyPage
      <4> HIDE DEF v
      <4>2. QED BY <4>1
    <3>2. CASE WriteOk
      <4> DEFINE v == Programmed(flash[Cur].pages[op.page], op.val)
      <4>1. flash' = [flash EXCEPT ![Cur].pages[op.page] = v]
        BY <3>2 DEF WriteOk
      <4> HIDE DEF v
      <4>2. QED BY <4>1
    <3>3. CASE ReadFails \/ WriteFails
      BY <3>3 DEF ReadFails, WriteFails
    <3>4. QED BY <1>8, <3>1, <3>2, <3>3
  <2>2. QED BY <1>2, <2>1
<1>9. CASE CopyStops
  <2>1. UNCHANGED flash \/ \E b, p, v : flash' = [flash EXCEPT ![b].pages[p] = v]
    BY <1>9 DEF CopyStops
  <2>2. QED BY <1>2, <1>4, <2>1
<1>10. CASE EraseFails
  <2>1. PICK c \in {flash[Cur], Filled("junk")} : flash' = [flash EXCEPT ![Cur] = c]
    BY <1>10 DEF EraseFails
  <2>2. CASE c = flash[Cur]
    BY <1>0, <2>1, <2>2
  <2>3. CASE c = Filled("junk")
    BY <1>1, <1>3, <2>1, <2>3 DEF OneBlock
  <2>4. QED BY <2>1, <2>2, <2>3
<1>11. CASE UploadFails
  <2>1. PICK c \in {flash[Place], Filled("junk"), [Filled("junk") EXCEPT !.table = Torn]} :
          flash' = [flash EXCEPT ![Place] = c]
    BY <1>11 DEF UploadFails
  <2>2. CASE c = flash[Place]
    BY <1>0, <2>1, <2>2
  <2>3. CASE c # flash[Place]
    <3>1. c.table \in {NoTable, Torn}
      BY <1>3, <2>1, <2>3
    <3>2. QED BY <1>1, <2>1, <3>1 DEF OneBlock
  <2>4. QED BY <2>2, <2>3
<1>12. CASE Crash
  <2>1. ASSUME NEW p, HalfDone(p, {Filled("junk")}) PROVE Kept
    BY <1>1, <1>3, <2>1 DEF HalfDone, OneBlock
  <2>2. ASSUME NEW p, HalfDone(p, {[Filled("junk") EXCEPT !.table = Torn]}) PROVE Kept
    <3> DEFINE c == [Filled("junk") EXCEPT !.table = Torn]
    <3>1. c.table = Torn
      BY <1>3
    <3>2. OneBlock(p, c)
      BY <2>2 DEF HalfDone, OneBlock
    <3> HIDE DEF c
    <3>3. QED BY <1>1, <3>1, <3>2
  <2>3. QED
    BY <1>2, <1>4, <1>12, <2>1, <2>2 DEF Crash, Interrupted
<1>13. CASE UNCHANGED vars
  BY <1>4, <1>13 DEF vars
<1>14. QED
  BY <1>5, <1>6, <1>7, <1>8, <1>9, <1>10, <1>11, <1>12, <1>13 DEF Next

LEMMA ChipKept ==
  ASSUME Assumptions, TypeInv, ChipOK, [Next]_vars, ~UploadWrite
  PROVE  ChipOK'
<1>1. Unharmed' => Unharmed
  BY HarmGrows DEF Unharmed
<1>2. ASSUME NEW p \in Phys, flash'[p].table \in Table
      PROVE  flash'[p].table = flash[p].table
  BY <1>2, TablesKept DEF Assumptions, TableAssumption
<1>3. ASSUME NEW p \in Phys, flash'[p].table \in Table
      PROVE  GoodTable(flash[p].table)'
  <2>1. GoodTable(flash[p].table)
    BY <1>2, <1>3 DEF ChipOK
  <2>2. flash'[p].table = flash[p].table
    BY <1>2, <1>3
  <2>3. QED BY <1>1, <2>1, <2>2 DEF GoodTable, PoolOK, Sound, BmtAt, BmtIndex
<1>4. QED BY <1>3 DEF ChipOK

(* Steps that leave the table alone.                                       *)
LEMMA RamKept ==
  ASSUME RamOK, UNCHANGED ram, Unharmed' => Unharmed, Running' => Running
  PROVE  RamOK'
BY DEF RamOK, ram, PoolOK, Sound, BmtAt

(* A block of a free entry replaces the one that failed.                   *)
LEMMA RemapSound ==
  ASSUME Assumptions, TypeInv, SoundInv, Running, Unharmed' => Unharmed,
         NEW len, NEW then, Remap(len, then)
  PROVE  RamOK' /\ UploadOK'
<1> DEFINE i == Least(FreeEntries)
           new == tbl.pool[i].block
<1>1. i \in FreeEntries /\ i \in Phys
  BY FreeFound DEF Assumptions, Remap
<1>2. /\ tbl' = [bb |-> [tbl.bb EXCEPT ![op.blk] = new],
                 pool |-> [tbl.pool EXCEPT ![i].mapped = "normal"]]
      /\ op' = [op EXCEPT !.src = Cur, !.dst = new, !.len = len, !.at = 1,
                          !.retry = op.retry + 1, !.n = idx, !.then = then]
      /\ pc' = "prepare" /\ idx' = idx
  BY DEF Remap
<1> HIDE DEF i
<1>3. i < idx /\ new # 0 /\ tbl.pool[i].mapped = "no"
  BY <1>1 DEF FreeEntries
<1> HIDE DEF new
<1>4. tbl.bb \in [Logical -> Phys] /\ tbl.pool \in [Phys -> Entry] /\ op.blk \in Logical
      /\ op \in Op /\ idx \in Phys
  BY DEF TypeInv, BmtTypeOK, Table, Op
<1>5. /\ \A j \in Phys : tbl'.pool[j].block = tbl.pool[j].block
      /\ \A j \in Phys : j # i => tbl'.pool[j].mapped = tbl.pool[j].mapped
      /\ tbl'.pool[i].mapped = "normal"
      /\ \A l \in Logical : tbl'.bb[l] = IF l = op.blk THEN new ELSE tbl.bb[l]
  BY <1>1, <1>2, <1>4 DEF Entry
<1>6. PoolOK(tbl.pool)'
  <2>1. PoolOK(tbl.pool)
    BY DEF SoundInv, RamOK
  <2>2. QED BY <1>1, <1>3, <1>5, <2>1 DEF PoolOK
<1>7. \A j \in BmtAt(tbl.pool)' : j <= idx'
  <2>1. ASSUME NEW j \in Phys, tbl'.pool[j].mapped = "bmt",
               \A k \in 0..j : tbl'.pool[k].block # 0
        PROVE  j \in BmtAt(tbl.pool)
    <3>1. \A k \in 0..j : k \in Phys
      BY Sizes DEF Phys, Assumptions
    <3>2. QED BY <1>5, <2>1, <3>1 DEF BmtAt
  <2>2. QED BY <1>2, <2>1 DEF SoundInv, RamOK, BmtAt
<1>8. Unharmed' => Sound(tbl, idx)'
  <2> SUFFICES ASSUME Unharmed PROVE Sound(tbl, idx)'
    OBVIOUS
  <2>1. Sound(tbl, idx) /\ PoolOK(tbl.pool)
    BY DEF SoundInv, RamOK
  <2>2. \A l \in Logical : tbl.bb[l] # new
    <3>1. i <= idx /\ ~(i < idx /\ tbl.pool[i].mapped = "normal")
      BY <1>1, <1>3, <1>4, Sizes DEF Phys, Assumptions
    <3>2. QED BY <1>1, <1>3, <2>1, <3>1 DEF Sound, new
  <2>3. \A l, m \in Logical : l # m => tbl'.bb[l] # tbl'.bb[m]
    BY <1>5, <2>1, <2>2 DEF Sound
  <2>4. ASSUME NEW l \in Logical, NEW j \in Phys, j <= idx, tbl'.pool[j].block # 0,
               tbl'.bb[l] = tbl'.pool[j].block
        PROVE  j < idx /\ tbl'.pool[j].mapped = "normal"
    <3>1. CASE l = op.blk
      <4>1. tbl.pool[j].block = tbl.pool[i].block
        BY <1>5, <2>4, <3>1 DEF new
      <4>2. j = i
        BY <1>1, <1>5, <2>1, <2>4, <4>1 DEF PoolOK
      <4>3. QED BY <1>3, <1>5, <4>2
    <3>2. CASE l # op.blk
      <4>1. j < idx /\ tbl.pool[j].mapped = "normal"
        BY <1>5, <2>1, <2>4, <3>2 DEF Sound
      <4>2. QED BY <1>3, <1>5, <4>1
    <3>3. QED BY <3>1, <3>2
  <2>5. QED BY <1>2, <2>3, <2>4 DEF Sound
<1>9. UploadOK'
  BY <1>2, <1>4 DEF UploadOK, Op
<1>10. QED BY <1>6, <1>7, <1>8, <1>9 DEF RamOK

LEMMA RemapOrSound ==
  ASSUME Assumptions, TypeInv, SoundInv, Running, Unharmed' => Unharmed,
         NEW len, NEW then, NEW otherwise, otherwise \in {"idle", "mark"},
         RemapOr(len, then, otherwise)
  PROVE  RamOK' /\ UploadOK'
<1>1. CASE Remap(len, then)
  BY <1>1, RemapSound
<1>2. CASE ~Remap(len, then)
  <2>1. UNCHANGED ram /\ pc' \in {"idle", "mark"}
    BY <1>2 DEF RemapOr, Done, ram
  <2>2. RamOK'
    BY <2>1, RamKept DEF SoundInv
  <2>3. QED BY <2>1, <2>2 DEF UploadOK
<1>3. QED BY <1>1, <1>2

LEMMA ScanSound ==
  ASSUME Assumptions, TypeInv, SoundInv, ~Running, Unharmed' => Unharmed, Scan
  PROVE  RamOK' /\ UploadOK'
<1>1. CASE ~EnoughBlocks
  BY <1>1 DEF Scan, SoundInv, RamOK, UploadOK, Running, ram, PoolOK
<1>2. CASE EnoughBlocks
  <2> DEFINE pool == ScannedPool(Pba)
  <2>1. /\ tbl' = [bb |-> ScannedMap, pool |-> pool]
        /\ idx' = ScanIdx /\ pc' = "uerase"
        /\ op' = [NoOp EXCEPT !.kind = "boot", !.n = idx']
    BY <1>2 DEF Scan, ScanIdx, PoolBlocks
  <2>2. /\ ScanIdx \in Phys /\ pool \in [Phys -> Entry]
        /\ \A i \in Phys : i <= ScanIdx =>
             /\ pool[i].block \in PoolBlocks /\ pool[i].block = Nth(PoolBlocks, i)
             /\ pool[i].mapped = IF i = ScanIdx THEN "bmt" ELSE "no"
        /\ \A i \in Phys : i > ScanIdx => pool[i] = NoEntry
    BY <1>2, ScannedTable DEF Assumptions, Table
  <2>3. op' = [NoOp EXCEPT !.kind = "boot", !.n = idx'] /\ op'.n = idx'
    BY <2>1, NoOpType DEF Assumptions, Op
  <2>4. \A i \in Phys : i <= ScanIdx \/ i > ScanIdx
    BY <2>2, Sizes DEF Phys, Assumptions
  <2>5. /\ Pba \in Nat /\ PoolLba <= Pba /\ PoolLba \in Nat
        /\ \A p \in PoolBlocks : p \in Nat /\ p >= Pba
        /\ \A l \in Logical : l # 0 => ScannedMap[l] \in Valid /\ ScannedMap[l] < Pba
        /\ \A p \in Valid : p \in 1..(Total - 1)
    BY <1>2, PoolBegins, Sizes, ValidBlocks DEF Assumptions, PoolBlocks
  <2> HIDE DEF pool
  <2>6. \A i \in Phys : (pool[i].block # 0 \/ pool[i].mapped = "bmt") => i <= ScanIdx
    BY <2>2, <2>4 DEF NoEntry
  <2>7. PoolOK(pool)
    <3>1. \A i \in Phys : pool[i].block # 0 => pool[i].block >= PoolLba
      <4> SUFFICES ASSUME NEW i \in Phys, pool[i].block # 0 PROVE pool[i].block >= PoolLba
        OBVIOUS
      <4>1. pool[i].block \in Nat /\ pool[i].block >= Pba
        BY <2>2, <2>5, <2>6
      <4>2. QED BY <2>5, <4>1
    <3>2. ASSUME NEW i \in Phys, NEW j \in Phys, i < j, j <= ScanIdx
          PROVE  pool[i].block < pool[j].block
      <4>1. /\ PoolBlocks \in SUBSET Nat /\ IsFiniteSet(PoolBlocks)
            /\ Cardinality(PoolBlocks) \in 1..(Total - 1)
        BY <1>2, PoolFound DEF Assumptions
      <4>2. /\ i \in 0..(Cardinality(PoolBlocks) - 1)
            /\ j \in 0..(Cardinality(PoolBlocks) - 1) /\ i <= ScanIdx
        BY <3>2, <4>1, Sizes DEF ScanIdx, Phys, Assumptions
      <4>3. Nth(PoolBlocks, i) < Nth(PoolBlocks, j)
        BY <3>2, <4>1, <4>2, NthOrder
      <4>4. QED BY <2>2, <3>2, <4>2, <4>3
    <3>3. ASSUME NEW i \in Phys, NEW j \in Phys,
                 pool[i].block # 0, pool[i].block = pool[j].block
          PROVE  i = j
      <4>1. i <= ScanIdx /\ j <= ScanIdx /\ pool[i].block \in Nat
        BY <2>2, <2>5, <2>6, <3>3
      <4>2. i \in Nat /\ j \in Nat
        BY Sizes DEF Phys, Assumptions
      <4>3. ~(i < j) /\ ~(j < i)
        BY <3>2, <3>3, <4>1
      <4>4. QED BY <4>2, <4>3
    <3>4. \A i \in Phys : pool[i].mapped = "bmt" => i = ScanIdx
      BY <2>2, <2>6
    <3>5. QED BY <3>1, <3>3, <3>4 DEF PoolOK
  <2>8. \A i \in BmtAt(pool) : i <= ScanIdx
    BY <2>6 DEF BmtAt
  <2>9. Sound([bb |-> ScannedMap, pool |-> pool], ScanIdx)
    <3>1. ASSUME NEW l \in Logical, NEW m \in Logical, l < m
          PROVE  ScannedMap[l] # ScannedMap[m]
      <4>0. l \in Nat /\ m \in Nat /\ m # 0
        BY <3>1, Sizes DEF Logical, Assumptions
      <4>1. CASE l = 0
        <5>1. ScannedMap[l] = 0 /\ ScannedMap[m] \in 1..(Total - 1)
          BY <2>5, <4>0, <4>1 DEF ScannedMap
        <5>2. QED BY <5>1
      <4>2. CASE l # 0
        <5>1. /\ Valid \in SUBSET Nat /\ IsFiniteSet(Valid) /\ Cardinality(Valid) \in Nat
              /\ PoolLba <= Cardinality(Valid)
          BY <1>2, ValidBlocks DEF Assumptions, EnoughBlocks
        <5>2. /\ l - 1 \in 0..(Cardinality(Valid) - 1)
              /\ m - 1 \in 0..(Cardinality(Valid) - 1) /\ l - 1 < m - 1
          BY <2>5, <3>1, <4>0, <4>2, <5>1 DEF Logical
        <5>3. Nth(Valid, l - 1) < Nth(Valid, m - 1)
          BY <5>1, <5>2, NthOrder
        <5>4. PICK x \in Valid : x = Nth(Valid, l - 1)
          BY <5>1, <5>2, HasNth
        <5>5. PICK y \in Valid : y = Nth(Valid, m - 1)
          BY <5>1, <5>2, HasNth
        <5>6. x < y /\ x \in Nat /\ y \in Nat
          BY <5>1, <5>3, <5>4, <5>5
        <5>7. ScannedMap[l] = x /\ ScannedMap[m] = y
          BY <4>0, <4>2, <5>4, <5>5 DEF ScannedMap
        <5>8. QED BY <5>6, <5>7
      <4>3. QED BY <4>1, <4>2
    <3>2. \A l, m \in Logical : l # m => ScannedMap[l] # ScannedMap[m]
      <4>1. \A l, m \in Logical : l < m \/ m < l \/ l = m
        BY Sizes DEF Logical, Assumptions
      <4>2. QED BY <3>1, <4>1
    <3>3. ASSUME NEW l \in Logical, NEW i \in Phys, pool[i].block # 0
          PROVE  ScannedMap[l] # pool[i].block
      <4>1. pool[i].block \in Nat /\ pool[i].block >= Pba
        BY <2>2, <2>5, <2>6, <3>3
      <4>2. CASE l = 0
        BY <3>3, <4>2 DEF ScannedMap
      <4>3. CASE l # 0
        <5>1. ScannedMap[l] < Pba /\ ScannedMap[l] \in Nat
          BY <2>5, <4>3, Sizes DEF Assumptions
        <5>2. QED BY <2>5, <4>1, <5>1
      <4>4. QED BY <4>2, <4>3
    <3>4. QED BY <3>2, <3>3 DEF Sound
  <2>10. RamOK'
    BY <2>1, <2>7, <2>8, <2>9 DEF RamOK, PoolOK, Sound, BmtAt
  <2>11. UploadOK'
    <3>1. idx' \in Nat
      BY <2>1, <2>2, Sizes DEF Phys, Assumptions
    <3>2. \A i \in Phys : ~(idx' < i /\ i <= idx')
      BY <3>1, Sizes DEF Phys, Assumptions
    <3>3. QED BY <2>1, <2>3, <3>1, <3>2 DEF UploadOK
  <2>12. QED BY <2>10, <2>11
<1>3. QED BY <1>1, <1>2

LEMMA LoadSound ==
  ASSUME Assumptions, TypeInv, SoundInv, Unharmed' => Unharmed, BootLoad
  PROVE  RamOK' /\ UploadOK'
<1> DEFINE g == Greatest(Signed)
           t == flash[g].table
<1>1. g \in Phys /\ t # NoTable
  BY SignedFound DEF BootLoad, Signed, Assumptions
<1>2. t \in Table
  BY <1>1, TableIn DEF BootLoad, TypeInv, BmtTypeOK
<1>3. GoodTable(t)
  BY <1>1, <1>2 DEF SoundInv, ChipOK
<1>4. /\ tbl' = t /\ idx' = BmtIndex(t.pool) /\ BmtIndex(t.pool) # 0
      /\ pc' = "idle"
  BY DEF BootLoad, Done
<1> HIDE DEF t
<1>5. /\ BmtAt(t.pool) # {} /\ BmtIndex(t.pool) \in BmtAt(t.pool)
  BY <1>4, IndexFound DEF Assumptions
<1>6. BmtIndex(t.pool) \in Nat
  BY <1>5, Sizes DEF BmtAt, Phys, Assumptions
<1>7. \A i \in BmtAt(t.pool) : i <= BmtIndex(t.pool)
  <2>1. \A i \in BmtAt(t.pool) : i = BmtIndex(t.pool)
    BY <1>3, <1>5 DEF GoodTable, PoolOK, BmtAt
  <2>2. QED BY <1>6, <2>1
<1>8. RamOK'
  BY <1>3, <1>4, <1>5, <1>7 DEF GoodTable, RamOK, PoolOK, Sound, BmtAt
<1>9. QED BY <1>4, <1>8 DEF UploadOK

LEMMA UploadFailsSound ==
  ASSUME Assumptions, TypeInv, SoundInv, Unharmed' => Unharmed, UploadFails
  PROVE  RamOK' /\ UploadOK'
<1>1. /\ tbl.bb \in [Logical -> Phys] /\ tbl.pool \in [Phys -> Entry]
      /\ op \in Op /\ idx \in Phys /\ tbl \in Table
  BY DEF TypeInv, BmtTypeOK, Table
<1>2. /\ op.n \in Phys /\ op.n \in Nat /\ pc \in {"uerase", "uwrite"}
  <2>1. Uploading /\ pc \in {"uerase", "uwrite"}
    BY DEF UploadFails, TypeInv
  <2>2. op.n \in -1..(Total - 1) /\ op.n >= 0
    BY <1>1, <2>1 DEF Op, Uploading
  <2>3. QED BY <2>1, <2>2, Sizes DEF Phys, Assumptions
<1>3. /\ tbl' = [tbl EXCEPT !.pool[op.n].block = 0] /\ idx' = idx
      /\ op' = [op EXCEPT !.n = op.n - 1] /\ pc' = "uerase"
  BY DEF UploadFails
<1>4. /\ tbl'.bb = tbl.bb
      /\ \A i \in Phys : tbl'.pool[i].mapped = tbl.pool[i].mapped
      /\ \A i \in Phys : tbl'.pool[i].block = IF i = op.n THEN 0 ELSE tbl.pool[i].block
  BY <1>1, <1>3 DEF Table, Entry
<1>5. op'.n = op.n - 1
  BY <1>1, <1>3 DEF Op
<1>6. Running
  BY <1>2 DEF Running
<1>7. PoolOK(tbl.pool)'
  BY <1>4 DEF SoundInv, RamOK, PoolOK
<1>8. \A i \in BmtAt(tbl.pool)' : i <= idx'
  <2>1. ASSUME NEW i \in Phys, tbl'.pool[i].mapped = "bmt",
               \A j \in 0..i : tbl'.pool[j].block # 0
        PROVE  i \in BmtAt(tbl.pool)
    <3>1. \A j \in 0..i : j \in Phys
      BY Sizes DEF Phys, Assumptions
    <3>2. QED BY <1>4, <2>1, <3>1 DEF BmtAt
  <2>2. QED BY <1>3, <1>6, <2>1 DEF SoundInv, RamOK, BmtAt
<1>9. Unharmed' => Sound(tbl, idx)'
  BY <1>3, <1>4, <1>6 DEF SoundInv, RamOK, Sound
<1>10. UploadOK'
  <2>1. op.n <= idx /\ \A i \in Phys : op.n < i /\ i <= idx => tbl.pool[i].block = 0
    BY <1>2 DEF SoundInv, UploadOK
  <2>2. idx \in Nat
    BY <1>1, Sizes DEF Phys, Assumptions
  <2>3. ASSUME NEW i \in Phys, op.n - 1 < i, i <= idx PROVE tbl'.pool[i].block = 0
    <3>1. i = op.n \/ op.n < i
      BY <1>2, <2>3, Sizes DEF Phys, Assumptions
    <3>2. QED BY <1>4, <2>1, <2>3, <3>1
  <2>4. op.n - 1 <= idx
    BY <1>2, <2>1, <2>2
  <2>5. QED BY <1>3, <1>5, <2>3, <2>4 DEF UploadOK
<1>11. QED BY <1>7, <1>8, <1>9, <1>10 DEF RamOK

LEMMA UploadWriteSound ==
  ASSUME Assumptions, TypeInv, SoundInv, UNCHANGED harm, UploadWrite
  PROVE  ChipOK' /\ RamOK' /\ UploadOK'
<1>1. /\ flash \in [Phys -> Content] /\ tbl.pool \in [Phys -> Entry]
      /\ op \in Op /\ idx \in Phys /\ Running /\ Uploading
  BY DEF TypeInv, BmtTypeOK, Table, UploadWrite, Running
<1>2. /\ op.n \in Phys /\ op.n \in Nat /\ tbl.pool[op.n].mapped # "normal"
  <2>1. op.n \in -1..(Total - 1) /\ op.n >= 0
    BY <1>1 DEF Op, Uploading
  <2>2. QED BY <1>1, <2>1, Sizes DEF Phys, Assumptions, Uploading
<1>3. op.n <= idx /\ \A i \in Phys : op.n < i /\ i <= idx => tbl.pool[i].block = 0
  BY DEF SoundInv, UploadOK, UploadWrite
<1>4. /\ tbl' = tbl /\ idx' = op.n /\ (pc' = op'.then \/ pc' = "idle")
      /\ flash' = [flash EXCEPT ![Place].table = tbl]
  BY DEF UploadWrite, Done
<1>5. \A i \in Phys : i \in Nat
  BY Sizes DEF Phys, Assumptions
<1>6. \A i \in BmtAt(tbl.pool) : i <= op.n
  <2> SUFFICES ASSUME NEW i \in BmtAt(tbl.pool) PROVE i <= op.n
    OBVIOUS
  <2>1. i \in Phys /\ i <= idx
    BY <1>1 DEF SoundInv, RamOK, BmtAt
  <2>2. i \in 0..i
    BY <1>5, <2>1
  <2>3. tbl.pool[i].block # 0
    BY <2>2 DEF BmtAt
  <2>4. ~(op.n < i)
    BY <1>3, <2>1, <2>3
  <2>5. QED BY <1>2, <1>5, <2>1, <2>4
<1>7. ASSUME Unharmed, NEW n \in Phys, n <= idx, tbl.pool[n].mapped # "normal"
      PROVE  Sound(tbl, n)
  <2>1. Sound(tbl, idx)
    BY <1>1, <1>7 DEF SoundInv, RamOK
  <2>2. ASSUME NEW l \in Logical, NEW i \in Phys, i <= n, tbl.pool[i].block # 0,
               tbl.bb[l] = tbl.pool[i].block
        PROVE  i < n /\ tbl.pool[i].mapped = "normal"
    <3>1. i <= idx
      BY <1>1, <1>5, <1>7, <2>2
    <3>2. tbl.pool[i].mapped = "normal"
      BY <2>1, <2>2, <3>1 DEF Sound
    <3>3. i # n
      BY <1>7, <3>2
    <3>4. QED BY <1>5, <2>2, <3>2, <3>3
  <2>3. QED BY <2>1, <2>2 DEF Sound
<1>8. RamOK'
  <2>1. Unharmed => Sound(tbl, op.n)
    BY <1>2, <1>3, <1>7
  <2>2. PoolOK(tbl.pool)
    BY DEF SoundInv, RamOK
  <2>3. tbl' = tbl /\ idx' = op.n /\ harm' = harm
    BY <1>4
  <2>4. PoolOK(tbl.pool)'
    BY <2>2, <2>3 DEF PoolOK
  <2>5. \A i \in BmtAt(tbl.pool)' : i <= idx'
    BY <1>6, <2>3 DEF BmtAt
  <2>6. Unharmed' => Sound(tbl, idx)'
    BY <2>1, <2>3 DEF Sound, Unharmed
  <2>7. QED BY <2>4, <2>5, <2>6 DEF RamOK
<1>9. GoodTable(tbl)
  <2>1. ASSUME Unharmed, BmtAt(tbl.pool) # {} PROVE Sound(tbl, BmtIndex(tbl.pool))
    <3> DEFINE k == BmtIndex(tbl.pool)
    <3>1. k \in BmtAt(tbl.pool)
      BY <2>1, IndexFound DEF Assumptions
    <3> HIDE DEF k
    <3>2. k \in Phys /\ tbl.pool[k].mapped = "bmt" /\ k <= op.n
      BY <1>6, <3>1 DEF BmtAt
    <3>3. k <= idx
      BY <1>1, <1>2, <1>3, <1>5, <3>2
    <3>4. Sound(tbl, k)
      BY <1>7, <2>1, <3>2, <3>3
    <3>5. QED BY <3>4 DEF k
  <2>2. QED BY <2>1 DEF GoodTable, SoundInv, RamOK
<1>10. ChipOK'
  <2>1. ASSUME NEW p \in Phys
        PROVE  flash'[p].table \in {flash[p].table, tbl}
    BY <1>1, <1>4 DEF Content
  <2>2. ASSUME NEW p \in Phys, flash'[p].table \in Table PROVE GoodTable(flash'[p].table)
    BY <1>9, <2>1, <2>2 DEF SoundInv, ChipOK
  <2>3. \A t : GoodTable(t) => GoodTable(t)'
    BY DEF GoodTable, Unharmed, PoolOK, Sound, BmtAt, BmtIndex
  <2>4. QED BY <2>2, <2>3 DEF ChipOK
<1>11. UploadOK'
  <2>1. op'.n = op.n \/ pc' = "idle"
    BY DEF UploadWrite, Done
  <2>2. \A i \in Phys : ~(op.n < i /\ i <= op.n)
    BY <1>2, <1>5
  <2>3. QED BY <1>2, <1>4, <2>1, <2>2 DEF UploadOK
<1>12. QED BY <1>8, <1>10, <1>11

LEMMA UnmapSound ==
  ASSUME Assumptions, TypeInv, SoundInv, harm \subseteq harm', Unmap
  PROVE  RamOK' /\ UploadOK'
<1>1. /\ tbl.bb \in [Logical -> Phys] /\ tbl.pool \in [Phys -> Entry] /\ tbl \in Table
      /\ op \in Op /\ idx \in Phys /\ Running /\ op.blk \in Logical
  BY DEF TypeInv, BmtTypeOK, Table, Unmap, Attempt, Running, Op
<1>2. /\ tbl'.bb = [tbl.bb EXCEPT ![op.blk] = op.blk] /\ tbl'.pool = tbl.pool
      /\ idx' = idx /\ pc' = "uerase" /\ op'.n = idx
  BY <1>1 DEF Unmap, Table, Op
<1>3. \A i \in Phys : tbl.pool[i].block = 0 \/ tbl.pool[i].block # op.blk
  <2>1. \A i \in Phys : tbl.pool[i].block = 0 \/ tbl.pool[i].block >= PoolLba
    BY DEF SoundInv, RamOK, PoolOK
  <2>2. op.blk \in Nat /\ op.blk < PoolLba /\ PoolLba \in Nat
    BY <1>1, Sizes DEF Logical, Assumptions
  <2>3. QED BY <2>1, <2>2
<1>4. Unharmed' => Sound(tbl, idx)'
  <2> SUFFICES ASSUME Unharmed' PROVE Sound(tbl, idx)'
    OBVIOUS
  <2>1. \A l \in Logical : l # op.blk => tbl.bb[l] # op.blk
    BY DEF Unmap, Harmed, Unharmed
  <2>2. Sound(tbl, idx)
    BY <1>1 DEF SoundInv, RamOK, Unharmed
  <2>3. \A l \in Logical : tbl'.bb[l] = IF l = op.blk THEN op.blk ELSE tbl.bb[l]
    BY <1>1, <1>2
  <2>4. \A l, m \in Logical : l # m => tbl'.bb[l] # tbl'.bb[m]
    BY <2>1, <2>2, <2>3 DEF Sound
  <2>5. ASSUME NEW l \in Logical, NEW i \in Phys, i <= idx, tbl.pool[i].block # 0,
               tbl'.bb[l] = tbl.pool[i].block
        PROVE  i < idx /\ tbl.pool[i].mapped = "normal"
    BY <1>3, <2>2, <2>3, <2>5 DEF Sound
  <2>6. QED BY <1>2, <2>4, <2>5 DEF Sound
<1>5. RamOK'
  BY <1>1, <1>2, <1>4 DEF SoundInv, RamOK, PoolOK, BmtAt
<1>6. UploadOK'
  <2>1. idx \in Nat /\ \A i \in Phys : ~(idx < i /\ i <= idx)
    BY <1>1, Sizes DEF Phys, Assumptions
  <2>2. QED BY <1>2, <2>1 DEF UploadOK
<1>7. QED BY <1>5, <1>6

LEMMA FreeSound ==
  ASSUME Assumptions, TypeInv, SoundInv, harm \subseteq harm', FreeUnused
  PROVE  RamOK' /\ UploadOK'
<1>1. /\ tbl.bb \in [Logical -> Phys] /\ tbl.pool \in [Phys -> Entry] /\ tbl \in Table
      /\ op \in Op /\ idx \in Phys /\ Running
  BY DEF TypeInv, BmtTypeOK, Table, FreeUnused, Attempt, Running, Op
<1>2. CASE Unused = {}
  <2>1. UNCHANGED ram /\ pc' = "idle"
    BY <1>2 DEF FreeUnused, Done, ram
  <2>2. Unharmed' => Unharmed
    BY DEF Unharmed
  <2>3. QED BY <1>1, <2>1, <2>2, RamKept DEF SoundInv, UploadOK
<1>3. CASE Unused # {}
  <2> DEFINE pool == [i \in Phys |-> IF i \in Unused
                        THEN [tbl.pool[i] EXCEPT !.mapped = "no"] ELSE tbl.pool[i]]
  <2>1. tbl' = [tbl EXCEPT !.pool = pool] /\ op' = [op EXCEPT !.n = idx]
        /\ pc' = "uerase" /\ idx' = idx
        /\ Harmed(\E i \in Unused, l \in Logical : tbl.bb[l] = tbl.pool[i].block, "freed")
    BY <1>1, <1>3 DEF FreeUnused, Table
  <2>2. \A i \in Phys : pool[i].block = tbl.pool[i].block
    BY <1>1 DEF Entry
  <2>3. \A i \in Phys : pool[i].mapped = IF i \in Unused THEN "no" ELSE tbl.pool[i].mapped
    BY <1>1 DEF Entry
  <2> HIDE DEF pool
  <2>4. tbl'.bb = tbl.bb /\ tbl'.pool = pool /\ op'.n = idx
    BY <1>1, <2>1 DEF Table, Op
  <2>5. PoolOK(tbl.pool)'
    BY <2>2, <2>3, <2>4 DEF SoundInv, RamOK, PoolOK
  <2>6. \A i \in BmtAt(tbl.pool)' : i <= idx'
    <3>1. ASSUME NEW i \in Phys, pool[i].mapped = "bmt", \A j \in 0..i : pool[j].block # 0
          PROVE  i \in BmtAt(tbl.pool)
      <4>1. \A j \in 0..i : j \in Phys
        BY Sizes DEF Phys, Assumptions
      <4>2. QED BY <2>2, <2>3, <3>1, <4>1 DEF BmtAt
    <3>2. QED BY <1>1, <2>1, <2>4, <3>1 DEF SoundInv, RamOK, BmtAt
  <2>7. Unharmed' => Sound(tbl, idx)'
    <3> SUFFICES ASSUME Unharmed' PROVE Sound(tbl, idx)'
      OBVIOUS
    <3>1. \A i \in Unused, l \in Logical : tbl.bb[l] # tbl.pool[i].block
      BY <2>1 DEF Harmed, Unharmed
    <3>2. Sound(tbl, idx)
      BY <1>1 DEF SoundInv, RamOK, Unharmed
    <3>3. QED BY <2>1, <2>2, <2>3, <2>4, <3>1, <3>2 DEF Sound
  <2>8. UploadOK'
    <3>1. idx \in Nat /\ \A i \in Phys : ~(idx < i /\ i <= idx)
      BY <1>1, Sizes DEF Phys, Assumptions
    <3>2. QED BY <2>1, <2>4, <3>1 DEF UploadOK
  <2>9. QED BY <2>5, <2>6, <2>7, <2>8 DEF RamOK
<1>4. QED BY <1>2, <1>3

LEMMA SoundInvariant == Spec => []SoundInv
<1> USE BmtAssumption, TableAssumption DEF Assumptions
<1>1. Init => SoundInv
  <2> SUFFICES ASSUME Init PROVE SoundInv
    OBVIOUS
  <2>1. ~Running /\ pc = "off"
    BY DEF Init, Running
  <2>2. \A p \in Phys : flash[p].table = NoTable
    BY DEF Init, Filled
  <2>3. \A i \in Phys : tbl.pool[i].block = 0 /\ tbl.pool[i].mapped = "no"
    BY DEF Init, NoMap, NoEntry
  <2>4. QED
    BY <2>1, <2>2, <2>3 DEF SoundInv, ChipOK, RamOK, UploadOK, PoolOK
<1>2. ASSUME TypeInv, SoundInv, [Next]_vars PROVE SoundInv'
  <2> USE <1>2
  <2>1. harm \subseteq harm' /\ (Unharmed' => Unharmed)
    BY HarmGrows DEF Unharmed
  <2>2. CASE UploadWrite
    BY <2>2, UploadWriteSound DEF SoundInv, UploadWrite, history
  <2>3. CASE ~UploadWrite
    <3>0. ChipOK'
      BY <2>3, ChipKept DEF SoundInv
    <3> SUFFICES RamOK' /\ UploadOK'
      BY <3>0 DEF SoundInv
    <3>1. ASSUME UNCHANGED ram, Running' => Running,
                 pc' \in {"prepare", "copy", "uerase", "uwrite"} =>
                   /\ op'.n = op.n
                   /\ pc \in {"prepare", "copy"} \/ (pc \in {"uerase", "uwrite"}
                        /\ pc' \in {"uerase", "uwrite"})
          PROVE  RamOK' /\ UploadOK'
      <4>1. RamOK'
        BY <2>1, <3>1, RamKept DEF SoundInv
      <4>2. UploadOK'
        <5>1. idx \in Nat /\ \A i \in Phys : ~(idx < i /\ i <= idx)
          BY Sizes DEF Phys, TypeInv, BmtTypeOK
        <5>2. QED BY <3>1, <5>1 DEF SoundInv, UploadOK, ram
      <4>3. QED BY <4>1, <4>2
    <3>2. CASE BootLoad
      BY <2>1, <3>2, LoadSound
    <3>3. CASE BootScan \/ BootTorn
      <4>1. ~Running
        BY <3>3 DEF BootScan, BootTorn, Running
      <4>2. CASE Scan
        BY <2>1, <4>1, <4>2, ScanSound
      <4>3. CASE pc' = "wild" /\ UNCHANGED ram
        BY <3>1, <4>3 DEF Running
      <4>4. QED BY <3>3, <4>2, <4>3 DEF BootScan, BootTorn, ram
    <3>4. CASE Operation
      <4>1. UNCHANGED ram /\ pc' = "attempt" /\ pc = "idle"
        BY <3>4 DEF Operation, BeginRead, BeginWrite, BeginErase, BeginOther, Begin
      <4>2. QED BY <3>1, <4>1 DEF Running
    <3>5. CASE Prepare
      BY <3>1, <3>5 DEF Prepare, Running
    <3>6. CASE CopyPage
      <4>1. /\ UNCHANGED ram /\ pc = "copy" /\ pc' \in {"copy", "uerase", "idle"}
            /\ pc' # "idle" => op'.n = op.n
        BY <3>6 DEF CopyPage, CopyEnds, Done, TypeInv, BmtTypeOK, Op
      <4>2. QED BY <3>1, <4>1 DEF Running
    <3>7. CASE CopyStops
      <4>1. /\ UNCHANGED ram /\ pc = "copy" /\ pc' \in {"uerase", "idle"}
            /\ pc' # "idle" => op'.n = op.n
        BY <3>7 DEF CopyStops, CopyEnds, Done
      <4>2. QED BY <3>1, <4>1 DEF Running
    <3>8. CASE UploadErase \/ UploadGivesUp
      BY <3>1, <3>8 DEF UploadErase, UploadGivesUp, Running
    <3>9. CASE UploadFails
      BY <2>1, <3>9, UploadFailsSound
    <3>10. CASE ReadOk \/ WriteOk \/ EraseOk \/ MarkBad
      BY <3>1, <3>10 DEF ReadOk, WriteOk, EraseOk, MarkBad, Attempt, Done, Running
    <3>11. CASE ReadFlips \/ ReadFails \/ WriteFails \/ EraseFails \/ IsBad \/ MarkBadRemaps
      <4>1. Running
        BY <3>11 DEF ReadFlips, ReadFails, WriteFails, EraseFails, IsBad,
           MarkBadRemaps, Attempt, Running
      <4>2. \/ \E len, then, otherwise :
                  otherwise \in {"idle", "mark"} /\ RemapOr(len, then, otherwise)
            \/ UNCHANGED ram /\ pc' = "idle"
        BY <3>11 DEF ReadFlips, ReadFails, WriteFails, EraseFails, IsBad,
           MarkBadRemaps, RemapAndRetry, Done
      <4>3. QED BY <2>1, <3>1, <4>1, <4>2, RemapOrSound
    <3>12. CASE Unmap
      BY <2>1, <3>12, UnmapSound
    <3>13. CASE FreeUnused
      BY <2>1, <3>13, FreeSound
    <3>14. CASE Crash
      <4>1. pc' = "off" /\ tbl' = NoMap
        BY <3>14 DEF Crash
      <4>2. \A i \in Phys : tbl'.pool[i].block = 0 /\ tbl'.pool[i].mapped = "no"
        BY <4>1 DEF NoMap, NoEntry
      <4>3. QED BY <4>1, <4>2 DEF RamOK, UploadOK, PoolOK, Running
    <3>15. CASE UNCHANGED vars
      BY <3>1, <3>15 DEF vars, ram, Running
    <3>16. QED
      BY <2>3, <3>2, <3>3, <3>4, <3>5, <3>6, <3>7, <3>8, <3>9, <3>10, <3>11, <3>12,
         <3>13, <3>14, <3>15 DEF Next
  <2>4. QED BY <2>2, <2>3
<1>3. QED BY <1>1, <1>2, BmtTypeInvariant, PTL DEF Spec

(* Unless a debugfs file is misused, no two logical blocks share a block,  *)
(* no block handed out is free, and none holds the table, after any number *)
(* of remaps, reboots, failures and cut-off uploads.                       *)
THEOREM TablesSound == Spec => []TableSound
<1>1. SoundInv => TableSound
  BY DEF SoundInv, RamOK, Unharmed, Sound, TableSound
<1>2. QED BY <1>1, SoundInvariant, PTL

-----------------------------------------------------------------------------
(* The table on the chip: where it is and what it says, as long as no      *)
(* upload has failed or was cut off.                                       *)

(* Data is on its way to op.dst, or will be after the upload ("repair").   *)
Copying ==
  pc \in {"prepare", "copy"} \/ (pc \in {"uerase", "uwrite"} /\ op.then = "prepare")

(* What the steps of an operation hand to each other.                      *)
OpOK ==
  /\ op.then \in {"idle", "attempt", "mark", "prepare"}
  /\ op.then = "prepare" => op.kind = "repair"
  /\ op.kind = "boot" => op.then = "idle" /\ pc \in {"uerase", "uwrite", "dead", "wild"}
  /\ Copying => op.dst = tbl.bb[op.blk] /\ (op.kind = "repair" => op.len = Pages)

(* The entries up to the one that holds the table have blocks.             *)
Top == IF pc \in {"uerase", "uwrite"} THEN op.n ELSE idx
PoolFull == Running => \A i \in Phys : i <= Top => tbl.pool[i].block # 0

LEMMA RemapOp ==
  ASSUME TypeInv, NEW len \in 0..Pages, NEW then \in Pc, Running, Remap(len, then)
  PROVE  /\ pc' = "prepare" /\ op'.kind = op.kind /\ op'.blk = op.blk
         /\ op'.page = op.page /\ op'.val = op.val
         /\ op'.src = tbl.bb[op.blk] /\ op'.dst = tbl'.bb[op.blk]
         /\ op'.dst = tbl.pool[Least(FreeEntries)].block
         /\ op'.len = len /\ op'.at = 1 /\ op'.n = idx /\ op'.then = then
         /\ idx' = idx
<1>1. op \in Op /\ tbl \in Table /\ op.blk \in Logical /\ tbl.bb \in [Logical -> Phys]
  BY DEF TypeInv, BmtTypeOK, Table, Op
<1> DEFINE new == tbl.pool[Least(FreeEntries)].block
<1>2. /\ pc' = "prepare" /\ idx' = idx
      /\ op' = [op EXCEPT !.src = Cur, !.dst = new, !.len = len, !.at = 1,
                          !.retry = op.retry + 1, !.n = idx, !.then = then]
      /\ tbl'.bb = [tbl.bb EXCEPT ![op.blk] = new]
  BY DEF Remap
<1> HIDE DEF new
<1>3. tbl'.bb[op.blk] = new
  BY <1>1, <1>2
<1>4. QED BY <1>1, <1>2, <1>3 DEF Op, Cur, new

(* Every remap of an operation.                                            *)
Remaps == ReadFlips \/ ReadFails \/ WriteFails \/ EraseFails \/ IsBad \/ MarkBadRemaps
RemapKinds == {"read", "write", "erase", "isbad", "markbad", "mark_bad"}

LEMMA RemapCases ==
  ASSUME Assumptions, TypeInv, Remaps
  PROVE  /\ pc = "attempt" /\ op.kind \in RemapKinds
         /\ \/ \E len \in 0..Pages, then \in {"idle", "attempt", "mark"} :
                 /\ Remap(len, then)
                 /\ op.kind = "write" => len = op.page - 1
                 /\ op.kind \notin {"write", "erase"} => len = Pages
            \/ UNCHANGED ram /\ pc' = "idle" /\ op' = NoOp
            \/ UNCHANGED ram /\ pc' = "mark" /\ op.kind = "markbad"
               /\ op' = [op EXCEPT !.src = Cur]
<1>1. op.page \in 1..Pages /\ Pages \in Nat
  BY Sizes DEF TypeInv, BmtTypeOK, Op, Page, Assumptions
<1>2. 0 \in 0..Pages /\ Pages \in 0..Pages /\ op.page - 1 \in 0..Pages
  BY <1>1
<1>3. CASE ReadFlips
  <2>1. pc = "attempt" /\ op.kind = "read" /\ RemapOr(Pages, "idle", "idle")
    BY <1>3 DEF ReadFlips, Attempt
  <2>2. QED BY <1>2, <2>1 DEF RemapOr, Done, ram, RemapKinds
<1>4. CASE ReadFails
  <2>1. pc = "attempt" /\ op.kind = "read" /\ RemapAndRetry(Pages)
    BY <1>4 DEF ReadFails, Attempt
  <2>2. QED BY <1>2, <2>1 DEF RemapAndRetry, RemapOr, Done, ram, RemapKinds
<1>5. CASE WriteFails
  <2>1. pc = "attempt" /\ op.kind = "write" /\ RemapAndRetry(op.page - 1)
    BY <1>5 DEF WriteFails, Attempt
  <2>2. QED BY <1>2, <2>1 DEF RemapAndRetry, RemapOr, Done, ram, RemapKinds
<1>6. CASE EraseFails
  <2>1. pc = "attempt" /\ op.kind = "erase" /\ RemapAndRetry(0)
    BY <1>6 DEF EraseFails, Attempt
  <2>2. QED BY <1>2, <2>1 DEF RemapAndRetry, RemapOr, Done, ram, RemapKinds
<1>7. CASE IsBad
  <2>1. /\ pc = "attempt" /\ op.kind = "isbad"
        /\ RemapAndRetry(Pages) \/ (Done /\ UNCHANGED ram)
    BY <1>7 DEF IsBad, Attempt
  <2>2. QED BY <1>2, <2>1 DEF RemapAndRetry, RemapOr, Done, ram, RemapKinds
<1>8. CASE MarkBadRemaps
  <2>1. /\ pc = "attempt" /\ op.kind \in {"markbad", "mark_bad"}
        /\ op.kind = "markbad" => RemapOr(Pages, "mark", "mark")
        /\ op.kind = "mark_bad" => RemapOr(Pages, "idle", "idle")
    BY <1>8 DEF MarkBadRemaps, Attempt
  <2>2. QED BY <1>2, <2>1 DEF RemapOr, Done, ram, RemapKinds
<1>9. QED BY <1>3, <1>4, <1>5, <1>6, <1>7, <1>8 DEF Remaps

LEMMA OpOKKept ==
  ASSUME Assumptions, TypeInv, OpOK, [Next]_vars
  PROVE  OpOK'
<1>1. /\ op \in Op /\ tbl \in Table /\ op.blk \in Logical /\ pc \in Pc
      /\ tbl.bb \in [Logical -> Phys] /\ Pages \in 0..Pages
  BY Sizes DEF TypeInv, BmtTypeOK, Table, Op, Assumptions
<1>2. NoOp \in Op /\ NoOp.then = "idle" /\ NoOp.kind = "none"
  BY NoOpType DEF NoOp, Assumptions
<1>3. CASE op' = NoOp /\ pc' \in {"idle", "off"}
  BY <1>2, <1>3 DEF OpOK, Copying
<1>4. CASE UNCHANGED <<op, tbl>> /\ pc' \in {pc, "dead", "wild"}
  BY <1>4 DEF OpOK, Copying
<1>5. CASE BootLoad \/ ReadOk \/ WriteOk \/ EraseOk \/ MarkBad \/ Crash
  BY <1>3, <1>5 DEF BootLoad, ReadOk, WriteOk, EraseOk, MarkBad, Crash, Done
<1>6. CASE BootScan \/ BootTorn
  <2>1. CASE Scan /\ EnoughBlocks
    <3>1. pc' = "uerase" /\ op' = [NoOp EXCEPT !.kind = "boot", !.n = idx']
      BY <2>1 DEF Scan
    <3>2. op'.kind = "boot" /\ op'.then = "idle"
      BY <1>2, <3>1 DEF Op
    <3>3. QED BY <3>1, <3>2 DEF OpOK, Copying
  <2>2. QED BY <1>4, <1>6, <2>1 DEF BootScan, BootTorn, Scan, ram
<1>7. CASE Operation
  <2>1. ASSUME NEW o, Begin(o), o.then = "idle", o.kind # "boot" PROVE OpOK'
    BY <2>1 DEF Begin, OpOK, Copying
  <2>2. \E o : Begin(o) /\ o.then = "idle" /\ o.kind # "boot"
    <3>1. ASSUME NEW b, NEW p, NEW v, BeginWrite(b, p, v)
          PROVE  \E o : Begin(o) /\ o.then = "idle" /\ o.kind # "boot"
      <4> DEFINE o == [NoOp EXCEPT !.kind = "write", !.blk = b, !.page = p, !.val = v]
      <4>1. Begin(o) /\ o.then = "idle" /\ o.kind # "boot"
        BY <3>1 DEF BeginWrite, NoOp
      <4>2. QED BY <4>1
    <3>2. ASSUME NEW b, BeginErase(b)
          PROVE  \E o : Begin(o) /\ o.then = "idle" /\ o.kind # "boot"
      <4> DEFINE o == [NoOp EXCEPT !.kind = "erase", !.blk = b]
      <4>1. Begin(o) /\ o.then = "idle" /\ o.kind # "boot"
        BY <3>2 DEF BeginErase, NoOp
      <4>2. QED BY <4>1
    <3>3. ASSUME NEW b, NEW p, BeginRead(b, p)
          PROVE  \E o : Begin(o) /\ o.then = "idle" /\ o.kind # "boot"
      <4> DEFINE o == [NoOp EXCEPT !.kind = "read", !.blk = b, !.page = p]
      <4>1. Begin(o) /\ o.then = "idle" /\ o.kind # "boot"
        BY <3>3 DEF BeginRead, NoOp
      <4>2. QED BY <4>1
    <3>4. ASSUME NEW b, NEW k, k # "boot", BeginOther(k, b)
          PROVE  \E o : Begin(o) /\ o.then = "idle" /\ o.kind # "boot"
      <4> DEFINE o == [NoOp EXCEPT !.kind = k, !.blk = b]
      <4>1. Begin(o) /\ o.then = "idle" /\ o.kind # "boot"
        BY <3>4 DEF BeginOther, NoOp
      <4>2. QED BY <4>1
    <3>5. QED BY <1>7, <3>1, <3>2, <3>3, <3>4 DEF Operation
  <2>3. QED BY <2>1, <2>2
<1>8. CASE Prepare
  BY <1>8 DEF Prepare, OpOK, Copying, ram
<1>9. CASE CopyPage \/ CopyStops
  <2>1. /\ UNCHANGED tbl /\ pc = "copy" /\ pc' \in {"copy", "uerase", "idle"}
        /\ pc' = "idle" => op' = NoOp
        /\ pc' # "idle" => /\ op'.then = op.then /\ op'.kind = op.kind /\ op'.dst = op.dst
                           /\ op'.blk = op.blk /\ op'.len = op.len
    BY <1>1, <1>9 DEF CopyPage, CopyStops, CopyEnds, Done, ram, Op
  <2>2. QED BY <1>3, <2>1 DEF OpOK, Copying
<1>10. CASE UploadErase
  BY <1>10 DEF UploadErase, OpOK, Copying, ram
<1>11. CASE UploadWrite
  BY <1>3, <1>11 DEF UploadWrite, OpOK, Copying, Done
<1>12. CASE UploadFails
  <2>1. /\ tbl'.bb = tbl.bb /\ pc' = "uerase" /\ pc \in {"uerase", "uwrite"}
        /\ op'.then = op.then /\ op'.kind = op.kind /\ op'.dst = op.dst
        /\ op'.blk = op.blk /\ op'.len = op.len
    BY <1>1, <1>12 DEF UploadFails, Op, Table
  <2>2. QED BY <2>1 DEF OpOK, Copying
<1>13. CASE UploadGivesUp
  BY <1>4, <1>13 DEF UploadGivesUp, ram
<1>14. CASE Remaps
  <2>1. pc = "attempt" /\ op.kind \in RemapKinds
    BY <1>14, RemapCases
  <2>2. ASSUME NEW len \in 0..Pages, NEW then \in {"idle", "attempt", "mark"},
               Remap(len, then)
        PROVE  OpOK'
    <3>1. pc' = "prepare" /\ op'.kind = op.kind /\ op'.dst = tbl'.bb[op'.blk] /\ op'.then = then
      BY <2>1, <2>2, RemapOp DEF Pc, Running
    <3>2. QED BY <2>1, <3>1 DEF OpOK, RemapKinds
  <2>3. CASE UNCHANGED ram /\ pc' = "mark" /\ op' = [op EXCEPT !.src = Cur]
    <3>1. op'.then = op.then /\ op'.kind = op.kind
      BY <1>1, <2>3 DEF Op
    <3>2. QED BY <2>1, <2>3, <3>1 DEF OpOK, Copying, RemapKinds
  <2>4. QED BY <1>3, <1>14, <2>2, <2>3, RemapCases
<1>15. CASE Unmap
  <2>1. /\ pc' = "uerase" /\ op'.kind = op.kind /\ op'.dst = op.blk /\ op'.blk = op.blk
        /\ op'.len = Pages /\ tbl'.bb[op.blk] = op.blk
        /\ op'.then = IF op.kind = "repair" /\ Cur # op.blk THEN "prepare" ELSE "idle"
        /\ op.kind \in {"mark_good", "repair"}
    BY <1>1, <1>15 DEF Unmap, Attempt, Op, Table
  <2>2. QED BY <2>1 DEF OpOK, Copying
<1>16. CASE FreeUnused
  <2>1. pc = "attempt" /\ op.kind = "debug"
    BY <1>16 DEF FreeUnused, Attempt
  <2>2. CASE Unused # {}
    <3>1. pc' = "uerase" /\ op'.then = op.then /\ op'.kind = op.kind
      BY <1>1, <1>16, <2>2 DEF FreeUnused, Op
    <3>2. QED BY <2>1, <3>1 DEF OpOK, Copying
  <2>3. QED BY <1>3, <1>16, <2>2 DEF FreeUnused, Done
<1>17. CASE UNCHANGED vars
  BY <1>4, <1>17 DEF vars
<1>18. QED
  BY <1>5, <1>6, <1>7, <1>8, <1>9, <1>10, <1>11, <1>12, <1>13, <1>14, <1>15, <1>16, <1>17
  DEF Next, Remaps

(* What a loaded table and a scanned one have in common.                   *)
LEMMA LoadedTable ==
  ASSUME Assumptions, TypeInv, BootLoad
  PROVE  /\ Greatest(Signed) \in Phys /\ Greatest(Signed) \in Signed
         /\ tbl' = flash[Greatest(Signed)].table /\ tbl' \in Table
         /\ pc' = "idle" /\ op' = NoOp
         /\ idx' = BmtIndex(tbl'.pool) /\ BmtIndex(tbl'.pool) \in BmtAt(tbl'.pool)
         /\ idx' \in Phys
         /\ \A i \in Phys : i <= idx' => tbl'.pool[i].block # 0
<1> DEFINE t == flash[Greatest(Signed)].table
<1>1. /\ Greatest(Signed) \in Phys /\ Greatest(Signed) \in Signed
      /\ t # NoTable /\ t # Torn
  BY SignedFound DEF BootLoad, Signed, Assumptions
<1>2. t \in Table
  BY <1>1, TableIn DEF TypeInv, BmtTypeOK
<1>3. /\ tbl' = t /\ idx' = BmtIndex(t.pool) /\ BmtIndex(t.pool) # 0
      /\ pc' = "idle" /\ op' = NoOp
  BY DEF BootLoad, Done
<1> HIDE DEF t
<1>4. BmtIndex(t.pool) \in BmtAt(t.pool)
  BY <1>3, IndexFound DEF Assumptions
<1>5. /\ BmtIndex(t.pool) \in Phys
      /\ \A i \in Phys : i <= BmtIndex(t.pool) => t.pool[i].block # 0
  <2>1. PICK n \in Phys : n = BmtIndex(t.pool)
    BY <1>4 DEF BmtAt
  <2>2. \A i \in Phys : i <= n => i \in 0..n
    BY Sizes DEF Phys, Assumptions
  <2>3. \A i \in 0..n : t.pool[i].block # 0
    BY <1>4, <2>1 DEF BmtAt
  <2>4. QED BY <2>1, <2>2, <2>3
<1>6. QED BY <1>1, <1>2, <1>3, <1>4, <1>5 DEF t

LEMMA ScanResult ==
  ASSUME Assumptions, TypeInv, Scan, EnoughBlocks
  PROVE  /\ pc' = "uerase" /\ op'.n = idx' /\ op'.kind = "boot" /\ op'.then = "idle"
         /\ op'.blk = 0 /\ tbl' \in Table /\ idx' \in Phys
         /\ tbl'.pool[idx'].mapped = "bmt"
         /\ \A i \in Phys : i <= idx' => tbl'.pool[i].block # 0
<1>1. /\ tbl' = [bb |-> ScannedMap, pool |-> ScannedPool(Pba)]
      /\ idx' = ScanIdx /\ pc' = "uerase"
      /\ op' = [NoOp EXCEPT !.kind = "boot", !.n = idx']
  BY DEF Scan, ScanIdx, PoolBlocks
<1>2. op'.n = idx' /\ op'.kind = "boot" /\ op'.then = "idle" /\ op'.blk = 0
  BY <1>1 DEF NoOp
<1>3. /\ ScanIdx \in Phys /\ tbl' \in Table
      /\ \A i \in Phys : i <= ScanIdx =>
           /\ tbl'.pool[i].block \in PoolBlocks
           /\ tbl'.pool[i].mapped = IF i = ScanIdx THEN "bmt" ELSE "no"
  BY <1>1, ScannedTable DEF Assumptions
<1>4. ScanIdx <= ScanIdx
  BY <1>3, Sizes DEF Phys, Assumptions
<1>5. \A p \in PoolBlocks : p # 0
  <2>1. \A p \in PoolBlocks : p \in 1..(Total - 1)
    BY ValidBlocks DEF PoolBlocks, Assumptions
  <2>2. QED BY <2>1
<1>6. QED BY <1>1, <1>2, <1>3, <1>4, <1>5

LEMMA RemapPool ==
  ASSUME Assumptions, TypeInv, NEW len, NEW then, Remap(len, then)
  PROVE  /\ tbl' \in Table
         /\ \A i \in Phys : tbl'.pool[i].block = tbl.pool[i].block
         /\ \A i \in Phys : tbl'.pool[i].mapped =
                              IF i = Least(FreeEntries) THEN "normal" ELSE tbl.pool[i].mapped
         /\ \A l \in Logical : tbl'.bb[l] = IF l = op.blk THEN tbl.pool[Least(FreeEntries)].block
                                            ELSE tbl.bb[l]
         /\ Least(FreeEntries) \in Phys /\ Least(FreeEntries) < idx
         /\ tbl.pool[Least(FreeEntries)].block # 0
         /\ tbl.pool[Least(FreeEntries)].mapped = "no"
<1> DEFINE i == Least(FreeEntries)
           new == tbl.pool[i].block
<1>1. i \in FreeEntries /\ i \in Phys
  BY FreeFound DEF Assumptions, Remap
<1>2. tbl' = [bb |-> [tbl.bb EXCEPT ![op.blk] = new],
              pool |-> [tbl.pool EXCEPT ![i].mapped = "normal"]]
  BY DEF Remap
<1>3. i < idx /\ new # 0 /\ tbl.pool[i].mapped = "no"
  BY <1>1 DEF FreeEntries
<1>4. tbl.bb \in [Logical -> Phys] /\ tbl.pool \in [Phys -> Entry] /\ op.blk \in Logical
  BY DEF TypeInv, BmtTypeOK, Table, Op
<1>5. new \in Phys
  BY <1>1, <1>4 DEF Entry
<1> HIDE DEF i, new
<1>6. [tbl.bb EXCEPT ![op.blk] = new] \in [Logical -> Phys]
  BY <1>4, <1>5
<1>7. [tbl.pool EXCEPT ![i].mapped = "normal"] \in [Phys -> Entry]
  BY <1>1, <1>4 DEF Entry
<1>8. tbl' \in Table
  BY <1>2, <1>6, <1>7 DEF Table
<1>9. /\ \A j \in Phys : tbl'.pool[j].block = tbl.pool[j].block
      /\ \A j \in Phys : tbl'.pool[j].mapped = IF j = i THEN "normal" ELSE tbl.pool[j].mapped
      /\ \A l \in Logical : tbl'.bb[l] = IF l = op.blk THEN new ELSE tbl.bb[l]
  BY <1>1, <1>2, <1>4 DEF Entry
<1>10. QED BY <1>1, <1>3, <1>8, <1>9 DEF i, new

LEMMA FreedPool ==
  ASSUME Assumptions, TypeInv, FreeUnused, Unused # {}
  PROVE  /\ tbl' \in Table /\ tbl'.bb = tbl.bb
         /\ \A i \in Phys : tbl'.pool[i].block = tbl.pool[i].block
         /\ \A i \in Phys : tbl'.pool[i].mapped =
                              IF i \in Unused THEN "no" ELSE tbl.pool[i].mapped
         /\ pc' = "uerase" /\ idx' = idx /\ op'.n = idx
         /\ op'.then = op.then /\ op'.kind = op.kind /\ op'.blk = op.blk
<1>1. tbl \in Table /\ tbl.pool \in [Phys -> Entry] /\ op \in Op
  BY DEF TypeInv, BmtTypeOK, Table
<1> DEFINE pool == [i \in Phys |-> IF i \in Unused
                      THEN [tbl.pool[i] EXCEPT !.mapped = "no"] ELSE tbl.pool[i]]
<1>2. tbl' = [tbl EXCEPT !.pool = pool] /\ op' = [op EXCEPT !.n = idx]
      /\ pc' = "uerase" /\ idx' = idx
  BY <1>1 DEF FreeUnused, Table
<1>3. /\ pool \in [Phys -> Entry]
      /\ \A i \in Phys : pool[i].block = tbl.pool[i].block
      /\ \A i \in Phys : pool[i].mapped =
                           IF i \in Unused THEN "no" ELSE tbl.pool[i].mapped
  BY <1>1 DEF Entry
<1> HIDE DEF pool
<1>4. tbl'.bb = tbl.bb /\ tbl'.pool = pool /\ tbl' \in Table
  BY <1>1, <1>2, <1>3 DEF Table
<1>5. QED BY <1>1, <1>2, <1>3, <1>4 DEF Op

LEMMA UploadStep ==
  ASSUME Assumptions, TypeInv, Uploading
  PROVE  op.n \in Phys /\ op.n \in Nat /\ Place \in Phys
<1>1. op.n \in -1..(Total - 1) /\ op.n >= 0 /\ tbl.pool \in [Phys -> Entry]
  BY DEF TypeInv, BmtTypeOK, Op, Table, Uploading
<1>2. op.n \in Phys /\ op.n \in Nat
  BY <1>1, Sizes DEF Phys, Assumptions
<1>3. QED BY <1>1, <1>2 DEF Place, Entry

LEMMA PoolFullKept ==
  ASSUME Assumptions, TypeInv, SoundInv, OpOK, PoolFull, [Next]_vars
  PROVE  PoolFull'
<1>1. /\ op \in Op /\ tbl \in Table /\ idx \in Phys
      /\ tbl.pool \in [Phys -> Entry]
  BY DEF TypeInv, BmtTypeOK, Table
<1>2. ASSUME \A i \in Phys : tbl'.pool[i].block = tbl.pool[i].block,
             Running' => Running /\ Top' = Top
      PROVE  PoolFull'
  BY <1>2 DEF PoolFull
<1>3. CASE BootLoad
  BY <1>3, LoadedTable DEF PoolFull, Top
<1>4. CASE BootScan \/ BootTorn
  <2>1. CASE Scan /\ EnoughBlocks
    BY <2>1, ScanResult DEF PoolFull, Top
  <2>2. QED BY <1>4, <2>1 DEF BootScan, BootTorn, Scan, PoolFull, Running
<1>5. CASE Operation
  <2>1. UNCHANGED ram /\ pc' = "attempt" /\ pc = "idle"
    BY <1>5 DEF Operation, BeginRead, BeginWrite, BeginErase, BeginOther, Begin
  <2>2. QED BY <1>2, <2>1 DEF Running, Top, ram
<1>6. CASE Prepare \/ CopyPage \/ CopyStops
  <2>1. /\ UNCHANGED ram /\ pc \in {"prepare", "copy"}
        /\ pc' \in {"copy", "uerase", "idle"} /\ (pc' = "uerase" => op'.n = op.n)
    BY <1>6 DEF Prepare, CopyPage, CopyStops, CopyEnds, Done
  <2>2. op.n = idx
    BY <2>1 DEF SoundInv, UploadOK
  <2>3. QED BY <1>2, <2>1, <2>2 DEF Running, Top, ram
<1>7. CASE UploadErase
  BY <1>2, <1>7 DEF UploadErase, Running, Top, ram
<1>8. CASE UploadWrite
  <2>1. tbl' = tbl /\ idx' = op.n /\ pc' \in {"idle", "attempt", "mark", "prepare"}
    BY <1>8 DEF UploadWrite, OpOK, Done
  <2>2. pc = "uwrite"
    BY <1>8 DEF UploadWrite
  <2>3. QED BY <1>2, <2>1, <2>2 DEF Running, Top
<1>9. CASE UploadFails
  <2>1. pc \in {"uerase", "uwrite"} /\ pc' = "uerase" /\ Uploading
    BY <1>9 DEF UploadFails, TypeInv
  <2>2. op'.n = op.n - 1
    BY <1>1, <1>9 DEF UploadFails, Op
  <2>3. \A i \in Phys : i # op.n => tbl'.pool[i].block = tbl.pool[i].block
    BY <1>1, <1>9 DEF UploadFails, Table
  <2>4. op.n \in Nat /\ \A i \in Phys : i <= op.n - 1 => i # op.n /\ i <= op.n
    BY <2>1, UploadStep, Sizes DEF Phys, Assumptions
  <2>5. QED BY <2>1, <2>2, <2>3, <2>4 DEF PoolFull, Running, Top
<1>10. CASE UploadGivesUp
  BY <1>10 DEF UploadGivesUp, PoolFull, Running
<1>11. CASE ReadOk \/ WriteOk \/ EraseOk \/ MarkBad
  BY <1>2, <1>11 DEF ReadOk, WriteOk, EraseOk, MarkBad, Attempt, Done, Running, Top, ram
<1>12. CASE Remaps
  <2>1. pc = "attempt" /\ Running
    BY <1>12, RemapCases DEF Running
  <2>2. ASSUME NEW len \in 0..Pages, NEW then \in {"idle", "attempt", "mark"},
               Remap(len, then)
        PROVE  PoolFull'
    <3>1. pc' = "prepare" /\ idx' = idx
      BY <2>2 DEF Remap
    <3>2. QED BY <1>2, <2>1, <2>2, <3>1, RemapPool DEF Top
  <2>3. CASE UNCHANGED ram /\ pc' \in {"idle", "mark"}
    BY <1>2, <2>1, <2>3 DEF Running, Top, ram
  <2>4. QED BY <1>12, <2>2, <2>3, RemapCases
<1>13. CASE Unmap
  <2>1. /\ pc = "attempt" /\ pc' = "uerase" /\ idx' = idx /\ tbl'.pool = tbl.pool
        /\ op'.n = idx
    BY <1>1, <1>13 DEF Unmap, Attempt, Table, Op
  <2>2. QED BY <1>2, <2>1 DEF Running, Top
<1>14. CASE FreeUnused
  <2>1. pc = "attempt"
    BY <1>14 DEF FreeUnused, Attempt
  <2>2. CASE Unused = {}
    BY <1>2, <1>14, <2>1, <2>2 DEF FreeUnused, Done, Running, Top
  <2>3. CASE Unused # {}
    <3>1. /\ pc' = "uerase" /\ idx' = idx /\ op'.n = idx
          /\ \A i \in Phys : tbl'.pool[i].block = tbl.pool[i].block
      BY <1>14, <2>3, FreedPool
    <3>2. QED BY <1>2, <2>1, <3>1 DEF Running, Top
  <2>4. QED BY <2>2, <2>3
<1>15. CASE Crash
  BY <1>15 DEF Crash, PoolFull, Running
<1>16. CASE UNCHANGED vars
  BY <1>2, <1>16 DEF vars, Running, Top
<1>17. QED
  BY <1>3, <1>4, <1>5, <1>6, <1>7, <1>8, <1>9, <1>10, <1>11, <1>12, <1>13, <1>14,
     <1>15, <1>16
  DEF Next, Remaps

Nominal == harm = {} /\ ~moved

(* The block in which a table says it is.                                  *)
Home(t) == t.pool[BmtIndex(t.pool)].block

(* There is at most one table on the chip; it is complete, behind the      *)
(* logical blocks, and says where it is.                                   *)
ChipTables ==
  /\ \A p \in Phys : flash[p].table # Torn
  /\ \A p \in Phys : flash[p].table # NoTable =>
       /\ p >= PoolLba /\ p = Home(flash[p].table)
       /\ BmtAt(flash[p].table.pool) # {}
  /\ \A p, q \in Phys : flash[p].table # NoTable /\ flash[q].table # NoTable => p = q

(* It is where the table of RAM says it is, and the same while no change   *)
(* is under way ("repair" copies after the table has been written).        *)
Settled == pc \in {"idle", "attempt", "mark"}
           \/ (pc \in {"prepare", "copy"} /\ op.kind = "repair")
RamTable ==
  Running =>
    /\ tbl.pool[idx].mapped = "bmt" /\ tbl.pool[idx].block # 0
    /\ \A p \in Phys : flash[p].table # NoTable => p = tbl.pool[idx].block
    /\ Settled => flash[tbl.pool[idx].block].table = tbl

PersistInv == OpOK /\ PoolFull /\ (Nominal => ChipTables /\ RamTable)

(* No logical block is in the place of the table or of an upload.          *)
LEMMA NotHome ==
  ASSUME Assumptions, TypeInv, SoundInv, PoolFull, Running, Unharmed
  PROVE  /\ \A l \in Logical, i \in Phys :
              i <= Top /\ tbl.pool[i].mapped # "normal" => tbl.bb[l] # tbl.pool[i].block
         /\ Top <= idx
<1>1. Sound(tbl, idx)
  BY DEF SoundInv, RamOK
<1>2. idx \in Nat /\ Top <= idx /\ (\A i \in Phys : i <= Top => i <= idx)
  <2>1. idx \in Nat /\ op.n \in Int /\ \A i \in Phys : i \in Nat
    BY Sizes DEF TypeInv, BmtTypeOK, Op, Phys, Assumptions
  <2>2. pc \in {"uerase", "uwrite"} => op.n <= idx
    BY DEF SoundInv, UploadOK
  <2>3. Top \in Int /\ Top <= idx
    BY <2>1, <2>2 DEF Top
  <2>4. QED BY <2>1, <2>3
<1>3. \A l \in Logical, i \in Phys :
        i <= Top /\ tbl.pool[i].mapped # "normal" => tbl.bb[l] # tbl.pool[i].block
  BY <1>1, <1>2 DEF PoolFull, Sound
<1>4. QED BY <1>2, <1>3

LEMMA UploadNotMapped ==
  ASSUME Assumptions, TypeInv, SoundInv, PoolFull, Unharmed,
         pc \in {"uerase", "uwrite"}, Uploading
  PROVE  \A l \in Logical : tbl.bb[l] # Place
<1>1. op.n \in Phys /\ op.n <= Top /\ tbl.pool[op.n].mapped # "normal" /\ Running
  BY UploadStep DEF Top, Uploading, Running
<1>2. QED BY <1>1, NotHome DEF Place

(* The home of the table in RAM, and where an upload begins.               *)
LEMMA TableHome ==
  ASSUME Assumptions, TypeInv, SoundInv, PoolFull, Nominal, RamTable, Running
  PROVE  /\ tbl.pool[idx].block \in Phys
         /\ \A l \in Logical : tbl.bb[l] # tbl.pool[idx].block
         /\ pc \in {"prepare", "copy", "uerase", "uwrite"} => op.n = idx
         /\ BmtIndex(tbl.pool) = idx /\ BmtAt(tbl.pool) # {} /\ Home(tbl) = tbl.pool[idx].block
         /\ tbl.pool[idx].block >= PoolLba
<1>1. /\ idx \in Phys /\ idx \in Nat /\ op.n \in Int /\ idx <= idx
      /\ tbl.pool \in [Phys -> Entry]
  BY Sizes DEF TypeInv, BmtTypeOK, Table, Op, Phys, Assumptions
<1>2. tbl.pool[idx].mapped = "bmt" /\ tbl.pool[idx].block # 0
  BY DEF RamTable
<1>3. \A l \in Logical : tbl.bb[l] # tbl.pool[idx].block
  <2>1. Sound(tbl, idx)
    BY DEF SoundInv, RamOK, Unharmed, Nominal
  <2>2. QED BY <1>1, <1>2, <2>1 DEF Sound
<1>4. pc \in {"prepare", "copy", "uerase", "uwrite"} => op.n = idx
  <2>1. pc \in {"uerase", "uwrite"} => op.n <= idx /\ ~(op.n < idx /\ idx <= idx)
    BY <1>1, <1>2 DEF SoundInv, UploadOK
  <2>2. QED BY <1>1, <2>1 DEF SoundInv, UploadOK
<1>5. idx \in BmtAt(tbl.pool)
  <2>1. Top = idx
    BY <1>4 DEF Top
  <2>2. \A i \in 0..idx : i \in Phys /\ i <= idx
    BY <1>1, Sizes DEF Phys, Assumptions
  <2>3. QED BY <1>1, <1>2, <2>1, <2>2 DEF PoolFull, BmtAt
<1>6. BmtIndex(tbl.pool) = idx
  <2>1. BmtIndex(tbl.pool) \in BmtAt(tbl.pool)
    BY <1>5, IndexFound DEF Assumptions
  <2>2. QED BY <1>1, <1>2, <2>1 DEF BmtAt, SoundInv, RamOK, PoolOK
<1>7. tbl.pool[idx].block \in Phys /\ tbl.pool[idx].block >= PoolLba
  BY <1>1, <1>2 DEF Entry, SoundInv, RamOK, PoolOK
<1>8. QED BY <1>3, <1>4, <1>5, <1>6, <1>7 DEF Home

(* Nothing but an upload touches the table on the chip.                    *)
LEMMA TablesSame ==
  ASSUME Assumptions, TypeInv, SoundInv, OpOK, PoolFull, Nominal, RamTable,
         Nominal', [Next]_vars, ~UploadErase, ~UploadWrite
  PROVE  \A p \in Phys : flash'[p].table = flash[p].table
<1> DEFINE Same == \A p \in Phys : flash'[p].table = flash[p].table
<1>0. flash \in [Phys -> Content] /\ Cur = tbl.bb[op.blk] /\ op.blk \in Logical
  BY DEF TypeInv, BmtTypeOK, Cur, Op
<1>1. ASSUME NEW c, c.table = NoTable, flash' = [flash EXCEPT ![Cur] = c], Running
      PROVE  Same
  <2>1. Cur # tbl.pool[idx].block
    BY <1>0, <1>1, TableHome
  <2>2. flash[Cur].table = NoTable \/ Cur \notin Phys
    BY <1>1, <2>1 DEF RamTable
  <2>3. QED BY <1>0, <1>1, <2>2
<1>2. ASSUME NEW b, NEW p, NEW v, flash' = [flash EXCEPT ![b].pages[p] = v] PROVE Same
  BY <1>0, <1>2 DEF Content
<1>3. ASSUME NEW x PROVE Filled(x).table = NoTable
  BY DEF Filled
<1>4. CASE UNCHANGED flash
  BY <1>4
<1>5. CASE BootLoad \/ BootScan \/ BootTorn \/ UploadGivesUp \/ ReadOk \/ ReadFlips
           \/ IsBad \/ MarkBadRemaps \/ MarkBad \/ Unmap \/ FreeUnused
  BY <1>4, <1>5 DEF BootLoad, BootScan, BootTorn, UploadGivesUp, ReadOk, ReadFlips,
     IsBad, MarkBadRemaps, MarkBad, Unmap, FreeUnused
<1>6. CASE Operation
  BY <1>4, <1>6 DEF Operation, BeginRead, BeginWrite, BeginErase, BeginOther, Begin
<1>7. CASE Prepare \/ EraseOk
  <2>1. Running /\ \E x : flash' = [flash EXCEPT ![Cur] = Filled(x)]
    BY <1>0, <1>7 DEF Prepare, EraseOk, Attempt, Running, OpOK, Copying
  <2>2. QED BY <1>1, <1>3, <2>1
<1>8. CASE CopyPage \/ ReadFails \/ WriteOk \/ WriteFails
  <2>1. \E b, p, v : flash' = [flash EXCEPT ![b].pages[p] = v]
    <3>1. CASE CopyPage
      <4> DEFINE v == Programmed(flash[op.dst].pages[op.at], flash[op.src].pages[op.at])
      <4>1. flash' = [flash EXCEPT ![op.dst].pages[op.at] = v]
        BY <3>1 DEF CopyPage
      <4> HIDE DEF v
      <4>2. QED BY <4>1
    <3>2. CASE WriteOk
      <4> DEFINE v == Programmed(flash[Cur].pages[op.page], op.val)
      <4>1. flash' = [flash EXCEPT ![Cur].pages[op.page] = v]
        BY <3>2 DEF WriteOk
      <4> HIDE DEF v
      <4>2. QED BY <4>1
    <3>3. CASE ReadFails \/ WriteFails
      BY <3>3 DEF ReadFails, WriteFails
    <3>4. QED BY <1>8, <3>1, <3>2, <3>3
  <2>2. QED BY <1>2, <2>1
<1>9. CASE CopyStops
  <2>1. UNCHANGED flash \/ \E b, p, v : flash' = [flash EXCEPT ![b].pages[p] = v]
    BY <1>9 DEF CopyStops
  <2>2. QED BY <1>2, <1>4, <2>1
<1>10. CASE EraseFails
  <2>1. PICK c \in {flash[Cur], Filled("junk")} : flash' = [flash EXCEPT ![Cur] = c]
    BY <1>10 DEF EraseFails
  <2>2. CASE c = flash[Cur]
    BY <1>0, <2>1, <2>2
  <2>3. CASE c = Filled("junk")
    BY <1>1, <1>3, <1>10, <2>1, <2>3 DEF EraseFails, Attempt, Running
  <2>4. QED BY <2>1, <2>2, <2>3
<1>11. CASE UploadFails
  BY <1>11 DEF UploadFails, Nominal
<1>12. CASE Crash
  <2>1. pc # "uwrite" /\ (pc = "uerase" => UNCHANGED flash)
    BY <1>12 DEF Crash, Nominal
  <2>2. ASSUME pc \in {"attempt", "prepare"},
               HalfDone(Cur, {Filled("junk")}) \/ (pc = "prepare" /\ HalfDone(op.dst, {Filled("junk")}))
        PROVE  Same
    <3>1. Running /\ flash' = [flash EXCEPT ![Cur] = Filled("junk")]
      BY <2>2 DEF HalfDone, Running, OpOK, Copying, Cur
    <3>2. QED BY <1>1, <1>3, <3>1
  <2>3. ASSUME flash' = [flash EXCEPT ![Cur].pages[op.page] = "junk"]
               \/ flash' = [flash EXCEPT ![op.dst].pages[op.at] = "junk"]
        PROVE  Same
    BY <1>2, <2>3
  <2>4. Interrupted
    BY <1>12 DEF Crash
  <2>5. CASE pc = "uwrite" \/ pc = "uerase"
    BY <1>4, <2>1, <2>5
  <2>6. CASE ~(pc = "uwrite" \/ pc = "uerase")
    BY <1>4, <2>2, <2>3, <2>4, <2>6 DEF Interrupted, Attempt
  <2>7. QED BY <2>5, <2>6
<1>13. CASE UNCHANGED vars
  BY <1>4, <1>13 DEF vars
<1>14. QED
  BY <1>5, <1>6, <1>7, <1>8, <1>9, <1>10, <1>11, <1>12, <1>13 DEF Next

LEMMA NominalBefore ==
  ASSUME [Next]_vars, Nominal' PROVE Nominal
<1>1. harm = {}
  BY HarmGrows DEF Nominal
<1>2. moved' = moved \/ moved'
  <2>1. CASE BootLoad \/ BootScan \/ BootTorn \/ CopyPage \/ CopyStops \/ Prepare
             \/ UploadErase \/ UploadWrite \/ UploadFails \/ UploadGivesUp
    BY <2>1 DEF BootLoad, BootScan, BootTorn, CopyPage, CopyStops, Prepare,
       UploadErase, UploadWrite, UploadFails, UploadGivesUp, history
  <2>2. CASE ReadOk \/ ReadFlips \/ ReadFails \/ WriteOk \/ WriteFails \/ EraseOk
             \/ EraseFails \/ IsBad \/ MarkBadRemaps \/ MarkBad \/ Unmap \/ FreeUnused
             \/ Crash
    BY <2>2 DEF ReadOk, ReadFlips, ReadFails, WriteOk, WriteFails, EraseOk,
       EraseFails, IsBad, MarkBadRemaps, MarkBad, Unmap, FreeUnused, Crash, history
  <2>3. CASE Operation
    BY <2>3 DEF Operation, BeginRead, BeginWrite, BeginErase, BeginOther, Begin
  <2>4. QED BY <2>1, <2>2, <2>3 DEF Next, vars
<1>3. QED BY <1>1, <1>2 DEF Nominal

LEMMA PersistUpload ==
  ASSUME Assumptions, TypeInv, SoundInv, PersistInv, Nominal, UploadErase \/ UploadWrite
  PROVE  (ChipTables /\ RamTable)'
<1> DEFINE h == tbl.pool[idx].block
<1>0. /\ flash \in [Phys -> Content] /\ tbl \in Table /\ idx \in Phys
      /\ pc \in {"uerase", "uwrite"} /\ Running /\ RamTable
  BY DEF TypeInv, BmtTypeOK, UploadErase, UploadWrite, Running, PersistInv
<1>1. /\ h \in Phys /\ op.n = idx /\ Place = h /\ h >= PoolLba
      /\ BmtAt(tbl.pool) # {} /\ Home(tbl) = h
  BY <1>0, TableHome DEF PersistInv, Place
<1>2. /\ \A p \in Phys : flash[p].table # NoTable => p = h
      /\ tbl.pool[idx].mapped = "bmt" /\ h # 0
  BY <1>0 DEF RamTable
<1> HIDE DEF h
<1>3. CASE UploadErase
  <2>1. flash' = [flash EXCEPT ![h] = Filled("blank")] /\ UNCHANGED ram /\ pc' = "uwrite"
    BY <1>1, <1>3 DEF UploadErase
  <2>2. \A p \in Phys : flash'[p].table = NoTable
    BY <1>0, <1>1, <1>2, <2>1 DEF Filled
  <2>3. ChipTables'
    BY <2>2 DEF ChipTables, Assumptions, TableAssumption
  <2>4. QED BY <1>2, <2>1, <2>2, <2>3 DEF RamTable, ram, Settled, h
<1>4. CASE UploadWrite
  <2>1. flash' = [flash EXCEPT ![h].table = tbl] /\ tbl' = tbl /\ idx' = idx
    BY <1>1, <1>4 DEF UploadWrite
  <2>2. \A p \in Phys : flash'[p].table = IF p = h THEN tbl ELSE NoTable
    BY <1>0, <1>1, <1>2, <2>1 DEF Content
  <2>3. tbl # NoTable /\ tbl # Torn /\ NoTable # Torn
    BY <1>0 DEF Assumptions, TableAssumption
  <2>4. ChipTables'
    <3>1. \A p \in Phys : flash'[p].table # Torn
      BY <2>2, <2>3
    <3>2. \A p \in Phys : flash'[p].table # NoTable => p = h /\ flash'[p].table = tbl
      BY <2>2
    <3>3. QED BY <1>1, <3>1, <3>2 DEF ChipTables, Home, BmtAt, BmtIndex
  <2>5. QED BY <1>1, <1>2, <2>1, <2>2, <2>4 DEF RamTable, h
<1>5. QED BY <1>3, <1>4

LEMMA PersistKept ==
  ASSUME Assumptions, TypeInv, SoundInv, PersistInv, [Next]_vars
  PROVE  PersistInv'
<1>1. OpOK' /\ PoolFull'
  BY OpOKKept, PoolFullKept DEF PersistInv
<1> SUFFICES ASSUME Nominal' PROVE (ChipTables /\ RamTable)'
  BY <1>1 DEF PersistInv
<1>2. Nominal /\ ChipTables /\ RamTable /\ OpOK /\ PoolFull
  BY NominalBefore DEF PersistInv
<1>3. /\ op \in Op /\ tbl \in Table /\ idx \in Phys /\ flash \in [Phys -> Content]
  BY DEF TypeInv, BmtTypeOK
<1>4. CASE UploadErase \/ UploadWrite
  BY <1>2, <1>4, PersistUpload
<1>5. CASE ~(UploadErase \/ UploadWrite)
  <2>1. \A p \in Phys : flash'[p].table = flash[p].table
    BY <1>2, <1>5, TablesSame
  <2>2. ChipTables'
    <3>1. ASSUME NEW p \in Phys, flash'[p].table # NoTable
          PROVE  /\ p >= PoolLba /\ p = Home(flash'[p].table)
                 /\ BmtAt(flash'[p].table.pool) # {}
      BY <1>2, <2>1, <3>1 DEF ChipTables
    <3>2. QED BY <1>2, <2>1, <3>1 DEF ChipTables, Home, BmtAt, BmtIndex
  <2> SUFFICES RamTable'
    BY <2>2
  <2>3. ASSUME Running' => /\ Running /\ idx' = idx
                           /\ tbl'.pool[idx].block = tbl.pool[idx].block
                           /\ tbl'.pool[idx].mapped = tbl.pool[idx].mapped
                           /\ Settled' => Settled /\ tbl' = tbl
        PROVE  RamTable'
    <3> SUFFICES ASSUME Running' PROVE RamTable'
      BY DEF RamTable
    <3>1. tbl.pool[idx].block \in Phys
      BY <1>2, <2>3, TableHome
    <3>2. QED BY <1>2, <2>1, <2>3, <3>1 DEF RamTable
  <2>4. CASE BootLoad
    <3> DEFINE g == Greatest(Signed)
    <3>1. /\ g \in Phys /\ g \in Signed /\ tbl' = flash[g].table /\ tbl' \in Table
          /\ idx' = BmtIndex(tbl'.pool) /\ BmtIndex(tbl'.pool) \in BmtAt(tbl'.pool)
          /\ idx' \in Phys /\ \A i \in Phys : i <= idx' => tbl'.pool[i].block # 0
      BY <2>4, LoadedTable
    <3> HIDE DEF g
    <3>2. g = tbl'.pool[idx'].block /\ \A p \in Phys : flash[p].table # NoTable => p = g
      BY <1>2, <3>1 DEF ChipTables, Home, Assumptions, TableAssumption
    <3>3. tbl'.pool[idx'].mapped = "bmt" /\ idx' <= idx'
      BY <3>1, Sizes DEF BmtAt, Phys, Assumptions
    <3>4. QED BY <2>1, <3>1, <3>2, <3>3 DEF RamTable
  <2>5. CASE BootScan \/ BootTorn
    <3>1. BootScan /\ Signed = {}
      BY <2>5 DEF BootScan, BootTorn, Harmed, Nominal
    <3>2. \A p \in Phys : flash[p].table = NoTable
      <4> SUFFICES ASSUME NEW p \in Phys, flash[p].table # NoTable PROVE FALSE
        OBVIOUS
      <4>1. p >= PoolLba
        BY <1>2 DEF ChipTables
      <4>2. p \in Signed
        BY <4>1, Sizes DEF Signed, Phys, Assumptions
      <4>3. QED BY <3>1, <4>2
    <3>3. CASE EnoughBlocks
      <4>1. /\ pc' = "uerase" /\ idx' \in Phys /\ tbl'.pool[idx'].mapped = "bmt"
            /\ \A i \in Phys : i <= idx' => tbl'.pool[i].block # 0
        BY <3>1, <3>3, ScanResult DEF BootScan
      <4>2. idx' <= idx'
        BY <4>1, Sizes DEF Phys, Assumptions
      <4>3. QED BY <2>1, <3>2, <4>1, <4>2 DEF RamTable, Settled
    <3>4. CASE ~EnoughBlocks
      BY <3>1, <3>4 DEF BootScan, Scan, RamTable, Running
    <3>5. QED BY <3>3, <3>4
  <2>6. CASE Operation
    <3>1. UNCHANGED ram /\ pc' = "attempt" /\ pc = "idle"
      BY <2>6 DEF Operation, BeginRead, BeginWrite, BeginErase, BeginOther, Begin
    <3>2. QED BY <2>3, <3>1 DEF Running, Settled, ram
  <2>7. CASE Prepare
    <3>1. /\ UNCHANGED ram /\ pc = "prepare" /\ op' = op /\ pc' \in {"copy", "uerase"}
      BY <2>7 DEF Prepare
    <3>2. QED BY <2>3, <3>1 DEF Running, Settled, ram
  <2>8. CASE CopyPage \/ CopyStops
    <3>1. /\ UNCHANGED ram /\ pc = "copy" /\ pc' \in {"copy", "uerase", "idle"}
          /\ pc' = "idle" => op.kind = "repair"
          /\ pc' = "copy" => op'.kind = op.kind
      BY <1>3, <2>8 DEF CopyPage, CopyStops, CopyEnds, Done, Op
    <3>2. QED BY <2>3, <3>1 DEF Running, Settled, ram
  <2>9. CASE UploadFails
    BY <2>9 DEF UploadFails, Nominal
  <2>10. CASE UploadGivesUp
    BY <2>10 DEF UploadGivesUp, RamTable, Running
  <2>11. CASE ReadOk \/ WriteOk \/ EraseOk \/ MarkBad
    BY <2>3, <2>11 DEF ReadOk, WriteOk, EraseOk, MarkBad, Attempt, Done, Running,
       Settled, ram
  <2>12. CASE Remaps
    <3>1. pc = "attempt" /\ Running /\ op.kind # "repair"
      BY <2>12, RemapCases DEF Running, RemapKinds
    <3>2. ASSUME NEW len \in 0..Pages, NEW then \in {"idle", "attempt", "mark"},
                 Remap(len, then)
          PROVE  RamTable'
      <4>1. idx' = idx /\ pc' = "prepare" /\ op'.kind = op.kind
        BY <3>1, <3>2, RemapOp DEF Pc
      <4>2. /\ tbl'.pool[idx].block = tbl.pool[idx].block
            /\ tbl'.pool[idx].mapped = tbl.pool[idx].mapped
        <5>1. Least(FreeEntries) # idx
          BY <1>3, <3>2, RemapPool, Sizes DEF Phys, Assumptions
        <5>2. QED BY <1>3, <3>2, <5>1, RemapPool
      <4>3. QED BY <2>3, <3>1, <4>1, <4>2 DEF Settled
    <3>3. CASE UNCHANGED ram /\ pc' \in {"idle", "mark"}
      BY <2>3, <3>1, <3>3 DEF Settled, ram
    <3>4. QED BY <2>12, <3>2, <3>3, RemapCases
  <2>13. CASE Unmap
    <3>1. pc = "attempt" /\ pc' = "uerase" /\ idx' = idx /\ tbl'.pool = tbl.pool
      BY <1>3, <2>13 DEF Unmap, Attempt, Table
    <3>2. QED BY <2>3, <3>1 DEF Running, Settled
  <2>14. CASE FreeUnused
    <3>1. pc = "attempt" /\ Running
      BY <2>14 DEF FreeUnused, Attempt, Running
    <3>2. CASE Unused = {}
      BY <2>3, <2>14, <3>1, <3>2 DEF FreeUnused, Done, Settled
    <3>3. CASE Unused # {}
      <4>1. idx \notin Unused
        BY <1>2, <3>1 DEF RamTable, Unused
      <4>2. /\ pc' = "uerase" /\ idx' = idx
            /\ tbl'.pool[idx].block = tbl.pool[idx].block
            /\ tbl'.pool[idx].mapped = tbl.pool[idx].mapped
        BY <1>3, <2>14, <3>3, <4>1, FreedPool
      <4>3. QED BY <2>3, <3>1, <4>2 DEF Settled
    <3>4. QED BY <3>2, <3>3
  <2>15. CASE Crash
    BY <2>15 DEF Crash, RamTable, Running
  <2>16. CASE UNCHANGED vars
    BY <2>3, <2>16 DEF vars, Running, Settled
  <2>17. QED
    BY <1>5, <2>4, <2>5, <2>6, <2>7, <2>8, <2>9, <2>10, <2>11, <2>12, <2>13, <2>14,
       <2>15, <2>16
    DEF Next, Remaps
<1>6. QED BY <1>4, <1>5

LEMMA PersistInvariant == Spec => []PersistInv
<1> USE BmtAssumption, TableAssumption DEF Assumptions
<1>1. Init => PersistInv
  <2> SUFFICES ASSUME Init PROVE PersistInv
    OBVIOUS
  <2>1. pc = "off" /\ ~Running /\ op.then = "idle" /\ op.kind = "none"
    BY DEF Init, Running, NoOp
  <2>2. \A p \in Phys : flash[p].table = NoTable
    BY DEF Init, Filled
  <2>3. QED
    BY <2>1, <2>2 DEF PersistInv, OpOK, Copying, PoolFull, ChipTables, RamTable
<1>2. TypeInv /\ SoundInv /\ PersistInv /\ [Next]_vars => PersistInv'
  BY PersistKept
<1>3. QED BY <1>1, <1>2, BmtTypeInvariant, SoundInvariant, PTL DEF Spec

(* When no upload has failed or was cut off, the table in RAM is on the    *)
(* chip where a boot looks for it, whenever no change of it is under way.  *)
THEOREM TableOnChip == Spec => []TablePersisted
<1> USE BmtAssumption, TableAssumption DEF Assumptions
<1>1. TypeInv /\ SoundInv /\ PersistInv => TablePersisted
  <2> SUFFICES ASSUME TypeInv, SoundInv, PersistInv, Nominal, pc \in {"idle", "attempt", "mark"}
               PROVE  /\ Signed # {} /\ flash[Greatest(Signed)].table = tbl
                      /\ BmtIndex(tbl.pool) = idx
    BY DEF TablePersisted, Nominal
  <2>1. Running /\ RamTable /\ ChipTables /\ Settled
    BY DEF PersistInv, Running, Settled
  <2> DEFINE h == tbl.pool[idx].block
  <2>2. h \in Phys /\ h >= PoolLba /\ BmtIndex(tbl.pool) = idx
    BY <2>1, TableHome DEF PersistInv
  <2>3. flash[h].table = tbl /\ tbl # NoTable
    BY <2>1 DEF RamTable, TypeInv, BmtTypeOK
  <2> HIDE DEF h
  <2>4. h \in Signed
    BY <2>2, <2>3, Sizes DEF Signed, Phys
  <2>5. Greatest(Signed) \in Signed /\ Greatest(Signed) \in Phys
    BY <2>4, SignedFound
  <2>6. Greatest(Signed) = h
    BY <2>1, <2>2, <2>3, <2>5 DEF ChipTables, Signed
  <2>7. QED BY <2>2, <2>3, <2>4, <2>6
<1>2. QED BY <1>1, BmtTypeInvariant, SoundInvariant, PersistInvariant, PTL

-----------------------------------------------------------------------------
(* What the MTD user may rely on is in the blocks the tables name.         *)

Kept(b, x) == \A p \in Page : want[b][p] # "any" => flash[x].pages[p] = want[b][p]
AllKept(t) == \A b \in Logical : Kept(b, t.bb[b])

(* What an operation knows of the block it works on.                       *)
OpWants ==
  /\ op.kind = "write" => /\ want[op.blk][op.page] = "any"
                          /\ \A p \in Page : p > op.page => want[op.blk][p] = "blank"
  /\ op.kind = "erase" => \A p \in Page : want[op.blk][p] = "any"
  /\ Copying => /\ \A p \in Page : p > op.len => want[op.blk][p] \in {"any", "blank"}
                /\ op.kind = "write" => op.len = op.page - 1
  /\ pc = "copy" => op.at <= op.len
  /\ pc = "prepare" \/ (op.kind = "repair" /\ pc # "copy") => op.at = 1

(* While data is copied it is in op.src; op.dst has the pages before op.at *)
(* and is blank behind them.  A page about to be programmed is blank.      *)
CopyOK ==
  /\ op.src # op.dst /\ Kept(op.blk, op.src)
  /\ pc = "copy" =>
       /\ \A p \in Page : p < op.at /\ want[op.blk][p] # "any"
                            => flash[op.dst].pages[p] = want[op.blk][p]
       /\ \A p \in Page : p >= op.at => flash[op.dst].pages[p] = "blank"
  /\ pc \in {"uerase", "uwrite"} =>
       \A i \in Phys : i <= op.n /\ tbl.pool[i].mapped # "normal"
                         => tbl.pool[i].block # op.src
RamData ==
  /\ Running =>
       /\ \A b \in Logical : b # op.blk \/ ~Copying => Kept(b, tbl.bb[b])
       /\ Copying => CopyOK
       /\ op.kind = "write" /\ pc \in {"attempt", "uerase", "uwrite"}
            => flash[tbl.bb[op.blk]].pages[op.page] = "blank"
  /\ pc # "wild" /\ (pc = "off" => ~moved)

(* The same for the table on the chip, which a reboot will load; before    *)
(* there is one, everything is blank.                                      *)
Fresh == \A p \in Phys : flash[p].table = NoTable
Blank == /\ \A p \in Phys, q \in Page : flash[p].pages[q] = "blank"
         /\ \A b \in Logical, q \in Page : want[b][q] = "blank"
TableData(t) ==
  /\ pc = "off" \/ (Running /\ op.kind # "repair") => AllKept(t)
  /\ pc \in {"prepare", "copy"} /\ op.kind # "repair" =>
       \A b \in Logical : t.bb[b] = IF b = op.blk THEN op.src ELSE tbl.bb[b]
ChipData ==
  /\ Fresh /\ (pc \in {"off", "dead"} \/ op.kind = "boot") => Blank
  /\ Running /\ op.kind # "boot" /\ pc # "uwrite" => ~Fresh
  /\ \A p \in Phys : flash[p].table # NoTable =>
       TableData(flash[p].table) /\ pc # "dead" /\ op.kind # "boot"

DataInv == OpWants /\ (harm = {} => RamData) /\ (Nominal => ChipData)

LEMMA NoOpFields ==
  /\ NoOp.kind = "none" /\ NoOp.blk = 0 /\ NoOp.at = 1 /\ NoOp.then = "idle"
BY DEF NoOp

(* How an operation begins.                                                *)
LEMMA BeginStep ==
  ASSUME Assumptions, TypeInv, Operation
  PROVE  /\ UNCHANGED <<flash, ram, moved, harm>> /\ pc = "idle" /\ pc' = "attempt"
         /\ op'.then = "idle" /\ op'.at = 1 /\ op'.kind # "boot"
         /\ op' \in Op /\ op'.blk \in Logical /\ op'.page \in Page
         /\ \A b \in Logical, p \in Page : want'[b][p] \in {want[b][p], "any"}
         /\ op'.kind = "write" => /\ want'[op'.blk][op'.page] = "any"
                                  /\ want[op'.blk][op'.page] = "blank"
                                  /\ \A p \in Page : p > op'.page => want'[op'.blk][p] = "blank"
         /\ op'.kind = "erase" => \A p \in Page : want'[op'.blk][p] = "any"
<1>1. /\ NoOp \in Op /\ User \subseteq Logical /\ 0 \in Logical
      /\ want \in [Logical -> [Page -> Cell \cup {"any"}]]
      /\ Page = 1..Pages /\ Pages \in Nat
  BY NoOpType, Sizes DEF Assumptions, TypeInv, BmtTypeOK, Page
<1>2. CASE \E b \in User, p \in Page, v \in Data : BeginWrite(b, p, v)
  <2>1. PICK b \in User, p \in Page, v \in Data : BeginWrite(b, p, v)
    BY <1>2
  <2> DEFINE o == [NoOp EXCEPT !.kind = "write", !.blk = b, !.page = p, !.val = v]
  <2>2. /\ Begin(o) /\ want' = [want EXCEPT ![b][p] = "any"]
        /\ \A q \in p..Pages : want[b][q] = "blank"
    BY <2>1 DEF BeginWrite
  <2>3. /\ o.kind = "write" /\ o.blk = b /\ o.page = p /\ o.then = "idle" /\ o.at = 1
        /\ o \in Op
    BY <1>1, NoOpFields DEF Op, Kind
  <2> HIDE DEF o
  <2>4. /\ \A c \in Logical, q \in Page : want'[c][q] \in {want[c][q], "any"}
        /\ want'[b][p] = "any" /\ want[b][p] = "blank"
        /\ \A q \in Page : q > p => want'[b][q] = "blank"
    BY <1>1, <2>2
  <2>5. QED BY <1>1, <2>2, <2>3, <2>4 DEF Begin
<1>3. CASE \E b \in User : BeginErase(b)
  <2>1. PICK b \in User : BeginErase(b)
    BY <1>3
  <2> DEFINE o == [NoOp EXCEPT !.kind = "erase", !.blk = b]
  <2>2. /\ Begin(o) /\ want' = [want EXCEPT ![b] = [p \in Page |-> "any"]]
    BY <2>1 DEF BeginErase
  <2>3. o.kind = "erase" /\ o.blk = b /\ o.then = "idle" /\ o.at = 1 /\ o \in Op
    BY <1>1, NoOpFields DEF Op, Kind
  <2> HIDE DEF o
  <2>4. /\ \A c \in Logical, q \in Page : want'[c][q] \in {want[c][q], "any"}
        /\ \A q \in Page : want'[b][q] = "any"
    BY <1>1, <2>2
  <2>5. QED BY <1>1, <2>2, <2>3, <2>4 DEF Begin, Op
<1>4. CASE \E b \in User, p \in Page : BeginRead(b, p)
  <2>1. PICK b \in User, p \in Page : BeginRead(b, p)
    BY <1>4
  <2> DEFINE o == [NoOp EXCEPT !.kind = "read", !.blk = b, !.page = p]
  <2>2. Begin(o) /\ want' = want
    BY <2>1 DEF BeginRead
  <2>3. o.kind = "read" /\ o.blk = b /\ o.page = p /\ o.then = "idle" /\ o.at = 1 /\ o \in Op
    BY <1>1, NoOpFields DEF Op, Kind
  <2> HIDE DEF o
  <2>4. QED BY <1>1, <2>2, <2>3 DEF Begin
<1>5. CASE \E b \in Logical, k \in Kind \ {"boot", "write", "erase"} : BeginOther(k, b)
  <2>1. PICK b \in Logical, k \in Kind \ {"boot", "write", "erase"} : BeginOther(k, b)
    BY <1>5
  <2> DEFINE o == [NoOp EXCEPT !.kind = k, !.blk = b]
  <2>2. Begin(o) /\ want' = want
    BY <2>1 DEF BeginOther
  <2>3. o.kind = k /\ o.blk = b /\ o.then = "idle" /\ o.at = 1 /\ o \in Op
    BY <1>1, NoOpFields DEF Op
  <2> HIDE DEF o
  <2>4. QED BY <1>1, <2>1, <2>2, <2>3 DEF Begin, Op
<1>6. QED BY <1>1, <1>2, <1>3, <1>4, <1>5 DEF Operation, Kind

LEMMA WantsKept ==
  ASSUME Assumptions, TypeInv, OpOK, OpWants, [Next]_vars
  PROVE  OpWants'
<1>1. /\ op \in Op /\ tbl \in Table /\ op.blk \in Logical /\ pc \in Pc
      /\ tbl.bb \in [Logical -> Phys] /\ Pages \in 0..Pages
      /\ want \in [Logical -> [Page -> Cell \cup {"any"}]]
      /\ Page = 1..Pages /\ Pages \in Nat /\ 1 <= Pages
      /\ op.page \in Page /\ op.at \in Page /\ op.len \in 0..Pages
  BY Sizes DEF TypeInv, BmtTypeOK, Table, Op, Assumptions, Page
<1>2. CASE op' = NoOp /\ pc' \in {"idle", "off"}
  BY <1>2, NoOpFields DEF OpWants, Copying
<1>3. CASE /\ UNCHANGED <<op, want>>
           /\ pc' = pc \/ (pc # "copy" /\ pc' \in {"dead", "wild"})
  BY <1>3 DEF OpWants, Copying
<1>4. CASE BootLoad \/ ReadOk \/ WriteOk \/ EraseOk \/ MarkBad \/ Crash
  BY <1>2, <1>4 DEF BootLoad, ReadOk, WriteOk, EraseOk, MarkBad, Crash, Done
<1>5. CASE BootScan \/ BootTorn
  <2>1. CASE Scan /\ EnoughBlocks
    <3>1. pc' = "uerase" /\ op'.kind = "boot" /\ op'.then = "idle"
      BY <2>1, ScanResult
    <3>2. QED BY <3>1 DEF OpWants, Copying
  <2>2. QED BY <1>3, <1>5, <2>1 DEF BootScan, BootTorn, Scan, ram
<1>6. CASE Operation
  BY <1>6, BeginStep DEF OpWants, Copying
<1>7. CASE Prepare
  <2>1. /\ UNCHANGED <<op, want>> /\ pc = "prepare"
        /\ pc' = IF op.len > 0 THEN "copy" ELSE "uerase"
    BY <1>7 DEF Prepare
  <2>2. op.at = 1 /\ (op.len > 0 => 1 <= op.len)
    BY <1>1, <2>1 DEF OpWants
  <2>3. QED BY <2>1, <2>2 DEF OpWants, Copying
<1>8. CASE CopyPage \/ CopyStops
  <2>1. UNCHANGED want /\ pc = "copy"
    BY <1>8 DEF CopyPage, CopyStops, history
  <2>2. CASE CopyEnds
    BY <1>2, <2>1, <2>2 DEF CopyEnds, Done, OpWants, OpOK, Copying
  <2>3. CASE op.at < op.len /\ op' = [op EXCEPT !.at = @ + 1] /\ UNCHANGED pc
    <3>1. /\ op'.kind = op.kind /\ op'.blk = op.blk /\ op'.page = op.page
          /\ op'.len = op.len /\ op'.at = op.at + 1 /\ op'.then = op.then
      BY <1>1, <2>3 DEF Op
    <3>2. op'.at <= op'.len
      BY <1>1, <2>3, <3>1
    <3>3. QED BY <2>1, <2>3, <3>1, <3>2 DEF OpWants, Copying
  <2>4. QED BY <1>8, <2>2, <2>3 DEF CopyPage, CopyStops
<1>9. CASE UploadErase
  BY <1>9 DEF UploadErase, OpWants, Copying, history
<1>10. CASE UploadWrite
  BY <1>2, <1>10 DEF UploadWrite, OpWants, OpOK, Copying, Done, history
<1>11. CASE UploadFails
  <2>1. /\ pc' = "uerase" /\ pc \in {"uerase", "uwrite"} /\ want' = want
        /\ op'.then = op.then /\ op'.kind = op.kind /\ op'.at = op.at
        /\ op'.blk = op.blk /\ op'.len = op.len /\ op'.page = op.page
    BY <1>1, <1>11 DEF UploadFails, Op
  <2>2. QED BY <2>1 DEF OpWants, Copying
<1>12. CASE UploadGivesUp
  BY <1>3, <1>12 DEF UploadGivesUp
<1>13. CASE Remaps
  <2>1. pc = "attempt" /\ op.kind \in RemapKinds /\ Running
    BY <1>13, RemapCases DEF Running
  <2>2. want' = want \/ op.kind = "read"
    BY <1>13 DEF Remaps, ReadFlips, ReadFails, WriteFails, EraseFails, IsBad,
       MarkBadRemaps, Attempt, history
  <2>3. ASSUME NEW len \in 0..Pages, NEW then \in {"idle", "attempt", "mark"},
               Remap(len, then), op.kind = "write" => len = op.page - 1,
               op.kind \notin {"write", "erase"} => len = Pages
        PROVE  OpWants'
    <3>1. /\ pc' = "prepare" /\ op'.kind = op.kind /\ op'.blk = op.blk /\ op'.page = op.page
          /\ op'.len = len /\ op'.at = 1 /\ op'.then = then
      BY <2>1, <2>3, RemapOp DEF Pc
    <3>2. \A p \in Page : p > len => want'[op.blk][p] \in {"any", "blank"}
      <4> SUFFICES ASSUME NEW p \in Page, p > len
                   PROVE  want'[op.blk][p] \in {"any", "blank"}
        OBVIOUS
      <4>1. CASE op.kind = "write"
        <5>1. p = op.page \/ p > op.page
          BY <1>1, <2>3, <4>1
        <5>2. QED BY <2>2, <4>1, <5>1 DEF OpWants
      <4>2. CASE op.kind = "erase"
        BY <2>2, <4>2 DEF OpWants
      <4>3. CASE op.kind \notin {"write", "erase"}
        BY <1>1, <2>3, <4>3
      <4>4. QED BY <4>1, <4>2, <4>3
    <3>3. op.kind \in {"write", "erase"} => want' = want
      BY <2>2
    <3>4. QED BY <2>1, <2>3, <3>1, <3>2, <3>3 DEF OpWants, RemapKinds
  <2>4. CASE pc' = "mark" /\ op.kind = "markbad" /\ op' = [op EXCEPT !.src = Cur]
    <3>1. op'.kind = "markbad"
      BY <1>1, <2>4 DEF Op
    <3>2. QED BY <2>4, <3>1 DEF OpWants, Copying
  <2>5. QED BY <1>2, <1>13, <2>3, <2>4, RemapCases
<1>14. CASE Unmap
  <2>1. /\ pc = "attempt" /\ pc' = "uerase" /\ op'.kind = op.kind /\ op'.len = Pages
        /\ op'.at = op.at /\ op.kind \in {"mark_good", "repair"}
    BY <1>1, <1>14 DEF Unmap, Attempt, Op
  <2>2. \A p \in Page : ~(p > Pages)
    BY <1>1
  <2>3. QED BY <2>1, <2>2 DEF OpWants, Copying
<1>15. CASE FreeUnused
  <2>1. pc = "attempt" /\ op.kind = "debug"
    BY <1>15 DEF FreeUnused, Attempt
  <2>2. CASE Unused # {}
    <3>1. pc' = "uerase" /\ op'.then = op.then /\ op'.kind = op.kind
      BY <1>15, <2>2, FreedPool
    <3>2. QED BY <2>1, <3>1 DEF OpWants, OpOK, Copying
  <2>3. QED BY <1>2, <1>15, <2>2 DEF FreeUnused, Done
<1>16. CASE UNCHANGED vars
  BY <1>3, <1>16 DEF vars
<1>17. QED
  BY <1>4, <1>5, <1>6, <1>7, <1>8, <1>9, <1>10, <1>11, <1>12, <1>13, <1>14, <1>15, <1>16
  DEF Next, Remaps

(* The facts every step starts from.                                       *)
Facts == /\ Assumptions /\ TypeInv /\ SoundInv /\ PersistInv /\ OpWants

LEMMA FactTypes ==
  ASSUME Facts
  PROVE  /\ flash \in [Phys -> Content] /\ tbl \in Table /\ idx \in Phys /\ op \in Op
         /\ tbl.bb \in [Logical -> Phys] /\ tbl.pool \in [Phys -> Entry]
         /\ want \in [Logical -> [Page -> Cell \cup {"any"}]]
         /\ op.blk \in Logical /\ op.page \in Page /\ op.at \in Page /\ op.len \in 0..Pages
         /\ op.src \in Phys /\ op.dst \in Phys
         /\ Page = 1..Pages /\ Pages \in Nat /\ 1 <= Pages
         /\ Cur = tbl.bb[op.blk] /\ Cur \in Phys
         /\ \A p \in Phys : flash[p].pages \in [Page -> Cell]
BY Sizes DEF Facts, Assumptions, TypeInv, BmtTypeOK, Table, Op, Page, Cur, Content

(* Two logical blocks never share a physical one.                          *)
LEMMA BlocksApart ==
  ASSUME Facts, Running, harm = {}
  PROVE  \A l, m \in Logical : l # m => tbl.bb[l] # tbl.bb[m]
BY DEF Facts, SoundInv, RamOK, Unharmed, Sound

(* After a step that leaves no operation in the middle of a copy.          *)
LEMMA SettledData ==
  ASSUME pc' \notin {"off", "wild", "prepare", "copy"},
         pc' \in {"uerase", "uwrite"} => op'.then # "prepare",
         \A b \in Logical, p \in Page :
           want'[b][p] # "any" => flash'[tbl'.bb[b]].pages[p] = want'[b][p],
         op'.kind = "write" /\ pc' \in {"attempt", "uerase", "uwrite"} =>
           flash'[tbl'.bb[op'.blk]].pages[op'.page] = "blank"
  PROVE  RamData'
BY DEF RamData, Copying, Kept

(* Steps of the flash in one block.                                        *)
LEMMA OneErased ==
  ASSUME Facts, NEW b \in Phys, NEW v, flash' = [flash EXCEPT ![b] = Filled(v)]
  PROVE  \A x \in Phys, p \in Page :
           flash'[x].pages[p] = IF x = b THEN v ELSE flash[x].pages[p]
BY FactTypes DEF Filled

LEMMA OnePage ==
  ASSUME Facts, NEW b \in Phys, NEW q \in Page, NEW v,
         flash' = [flash EXCEPT ![b].pages[q] = v]
  PROVE  \A x \in Phys, p \in Page :
           flash'[x].pages[p] = IF x = b /\ p = q THEN v ELSE flash[x].pages[p]
<1>1. flash \in [Phys -> Content] /\ \A p \in Phys : flash[p].pages \in [Page -> Cell]
  BY FactTypes
<1>2. flash'[b].pages = [flash[b].pages EXCEPT ![q] = v]
  BY <1>1 DEF Content
<1>3. \A x \in Phys : x # b => flash'[x] = flash[x]
  BY <1>1
<1>4. QED BY <1>1, <1>2, <1>3

LEMMA PrepareData ==
  ASSUME Facts, RamData, harm' = {}, Prepare PROVE RamData'
<1>1. /\ pc = "prepare" /\ UNCHANGED <<ram, op, want, moved>> /\ Running /\ Copying
      /\ pc' = IF op.len > 0 THEN "copy" ELSE "uerase"
      /\ flash' = [flash EXCEPT ![op.dst] = Filled("blank")] /\ harm = {}
  BY DEF Prepare, Running, Copying
<1>2. op.dst = tbl.bb[op.blk] /\ op.dst \in Phys /\ CopyOK /\ op.at = 1
  BY <1>1, FactTypes DEF Facts, PersistInv, OpOK, RamData, OpWants
<1>3. \A x \in Phys, p \in Page :
        flash'[x].pages[p] = IF x = op.dst THEN "blank" ELSE flash[x].pages[p]
  <2>1. flash' = [flash EXCEPT ![op.dst] = Filled("blank")] /\ op.dst \in Phys
    BY <1>1, <1>2
  <2>2. QED BY <2>1, FactTypes DEF Filled
<1>4. \A b \in Logical : b # op.blk => tbl.bb[b] # op.dst /\ tbl.bb[b] \in Phys
  BY <1>1, <1>2, BlocksApart, FactTypes
<1>5. \A b \in Logical : b # op.blk => Kept(b, tbl.bb[b])'
  BY <1>1, <1>3, <1>4 DEF RamData, Kept, ram
<1>6. op'.src # op'.dst /\ Kept(op.blk, op.src)'
  BY <1>1, <1>2, <1>3, FactTypes DEF CopyOK, Kept
<1>7. CASE op.len > 0
  <2>1. \A p \in Page : ~(p < op.at)
    BY <1>2, FactTypes
  <2>2. CopyOK'
    BY <1>1, <1>2, <1>3, <1>6, <1>7, <2>1 DEF CopyOK
  <2>3. QED BY <1>1, <1>5, <1>7, <2>2 DEF RamData, Copying
<1>8. CASE ~(op.len > 0)
  <2>1. pc' = "uerase" /\ op.kind # "repair" /\ op.then # "prepare"
    BY <1>1, <1>8, FactTypes DEF Facts, PersistInv, OpOK
  <2>2. \A p \in Page : p > op.len
    BY <1>8, FactTypes
  <2>3. \A p \in Page : want[op.blk][p] \in {"any", "blank"}
    BY <1>1, <2>2 DEF Facts, OpWants
  <2>4. \A b \in Logical, p \in Page :
          want'[b][p] # "any" => flash'[tbl'.bb[b]].pages[p] = want'[b][p]
    BY <1>1, <1>2, <1>3, <1>5, <2>3 DEF Kept, ram
  <2>5. flash'[tbl'.bb[op'.blk]].pages[op'.page] = "blank"
    BY <1>1, <1>2, <1>3, FactTypes DEF ram
  <2>6. QED BY <1>1, <2>1, <2>4, <2>5, SettledData
<1>9. QED BY <1>7, <1>8

(* The copy ends, all that is wanted has arrived.                          *)
LEMMA CopyEndsData ==
  ASSUME Facts, RamData, harm' = {}, harm = {}, pc = "copy", CopyEnds,
         UNCHANGED <<ram, want, moved>>,
         \A x \in Phys, p \in Page : x # op.dst => flash'[x].pages[p] = flash[x].pages[p],
         \A p \in Page : want[op.blk][p] # "any" => flash'[op.dst].pages[p] = want[op.blk][p],
         op.kind = "write" => flash'[op.dst].pages[op.page] = "blank"
  PROVE  RamData'
<1>1. Running /\ Copying /\ op.dst = tbl.bb[op.blk]
  BY DEF Running, Copying, Facts, PersistInv, OpOK
<1>2. \A b \in Logical : b # op.blk => tbl.bb[b] # op.dst /\ tbl.bb[b] \in Phys
  BY <1>1, BlocksApart, FactTypes
<1>3. \A b \in Logical, p \in Page :
        want'[b][p] # "any" => flash'[tbl'.bb[b]].pages[p] = want'[b][p]
  BY <1>1, <1>2 DEF RamData, Kept, ram
<1>4. CASE op.kind = "repair"
  BY <1>3, <1>4, SettledData, NoOpFields DEF CopyEnds, Done
<1>5. CASE op.kind # "repair"
  <2>1. op.then # "prepare"
    BY <1>5 DEF Facts, PersistInv, OpOK
  <2>2. QED BY <1>1, <1>3, <1>5, <2>1, SettledData DEF CopyEnds, ram
<1>6. QED BY <1>4, <1>5

LEMMA CopyPageData ==
  ASSUME Facts, RamData, harm' = {}, CopyPage PROVE RamData'
<1> DEFINE v == Programmed(flash[op.dst].pages[op.at], flash[op.src].pages[op.at])
<1>1. /\ pc = "copy" /\ UNCHANGED <<ram, want, moved>> /\ Running /\ Copying /\ harm = {}
      /\ flash' = [flash EXCEPT ![op.dst].pages[op.at] = v]
  BY DEF CopyPage, Running, Copying, history
<1>2. /\ op.dst = tbl.bb[op.blk] /\ CopyOK /\ op.at <= op.len
      /\ op.kind = "write" => op.len = op.page - 1
      /\ \A p \in Page : p > op.len => want[op.blk][p] \in {"any", "blank"}
  BY <1>1 DEF Facts, PersistInv, OpOK, RamData, OpWants
<1>3. v = flash[op.src].pages[op.at]
  <2>1. flash[op.dst].pages[op.at] = "blank"
    BY <1>1, <1>2, FactTypes DEF CopyOK
  <2>2. QED BY <2>1 DEF Programmed
<1> HIDE DEF v
<1>4. \A x \in Phys, p \in Page :
        flash'[x].pages[p] = IF x = op.dst /\ p = op.at THEN v ELSE flash[x].pages[p]
  BY <1>1, FactTypes, OnePage
<1>5. want[op.blk][op.at] # "any" => v = want[op.blk][op.at]
  BY <1>2, <1>3, FactTypes DEF CopyOK, Kept
<1>6. CASE op.at < op.len
  <2>1. op' = [op EXCEPT !.at = @ + 1] /\ pc' = "copy"
    BY <1>1, <1>6 DEF CopyPage
  <2>2. /\ op'.at = op.at + 1 /\ op'.src = op.src /\ op'.dst = op.dst /\ op'.blk = op.blk
        /\ op'.kind = op.kind
    BY <2>1, FactTypes DEF Op
  <2>3. \A b \in Logical : b # op.blk => Kept(b, tbl.bb[b])'
    <3>1. \A b \in Logical : b # op.blk => tbl.bb[b] # op.dst /\ tbl.bb[b] \in Phys
      BY <1>1, <1>2, BlocksApart, FactTypes
    <3>2. QED BY <1>1, <1>4, <3>1 DEF RamData, Kept, ram
  <2>4. op.src # op.dst /\ Kept(op.blk, op.src)'
    BY <1>1, <1>2, <1>4, FactTypes, <2>2 DEF CopyOK, Kept
  <2>5. ASSUME NEW p \in Page, p < op.at + 1, want[op.blk][p] # "any"
        PROVE  flash'[op.dst].pages[p] = want[op.blk][p]
    <3>1. p < op.at \/ p = op.at
      BY <2>5, FactTypes
    <3>2. QED BY <1>1, <1>2, <1>4, <1>5, <2>5, <3>1, FactTypes DEF CopyOK
  <2>6. ASSUME NEW p \in Page, p >= op.at + 1 PROVE flash'[op.dst].pages[p] = "blank"
    <3>1. p >= op.at /\ p # op.at
      BY <2>6, FactTypes
    <3>2. QED BY <1>1, <1>2, <1>4, <3>1, FactTypes DEF CopyOK
  <2>7. CopyOK'
    BY <1>1, <2>1, <2>2, <2>4, <2>5, <2>6 DEF CopyOK, Kept
  <2>8. QED BY <1>1, <2>1, <2>2, <2>3, <2>7 DEF RamData, Copying, Running
<1>7. CASE ~(op.at < op.len)
  <2>1. CopyEnds
    BY <1>7 DEF CopyPage
  <2>2. op.at = op.len
    BY <1>2, <1>7, FactTypes
  <2>3. ASSUME NEW p \in Page, want[op.blk][p] # "any"
        PROVE  flash'[op.dst].pages[p] = want[op.blk][p]
    <3>1. p < op.at \/ p = op.at \/ (p > op.len /\ p >= op.at /\ p # op.at)
      BY <2>2, FactTypes
    <3>2. QED BY <1>1, <1>2, <1>4, <1>5, <2>3, <3>1, FactTypes DEF CopyOK
  <2>4. op.kind = "write" => flash'[op.dst].pages[op.page] = "blank"
    <3>1. op.kind = "write" => op.page >= op.at /\ op.page # op.at
      BY <1>2, <2>2, FactTypes
    <3>2. QED BY <1>1, <1>2, <1>4, <3>1, FactTypes DEF CopyOK
  <2>5. \A x \in Phys, p \in Page : x # op.dst => flash'[x].pages[p] = flash[x].pages[p]
    BY <1>4
  <2>6. QED BY <1>1, <2>1, <2>3, <2>4, <2>5, CopyEndsData
<1>8. QED BY <1>6, <1>7

LEMMA CopyStopsData ==
  ASSUME Facts, RamData, harm' = {}, CopyStops PROVE RamData'
<1>1. /\ pc = "copy" /\ UNCHANGED <<ram, want, moved>> /\ CopyEnds /\ harm = {}
      /\ \A p \in op.at..op.len :
           want[op.blk][p] \in IF p = op.at THEN {"any"} ELSE {"any", "blank"}
      /\ UNCHANGED flash \/ flash' = [flash EXCEPT ![op.dst].pages[op.at] = "junk"]
  BY DEF CopyStops, Harmed
<1>2. /\ Copying /\ Running /\ op.dst = tbl.bb[op.blk] /\ CopyOK /\ op.at <= op.len
      /\ op.kind = "write" => op.len = op.page - 1
      /\ \A p \in Page : p > op.len => want[op.blk][p] \in {"any", "blank"}
  BY <1>1 DEF Facts, PersistInv, OpOK, RamData, OpWants, Copying, Running
<1>3. \A x \in Phys, p \in Page :
        x # op.dst \/ p # op.at => flash'[x].pages[p] = flash[x].pages[p]
  <2>1. CASE UNCHANGED flash
    BY <2>1
  <2>2. CASE flash' = [flash EXCEPT ![op.dst].pages[op.at] = "junk"]
    <3>1. op.dst \in Phys /\ op.at \in Page
      BY FactTypes
    <3>2. QED BY <2>2, <3>1, OnePage
  <2>3. QED BY <1>1, <2>1, <2>2
<1>4. want[op.blk][op.at] = "any"
  <2>1. op.at \in op.at..op.len
    BY <1>2, FactTypes
  <2>2. QED BY <1>1, <2>1
<1>5. ASSUME NEW p \in Page, want[op.blk][p] # "any"
      PROVE  flash'[op.dst].pages[p] = want[op.blk][p]
  <2>1. CASE p < op.at
    <3>1. p # op.at
      BY <2>1, FactTypes
    <3>2. QED BY <1>1, <1>2, <1>3, <1>5, <2>1, <3>1, FactTypes DEF CopyOK
  <2>2. CASE ~(p < op.at)
    <3>1. p # op.at /\ p >= op.at /\ (p \in op.at..op.len \/ p > op.len)
      BY <1>4, <1>5, <2>2, FactTypes
    <3>2. want[op.blk][p] = "blank"
      BY <1>1, <1>2, <1>5, <3>1
    <3>3. QED BY <1>1, <1>2, <1>3, <3>1, <3>2, FactTypes DEF CopyOK
  <2>3. QED BY <2>1, <2>2
<1>6. op.kind = "write" => flash'[op.dst].pages[op.page] = "blank"
  <2>1. op.kind = "write" => op.page # op.at /\ op.page >= op.at
    BY <1>2, FactTypes
  <2>2. QED BY <1>1, <1>2, <1>3, <2>1, FactTypes DEF CopyOK
<1>7. \A x \in Phys, p \in Page : x # op.dst => flash'[x].pages[p] = flash[x].pages[p]
  BY <1>3
<1>8. QED BY <1>1, <1>5, <1>6, <1>7, CopyEndsData

(* A step of an upload changes one block, which nothing is kept in.        *)
LEMMA PlaceData ==
  ASSUME Facts, RamData, harm = {}, pc \in {"uerase", "uwrite"}, Uploading,
         \A x \in Phys, p \in Page : x # Place => flash'[x].pages[p] = flash[x].pages[p],
         want' = want, tbl'.bb = tbl.bb, pc' \in {"uerase", "uwrite"},
         op'.kind = op.kind, op'.blk = op.blk, op'.page = op.page, op'.then = op.then,
         op'.src = op.src, op'.dst = op.dst,
         \A i \in Phys : i <= op'.n /\ tbl'.pool[i].mapped # "normal" =>
           /\ i <= op.n /\ tbl.pool[i].mapped # "normal"
           /\ tbl'.pool[i].block = tbl.pool[i].block
  PROVE  RamData'
<1>1. Running /\ Unharmed /\ PoolFull /\ (Copying' <=> Copying)
  BY DEF Running, Unharmed, Facts, PersistInv, Copying
<1>2. \A l \in Logical : tbl.bb[l] # Place /\ tbl.bb[l] \in Phys
  BY <1>1, UploadNotMapped, FactTypes DEF Facts
<1>3. \A b \in Logical : b # op.blk \/ ~Copying => Kept(b, tbl.bb[b])'
  BY <1>1, <1>2 DEF RamData, Kept
<1>4. Copying => CopyOK'
  <2> SUFFICES ASSUME Copying PROVE CopyOK'
    OBVIOUS
  <2>1. CopyOK
    BY <1>1 DEF RamData
  <2>2. op.src # Place /\ op.src \in Phys
    <3>1. op.n \in Phys /\ op.n <= op.n /\ tbl.pool[op.n].mapped # "normal"
      BY UploadStep DEF Facts, Uploading
    <3>2. QED BY <2>1, <3>1, FactTypes DEF CopyOK, Place
  <2>3. QED BY <2>1, <2>2 DEF CopyOK, Kept
<1>5. op.kind = "write" => flash'[tbl.bb[op.blk]].pages[op.page] = "blank"
  BY <1>1, <1>2, FactTypes DEF RamData
<1>6. QED BY <1>1, <1>3, <1>4, <1>5 DEF RamData

LEMMA UploadEraseData ==
  ASSUME Facts, RamData, harm' = {}, UploadErase PROVE RamData'
<1>1. /\ pc = "uerase" /\ Uploading /\ harm = {} /\ pc' = "uwrite"
      /\ UNCHANGED <<ram, op, want>>
      /\ flash' = [flash EXCEPT ![Place] = Filled("blank")]
  BY DEF UploadErase, history
<1>2. \A x \in Phys, p \in Page : x # Place => flash'[x].pages[p] = flash[x].pages[p]
  BY <1>1, FactTypes
<1>3. QED BY <1>1, <1>2, PlaceData DEF ram

LEMMA UploadFailsData ==
  ASSUME Facts, RamData, harm' = {}, UploadFails PROVE RamData'
<1>1. /\ pc \in {"uerase", "uwrite"} /\ Uploading /\ harm = {} /\ pc' = "uerase"
      /\ want' = want /\ tbl' = [tbl EXCEPT !.pool[op.n].block = 0]
      /\ op' = [op EXCEPT !.n = @ - 1]
      /\ \E c : flash' = [flash EXCEPT ![Place] = c]
  BY DEF UploadFails, Facts, TypeInv
<1>2. \A x \in Phys, p \in Page : x # Place => flash'[x].pages[p] = flash[x].pages[p]
  BY <1>1, FactTypes
<1>3. /\ op'.kind = op.kind /\ op'.blk = op.blk /\ op'.page = op.page /\ op'.then = op.then
      /\ op'.src = op.src /\ op'.dst = op.dst /\ op'.n = op.n - 1
  BY <1>1, FactTypes DEF Op
<1>4. op.n \in Nat /\ \A i \in Phys : i <= op.n - 1 => i <= op.n /\ i # op.n
  BY <1>1, UploadStep, Sizes DEF Facts, Phys, Assumptions
<1>5. /\ tbl'.bb = tbl.bb
      /\ \A i \in Phys : tbl'.pool[i].mapped = tbl.pool[i].mapped
      /\ \A i \in Phys : i # op.n => tbl'.pool[i].block = tbl.pool[i].block
  BY <1>1, FactTypes DEF Table, Entry
<1>6. \A i \in Phys : i <= op'.n /\ tbl'.pool[i].mapped # "normal" =>
        /\ i <= op.n /\ tbl.pool[i].mapped # "normal"
        /\ tbl'.pool[i].block = tbl.pool[i].block
  BY <1>3, <1>4, <1>5
<1>7. QED BY <1>1, <1>2, <1>3, <1>5, <1>6, PlaceData

LEMMA UploadWriteData ==
  ASSUME Facts, RamData, harm' = {}, UploadWrite PROVE RamData'
<1>1. /\ pc = "uwrite" /\ harm = {} /\ tbl' = tbl /\ want' = want /\ Running
      /\ flash' = [flash EXCEPT ![Place].table = tbl]
      /\ IF op.then = "idle" THEN pc' = "idle" /\ op' = NoOp ELSE pc' = op.then /\ op' = op
  BY DEF UploadWrite, Done, history, Running
<1>2. \A x \in Phys, p \in Page : flash'[x].pages[p] = flash[x].pages[p]
  BY <1>1, FactTypes DEF Content
<1>3. op.then \in {"idle", "attempt", "mark", "prepare"}
  BY DEF Facts, PersistInv, OpOK
<1>4. \A x \in Phys : \A b : Kept(b, x) => Kept(b, x)'
  BY <1>1, <1>2 DEF Kept
<1>5. CASE op.then = "prepare"
  <2>1. Copying /\ CopyOK /\ op' = op /\ pc' = "prepare"
    BY <1>1, <1>5 DEF Copying, RamData
  <2>2. \A b \in Logical : b # op.blk => Kept(b, tbl.bb[b])'
    BY <1>1, <1>2, FactTypes DEF RamData, Kept
  <2>3. CopyOK'
    BY <1>1, <1>2, <2>1, FactTypes DEF CopyOK, Kept
  <2>4. QED BY <1>1, <2>1, <2>2, <2>3 DEF RamData, Copying
<1>6. CASE op.then # "prepare"
  <2>1. ~Copying
    BY <1>1, <1>6 DEF Copying
  <2>2. \A b \in Logical, p \in Page :
          want'[b][p] # "any" => flash'[tbl'.bb[b]].pages[p] = want'[b][p]
    BY <1>1, <1>2, <2>1, FactTypes DEF RamData, Kept
  <2>3. op'.kind = "write" => flash'[tbl'.bb[op'.blk]].pages[op'.page] = "blank"
    BY <1>1, <1>2, FactTypes, NoOpFields DEF RamData
  <2>4. pc' \in {"idle", "attempt", "mark"}
    BY <1>1, <1>3, <1>6
  <2>5. QED BY <2>2, <2>3, <2>4, SettledData
<1>7. QED BY <1>5, <1>6

(* An operation begins, or ends well.                                      *)
LEMMA BeginData ==
  ASSUME Facts, RamData, harm = {}, Operation PROVE RamData'
<1>1. /\ UNCHANGED <<flash, ram>> /\ pc = "idle" /\ pc' = "attempt"
      /\ op'.blk \in Logical /\ op'.page \in Page
      /\ \A b \in Logical, p \in Page : want'[b][p] \in {want[b][p], "any"}
      /\ op'.kind = "write" => want[op'.blk][op'.page] = "blank"
  BY BeginStep DEF Facts
<1>2. \A b \in Logical, p \in Page : want[b][p] # "any" => flash[tbl.bb[b]].pages[p] = want[b][p]
  BY <1>1 DEF RamData, Running, Copying, Kept
<1>3. \A b \in Logical, p \in Page :
        want'[b][p] # "any" => flash'[tbl'.bb[b]].pages[p] = want'[b][p]
  BY <1>1, <1>2 DEF ram
<1>4. op'.kind = "write" => flash'[tbl'.bb[op'.blk]].pages[op'.page] = "blank"
  BY <1>1, <1>2 DEF ram
<1>5. QED BY <1>1, <1>3, <1>4, SettledData

LEMMA OkData ==
  ASSUME Facts, RamData, harm = {}, ReadOk \/ WriteOk \/ EraseOk \/ MarkBad PROVE RamData'
<1>1. /\ UNCHANGED ram /\ pc' = "idle" /\ op' = NoOp /\ pc \in {"attempt", "mark"}
  BY DEF ReadOk, WriteOk, EraseOk, MarkBad, Attempt, Done
<1>2. /\ Running
      /\ \A b \in Logical, p \in Page :
           want[b][p] # "any" => flash[tbl.bb[b]].pages[p] = want[b][p]
      /\ \A b \in Logical : b # op.blk => tbl.bb[b] # Cur
  BY <1>1, BlocksApart, FactTypes DEF RamData, Running, Copying, Kept
<1> SUFFICES \A b \in Logical, p \in Page :
               want'[b][p] # "any" => flash'[tbl.bb[b]].pages[p] = want'[b][p]
  BY <1>1, NoOpFields, SettledData DEF ram
<1>3. CASE ReadOk \/ MarkBad
  BY <1>2, <1>3 DEF ReadOk, MarkBad, history
<1>4. CASE WriteOk
  <2> DEFINE v == Programmed(flash[Cur].pages[op.page], op.val)
  <2>1. /\ op.kind = "write" /\ pc = "attempt"
        /\ flash' = [flash EXCEPT ![Cur].pages[op.page] = v]
        /\ want' = [want EXCEPT ![op.blk][op.page] = op.val]
    BY <1>4 DEF WriteOk, Attempt
  <2>2. v = op.val
    BY <1>2, <2>1, FactTypes DEF RamData, Programmed
  <2> HIDE DEF v
  <2>4. \A x \in Phys, p \in Page :
          flash'[x].pages[p] = IF x = Cur /\ p = op.page THEN v ELSE flash[x].pages[p]
    BY <2>1, FactTypes, OnePage
  <2>5. \A b \in Logical, p \in Page :
          want'[b][p] = IF b = op.blk /\ p = op.page THEN op.val ELSE want[b][p]
    BY <2>1, FactTypes
  <2>6. QED BY <1>2, <2>2, <2>4, <2>5, FactTypes
<1>5. CASE EraseOk
  <2>1. /\ flash' = [flash EXCEPT ![Cur] = Filled("blank")]
        /\ want' = [want EXCEPT ![op.blk] = [p \in Page |-> "blank"]]
    BY <1>5 DEF EraseOk
  <2>2. \A x \in Phys, p \in Page :
          flash'[x].pages[p] = IF x = Cur THEN "blank" ELSE flash[x].pages[p]
    BY <2>1, FactTypes DEF Filled
  <2>3. \A b \in Logical, p \in Page :
          want'[b][p] = IF b = op.blk THEN "blank" ELSE want[b][p]
    BY <2>1, FactTypes
  <2>4. QED BY <1>2, <2>2, <2>3, FactTypes
<1>6. QED BY <1>3, <1>4, <1>5

(* A remap turns what is kept in the old block into data to be copied.     *)
LEMMA RemapData ==
  ASSUME Facts, pc = "attempt", harm = {}, NEW len \in 0..Pages,
         NEW then \in {"idle", "attempt", "mark"}, Remap(len, then),
         \A b \in Logical, p \in Page :
           want'[b][p] # "any" => flash'[tbl.bb[b]].pages[p] = want'[b][p]
  PROVE  RamData'
<1>1. Running /\ Unharmed /\ PoolFull /\ Top = idx /\ Assumptions /\ TypeInv /\ SoundInv
  BY DEF Running, Unharmed, Facts, PersistInv, Top
<1>2. /\ pc' = "prepare" /\ op'.blk = op.blk /\ op'.src = tbl.bb[op.blk]
      /\ op'.dst = tbl.pool[Least(FreeEntries)].block
  BY <1>1, RemapOp DEF Pc
<1>3. \A b \in Logical : b # op.blk => tbl'.bb[b] = tbl.bb[b]
  BY <1>1, RemapPool
<1>4. op'.src # op'.dst
  <2>1. /\ Least(FreeEntries) \in Phys /\ Least(FreeEntries) <= Top
        /\ tbl.pool[Least(FreeEntries)].mapped # "normal"
    <3>1. Least(FreeEntries) \in Phys /\ Least(FreeEntries) < idx
          /\ tbl.pool[Least(FreeEntries)].mapped = "no"
      BY <1>1, RemapPool
    <3>2. \A i \in Phys : i < idx => i <= idx
      BY <1>1, FactTypes, Sizes DEF Phys, Assumptions
    <3>3. QED BY <1>1, <3>1, <3>2
  <2>2. QED BY <1>1, <1>2, <2>1, NotHome, FactTypes
<1>5. CopyOK'
  BY <1>2, <1>4, FactTypes DEF CopyOK, Kept
<1>6. QED BY <1>2, <1>3, <1>5 DEF RamData, Copying, Kept

LEMMA RemapsData ==
  ASSUME Facts, RamData, harm' = {}, Remaps PROVE RamData'
<1>1. pc = "attempt" /\ op.kind \in RemapKinds /\ Running /\ Assumptions /\ TypeInv
  BY RemapCases DEF Facts, Running
<1>2. harm = {}
  BY DEF Remaps, ReadFlips, ReadFails, WriteFails, EraseFails, IsBad,
     MarkBadRemaps, history
<1>3. /\ \A b \in Logical, p \in Page :
           want[b][p] # "any" => flash[tbl.bb[b]].pages[p] = want[b][p]
      /\ \A b \in Logical : b # op.blk => tbl.bb[b] # Cur
  BY <1>1, <1>2, BlocksApart, FactTypes DEF RamData, Copying, Kept
<1>4. \A b \in Logical, p \in Page :
        want'[b][p] # "any" => flash'[tbl.bb[b]].pages[p] = want'[b][p]
  <2>1. CASE UNCHANGED <<flash, want>>
    BY <1>3, <2>1
  <2>2. CASE ReadFails
    <3>1. /\ flash' = [flash EXCEPT ![Cur].pages[op.page] = "junk"]
          /\ want' = [want EXCEPT ![op.blk][op.page] = "any"]
      BY <2>2 DEF ReadFails
    <3>2. \A x \in Phys, p \in Page :
            x # Cur \/ p # op.page => flash'[x].pages[p] = flash[x].pages[p]
      BY <3>1, FactTypes, OnePage
    <3>3. \A b \in Logical, p \in Page :
            want'[b][p] = IF b = op.blk /\ p = op.page THEN "any" ELSE want[b][p]
      BY <3>1, FactTypes
    <3>4. QED BY <1>3, <3>2, <3>3, FactTypes
  <2>3. CASE WriteFails
    <3>1. /\ flash' = [flash EXCEPT ![Cur].pages[op.page] = "junk"] /\ want' = want
          /\ op.kind = "write"
      BY <2>3 DEF WriteFails, Attempt, history
    <3>2. \A x \in Phys, p \in Page :
            x # Cur \/ p # op.page => flash'[x].pages[p] = flash[x].pages[p]
      BY <3>1, FactTypes, OnePage
    <3>3. want[op.blk][op.page] = "any"
      BY <3>1 DEF Facts, OpWants
    <3>4. QED BY <1>3, <3>1, <3>2, <3>3, FactTypes
  <2>4. CASE EraseFails
    <3>1. PICK c \in {flash[Cur], Filled("junk")} : flash' = [flash EXCEPT ![Cur] = c]
      BY <2>4 DEF EraseFails
    <3>2. want' = want /\ op.kind = "erase"
      BY <2>4 DEF EraseFails, Attempt, history
    <3>3. \A x \in Phys : x # Cur => flash'[x] = flash[x]
      BY <3>1, FactTypes
    <3>4. QED BY <1>3, <3>2, <3>3, FactTypes DEF Facts, OpWants
  <2>5. CASE ReadFlips \/ IsBad \/ MarkBadRemaps
    BY <2>1, <2>5 DEF ReadFlips, IsBad, MarkBadRemaps, history
  <2>6. QED BY <2>2, <2>3, <2>4, <2>5 DEF Remaps
<1>5. CASE \E len \in 0..Pages, then \in {"idle", "attempt", "mark"} : Remap(len, then)
  BY <1>1, <1>2, <1>4, <1>5, RemapData
<1>6. CASE UNCHANGED ram /\ pc' = "idle" /\ op' = NoOp
  BY <1>4, <1>6, NoOpFields, SettledData DEF ram
<1>7. CASE UNCHANGED ram /\ pc' = "mark" /\ op.kind = "markbad" /\ op' = [op EXCEPT !.src = Cur]
  <2>1. op'.kind = "markbad"
    BY <1>7, FactTypes DEF Op
  <2>2. QED BY <1>4, <1>7, <2>1, SettledData DEF ram
<1>8. QED BY <1>1, <1>5, <1>6, <1>7, RemapCases

LEMMA UnmapData ==
  ASSUME Facts, RamData, harm' = {}, Unmap PROVE RamData'
<1>1. /\ pc = "attempt" /\ op.kind \in {"mark_good", "repair"} /\ pc' = "uerase"
      /\ flash' = flash /\ idx' = idx /\ tbl' = [tbl EXCEPT !.bb[op.blk] = op.blk]
      /\ want' = IF op.kind = "repair" \/ Cur = op.blk THEN want
                 ELSE [want EXCEPT ![op.blk] = [p \in Page |-> "any"]]
  BY DEF Unmap, Attempt
<1>2. /\ op'.kind = op.kind /\ op'.blk = op.blk /\ op'.n = idx /\ op'.src = Cur
      /\ op'.dst = op.blk
      /\ op'.then = IF op.kind = "repair" /\ Cur # op.blk THEN "prepare" ELSE "idle"
  BY FactTypes DEF Unmap, Op
<1>3. harm = {} /\ \A l \in Logical \ {op.blk} : tbl.bb[l] # op.blk
  BY DEF Unmap, Harmed
<1>4. /\ Running /\ Unharmed /\ PoolFull /\ Top = idx /\ Assumptions /\ TypeInv /\ SoundInv
  BY <1>1, <1>3 DEF Running, Unharmed, Facts, PersistInv, Top
<1>5. \A b \in Logical, p \in Page :
        want[b][p] # "any" => flash[tbl.bb[b]].pages[p] = want[b][p]
  BY <1>1, <1>4 DEF RamData, Copying, Kept
<1>6. /\ tbl'.pool = tbl.pool
      /\ \A b \in Logical : tbl'.bb[b] = IF b = op.blk THEN op.blk ELSE tbl.bb[b]
  BY <1>1, FactTypes DEF Table
<1>7. CASE op.kind = "repair" /\ Cur # op.blk
  <2>1. want' = want /\ op'.then = "prepare" /\ op'.src # op'.dst
    BY <1>1, <1>2, <1>7
  <2>2. \A b \in Logical : b # op.blk => Kept(b, tbl.bb[b])'
    BY <1>1, <1>5, <1>6, <2>1 DEF Kept
  <2>3. \A i \in Phys : i <= idx /\ tbl.pool[i].mapped # "normal" => tbl.pool[i].block # Cur
    BY <1>4, NotHome, FactTypes
  <2>4. CopyOK'
    BY <1>1, <1>2, <1>5, <1>6, <2>1, <2>3, FactTypes DEF CopyOK, Kept
  <2>5. QED BY <1>1, <1>2, <1>7, <2>1, <2>2, <2>4 DEF RamData, Copying
<1>8. CASE ~(op.kind = "repair" /\ Cur # op.blk)
  <2>1. op'.then = "idle"
    BY <1>2, <1>8
  <2>2. \A b \in Logical, p \in Page :
          want'[b][p] # "any" => flash'[tbl'.bb[b]].pages[p] = want'[b][p]
    <3>1. CASE Cur = op.blk
      BY <1>1, <1>5, <1>6, <3>1, FactTypes
    <3>2. CASE Cur # op.blk
      <4>1. want' = [want EXCEPT ![op.blk] = [p \in Page |-> "any"]]
        BY <1>1, <1>8, <3>2
      <4>2. \A b \in Logical, p \in Page :
              want'[b][p] = IF b = op.blk THEN "any" ELSE want[b][p]
        BY <4>1, FactTypes
      <4>3. QED BY <1>1, <1>5, <1>6, <4>2
    <3>3. QED BY <3>1, <3>2
  <2>3. QED BY <1>1, <1>2, <2>1, <2>2, SettledData
<1>9. QED BY <1>7, <1>8

LEMMA FreeData ==
  ASSUME Facts, RamData, harm' = {}, FreeUnused PROVE RamData'
<1>1. /\ pc = "attempt" /\ op.kind = "debug" /\ UNCHANGED <<flash, want>>
      /\ Assumptions /\ TypeInv
  BY DEF FreeUnused, Attempt, Facts
<1>2. harm = {}
  BY DEF FreeUnused, Harmed
<1>3. \A b \in Logical, p \in Page :
        want[b][p] # "any" => flash[tbl.bb[b]].pages[p] = want[b][p]
  BY <1>1, <1>2 DEF RamData, Running, Copying, Kept
<1>4. CASE Unused = {}
  <2>1. tbl' = tbl /\ pc' = "idle" /\ op' = NoOp
    BY <1>4 DEF FreeUnused, Done
  <2>2. QED BY <1>1, <1>3, <2>1, NoOpFields, SettledData
<1>5. CASE Unused # {}
  <2>1. /\ tbl'.bb = tbl.bb /\ pc' = "uerase" /\ op'.then = op.then /\ op'.kind = op.kind
    BY <1>1, <1>5, FreedPool
  <2>2. op'.then # "prepare" /\ op'.kind # "write"
    BY <1>1, <2>1 DEF Facts, PersistInv, OpOK
  <2>3. QED BY <1>1, <1>3, <2>1, <2>2, SettledData
<1>6. QED BY <1>4, <1>5

-----------------------------------------------------------------------------
(* Boot.  A scan without harm finds a chip that was never used.            *)

LEMMA ScanFresh ==
  ASSUME Facts, Nominal, BootScan, harm' = {}
  PROVE  Fresh /\ Signed = {} /\ UNCHANGED flash
<1>1. Signed = {} /\ ChipTables /\ UNCHANGED flash
  BY DEF BootScan, Harmed, Facts, PersistInv
<1>2. ASSUME NEW p \in Phys, flash[p].table # NoTable PROVE FALSE
  <2>1. p >= PoolLba
    BY <1>1, <1>2 DEF ChipTables
  <2>2. p \in Signed
    BY <1>2, <2>1, Sizes DEF Signed, Phys, Facts, Assumptions
  <2>3. QED BY <1>1, <2>2
<1>3. QED BY <1>1, <1>2 DEF Fresh

LEMMA BootData ==
  ASSUME Facts, RamData, Nominal => ChipData, harm = {}, harm' = {},
         BootLoad \/ BootScan \/ BootTorn
  PROVE  RamData'
<1>1. pc = "off" /\ Nominal /\ ChipData /\ Assumptions /\ TypeInv
  BY DEF BootLoad, BootScan, BootTorn, RamData, Nominal, Facts
<1>2. CASE BootLoad
  <2> DEFINE g == Greatest(Signed)
  <2>1. /\ g \in Phys /\ g \in Signed /\ tbl' = flash[g].table /\ pc' = "idle" /\ op' = NoOp
        /\ UNCHANGED <<flash, want>>
    BY <1>1, <1>2, LoadedTable DEF BootLoad, history
  <2> HIDE DEF g
  <2>2. AllKept(flash[g].table)
    BY <1>1, <2>1 DEF ChipData, TableData, Signed
  <2>3. QED BY <2>1, <2>2, NoOpFields, SettledData DEF AllKept, Kept
<1>3. CASE BootScan
  <2>1. Fresh /\ UNCHANGED <<flash, want>> /\ Scan
    BY <1>1, <1>3, ScanFresh DEF BootScan
  <2>2. Blank
    BY <1>1, <2>1 DEF ChipData
  <2>3. CASE EnoughBlocks
    <3>1. /\ pc' = "uerase" /\ op'.kind = "boot" /\ op'.then = "idle" /\ tbl' \in Table
      BY <1>1, <2>1, <2>3, ScanResult
    <3>2. \A b \in Logical : tbl'.bb[b] \in Phys
      BY <3>1 DEF Table
    <3>3. \A b \in Logical, p \in Page :
            want'[b][p] # "any" => flash'[tbl'.bb[b]].pages[p] = want'[b][p]
      BY <2>1, <2>2, <3>2 DEF Blank
    <3>4. QED BY <3>1, <3>3, SettledData
  <2>4. CASE ~EnoughBlocks
    <3>1. pc' = "dead"
      BY <2>1, <2>4 DEF Scan
    <3>2. QED BY <3>1 DEF RamData, Running
  <2>5. QED BY <2>3, <2>4
<1>4. QED BY <1>2, <1>3 DEF BootLoad, BootScan, BootTorn

LEMMA RamDataKept ==
  ASSUME Facts, harm = {} => RamData, Nominal => ChipData, harm' = {}, [Next]_vars
  PROVE  RamData'
<1>1. harm = {} /\ RamData
  BY HarmGrows
<1>2. CASE Crash
  <2>1. pc' = "off" /\ ~moved' /\ pc' # "wild"
    BY <1>2 DEF Crash
  <2>2. QED BY <2>1 DEF RamData, Running
<1>3. CASE UploadGivesUp
  BY <1>3 DEF UploadGivesUp
<1>4. CASE UNCHANGED vars
  BY <1>1, <1>4 DEF vars, RamData, Running, Copying, CopyOK, Kept
<1>5. QED
  BY <1>1, <1>2, <1>3, <1>4, BootData, BeginData, PrepareData, CopyPageData, CopyStopsData,
     UploadEraseData, UploadWriteData, UploadFailsData, OkData, RemapsData, UnmapData,
     FreeData
  DEF Next, Remaps

-----------------------------------------------------------------------------
(* The table on the chip keeps the data, too.                              *)

(* Every table on the chip is the one in RAM when nothing is under way.    *)
OneTable == ~Fresh /\ \A p \in Phys : flash[p].table # NoTable => flash[p].table = tbl

LEMMA SettledTable ==
  Facts /\ Nominal /\ Running /\ Settled => OneTable
<1> SUFFICES ASSUME Facts, Nominal, Running, Settled PROVE OneTable
  OBVIOUS
<1>1. RamTable /\ PoolFull /\ Assumptions /\ TypeInv /\ SoundInv /\ tbl \in Table
  BY FactTypes DEF Facts, PersistInv
<1>2. tbl.pool[idx].block \in Phys
  BY <1>1, TableHome
<1>3. flash[tbl.pool[idx].block].table = tbl /\ tbl # NoTable
  BY <1>1 DEF RamTable, Assumptions, TableAssumption
<1>4. QED BY <1>1, <1>2, <1>3 DEF RamTable, Fresh, OneTable

LEMMA SettledTableNext ==
  (Facts /\ Nominal /\ Running /\ Settled => OneTable)'
BY SettledTable, PTL

LEMMA SettledChip ==
  ASSUME Facts', Nominal', RamData', pc' \in {"idle", "attempt", "mark"}
  PROVE  ChipData'
<1>1. Running' /\ Settled' /\ ~Copying' /\ op'.kind # "boot"
  BY DEF Running, Settled, Copying, Facts, PersistInv, OpOK
<1>2. /\ \A p \in Phys : flash'[p].table # NoTable => flash'[p].table = tbl'
      /\ ~Fresh'
  BY <1>1, SettledTableNext DEF OneTable
<1>3. \A b \in Logical, p \in Page :
        want'[b][p] # "any" => flash'[tbl'.bb[b]].pages[p] = want'[b][p]
  BY <1>1 DEF RamData, Kept
<1>4. \A p \in Phys : flash'[p].table # NoTable => TableData(flash[p].table)'
  BY <1>2, <1>3 DEF TableData, AllKept, Kept
<1>5. QED BY <1>1, <1>2, <1>4 DEF ChipData

LEMMA UploadChip ==
  ASSUME Facts, Nominal, ChipData, UploadErase \/ UploadWrite,
         UploadWrite => pc' = "prepare"
  PROVE  ChipData'
<1>1. /\ Running /\ RamTable /\ OpOK /\ PoolFull /\ Assumptions /\ TypeInv /\ SoundInv
      /\ pc \in {"uerase", "uwrite"}
  BY DEF UploadErase, UploadWrite, Running, Facts, PersistInv
<1>2. op.n = idx /\ Place = tbl.pool[idx].block /\ Place \in Phys
  BY <1>1, TableHome DEF Place
<1>3. CASE UploadErase
  <2>1. /\ UNCHANGED <<op, want>> /\ pc' = "uwrite"
        /\ flash' = [flash EXCEPT ![Place] = Filled("blank")]
    BY <1>3 DEF UploadErase, history
  <2>2. \A p \in Phys : flash'[p].table = IF p = Place THEN NoTable ELSE flash[p].table
    BY <1>2, <2>1, FactTypes DEF Filled
  <2>3. Fresh'
    BY <1>1, <1>2, <2>2 DEF RamTable, Fresh
  <2>4. ASSUME op.kind = "boot" PROVE Blank'
    <3>1. Blank
      BY <1>1, <2>4 DEF ChipData, Fresh
    <3>2. \A x \in Phys, p \in Page :
            flash'[x].pages[p] = IF x = Place THEN "blank" ELSE flash[x].pages[p]
      BY <1>2, <2>1, FactTypes DEF Filled
    <3>3. QED BY <2>1, <3>1, <3>2 DEF Blank
  <2>5. QED BY <2>1, <2>3, <2>4 DEF ChipData, Fresh
<1>4. CASE UploadWrite
  <2>1. /\ pc' = "prepare" /\ op' = op /\ op.then = "prepare"
        /\ flash' = [flash EXCEPT ![Place].table = tbl]
    BY <1>4 DEF UploadWrite, Done
  <2>2. op.kind = "repair"
    BY <1>1, <2>1 DEF OpOK
  <2>3. flash'[Place].table = tbl /\ tbl # NoTable
    BY <1>1, <1>2, <2>1, FactTypes DEF Content, Assumptions, TableAssumption
  <2>4. QED BY <1>2, <2>1, <2>2, <2>3 DEF ChipData, TableData, Fresh
<1>5. QED BY <1>3, <1>4

LEMMA ScanChip ==
  ASSUME Facts, RamData, Nominal, ChipData, BootScan, harm' = {}
  PROVE  ChipData'
<1>1. Fresh /\ UNCHANGED flash /\ pc = "off" /\ want' = want /\ Scan /\ Assumptions /\ TypeInv
  BY ScanFresh DEF BootScan, Facts
<1>2. Blank /\ Fresh' /\ Blank'
  BY <1>1 DEF ChipData, Blank, Fresh
<1>3. pc' = "dead" \/ (pc' = "uerase" /\ op'.kind = "boot")
  BY <1>1, ScanResult DEF Scan
<1>4. QED BY <1>2, <1>3 DEF ChipData, Fresh, Running

(* While data is copied, the table on the chip names the old block.        *)
LEMMA CopyChip ==
  ASSUME Facts, RamData, Nominal, ChipData,
         \A p \in Phys : flash'[p].table = flash[p].table,
         pc \in {"prepare", "copy"}, pc' \in {"copy", "uerase"},
         UNCHANGED <<ram, want>>, op'.kind = op.kind, op'.blk = op.blk, op'.src = op.src,
         \A x \in Phys, p \in Page : x # op.dst => flash'[x].pages[p] = flash[x].pages[p]
  PROVE  ChipData'
<1>1. Running /\ Copying /\ op.dst = tbl.bb[op.blk] /\ op.src # op.dst /\ op.kind # "boot"
      /\ harm = {}
  BY DEF Running, Copying, Facts, PersistInv, OpOK, RamData, CopyOK, Nominal
<1>2. ~Fresh'
  BY <1>1 DEF ChipData, Fresh
<1>3. ASSUME NEW q \in Phys, flash[q].table # NoTable
      PROVE  TableData(flash[q].table)'
  <2> DEFINE t == flash[q].table
  <2> SUFFICES ASSUME op.kind # "repair" PROVE TableData(flash[q].table)'
    BY DEF TableData
  <2>1. /\ AllKept(t)
        /\ \A b \in Logical : t.bb[b] = IF b = op.blk THEN op.src ELSE tbl.bb[b]
    BY <1>1, <1>3 DEF ChipData, TableData
  <2>2. flash'[q].table = t
    OBVIOUS
  <2> HIDE DEF t
  <2>3. \A b \in Logical : t.bb[b] # op.dst /\ t.bb[b] \in Phys
    BY <1>1, <2>1, BlocksApart, FactTypes
  <2>4. \A b \in Logical, p \in Page :
          want'[b][p] # "any" => flash'[t.bb[b]].pages[p] = want'[b][p]
    BY <2>1, <2>3 DEF AllKept, Kept
  <2>5. QED BY <2>1, <2>2, <2>4 DEF TableData, AllKept, Kept, ram
<1>4. QED BY <1>1, <1>2, <1>3 DEF ChipData

LEMMA PrepareCopyChip ==
  ASSUME Facts, RamData, Nominal, ChipData, harm' = {},
         \A p \in Phys : flash'[p].table = flash[p].table,
         Prepare \/ CopyPage \/ CopyStops, pc' # "idle"
  PROVE  ChipData'
<1>1. /\ pc \in {"prepare", "copy"} /\ pc' \in {"copy", "uerase"} /\ UNCHANGED <<ram, want>>
      /\ op'.kind = op.kind /\ op'.blk = op.blk /\ op'.src = op.src
  <2>1. CASE Prepare
    BY <2>1 DEF Prepare
  <2>2. CASE CopyPage \/ CopyStops
    BY <2>2, FactTypes DEF CopyPage, CopyStops, CopyEnds, Done, history, Op
  <2>3. QED BY <2>1, <2>2
<1>2. \A x \in Phys, p \in Page : x # op.dst => flash'[x].pages[p] = flash[x].pages[p]
  <2>1. \A x \in Phys : x # op.dst => flash'[x] = flash[x]
    <3>1. flash \in [Phys -> Content]
      BY FactTypes
    <3>2. CASE Prepare
      BY <3>1, <3>2 DEF Prepare
    <3>3. CASE CopyPage
      BY <3>1, <3>3 DEF CopyPage
    <3>4. CASE CopyStops
      BY <3>1, <3>4 DEF CopyStops
    <3>5. QED BY <3>2, <3>3, <3>4
  <2>2. QED BY <2>1
<1>3. QED BY <1>1, <1>2, CopyChip

(* The table in RAM changes, the one on the chip is what it was.           *)
LEMMA ChangeChip ==
  ASSUME Facts, RamData, RamData', Nominal, harm' = {}, ChipData,
         \A p \in Phys : flash'[p].table = flash[p].table,
         Remaps \/ Unmap \/ FreeUnused, pc' \notin {"idle", "mark"}
  PROVE  ChipData'
<1>1. /\ pc = "attempt" /\ Running /\ Settled /\ Assumptions /\ TypeInv
  BY RemapCases DEF Unmap, FreeUnused, Attempt, Running, Settled, Facts
<1>2. OneTable /\ op.kind # "boot"
  BY <1>1, SettledTable DEF Facts, PersistInv, OpOK
<1>3. ~Fresh'
  BY <1>2 DEF Fresh, OneTable
<1>4. /\ pc' \in {"prepare", "uerase"} /\ op'.kind = op.kind
      /\ op'.blk = op.blk
      /\ op'.kind # "repair" =>
           /\ \A b \in Logical, p \in Page :
                want'[b][p] # "any" => flash'[tbl.bb[b]].pages[p] = want'[b][p]
           /\ pc' = "prepare" => /\ \A b \in Logical : b # op.blk => tbl'.bb[b] = tbl.bb[b]
                                 /\ op'.src = tbl.bb[op.blk]
  <2>1. CASE Remaps
    <3>1. PICK len \in 0..Pages, then \in {"idle", "attempt", "mark"} : Remap(len, then)
      BY <1>1, <2>1, RemapCases
    <3>2. /\ pc' = "prepare" /\ op'.kind = op.kind /\ op'.blk = op.blk
          /\ op'.src = tbl.bb[op.blk]
      BY <1>1, <3>1, RemapOp DEF Pc
    <3>3. \A b \in Logical : b # op.blk => tbl'.bb[b] = tbl.bb[b]
      BY <1>1, <3>1, RemapPool
    <3>4. \A b \in Logical, p \in Page :
            want'[b][p] # "any" => flash'[tbl.bb[b]].pages[p] = want'[b][p]
      <4>1. Running' /\ Copying'
        BY <3>2 DEF Running, Copying
      <4>2. /\ \A b \in Logical : b # op.blk => Kept(b, tbl.bb[b])'
            /\ Kept(op.blk, op.src)'
        BY <3>2, <4>1 DEF RamData, CopyOK, Kept
      <4>3. QED BY <3>2, <3>3, <4>2 DEF Kept
    <3>5. QED BY <3>2, <3>3, <3>4
  <2>2. CASE Unmap
    <3>1. /\ pc' = "uerase" /\ op'.kind = op.kind /\ op'.blk = op.blk
          /\ op'.then = IF op.kind = "repair" /\ Cur # op.blk THEN "prepare" ELSE "idle"
          /\ tbl'.bb = [tbl.bb EXCEPT ![op.blk] = op.blk]
          /\ want' = IF op.kind = "repair" \/ Cur = op.blk THEN want
                     ELSE [want EXCEPT ![op.blk] = [p \in Page |-> "any"]]
      BY <2>2, FactTypes DEF Unmap, Op, Table
    <3>2. ASSUME op.kind # "repair", NEW b \in Logical, NEW p \in Page, want'[b][p] # "any"
          PROVE  flash'[tbl.bb[b]].pages[p] = want'[b][p]
      <4>1. flash'[tbl'.bb[b]].pages[p] = want'[b][p]
        BY <3>1, <3>2 DEF RamData, Running, Copying, Kept
      <4>2. tbl'.bb[b] = tbl.bb[b]
        <5>1. b = op.blk => Cur = op.blk
          BY <3>1, <3>2, FactTypes
        <5>2. QED BY <3>1, <5>1, FactTypes
      <4>3. QED BY <4>1, <4>2
    <3>3. QED BY <3>1, <3>2
  <2>3. CASE FreeUnused
    <3>1. Unused # {}
      BY <2>3 DEF FreeUnused, Done
    <3>2. /\ tbl'.bb = tbl.bb /\ pc' = "uerase" /\ op'.kind = op.kind /\ op'.blk = op.blk
          /\ op'.then = op.then /\ op.kind = "debug"
      BY <1>1, <2>3, <3>1, FreedPool DEF FreeUnused, Attempt
    <3>3. op.then # "prepare"
      BY <3>2 DEF Facts, PersistInv, OpOK
    <3>4. QED BY <3>2, <3>3 DEF RamData, Running, Copying, Kept
  <2>4. QED BY <2>1, <2>2, <2>3
<1>5. ASSUME NEW q \in Phys, flash[q].table # NoTable PROVE TableData(flash[q].table)'
  <2>1. flash'[q].table = tbl
    BY <1>2, <1>5 DEF OneTable
  <2>2. QED BY <1>4, <2>1, FactTypes DEF TableData, AllKept, Kept
<1>6. QED BY <1>2, <1>3, <1>4, <1>5 DEF ChipData

(* The power goes: what it leaves half done is not wanted yet.             *)
LEMMA CrashChip ==
  ASSUME Facts, RamData, Nominal, ChipData, harm' = {},
         \A p \in Phys : flash'[p].table = flash[p].table, Crash
  PROVE  ChipData'
<1>1. /\ pc # "off" /\ pc # "wild" /\ pc # "uwrite" /\ op.kind # "repair"
      /\ pc = "uerase" => UNCHANGED flash
      /\ pc' = "off" /\ op' = NoOp /\ want' = want /\ Interrupted /\ harm = {}
  BY DEF Crash, RamData, Nominal
<1>2. pc = "dead" => UNCHANGED flash
  BY <1>1 DEF Interrupted, Attempt
<1>3. ASSUME Fresh' PROVE Blank'
  <2>1. Fresh
    BY <1>3 DEF Fresh
  <2>2. pc = "dead" \/ op.kind = "boot"
    BY <1>1, <2>1 DEF ChipData, Running
  <2>3. UNCHANGED flash
    BY <1>1, <1>2, <2>2 DEF Facts, PersistInv, OpOK
  <2>4. QED BY <1>1, <2>1, <2>2, <2>3 DEF ChipData, Blank
<1>4. ASSUME NEW q \in Phys, flash[q].table # NoTable
      PROVE  TableData(flash[q].table)'
  <2> DEFINE t == flash[q].table
  <2>1. Running /\ op.kind # "boot" /\ AllKept(t)
    BY <1>1, <1>4 DEF ChipData, TableData, Running
  <2>2. t \in Table
    BY <1>4, TableIn, FactTypes DEF Facts, PersistInv, ChipTables
  <2>3. /\ Settled => t = tbl
        /\ pc \in {"prepare", "copy"} =>
             \A b \in Logical : t.bb[b] = IF b = op.blk THEN op.src ELSE tbl.bb[b]
    BY <1>1, <1>4, <2>1, SettledTable DEF ChipData, TableData, OneTable
  <2>4. flash'[q].table = t
    OBVIOUS
  <2> HIDE DEF t
  <2>5. \A b \in Logical : t.bb[b] \in Phys
    BY <2>2 DEF Table
  <2>6. \A b \in Logical, p \in Page :
          want[b][p] # "any" => flash'[t.bb[b]].pages[p] = want[b][p]
    <3>0. \A b \in Logical, p \in Page :
            want[b][p] # "any" => flash[t.bb[b]].pages[p] = want[b][p]
      BY <2>1 DEF AllKept, Kept
    <3>1. CASE UNCHANGED flash
      BY <3>0, <3>1
    <3>2. CASE Attempt("write") /\ flash' = [flash EXCEPT ![Cur].pages[op.page] = "junk"]
      <4>1. t = tbl /\ want[op.blk][op.page] = "any"
        BY <2>3, <3>2 DEF Attempt, Settled, Facts, OpWants
      <4>2. \A b \in Logical : b # op.blk => tbl.bb[b] # Cur
        BY <1>1, <2>1, BlocksApart, FactTypes
      <4>3. \A x \in Phys, p \in Page :
              x # Cur \/ p # op.page => flash'[x].pages[p] = flash[x].pages[p]
        BY <3>2, FactTypes, OnePage
      <4>4. QED BY <2>5, <3>0, <4>1, <4>2, <4>3
    <3>3. CASE Attempt("erase") /\ HalfDone(Cur, {Filled("junk")})
      <4>1. t = tbl /\ \A p \in Page : want[op.blk][p] = "any"
        BY <2>3, <3>3 DEF Attempt, Settled, Facts, OpWants
      <4>2. \A b \in Logical : b # op.blk => tbl.bb[b] # Cur
        BY <1>1, <2>1, BlocksApart, FactTypes
      <4>3. \A x \in Phys : x # Cur => flash'[x] = flash[x]
        BY <3>3, FactTypes DEF HalfDone
      <4>4. QED BY <2>5, <3>0, <4>1, <4>2, <4>3
    <3>4. CASE \/ pc = "prepare" /\ HalfDone(op.dst, {Filled("junk")})
               \/ pc = "copy" /\ flash' = [flash EXCEPT ![op.dst].pages[op.at] = "junk"]
      <4>1. /\ pc \in {"prepare", "copy"} /\ op.dst = tbl.bb[op.blk] /\ op.src # op.dst
        BY <2>1, <3>4 DEF Facts, PersistInv, OpOK, Copying, RamData, CopyOK
      <4>2. \A b \in Logical : t.bb[b] # op.dst
        BY <1>1, <2>1, <2>3, <4>1, BlocksApart, FactTypes
      <4>3. \A x \in Phys : x # op.dst => flash'[x] = flash[x]
        BY <3>4, FactTypes DEF HalfDone
      <4>4. QED BY <2>5, <3>0, <4>2, <4>3
    <3>5. QED BY <1>1, <3>1, <3>2, <3>3, <3>4 DEF Interrupted
  <2>7. QED BY <1>1, <2>4, <2>6 DEF TableData, AllKept, Kept
<1>5. QED BY <1>1, <1>3, <1>4, NoOpFields DEF ChipData, Fresh, Running

LEMMA ChipDataKept ==
  ASSUME Facts, Facts', RamData, RamData', Nominal, Nominal', ChipData, [Next]_vars
  PROVE  ChipData'
<1>1. harm = {} /\ harm' = {} /\ Assumptions /\ TypeInv /\ SoundInv
      /\ OpOK /\ PoolFull /\ RamTable
  BY DEF Nominal, Facts, PersistInv
<1>2. CASE pc' \in {"idle", "attempt", "mark"}
  BY <1>2, SettledChip
<1>3. CASE UploadErase \/ UploadWrite
  <2>1. pc' \in {"idle", "attempt", "mark", "prepare"} \/ UploadErase
    BY <1>1, <1>3 DEF UploadWrite, OpOK, Done
  <2>2. QED BY <1>2, <1>3, <2>1, UploadChip DEF UploadErase, UploadWrite
<1>4. CASE BootScan
  BY <1>1, <1>4, ScanChip
<1>5. CASE ~(UploadErase \/ UploadWrite)
  <2>1. \A p \in Phys : flash'[p].table = flash[p].table
    BY <1>1, <1>5, TablesSame
  <2>2. CASE Crash
    BY <1>1, <2>1, <2>2, CrashChip
  <2>3. CASE Remaps \/ Unmap \/ FreeUnused
    BY <1>1, <1>2, <2>1, <2>3, ChangeChip
  <2>4. CASE Prepare \/ CopyPage \/ CopyStops
    BY <1>1, <1>2, <2>1, <2>4, PrepareCopyChip
  <2>5. CASE UploadFails \/ UploadGivesUp \/ BootTorn
    BY <2>5 DEF UploadFails, UploadGivesUp, BootTorn, Nominal
  <2>6. CASE BootLoad \/ ReadOk \/ WriteOk \/ EraseOk \/ MarkBad
    BY <1>2, <2>6 DEF BootLoad, ReadOk, WriteOk, EraseOk, MarkBad, Done
  <2>7. CASE Operation
    BY <1>1, <1>2, <2>7, BeginStep
  <2>8. CASE UNCHANGED vars
    BY <2>8 DEF vars, ChipData, Fresh, Blank, TableData, AllKept, Kept, Running
  <2>9. QED BY <1>4, <1>5, <2>2, <2>3, <2>4, <2>5, <2>6, <2>7, <2>8 DEF Next, Remaps
<1>6. QED BY <1>3, <1>5

LEMMA DataInvariant == Spec => []DataInv
<1> USE BmtAssumption, TableAssumption
<1>1. Init => DataInv
  <2> SUFFICES ASSUME Init PROVE DataInv
    OBVIOUS
  <2>1. /\ pc = "off" /\ op = NoOp /\ harm = {} /\ ~moved /\ ~Running
        /\ op.kind = "none" /\ op.at = 1 /\ op.then = "idle"
    BY NoOpFields DEF Init, Running
  <2>2. Fresh /\ Blank
    BY DEF Init, Fresh, Blank, Filled
  <2>3. QED BY <2>1, <2>2 DEF DataInv, OpWants, Copying, RamData, ChipData, Fresh
<1>2. ASSUME TypeInv, SoundInv, PersistInv, DataInv, [Next]_vars,
             TypeInv', SoundInv', PersistInv'
      PROVE  DataInv'
  <2> USE <1>2
  <2>1. Assumptions /\ OpOK
    BY DEF Assumptions, PersistInv
  <2>2. OpWants'
    BY <2>1, WantsKept DEF DataInv
  <2>3. Facts /\ Facts'
    BY <2>1, <2>2 DEF Facts, DataInv, Assumptions
  <2>4. harm' = {} => RamData'
    BY <2>3, RamDataKept DEF DataInv
  <2>5. Nominal' => ChipData'
    <3> SUFFICES ASSUME Nominal' PROVE ChipData'
      OBVIOUS
    <3>1. Nominal /\ harm = {} /\ harm' = {}
      BY NominalBefore DEF Nominal
    <3>2. QED BY <2>3, <2>4, <3>1, ChipDataKept DEF DataInv
  <2>6. QED BY <2>2, <2>4, <2>5 DEF DataInv
<1>3. QED
  BY <1>1, <1>2, BmtTypeInvariant, SoundInvariant, PersistInvariant, PTL DEF Spec

(* Between operations, and after any number of reboots, every page holds   *)
(* what was last written to it or is blank since it was erased.            *)
THEOREM DataSafe == Spec => []DataKept
<1>1. DataInv => DataKept
  <2> SUFFICES ASSUME DataInv, pc = "idle", harm = {} PROVE
        \A b \in Logical, p \in Page :
          want[b][p] # "any" => flash[tbl.bb[b]].pages[p] = want[b][p]
    BY DEF DataKept
  <2>1. Running /\ ~Copying
    BY DEF Running, Copying
  <2>2. QED BY <2>1 DEF DataInv, RamData, Kept
<1>2. QED BY <1>1, DataInvariant, PTL
=============================================================================
