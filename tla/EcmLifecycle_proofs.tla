----------------------- MODULE EcmLifecycle_proofs -----------------------
(***************************************************************************)
(* Proofs about EcmLifecycle, for any finite number of threads,            *)
(* connections and instances, any number of types and of jobs.             *)
(***************************************************************************)
EXTENDS EcmLifecycle, FiniteSetTheorems, TLAPS

Ty(i) == inst[i].type
Has(c, y) == \E a \in assigned[c] : Ty(a) = y
Marks == OfType(Live, MARK)

-----------------------------------------------------------------------------
(* Types.  That references are never negative, and what is allocated, is a *)
(* consequence of RefsExact.                                               *)

Pc == {"idle", "default", "tracker", "tracked", "drop", "walk", "built", "made", "assigned",
       "process", "look", "asked", "put", "decide", "release"}

ThreadType ==
  [pc : Pc, ci : Conn \cup {None}, held : SUBSET Inst, arr : Seq(Inst), i : Nat,
   type : 0..Types, full : BOOLEAN, made : Inst \cup {None}, mark : Inst \cup {None},
   gone : BOOLEAN]
TypeOK ==
  /\ conn \in [Conn -> [refs : Int, listed : BOOLEAN]]
  /\ assigned \in [Conn -> SUBSET Inst]
  /\ inst \in [Inst -> [type : 0..(Types - 1), refs : Int]]
  /\ next \in [Inst -> Inst \cup {None}] /\ prev \in [Inst -> Inst \cup {None}]
  /\ head \in Inst \cup {None} /\ count \in Int
  /\ defaults \in Int
  /\ exiting \in BOOLEAN /\ jobs \in Nat
  /\ thr \in [Thread -> ThreadType]

(* What a thread has at each point of its work.                            *)
PcOK(t) ==
  /\ At(t, "idle") => thr[t] = Idle
  /\ ~At(t, "idle") => Ci(t) \in Conn
  /\ thr[t].made # None <=> thr[t].pc \in {"made", "assigned"}
  /\ thr[t].mark # None <=> At(t, "asked")
  /\ thr[t].pc \in {"default", "tracker", "tracked", "drop"} => thr[t].held = {}

(* A connection has one classifier of a type, and DEFAULT when listed.     *)
ConnOK(c) ==
  /\ \A i, j \in assigned[c] : Ty(i) = Ty(j) => i = j
  /\ conn[c].refs = 0 => assigned[c] = {}
  /\ conn[c].listed => Has(c, 0)

(* Whoever makes a connection is alone with it until it is listed.         *)
Newborn(t) == thr[t].pc \in {"default", "tracker", "tracked", "drop"} \/ (Walking(t) /\ thr[t].arr = <<>>)
NewOK(t) ==
  Newborn(t) =>
    /\ ~conn[Ci(t)].listed
    /\ \A u \in Thread \ {t} : Ci(u) # Ci(t)
    /\ thr[t].pc \in {"default", "tracker", "tracked"} => thr[t] = [Idle EXCEPT !.pc = thr[t].pc, !.ci = Ci(t)]
    /\ thr[t].pc \in {"default", "tracker", "tracked", "drop"} => assigned[Ci(t)] = {}
    /\ thr[t].pc \in {"walk", "built", "assigned"} => Has(Ci(t), 0)
    /\ At(t, "made") => thr[t].type = 0 \/ Has(Ci(t), 0)

(* The walk: the array holds the classifiers held in strict order of their *)
(* types, those before the index are of types done, the others are not,    *)
(* and what was assigned meanwhile is of a type done.                      *)
Covers(S, q) == \A h \in S : \E k \in 1..Len(q) : q[k] = h
Ascends(q) == \A j, k \in 1..Len(q) : j < k => Ty(q[j]) < Ty(q[k])
InStep(r) ==
  /\ r.i \in 1..(Len(r.arr) + 1)
  /\ \A k \in 1..Len(r.arr) : IF k < r.i THEN Ty(r.arr[k]) < r.type ELSE Ty(r.arr[k]) >= r.type
WalkOK(t) ==
  LET r == thr[t] IN
  Walking(t) =>
    /\ \A u \in Thread \ {t} : Walking(u) => Ci(u) # Ci(t)
    /\ \A k \in 1..Len(r.arr) : r.arr[k] \in r.held
    /\ Covers(r.held, r.arr) /\ Ascends(r.arr)
    /\ InStep(r)
    /\ ~At(t, "walk") => /\ ~Same(t) /\ r.type < Types
                         /\ IF At(t, "built") THEN r.type # 0 ELSE Ty(r.made) = r.type
    /\ \A a \in assigned[Ci(t)] \ r.held : Ty(a) < r.type \/ (At(t, "assigned") /\ a = r.made)

(* A walk that is full so far has every type below the one due.            *)
FullOK(t) ==
  LET r == thr[t] IN
  Walking(t) /\ r.full /\ ~r.gone =>
    /\ r.held \subseteq assigned[Ci(t)]
    /\ \A y \in 0..(r.type - 1) : Has(Ci(t), y)
    /\ At(t, "assigned") => r.made \in assigned[Ci(t)]

(* The list, as the sequence of its instances.                             *)
Lists(q, S, nx, pv, hd, n) ==
  /\ q \in [1..n -> S]
  /\ \A i \in S : \E k \in 1..n : q[k] = i
  /\ \A j, k \in 1..n : q[j] = q[k] => j = k
  /\ hd = IF n = 0 THEN None ELSE q[1]
  /\ \A k \in 1..n : nx[q[k]] = IF k = n THEN None ELSE q[k + 1]
  /\ \A k \in 1..n : pv[q[k]] = IF k = 1 THEN None ELSE q[k - 1]

ListOK ==
  /\ \A i \in Inst \ Marks : next[i] = None /\ prev[i] = None
  /\ count = Cardinality(Marks)
  /\ \E q : Lists(q, Marks, next, prev, head, count)

(* The part of RefsExact that is inductive.                                *)
Owned ==
  \A i \in Inst : inst[i].refs =
       Cardinality({c \in Conn : i \in assigned[c]})
         + Cardinality({t \in Thread : i \in thr[t].held})
         + Cardinality({t \in Thread : thr[t].made = i})
         + Cardinality({t \in Thread : thr[t].mark = i})
Used ==
  \A c \in Conn : conn[c].refs =
       (IF conn[c].listed THEN 1 ELSE 0)
         + Cardinality({t \in Thread : Ci(t) = c})
         + Cardinality({t \in Thread : Ci(t) = c /\ thr[t].pc \in {"look", "asked", "put"}})
Allocated == defaults = Cardinality(OfType(Live, 0))

IInv ==
  /\ TypeOK /\ Owned /\ Used /\ Allocated /\ ListOK
  /\ \A c \in Conn : ConnOK(c)
  /\ \A t \in Thread : PcOK(t) /\ NewOK(t) /\ WalkOK(t) /\ FullOK(t)

-----------------------------------------------------------------------------
(* A set of instances of different types can be sorted by type: the place  *)
(* of one is the number of those of a type up to its own.                  *)

LEMMA Places ==
  ASSUME NEW S, IsFiniteSet(S), NEW ty \in [S -> Nat],
         \A x, y \in S : ty[x] = ty[y] => x = y
  PROVE  \E q \in [1..Cardinality(S) -> S] :
           \A i, j \in 1..Cardinality(S) : i < j => ty[q[i]] < ty[q[j]]
<1> DEFINE n == Cardinality(S)
           upto(x) == {y \in S : ty[y] <= ty[x]}
           rank == [x \in S |-> Cardinality(upto(x))]
<1>1. n \in Nat /\ \A x \in S : IsFiniteSet(upto(x)) /\ Cardinality(upto(x)) \in Nat /\ Cardinality(upto(x)) <= n
  <2>1. n \in Nat
    BY FS_CardinalityType
  <2>2. ASSUME NEW x \in S PROVE IsFiniteSet(upto(x)) /\ Cardinality(upto(x)) <= n
    <3>1. upto(x) \in SUBSET S
      OBVIOUS
    <3>2. QED BY <3>1, FS_Subset
  <2>3. \A x \in S : Cardinality(upto(x)) \in Nat
    BY <2>2, FS_CardinalityType
  <2>4. QED BY <2>1, <2>2, <2>3
<1>2. ASSUME NEW x \in S PROVE rank[x] \in 1..n
  <2>1. upto(x) # {}
    BY SMT
  <2>2. Cardinality(upto(x)) # 0
    BY <1>1, <2>1, FS_EmptySet
  <2>3. QED BY <1>1, <2>2
<1>3. ASSUME NEW x \in S, NEW y \in S, ty[x] < ty[y] PROVE rank[x] < rank[y]
  <2>1. upto(x) \in SUBSET upto(y)
    BY <1>3
  <2>2. y \in upto(y) /\ y \notin upto(x)
    BY <1>3
  <2>3. Cardinality(upto(x)) <= Cardinality(upto(y)) /\ Cardinality(upto(x)) # Cardinality(upto(y))
    BY <1>1, <2>1, <2>2, FS_Subset
  <2>4. QED BY <1>1, <2>3
<1>4. rank \in Injection(S, 1..n)
  <2>1. rank \in [S -> 1..n]
    BY <1>2
  <2>2. ASSUME NEW x \in S, NEW y \in S, rank[x] = rank[y] PROVE x = y
    <3> HIDE DEF rank
    <3>1. rank[x] \in Nat /\ rank[y] \in Nat
      BY <1>1, <1>2
    <3>2. ~(ty[x] < ty[y]) /\ ~(ty[y] < ty[x])
      BY <1>3, <2>2, <3>1
    <3>3. ty[x] \in Nat /\ ty[y] \in Nat
      OBVIOUS
    <3>4. QED BY <3>2, <3>3
  <2>3. IsInjective(rank)
    BY <2>1, <2>2 DEF IsInjective
  <2>4. QED BY <2>1, <2>3 DEF Injection
<1>5. IsFiniteSet(1..n) /\ Cardinality(1..n) = n
  <2>1. 1 \in Int /\ n \in Int
    BY <1>1
  <2>2. IsFiniteSet(1..n) /\ Cardinality(1..n) = IF 1 > n THEN 0 ELSE n - 1 + 1
    BY <2>1, FS_Interval
  <2>3. QED BY <1>1, <2>2
<1>6. rank \in Surjection(S, 1..n)
  BY <1>4, <1>5, FS_Injection
<1>7. \A k \in 1..n : \E x \in S : rank[x] = k
  BY <1>6 DEF Surjection
<1> HIDE DEF rank, n
<1> DEFINE q == [k \in 1..n |-> CHOOSE x \in S : rank[x] = k]
<1>8. \A k \in 1..n : q[k] \in S /\ rank[q[k]] = k
  BY <1>7
<1>9. ASSUME NEW i \in 1..n, NEW j \in 1..n, i < j PROVE ty[q[i]] < ty[q[j]]
  <2>1. ty[q[i]] \in Nat /\ ty[q[j]] \in Nat
    BY <1>8
  <2>2. ~(ty[q[j]] < ty[q[i]])
    <3>1. SUFFICES ASSUME ty[q[j]] < ty[q[i]] PROVE FALSE
      OBVIOUS
    <3>2. rank[q[j]] < rank[q[i]]
      BY <1>3, <1>8, <3>1
    <3>3. QED BY <1>8, <1>9, <3>2
  <2>3. ty[q[j]] # ty[q[i]]
    <3>1. q[i] # q[j]
      BY <1>8, <1>9
    <3>2. QED BY <1>8, <3>1
  <2>4. QED BY <2>1, <2>2, <2>3
<1>10. q \in [1..n -> S]
  BY <1>8
<1> HIDE DEF q
<1>11. \E p \in [1..n -> S] : \A i, j \in 1..n : i < j => ty[p[i]] < ty[p[j]]
  BY <1>9, <1>10
<1>12. QED BY <1>11 DEF n

(* So the array of a connection's classifiers holds each of them, in       *)
(* strict order of their types.                                            *)
LEMMA Sorted ==
  ASSUME LifecycleAssumption, TypeOK, NEW c \in Conn, ConnOK(c)
  PROVE  LET q == ByType(assigned[c]) IN
         /\ q \in Seq(Inst)
         /\ \A k \in 1..Len(q) : q[k] \in assigned[c]
         /\ Covers(assigned[c], q) /\ Ascends(q)
<1> DEFINE S == assigned[c]
           n == Cardinality(S)
           ty == [x \in S |-> Ty(x)]
           good(q) == \A i, j \in DOMAIN q : i < j => q[i] # q[j] /\ inst[q[i]].type <= inst[q[j]].type
           q == ByType(S)
<1>1. S \in SUBSET Inst /\ (\A x \in S : Ty(x) \in Nat) /\ IsFiniteSet(S) /\ n \in Nat
  <2>1. S \in SUBSET Inst /\ \A x \in Inst : Ty(x) \in 0..(Types - 1)
    BY DEF TypeOK, Ty
  <2>2. IsFiniteSet(S)
    BY <2>1, FS_Subset DEF LifecycleAssumption
  <2>3. QED BY <2>1, <2>2, FS_CardinalityType
<1>2. ty \in [S -> Nat] /\ \A x, y \in S : ty[x] = ty[y] => x = y
  BY <1>1 DEF ConnOK
<1>3. PICK p \in [1..n -> S] : \A i, j \in 1..n : i < j => ty[p[i]] < ty[p[j]]
  <2> HIDE DEF ty, S
  <2>1. QED BY <1>1, <1>2, Places
<1>4. good(p)
  <2>1. ASSUME NEW i \in 1..n, NEW j \in 1..n, i < j
        PROVE  p[i] # p[j] /\ inst[p[i]].type <= inst[p[j]].type
    <3>1. p[i] \in S /\ p[j] \in S /\ ty[p[i]] < ty[p[j]]
      BY <1>3, <2>1
    <3>2. ty[p[i]] = inst[p[i]].type /\ ty[p[j]] = inst[p[j]].type /\ ty[p[i]] \in Nat /\ ty[p[j]] \in Nat
      BY <1>2, <3>1 DEF Ty
    <3>3. QED BY <3>1, <3>2
  <2>2. DOMAIN p = 1..n
    OBVIOUS
  <2>3. QED BY <2>1, <2>2
<1>5. q \in [1..n -> S] /\ good(q)
  <2>1. \E r \in [1..n -> S] : good(r)
    BY <1>4
  <2>2. q = CHOOSE r \in [1..n -> S] : good(r)
    BY DEF ByType
  <2> HIDE DEF q, good, n, S
  <2>3. QED BY <2>1, <2>2
<1> HIDE DEF q
<1>6. q \in Seq(Inst) /\ Len(q) = n /\ DOMAIN q = 1..n
  BY <1>1, <1>5
<1>7. Ascends(q)
  <2>1. ASSUME NEW j \in 1..n, NEW k \in 1..n, j < k PROVE Ty(q[j]) < Ty(q[k])
    <3>1. q[j] \in S /\ q[k] \in S /\ q[j] # q[k] /\ Ty(q[j]) <= Ty(q[k])
      BY <1>5, <1>6, <2>1 DEF Ty
    <3>2. Ty(q[j]) # Ty(q[k])
      BY <3>1 DEF ConnOK
    <3>3. QED BY <1>1, <3>1, <3>2
  <2>2. QED BY <1>6, <2>1 DEF Ascends
<1>8. IsInjective(q)
  <2>1. ASSUME NEW j \in 1..n, NEW k \in 1..n, q[j] = q[k] PROVE j = k
    <3>1. ~(j < k) /\ ~(k < j)
      BY <1>5, <1>6, <2>1
    <3>2. QED BY <1>1, <3>1
  <2>2. QED BY <1>6, <2>1 DEF IsInjective
<1>9. \A h \in S : \E k \in 1..n : q[k] = h
  <2>1. IsFiniteSet(1..n) /\ Cardinality(1..n) = n
    <3>1. 1 \in Int /\ n \in Int
      BY <1>1
    <3>2. IsFiniteSet(1..n) /\ Cardinality(1..n) = IF 1 > n THEN 0 ELSE n - 1 + 1
      BY <3>1, FS_Interval
    <3>3. QED BY <1>1, <3>2
  <2>2. q \in Injection(1..n, S)
    BY <1>5, <1>8 DEF Injection
  <2>3. q \in Surjection(1..n, S)
    BY <1>1, <2>1, <2>2, FS_Injection
  <2>4. QED BY <2>3 DEF Surjection
<1>10. \A k \in 1..Len(q) : q[k] \in S
  BY <1>5, <1>6
<1>11. QED BY <1>6, <1>7, <1>9, <1>10 DEF q, Covers

-----------------------------------------------------------------------------
(* The list of MARK instances.                                             *)

LEMMA LeastOf ==
  ASSUME NEW S \in SUBSET Nat, S # {}
  PROVE  \E x \in S : \A y \in S : x <= y
<1>1. PICK x \in S : \A y \in S : ~ (<<y, x>> \in OpToRel(<, Nat))
  BY NatLessThanWellFounded, WFMin
<1>2. ASSUME NEW y \in S, y < x PROVE FALSE
  <2>1. <<y, x>> \in Nat \X Nat /\ <<y, x>>[1] = y /\ <<y, x>>[2] = x
    OBVIOUS
  <2>2. <<y, x>> \in OpToRel(<, Nat)
    BY <1>2, <2>1 DEF OpToRel
  <2>3. QED BY <1>1, <2>2
<1>3. \A y \in S : x \in Nat /\ y \in Nat /\ ~ (y < x)
  BY <1>2
<1>4. QED BY <1>3

(* Walking the list from its head meets the instances of the sequence one  *)
(* after the other, and nothing after them.                                *)
LEMMA WalkMeets ==
  ASSUME LifecycleAssumption, NEW q, NEW S \in SUBSET Inst, NEW n \in Nat,
         Lists(q, S, next, prev, head, n), n <= Cardinality(Inst)
  PROVE  \A k \in 0..Cardinality(Inst) : Walk[k] = IF k < n THEN q[k + 1] ELSE None
<1> DEFINE N == Cardinality(Inst)
           eq(f) == f = [k \in 0..N |-> IF k = 0 THEN head
                                       ELSE IF f[k - 1] = None THEN None ELSE next[f[k - 1]]]
           g == [k \in 0..N |-> IF k < n THEN q[k + 1] ELSE None]
<1>1. N \in Nat /\ None \notin Inst
  BY FS_CardinalityType DEF LifecycleAssumption
<1>2. \A k \in 1..n : q[k] \in Inst /\ q[k] # None /\ next[q[k]] = IF k = n THEN None ELSE q[k + 1]
  BY <1>1 DEF Lists
<1>3. head = IF n = 0 THEN None ELSE q[1]
  BY DEF Lists
<1>4. ASSUME NEW k \in 0..N
      PROVE  g[k] = IF k = 0 THEN head ELSE IF g[k - 1] = None THEN None ELSE next[g[k - 1]]
  <2>1. CASE k = 0
    BY <1>1, <1>3, <2>1
  <2>2. CASE k # 0 /\ k - 1 < n
    <3>1. k \in 1..n /\ k - 1 \in 0..N /\ g[k - 1] = q[k] /\ k - 1 + 1 = k
      BY <1>1, <2>2
    <3>2. g[k] = IF k = n THEN None ELSE q[k + 1]
      BY <1>1, <2>2
    <3>3. QED BY <1>2, <2>2, <3>1, <3>2
  <2>3. CASE k # 0 /\ ~(k - 1 < n)
    <3>1. k - 1 \in 0..N /\ g[k - 1] = None /\ g[k] = None
      BY <1>1, <2>3
    <3>2. QED BY <2>3, <3>1
  <2>4. QED BY <2>1, <2>2, <2>3
<1> HIDE DEF g
<1>5. eq(g)
  <2>1. g = [k \in 0..N |-> g[k]]
    BY DEF g
  <2>2. QED BY <1>4, <2>1
<1>6. Walk = CHOOSE f : eq(f)
  BY DEF Walk
<1>7. eq(Walk)
  <2> HIDE DEF eq
  <2>1. QED BY <1>5, <1>6
<1>8. \A k \in 0..N : Walk[k] = IF k = 0 THEN head
                                ELSE IF Walk[k - 1] = None THEN None ELSE next[Walk[k - 1]]
  <2> HIDE DEF N
  <2>1. QED BY <1>7
<1>9. \A k \in 0..N : Walk[k] = g[k]
  <2> DEFINE D == {k \in 0..N : Walk[k] # g[k]}
  <2>1. SUFFICES ASSUME D # {} PROVE FALSE
    OBVIOUS
  <2>2. D \in SUBSET Nat
    BY <1>1
  <2>3. PICK m \in D : \A k \in D : m <= k
    <3> HIDE DEF D
    <3>1. QED BY <2>1, <2>2, LeastOf
  <2>4. CASE m = 0
    BY <1>4, <1>8, <2>3, <2>4
  <2>5. CASE m # 0
    <3>1. m \in 0..N /\ m - 1 \in 0..N /\ ~(m <= m - 1)
      BY <1>1, <2>3, <2>5
    <3>2. Walk[m - 1] = g[m - 1]
      BY <2>3, <3>1
    <3>3. Walk[m] = g[m]
      BY <1>4, <1>8, <2>5, <3>1, <3>2
    <3>4. QED BY <2>3, <3>3
  <2>6. QED BY <2>4, <2>5
<1>10. QED BY <1>9 DEF g

(* Where the list is linked as the sequence says, ListIsLive holds.        *)
LEMMA ListedIsLive ==
  ASSUME LifecycleAssumption, TypeOK, ListOK
  PROVE  ListIsLive
<1> DEFINE N == Cardinality(Inst)
<1>1. PICK q : Lists(q, Marks, next, prev, head, count)
  BY DEF ListOK
<1>2. Marks \in SUBSET Inst /\ count = Cardinality(Marks) /\ None \notin Inst /\ IsFiniteSet(Inst)
  BY DEF ListOK, Marks, OfType, Live, LifecycleAssumption
<1>3. count \in Nat /\ N \in Nat /\ count <= N
  BY <1>2, FS_Subset, FS_CardinalityType
<1>4. \A k \in 0..N : Walk[k] = IF k < count THEN q[k + 1] ELSE None
  BY <1>1, <1>2, <1>3, WalkMeets
<1>5. /\ q \in [1..count -> Marks]
      /\ \A i \in Marks : \E k \in 1..count : q[k] = i
      /\ head = IF count = 0 THEN None ELSE q[1]
      /\ \A k \in 1..count : next[q[k]] = IF k = count THEN None ELSE q[k + 1]
      /\ \A k \in 1..count : prev[q[k]] = IF k = 1 THEN None ELSE q[k - 1]
  BY <1>1 DEF Lists
<1> HIDE DEF N
<1>6. {Walk[n] : n \in 0..N} \ {None} = Marks
  <2>1. ASSUME NEW n \in 0..N, Walk[n] # None PROVE Walk[n] \in Marks
    <3>1. n < count /\ n + 1 \in 1..count /\ Walk[n] = q[n + 1]
      BY <1>3, <1>4, <2>1
    <3>2. QED BY <1>5, <3>1
  <2>2. ASSUME NEW i \in Marks PROVE \E n \in 0..N : Walk[n] = i
    <3>1. PICK k \in 1..count : q[k] = i
      BY <1>5
    <3>2. k - 1 \in 0..N /\ k - 1 < count /\ k - 1 + 1 = k
      BY <1>3
    <3>3. Walk[k - 1] = i
      BY <1>4, <3>1, <3>2
    <3>4. QED BY <3>2, <3>3
  <2>3. None \notin Marks
    BY <1>2
  <2>4. QED BY <2>1, <2>2, <2>3
<1>7. Walk[count] = None
  <2>1. count \in 0..N /\ ~(count < count)
    BY <1>3
  <2>2. QED BY <1>4, <2>1
<1>8. ASSUME NEW i \in Marks PROVE IF prev[i] = None THEN head = i ELSE next[prev[i]] = i
  <2>1. PICK k \in 1..count : q[k] = i
    BY <1>5
  <2>2. CASE k = 1
    BY <1>3, <1>5, <2>1, <2>2
  <2>3. CASE k # 1
    <3>1. k - 1 \in 1..count /\ k - 1 # count /\ k - 1 + 1 = k
      BY <1>3, <2>3
    <3>2. prev[i] = q[k - 1] /\ q[k - 1] \in Marks
      BY <1>5, <2>1, <2>3, <3>1
    <3>3. next[q[k - 1]] = i
      BY <1>5, <2>1, <3>1
    <3>4. QED BY <1>2, <3>2, <3>3
  <2>4. QED BY <2>2, <2>3
<1>9. QED BY <1>2, <1>6, <1>7, <1>8 DEF ListIsLive, Marks, N

LEMMA LinkedLists ==
  ASSUME None \notin Inst, NEW q, NEW S \in SUBSET Inst, NEW n \in Nat,
         NEW nx \in [Inst -> Inst \cup {None}], NEW pv \in [Inst -> Inst \cup {None}], NEW hd,
         Lists(q, S, nx, pv, hd, n),
         NEW i \in Inst \ S, pv[i] = None
  PROVE  \E p : Lists(p, S \cup {i}, [nx EXCEPT ![i] = hd],
                      IF hd = None THEN pv ELSE [pv EXCEPT ![hd] = i], i, n + 1)
<1> DEFINE p == [k \in 1..(n + 1) |-> IF k = 1 THEN i ELSE q[k - 1]]
           nx1 == [nx EXCEPT ![i] = hd]
           pv1 == IF hd = None THEN pv ELSE [pv EXCEPT ![hd] = i]
<1>1. /\ q \in [1..n -> S]
      /\ \A x \in S : \E k \in 1..n : q[k] = x
      /\ \A j, k \in 1..n : q[j] = q[k] => j = k
      /\ hd = IF n = 0 THEN None ELSE q[1]
      /\ \A k \in 1..n : nx[q[k]] = IF k = n THEN None ELSE q[k + 1]
      /\ \A k \in 1..n : pv[q[k]] = IF k = 1 THEN None ELSE q[k - 1]
  BY DEF Lists
<1>2. \A k \in 1..(n + 1) : k # 1 => k - 1 \in 1..n /\ p[k] = q[k - 1] /\ p[k] \in S /\ p[k] # i
  BY <1>1
<1>3. p[1] = i /\ 1 \in 1..(n + 1)
  OBVIOUS
<1> HIDE DEF p
<1>4. p \in [1..(n + 1) -> S \cup {i}]
  BY <1>2, <1>3 DEF p
<1>5. \A x \in S \cup {i} : \E k \in 1..(n + 1) : p[k] = x
  <2>1. ASSUME NEW x \in S PROVE \E k \in 1..(n + 1) : p[k] = x
    <3>1. PICK k \in 1..n : q[k] = x
      BY <1>1
    <3>2. k + 1 \in 1..(n + 1) /\ k + 1 # 1 /\ k + 1 - 1 = k
      OBVIOUS
    <3>3. QED BY <1>2, <3>1, <3>2
  <2>2. QED BY <1>3, <2>1
<1>6. ASSUME NEW j \in 1..(n + 1), NEW k \in 1..(n + 1), p[j] = p[k] PROVE j = k
  <2>1. CASE j = 1 \/ k = 1
    BY <1>2, <1>3, <1>6, <2>1
  <2>2. CASE j # 1 /\ k # 1
    <3>1. j - 1 = k - 1
      BY <1>1, <1>2, <1>6, <2>2
    <3>2. QED BY <3>1
  <2>3. QED BY <2>1, <2>2
<1>7. ASSUME NEW k \in 1..(n + 1) PROVE nx1[p[k]] = IF k = n + 1 THEN None ELSE p[k + 1]
  <2>1. CASE k = 1
    <3>1. nx1[p[k]] = hd
      BY <1>3, <2>1
    <3>2. n # 0 => k + 1 \in 1..(n + 1) /\ k + 1 # 1 /\ k + 1 - 1 = 1
      BY <2>1
    <3>3. QED BY <1>1, <1>2, <2>1, <3>1, <3>2
  <2>2. CASE k # 1
    <3>1. k - 1 \in 1..n /\ p[k] = q[k - 1] /\ p[k] \in Inst /\ p[k] # i
      BY <1>2, <2>2
    <3>2. nx1[p[k]] = nx[q[k - 1]]
      BY <3>1
    <3>3. nx[q[k - 1]] = IF k - 1 = n THEN None ELSE q[k - 1 + 1]
      BY <1>1, <3>1
    <3>4. k # n + 1 => k + 1 \in 1..(n + 1) /\ k + 1 # 1 /\ k + 1 - 1 = k - 1 + 1
      BY <2>2
    <3>5. k # n + 1 => p[k + 1] = q[k - 1 + 1]
      BY <1>2, <3>4
    <3>6. k - 1 = n <=> k = n + 1
      BY <1>1
    <3>7. QED BY <3>2, <3>3, <3>5, <3>6
  <2>3. QED BY <2>1, <2>2
<1>8. ASSUME NEW k \in 1..(n + 1) PROVE pv1[p[k]] = IF k = 1 THEN None ELSE p[k - 1]
  <2>0. hd = None <=> n = 0
    BY <1>1
  <2>1. CASE k = 1
    <3>1. p[k] = i /\ (hd # None => hd \in S)
      BY <1>1, <1>3, <2>1
    <3>2. QED BY <2>1, <3>1
  <2>2. CASE k # 1
    <3>1. k - 1 \in 1..n /\ p[k] = q[k - 1] /\ p[k] \in Inst /\ n # 0
      BY <1>2, <2>2
    <3>2. hd = q[1] /\ hd # None /\ hd \in Inst /\ 1 \in 1..n
      BY <1>1, <2>0, <3>1
    <3>3. CASE k = 2
      <4>1. p[k] = hd /\ p[k - 1] = i
        BY <1>3, <3>1, <3>2, <3>3
      <4>2. QED BY <2>2, <3>2, <4>1
    <3>4. CASE k # 2
      <4>1. k - 1 # 1 /\ k - 1 \in 1..(n + 1)
        BY <2>2, <3>4
      <4>2. q[k - 1] # hd
        BY <1>1, <3>1, <3>2, <4>1
      <4>3. pv1[p[k]] = pv[q[k - 1]]
        BY <3>1, <3>2, <4>2
      <4>4. pv[q[k - 1]] = q[k - 1 - 1]
        BY <1>1, <3>1, <4>1
      <4>5. p[k - 1] = q[k - 1 - 1]
        BY <1>2, <4>1
      <4>6. QED BY <2>2, <4>3, <4>4, <4>5
    <3>5. QED BY <3>3, <3>4
  <2>3. QED BY <2>1, <2>2
<1>9. Lists(p, S \cup {i}, nx1, pv1, i, n + 1)
  <2> HIDE DEF nx1, pv1
  <2>1. n + 1 # 0
    OBVIOUS
  <2>2. QED BY <1>3, <1>4, <1>5, <1>6, <1>7, <1>8, <2>1 DEF Lists
<1>10. QED BY <1>9

-----------------------------------------------------------------------------

(* The links of one direction without i, with a linked to b in its place.  *)
Cut(l, i, a, b) == [j \in Inst |-> IF j = i THEN None ELSE IF j = a THEN b ELSE l[j]]

LEMMA UnlinkedLists ==
  ASSUME None \notin Inst, NEW q, NEW S \in SUBSET Inst, NEW n \in Nat,
         NEW nx \in [Inst -> Inst \cup {None}], NEW pv \in [Inst -> Inst \cup {None}], NEW hd,
         Lists(q, S, nx, pv, hd, n), NEW i \in S
  PROVE  \E p : Lists(p, S \ {i}, Cut(nx, i, pv[i], nx[i]), Cut(pv, i, nx[i], pv[i]),
                      IF pv[i] = None THEN nx[i] ELSE hd, n - 1)
<1>1. /\ q \in [1..n -> S]
      /\ \A x \in S : \E k \in 1..n : q[k] = x
      /\ \A j, k \in 1..n : q[j] = q[k] => j = k
      /\ hd = IF n = 0 THEN None ELSE q[1]
      /\ \A k \in 1..n : nx[q[k]] = IF k = n THEN None ELSE q[k + 1]
      /\ \A k \in 1..n : pv[q[k]] = IF k = 1 THEN None ELSE q[k - 1]
  BY DEF Lists
<1>2. PICK m \in 1..n : q[m] = i
  BY <1>1
<1> DEFINE p == [k \in 1..(n - 1) |-> IF k < m THEN q[k] ELSE q[k + 1]]
           nx1 == Cut(nx, i, pv[i], nx[i])
           pv1 == Cut(pv, i, nx[i], pv[i])
           hd1 == IF pv[i] = None THEN nx[i] ELSE hd
<1>3. /\ nx[i] = IF m = n THEN None ELSE q[m + 1]
      /\ pv[i] = IF m = 1 THEN None ELSE q[m - 1]
  BY <1>1, <1>2
<1>4. /\ \A k \in 1..(n - 1) : k < m => p[k] = q[k] /\ k \in 1..n /\ k # m
      /\ \A k \in 1..(n - 1) : ~(k < m) => p[k] = q[k + 1] /\ k + 1 \in 1..n /\ k + 1 # m
  BY <1>2
<1>5. \A k \in 1..n : q[k] \in Inst /\ q[k] # None
  BY <1>1
<1>6. \A k \in 1..(n - 1) : p[k] \in S \ {i} /\ p[k] \in Inst
  <2> TAKE k \in 1..(n - 1)
  <2>1. CASE k < m
    BY <1>1, <1>2, <1>4, <2>1
  <2>2. CASE ~(k < m)
    BY <1>1, <1>2, <1>4, <2>2
  <2>3. QED BY <2>1, <2>2
<1> HIDE DEF p
<1>7. p \in [1..(n - 1) -> S \ {i}]
  BY <1>6 DEF p
<1>8. ASSUME NEW x \in S \ {i} PROVE \E k \in 1..(n - 1) : p[k] = x
  <2>1. PICK k \in 1..n : q[k] = x
    BY <1>1
  <2>2. k # m
    BY <1>2, <2>1
  <2>3. CASE k < m
    <3>1. k \in 1..(n - 1)
      BY <2>3
    <3>2. QED BY <1>4, <2>1, <2>3, <3>1
  <2>4. CASE ~(k < m)
    <3>1. k - 1 \in 1..(n - 1) /\ ~(k - 1 < m) /\ k - 1 + 1 = k
      BY <2>2, <2>4
    <3>2. QED BY <1>4, <2>1, <3>1
  <2>5. QED BY <2>3, <2>4
<1>9. ASSUME NEW j \in 1..(n - 1), NEW k \in 1..(n - 1), p[j] = p[k] PROVE j = k
  <2>1. CASE j < m /\ k < m
    BY <1>1, <1>4, <1>9, <2>1
  <2>2. CASE j < m /\ ~(k < m)
    <3>1. j = k + 1
      BY <1>1, <1>4, <1>9, <2>2
    <3>2. QED BY <2>2, <3>1
  <2>3. CASE ~(j < m) /\ k < m
    <3>1. j + 1 = k
      BY <1>1, <1>4, <1>9, <2>3
    <3>2. QED BY <2>3, <3>1
  <2>4. CASE ~(j < m) /\ ~(k < m)
    <3>1. j + 1 = k + 1
      BY <1>1, <1>4, <1>9, <2>4
    <3>2. QED BY <3>1
  <2>5. QED BY <2>1, <2>2, <2>3, <2>4
<1>10. hd1 = IF n - 1 = 0 THEN None ELSE p[1]
  <2>1. CASE m = 1
    <3>1. hd1 = IF n = 1 THEN None ELSE q[2]
      BY <1>3, <2>1
    <3>2. n # 1 => 1 \in 1..(n - 1) /\ ~(1 < m)
      BY <2>1
    <3>3. n # 1 => p[1] = q[2]
      <4>1. 1 + 1 = 2
        OBVIOUS
      <4>2. QED BY <1>4, <3>2, <4>1
    <3>4. QED BY <3>1, <3>3
  <2>2. CASE m # 1
    <3>1. m - 1 \in 1..n /\ 1 \in 1..(n - 1) /\ 1 < m /\ n - 1 # 0 /\ n # 0
      BY <2>2
    <3>2. hd1 = q[1]
      BY <1>1, <1>3, <1>5, <2>2, <3>1
    <3>3. QED BY <1>4, <3>1, <3>2
  <2>3. QED BY <2>1, <2>2
<1>11. ASSUME NEW k \in 1..(n - 1) PROVE nx1[p[k]] = IF k = n - 1 THEN None ELSE p[k + 1]
  <2>0. nx1[p[k]] = IF p[k] = pv[i] THEN nx[i] ELSE nx[p[k]]
    BY <1>6 DEF Cut
  <2>1. CASE k < m - 1
    <3>1. k \in 1..n /\ k # m - 1 /\ m # 1 /\ m - 1 \in 1..n /\ k # n /\ p[k] = q[k]
      BY <1>4, <2>1
    <3>2. p[k] # pv[i]
      BY <1>1, <1>3, <3>1
    <3>3. nx[p[k]] = q[k + 1]
      BY <1>1, <3>1
    <3>4. k # n - 1 /\ k + 1 \in 1..(n - 1) /\ k + 1 < m
      BY <2>1
    <3>5. p[k + 1] = q[k + 1]
      BY <1>4, <3>4
    <3>6. QED BY <2>0, <3>2, <3>3, <3>4, <3>5
  <2>2. CASE k = m - 1
    <3>1. p[k] = pv[i] /\ m # 1
      BY <1>3, <1>4, <2>2
    <3>2. m = n <=> k = n - 1
      BY <2>2
    <3>3. k # n - 1 => k + 1 \in 1..(n - 1) /\ ~(k + 1 < m) /\ k + 1 + 1 = m + 1
      BY <2>2
    <3>4. k # n - 1 => p[k + 1] = q[m + 1]
      BY <1>4, <3>3
    <3>5. QED BY <1>3, <2>0, <3>1, <3>2, <3>4
  <2>3. CASE ~(k < m)
    <3>1. p[k] = q[k + 1] /\ k + 1 \in 1..n /\ k + 1 # m - 1 /\ (m # 1 => m - 1 \in 1..n)
      BY <1>4, <2>3
    <3>2. p[k] # pv[i]
      BY <1>1, <1>3, <1>5, <3>1
    <3>3. nx[p[k]] = IF k + 1 = n THEN None ELSE q[k + 1 + 1]
      BY <1>1, <3>1
    <3>4. k + 1 = n <=> k = n - 1
      OBVIOUS
    <3>5. k # n - 1 => k + 1 \in 1..(n - 1) /\ ~(k + 1 < m)
      BY <2>3
    <3>6. k # n - 1 => p[k + 1] = q[k + 1 + 1]
      BY <1>4, <3>5
    <3>7. QED BY <2>0, <3>2, <3>3, <3>4, <3>6
  <2>4. k < m - 1 \/ k = m - 1 \/ ~(k < m)
    OBVIOUS
  <2>5. QED BY <2>1, <2>2, <2>3, <2>4
<1>12. ASSUME NEW k \in 1..(n - 1) PROVE pv1[p[k]] = IF k = 1 THEN None ELSE p[k - 1]
  <2>0. pv1[p[k]] = IF p[k] = nx[i] THEN pv[i] ELSE pv[p[k]]
    BY <1>6 DEF Cut
  <2>1. CASE k < m
    <3>1. k \in 1..n /\ p[k] = q[k] /\ k # m + 1 /\ (m # n => m + 1 \in 1..n)
      BY <1>4, <2>1
    <3>2. p[k] # nx[i]
      BY <1>1, <1>3, <1>5, <3>1
    <3>3. pv[p[k]] = IF k = 1 THEN None ELSE q[k - 1]
      BY <1>1, <3>1
    <3>4. k # 1 => k - 1 \in 1..(n - 1) /\ k - 1 < m
      BY <2>1
    <3>5. k # 1 => p[k - 1] = q[k - 1]
      BY <1>4, <3>4
    <3>6. QED BY <2>0, <3>2, <3>3, <3>5
  <2>2. CASE k = m
    <3>1. p[k] = q[m + 1] /\ m # n
      BY <1>4, <2>2
    <3>2. p[k] = nx[i]
      BY <1>3, <3>1
    <3>3. k # 1 => k - 1 \in 1..(n - 1) /\ k - 1 < m
      BY <2>2
    <3>4. k # 1 => p[k - 1] = q[m - 1]
      BY <1>4, <2>2, <3>3
    <3>5. QED BY <1>3, <2>0, <2>2, <3>2, <3>4
  <2>3. CASE m < k
    <3>1. p[k] = q[k + 1] /\ k + 1 \in 1..n /\ k + 1 # m + 1 /\ m + 1 \in 1..n /\ m # n
      BY <1>4, <2>3
    <3>2. p[k] # nx[i]
      BY <1>1, <1>3, <3>1
    <3>3. pv[p[k]] = q[k + 1 - 1]
      <4>1. k + 1 # 1
        OBVIOUS
      <4>2. QED BY <1>1, <3>1, <4>1
    <3>4. k # 1 /\ k - 1 \in 1..(n - 1) /\ ~(k - 1 < m) /\ k - 1 + 1 = k + 1 - 1
      BY <2>3
    <3>5. p[k - 1] = q[k + 1 - 1]
      BY <1>4, <3>4
    <3>6. QED BY <2>0, <3>2, <3>3, <3>4, <3>5
  <2>4. QED BY <2>1, <2>2, <2>3
<1>13. Lists(p, S \ {i}, nx1, pv1, hd1, n - 1)
  <2> HIDE DEF nx1, pv1, hd1
  <2>1. QED BY <1>7, <1>8, <1>9, <1>10, <1>11, <1>12 DEF Lists
<1>14. QED BY <1>13

-----------------------------------------------------------------------------
(* Counting.  A step changes what one thread and one connection have.      *)

One(b) == IF b THEN 1 ELSE 0

(* The references that t and the list of c have to i, and t has to c.      *)
Own(t, c, i) ==
  One(c \in Conn /\ i \in assigned[c]) + One(t \in Thread /\ i \in thr[t].held)
    + One(t \in Thread /\ thr[t].made = i) + One(t \in Thread /\ thr[t].mark = i)
Finding(t) == thr[t].pc \in {"look", "asked", "put"}
Uses(t, c) ==
  One(conn[c].listed) + One(t \in Thread /\ Ci(t) = c) + One(t \in Thread /\ Ci(t) = c /\ Finding(t))

LEMMA SameRest ==
  ASSUME NEW S, NEW T, IsFiniteSet(S), IsFiniteSet(T), NEW x, S \ {x} = T \ {x}
  PROVE  /\ Cardinality(S) \in Nat /\ Cardinality(T) \in Nat
         /\ Cardinality(S) >= One(x \in S)
         /\ Cardinality(T) = Cardinality(S) + One(x \in T) - One(x \in S)
<1>1. Cardinality(S) \in Nat /\ Cardinality(T) \in Nat
  BY FS_CardinalityType
<1>2. Cardinality(S \ {x}) = Cardinality(S) - One(x \in S)
  BY <1>1, FS_RemoveElement DEF One
<1>3. Cardinality(T \ {x}) = Cardinality(T) - One(x \in T)
  BY <1>1, FS_RemoveElement DEF One
<1>4. Cardinality(S) >= One(x \in S)
  <2>1. x \in S => Cardinality(S) # 0
    BY FS_EmptySet
  <2>2. QED BY <1>1, <2>1 DEF One
<1>5. One(x \in S) \in Int /\ One(x \in T) \in Int
  BY DEF One
<1>6. Cardinality(S \ {x}) = Cardinality(T \ {x})
  BY Zenon
<1>7. Cardinality(T) = Cardinality(S) + One(x \in T) - One(x \in S)
  BY <1>1, <1>2, <1>3, <1>5, <1>6
<1>8. QED BY <1>1, <1>4, <1>7

LEMMA Finite ==
  ASSUME LifecycleAssumption
  PROVE  /\ \A S \in SUBSET Thread : IsFiniteSet(S)
         /\ \A S \in SUBSET Conn : IsFiniteSet(S)
         /\ \A S \in SUBSET Inst : IsFiniteSet(S)
BY FS_Subset DEF LifecycleAssumption

(* A step changes what t and the list of c have of instances, no others,   *)
(* and the references by as much.                                          *)
Elsewhere(t, c) ==
  /\ \A u \in Thread \ {t} : thr'[u].held = thr[u].held /\ thr'[u].made = thr[u].made /\ thr'[u].mark = thr[u].mark
  /\ \A d \in Conn \ {c} : assigned'[d] = assigned[d]
Paid(t, c) == \A i \in Inst : inst'[i].refs = inst[i].refs + Own(t, c, i)' - Own(t, c, i)

LEMMA OwnedKept ==
  ASSUME LifecycleAssumption, Owned, NEW t, NEW c, Elsewhere(t, c), Paid(t, c)
  PROVE  Owned'
<1> USE DEF Elsewhere, Paid
<1> SUFFICES ASSUME NEW i \in Inst
             PROVE  inst'[i].refs =
                      Cardinality({d \in Conn : i \in assigned'[d]})
                        + Cardinality({u \in Thread : i \in thr'[u].held})
                        + Cardinality({u \in Thread : thr'[u].made = i})
                        + Cardinality({u \in Thread : thr'[u].mark = i})
  BY DEF Owned
<1> DEFINE A == {d \in Conn : i \in assigned[d]}
           H == {u \in Thread : i \in thr[u].held}
           M == {u \in Thread : thr[u].made = i}
           K == {u \in Thread : thr[u].mark = i}
           A1 == {d \in Conn : i \in assigned'[d]}
           H1 == {u \in Thread : i \in thr'[u].held}
           M1 == {u \in Thread : thr'[u].made = i}
           K1 == {u \in Thread : thr'[u].mark = i}
<1>1. IsFiniteSet(A) /\ IsFiniteSet(A1) /\ A \ {c} = A1 \ {c}
  <2>1. A \in SUBSET Conn /\ A1 \in SUBSET Conn
    OBVIOUS
  <2>2. QED BY <2>1, Finite
<1>2. IsFiniteSet(H) /\ IsFiniteSet(H1) /\ H \ {t} = H1 \ {t}
  <2>1. H \in SUBSET Thread /\ H1 \in SUBSET Thread
    OBVIOUS
  <2>2. QED BY <2>1, Finite
<1>3. IsFiniteSet(M) /\ IsFiniteSet(M1) /\ M \ {t} = M1 \ {t}
  <2>1. M \in SUBSET Thread /\ M1 \in SUBSET Thread
    OBVIOUS
  <2>2. QED BY <2>1, Finite
<1>4. IsFiniteSet(K) /\ IsFiniteSet(K1) /\ K \ {t} = K1 \ {t}
  <2>1. K \in SUBSET Thread /\ K1 \in SUBSET Thread
    OBVIOUS
  <2>2. QED BY <2>1, Finite
<1>5. /\ Own(t, c, i) = One(c \in A) + One(t \in H) + One(t \in M) + One(t \in K)
      /\ Own(t, c, i)' = One(c \in A1) + One(t \in H1) + One(t \in M1) + One(t \in K1)
  BY DEF Own
<1>6. inst[i].refs = Cardinality(A) + Cardinality(H) + Cardinality(M) + Cardinality(K)
  BY DEF Owned
<1> HIDE DEF A, H, M, K, A1, H1, M1, K1
<1>7. /\ Cardinality(A) \in Nat /\ Cardinality(H) \in Nat /\ Cardinality(M) \in Nat /\ Cardinality(K) \in Nat
      /\ Cardinality(A1) = Cardinality(A) + One(c \in A1) - One(c \in A)
      /\ Cardinality(H1) = Cardinality(H) + One(t \in H1) - One(t \in H)
      /\ Cardinality(M1) = Cardinality(M) + One(t \in M1) - One(t \in M)
      /\ Cardinality(K1) = Cardinality(K) + One(t \in K1) - One(t \in K)
  BY <1>1, <1>2, <1>3, <1>4, SameRest
<1>8. /\ One(c \in A) \in Int /\ One(t \in H) \in Int /\ One(t \in M) \in Int /\ One(t \in K) \in Int
      /\ One(c \in A1) \in Int /\ One(t \in H1) \in Int /\ One(t \in M1) \in Int /\ One(t \in K1) \in Int
  BY DEF One
<1>9. inst'[i].refs = inst[i].refs + Own(t, c, i)' - Own(t, c, i)
  OBVIOUS
<1>10. inst'[i].refs = Cardinality(A1) + Cardinality(H1) + Cardinality(M1) + Cardinality(K1)
  BY <1>5, <1>6, <1>7, <1>8, <1>9
<1>11. QED BY <1>10 DEF A1, H1, M1, K1

LEMMA UsedKept ==
  ASSUME LifecycleAssumption, Used, NEW t,
         \A u \in Thread \ {t} : thr'[u].ci = thr[u].ci /\ thr'[u].pc = thr[u].pc,
         \A c \in Conn : conn'[c].refs = conn[c].refs + Uses(t, c)' - Uses(t, c)
  PROVE  Used'
<1> SUFFICES ASSUME NEW c \in Conn
             PROVE  conn'[c].refs =
                      (IF conn'[c].listed THEN 1 ELSE 0)
                        + Cardinality({u \in Thread : Ci(u)' = c})
                        + Cardinality({u \in Thread : Ci(u)' = c /\ thr'[u].pc \in {"look", "asked", "put"}})
  BY DEF Used
<1> DEFINE H == {u \in Thread : Ci(u) = c}
           M == {u \in Thread : Ci(u) = c /\ thr[u].pc \in {"look", "asked", "put"}}
           H1 == {u \in Thread : Ci(u)' = c}
           M1 == {u \in Thread : Ci(u)' = c /\ thr'[u].pc \in {"look", "asked", "put"}}
<1>1. IsFiniteSet(H) /\ IsFiniteSet(H1) /\ H \ {t} = H1 \ {t}
  <2>1. H \in SUBSET Thread /\ H1 \in SUBSET Thread
    OBVIOUS
  <2>2. QED BY <2>1, Finite DEF Ci
<1>2. IsFiniteSet(M) /\ IsFiniteSet(M1) /\ M \ {t} = M1 \ {t}
  <2>1. M \in SUBSET Thread /\ M1 \in SUBSET Thread
    OBVIOUS
  <2>2. QED BY <2>1, Finite DEF Ci
<1>3. /\ Uses(t, c) = One(conn[c].listed) + One(t \in H) + One(t \in M)
      /\ Uses(t, c)' = One(conn'[c].listed) + One(t \in H1) + One(t \in M1)
  BY DEF Uses, Finding
<1>4. conn[c].refs = One(conn[c].listed) + Cardinality(H) + Cardinality(M)
  BY DEF Used, One
<1> HIDE DEF H, M, H1, M1
<1>5. /\ Cardinality(H) \in Nat /\ Cardinality(M) \in Nat
      /\ Cardinality(H1) = Cardinality(H) + One(t \in H1) - One(t \in H)
      /\ Cardinality(M1) = Cardinality(M) + One(t \in M1) - One(t \in M)
  BY <1>1, <1>2, SameRest
<1>6. /\ One(conn[c].listed) \in Int /\ One(t \in H) \in Int /\ One(t \in M) \in Int
      /\ One(conn'[c].listed) \in Int /\ One(t \in H1) \in Int /\ One(t \in M1) \in Int
  BY DEF One
<1>7. conn'[c].refs = One(conn'[c].listed) + Cardinality(H1) + Cardinality(M1)
  BY <1>3, <1>4, <1>5, <1>6
<1>8. QED BY <1>7 DEF H1, M1, One

LEMMA AtLeast ==
  ASSUME LifecycleAssumption, Owned, Used, NEW t, NEW c
  PROVE  /\ \A i \in Inst : inst[i].refs \in Nat /\ inst[i].refs >= Own(t, c, i)
         /\ c \in Conn => conn[c].refs \in Nat /\ conn[c].refs >= Uses(t, c)
<1>1. ASSUME NEW i \in Inst PROVE inst[i].refs \in Nat /\ inst[i].refs >= Own(t, c, i)
  <2> DEFINE A == {d \in Conn : i \in assigned[d]}
             H == {u \in Thread : i \in thr[u].held}
             M == {u \in Thread : thr[u].made = i}
             K == {u \in Thread : thr[u].mark = i}
  <2>1. A \in SUBSET Conn /\ H \in SUBSET Thread /\ M \in SUBSET Thread /\ K \in SUBSET Thread
    OBVIOUS
  <2>2. IsFiniteSet(A) /\ IsFiniteSet(H) /\ IsFiniteSet(M) /\ IsFiniteSet(K)
    BY <2>1, Finite
  <2>3. Own(t, c, i) = One(c \in A) + One(t \in H) + One(t \in M) + One(t \in K)
    BY DEF Own
  <2>4. inst[i].refs = Cardinality(A) + Cardinality(H) + Cardinality(M) + Cardinality(K)
    BY DEF Owned
  <2> HIDE DEF A, H, M, K
  <2>5. /\ Cardinality(A) \in Nat /\ Cardinality(A) >= One(c \in A)
        /\ Cardinality(H) \in Nat /\ Cardinality(H) >= One(t \in H)
        /\ Cardinality(M) \in Nat /\ Cardinality(M) >= One(t \in M)
        /\ Cardinality(K) \in Nat /\ Cardinality(K) >= One(t \in K)
    BY <2>2, SameRest
  <2>6. One(c \in A) \in Int /\ One(t \in H) \in Int /\ One(t \in M) \in Int /\ One(t \in K) \in Int
    BY DEF One
  <2>7. QED BY <2>3, <2>4, <2>5, <2>6
<1>2. ASSUME c \in Conn PROVE conn[c].refs \in Nat /\ conn[c].refs >= Uses(t, c)
  <2> DEFINE H == {u \in Thread : Ci(u) = c}
             M == {u \in Thread : Ci(u) = c /\ thr[u].pc \in {"look", "asked", "put"}}
  <2>1. H \in SUBSET Thread /\ M \in SUBSET Thread
    OBVIOUS
  <2>2. IsFiniteSet(H) /\ IsFiniteSet(M)
    BY <2>1, Finite
  <2>3. Uses(t, c) = One(conn[c].listed) + One(t \in H) + One(t \in M)
    BY DEF Uses, Finding
  <2>4. conn[c].refs = One(conn[c].listed) + Cardinality(H) + Cardinality(M)
    BY <1>2 DEF Used, One
  <2> HIDE DEF H, M
  <2>5. /\ Cardinality(H) \in Nat /\ Cardinality(H) >= One(t \in H)
        /\ Cardinality(M) \in Nat /\ Cardinality(M) >= One(t \in M)
    BY <2>2, SameRest
  <2>6. One(conn[c].listed) \in 0..1 /\ One(t \in H) \in Int /\ One(t \in M) \in Int
    BY DEF One
  <2>7. QED BY <2>3, <2>4, <2>5, <2>6
<1>3. QED BY <1>1, <1>2

(* Who has an instance or a connection keeps it alive.                     *)
LEMMA Holding ==
  ASSUME LifecycleAssumption, TypeOK, Owned, Used
  PROVE  /\ \A c \in Conn : assigned[c] \subseteq Live
         /\ \A t \in Thread : thr[t].held \subseteq Live
         /\ \A t \in Thread : thr[t].made # None => thr[t].made \in Live
         /\ \A t \in Thread : thr[t].mark # None => thr[t].mark \in Live
         /\ \A t \in Thread : Ci(t) \in Conn => conn[Ci(t)].refs > 0
<1>1. ASSUME NEW c \in Conn, NEW i \in assigned[c] PROVE i \in Live
  <2>1. i \in Inst
    BY DEF TypeOK
  <2>2. Own(None, c, i) >= 1
    BY DEF Own, One
  <2>3. inst[i].refs \in Nat /\ inst[i].refs >= Own(None, c, i) /\ Own(None, c, i) \in Int
    <3>1. inst[i].refs \in Nat /\ inst[i].refs >= Own(None, c, i)
      BY <2>1, AtLeast
    <3>2. Own(None, c, i) \in Int
      BY DEF Own, One
    <3>3. QED BY <3>1, <3>2
  <2>4. QED BY <2>1, <2>2, <2>3 DEF Live
<1>2. ASSUME NEW t \in Thread, NEW i \in Inst, i \in thr[t].held \/ thr[t].made = i \/ thr[t].mark = i
      PROVE  i \in Live
  <2>1. Own(t, None, i) >= 1
    BY <1>2 DEF Own, One
  <2>2. inst[i].refs \in Nat /\ inst[i].refs >= Own(t, None, i) /\ Own(t, None, i) \in Int
    BY AtLeast DEF Own, One
  <2>3. QED BY <2>1, <2>2 DEF Live
<1>3. ASSUME NEW t \in Thread, Ci(t) \in Conn PROVE conn[Ci(t)].refs > 0
  <2>1. Uses(t, Ci(t)) \in Int /\ Uses(t, Ci(t)) >= 1
    BY DEF Uses, One
  <2>2. QED BY <1>3, <2>1, AtLeast
<1>4. \A t \in Thread : thr[t].held \in SUBSET Inst /\ thr[t].made \in Inst \cup {None} /\ thr[t].mark \in Inst \cup {None}
  BY DEF TypeOK, ThreadType
<1>5. QED BY <1>1, <1>2, <1>3, <1>4

-----------------------------------------------------------------------------
(* What taking and giving back references, and a new instance, do to the   *)
(* instances, the list and the counts.                                     *)

InstTypes ==
  /\ inst \in [Inst -> [type : 0..(Types - 1), refs : Int]]
  /\ next \in [Inst -> Inst \cup {None}] /\ prev \in [Inst -> Inst \cup {None}]
  /\ head \in Inst \cup {None} /\ count \in Int
  /\ defaults \in Int
InstOK == InstTypes /\ ListOK /\ Allocated

(* The type of an instance in use never changes.                           *)
Stable == \A i \in Live : Ty(i)' = Ty(i)

LEMMA RefKeeps ==
  ASSUME LifecycleAssumption, InstOK, NEW S \in SUBSET Live, Ref(S),
         UNCHANGED <<links, defaults>>
  PROVE  /\ InstOK' /\ Stable
         /\ \A i \in Inst : inst'[i].refs = inst[i].refs + One(i \in S) /\ Ty(i)' = Ty(i)
<1>1. \A i \in Inst : inst[i] \in [type : 0..(Types - 1), refs : Int]
  BY DEF InstOK, InstTypes
<1>2. /\ inst' \in [Inst -> [type : 0..(Types - 1), refs : Int]]
      /\ \A i \in Inst : inst'[i].refs = inst[i].refs + One(i \in S) /\ inst'[i].type = inst[i].type
  BY <1>1 DEF Ref, One, Live
<1>3. Live' = Live
  <2>1. \A i \in Inst : inst'[i].refs > 0 <=> inst[i].refs > 0
    BY <1>1, <1>2 DEF Live, One
  <2>2. QED BY <2>1 DEF Live
<1>4. \A y : OfType(Live, y)' = OfType(Live, y)
  BY <1>2, <1>3 DEF OfType, Live
<1>5. Marks' = Marks /\ OfType(Live, 0)' = OfType(Live, 0)
  BY <1>4 DEF Marks
<1>6. UNCHANGED <<next, prev, head, count, defaults>>
  BY DEF links
<1>7. ListOK' /\ Allocated'
  BY <1>5, <1>6 DEF InstOK, ListOK, Allocated
<1>8. InstTypes'
  BY <1>2, <1>6 DEF InstOK, InstTypes
<1>9. Stable
  BY <1>2 DEF Stable, Live, Ty
<1>10. QED BY <1>2, <1>7, <1>8, <1>9 DEF InstOK, Ty

LEMMA DerefKeeps ==
  ASSUME LifecycleAssumption, InstOK, NEW S \in SUBSET Live,
         \A i, j \in S : Ty(i) = Ty(j) => i = j,
         Deref(S)
  PROVE  /\ InstOK' /\ Stable
         /\ \A i \in Inst : inst'[i].refs = inst[i].refs - One(i \in S) /\ Ty(i)' = Ty(i)
<1> DEFINE final == {i \in S : inst[i].refs = 1}
           F == OfType(final, MARK)
           D == OfType(final, 0)
<1>0. None \notin Inst /\ Live \in SUBSET Inst /\ final \in SUBSET Live /\ final \in SUBSET Inst
  BY DEF LifecycleAssumption, Live
<1>1. \A i \in Inst : inst[i] \in [type : 0..(Types - 1), refs : Int]
  BY DEF InstOK, InstTypes
<1>2. /\ inst' \in [Inst -> [type : 0..(Types - 1), refs : Int]]
      /\ \A i \in Inst : inst'[i].refs = inst[i].refs - One(i \in S) /\ inst'[i].type = inst[i].type
  BY <1>1 DEF Deref, One, Live
<1>3. Live' = Live \ final
  <2>1. ASSUME NEW i \in Inst PROVE inst'[i].refs > 0 <=> i \in Live /\ i \notin final
    BY <1>1, <1>2 DEF Live, One
  <2>2. QED BY <2>1 DEF Live
<1>4. \A y : OfType(Live, y)' = OfType(Live, y) \ OfType(final, y)
  BY <1>2, <1>3 DEF OfType, Live
<1>5. Allocated'
  <2>1. OfType(Live, 0)' = OfType(Live, 0) \ D
    BY <1>4
  <2>2. OfType(Live, 0) \in SUBSET Inst /\ D \in SUBSET Inst /\ OfType(Live, 0) \cap D = D
    BY <1>0 DEF OfType
  <2>3. /\ IsFiniteSet(OfType(Live, 0)) /\ IsFiniteSet(D)
        /\ Cardinality(OfType(Live, 0)) \in Nat /\ Cardinality(D) \in Nat
    BY <2>2, Finite, FS_CardinalityType
  <2> HIDE DEF D
  <2>4. Cardinality(OfType(Live, 0) \ D) = Cardinality(OfType(Live, 0)) - Cardinality(D)
    BY <2>2, <2>3, FS_Difference
  <2>5. defaults' = defaults - Cardinality(D)
    BY DEF Deref, D
  <2>6. defaults = Cardinality(OfType(Live, 0))
    BY DEF InstOK, Allocated
  <2>7. defaults' = Cardinality(OfType(Live, 0)')
    BY <2>1, <2>4, <2>5, <2>6
  <2>8. QED BY <2>7 DEF Allocated
<1>6. InstTypes' /\ ListOK'
  <2>0. /\ Marks' = Marks \ F /\ F \in SUBSET Marks /\ Marks \in SUBSET Inst
        /\ defaults' \in Int
    <3>1. Marks' = Marks \ F /\ F \in SUBSET Marks /\ Marks \in SUBSET Inst
      BY <1>0, <1>4 DEF Marks, OfType
    <3>2. D \in SUBSET Inst
      BY <1>0 DEF OfType
    <3>3. Cardinality(D) \in Nat
      BY <3>2, Finite, FS_CardinalityType
    <3>4. defaults' = defaults - Cardinality(D)
      BY DEF Deref
    <3> HIDE DEF D
    <3>5. QED BY <3>1, <3>3, <3>4 DEF InstOK, InstTypes
  <2>1. CASE F = {}
    <3>1. UNCHANGED <<next, prev, head, count>>
      BY <2>1 DEF Deref, links
    <3>2. Marks' = Marks
      BY <2>0, <2>1
    <3>3. ListOK'
      BY <3>1, <3>2 DEF InstOK, ListOK
    <3>4. InstTypes'
      BY <1>2, <2>0, <3>1 DEF InstOK, InstTypes
    <3>5. QED BY <3>3, <3>4
  <2>2. CASE F # {}
    <3> DEFINE m == CHOOSE i \in F : TRUE
    <3>1. m \in F /\ Unlinked(m)
      BY <2>2 DEF Deref
    <3> HIDE DEF m
    <3>2. \A i \in F : i = m
      BY <3>1 DEF OfType, Ty
    <3>3. Marks' = Marks \ {m} /\ m \in Marks /\ m \in Inst
      BY <2>0, <3>1, <3>2
    <3>4. PICK q : Lists(q, Marks, next, prev, head, count)
      BY DEF InstOK, ListOK
    <3>5. count = Cardinality(Marks) /\ IsFiniteSet(Marks) /\ count \in Nat
      BY <2>0, Finite, FS_CardinalityType DEF InstOK, ListOK
    <3>6. /\ next \in [Inst -> Inst \cup {None}] /\ prev \in [Inst -> Inst \cup {None}]
          /\ head \in Inst \cup {None}
      BY DEF InstOK, InstTypes
    <3>7. /\ next' = [j \in Inst |-> IF j = m THEN None ELSE IF j = prev[m] THEN next[m] ELSE next[j]]
          /\ prev' = [j \in Inst |-> IF j = m THEN None ELSE IF j = next[m] THEN prev[m] ELSE prev[j]]
          /\ head' = IF prev[m] = None THEN next[m] ELSE head
          /\ count' = count - 1
      BY <3>1, <3>3, <3>6 DEF Unlinked
    <3>8. \E p : Lists(p, Marks \ {m}, next', prev', head', count')
      <4>1. None \notin Inst /\ Marks \in SUBSET Inst /\ count \in Nat /\ m \in Marks
        BY <1>0, <2>0, <3>3, <3>5
      <4>2. \E p : Lists(p, Marks \ {m}, Cut(next, m, prev[m], next[m]), Cut(prev, m, next[m], prev[m]),
                         IF prev[m] = None THEN next[m] ELSE head, count - 1)
        BY <3>4, <3>6, <4>1, UnlinkedLists
      <4>3. next' = Cut(next, m, prev[m], next[m]) /\ prev' = Cut(prev, m, next[m], prev[m])
        BY <3>7 DEF Cut
      <4>4. QED BY <3>7, <4>2, <4>3
    <3>9. count' = Cardinality(Marks \ {m})
      BY <3>3, <3>5, <3>7, FS_RemoveElement
    <3>10. ASSUME NEW i \in Inst \ (Marks \ {m}) PROVE next'[i] = None /\ prev'[i] = None
      <4>1. CASE i = m
        BY <3>7, <4>1
      <4>2. CASE i # m
        <5>1. i \notin Marks /\ next[i] = None /\ prev[i] = None
          BY <4>2 DEF InstOK, ListOK
        <5>2. (\E k \in 1..count : q[k] = m) /\ \A k \in 1..count : q[k] \in Marks
          BY <3>3, <3>4 DEF Lists
        <5>3. PICK k \in 1..count : q[k] = m
          BY <5>2
        <5>4. (next[m] = None \/ next[m] \in Marks) /\ (prev[m] = None \/ prev[m] \in Marks)
          <6>1. next[m] = (IF k = count THEN None ELSE q[k + 1]) /\ prev[m] = IF k = 1 THEN None ELSE q[k - 1]
            BY <3>4, <5>3 DEF Lists
          <6>2. (k # count => k + 1 \in 1..count) /\ (k # 1 => k - 1 \in 1..count)
            BY <3>5
          <6>3. QED BY <5>2, <6>1, <6>2
        <5>5. i # next[m] /\ i # prev[m]
          BY <1>0, <5>1, <5>4
        <5>6. QED BY <3>7, <4>2, <5>1, <5>5
      <4>3. QED BY <4>1, <4>2
    <3>11. ListOK'
      BY <3>3, <3>8, <3>9, <3>10 DEF ListOK
    <3>12. InstTypes'
      <4>1. /\ next' \in [Inst -> Inst \cup {None}] /\ prev' \in [Inst -> Inst \cup {None}]
            /\ head' \in Inst \cup {None} /\ count' \in Int
        BY <3>3, <3>5, <3>6, <3>7
      <4>2. QED BY <1>2, <2>0, <4>1 DEF InstTypes
    <3>13. QED BY <3>11, <3>12
  <2>3. QED BY <2>1, <2>2
<1>7. Stable
  BY <1>0, <1>2 DEF Stable, Ty
<1>8. QED BY <1>2, <1>5, <1>6, <1>7 DEF InstOK, Ty

(* A new instance: of type DEFAULT, of MARK, which is linked, or another.  *)
LEMMA FreshKeeps ==
  ASSUME LifecycleAssumption, InstOK, NEW i \in Fresh, NEW y \in 0..(Types - 1),
         inst' = [inst EXCEPT ![i] = [type |-> y, refs |-> 1]],
         IF y = MARK THEN Linked(i) ELSE UNCHANGED links,
         defaults' = defaults + One(y = 0)
  PROVE  /\ i \in Inst \ Live /\ InstOK' /\ Stable
         /\ Ty(i)' = y /\ inst'[i].refs = 1
         /\ \A j \in Inst \ {i} : inst'[j] = inst[j]
<1>0. i \in Inst \ Live /\ None \notin Inst /\ MARK \in Int /\ MARK # 0
  BY DEF Fresh, LifecycleAssumption
<1>1. \A j \in Inst : inst[j] \in [type : 0..(Types - 1), refs : Int]
  BY DEF InstOK, InstTypes
<1>2. /\ inst' \in [Inst -> [type : 0..(Types - 1), refs : Int]]
      /\ inst'[i].type = y /\ inst'[i].refs = 1
      /\ \A j \in Inst \ {i} : inst'[j] = inst[j]
  BY <1>0, <1>1 DEF InstOK, InstTypes
<1>3. Live' = Live \cup {i}
  <2>1. \A j \in Inst : inst'[j].refs > 0 <=> j \in Live \/ j = i
    BY <1>0, <1>2 DEF Live
  <2>2. QED BY <1>0, <2>1 DEF Live
<1>4. ASSUME NEW z PROVE OfType(Live, z)' = IF y = z THEN OfType(Live, z) \cup {i} ELSE OfType(Live, z)
  BY <1>0, <1>2, <1>3 DEF OfType, Live
<1>5. Allocated'
  <2>1. OfType(Live, 0) \in SUBSET Inst /\ i \notin OfType(Live, 0)
    BY <1>0 DEF OfType, Live
  <2>2. /\ IsFiniteSet(OfType(Live, 0)) /\ Cardinality(OfType(Live, 0)) \in Nat
    BY <2>1, Finite, FS_CardinalityType
  <2>3. Cardinality(OfType(Live, 0)') = Cardinality(OfType(Live, 0)) + One(y = 0)
    <3>1. CASE y = 0
      <4>1. OfType(Live, 0)' = OfType(Live, 0) \cup {i}
        BY <1>4, <3>1
      <4>2. QED BY <2>1, <2>2, <3>1, <4>1, FS_AddElement DEF One
    <3>2. CASE y # 0
      <4>1. OfType(Live, 0)' = OfType(Live, 0)
        BY <1>4, <3>2
      <4>2. QED BY <2>2, <3>2, <4>1 DEF One
    <3>3. QED BY <3>1, <3>2
  <2>4. QED BY <2>3 DEF InstOK, Allocated
<1>6. defaults' \in Int
  BY DEF InstOK, InstTypes, One
<1>7. InstTypes' /\ ListOK'
  <2>1. CASE y # MARK
    <3>1. UNCHANGED <<next, prev, head, count>>
      BY <2>1 DEF links
    <3>2. Marks' = Marks
      BY <1>4, <2>1 DEF Marks
    <3>3. ListOK'
      BY <3>1, <3>2 DEF InstOK, ListOK
    <3>4. InstTypes'
      BY <1>2, <1>6, <3>1 DEF InstOK, InstTypes
    <3>5. QED BY <3>3, <3>4
  <2>2. CASE y = MARK
    <3>1. Marks' = Marks \cup {i} /\ Marks \in SUBSET Inst /\ i \in Inst \ Marks
      BY <1>0, <1>4, <2>2 DEF Marks, OfType, Live
    <3>2. /\ next \in [Inst -> Inst \cup {None}] /\ prev \in [Inst -> Inst \cup {None}]
          /\ head \in Inst \cup {None}
      BY DEF InstOK, InstTypes
    <3>3. PICK q : Lists(q, Marks, next, prev, head, count)
      BY DEF InstOK, ListOK
    <3>4. count = Cardinality(Marks) /\ IsFiniteSet(Marks) /\ count \in Nat
      BY <3>1, Finite, FS_CardinalityType DEF InstOK, ListOK
    <3>5. prev[i] = None /\ next[i] = None
      BY <3>1 DEF InstOK, ListOK
    <3>6. /\ next' = [next EXCEPT ![i] = head]
          /\ prev' = IF head = None THEN prev ELSE [prev EXCEPT ![head] = i]
          /\ head' = i /\ count' = count + 1
      BY <2>2 DEF Linked
    <3>7. \E p : Lists(p, Marks \cup {i}, [next EXCEPT ![i] = head],
                       IF head = None THEN prev ELSE [prev EXCEPT ![head] = i], i, count + 1)
      BY <1>0, <3>1, <3>2, <3>3, <3>4, <3>5, LinkedLists
    <3>8. \E p : Lists(p, Marks', next', prev', head', count')
      BY <3>1, <3>6, <3>7
    <3>9. count' = Cardinality(Marks')
      BY <3>1, <3>4, <3>6, FS_AddElement
    <3>10. ASSUME NEW j \in Inst \ Marks' PROVE next'[j] = None /\ prev'[j] = None
      <4>1. j # i /\ j \notin Marks /\ next[j] = None /\ prev[j] = None
        BY <3>1, <3>10 DEF InstOK, ListOK
      <4>2. head = None \/ head \in Marks
        <5>1. head = IF count = 0 THEN None ELSE q[1]
          BY <3>3 DEF Lists
        <5>2. count # 0 => 1 \in 1..count
          BY <3>4
        <5>3. \A k \in 1..count : q[k] \in Marks
          BY <3>3 DEF Lists
        <5>4. QED BY <5>1, <5>2, <5>3
      <4>3. QED BY <3>2, <3>6, <4>1, <4>2
    <3>11. ListOK'
      BY <3>8, <3>9, <3>10 DEF ListOK
    <3>12. InstTypes'
      <4>1. /\ next' \in [Inst -> Inst \cup {None}] /\ prev' \in [Inst -> Inst \cup {None}]
            /\ head' \in Inst \cup {None} /\ count' \in Int
        BY <1>0, <3>2, <3>4, <3>6
      <4>2. QED BY <1>2, <1>6, <4>1 DEF InstTypes
    <3>13. QED BY <3>11, <3>12
  <2>3. QED BY <2>1, <2>2
<1>8. Stable
  BY <1>0, <1>2 DEF Stable, Ty, Live
<1>9. QED BY <1>0, <1>2, <1>5, <1>7, <1>8 DEF InstOK, Ty

LEMMA StillKeeps ==
  ASSUME InstOK, UNCHANGED <<inst, links, defaults>>
  PROVE  InstOK' /\ Stable /\ inst' = inst
<1>1. UNCHANGED <<inst, next, prev, head, count, defaults>>
  BY DEF links
<1>2. Marks' = Marks /\ OfType(Live, 0)' = OfType(Live, 0)
  BY <1>1 DEF Marks, OfType, Live
<1>3. ListOK'
  BY <1>1, <1>2 DEF InstOK, ListOK
<1>4. Allocated'
  BY <1>1, <1>2 DEF InstOK, Allocated
<1>5. InstTypes'
  BY <1>1 DEF InstOK, InstTypes
<1>6. QED BY <1>1, <1>3, <1>4, <1>5 DEF InstOK, Stable, Ty

LEMMA SameKeeps ==
  ASSUME InstOK, UNCHANGED classifiers
  PROVE  InstOK' /\ Stable /\ inst' = inst
<1>1. UNCHANGED <<inst, links, defaults>>
  BY DEF classifiers, memory
<1>2. QED BY <1>1, StillKeeps

-----------------------------------------------------------------------------
(* What a step leaves alone.                                               *)

ThreadOK(t) == PcOK(t) /\ NewOK(t) /\ WalkOK(t) /\ FullOK(t)

LEMMA GoneOnly ==
  ASSUME NEW r \in ThreadType, NEW s, s = r \/ s = [r EXCEPT !.gone = TRUE]
  PROVE  /\ s \in ThreadType
         /\ s.pc = r.pc /\ s.ci = r.ci /\ s.held = r.held /\ s.arr = r.arr /\ s.i = r.i
         /\ s.type = r.type /\ s.full = r.full /\ s.made = r.made /\ s.mark = r.mark
         /\ s.gone = r.gone \/ s.gone
<1>1. CASE s = r
  BY <1>1
<1>2. CASE s = [r EXCEPT !.gone = TRUE]
  BY <1>2 DEF ThreadType
<1>3. QED BY <1>1, <1>2

(* The other threads: nobody else begins to walk where one walks, nobody   *)
(* comes to a connection that is being made, and a walk whose connection   *)
(* loses a classifier is told so.                                          *)
LEMMA Others ==
  ASSUME LifecycleAssumption, IInv, Stable, NEW t,
         \A u \in Thread \ {t} : thr'[u] = thr[u] \/ thr'[u] = [thr[u] EXCEPT !.gone = TRUE],
         \A u \in Thread \ {t} : At(u, "idle") => thr'[u] = thr[u],
         \A u \in Thread \ {t} : Walking(u) =>
           \/ assigned'[Ci(u)] = assigned[Ci(u)]
           \/ assigned'[Ci(u)] \subseteq assigned[Ci(u)] /\ thr'[u].gone,
         \A u \in Thread \ {t} : Newborn(u) =>
           /\ assigned'[Ci(u)] = assigned[Ci(u)] /\ ~conn'[Ci(u)].listed
           /\ thr'[u] = thr[u]
           /\ t \in Thread => Ci(t)' # Ci(u),
         \A u \in Thread \ {t} : Walking(u) /\ t \in Thread /\ Walking(t)' => Ci(t)' # Ci(u)
  PROVE  \A u \in Thread \ {t} : ThreadOK(u)'
<1> SUFFICES ASSUME NEW u \in Thread, u # t PROVE ThreadOK(u)'
  OBVIOUS
<1>1. ThreadOK(u) /\ thr[u] \in ThreadType
  BY DEF IInv, ThreadOK, TypeOK
<1>2. /\ thr'[u].pc = thr[u].pc /\ thr'[u].ci = thr[u].ci /\ thr'[u].held = thr[u].held
      /\ thr'[u].arr = thr[u].arr /\ thr'[u].i = thr[u].i /\ thr'[u].type = thr[u].type
      /\ thr'[u].full = thr[u].full /\ thr'[u].made = thr[u].made /\ thr'[u].mark = thr[u].mark
      /\ thr'[u].gone = thr[u].gone \/ thr'[u].gone
  <2>1. thr[u] \in ThreadType /\ (thr'[u] = thr[u] \/ thr'[u] = [thr[u] EXCEPT !.gone = TRUE])
    BY <1>1
  <2>2. QED BY <2>1, GoneOnly
<1>3. \A w \in Thread \ {u, t} : thr'[w].pc = thr[w].pc /\ thr'[w].ci = thr[w].ci
  <2> TAKE w \in Thread \ {u, t}
  <2>1. thr[w] \in ThreadType
    BY DEF IInv, TypeOK
  <2>2. QED BY <2>1, GoneOnly
<1>4. Owned /\ Used /\ TypeOK
  BY DEF IInv
<1>5. /\ \A c \in Conn : assigned[c] \subseteq Live
      /\ thr[u].held \subseteq Live /\ (thr[u].made # None => thr[u].made \in Live)
  BY <1>4, Holding
<1>6. \A i \in Live : Ty(i)' = Ty(i)
  BY DEF Stable
<1>7. Walking(u)' <=> Walking(u)
  BY <1>2 DEF Walking
<1>8. \A pc : At(u, pc)' <=> At(u, pc)
  BY <1>2 DEF At
<1>9. Ci(u)' = Ci(u) /\ (Walking(u) \/ Newborn(u) => Ci(u) \in Conn)
  <2>1. Walking(u) \/ Newborn(u) => ~At(u, "idle")
    BY DEF Walking, Newborn, At
  <2>2. ~At(u, "idle") => Ci(u) \in Conn
    BY <1>1 DEF ThreadOK, PcOK
  <2>3. QED BY <1>2, <2>1, <2>2 DEF Ci
<1>10. PcOK(u)'
  <2>1. At(u, "idle") => thr'[u] = Idle
    <3> SUFFICES ASSUME At(u, "idle") PROVE thr'[u] = Idle
      OBVIOUS
    <3>1. thr[u] = Idle
      BY <1>1 DEF ThreadOK, PcOK
    <3>2. QED BY <3>1
  <2>2. QED BY <1>1, <1>2, <1>8, <1>9, <2>1 DEF ThreadOK, PcOK
<1>11. NewOK(u)'
  <2>1. Newborn(u)' <=> Newborn(u)
    BY <1>2, <1>7 DEF Newborn
  <2> SUFFICES ASSUME Newborn(u) PROVE NewOK(u)'
    BY <2>1 DEF NewOK
  <2>2. /\ ~conn[Ci(u)].listed
        /\ \A w \in Thread \ {u} : Ci(w) # Ci(u)
        /\ thr[u].pc \in {"default", "tracker", "tracked"} => thr[u] = [Idle EXCEPT !.pc = thr[u].pc, !.ci = Ci(u)]
        /\ thr[u].pc \in {"default", "tracker", "tracked", "drop"} => assigned[Ci(u)] = {}
        /\ thr[u].pc \in {"walk", "built", "assigned"} => Has(Ci(u), 0)
        /\ At(u, "made") => thr[u].type = 0 \/ Has(Ci(u), 0)
    BY <1>1 DEF ThreadOK, NewOK
  <2>3. thr'[u] = thr[u] /\ assigned'[Ci(u)] = assigned[Ci(u)] /\ ~conn'[Ci(u)].listed
    OBVIOUS
  <2>4. \A w \in Thread \ {u} : Ci(w)' # Ci(u)
    BY <1>3, <2>2 DEF Ci
  <2>5. Has(Ci(u), 0) => Has(Ci(u), 0)'
    BY <1>5, <1>6, <1>9, <2>3 DEF Has
  <2>6. QED BY <1>2, <1>8, <1>9, <2>2, <2>3, <2>4, <2>5 DEF NewOK
<1>12. ASSUME Walking(u) PROVE WalkOK(u)' /\ FullOK(u)'
  <2> DEFINE r == thr[u]
  <2>1. /\ \A w \in Thread \ {u} : Walking(w) => Ci(w) # Ci(u)
        /\ \A k \in 1..Len(r.arr) : r.arr[k] \in r.held
        /\ Covers(r.held, r.arr) /\ Ascends(r.arr)
        /\ InStep(r)
        /\ ~At(u, "walk") => /\ ~Same(u) /\ r.type < Types
                             /\ IF At(u, "built") THEN r.type # 0 ELSE Ty(r.made) = r.type
        /\ \A a \in assigned[Ci(u)] \ r.held : Ty(a) < r.type \/ (At(u, "assigned") /\ a = r.made)
    BY <1>1, <1>12 DEF ThreadOK, WalkOK
  <2>2. \A k \in 1..Len(r.arr) : Ty(r.arr[k])' = Ty(r.arr[k])
    BY <1>2, <1>5, <1>6, <2>1 DEF Ty
  <2>3. \A w \in Thread \ {u} : Walking(w)' => Ci(w)' # Ci(u)
    BY <1>3, <1>12, <2>1 DEF Ci, Walking
  <2>4. Ascends(r.arr)'
    BY <1>2, <2>1, <2>2 DEF Ascends
  <2>5. InStep(r)'
    BY <1>2, <2>1, <2>2 DEF InStep
  <2>6. ~At(u, "walk") => ~Same(u)' /\ (At(u, "built") \/ Ty(r.made)' = Ty(r.made))
    <3> SUFFICES ASSUME ~At(u, "walk") PROVE ~Same(u)' /\ (At(u, "built") \/ Ty(r.made)' = Ty(r.made))
      OBVIOUS
    <3>1. At(u, "built") \/ r.made # None
      BY <1>1, <1>12 DEF ThreadOK, PcOK, Walking, At
    <3>2. At(u, "built") \/ Ty(r.made)' = Ty(r.made)
      BY <1>2, <1>5, <1>6, <3>1 DEF Ty
    <3>3. r.i \in 1..(Len(r.arr) + 1) /\ Len(r.arr) \in Nat
      BY <1>1, <2>1 DEF InStep, ThreadType
    <3>4. More(u) => r.i \in 1..Len(r.arr)
      BY <3>3 DEF More
    <3>5. QED BY <1>2, <2>1, <2>2, <3>2, <3>4 DEF Same, More, Ty
  <2>7. assigned'[Ci(u)] \subseteq assigned[Ci(u)] /\ \A a \in assigned'[Ci(u)] : Ty(a)' = Ty(a)
    BY <1>5, <1>6, <1>9, <1>12
  <2>8. r'.type = r.type /\ r'.held = r.held /\ r'.arr = r.arr /\ r'.made = r.made
    BY <1>2
  <2>9. \A a \in assigned'[Ci(u)] \ r.held : Ty(a)' < r.type \/ (At(u, "assigned") /\ a = r.made)
    BY <2>1, <2>7
  <2>10. Covers(r.held, r.arr)' /\ \A k \in 1..Len(r'.arr) : r'.arr[k] \in r'.held
    BY <2>1, <2>8 DEF Covers
  <2>11. ~At(u, "walk")' => /\ ~Same(u)' /\ r'.type < Types
                            /\ IF At(u, "built")' THEN r'.type # 0 ELSE Ty(r.made)' = r'.type
    BY <1>8, <2>1, <2>6, <2>8
  <2>12. WalkOK(u)'
    <3>1. \A w \in Thread \ {u} : Walking(w)' => Ci(w)' # Ci(u)'
      BY <1>9, <2>3
    <3>2. \A a \in assigned'[Ci(u)'] \ r'.held : Ty(a)' < r'.type \/ (At(u, "assigned")' /\ a = r'.made)
      BY <1>8, <1>9, <2>8, <2>9
    <3>3. QED BY <2>4, <2>5, <2>10, <2>11, <3>1, <3>2 DEF WalkOK
  <2>13. FullOK(u)'
    <3> SUFFICES ASSUME r'.full, ~r'.gone
                 PROVE  /\ r'.held \subseteq assigned'[Ci(u)']
                        /\ \A y \in 0..(r'.type - 1) : Has(Ci(u), y)'
                        /\ At(u, "assigned")' => r'.made \in assigned'[Ci(u)']
      BY DEF FullOK
    <3>1. r.full /\ ~r.gone /\ assigned'[Ci(u)] = assigned[Ci(u)]
      BY <1>2, <1>12
    <3>2. /\ r.held \subseteq assigned[Ci(u)]
          /\ \A y \in 0..(r.type - 1) : Has(Ci(u), y)
          /\ At(u, "assigned") => r.made \in assigned[Ci(u)]
      BY <1>1, <1>12, <3>1 DEF ThreadOK, FullOK
    <3>3. \A y : Has(Ci(u), y) => Has(Ci(u), y)'
      BY <1>9, <2>7, <3>1 DEF Has
    <3>4. QED BY <1>8, <1>9, <2>8, <3>1, <3>2, <3>3
  <2>14. QED BY <2>12, <2>13
<1>13. ~Walking(u) => WalkOK(u)' /\ FullOK(u)'
  BY <1>7 DEF WalkOK, FullOK
<1>14. QED BY <1>10, <1>11, <1>12, <1>13 DEF ThreadOK

(* A connection that only loses classifiers, and keeps DEFAULT.            *)
LEMMA ConnKept ==
  ASSUME LifecycleAssumption, IInv, Stable, NEW c \in Conn,
         assigned'[c] \subseteq assigned[c],
         conn'[c].refs = 0 => assigned'[c] = {},
         conn'[c].listed => conn[c].listed,
         conn'[c].listed => \A a \in assigned[c] \ assigned'[c] : Ty(a) # 0
  PROVE  ConnOK(c)'
<1>1. ConnOK(c) /\ TypeOK /\ Owned /\ Used
  BY DEF IInv
<1>2. \A a \in assigned[c] : Ty(a)' = Ty(a)
  BY <1>1, Holding DEF Stable
<1>3. \A i, j \in assigned'[c] : Ty(i)' = Ty(j)' => i = j
  BY <1>1, <1>2 DEF ConnOK
<1>4. conn'[c].listed => Has(c, 0)'
  BY <1>1, <1>2 DEF ConnOK, Has
<1>5. QED BY <1>3, <1>4 DEF ConnOK

-----------------------------------------------------------------------------
(* The invariant after a step, part by part.                               *)

LEMMA Parts ==
  IInv <=> /\ InstOK /\ Owned /\ Used
           /\ conn \in [Conn -> [refs : Int, listed : BOOLEAN]]
           /\ assigned \in [Conn -> SUBSET Inst]
           /\ exiting \in BOOLEAN /\ jobs \in Nat
           /\ thr \in [Thread -> ThreadType]
           /\ \A c \in Conn : ConnOK(c)
           /\ \A t \in Thread : ThreadOK(t)
<1>1. TypeOK <=> /\ InstTypes
                 /\ conn \in [Conn -> [refs : Int, listed : BOOLEAN]]
                 /\ assigned \in [Conn -> SUBSET Inst]
                 /\ exiting \in BOOLEAN /\ jobs \in Nat
                 /\ thr \in [Thread -> ThreadType]
  BY Zenon DEF TypeOK, InstTypes
<1>2. QED BY <1>1, Zenon DEF IInv, InstOK, ThreadOK

LEMMA PartsNext ==
  IInv' <=> /\ InstOK' /\ Owned' /\ Used'
            /\ conn' \in [Conn -> [refs : Int, listed : BOOLEAN]]
            /\ assigned' \in [Conn -> SUBSET Inst]
            /\ exiting' \in BOOLEAN /\ jobs' \in Nat
            /\ thr' \in [Thread -> ThreadType]
            /\ \A c \in Conn : ConnOK(c)'
            /\ \A t \in Thread : ThreadOK(t)'
<1>1. TypeOK' <=> /\ InstTypes'
                  /\ conn' \in [Conn -> [refs : Int, listed : BOOLEAN]]
                  /\ assigned' \in [Conn -> SUBSET Inst]
                  /\ exiting' \in BOOLEAN /\ jobs' \in Nat
                  /\ thr' \in [Thread -> ThreadType]
  BY Zenon DEF TypeOK, InstTypes
<1>2. QED BY <1>1, Zenon DEF IInv, InstOK, ThreadOK

LEMMA Begun ==
  ASSUME LifecycleAssumption, IInv
  PROVE  /\ InstOK /\ Owned /\ Used /\ TypeOK
         /\ \A t \in Thread : ThreadOK(t) /\ thr[t] \in ThreadType
         /\ \A t \in Thread : ~At(t, "idle") => Ci(t) \in Conn /\ conn[Ci(t)].refs > 0
         /\ \A t \in Thread : Walking(t) \/ Newborn(t) => ~At(t, "idle")
         /\ \A c \in Conn : ConnOK(c)
         /\ Types \in Nat /\ MARK \in 1..(Types - 1) /\ None \notin Inst /\ None \notin Conn
<1>1. InstOK /\ Owned /\ Used /\ TypeOK
  BY Parts DEF IInv
<1>2. \A t \in Thread : ThreadOK(t) /\ thr[t] \in ThreadType
  BY Parts
<1>3. \A t \in Thread : ~At(t, "idle") => Ci(t) \in Conn /\ conn[Ci(t)].refs > 0
  BY <1>1, <1>2, Holding DEF ThreadOK, PcOK
<1>4. \A t \in Thread : Walking(t) \/ Newborn(t) => ~At(t, "idle")
  BY DEF Walking, Newborn, At
<1>5. QED BY <1>1, <1>2, <1>3, <1>4 DEF IInv, LifecycleAssumption

(* A step of a thread that has a connection and keeps it.                  *)
LEMMA OwnStep ==
  ASSUME LifecycleAssumption, IInv, NEW t \in Thread, NEW c \in Conn, Ci(t) = c,
         NEW r \in ThreadType, thr' = [thr EXCEPT ![t] = r], r.ci = c,
         InstOK', Stable, exiting' = exiting, jobs' = jobs,
         conn' \in [Conn -> [refs : Int, listed : BOOLEAN]],
         assigned' \in [Conn -> SUBSET Inst],
         \A d \in Conn \ {c} : assigned'[d] = assigned[d] /\ conn'[d] = conn[d],
         \A i \in Inst : inst'[i].refs = inst[i].refs + Own(t, c, i)' - Own(t, c, i),
         conn'[c].refs = conn[c].refs + Uses(t, c)' - Uses(t, c),
         \/ assigned' = assigned /\ conn'[c].listed = conn[c].listed
         \/ (Walking(t) \/ Newborn(t)) /\ ConnOK(c)',
         Walking(t)' => Walking(t) \/ Newborn(t),
         ThreadOK(t)'
  PROVE  IInv'
<1>1. /\ InstOK /\ Owned /\ Used /\ TypeOK /\ Ci(t)' = c
      /\ ThreadOK(t) /\ \A u \in Thread \ {t} : thr'[u] = thr[u]
      /\ thr' \in [Thread -> ThreadType] /\ thr'[t] = r
  BY Begun, Parts DEF Ci
<1>2. Owned'
  <2>1. \A i \in Inst : inst'[i].refs = inst[i].refs + Own(t, c, i)' - Own(t, c, i)
    OBVIOUS
  <2>2. \A d \in Conn \ {c} : assigned'[d] = assigned[d]
    OBVIOUS
  <2>3. \A u \in Thread \ {t} : thr'[u].held = thr[u].held /\ thr'[u].made = thr[u].made /\ thr'[u].mark = thr[u].mark
    BY <1>1
  <2>4. Owned
    BY <1>1
  <2>5. Elsewhere(t, c) /\ Paid(t, c)
    BY <2>1, <2>2, <2>3 DEF Elsewhere, Paid
  <2>6. QED BY <2>4, <2>5, OwnedKept
<1>3. Used'
  <2>1. ASSUME NEW d \in Conn PROVE conn'[d].refs = conn[d].refs + Uses(t, d)' - Uses(t, d)
    <3>1. CASE d = c
      BY <1>1, <3>1
    <3>2. CASE d # c
      <4>1. Uses(t, d)' = Uses(t, d) /\ Uses(t, d) \in Int /\ conn'[d] = conn[d]
        BY <1>1, <3>2 DEF Uses, Ci, One
      <4>2. conn[d].refs \in Int
        BY <1>1 DEF TypeOK
      <4>3. QED BY <4>1, <4>2
    <3>3. QED BY <3>1, <3>2
  <2>2. \A u \in Thread \ {t} : thr'[u].ci = thr[u].ci /\ thr'[u].pc = thr[u].pc
    BY <1>1
  <2>3. QED BY <1>1, <2>1, <2>2, UsedKept
<1>4. \A u \in Thread \ {t} : ThreadOK(u)'
  <2>1. ASSUME NEW u \in Thread \ {t}, Ci(u) = c, Walking(t) \/ Newborn(t)
        PROVE  ~Walking(u) /\ ~Newborn(u)
    <3>1. ThreadOK(t) /\ ThreadOK(u) /\ Ci(t) = Ci(u) /\ t # u
      BY <2>1, Begun
    <3>2. Walking(t) => ~Walking(u)
      BY <3>1 DEF ThreadOK, WalkOK
    <3>3. ~Newborn(u) /\ ~Newborn(t)
      BY <3>1 DEF ThreadOK, NewOK
    <3>4. QED BY <2>1, <3>2, <3>3
  <2>2. ASSUME NEW u \in Thread \ {t}, Walking(u) \/ Newborn(u)
        PROVE  Ci(u) \in Conn /\ assigned'[Ci(u)] = assigned[Ci(u)] /\ conn'[Ci(u)].listed = conn[Ci(u)].listed
    <3>1. Ci(u) \in Conn
      BY <2>2, Begun
    <3>2. CASE Ci(u) # c
      BY <3>1, <3>2
    <3>3. CASE Ci(u) = c
      <4>1. ~(Walking(t) \/ Newborn(t))
        BY <2>1, <2>2, <3>3
      <4>2. QED BY <3>1, <3>3, <4>1
    <3>4. QED BY <3>2, <3>3
  <2>3. \A u \in Thread \ {t} : Newborn(u) =>
           /\ assigned'[Ci(u)] = assigned[Ci(u)] /\ ~conn'[Ci(u)].listed
           /\ thr'[u] = thr[u] /\ Ci(t)' # Ci(u)
    <3> SUFFICES ASSUME NEW u \in Thread \ {t}, Newborn(u)
                 PROVE /\ assigned'[Ci(u)] = assigned[Ci(u)] /\ ~conn'[Ci(u)].listed
                       /\ thr'[u] = thr[u] /\ Ci(t)' # Ci(u)
      OBVIOUS
    <3>1. ThreadOK(u)
      BY Begun
    <3>2. ~conn[Ci(u)].listed /\ Ci(t) # Ci(u)
      BY <3>1 DEF ThreadOK, NewOK
    <3>3. QED BY <1>1, <2>2, <3>2
  <2>4. \A u \in Thread \ {t} : Walking(u) /\ Walking(t)' => Ci(t)' # Ci(u)
    BY <1>1, <2>1
  <2>5. \A u \in Thread \ {t} : Walking(u) =>
           \/ assigned'[Ci(u)] = assigned[Ci(u)]
           \/ assigned'[Ci(u)] \subseteq assigned[Ci(u)] /\ thr'[u].gone
    BY <2>2
  <2>6. \A u \in Thread \ {t} : /\ thr'[u] = thr[u] \/ thr'[u] = [thr[u] EXCEPT !.gone = TRUE]
                                /\ At(u, "idle") => thr'[u] = thr[u]
    BY <1>1
  <2>7. QED BY <2>3, <2>4, <2>5, <2>6, Others
<1>5. ASSUME NEW d \in Conn PROVE ConnOK(d)'
  <2>1. CASE d # c
    <3>1. assigned'[d] = assigned[d] /\ conn'[d] = conn[d] /\ ConnOK(d)
      BY <2>1, Begun
    <3>2. QED BY <3>1, ConnKept DEF ConnOK
  <2>2. CASE d = c /\ assigned' = assigned /\ conn'[c].listed = conn[c].listed
    <3>1. Uses(t, c)' >= 1 /\ Uses(t, c)' \in Int /\ conn'[c].refs \in Int
      BY <1>1 DEF Uses, Ci, One
    <3>2. conn'[c].refs # 0
      <4>1. conn[c].refs \in Int /\ conn[c].refs >= Uses(t, c) /\ Uses(t, c) \in Int
        <5>1. conn[c].refs \in Nat /\ conn[c].refs >= Uses(t, c)
          BY <1>1, AtLeast
        <5>2. Uses(t, c) \in Int
          BY DEF Uses, One
        <5>3. QED BY <5>1, <5>2
      <4>2. QED BY <3>1, <4>1
    <3>3. QED BY <2>2, <3>2, ConnKept
  <2>3. CASE d = c /\ ConnOK(c)'
    BY <2>3
  <2>4. QED BY <2>1, <2>2, <2>3
<1>6. exiting' \in BOOLEAN /\ jobs' \in Nat
  BY <1>1 DEF TypeOK
<1>7. \A u \in Thread : ThreadOK(u)'
  BY <1>4
<1>8. /\ InstOK' /\ Owned' /\ Used'
      /\ conn' \in [Conn -> [refs : Int, listed : BOOLEAN]]
      /\ assigned' \in [Conn -> SUBSET Inst]
      /\ exiting' \in BOOLEAN /\ jobs' \in Nat
      /\ thr' \in [Thread -> ThreadType]
      /\ \A d \in Conn : ConnOK(d)'
      /\ \A u \in Thread : ThreadOK(u)'
  BY <1>1, <1>2, <1>3, <1>5, <1>6, <1>7
<1>9. QED BY <1>8, PartsNext

-----------------------------------------------------------------------------
(* The walk of ecm_classifier_reclassify().                                *)

LEMMA Past ==
  ASSUME NEW t, ~Walking(t)', thr'[t].pc \notin {"default", "tracker", "tracked", "drop"}, PcOK(t)'
  PROVE  ThreadOK(t)'
BY DEF ThreadOK, NewOK, Newborn, WalkOK, FullOK

(* Where no classifier held is of the type due, those from the index on    *)
(* are of later types.                                                     *)
LEMMA Due ==
  ASSUME LifecycleAssumption, IInv, NEW t \in Thread, Walking(t)
  PROVE  LET r == thr[t] IN
         /\ r.i \in 1..(Len(r.arr) + 1) /\ Len(r.arr) \in Nat /\ r.type \in 0..Types
         /\ \A k \in 1..Len(r.arr) : Ty(r.arr[k]) \in 0..(Types - 1) /\ r.arr[k] \in r.held
         /\ ~Same(t) => \A k \in 1..Len(r.arr) :
              IF k < r.i THEN Ty(r.arr[k]) < r.type ELSE Ty(r.arr[k]) > r.type
         /\ Same(t) => /\ r.type < Types /\ r.i \in 1..Len(r.arr) /\ Ty(r.arr[r.i]) = r.type
                       /\ \A k \in 1..Len(r.arr) :
                            IF k < r.i + 1 THEN Ty(r.arr[k]) < r.type + 1 ELSE Ty(r.arr[k]) >= r.type + 1
<1> DEFINE r == thr[t]
           n == Len(r.arr)
<1>1. /\ ThreadOK(t) /\ r \in ThreadType /\ r.arr \in Seq(Inst) /\ n \in Nat
      /\ r.type \in 0..Types /\ r.i \in Nat /\ Types \in Nat /\ TypeOK
  BY Begun DEF ThreadType
<1>2. /\ \A k \in 1..n : r.arr[k] \in r.held
      /\ Ascends(r.arr) /\ InStep(r)
  BY <1>1 DEF ThreadOK, WalkOK
<1>3. \A k \in 1..n : r.arr[k] \in Inst
  BY <1>1
<1>4. \A k \in 1..n : Ty(r.arr[k]) \in 0..(Types - 1)
  BY <1>1, <1>3 DEF TypeOK, Ty
<1>5. /\ r.i \in 1..(n + 1)
      /\ \A k \in 1..n : IF k < r.i THEN Ty(r.arr[k]) < r.type ELSE Ty(r.arr[k]) >= r.type
  BY <1>2 DEF InStep
<1>6. \A j, k \in 1..n : j < k => Ty(r.arr[j]) < Ty(r.arr[k])
  BY <1>2 DEF Ascends
<1>7. Same(t) <=> r.i <= n /\ Ty(r.arr[r.i]) = r.type
  BY DEF Same, More, Ty
<1> HIDE DEF r, n
<1>8. ASSUME ~Same(t), NEW k \in 1..n
      PROVE  IF k < r.i THEN Ty(r.arr[k]) < r.type ELSE Ty(r.arr[k]) > r.type
  <2>1. CASE k < r.i
    BY <1>5, <2>1
  <2>2. CASE ~(k < r.i)
    <3>1. r.i \in 1..n /\ Ty(r.arr[r.i]) >= r.type /\ Ty(r.arr[r.i]) # r.type
      BY <1>1, <1>5, <1>7, <1>8, <2>2
    <3>2. k = r.i \/ Ty(r.arr[r.i]) < Ty(r.arr[k])
      BY <1>1, <1>6, <2>2, <3>1
    <3>3. Ty(r.arr[r.i]) \in Int /\ Ty(r.arr[k]) \in Int /\ r.type \in Int
      BY <1>1, <1>4, <3>1
    <3>4. Ty(r.arr[k]) > r.type
      BY <3>1, <3>2, <3>3
    <3>5. QED BY <2>2, <3>4
  <2>3. QED BY <2>1, <2>2
<1>9. ASSUME Same(t)
      PROVE  /\ r.type < Types /\ r.i \in 1..n /\ Ty(r.arr[r.i]) = r.type
             /\ \A k \in 1..n : IF k < r.i + 1 THEN Ty(r.arr[k]) < r.type + 1 ELSE Ty(r.arr[k]) >= r.type + 1
  <2>1. r.i \in 1..n /\ Ty(r.arr[r.i]) = r.type
    BY <1>1, <1>5, <1>7, <1>9
  <2>2. r.type < Types
    BY <1>1, <1>4, <2>1
  <2>3. ASSUME NEW k \in 1..n
        PROVE  IF k < r.i + 1 THEN Ty(r.arr[k]) < r.type + 1 ELSE Ty(r.arr[k]) >= r.type + 1
    <3>0. Ty(r.arr[k]) \in Int /\ r.type \in Int /\ r.i \in Int
      BY <1>1, <1>4
    <3>1. CASE k < r.i
      BY <1>5, <3>0, <3>1
    <3>2. CASE k = r.i
      BY <2>1, <3>0, <3>2
    <3>3. CASE r.i < k
      <4>1. r.type < Ty(r.arr[k])
        BY <1>6, <2>1, <3>3
      <4>2. QED BY <3>0, <3>3, <4>1
    <3>4. QED BY <3>0, <3>1, <3>2, <3>3
  <2>4. QED BY <2>1, <2>2, <2>3
<1>10. QED BY <1>1, <1>2, <1>4, <1>5, <1>8, <1>9 DEF r, n

(* A thread that goes on walking with the same array.                      *)
LEMMA WalkOn ==
  ASSUME LifecycleAssumption, IInv, Stable, NEW t \in Thread, NEW c \in Conn, Ci(t) = c,
         Walking(t), Walking(t)', NEW r, thr'[t] = r,
         \A u \in Thread \ {t} : thr'[u] = thr[u],
         r.ci = c, r.held = thr[t].held, r.arr = thr[t].arr,
         r.i \in 1..(Len(r.arr) + 1),
         \A k \in 1..Len(r.arr) : IF k < r.i THEN Ty(r.arr[k]) < r.type ELSE Ty(r.arr[k]) >= r.type,
         r.pc # "walk" => /\ r.i = thr[t].i /\ r.type = thr[t].type /\ ~Same(t)
                          /\ r.type < Types
                          /\ IF r.pc = "built" THEN r.type # 0 ELSE Ty(r.made)' = r.type,
         \A a \in assigned'[c] \ r.held : Ty(a)' < r.type \/ (r.pc = "assigned" /\ a = r.made)
  PROVE  WalkOK(t)'
<1>1. /\ \A u \in Thread \ {t} : Walking(u) => Ci(u) # c
      /\ \A k \in 1..Len(r.arr) : r.arr[k] \in r.held
      /\ Covers(r.held, r.arr) /\ Ascends(r.arr)
  BY Begun DEF ThreadOK, WalkOK
<1>2. \A k \in 1..Len(r.arr) : Ty(r.arr[k])' = Ty(r.arr[k])
  <2>1. thr[t].held \subseteq Live
    BY Begun, Holding
  <2>2. QED BY <1>1, <2>1 DEF Stable, Ty
<1>3. thr'[t] = r /\ Ci(t)' = c
  BY DEF Ci
<1>4. \A u \in Thread \ {t} : Walking(u)' => Ci(u)' # c
  BY <1>1 DEF Walking, Ci
<1>5. Ascends(r.arr)' /\ InStep(r)'
  BY <1>1, <1>2 DEF Ascends, InStep
<1>6. r.pc # "walk" => ~Same(t)'
  <2> SUFFICES ASSUME r.pc # "walk" PROVE ~Same(t)'
    OBVIOUS
  <2>1. Len(r.arr) \in Nat /\ thr[t].i \in 1..(Len(r.arr) + 1)
    BY Begun DEF ThreadType
  <2>2. More(t) => thr[t].i \in 1..Len(r.arr)
    BY <2>1 DEF More
  <2>3. QED BY <1>2, <2>2 DEF Same, More, Ty
<1>7. /\ At(t, "walk")' <=> r.pc = "walk"
      /\ At(t, "built")' <=> r.pc = "built"
      /\ At(t, "assigned")' <=> r.pc = "assigned"
  BY DEF At
<1>8. QED BY <1>1, <1>3, <1>4, <1>5, <1>6, <1>7 DEF WalkOK, Covers, Ascends, InStep

LEMMA WalkSameKeeps ==
  ASSUME LifecycleAssumption, IInv, NEW t \in Thread, WalkSame(t)
  PROVE  IInv'
<1> DEFINE r == [thr[t] EXCEPT !.i = @ + 1, !.type = @ + 1]
<1>1. /\ At(t, "walk") /\ Same(t) /\ Walking(t) /\ ~At(t, "idle")
      /\ UNCHANGED <<conn, assigned, exiting, jobs>> /\ UNCHANGED classifiers
  BY DEF WalkSame, Walking, At
<1>2. PICK c \in Conn : Ci(t) = c
  BY <1>1, Begun
<1>3. thr[t] \in ThreadType /\ thr \in [Thread -> ThreadType] /\ ThreadOK(t) /\ InstOK /\ TypeOK
  BY Begun DEF TypeOK
<1>4. thr' = [thr EXCEPT ![t] = r]
  BY <1>1, <1>3 DEF WalkSame, Advance, ThreadType
<1>5. /\ r \in ThreadType /\ r.ci = c /\ r.pc = "walk" /\ r.i = thr[t].i + 1 /\ r.type = thr[t].type + 1
      /\ r.held = thr[t].held /\ r.arr = thr[t].arr /\ r.full = thr[t].full /\ r.gone = thr[t].gone
      /\ r.made = thr[t].made /\ r.mark = thr[t].mark
  <2>1. thr[t].type + 1 \in 0..Types
    BY <1>1, Due
  <2>2. r \in ThreadType
    <3>1. thr[t].i + 1 \in Nat
      BY <1>3 DEF ThreadType
    <3>2. QED BY <1>3, <2>1, <3>1 DEF ThreadType
  <2>3. /\ r.ci = thr[t].ci /\ r.pc = thr[t].pc /\ r.i = thr[t].i + 1 /\ r.type = thr[t].type + 1
        /\ r.held = thr[t].held /\ r.arr = thr[t].arr /\ r.full = thr[t].full /\ r.gone = thr[t].gone
        /\ r.made = thr[t].made /\ r.mark = thr[t].mark
    BY <1>3 DEF ThreadType
  <2>4. QED BY <1>1, <1>2, <2>2, <2>3 DEF At, Ci
<1> HIDE DEF r
<1>6. thr'[t] = r /\ \A u \in Thread \ {t} : thr'[u] = thr[u]
  BY <1>3, <1>4
<1>7. InstOK' /\ Stable /\ inst' = inst
  BY <1>1, <1>3, SameKeeps
<1>8. /\ \A i \in Inst : inst'[i].refs = inst[i].refs + Own(t, c, i)' - Own(t, c, i)
      /\ conn'[c].refs = conn[c].refs + Uses(t, c)' - Uses(t, c)
  <2>1. ASSUME NEW i \in Inst PROVE Own(t, c, i)' = Own(t, c, i) /\ Own(t, c, i) \in Int /\ inst[i].refs \in Int
    BY <1>1, <1>3, <1>5, <1>6 DEF Own, One, TypeOK
  <2>2. Uses(t, c)' = Uses(t, c) /\ Uses(t, c) \in Int /\ conn[c].refs \in Int
    BY <1>1, <1>2, <1>3, <1>5, <1>6 DEF Uses, One, Ci, Finding, At, TypeOK
  <2>3. QED BY <1>1, <1>7, <2>1, <2>2
<1>9. Walking(t)' /\ At(t, "walk")' /\ Ci(t)' = c
  BY <1>5, <1>6 DEF Walking, At, Ci
<1>10. WalkOK(t)'
  <2>1. \A a \in assigned'[c] \ r.held : Ty(a)' < r.type \/ (r.pc = "assigned" /\ a = r.made)
    <3>1. ASSUME NEW a \in assigned[c] \ thr[t].held PROVE Ty(a) < thr[t].type /\ Ty(a) \in Int
      BY <1>1, <1>2, <1>3, <3>1 DEF ThreadOK, WalkOK, At, TypeOK, Ty
    <3>2. thr[t].type \in Int
      BY <1>3 DEF ThreadType
    <3>3. QED BY <1>1, <1>5, <1>7, <3>1, <3>2 DEF Ty
  <2>2. /\ r.i \in 1..(Len(r.arr) + 1)
        /\ \A k \in 1..Len(r.arr) : IF k < r.i THEN Ty(r.arr[k]) < r.type ELSE Ty(r.arr[k]) >= r.type
    <3>1. /\ thr[t].i \in 1..Len(thr[t].arr) /\ Len(thr[t].arr) \in Nat
          /\ \A k \in 1..Len(thr[t].arr) :
               IF k < thr[t].i + 1 THEN Ty(thr[t].arr[k]) < thr[t].type + 1
               ELSE Ty(thr[t].arr[k]) >= thr[t].type + 1
      BY <1>1, Due
    <3>2. QED BY <1>5, <3>1
  <2>3. QED BY <1>1, <1>2, <1>5, <1>6, <1>7, <1>9, <2>1, <2>2, WalkOn
<1>11. FullOK(t)'
  <2> SUFFICES ASSUME r.full, ~r.gone
               PROVE  /\ r.held \subseteq assigned'[c]
                      /\ \A y \in 0..(r.type - 1) : Has(c, y)'
    BY <1>6, <1>9 DEF FullOK, At
  <2>1. thr[t].held \subseteq assigned[c] /\ \A y \in 0..(thr[t].type - 1) : Has(c, y)
    BY <1>1, <1>2, <1>3, <1>5 DEF ThreadOK, FullOK
  <2>2. Has(c, thr[t].type)
    <3>1. thr[t].arr[thr[t].i] \in thr[t].held /\ Ty(thr[t].arr[thr[t].i]) = thr[t].type
      BY <1>1, Due
    <3>2. QED BY <2>1, <3>1 DEF Has
  <2>3. \A y : Has(c, y)' <=> Has(c, y)
    BY <1>1, <1>7 DEF Has, Ty
  <2>4. thr[t].type \in Nat
    BY <1>3 DEF ThreadType
  <2>5. QED BY <1>1, <1>5, <2>1, <2>2, <2>3, <2>4
<1>12. NewOK(t)'
  <2> SUFFICES ASSUME r.arr = <<>> PROVE NewOK(t)'
    BY <1>5, <1>6, <1>9 DEF NewOK, Newborn
  <2>1. Newborn(t)
    BY <1>1, <1>5 DEF Newborn
  <2>2. ~conn[c].listed /\ (\A u \in Thread \ {t} : Ci(u) # c) /\ Has(c, 0)
    BY <1>1, <1>2, <1>3, <2>1 DEF ThreadOK, NewOK, At
  <2>3. Has(c, 0)'
    BY <1>1, <1>7, <2>2 DEF Has, Ty
  <2>4. QED BY <1>1, <1>5, <1>6, <1>9, <2>2, <2>3 DEF NewOK, At, Ci
<1>13. PcOK(t)'
  BY <1>1, <1>3, <1>5, <1>6, <1>9 DEF ThreadOK, PcOK, At
<1>14. /\ conn' \in [Conn -> [refs : Int, listed : BOOLEAN]] /\ assigned' \in [Conn -> SUBSET Inst]
       /\ \A d \in Conn \ {c} : assigned'[d] = assigned[d] /\ conn'[d] = conn[d]
       /\ assigned' = assigned /\ conn'[c].listed = conn[c].listed
       /\ ThreadOK(t)'
  BY <1>1, <1>3, <1>10, <1>11, <1>12, <1>13 DEF TypeOK, ThreadOK
<1>15. QED BY <1>1, <1>2, <1>4, <1>5, <1>7, <1>8, <1>14, OwnStep

-----------------------------------------------------------------------------

(* A new instance has one reference, that of the thread that made it.      *)
LEMMA MakesOne ==
  ASSUME LifecycleAssumption, IInv, NEW t \in Thread, NEW c \in Conn, NEW i \in Inst \ Live,
         inst'[i].refs = 1, \A j \in Inst \ {i} : inst'[j] = inst[j],
         UNCHANGED assigned, thr[t].made = None, thr'[t].made = i,
         thr'[t].held = thr[t].held, thr'[t].mark = thr[t].mark
  PROVE  \A j \in Inst : inst'[j].refs = inst[j].refs + Own(t, c, j)' - Own(t, c, j)
<1>1. TypeOK /\ Owned /\ Used /\ None \notin Inst
  BY Begun
<1>2. ASSUME NEW j \in Inst
      PROVE  Own(t, c, j) \in Int /\ Own(t, c, j)' = Own(t, c, j) + One(j = i)
  BY <1>1 DEF Own, One
<1>3. inst[i].refs = 0
  <2>1. inst[i].refs \in Nat
    BY <1>1, AtLeast
  <2>2. QED BY <2>1 DEF Live
<1>4. \A j \in Inst : inst[j].refs \in Int
  BY <1>1 DEF TypeOK
<1>5. ASSUME NEW j \in Inst PROVE inst'[j].refs = inst[j].refs + One(j = i)
  <2>1. CASE j = i
    BY <1>3, <2>1 DEF One
  <2>2. CASE j # i
    BY <1>4, <2>2 DEF One
  <2>3. QED BY <2>1, <2>2
<1>6. QED BY <1>2, <1>4, <1>5 DEF One

(* No instance for the type due: the walk goes on.                         *)
LEMMA WalkMissingFails ==
  ASSUME LifecycleAssumption, IInv, NEW t \in Thread,
         thr[t].pc \in {"walk", "built"}, ~Same(t), thr[t].type < Types,
         thr' = [Fails(t) EXCEPT ![t].pc = "walk"],
         UNCHANGED <<inst, links, defaults>>, UNCHANGED <<conn, assigned, exiting, jobs>>
  PROVE  IInv'
<1> DEFINE s == [[thr[t] EXCEPT !.i = @, !.type = @ + 1] EXCEPT !.full = FALSE]
           r == [s EXCEPT !.pc = "walk"]
<1>1. Walking(t) /\ ~At(t, "idle")
  BY DEF Walking, At
<1>2. PICK c \in Conn : Ci(t) = c
  BY <1>1, Begun
<1>3. thr[t] \in ThreadType /\ thr \in [Thread -> ThreadType] /\ ThreadOK(t) /\ InstOK /\ TypeOK
  BY Begun DEF TypeOK
<1>4. thr' = [thr EXCEPT ![t] = r]
  BY <1>3 DEF Fails, Advance, ThreadType
<1>5. /\ r \in ThreadType /\ r.ci = c /\ r.pc = "walk" /\ r.i = thr[t].i /\ r.type = thr[t].type + 1
      /\ r.held = thr[t].held /\ r.arr = thr[t].arr /\ r.full = FALSE
      /\ r.made = thr[t].made /\ r.mark = thr[t].mark
  <2>1. thr[t].type + 1 \in 0..Types /\ thr[t].i \in Nat
    BY <1>1, Due, Begun DEF ThreadType
  <2>2. [thr[t] EXCEPT !.i = @, !.type = @ + 1] \in ThreadType
    BY <1>3, <2>1 DEF ThreadType
  <2>3. r \in ThreadType
    <3>1. s \in ThreadType
      BY <2>2 DEF ThreadType
    <3> HIDE DEF s
    <3>2. QED BY <3>1 DEF ThreadType, Pc
  <2>4. /\ r.ci = thr[t].ci /\ r.pc = "walk" /\ r.i = thr[t].i /\ r.type = thr[t].type + 1
        /\ r.held = thr[t].held /\ r.arr = thr[t].arr /\ r.full = FALSE
        /\ r.made = thr[t].made /\ r.mark = thr[t].mark
    BY <1>3 DEF ThreadType
  <2>5. QED BY <1>1, <1>2, <2>3, <2>4 DEF At, Ci
<1> HIDE DEF r, s
<1>6. thr'[t] = r /\ \A u \in Thread \ {t} : thr'[u] = thr[u]
  BY <1>3, <1>4
<1>7. InstOK' /\ Stable /\ inst' = inst
  BY <1>1, <1>3, StillKeeps
<1>8. /\ \A i \in Inst : inst'[i].refs = inst[i].refs + Own(t, c, i)' - Own(t, c, i)
      /\ conn'[c].refs = conn[c].refs + Uses(t, c)' - Uses(t, c)
  <2>1. /\ thr'[t].held = thr[t].held /\ thr'[t].made = thr[t].made /\ thr'[t].mark = thr[t].mark
        /\ Ci(t)' = Ci(t) /\ ~Finding(t) /\ ~Finding(t)' /\ assigned' = assigned /\ conn' = conn
    BY <1>2, <1>5, <1>6 DEF Ci, Finding
  <2>2. ASSUME NEW i \in Inst PROVE Own(t, c, i)' = Own(t, c, i) /\ Own(t, c, i) \in Int /\ inst[i].refs \in Int
    <3>1. Own(t, c, i)' = Own(t, c, i)
      BY <2>1 DEF Own, One
    <3>2. Own(t, c, i) \in Int
      BY DEF Own, One
    <3>3. inst[i].refs \in Int
      BY <1>3, <2>2 DEF TypeOK
    <3>4. QED BY <3>1, <3>2, <3>3
  <2>3. Uses(t, c)' = Uses(t, c) /\ Uses(t, c) \in Int /\ conn[c].refs \in Int
    <3>1. Uses(t, c)' = Uses(t, c)
      BY <2>1 DEF Uses, One
    <3>2. Uses(t, c) \in Int
      BY DEF Uses, One
    <3>3. conn[c].refs \in Int
      BY <1>3 DEF TypeOK
    <3>4. QED BY <3>1, <3>2, <3>3
  <2>4. QED BY <1>7, <2>1, <2>2, <2>3
<1>9. Walking(t)' /\ At(t, "walk")' /\ Ci(t)' = c
  BY <1>5, <1>6 DEF Walking, At, Ci
<1>10. WalkOK(t)'
  <2>1. \A a \in assigned'[c] \ r.held : Ty(a)' < r.type \/ (r.pc = "assigned" /\ a = r.made)
    <3>1. ASSUME NEW a \in assigned[c] \ thr[t].held PROVE Ty(a) < thr[t].type /\ Ty(a) \in Int
      BY <1>1, <1>2, <1>3, <3>1 DEF ThreadOK, WalkOK, At, TypeOK, Ty
    <3>2. thr[t].type \in Int
      BY <1>3 DEF ThreadType
    <3>3. QED BY <1>1, <1>5, <1>7, <3>1, <3>2 DEF Ty
  <2>2. /\ r.i \in 1..(Len(r.arr) + 1)
        /\ \A k \in 1..Len(r.arr) : IF k < r.i THEN Ty(r.arr[k]) < r.type ELSE Ty(r.arr[k]) >= r.type
    <3>1. /\ thr[t].i \in 1..(Len(thr[t].arr) + 1) /\ thr[t].type \in Int
          /\ \A k \in 1..Len(thr[t].arr) : Ty(thr[t].arr[k]) \in Int
          /\ \A k \in 1..Len(thr[t].arr) :
               IF k < thr[t].i THEN Ty(thr[t].arr[k]) < thr[t].type ELSE Ty(thr[t].arr[k]) > thr[t].type
      BY <1>1, Due
    <3>2. QED BY <1>5, <3>1
  <2>3. QED BY <1>1, <1>2, <1>5, <1>6, <1>7, <1>9, <2>1, <2>2, WalkOn
<1>11. FullOK(t)'
  BY <1>5, <1>6 DEF FullOK
<1>12. NewOK(t)'
  <2> SUFFICES ASSUME r.arr = <<>> PROVE NewOK(t)'
    BY <1>5, <1>6, <1>9 DEF NewOK, Newborn
  <2>1. Newborn(t)
    BY <1>1, <1>5 DEF Newborn
  <2>2. ~conn[c].listed /\ (\A u \in Thread \ {t} : Ci(u) # c) /\ Has(c, 0)
    BY <1>1, <1>2, <1>3, <2>1 DEF ThreadOK, NewOK, At
  <2>3. Has(c, 0)'
    BY <1>1, <1>7, <2>2 DEF Has, Ty
  <2>4. QED BY <1>1, <1>5, <1>6, <1>9, <2>2, <2>3 DEF NewOK, At, Ci
<1>13. PcOK(t)'
  BY <1>1, <1>3, <1>5, <1>6, <1>9 DEF ThreadOK, PcOK, At
<1>14. /\ conn' \in [Conn -> [refs : Int, listed : BOOLEAN]] /\ assigned' \in [Conn -> SUBSET Inst]
       /\ \A d \in Conn \ {c} : assigned'[d] = assigned[d] /\ conn'[d] = conn[d]
       /\ assigned' = assigned /\ conn'[c].listed = conn[c].listed
       /\ ThreadOK(t)'
  BY <1>1, <1>3, <1>10, <1>11, <1>12, <1>13 DEF TypeOK, ThreadOK
<1>15. QED BY <1>1, <1>2, <1>4, <1>5, <1>7, <1>8, <1>14, OwnStep

(* Memory for an instance of the type due.                                 *)
LEMMA WalkMissingBuilds ==
  ASSUME LifecycleAssumption, IInv, NEW t \in Thread,
         At(t, "walk"), ~Same(t), thr[t].type < Types, thr[t].type # 0, Goto(t, "built"),
         UNCHANGED <<inst, links, defaults>>, UNCHANGED <<conn, assigned, exiting, jobs>>
  PROVE  IInv'
<1> DEFINE x == [thr[t] EXCEPT !.pc = "built"]
<1>1. Walking(t) /\ ~At(t, "idle")
  BY DEF Walking, At
<1>2. PICK c \in Conn : Ci(t) = c
  BY <1>1, Begun
<1>3. thr[t] \in ThreadType /\ thr \in [Thread -> ThreadType] /\ ThreadOK(t) /\ InstOK /\ TypeOK
  BY Begun DEF TypeOK
<1>4. PICK r \in ThreadType :
         /\ thr' = [thr EXCEPT ![t] = r] /\ r.ci = c /\ r.pc = "built" /\ r.i = thr[t].i
         /\ r.type = thr[t].type /\ r.held = thr[t].held /\ r.arr = thr[t].arr
         /\ r.full = thr[t].full /\ r.gone = thr[t].gone /\ r.made = thr[t].made /\ r.mark = thr[t].mark
  <2>1. thr' = [thr EXCEPT ![t] = x]
    BY <1>3 DEF Goto
  <2>2. x \in ThreadType
    BY <1>3 DEF ThreadType, Pc
  <2>3. /\ x.ci = thr[t].ci /\ x.pc = "built" /\ x.i = thr[t].i /\ x.type = thr[t].type
        /\ x.held = thr[t].held /\ x.arr = thr[t].arr /\ x.full = thr[t].full /\ x.gone = thr[t].gone
        /\ x.made = thr[t].made /\ x.mark = thr[t].mark
    BY <1>3 DEF ThreadType
  <2> HIDE DEF x
  <2>4. QED BY <1>2, <2>1, <2>2, <2>3 DEF Ci
<1> HIDE DEF x
<1>5. thr'[t] = r /\ \A u \in Thread \ {t} : thr'[u] = thr[u]
  BY <1>3, <1>4
<1>6. InstOK' /\ Stable /\ inst' = inst
  BY <1>3, StillKeeps
<1>7. /\ \A i \in Inst : inst'[i].refs = inst[i].refs + Own(t, c, i)' - Own(t, c, i)
      /\ conn'[c].refs = conn[c].refs + Uses(t, c)' - Uses(t, c)
  <2>1. ASSUME NEW i \in Inst PROVE Own(t, c, i)' = Own(t, c, i) /\ Own(t, c, i) \in Int /\ inst[i].refs \in Int
    BY <1>1, <1>3, <1>4, <1>5 DEF Own, One, TypeOK
  <2>2. Uses(t, c)' = Uses(t, c) /\ Uses(t, c) \in Int /\ conn[c].refs \in Int
    BY <1>1, <1>2, <1>3, <1>4, <1>5 DEF Uses, One, Ci, Finding, At, TypeOK
  <2>3. QED BY <1>1, <1>6, <2>1, <2>2
<1>8. Walking(t)' /\ At(t, "built")' /\ Ci(t)' = c
  BY <1>4, <1>5 DEF Walking, At, Ci
<1>9. WalkOK(t)'
  <2>1. \A a \in assigned'[c] \ r.held : Ty(a)' < r.type \/ (r.pc = "assigned" /\ a = r.made)
    <3>1. ASSUME NEW a \in assigned[c] \ thr[t].held PROVE Ty(a) < thr[t].type
      BY <1>1, <1>2, <1>3, <3>1 DEF ThreadOK, WalkOK, At
    <3>2. QED BY <1>4, <1>6, <3>1 DEF Ty
  <2>2. /\ r.i \in 1..(Len(r.arr) + 1)
        /\ \A k \in 1..Len(r.arr) : IF k < r.i THEN Ty(r.arr[k]) < r.type ELSE Ty(r.arr[k]) >= r.type
    <3>1. /\ thr[t].i \in 1..(Len(thr[t].arr) + 1) /\ thr[t].type \in Int
          /\ \A k \in 1..Len(thr[t].arr) : Ty(thr[t].arr[k]) \in Int
          /\ \A k \in 1..Len(thr[t].arr) :
               IF k < thr[t].i THEN Ty(thr[t].arr[k]) < thr[t].type ELSE Ty(thr[t].arr[k]) > thr[t].type
      BY <1>1, Due
    <3>2. QED BY <1>4, <3>1
  <2>3. r.i = thr[t].i /\ r.type = thr[t].type /\ ~Same(t) /\ r.type < Types /\ r.pc = "built" /\ r.type # 0
    BY <1>4
  <2>4. QED BY <1>1, <1>2, <1>4, <1>5, <1>6, <1>8, <2>1, <2>2, <2>3, WalkOn
<1>10. \A y : Has(c, y) => Has(c, y)'
  BY <1>6 DEF Has, Ty
<1>11. FullOK(t)'
  <2> SUFFICES ASSUME r.full, ~r.gone
               PROVE  /\ r.held \subseteq assigned'[c]
                      /\ \A y \in 0..(r.type - 1) : Has(c, y)'
    BY <1>4, <1>5, <1>8 DEF FullOK, At
  <2>1. thr[t].held \subseteq assigned[c] /\ \A y \in 0..(thr[t].type - 1) : Has(c, y)
    BY <1>1, <1>2, <1>3, <1>4 DEF ThreadOK, FullOK
  <2>2. QED BY <1>4, <1>10, <2>1
<1>12. NewOK(t)'
  <2> SUFFICES ASSUME r.arr = <<>> PROVE NewOK(t)'
    BY <1>4, <1>5, <1>8 DEF NewOK, Newborn
  <2>1. Newborn(t)
    BY <1>1, <1>4 DEF Newborn
  <2>2. ~conn[c].listed /\ (\A u \in Thread \ {t} : Ci(u) # c) /\ Has(c, 0)
    BY <1>1, <1>2, <1>3, <2>1 DEF ThreadOK, NewOK, At
  <2>3. Has(c, 0)'
    BY <1>10, <2>2
  <2>4. QED BY <1>4, <1>5, <1>8, <2>2, <2>3 DEF NewOK, At, Ci
<1>13. PcOK(t)'
  BY <1>3, <1>4, <1>5, <1>8 DEF ThreadOK, PcOK, At
<1>14. /\ conn' \in [Conn -> [refs : Int, listed : BOOLEAN]] /\ assigned' \in [Conn -> SUBSET Inst]
       /\ \A d \in Conn \ {c} : assigned'[d] = assigned[d] /\ conn'[d] = conn[d]
       /\ assigned' = assigned /\ conn'[c].listed = conn[c].listed
       /\ ThreadOK(t)'
  BY <1>3, <1>9, <1>11, <1>12, <1>13 DEF TypeOK, ThreadOK
<1>15. QED BY <1>1, <1>2, <1>4, <1>6, <1>7, <1>14, OwnStep

LEMMA LinkMakes ==
  ASSUME LifecycleAssumption, IInv, NEW t \in Thread,
         At(t, "built"), ~Same(t), thr[t].type < Types, thr[t].type # 0, NEW i \in Fresh,
         inst' = [inst EXCEPT ![i] = [type |-> thr[t].type, refs |-> 1]],
         IF thr[t].type = MARK THEN Linked(i) ELSE UNCHANGED links,
         thr' = [thr EXCEPT ![t].made = i, ![t].pc = "made"],
         UNCHANGED <<conn, assigned, defaults, exiting, jobs>>
  PROVE  IInv'
<1> DEFINE x == [thr[t] EXCEPT !.made = i, !.pc = "made"]
<1>1. Walking(t) /\ ~At(t, "idle")
  BY DEF Walking, At
<1>2. PICK c \in Conn : Ci(t) = c
  BY <1>1, Begun
<1>3. thr[t] \in ThreadType /\ thr \in [Thread -> ThreadType] /\ ThreadOK(t) /\ InstOK /\ TypeOK
  BY Begun DEF TypeOK
<1>4. thr' = [thr EXCEPT ![t] = x]
  BY <1>3
<1>5. PICK r \in ThreadType :
         /\ thr' = [thr EXCEPT ![t] = r] /\ r.ci = c /\ r.pc = "made" /\ r.i = thr[t].i
         /\ r.type = thr[t].type /\ r.held = thr[t].held /\ r.arr = thr[t].arr
         /\ r.full = thr[t].full /\ r.gone = thr[t].gone /\ r.made = i /\ r.mark = thr[t].mark
  <2>1. i \in Inst
    BY DEF Fresh
  <2>2. x \in ThreadType
    BY <1>3, <2>1 DEF ThreadType, Pc
  <2>3. /\ x.ci = thr[t].ci /\ x.pc = "made" /\ x.i = thr[t].i /\ x.type = thr[t].type
        /\ x.held = thr[t].held /\ x.arr = thr[t].arr /\ x.full = thr[t].full /\ x.gone = thr[t].gone
        /\ x.made = i /\ x.mark = thr[t].mark
    BY <1>3 DEF ThreadType
  <2> HIDE DEF x
  <2>4. QED BY <1>2, <1>4, <2>2, <2>3 DEF Ci
<1> HIDE DEF x
<1>6. thr'[t] = r /\ \A u \in Thread \ {t} : thr'[u] = thr[u]
  BY <1>3, <1>5
<1>7. /\ i \in Inst \ Live /\ InstOK' /\ Stable
      /\ Ty(i)' = thr[t].type /\ inst'[i].refs = 1
      /\ \A j \in Inst \ {i} : inst'[j] = inst[j]
  <2>1. thr[t].type \in 0..(Types - 1)
    BY <1>3, Begun DEF ThreadType
  <2>2. defaults' = defaults + One(thr[t].type = 0)
    BY <1>3 DEF One, TypeOK
  <2>3. QED BY <1>3, <2>1, <2>2, FreshKeeps
<1>8. thr[t].made = None
  BY <1>3 DEF ThreadOK, PcOK, At
<1>9. /\ \A j \in Inst : inst'[j].refs = inst[j].refs + Own(t, c, j)' - Own(t, c, j)
      /\ conn'[c].refs = conn[c].refs + Uses(t, c)' - Uses(t, c)
  <2>1. \A j \in Inst : inst'[j].refs = inst[j].refs + Own(t, c, j)' - Own(t, c, j)
    <3>1. /\ i \in Inst \ Live /\ inst'[i].refs = 1 /\ \A j \in Inst \ {i} : inst'[j] = inst[j]
          /\ UNCHANGED assigned /\ thr[t].made = None /\ thr'[t].made = i
          /\ thr'[t].held = thr[t].held /\ thr'[t].mark = thr[t].mark
      BY <1>5, <1>6, <1>7, <1>8
    <3>2. QED BY <3>1, MakesOne
  <2>2. Uses(t, c)' = Uses(t, c) /\ Uses(t, c) \in Int /\ conn[c].refs \in Int
    BY <1>1, <1>2, <1>3, <1>5, <1>6 DEF Uses, One, Ci, Finding, At, TypeOK
  <2>3. QED BY <1>1, <2>1, <2>2
<1>10. Walking(t)' /\ At(t, "made")' /\ Ci(t)' = c
  BY <1>5, <1>6 DEF Walking, At, Ci
<1>11. \A a \in assigned[c] : Ty(a)' = Ty(a) /\ a \in Live
  BY <1>7, Begun, Holding DEF Stable
<1>12. WalkOK(t)'
  <2>1. \A a \in assigned'[c] \ r.held : Ty(a)' < r.type \/ (r.pc = "assigned" /\ a = r.made)
    <3>1. ASSUME NEW a \in assigned[c] \ thr[t].held PROVE Ty(a) < thr[t].type
      BY <1>1, <1>2, <1>3, <3>1 DEF ThreadOK, WalkOK, At
    <3>2. QED BY <1>5, <1>11, <3>1
  <2>2. /\ r.i \in 1..(Len(r.arr) + 1)
        /\ \A k \in 1..Len(r.arr) : IF k < r.i THEN Ty(r.arr[k]) < r.type ELSE Ty(r.arr[k]) >= r.type
    <3>1. /\ thr[t].i \in 1..(Len(thr[t].arr) + 1) /\ thr[t].type \in Int
          /\ \A k \in 1..Len(thr[t].arr) : Ty(thr[t].arr[k]) \in Int
          /\ \A k \in 1..Len(thr[t].arr) :
               IF k < thr[t].i THEN Ty(thr[t].arr[k]) < thr[t].type ELSE Ty(thr[t].arr[k]) > thr[t].type
      BY <1>1, Due
    <3>2. QED BY <1>5, <3>1
  <2>3. r.i = thr[t].i /\ r.type = thr[t].type /\ ~Same(t) /\ r.type < Types /\ Ty(r.made)' = r.type
    BY <1>5, <1>6, <1>7 DEF Ty
  <2>4. QED BY <1>1, <1>2, <1>5, <1>6, <1>7, <1>10, <2>1, <2>2, <2>3, WalkOn
<1>13. \A y : Has(c, y) => Has(c, y)'
  BY <1>11 DEF Has
<1>14. FullOK(t)'
  <2> SUFFICES ASSUME r.full, ~r.gone
               PROVE  /\ r.held \subseteq assigned'[c]
                      /\ \A y \in 0..(r.type - 1) : Has(c, y)'
    BY <1>5, <1>6, <1>10 DEF FullOK, At
  <2>1. thr[t].held \subseteq assigned[c] /\ \A y \in 0..(thr[t].type - 1) : Has(c, y)
    BY <1>1, <1>2, <1>3, <1>5 DEF ThreadOK, FullOK
  <2>2. QED BY <1>5, <1>13, <2>1
<1>15. NewOK(t)'
  <2> SUFFICES ASSUME r.arr = <<>> PROVE NewOK(t)'
    BY <1>5, <1>6, <1>10 DEF NewOK, Newborn
  <2>1. Newborn(t)
    BY <1>1, <1>5 DEF Newborn
  <2>2. ~conn[c].listed /\ (\A u \in Thread \ {t} : Ci(u) # c) /\ Has(c, 0)
    BY <1>1, <1>2, <1>3, <2>1 DEF ThreadOK, NewOK, At
  <2>3. Has(c, 0)'
    BY <1>13, <2>2
  <2>4. QED BY <1>5, <1>6, <1>10, <2>2, <2>3 DEF NewOK, At, Ci
<1>16. PcOK(t)'
  <2>1. i # None
    BY <1>7, Begun
  <2>2. QED BY <1>3, <1>5, <1>6, <1>10, <2>1 DEF ThreadOK, PcOK, At
<1>17. /\ conn' \in [Conn -> [refs : Int, listed : BOOLEAN]] /\ assigned' \in [Conn -> SUBSET Inst]
       /\ \A d \in Conn \ {c} : assigned'[d] = assigned[d] /\ conn'[d] = conn[d]
       /\ assigned' = assigned /\ conn'[c].listed = conn[c].listed
       /\ ThreadOK(t)'
  BY <1>3, <1>12, <1>14, <1>15, <1>16 DEF TypeOK, ThreadOK
<1>18. InstOK' /\ Stable /\ exiting' = exiting /\ jobs' = jobs
  BY <1>7
<1>19. thr' = [thr EXCEPT ![t] = r] /\ r.ci = c /\ (Walking(t)' => Walking(t) \/ Newborn(t))
  BY <1>1, <1>5
<1>20. QED BY <1>2, <1>9, <1>17, <1>18, <1>19, OwnStep

-----------------------------------------------------------------------------

LEMMA AssignKeeps ==
  ASSUME LifecycleAssumption, IInv, NEW t \in Thread, Assign(t)
  PROVE  IInv'
<1> DEFINE x == [thr[t] EXCEPT !.pc = "assigned"]
<1>1. /\ At(t, "made") /\ Walking(t) /\ ~At(t, "idle")
      /\ UNCHANGED <<conn, links, defaults, exiting, jobs>>
  BY DEF Assign, Walking, At, memory
<1>2. PICK c \in Conn : Ci(t) = c
  BY <1>1, Begun
<1>3. thr[t] \in ThreadType /\ thr \in [Thread -> ThreadType] /\ ThreadOK(t) /\ InstOK /\ TypeOK
  BY Begun DEF TypeOK
<1>4. PICK i \in Inst : thr[t].made = i
  BY <1>1, <1>3 DEF ThreadOK, PcOK, At, ThreadType
<1>5. PICK r \in ThreadType :
         /\ thr' = [thr EXCEPT ![t] = r] /\ r.ci = c /\ r.pc = "assigned" /\ r.i = thr[t].i
         /\ r.type = thr[t].type /\ r.held = thr[t].held /\ r.arr = thr[t].arr
         /\ r.full = thr[t].full /\ r.gone = thr[t].gone /\ r.made = i /\ r.mark = thr[t].mark
  <2>1. thr' = [thr EXCEPT ![t] = x]
    BY <1>3 DEF Assign, Goto
  <2>2. x \in ThreadType
    BY <1>3 DEF ThreadType, Pc
  <2>3. /\ x.ci = thr[t].ci /\ x.pc = "assigned" /\ x.i = thr[t].i /\ x.type = thr[t].type
        /\ x.held = thr[t].held /\ x.arr = thr[t].arr /\ x.full = thr[t].full /\ x.gone = thr[t].gone
        /\ x.made = thr[t].made /\ x.mark = thr[t].mark
    BY <1>3 DEF ThreadType
  <2> HIDE DEF x
  <2>4. QED BY <1>2, <1>4, <2>1, <2>2, <2>3 DEF Ci
<1> HIDE DEF x
<1>6. thr'[t] = r /\ \A u \in Thread \ {t} : thr'[u] = thr[u]
  BY <1>3, <1>5
<1>7. i \in Live
  BY <1>4, Begun, Holding
<1>8. /\ InstOK' /\ Stable
      /\ \A j \in Inst : inst'[j].refs = inst[j].refs + One(j \in {i}) /\ Ty(j)' = Ty(j)
  <2>1. Ref({i}) /\ {i} \in SUBSET Live
    BY <1>4, <1>7 DEF Assign
  <2>2. QED BY <1>1, <1>3, <2>1, RefKeeps
<1>9. /\ ~Same(t) /\ thr[t].type < Types /\ Ty(i) = thr[t].type
      /\ \A a \in assigned[c] \ thr[t].held : Ty(a) < thr[t].type
  BY <1>1, <1>2, <1>3, <1>4 DEF ThreadOK, WalkOK, At
<1>10. \A a \in assigned[c] : Ty(a) # thr[t].type /\ a # i
  <2>1. ASSUME NEW a \in assigned[c] PROVE Ty(a) # thr[t].type
    <3>1. CASE a \in thr[t].held
      <4>1. PICK k \in 1..Len(thr[t].arr) : thr[t].arr[k] = a
        BY <1>1, <1>3, <3>1 DEF ThreadOK, WalkOK, Covers
      <4>2. /\ IF k < thr[t].i THEN Ty(a) < thr[t].type ELSE Ty(a) > thr[t].type
            /\ Ty(a) \in Int /\ thr[t].type \in Int
        BY <1>1, <1>9, <4>1, Due
      <4>3. QED BY <4>2
    <3>2. CASE a \notin thr[t].held
      <4>1. Ty(a) < thr[t].type /\ Ty(a) \in Int /\ thr[t].type \in Int
        BY <1>3, <1>9, <3>2 DEF TypeOK, Ty, ThreadType
      <4>2. QED BY <4>1
    <3>3. QED BY <3>1, <3>2
  <2>2. QED BY <1>9, <2>1
<1>11. assigned' = [assigned EXCEPT ![c] = @ \cup {i}] /\ assigned'[c] = assigned[c] \cup {i}
  BY <1>2, <1>3, <1>4 DEF Assign, TypeOK
<1>12. /\ \A j \in Inst : inst'[j].refs = inst[j].refs + Own(t, c, j)' - Own(t, c, j)
       /\ conn'[c].refs = conn[c].refs + Uses(t, c)' - Uses(t, c)
  <2>1. ASSUME NEW j \in Inst PROVE Own(t, c, j)' = Own(t, c, j) + One(j \in {i}) /\ Own(t, c, j) \in Int
    BY <1>4, <1>5, <1>6, <1>10, <1>11 DEF Own, One
  <2>2. Uses(t, c)' = Uses(t, c) /\ Uses(t, c) \in Int /\ conn[c].refs \in Int
    BY <1>1, <1>2, <1>3, <1>5, <1>6 DEF Uses, One, Ci, Finding, At, TypeOK
  <2>3. \A j \in Inst : inst[j].refs \in Int /\ One(j \in {i}) \in Int
    BY <1>3 DEF TypeOK, One
  <2>4. QED BY <1>1, <1>8, <2>1, <2>2, <2>3
<1>13. Walking(t)' /\ At(t, "assigned")' /\ Ci(t)' = c
  BY <1>5, <1>6 DEF Walking, At, Ci
<1>14. WalkOK(t)'
  <2>1. \A a \in assigned'[c] \ r.held : Ty(a)' < r.type \/ (r.pc = "assigned" /\ a = r.made)
    <3>1. ASSUME NEW a \in assigned[c] \ thr[t].held PROVE Ty(a)' < thr[t].type
      BY <1>3, <1>8, <1>9 DEF TypeOK
    <3>2. QED BY <1>5, <1>11, <3>1
  <2>2. /\ r.i \in 1..(Len(r.arr) + 1)
        /\ \A k \in 1..Len(r.arr) : IF k < r.i THEN Ty(r.arr[k]) < r.type ELSE Ty(r.arr[k]) >= r.type
    <3>1. /\ thr[t].i \in 1..(Len(thr[t].arr) + 1) /\ thr[t].type \in Int
          /\ \A k \in 1..Len(thr[t].arr) : Ty(thr[t].arr[k]) \in Int
          /\ \A k \in 1..Len(thr[t].arr) :
               IF k < thr[t].i THEN Ty(thr[t].arr[k]) < thr[t].type ELSE Ty(thr[t].arr[k]) > thr[t].type
      BY <1>1, <1>9, Due
    <3>2. QED BY <1>5, <3>1
  <2>3. r.i = thr[t].i /\ r.type = thr[t].type /\ ~Same(t) /\ r.type < Types /\ Ty(r.made)' = r.type
    <3>1. Ty(i)' = Ty(i) /\ r.made = i
      BY <1>5, <1>8
    <3>2. QED BY <1>5, <1>9, <3>1 DEF Ty
  <2>4. QED BY <1>1, <1>2, <1>5, <1>6, <1>8, <1>13, <2>1, <2>2, <2>3, WalkOn
<1>15. \A y : Has(c, y) => Has(c, y)'
  <2>1. \A a \in assigned[c] : Ty(a)' = Ty(a)
    BY <1>3, <1>8 DEF TypeOK
  <2>2. QED BY <1>11, <2>1 DEF Has
<1>16. FullOK(t)'
  <2> SUFFICES ASSUME r.full, ~r.gone
               PROVE  /\ r.held \subseteq assigned'[c]
                      /\ \A y \in 0..(r.type - 1) : Has(c, y)'
                      /\ r.made \in assigned'[c]
    BY <1>5, <1>6, <1>13 DEF FullOK, At
  <2>1. thr[t].held \subseteq assigned[c] /\ \A y \in 0..(thr[t].type - 1) : Has(c, y)
    BY <1>1, <1>2, <1>3, <1>5 DEF ThreadOK, FullOK
  <2>2. QED BY <1>5, <1>11, <1>15, <2>1
<1>17. NewOK(t)'
  <2> SUFFICES ASSUME r.arr = <<>> PROVE NewOK(t)'
    BY <1>5, <1>6, <1>13 DEF NewOK, Newborn
  <2>1. Newborn(t)
    BY <1>1, <1>5 DEF Newborn
  <2>2. ~conn[c].listed /\ (\A u \in Thread \ {t} : Ci(u) # c) /\ (thr[t].type = 0 \/ Has(c, 0))
    BY <1>1, <1>2, <1>3, <2>1 DEF ThreadOK, NewOK, At
  <2>3. Has(c, 0)'
    <3>1. CASE thr[t].type = 0
      <4>1. Ty(i)' = 0 /\ i \in assigned'[c]
        BY <1>8, <1>9, <1>11, <3>1
      <4>2. QED BY <4>1 DEF Has
    <3>2. QED BY <1>15, <2>2, <3>1
  <2>4. QED BY <1>1, <1>5, <1>6, <1>13, <2>2, <2>3 DEF NewOK, At, Ci
<1>18. PcOK(t)'
  BY <1>1, <1>3, <1>4, <1>5, <1>6, <1>13, Begun DEF ThreadOK, PcOK, At
<1>19. ConnOK(c)'
  <2>1. ConnOK(c) /\ conn[c].refs > 0
    BY <1>1, <1>2, Begun
  <2>2. \A a \in assigned'[c] : Ty(a)' = Ty(a)
    BY <1>3, <1>8, <1>11 DEF TypeOK
  <2>3. \A a, b \in assigned'[c] : Ty(a)' = Ty(b)' => a = b
    BY <1>9, <1>10, <1>11, <2>1, <2>2 DEF ConnOK
  <2>4. QED BY <1>1, <1>3, <1>15, <2>1, <2>3 DEF ConnOK, TypeOK
<1>20. /\ conn' \in [Conn -> [refs : Int, listed : BOOLEAN]] /\ assigned' \in [Conn -> SUBSET Inst]
       /\ \A d \in Conn \ {c} : assigned'[d] = assigned[d] /\ conn'[d] = conn[d]
       /\ ThreadOK(t)'
  BY <1>1, <1>3, <1>11, <1>14, <1>16, <1>17, <1>18 DEF TypeOK, ThreadOK
<1>21. QED BY <1>1, <1>2, <1>5, <1>8, <1>12, <1>19, <1>20, OwnStep

LEMMA GiveKeeps ==
  ASSUME LifecycleAssumption, IInv, NEW t \in Thread, Give(t)
  PROVE  IInv'
<1> DEFINE x == [[thr[t] EXCEPT !.i = @, !.type = @ + 1] EXCEPT !.made = None, !.pc = "walk"]
<1>1. /\ At(t, "assigned") /\ Walking(t) /\ ~At(t, "idle")
      /\ UNCHANGED <<conn, assigned, exiting, jobs>>
  BY DEF Give, Walking, At
<1>2. PICK c \in Conn : Ci(t) = c
  BY <1>1, Begun
<1>3. thr[t] \in ThreadType /\ thr \in [Thread -> ThreadType] /\ ThreadOK(t) /\ InstOK /\ TypeOK
  BY Begun DEF TypeOK
<1>4. PICK i \in Inst : thr[t].made = i
  BY <1>1, <1>3 DEF ThreadOK, PcOK, At, ThreadType
<1>5. /\ ~Same(t) /\ thr[t].type < Types /\ Ty(i) = thr[t].type
      /\ \A a \in assigned[c] \ thr[t].held : Ty(a) < thr[t].type \/ a = i
  BY <1>1, <1>2, <1>3, <1>4 DEF ThreadOK, WalkOK, At
<1>6. PICK r \in ThreadType :
         /\ thr' = [thr EXCEPT ![t] = r] /\ r.ci = c /\ r.pc = "walk" /\ r.i = thr[t].i
         /\ r.type = thr[t].type + 1 /\ r.held = thr[t].held /\ r.arr = thr[t].arr
         /\ r.full = thr[t].full /\ r.gone = thr[t].gone /\ r.made = None /\ r.mark = thr[t].mark
  <2>1. thr' = [thr EXCEPT ![t] = x]
    BY <1>3, <1>5 DEF Give, Advance, ThreadType
  <2>2. thr[t].type + 1 \in 0..Types /\ thr[t].i \in Nat
    BY <1>3, <1>5, Begun DEF ThreadType
  <2>3. [thr[t] EXCEPT !.i = @, !.type = @ + 1] \in ThreadType
    BY <1>3, <2>2 DEF ThreadType
  <2>4. x \in ThreadType
    BY <2>3 DEF ThreadType, Pc
  <2>5. /\ x.ci = thr[t].ci /\ x.pc = "walk" /\ x.i = thr[t].i /\ x.type = thr[t].type + 1
        /\ x.held = thr[t].held /\ x.arr = thr[t].arr /\ x.full = thr[t].full /\ x.gone = thr[t].gone
        /\ x.made = None /\ x.mark = thr[t].mark
    BY <1>3 DEF ThreadType
  <2> HIDE DEF x
  <2>6. QED BY <1>2, <1>4, <2>1, <2>4, <2>5 DEF Ci
<1> HIDE DEF x
<1>7. thr'[t] = r /\ \A u \in Thread \ {t} : thr'[u] = thr[u]
  BY <1>3, <1>6
<1>8. /\ InstOK' /\ Stable
      /\ \A j \in Inst : inst'[j].refs = inst[j].refs - One(j \in {i}) /\ Ty(j)' = Ty(j)
  <2>1. i \in Live
    BY <1>4, Begun, Holding
  <2>2. Deref({i}) /\ {i} \in SUBSET Live
    BY <1>4, <2>1 DEF Give, Given
  <2>3. QED BY <1>3, <2>2, DerefKeeps
<1>9. /\ \A j \in Inst : inst'[j].refs = inst[j].refs + Own(t, c, j)' - Own(t, c, j)
      /\ conn'[c].refs = conn[c].refs + Uses(t, c)' - Uses(t, c)
  <2>1. ASSUME NEW j \in Inst PROVE Own(t, c, j)' = Own(t, c, j) - One(j \in {i}) /\ Own(t, c, j) \in Int
    <3>1. None # j
      BY Begun
    <3>2. QED BY <1>1, <1>4, <1>6, <1>7, <3>1 DEF Own, One
  <2>2. Uses(t, c)' = Uses(t, c) /\ Uses(t, c) \in Int /\ conn[c].refs \in Int
    BY <1>1, <1>2, <1>3, <1>6, <1>7 DEF Uses, One, Ci, Finding, At, TypeOK
  <2>3. \A j \in Inst : inst[j].refs \in Int /\ One(j \in {i}) \in Int
    BY <1>3 DEF TypeOK, One
  <2>4. QED BY <1>1, <1>8, <2>1, <2>2, <2>3
<1>10. Walking(t)' /\ At(t, "walk")' /\ Ci(t)' = c
  BY <1>6, <1>7 DEF Walking, At, Ci
<1>11. WalkOK(t)'
  <2>1. \A a \in assigned'[c] \ r.held : Ty(a)' < r.type \/ (r.pc = "assigned" /\ a = r.made)
    <3>1. ASSUME NEW a \in assigned[c] \ thr[t].held PROVE Ty(a)' < thr[t].type + 1
      <4>1. Ty(a)' = Ty(a) /\ Ty(a) \in Int /\ thr[t].type \in Int /\ (Ty(a) < thr[t].type \/ Ty(a) = thr[t].type)
        BY <1>3, <1>5, <1>8 DEF TypeOK, Ty, ThreadType
      <4>2. QED BY <4>1
    <3>2. QED BY <1>1, <1>6, <3>1
  <2>2. /\ r.i \in 1..(Len(r.arr) + 1)
        /\ \A k \in 1..Len(r.arr) : IF k < r.i THEN Ty(r.arr[k]) < r.type ELSE Ty(r.arr[k]) >= r.type
    <3>1. /\ thr[t].i \in 1..(Len(thr[t].arr) + 1) /\ thr[t].type \in Int
          /\ \A k \in 1..Len(thr[t].arr) : Ty(thr[t].arr[k]) \in Int
          /\ \A k \in 1..Len(thr[t].arr) :
               IF k < thr[t].i THEN Ty(thr[t].arr[k]) < thr[t].type ELSE Ty(thr[t].arr[k]) > thr[t].type
      BY <1>1, <1>5, Due
    <3>2. QED BY <1>6, <3>1
  <2>3. QED BY <1>1, <1>2, <1>6, <1>7, <1>8, <1>10, <2>1, <2>2, WalkOn
<1>12. \A y : Has(c, y) => Has(c, y)'
  <2>1. \A a \in assigned[c] : Ty(a)' = Ty(a)
    BY <1>3, <1>8 DEF TypeOK
  <2>2. QED BY <1>1, <2>1 DEF Has
<1>13. FullOK(t)'
  <2> SUFFICES ASSUME r.full, ~r.gone
               PROVE  /\ r.held \subseteq assigned'[c]
                      /\ \A y \in 0..(r.type - 1) : Has(c, y)'
    BY <1>6, <1>7, <1>10 DEF FullOK, At
  <2>1. /\ thr[t].held \subseteq assigned[c] /\ \A y \in 0..(thr[t].type - 1) : Has(c, y)
        /\ i \in assigned[c]
    BY <1>1, <1>2, <1>3, <1>4, <1>6 DEF ThreadOK, FullOK
  <2>2. Has(c, thr[t].type)
    BY <1>5, <2>1 DEF Has
  <2>3. thr[t].type \in Nat
    BY <1>3 DEF ThreadType
  <2>4. QED BY <1>1, <1>6, <1>12, <2>1, <2>2, <2>3
<1>14. NewOK(t)'
  <2> SUFFICES ASSUME r.arr = <<>> PROVE NewOK(t)'
    BY <1>6, <1>7, <1>10 DEF NewOK, Newborn
  <2>1. Newborn(t)
    BY <1>1, <1>6 DEF Newborn
  <2>2. ~conn[c].listed /\ (\A u \in Thread \ {t} : Ci(u) # c) /\ Has(c, 0)
    BY <1>1, <1>2, <1>3, <2>1 DEF ThreadOK, NewOK, At
  <2>3. Has(c, 0)'
    BY <1>12, <2>2
  <2>4. QED BY <1>1, <1>6, <1>7, <1>10, <2>2, <2>3 DEF NewOK, At, Ci
<1>15. PcOK(t)'
  BY <1>1, <1>3, <1>6, <1>7, <1>10 DEF ThreadOK, PcOK, At
<1>16. /\ conn' \in [Conn -> [refs : Int, listed : BOOLEAN]] /\ assigned' \in [Conn -> SUBSET Inst]
       /\ \A d \in Conn \ {c} : assigned'[d] = assigned[d] /\ conn'[d] = conn[d]
       /\ assigned' = assigned /\ conn'[c].listed = conn[c].listed
       /\ ThreadOK(t)'
  BY <1>1, <1>3, <1>11, <1>13, <1>14, <1>15 DEF TypeOK, ThreadOK
<1>17. QED BY <1>1, <1>2, <1>6, <1>8, <1>9, <1>16, OwnStep

-----------------------------------------------------------------------------

LEMMA WalkEndsKeeps ==
  ASSUME LifecycleAssumption, IInv, NEW t \in Thread, WalkEnds(t)
  PROVE  IInv'
<1> DEFINE x == [thr[t] EXCEPT !.pc = "release"]
<1>1. /\ At(t, "walk") /\ Walking(t) /\ ~At(t, "idle")
      /\ UNCHANGED <<assigned, exiting, jobs>> /\ UNCHANGED classifiers
  BY DEF WalkEnds, Walking, At
<1>2. PICK c \in Conn : Ci(t) = c
  BY <1>1, Begun
<1>3. thr[t] \in ThreadType /\ thr \in [Thread -> ThreadType] /\ ThreadOK(t) /\ InstOK /\ TypeOK
  BY Begun DEF TypeOK
<1>4. PICK r \in ThreadType :
         /\ thr' = [thr EXCEPT ![t] = r] /\ r.ci = c /\ r.pc = "release"
         /\ r.held = thr[t].held /\ r.made = thr[t].made /\ r.mark = thr[t].mark
  <2>1. thr' = [thr EXCEPT ![t] = x]
    BY <1>3 DEF WalkEnds, Goto
  <2>2. x \in ThreadType
    BY <1>3 DEF ThreadType, Pc
  <2>3. /\ x.ci = thr[t].ci /\ x.pc = "release"
        /\ x.held = thr[t].held /\ x.made = thr[t].made /\ x.mark = thr[t].mark
    BY <1>3 DEF ThreadType
  <2> HIDE DEF x
  <2>4. QED BY <1>2, <2>1, <2>2, <2>3 DEF Ci
<1> HIDE DEF x
<1>5. thr'[t] = r /\ \A u \in Thread \ {t} : thr'[u] = thr[u]
  BY <1>3, <1>4
<1>6. InstOK' /\ Stable /\ inst' = inst
  BY <1>1, <1>3, SameKeeps
<1>7. /\ conn' \in [Conn -> [refs : Int, listed : BOOLEAN]]
      /\ \A d \in Conn \ {c} : conn'[d] = conn[d]
      /\ IF thr[t].arr = <<>>
         THEN ~conn[c].listed /\ conn'[c].listed /\ conn'[c].refs = conn[c].refs + 1 /\ Has(c, 0)
         ELSE conn' = conn
  <2>1. CASE thr[t].arr # <<>>
    BY <1>3, <2>1 DEF WalkEnds, TypeOK
  <2>2. CASE thr[t].arr = <<>>
    <3>1. conn' = [conn EXCEPT ![c] = [refs |-> conn[c].refs + 1, listed |-> TRUE]]
      BY <1>2, <1>3, <2>2 DEF WalkEnds, TypeOK
    <3>2. Newborn(t)
      BY <1>1, <2>2 DEF Newborn
    <3>3. ~conn[c].listed /\ Has(c, 0)
      BY <1>1, <1>2, <1>3, <3>2 DEF ThreadOK, NewOK, At
    <3>4. QED BY <1>3, <2>2, <3>1, <3>3 DEF TypeOK
  <2>3. QED BY <2>1, <2>2
<1>8. /\ \A i \in Inst : inst'[i].refs = inst[i].refs + Own(t, c, i)' - Own(t, c, i)
      /\ conn'[c].refs = conn[c].refs + Uses(t, c)' - Uses(t, c)
  <2>1. ASSUME NEW i \in Inst PROVE Own(t, c, i)' = Own(t, c, i) /\ Own(t, c, i) \in Int /\ inst[i].refs \in Int
    BY <1>1, <1>3, <1>4, <1>5 DEF Own, One, TypeOK
  <2>2. /\ Uses(t, c)' = Uses(t, c) + One(thr[t].arr = <<>>)
        /\ Uses(t, c) \in Int /\ conn[c].refs \in Int /\ conn'[c].refs = conn[c].refs + One(thr[t].arr = <<>>)
    BY <1>1, <1>2, <1>3, <1>4, <1>5, <1>7 DEF Uses, One, Ci, Finding, At, TypeOK
  <2>3. One(thr[t].arr = <<>>) \in Int
    BY DEF One
  <2>4. QED BY <1>6, <2>1, <2>2, <2>3
<1>9. ConnOK(c)'
  <2>1. ConnOK(c) /\ conn[c].refs > 0 /\ conn[c].refs \in Int
    BY <1>1, <1>2, <1>3, Begun DEF TypeOK
  <2>2. \A y : Has(c, y) => Has(c, y)'
    BY <1>1, <1>6 DEF Has, Ty
  <2>3. conn'[c].refs # 0 /\ (conn'[c].listed => Has(c, 0))
    BY <1>7, <2>1 DEF ConnOK
  <2>4. QED BY <1>1, <1>6, <2>1, <2>2, <2>3 DEF ConnOK, Ty
<1>10. ~Walking(t)' /\ thr'[t].pc \notin {"default", "tracker", "tracked", "drop"} /\ PcOK(t)'
  BY <1>1, <1>2, <1>3, <1>4, <1>5 DEF Walking, ThreadOK, PcOK, At, Ci
<1>11. ThreadOK(t)'
  BY <1>10, Past
<1>12. /\ conn' \in [Conn -> [refs : Int, listed : BOOLEAN]] /\ assigned' \in [Conn -> SUBSET Inst]
       /\ \A d \in Conn \ {c} : assigned'[d] = assigned[d] /\ conn'[d] = conn[d]
       /\ exiting' = exiting /\ jobs' = jobs
  BY <1>1, <1>3, <1>7 DEF TypeOK
<1>13. thr' = [thr EXCEPT ![t] = r] /\ r.ci = c /\ Walking(t) /\ ~Walking(t)'
  BY <1>1, <1>4, <1>10
<1>14. QED BY <1>2, <1>6, <1>8, <1>9, <1>11, <1>12, <1>13, OwnStep

-----------------------------------------------------------------------------
(* A new connection's DEFAULT classifier.                                  *)

(* Its memory and that of its tracker, or neither.                         *)
LEMMA DefaultGoesOn ==
  ASSUME LifecycleAssumption, IInv, NEW t \in Thread,
         thr[t].pc \in {"default", "tracker", "tracked"},
         NEW pc \in {"tracker", "tracked", "drop"}, Goto(t, pc),
         UNCHANGED <<inst, links, defaults>>, UNCHANGED <<conn, assigned, exiting, jobs>>
  PROVE  IInv'
<1> DEFINE x == [thr[t] EXCEPT !.pc = pc]
<1>1. Newborn(t) /\ ~At(t, "idle")
  BY DEF Newborn, At
<1>2. PICK c \in Conn : Ci(t) = c
  BY <1>1, Begun
<1>3. thr[t] \in ThreadType /\ thr \in [Thread -> ThreadType] /\ ThreadOK(t) /\ InstOK /\ TypeOK
  BY Begun DEF TypeOK
<1>4. PICK r \in ThreadType :
         /\ thr' = [thr EXCEPT ![t] = r] /\ r.ci = c /\ r.pc = pc
         /\ r.held = thr[t].held /\ r.made = thr[t].made /\ r.mark = thr[t].mark
         /\ pc # "drop" => r = [Idle EXCEPT !.pc = pc, !.ci = c]
  <2>1. thr' = [thr EXCEPT ![t] = x]
    BY <1>3 DEF Goto
  <2>2. x \in ThreadType
    BY <1>3 DEF ThreadType, Pc
  <2>3. /\ x.ci = thr[t].ci /\ x.pc = pc
        /\ x.held = thr[t].held /\ x.made = thr[t].made /\ x.mark = thr[t].mark
    BY <1>3 DEF ThreadType
  <2>4. x = [Idle EXCEPT !.pc = pc, !.ci = c]
    <3>1. thr[t] = [Idle EXCEPT !.pc = thr[t].pc, !.ci = c]
      BY <1>1, <1>2, <1>3 DEF ThreadOK, NewOK
    <3>2. QED BY <3>1 DEF Idle
  <2> HIDE DEF x
  <2>5. QED BY <1>2, <2>1, <2>2, <2>3, <2>4 DEF Ci
<1> HIDE DEF x
<1>5. thr'[t] = r /\ \A u \in Thread \ {t} : thr'[u] = thr[u]
  BY <1>3, <1>4
<1>6. InstOK' /\ Stable /\ inst' = inst
  BY <1>3, StillKeeps
<1>7. /\ \A i \in Inst : inst'[i].refs = inst[i].refs + Own(t, c, i)' - Own(t, c, i)
      /\ conn'[c].refs = conn[c].refs + Uses(t, c)' - Uses(t, c)
  <2>1. ASSUME NEW i \in Inst PROVE Own(t, c, i)' = Own(t, c, i) /\ Own(t, c, i) \in Int /\ inst[i].refs \in Int
    BY <1>3, <1>4, <1>5 DEF Own, One, TypeOK
  <2>2. Uses(t, c)' = Uses(t, c) /\ Uses(t, c) \in Int /\ conn[c].refs \in Int
    BY <1>2, <1>3, <1>4, <1>5 DEF Uses, One, Ci, Finding, At, TypeOK
  <2>3. QED BY <1>6, <2>1, <2>2
<1>8. /\ ~conn[c].listed /\ (\A u \in Thread \ {t} : Ci(u) # c) /\ assigned[c] = {}
      /\ thr[t].held = {} /\ thr[t].made = None /\ thr[t].mark = None
  BY <1>1, <1>2, <1>3 DEF ThreadOK, NewOK, PcOK, At
<1>9. Ci(t)' = c /\ ~Walking(t)' /\ (\A u \in Thread \ {t} : Ci(u)' # c)
  BY <1>4, <1>5, <1>8 DEF Walking, Ci
<1>10. ThreadOK(t)'
  <2>1. PcOK(t)'
    BY <1>4, <1>5, <1>8, <1>9 DEF PcOK, At
  <2>2. NewOK(t)'
    BY <1>4, <1>5, <1>8, <1>9 DEF NewOK, At
  <2>3. QED BY <1>9, <2>1, <2>2 DEF ThreadOK, WalkOK, FullOK
<1>11. /\ conn' \in [Conn -> [refs : Int, listed : BOOLEAN]] /\ assigned' \in [Conn -> SUBSET Inst]
       /\ \A d \in Conn \ {c} : assigned'[d] = assigned[d] /\ conn'[d] = conn[d]
       /\ assigned' = assigned /\ conn'[c].listed = conn[c].listed
  BY <1>3 DEF TypeOK
<1>12. QED BY <1>1, <1>2, <1>4, <1>6, <1>7, <1>10, <1>11, OwnStep

LEMMA DefaultMakes ==
  ASSUME LifecycleAssumption, IInv, NEW t \in Thread, At(t, "tracked"), NEW i \in Fresh,
         inst' = [inst EXCEPT ![i] = [type |-> 0, refs |-> 1]],
         defaults' = defaults + 1,
         thr' = [thr EXCEPT ![t].made = i, ![t].pc = "made"],
         UNCHANGED links, UNCHANGED <<conn, assigned, exiting, jobs>>
  PROVE  IInv'
<1> DEFINE x == [thr[t] EXCEPT !.made = i, !.pc = "made"]
<1>1. Newborn(t) /\ ~At(t, "idle")
  BY DEF Newborn, At
<1>2. PICK c \in Conn : Ci(t) = c
  BY <1>1, Begun
<1>3. thr[t] \in ThreadType /\ thr \in [Thread -> ThreadType] /\ ThreadOK(t) /\ InstOK /\ TypeOK
  BY Begun DEF TypeOK
<1>4. /\ ~conn[c].listed /\ (\A u \in Thread \ {t} : Ci(u) # c) /\ assigned[c] = {}
      /\ thr[t] = [Idle EXCEPT !.pc = "tracked", !.ci = c]
  BY <1>1, <1>2, <1>3 DEF ThreadOK, NewOK, At
<1>5. /\ thr[t].held = {} /\ thr[t].made = None /\ thr[t].mark = None /\ thr[t].arr = <<>>
      /\ thr[t].i = 1 /\ thr[t].type = 0
  BY <1>4 DEF Idle
<1>6. PICK r \in ThreadType :
         /\ thr' = [thr EXCEPT ![t] = r] /\ r.ci = c /\ r.pc = "made" /\ r.i = 1
         /\ r.type = 0 /\ r.held = {} /\ r.arr = <<>> /\ r.made = i /\ r.mark = None
  <2>1. i \in Inst
    BY DEF Fresh
  <2>2. x \in ThreadType
    BY <1>3, <2>1 DEF ThreadType, Pc
  <2>3. /\ x.ci = thr[t].ci /\ x.pc = "made" /\ x.i = thr[t].i /\ x.type = thr[t].type
        /\ x.held = thr[t].held /\ x.arr = thr[t].arr /\ x.made = i /\ x.mark = thr[t].mark
    BY <1>3 DEF ThreadType
  <2>4. thr' = [thr EXCEPT ![t] = x]
    BY <1>3
  <2> HIDE DEF x
  <2>5. QED BY <1>2, <1>5, <2>2, <2>3, <2>4 DEF Ci
<1> HIDE DEF x
<1>7. thr'[t] = r /\ \A u \in Thread \ {t} : thr'[u] = thr[u]
  BY <1>3, <1>6
<1>8. /\ i \in Inst \ Live /\ InstOK' /\ Stable
      /\ Ty(i)' = 0 /\ inst'[i].refs = 1
      /\ \A j \in Inst \ {i} : inst'[j] = inst[j]
  <2>1. 0 \in 0..(Types - 1) /\ MARK # 0
    BY Begun
  <2>2. defaults' = defaults + One(0 = 0)
    BY DEF One
  <2>3. IF 0 = MARK THEN Linked(i) ELSE UNCHANGED links
    BY <2>1
  <2>4. QED BY <1>3, <2>1, <2>2, <2>3, FreshKeeps
<1>9. /\ \A j \in Inst : inst'[j].refs = inst[j].refs + Own(t, c, j)' - Own(t, c, j)
      /\ conn'[c].refs = conn[c].refs + Uses(t, c)' - Uses(t, c)
  <2>1. \A j \in Inst : inst'[j].refs = inst[j].refs + Own(t, c, j)' - Own(t, c, j)
    <3>1. /\ i \in Inst \ Live /\ inst'[i].refs = 1 /\ \A j \in Inst \ {i} : inst'[j] = inst[j]
          /\ UNCHANGED assigned /\ thr[t].made = None /\ thr'[t].made = i
          /\ thr'[t].held = thr[t].held /\ thr'[t].mark = thr[t].mark
      BY <1>5, <1>6, <1>7, <1>8
    <3>2. QED BY <3>1, MakesOne
  <2>2. Uses(t, c)' = Uses(t, c) /\ Uses(t, c) \in Int /\ conn[c].refs \in Int
    BY <1>2, <1>3, <1>6, <1>7 DEF Uses, One, Ci, Finding, At, TypeOK
  <2>3. QED BY <2>1, <2>2
<1>10. /\ Walking(t)' /\ At(t, "made")' /\ Ci(t)' = c /\ \A u \in Thread \ {t} : Ci(u)' # c
       /\ i # None /\ Types > 0
  <2>1. i # None /\ Types > 0
    BY <1>8, Begun
  <2>2. QED BY <1>4, <1>6, <1>7, <2>1 DEF Walking, At, Ci
<1>11. Len(r.arr) = 0 /\ 1..Len(r.arr) = {} /\ 1..0 = {} /\ 0..(-1) = {} /\ 0 - 1 = -1 /\ ~(1 <= 0)
  BY <1>6
<1>12. WalkOK(t)'
  <2>1. Covers(r.held, r.arr)' /\ Ascends(r.arr)' /\ InStep(r)'
    BY <1>6, <1>11 DEF Covers, Ascends, InStep
  <2>2. ~Same(t)' /\ Ty(r.made)' = r.type
    BY <1>6, <1>7, <1>8, <1>11 DEF Same, More, Ty
  <2>3. QED BY <1>4, <1>6, <1>7, <1>10, <1>11, <2>1, <2>2 DEF WalkOK, At, Covers, Ascends, InStep, Ty
<1>13. FullOK(t)'
  BY <1>6, <1>7, <1>10, <1>11 DEF FullOK, At
<1>14. NewOK(t)'
  BY <1>4, <1>6, <1>7, <1>10 DEF NewOK, At, Ci
<1>15. PcOK(t)'
  BY <1>6, <1>7, <1>10 DEF PcOK, At
<1>16. /\ conn' \in [Conn -> [refs : Int, listed : BOOLEAN]] /\ assigned' \in [Conn -> SUBSET Inst]
       /\ \A d \in Conn \ {c} : assigned'[d] = assigned[d] /\ conn'[d] = conn[d]
       /\ assigned' = assigned /\ conn'[c].listed = conn[c].listed
       /\ ThreadOK(t)'
  BY <1>3, <1>12, <1>13, <1>14, <1>15 DEF TypeOK, ThreadOK
<1>17. /\ thr' = [thr EXCEPT ![t] = r] /\ r.ci = c /\ Newborn(t) /\ exiting' = exiting /\ jobs' = jobs
  BY <1>1, <1>6
<1>18. QED BY <1>2, <1>8, <1>9, <1>16, <1>17, OwnStep

-----------------------------------------------------------------------------
(* process(), and the end of a packet.                                     *)

(* A step that changes no more than the point, the MARK instance asked and *)
(* the classifiers held of a thread, and references.                       *)
LEMMA PlainStep ==
  ASSUME LifecycleAssumption, IInv, NEW t \in Thread, NEW c \in Conn, Ci(t) = c,
         thr[t].made = None,
         NEW r \in ThreadType, thr' = [thr EXCEPT ![t] = r], r.ci = c, r.made = None,
         r.pc \in {"look", "asked", "put", "decide", "release"},
         r.mark # None <=> r.pc = "asked",
         InstOK', Stable, assigned' = assigned, exiting' = exiting, jobs' = jobs,
         conn' \in [Conn -> [refs : Int, listed : BOOLEAN]],
         \A d \in Conn \ {c} : conn'[d] = conn[d],
         conn'[c].listed = conn[c].listed,
         conn'[c].refs = conn[c].refs + One(r.pc \in {"look", "asked", "put"}) - One(Finding(t)),
         \A i \in Inst : inst'[i].refs = inst[i].refs + One(i \in r.held) - One(i \in thr[t].held)
                                           + One(i = r.mark) - One(i = thr[t].mark)
  PROVE  IInv'
<1>1. thr[t] \in ThreadType /\ thr \in [Thread -> ThreadType] /\ TypeOK /\ None \notin Inst
  BY Begun DEF TypeOK
<1>2. thr'[t] = r /\ \A u \in Thread \ {t} : thr'[u] = thr[u]
  BY <1>1
<1>3. ASSUME NEW i \in Inst PROVE inst'[i].refs = inst[i].refs + Own(t, c, i)' - Own(t, c, i)
  <2>1. /\ Own(t, c, i)' = One(i \in assigned[c]) + One(i \in r.held) + One(i = r.mark)
        /\ Own(t, c, i) = One(i \in assigned[c]) + One(i \in thr[t].held) + One(i = thr[t].mark)
    BY <1>1, <1>2 DEF Own, One
  <2>2. /\ One(i \in assigned[c]) \in Int /\ One(i \in r.held) \in Int /\ One(i = r.mark) \in Int
        /\ One(i \in thr[t].held) \in Int /\ One(i = thr[t].mark) \in Int
    BY DEF One
  <2>3. inst[i].refs \in Int
    BY <1>1 DEF TypeOK
  <2>4. inst'[i].refs = inst[i].refs + One(i \in r.held) - One(i \in thr[t].held)
                          + One(i = r.mark) - One(i = thr[t].mark)
    OBVIOUS
  <2>5. QED BY <2>1, <2>2, <2>3, <2>4
<1>4. conn'[c].refs = conn[c].refs + Uses(t, c)' - Uses(t, c)
  <2>1. /\ Uses(t, c) = One(conn[c].listed) + 1 + One(Finding(t))
        /\ Uses(t, c)' = One(conn[c].listed) + 1 + One(r.pc \in {"look", "asked", "put"})
    BY <1>2 DEF Uses, One, Ci, Finding
  <2>2. One(conn[c].listed) \in Int /\ One(Finding(t)) \in Int /\ One(r.pc \in {"look", "asked", "put"}) \in Int
    BY DEF One
  <2>3. conn[c].refs \in Int
    BY <1>1 DEF TypeOK
  <2>4. QED BY <2>1, <2>2, <2>3
<1>5. ~Walking(t)' /\ thr'[t].pc \notin {"default", "tracker", "tracked", "drop"} /\ PcOK(t)'
  BY <1>2 DEF Walking, PcOK, At, Ci
<1>6. ThreadOK(t)' /\ (Walking(t)' => Walking(t) \/ Newborn(t))
  BY <1>5, Past
<1>7. assigned' \in [Conn -> SUBSET Inst] /\ \A d \in Conn \ {c} : assigned'[d] = assigned[d] /\ conn'[d] = conn[d]
  BY <1>1 DEF TypeOK
<1>8. \A i \in Inst : inst'[i].refs = inst[i].refs + Own(t, c, i)' - Own(t, c, i)
  BY <1>3
<1>9. assigned' = assigned /\ conn'[c].listed = conn[c].listed
  OBVIOUS
<1>10. QED BY <1>4, <1>6, <1>7, <1>8, <1>9, OwnStep

LEMMA FindKeeps ==
  ASSUME LifecycleAssumption, IInv, NEW t \in Thread, Find(t)
  PROVE  IInv'
<1>1. At(t, "process") /\ ~At(t, "idle") /\ assigned' = assigned /\ exiting' = exiting /\ jobs' = jobs
      /\ UNCHANGED classifiers
  BY DEF Find, At
<1>2. PICK c \in Conn : Ci(t) = c
  BY <1>1, Begun
<1>3. /\ thr[t] \in ThreadType /\ thr \in [Thread -> ThreadType] /\ TypeOK /\ InstOK
      /\ thr[t].made = None /\ thr[t].mark = None /\ None \notin Inst
  BY <1>1, Begun DEF TypeOK, ThreadOK, PcOK, At
<1>4. InstOK' /\ Stable /\ inst' = inst
  BY <1>1, <1>3, SameKeeps
<1>5. PICK pc \in {"look", "release"} :
        /\ thr' = [thr EXCEPT ![t] = [thr[t] EXCEPT !.pc = pc]]
        /\ conn' = IF pc = "look" THEN [conn EXCEPT ![c] = [conn[c] EXCEPT !.refs = @ + 1]] ELSE conn
  <2>1. CASE conn[c].listed
    <3>1. thr' = [thr EXCEPT ![t] = [thr[t] EXCEPT !.pc = "look"]]
      BY <1>2, <1>3, <2>1 DEF Find, Goto
    <3>2. conn' = [conn EXCEPT ![c] = [conn[c] EXCEPT !.refs = @ + 1]]
      BY <1>2, <1>3, <2>1 DEF Find, RefConn, TypeOK
    <3>3. QED BY <3>1, <3>2
  <2>2. CASE ~conn[c].listed
    <3>1. thr' = [thr EXCEPT ![t] = [thr[t] EXCEPT !.pc = "release"]]
      BY <1>2, <1>3, <2>2 DEF Find, Goto
    <3>2. conn' = conn
      BY <1>2, <2>2 DEF Find
    <3>3. QED BY <3>1, <3>2
  <2>3. QED BY <2>1, <2>2
<1>6. PICK r \in ThreadType :
        thr' = [thr EXCEPT ![t] = r] /\ r.ci = c /\ r.pc = pc /\ r.held = thr[t].held /\ r.made = None /\ r.mark = None
  <2>1. pc \in Pc /\ thr[t].mark \in Inst \cup {None} /\ thr[t].held \in SUBSET Inst
    BY <1>3 DEF Pc, ThreadType
  <2> DEFINE x == [thr[t] EXCEPT !.pc = pc]
  <2>2. x \in ThreadType /\ x.pc = pc /\ x.ci = thr[t].ci /\ x.held = thr[t].held /\ x.made = thr[t].made /\ x.mark = thr[t].mark
    BY <1>3, <2>1 DEF ThreadType
  <2>3. thr' = [thr EXCEPT ![t] = x]
    BY <1>5
  <2> HIDE DEF x
  <2>4. QED BY <1>2, <1>3, <2>2, <2>3 DEF Ci
<1>7. /\ conn' \in [Conn -> [refs : Int, listed : BOOLEAN]]
      /\ \A d \in Conn \ {c} : conn'[d] = conn[d]
      /\ conn'[c].listed = conn[c].listed
      /\ conn'[c].refs = conn[c].refs + One(r.pc \in {"look", "asked", "put"}) - One(Finding(t))
  <2>1. conn[c] \in [refs : Int, listed : BOOLEAN]
    BY <1>3 DEF TypeOK
  <2>2. One(Finding(t)) = 0 /\ One(r.pc \in {"look", "asked", "put"}) = IF pc = "look" THEN 1 ELSE 0
    BY <1>1, <1>6 DEF One, Finding, At
  <2>3. conn'[c].refs = IF pc = "look" THEN conn[c].refs + 1 ELSE conn[c].refs
    BY <1>3, <1>5, <2>1 DEF TypeOK
  <2>4. conn'[c].refs = conn[c].refs + One(r.pc \in {"look", "asked", "put"}) - One(Finding(t))
    BY <2>1, <2>2, <2>3
  <2>5. /\ conn' \in [Conn -> [refs : Int, listed : BOOLEAN]]
        /\ \A d \in Conn \ {c} : conn'[d] = conn[d]
        /\ conn'[c].listed = conn[c].listed
    BY <1>3, <1>5, <2>1 DEF TypeOK
  <2>6. QED BY <2>4, <2>5
<1>8. \A i \in Inst : inst'[i].refs = inst[i].refs + One(i \in r.held) - One(i \in thr[t].held)
                                        + One(i = r.mark) - One(i = thr[t].mark)
  BY <1>3, <1>4, <1>6 DEF One, TypeOK
<1>9. r.pc \in {"look", "asked", "put", "decide", "release"} /\ (r.mark # None <=> r.pc = "asked")
  BY <1>6
<1>10. thr[t].made = None
  BY <1>3
<1>11. InstOK' /\ Stable /\ assigned' = assigned /\ exiting' = exiting /\ jobs' = jobs
  BY <1>1, <1>4
<1>12. thr' = [thr EXCEPT ![t] = r] /\ r.ci = c /\ r.made = None
  BY <1>6
<1>13. QED BY <1>2, <1>7, <1>8, <1>9, <1>10, <1>11, <1>12, PlainStep

LEMMA LookKeeps ==
  ASSUME LifecycleAssumption, IInv, NEW t \in Thread, Look(t)
  PROVE  IInv'
<1>1. At(t, "look") /\ ~At(t, "idle") /\ conn' = conn /\ assigned' = assigned /\ exiting' = exiting /\ jobs' = jobs
      /\ UNCHANGED <<links, defaults>>
  BY DEF Look, At, memory
<1>2. PICK c \in Conn : Ci(t) = c
  BY <1>1, Begun
<1>3. /\ thr[t] \in ThreadType /\ thr \in [Thread -> ThreadType] /\ TypeOK /\ InstOK
      /\ thr[t].made = None /\ thr[t].mark = None /\ None \notin Inst
  BY <1>1, Begun DEF TypeOK, ThreadOK, PcOK, At
<1>4. PICK m \in Inst \cup {None}, pc \in {"asked", "put"} :
        /\ m # None <=> pc = "asked"
        /\ \/ thr' = [thr EXCEPT ![t] = [thr[t] EXCEPT !.mark = m, !.pc = pc]]
           \/ m = None /\ thr' = [thr EXCEPT ![t] = [thr[t] EXCEPT !.pc = pc]]
        /\ InstOK' /\ Stable
        /\ \A i \in Inst : inst'[i].refs = inst[i].refs + One(i = m)
  <2>1. CASE OfType(assigned[c], MARK) = {}
    <3>1. Goto(t, "put") /\ UNCHANGED inst
      BY <1>2, <2>1 DEF Look
    <3>2. InstOK' /\ Stable /\ inst' = inst
      BY <1>1, <1>3, <3>1, StillKeeps
    <3>3. thr' = [thr EXCEPT ![t] = [thr[t] EXCEPT !.pc = "put"]]
      BY <1>3, <3>1 DEF Goto
    <3>4. \A i \in Inst : inst'[i].refs = inst[i].refs + One(i = None)
      BY <1>3, <3>2 DEF One, TypeOK
    <3>5. QED BY <3>2, <3>3, <3>4
  <2>2. CASE OfType(assigned[c], MARK) # {}
    <3>1. PICK m \in OfType(assigned[c], MARK) :
            Ref({m}) /\ thr' = [thr EXCEPT ![t].mark = m, ![t].pc = "asked"]
      BY <1>2, <2>2 DEF Look
    <3>2. {m} \in SUBSET Live /\ m \in Inst /\ m # None
      BY <1>3, Begun, Holding DEF OfType, Live
    <3>3. /\ InstOK' /\ Stable
          /\ \A i \in Inst : inst'[i].refs = inst[i].refs + One(i \in {m})
      BY <1>1, <1>3, <3>1, <3>2, RefKeeps
    <3>4. \A i \in Inst : inst'[i].refs = inst[i].refs + One(i = m)
      BY <3>3 DEF One
    <3>5. thr' = [thr EXCEPT ![t] = [thr[t] EXCEPT !.mark = m, !.pc = "asked"]]
      BY <1>3, <3>1
    <3>6. QED BY <3>2, <3>3, <3>4, <3>5
  <2>3. QED BY <2>1, <2>2, Zenon
<1>5. PICK r \in ThreadType :
        thr' = [thr EXCEPT ![t] = r] /\ r.ci = c /\ r.pc = pc /\ r.held = thr[t].held /\ r.made = None /\ r.mark = m
  <2>1. pc \in Pc /\ thr[t].mark \in Inst \cup {None} /\ thr[t].held \in SUBSET Inst
    BY <1>3 DEF Pc, ThreadType
  <2>2. CASE thr' = [thr EXCEPT ![t] = [thr[t] EXCEPT !.mark = m, !.pc = pc]]
    <3> DEFINE x == [thr[t] EXCEPT !.mark = m, !.pc = pc]
    <3>1. x \in ThreadType /\ x.pc = pc /\ x.ci = thr[t].ci /\ x.held = thr[t].held /\ x.made = thr[t].made /\ x.mark = m
      BY <1>3, <2>1 DEF ThreadType
    <3>2. thr' = [thr EXCEPT ![t] = x]
      BY <2>2
    <3> HIDE DEF x
    <3>3. QED BY <1>2, <1>3, <3>1, <3>2 DEF Ci
  <2>3. CASE m = None /\ thr' = [thr EXCEPT ![t] = [thr[t] EXCEPT !.pc = pc]]
    <3> DEFINE x == [thr[t] EXCEPT !.pc = pc]
    <3>1. x \in ThreadType /\ x.pc = pc /\ x.ci = thr[t].ci /\ x.held = thr[t].held /\ x.made = thr[t].made /\ x.mark = thr[t].mark
      BY <1>3, <2>1 DEF ThreadType
    <3>2. thr' = [thr EXCEPT ![t] = x]
      BY <2>3
    <3> HIDE DEF x
    <3>3. QED BY <1>2, <1>3, <2>3, <3>1, <3>2 DEF Ci
  <2>4. QED BY <1>4, <2>2, <2>3
<1>6. /\ conn' \in [Conn -> [refs : Int, listed : BOOLEAN]]
      /\ \A d \in Conn \ {c} : conn'[d] = conn[d]
      /\ conn'[c].listed = conn[c].listed
      /\ conn'[c].refs = conn[c].refs + One(r.pc \in {"look", "asked", "put"}) - One(Finding(t))
  BY <1>1, <1>3, <1>5 DEF TypeOK, One, Finding, At
<1>7. \A i \in Inst : inst'[i].refs = inst[i].refs + One(i \in r.held) - One(i \in thr[t].held)
                                        + One(i = r.mark) - One(i = thr[t].mark)
  BY <1>3, <1>4, <1>5 DEF One, TypeOK
<1>8. r.pc \in {"look", "asked", "put", "decide", "release"} /\ (r.mark # None <=> r.pc = "asked")
  BY <1>4, <1>5
<1>9. InstOK' /\ Stable
  BY <1>4
<1>10. thr[t].made = None
  BY <1>3
<1>11. InstOK' /\ Stable /\ assigned' = assigned /\ exiting' = exiting /\ jobs' = jobs
  BY <1>1, <1>9
<1>12. thr' = [thr EXCEPT ![t] = r] /\ r.ci = c /\ r.made = None
  BY <1>5
<1>13. QED BY <1>2, <1>6, <1>7, <1>8, <1>10, <1>11, <1>12, PlainStep

LEMMA AskedKeeps ==
  ASSUME LifecycleAssumption, IInv, NEW t \in Thread, Asked(t)
  PROVE  IInv'
<1>1. At(t, "asked") /\ ~At(t, "idle") /\ conn' = conn /\ assigned' = assigned /\ exiting' = exiting /\ jobs' = jobs
  BY DEF Asked, At
<1>2. PICK c \in Conn : Ci(t) = c
  BY <1>1, Begun
<1>3. /\ thr[t] \in ThreadType /\ thr \in [Thread -> ThreadType] /\ TypeOK /\ InstOK
      /\ thr[t].made = None /\ thr[t].mark # None /\ None \notin Inst
  BY <1>1, Begun DEF TypeOK, ThreadOK, PcOK, At
<1>4. PICK m \in Live : thr[t].mark = m
  BY <1>3, Begun, Holding
<1>5. /\ InstOK' /\ Stable
      /\ \A i \in Inst : inst'[i].refs = inst[i].refs - One(i \in {m})
  <2>1. Deref({m}) /\ {m} \in SUBSET Live /\ \A i, j \in {m} : Ty(i) = Ty(j) => i = j
    BY <1>4 DEF Asked
  <2>2. QED BY <1>3, <2>1, DerefKeeps
<1>6. PICK r \in ThreadType :
        thr' = [thr EXCEPT ![t] = r] /\ r.ci = c /\ r.pc = "put" /\ r.held = thr[t].held /\ r.made = None /\ r.mark = None
  <2> DEFINE x == [thr[t] EXCEPT !.mark = None, !.pc = "put"]
  <2>1. "put" \in Pc /\ None \in Inst \cup {None} /\ thr[t].held \in SUBSET Inst
    BY <1>3 DEF Pc, ThreadType
  <2>2. x \in ThreadType /\ x.pc = "put" /\ x.ci = thr[t].ci /\ x.held = thr[t].held /\ x.made = thr[t].made /\ x.mark = None
    BY <1>3, <2>1 DEF ThreadType
  <2>3. thr' = [thr EXCEPT ![t] = x]
    BY <1>3 DEF Asked
  <2> HIDE DEF x
  <2>4. QED BY <1>2, <1>3, <2>2, <2>3 DEF Ci
<1>7. /\ conn' \in [Conn -> [refs : Int, listed : BOOLEAN]]
      /\ \A d \in Conn \ {c} : conn'[d] = conn[d]
      /\ conn'[c].listed = conn[c].listed
      /\ conn'[c].refs = conn[c].refs + One(r.pc \in {"look", "asked", "put"}) - One(Finding(t))
  BY <1>1, <1>3, <1>6 DEF TypeOK, One, Finding, At
<1>8. \A i \in Inst : inst'[i].refs = inst[i].refs + One(i \in r.held) - One(i \in thr[t].held)
                                        + One(i = r.mark) - One(i = thr[t].mark)
  BY <1>3, <1>4, <1>5, <1>6 DEF One, TypeOK
<1>9. r.pc \in {"look", "asked", "put", "decide", "release"} /\ (r.mark # None <=> r.pc = "asked")
  BY <1>6
<1>10. InstOK' /\ Stable
  BY <1>5
<1>11. thr[t].made = None
  BY <1>3
<1>12. InstOK' /\ Stable /\ assigned' = assigned /\ exiting' = exiting /\ jobs' = jobs
  BY <1>1, <1>10
<1>13. thr' = [thr EXCEPT ![t] = r] /\ r.ci = c /\ r.made = None
  BY <1>6
<1>14. QED BY <1>2, <1>7, <1>8, <1>9, <1>11, <1>12, <1>13, PlainStep

(* The caller's reference keeps the connection beyond process()'s own.     *)
LEMMA PutFoundKeeps ==
  ASSUME LifecycleAssumption, IInv, NEW t \in Thread, PutFound(t)
  PROVE  IInv'
<1>1. At(t, "put") /\ ~At(t, "idle") /\ exiting' = exiting /\ jobs' = jobs
  BY DEF PutFound, At
<1>2. PICK c \in Conn : Ci(t) = c
  BY <1>1, Begun
<1>3. /\ thr[t] \in ThreadType /\ thr \in [Thread -> ThreadType] /\ TypeOK /\ InstOK
      /\ thr[t].made = None /\ thr[t].mark = None /\ None \notin Inst
  BY <1>1, Begun DEF TypeOK, ThreadOK, PcOK, At
<1>4. conn[c].refs # 1
  <2>1. Uses(t, c) >= 2 /\ Uses(t, c) \in Int
    BY <1>1, <1>2 DEF Uses, One, Finding, At
  <2>2. conn[c].refs \in Nat /\ conn[c].refs >= Uses(t, c)
    BY Begun, AtLeast
  <2>3. QED BY <2>1, <2>2
<1>5. /\ assigned' = assigned /\ UNCHANGED classifiers
      /\ conn' = [conn EXCEPT ![c] = [refs |-> conn[c].refs - 1, listed |-> conn[c].listed]]
  BY <1>2, <1>4 DEF PutFound, DerefConn
<1>6. InstOK' /\ Stable /\ inst' = inst
  BY <1>3, <1>5, SameKeeps
<1>7. PICK r \in ThreadType :
        thr' = [thr EXCEPT ![t] = r] /\ r.ci = c /\ r.pc = "decide" /\ r.held = thr[t].held /\ r.made = None /\ r.mark = None
  <2> DEFINE x == [thr[t] EXCEPT !.pc = "decide"]
  <2>1. "decide" \in Pc /\ thr[t].mark \in Inst \cup {None} /\ thr[t].held \in SUBSET Inst
    BY <1>3 DEF Pc, ThreadType
  <2>2. x \in ThreadType /\ x.pc = "decide" /\ x.ci = thr[t].ci /\ x.held = thr[t].held /\ x.made = thr[t].made /\ x.mark = thr[t].mark
    BY <1>3, <2>1 DEF ThreadType
  <2>3. thr' = [thr EXCEPT ![t] = x]
    BY <1>3 DEF PutFound, Goto
  <2> HIDE DEF x
  <2>4. QED BY <1>2, <1>3, <2>2, <2>3 DEF Ci
<1>8. /\ conn' \in [Conn -> [refs : Int, listed : BOOLEAN]]
      /\ \A d \in Conn \ {c} : conn'[d] = conn[d]
      /\ conn'[c].listed = conn[c].listed
      /\ conn'[c].refs = conn[c].refs + One(r.pc \in {"look", "asked", "put"}) - One(Finding(t))
  BY <1>1, <1>3, <1>5, <1>7 DEF TypeOK, One, Finding, At
<1>9. \A i \in Inst : inst'[i].refs = inst[i].refs + One(i \in r.held) - One(i \in thr[t].held)
                                        + One(i = r.mark) - One(i = thr[t].mark)
  BY <1>3, <1>6, <1>7 DEF One, TypeOK
<1>10. r.pc \in {"look", "asked", "put", "decide", "release"} /\ (r.mark # None <=> r.pc = "asked")
  BY <1>7
<1>11. thr[t].made = None
  BY <1>3
<1>12. InstOK' /\ Stable /\ assigned' = assigned /\ exiting' = exiting /\ jobs' = jobs
  BY <1>1, <1>5, <1>6
<1>13. thr' = [thr EXCEPT ![t] = r] /\ r.ci = c /\ r.made = None
  BY <1>7
<1>14. QED BY <1>2, <1>8, <1>9, <1>10, <1>11, <1>12, <1>13, PlainStep

LEMMA ReleaseKeeps ==
  ASSUME LifecycleAssumption, IInv, NEW t \in Thread, Release(t)
  PROVE  IInv'
<1>1. At(t, "release") /\ ~At(t, "idle") /\ conn' = conn /\ assigned' = assigned /\ exiting' = exiting /\ jobs' = jobs
  BY DEF Release, At
<1>2. PICK c \in Conn : Ci(t) = c
  BY <1>1, Begun
<1>3. /\ thr[t] \in ThreadType /\ thr \in [Thread -> ThreadType] /\ TypeOK /\ InstOK
      /\ thr[t].made = None /\ thr[t].mark = None /\ None \notin Inst
  BY <1>1, Begun DEF TypeOK, ThreadOK, PcOK, At
<1>4. PICK i \in thr[t].held : Deref({i}) /\ thr' = [thr EXCEPT ![t].held = @ \ {i}]
  BY DEF Release
<1>5. i \in Live
  BY Begun, Holding
<1>6. /\ InstOK' /\ Stable
      /\ \A j \in Inst : inst'[j].refs = inst[j].refs - One(j \in {i})
  <2>1. {i} \in SUBSET Live /\ \A j, k \in {i} : Ty(j) = Ty(k) => j = k
    BY <1>5
  <2>2. QED BY <1>3, <1>4, <2>1, DerefKeeps
<1>7. PICK r \in ThreadType :
        /\ thr' = [thr EXCEPT ![t] = r] /\ r.ci = c /\ r.pc = "release" /\ r.held = thr[t].held \ {i}
        /\ r.made = None /\ r.mark = None
  <2> DEFINE h == thr[t].held \ {i}
             x == [thr[t] EXCEPT !.held = h]
  <2>1. thr[t].pc = "release" /\ "release" \in Pc /\ thr[t].mark \in Inst \cup {None} /\ h \in SUBSET Inst
    BY <1>1, <1>3 DEF Pc, ThreadType, At
  <2>2. thr' = [thr EXCEPT ![t] = x]
    BY <1>3, <1>4
  <2> HIDE DEF h
  <2>3. x \in ThreadType /\ x.pc = "release" /\ x.ci = thr[t].ci /\ x.held = h /\ x.made = thr[t].made /\ x.mark = thr[t].mark
    BY <1>3, <2>1 DEF ThreadType
  <2> HIDE DEF x
  <2>4. QED BY <1>2, <1>3, <2>2, <2>3 DEF Ci, h
<1>8. /\ conn' \in [Conn -> [refs : Int, listed : BOOLEAN]]
      /\ \A d \in Conn \ {c} : conn'[d] = conn[d]
      /\ conn'[c].listed = conn[c].listed
      /\ conn'[c].refs = conn[c].refs + One(r.pc \in {"look", "asked", "put"}) - One(Finding(t))
  BY <1>1, <1>3, <1>7 DEF TypeOK, One, Finding, At
<1>9. \A j \in Inst : inst'[j].refs = inst[j].refs + One(j \in r.held) - One(j \in thr[t].held)
                                        + One(j = r.mark) - One(j = thr[t].mark)
  BY <1>3, <1>4, <1>6, <1>7 DEF One, TypeOK
<1>10. r.pc \in {"look", "asked", "put", "decide", "release"} /\ (r.mark # None <=> r.pc = "asked")
  BY <1>7
<1>11. thr[t].made = None
  BY <1>3
<1>12. InstOK' /\ Stable /\ assigned' = assigned /\ exiting' = exiting /\ jobs' = jobs
  BY <1>1, <1>6
<1>13. thr' = [thr EXCEPT ![t] = r] /\ r.ci = c /\ r.made = None
  BY <1>7
<1>14. QED BY <1>2, <1>8, <1>9, <1>10, <1>11, <1>12, <1>13, PlainStep

-----------------------------------------------------------------------------
(* A classifier is unassigned: the walks over the connection are told.     *)
LEMMA DecideDrops ==
  ASSUME LifecycleAssumption, IInv, NEW t \in Thread, At(t, "decide"),
         NEW i \in assigned[Ci(t)] \cap thr[t].held, Ty(i) # 0,
         assigned' = [assigned EXCEPT ![Ci(t)] = @ \ {i}], Deref({i}),
         thr' = [u \in Thread |->
                   IF u = t THEN [thr[u] EXCEPT !.pc = "release"]
                   ELSE IF Ci(u) = Ci(t) THEN [thr[u] EXCEPT !.gone = TRUE] ELSE thr[u]],
         UNCHANGED <<conn, exiting, jobs>>
  PROVE  IInv'
<1>1. ~At(t, "idle") /\ conn' = conn /\ exiting' = exiting /\ jobs' = jobs
  BY DEF At
<1>2. PICK c \in Conn : Ci(t) = c
  BY <1>1, Begun
<1>3. /\ thr[t] \in ThreadType /\ thr \in [Thread -> ThreadType] /\ TypeOK /\ InstOK /\ Owned /\ Used
      /\ thr[t].made = None /\ thr[t].mark = None /\ None \notin Inst /\ None \notin Conn
  BY Begun DEF TypeOK, ThreadOK, PcOK, At
<1>4. /\ InstOK' /\ Stable
      /\ \A j \in Inst : inst'[j].refs = inst[j].refs - One(j \in {i})
  <2>1. i \in Live
    BY <1>3, Holding
  <2>2. {i} \in SUBSET Live /\ \A j, k \in {i} : Ty(j) = Ty(k) => j = k
    BY <2>1
  <2>3. QED BY <1>3, <2>2, DerefKeeps
<1>5. PICK r \in ThreadType :
        /\ thr'[t] = r /\ r.ci = c /\ r.pc = "release" /\ r.held = thr[t].held /\ r.made = None /\ r.mark = None
  <2> DEFINE x == [thr[t] EXCEPT !.pc = "release"]
  <2>1. x \in ThreadType /\ x.pc = "release" /\ x.ci = thr[t].ci /\ x.held = thr[t].held /\ x.made = thr[t].made /\ x.mark = thr[t].mark
    BY <1>3 DEF ThreadType, Pc
  <2>2. thr'[t] = x
    OBVIOUS
  <2> HIDE DEF x
  <2>3. QED BY <1>2, <1>3, <2>1, <2>2 DEF Ci
<1>6. \A u \in Thread \ {t} :
        /\ thr'[u] = thr[u] \/ thr'[u] = [thr[u] EXCEPT !.gone = TRUE]
        /\ Ci(u) # c => thr'[u] = thr[u]
        /\ Ci(u) = c => thr'[u] = [thr[u] EXCEPT !.gone = TRUE]
  BY <1>2
<1>7. ASSUME NEW u \in Thread \ {t}
      PROVE  /\ thr'[u] \in ThreadType /\ thr'[u].pc = thr[u].pc /\ thr'[u].ci = thr[u].ci
             /\ thr'[u].held = thr[u].held /\ thr'[u].made = thr[u].made /\ thr'[u].mark = thr[u].mark
             /\ Ci(u) = c => thr'[u].gone
  <2>1. thr[u] \in ThreadType /\ (thr'[u] = thr[u] \/ thr'[u] = [thr[u] EXCEPT !.gone = TRUE])
    BY <1>3, <1>6
  <2>2. Ci(u) = c => thr'[u].gone
    BY <1>6, <2>1 DEF ThreadType
  <2>3. QED BY <2>1, <2>2, GoneOnly
<1>8. /\ assigned' \in [Conn -> SUBSET Inst] /\ assigned'[c] = assigned[c] \ {i}
      /\ \A d \in Conn \ {c} : assigned'[d] = assigned[d]
  BY <1>2, <1>3 DEF TypeOK
<1>9. Owned'
  <2>1. ASSUME NEW j \in Inst PROVE inst'[j].refs = inst[j].refs + Own(t, c, j)' - Own(t, c, j)
    <3>1. Own(t, c, j)' = Own(t, c, j) - One(j \in {i}) /\ Own(t, c, j) \in Int /\ One(j \in {i}) \in Int
      BY <1>2, <1>3, <1>5, <1>8 DEF Own, One
    <3>2. inst[j].refs \in Int
      BY <1>3 DEF TypeOK
    <3>3. QED BY <1>4, <3>1, <3>2
  <2>2. \A u \in Thread \ {t} : thr'[u].held = thr[u].held /\ thr'[u].made = thr[u].made /\ thr'[u].mark = thr[u].mark
    BY <1>7
  <2>3. \A d \in Conn \ {c} : assigned'[d] = assigned[d]
    BY <1>8
  <2>4. Owned
    BY <1>3
  <2>5. Elsewhere(t, c) /\ Paid(t, c)
    BY <2>1, <2>2, <2>3 DEF Elsewhere, Paid
  <2>6. QED BY <2>4, <2>5, OwnedKept
<1>10. Used'
  <2>1. ASSUME NEW d \in Conn PROVE conn'[d].refs = conn[d].refs + Uses(t, d)' - Uses(t, d)
    <3>1. Uses(t, d)' = Uses(t, d) /\ Uses(t, d) \in Int
      BY <1>1, <1>2, <1>5 DEF Uses, One, Ci, Finding, At
    <3>2. conn[d].refs \in Int
      BY <1>3 DEF TypeOK
    <3>3. QED BY <1>1, <3>1, <3>2
  <2>2. \A u \in Thread \ {t} : thr'[u].ci = thr[u].ci /\ thr'[u].pc = thr[u].pc
    BY <1>7
  <2>3. QED BY <1>3, <2>1, <2>2, UsedKept
<1>11. ASSUME NEW d \in Conn PROVE ConnOK(d)'
  <2>1. assigned'[d] \subseteq assigned[d] /\ \A a \in assigned[d] \ assigned'[d] : Ty(a) # 0
    BY <1>8
  <2>2. conn[d].refs = 0 => assigned[d] = {}
    BY Begun DEF ConnOK
  <2>3. (conn'[d].refs = 0 => assigned'[d] = {}) /\ (conn'[d].listed => conn[d].listed)
    BY <1>1, <2>1, <2>2
  <2>4. QED BY <1>4, <2>1, <2>3, ConnKept
<1>12. \A u \in Thread \ {t} : ThreadOK(u)'
  <2>1. \A u \in Thread \ {t} : At(u, "idle") => thr'[u] = thr[u]
    <3> SUFFICES ASSUME NEW u \in Thread \ {t}, At(u, "idle") PROVE Ci(u) # c
      BY <1>6
    <3>1. thr[u] = Idle
      BY Begun DEF ThreadOK, PcOK
    <3>2. QED BY <1>3, <3>1 DEF Idle, Ci
  <2>2. \A u \in Thread \ {t} : Walking(u) =>
           \/ assigned'[Ci(u)] = assigned[Ci(u)]
           \/ assigned'[Ci(u)] \subseteq assigned[Ci(u)] /\ thr'[u].gone
    <3> SUFFICES ASSUME NEW u \in Thread \ {t}, Walking(u)
                 PROVE  \/ assigned'[Ci(u)] = assigned[Ci(u)]
                        \/ assigned'[Ci(u)] \subseteq assigned[Ci(u)] /\ thr'[u].gone
      OBVIOUS
    <3>1. Ci(u) \in Conn
      BY Begun
    <3>2. QED BY <1>7, <1>8, <3>1
  <2>3. \A u \in Thread \ {t} : Newborn(u) =>
           /\ assigned'[Ci(u)] = assigned[Ci(u)] /\ ~conn'[Ci(u)].listed
           /\ thr'[u] = thr[u]
           /\ Ci(t)' # Ci(u)
    <3> SUFFICES ASSUME NEW u \in Thread \ {t}, Newborn(u)
                 PROVE  /\ assigned'[Ci(u)] = assigned[Ci(u)] /\ ~conn'[Ci(u)].listed
                        /\ thr'[u] = thr[u] /\ Ci(t)' # Ci(u)
      OBVIOUS
    <3>1. Ci(u) \in Conn /\ ThreadOK(u)
      BY Begun
    <3>2. ~conn[Ci(u)].listed /\ Ci(u) # c
      BY <1>2, <3>1 DEF ThreadOK, NewOK
    <3>3. Ci(t)' = c
      BY <1>5 DEF Ci
    <3>4. QED BY <1>1, <1>6, <1>8, <3>1, <3>2, <3>3
  <2>4. ~Walking(t)'
    BY <1>5 DEF Walking
  <2>5. \A u \in Thread \ {t} : thr'[u] = thr[u] \/ thr'[u] = [thr[u] EXCEPT !.gone = TRUE]
    BY <1>6
  <2>6. Stable
    BY <1>4
  <2>7. QED BY <2>1, <2>2, <2>3, <2>4, <2>5, <2>6, Others
<1>13. ThreadOK(t)'
  <2>1. ~Walking(t)' /\ thr'[t].pc \notin {"default", "tracker", "tracked", "drop"} /\ PcOK(t)'
    BY <1>5 DEF Walking, PcOK, At, Ci
  <2>2. QED BY <2>1, Past
<1>14. thr' \in [Thread -> ThreadType]
  BY <1>5, <1>7
<1>15. exiting' \in BOOLEAN /\ jobs' \in Nat /\ conn' \in [Conn -> [refs : Int, listed : BOOLEAN]]
  BY <1>1, <1>3 DEF TypeOK
<1>16. \A u \in Thread : ThreadOK(u)'
  BY <1>12, <1>13
<1>17. InstOK' /\ assigned' \in [Conn -> SUBSET Inst] /\ \A d \in Conn : ConnOK(d)'
  BY <1>4, <1>8, <1>11
<1>18. QED BY <1>9, <1>10, <1>14, <1>15, <1>16, <1>17, PartsNext

LEMMA DecideKeeps ==
  ASSUME LifecycleAssumption, IInv, NEW t \in Thread, Decide(t)
  PROVE  IInv'
<1>1. At(t, "decide") /\ ~At(t, "idle") /\ conn' = conn /\ exiting' = exiting /\ jobs' = jobs
  BY DEF Decide, At
<1>2. CASE UNCHANGED <<assigned, classifiers>> /\ Goto(t, "release")
  <2>1. assigned' = assigned /\ UNCHANGED classifiers /\ Goto(t, "release")
    BY <1>2
  <2>2. PICK c \in Conn : Ci(t) = c
    BY <1>1, Begun
  <2>3. /\ thr[t] \in ThreadType /\ thr \in [Thread -> ThreadType] /\ TypeOK /\ InstOK
        /\ thr[t].made = None /\ thr[t].mark = None /\ None \notin Inst
    BY <1>1, Begun DEF TypeOK, ThreadOK, PcOK, At
  <2>4. InstOK' /\ Stable /\ inst' = inst
    BY <2>1, <2>3, SameKeeps
  <2>5. PICK r \in ThreadType :
          thr' = [thr EXCEPT ![t] = r] /\ r.ci = c /\ r.pc = "release" /\ r.held = thr[t].held /\ r.made = None /\ r.mark = None
    <3> DEFINE x == [thr[t] EXCEPT !.pc = "release"]
    <3>1. x \in ThreadType /\ x.pc = "release" /\ x.ci = thr[t].ci /\ x.held = thr[t].held /\ x.made = thr[t].made /\ x.mark = thr[t].mark
      BY <2>3 DEF ThreadType, Pc
    <3>2. thr' = [thr EXCEPT ![t] = x]
      BY <2>1, <2>3 DEF Goto
    <3> HIDE DEF x
    <3>3. QED BY <2>2, <2>3, <3>1, <3>2 DEF Ci
  <2>6. /\ conn' \in [Conn -> [refs : Int, listed : BOOLEAN]]
        /\ \A d \in Conn \ {c} : conn'[d] = conn[d]
        /\ conn'[c].listed = conn[c].listed
        /\ conn'[c].refs = conn[c].refs + One(r.pc \in {"look", "asked", "put"}) - One(Finding(t))
    BY <1>1, <2>3, <2>5 DEF TypeOK, One, Finding, At
  <2>7. \A i \in Inst : inst'[i].refs = inst[i].refs + One(i \in r.held) - One(i \in thr[t].held)
                                          + One(i = r.mark) - One(i = thr[t].mark)
    BY <2>3, <2>4, <2>5 DEF One, TypeOK
  <2>8. r.pc \in {"look", "asked", "put", "decide", "release"} /\ (r.mark # None <=> r.pc = "asked")
    BY <2>5
  <2>9. thr[t].made = None
    BY <2>3
  <2>10. InstOK' /\ Stable /\ assigned' = assigned /\ exiting' = exiting /\ jobs' = jobs
    BY <1>1, <2>1, <2>4
  <2>11. thr' = [thr EXCEPT ![t] = r] /\ r.ci = c /\ r.made = None
    BY <2>5
  <2>12. QED BY <2>2, <2>6, <2>7, <2>8, <2>9, <2>10, <2>11, PlainStep
<1>3. CASE \E i \in assigned[Ci(t)] \cap thr[t].held :
              /\ inst[i].type # 0
              /\ assigned' = [assigned EXCEPT ![Ci(t)] = @ \ {i}] /\ Deref({i})
              /\ thr' = [u \in Thread |->
                   IF u = t THEN [thr[u] EXCEPT !.pc = "release"]
                   ELSE IF Ci(u) = Ci(t) THEN [thr[u] EXCEPT !.gone = TRUE] ELSE thr[u]]
  <2>1. PICK i \in assigned[Ci(t)] \cap thr[t].held :
              /\ Ty(i) # 0
              /\ assigned' = [assigned EXCEPT ![Ci(t)] = @ \ {i}] /\ Deref({i})
              /\ thr' = [u \in Thread |->
                   IF u = t THEN [thr[u] EXCEPT !.pc = "release"]
                   ELSE IF Ci(u) = Ci(t) THEN [thr[u] EXCEPT !.gone = TRUE] ELSE thr[u]]
    BY <1>3 DEF Ty
  <2>2. QED BY <1>1, <2>1, DecideDrops
<1>4. QED BY <1>2, <1>3 DEF Decide

-----------------------------------------------------------------------------
(* The last reference to a connection.  Two threads that have it hold two. *)
LEMMA Sole ==
  ASSUME LifecycleAssumption, Used, NEW c \in Conn, NEW t \in Thread, NEW u \in Thread, t # u,
         Ci(t) = c, Ci(u) = c
  PROVE  conn[c].refs # 1
<1> DEFINE S == {v \in Thread : Ci(v) = c}
           F == {v \in Thread : Ci(v) = c /\ thr[v].pc \in {"look", "asked", "put"}}
<1>1. IsFiniteSet(S) /\ IsFiniteSet(F) /\ IsFiniteSet(S \ {t})
  BY Finite
<1>2. Cardinality(S) \in Nat /\ Cardinality(F) \in Nat /\ Cardinality(S \ {t}) \in Nat
  BY <1>1, FS_CardinalityType
<1>3. t \in S /\ u \in S \ {t}
  OBVIOUS
<1>4. Cardinality(S \ {t}) = Cardinality(S) - 1
  BY <1>1, <1>3, FS_RemoveElement
<1>5. Cardinality(S \ {t}) # 0
  <2>1. S \ {t} # {}
    BY <1>3
  <2> HIDE DEF S
  <2>2. QED BY <1>1, <2>1, FS_EmptySet
<1>6. conn[c].refs = (IF conn[c].listed THEN 1 ELSE 0) + Cardinality(S) + Cardinality(F)
  BY DEF Used
<1> HIDE DEF S, F
<1>7. QED BY <1>2, <1>4, <1>5, <1>6

(* What deref() of a connection does to it and its classifiers.            *)
LEMMA LetGo ==
  ASSUME LifecycleAssumption, IInv, NEW c \in Conn, NEW listed \in BOOLEAN, DerefConn(c, listed),
         listed => conn[c].listed /\ conn[c].refs # 1,
         conn[c].refs > 0
  PROVE  /\ InstOK' /\ Stable
         /\ conn' \in [Conn -> [refs : Int, listed : BOOLEAN]]
         /\ assigned' \in [Conn -> SUBSET Inst]
         /\ \A d \in Conn \ {c} : assigned'[d] = assigned[d] /\ conn'[d] = conn[d]
         /\ conn'[c].refs = conn[c].refs - 1 /\ conn'[c].listed = listed
         /\ conn[c].refs # 1 => assigned'[c] = assigned[c]
         /\ \A i \in Inst : inst'[i].refs = inst[i].refs + One(i \in assigned'[c]) - One(i \in assigned[c])
         /\ \A d \in Conn : ConnOK(d)'
<1>1. TypeOK /\ InstOK /\ Owned /\ Used /\ ConnOK(c)
  BY Begun
<1>2. conn' = [conn EXCEPT ![c] = [refs |-> conn[c].refs - 1, listed |-> listed]]
  BY DEF DerefConn
<1>3. /\ conn' \in [Conn -> [refs : Int, listed : BOOLEAN]] /\ \A d \in Conn \ {c} : conn'[d] = conn[d]
      /\ conn'[c].refs = conn[c].refs - 1 /\ conn'[c].listed = listed
  BY <1>1, <1>2 DEF TypeOK
<1>4. /\ InstOK' /\ Stable
      /\ assigned' \in [Conn -> SUBSET Inst]
      /\ \A d \in Conn \ {c} : assigned'[d] = assigned[d]
      /\ conn[c].refs # 1 => assigned'[c] = assigned[c]
      /\ conn[c].refs = 1 => assigned'[c] = {}
      /\ \A i \in Inst : inst'[i].refs = inst[i].refs + One(i \in assigned'[c]) - One(i \in assigned[c])
  <2>1. CASE conn[c].refs = 1
    <3>1. Deref(assigned[c]) /\ assigned' = [assigned EXCEPT ![c] = {}]
      BY <2>1 DEF DerefConn
    <3>2. assigned[c] \in SUBSET Live /\ \A i, j \in assigned[c] : Ty(i) = Ty(j) => i = j
      BY <1>1, Holding DEF ConnOK
    <3>3. InstOK' /\ Stable /\ \A i \in Inst : inst'[i].refs = inst[i].refs - One(i \in assigned[c])
      BY <1>1, <3>1, <3>2, DerefKeeps
    <3>4. /\ assigned' \in [Conn -> SUBSET Inst] /\ assigned'[c] = {}
          /\ \A d \in Conn \ {c} : assigned'[d] = assigned[d]
      BY <1>1, <3>1 DEF TypeOK
    <3>5. \A i \in Inst : inst'[i].refs = inst[i].refs + One(i \in assigned'[c]) - One(i \in assigned[c])
      BY <1>1, <3>3, <3>4 DEF One, TypeOK
    <3>6. QED BY <2>1, <3>3, <3>4, <3>5
  <2>2. CASE conn[c].refs # 1
    <3>1. assigned' = assigned /\ UNCHANGED classifiers
      BY <2>2 DEF DerefConn
    <3>2. InstOK' /\ Stable /\ inst' = inst
      BY <1>1, <3>1, SameKeeps
    <3>3. assigned' \in [Conn -> SUBSET Inst] /\ \A d \in Conn : assigned'[d] = assigned[d]
      BY <1>1, <3>1 DEF TypeOK
    <3>4. \A i \in Inst : inst'[i].refs = inst[i].refs + One(i \in assigned'[c]) - One(i \in assigned[c])
      BY <1>1, <3>2, <3>3 DEF One, TypeOK
    <3>5. QED BY <2>2, <3>2, <3>3, <3>4
  <2>3. QED BY <2>1, <2>2
<1>5. ASSUME NEW d \in Conn PROVE ConnOK(d)'
  <2>1. CASE d = c
    <3>1. conn'[c].listed => conn[c].listed /\ conn[c].refs # 1
      BY <1>3
    <3>2. conn'[c].refs = 0 => assigned'[c] = {}
      <4>1. conn[c].refs \in Int /\ conn'[c].refs = conn[c].refs - 1
        BY <1>1, <1>3 DEF TypeOK
      <4>2. conn'[c].refs = 0 => conn[c].refs = 1
        BY <4>1
      <4>3. QED BY <1>4, <4>2
    <3>3. assigned'[c] \subseteq assigned[c]
      BY <1>4
    <3>4. conn'[c].listed => \A a \in assigned[c] \ assigned'[c] : Ty(a) # 0
      BY <1>4, <3>1
    <3>5. Stable /\ (conn'[c].listed => conn[c].listed)
      BY <1>4, <3>1
    <3>6. ConnOK(c)'
      BY <3>2, <3>3, <3>4, <3>5, ConnKept
    <3>7. QED BY <2>1, <3>6
  <2>2. CASE d # c
    <3>1. assigned'[d] = assigned[d] /\ conn'[d] = conn[d] /\ Stable
      BY <1>3, <1>4, <2>2
    <3>2. conn[d].refs = 0 => assigned[d] = {}
      BY Begun DEF ConnOK
    <3>3. QED BY <3>1, <3>2, ConnKept
  <2>3. QED BY <2>1, <2>2
<1>6. QED BY <1>3, <1>4, <1>5

LEMMA ReleaseConnKeeps ==
  ASSUME LifecycleAssumption, IInv, NEW t \in Thread, ReleaseConn(t)
  PROVE  IInv'
<1>1. thr[t].pc \in {"drop", "release"} /\ ~At(t, "idle") /\ exiting' = exiting /\ jobs' = jobs
  BY DEF ReleaseConn, At
<1>2. PICK c \in Conn : Ci(t) = c
  BY <1>1, Begun
<1>3. /\ thr \in [Thread -> ThreadType] /\ TypeOK /\ Owned /\ Used
      /\ thr[t].made = None /\ thr[t].mark = None /\ thr[t].held = {}
      /\ None \notin Inst /\ None \notin Conn /\ Types \in Nat /\ conn[c].refs > 0
  BY <1>1, <1>2, Begun DEF TypeOK, ThreadOK, PcOK, At, ReleaseConn
<1>4. thr' = [thr EXCEPT ![t] = Idle] /\ DerefConn(c, conn[c].listed)
  BY <1>2 DEF ReleaseConn
<1>5. conn[c].listed \in BOOLEAN /\ (conn[c].listed => conn[c].listed /\ conn[c].refs # 1)
  <2>1. conn[c].listed => Uses(t, c) >= 2 /\ Uses(t, c) \in Int
    BY <1>2 DEF Uses, One
  <2>2. conn[c].refs \in Nat /\ conn[c].refs >= Uses(t, c)
    BY <1>3, AtLeast
  <2>3. conn[c].listed => conn[c].refs # 1
    BY <2>1, <2>2
  <2>4. QED BY <1>3, <2>3 DEF TypeOK
<1>6. /\ InstOK' /\ Stable
      /\ conn' \in [Conn -> [refs : Int, listed : BOOLEAN]]
      /\ assigned' \in [Conn -> SUBSET Inst]
      /\ \A d \in Conn \ {c} : assigned'[d] = assigned[d] /\ conn'[d] = conn[d]
      /\ conn'[c].refs = conn[c].refs - 1 /\ conn'[c].listed = conn[c].listed
      /\ conn[c].refs # 1 => assigned'[c] = assigned[c]
      /\ \A i \in Inst : inst'[i].refs = inst[i].refs + One(i \in assigned'[c]) - One(i \in assigned[c])
      /\ \A d \in Conn : ConnOK(d)'
  <2>1. conn[c].refs > 0
    BY <1>3
  <2>2. QED BY <1>4, <1>5, <2>1, LetGo
<1>7. /\ thr'[t] = Idle /\ Idle \in ThreadType /\ thr' \in [Thread -> ThreadType]
      /\ \A u \in Thread \ {t} : thr'[u] = thr[u]
  <2>1. Idle \in ThreadType
    BY <1>3 DEF Idle, ThreadType, Pc
  <2>2. QED BY <1>3, <1>4, <2>1
<1>8. Owned'
  <2>1. ASSUME NEW i \in Inst PROVE inst'[i].refs = inst[i].refs + Own(t, c, i)' - Own(t, c, i)
    <3>1. Own(t, c, i)' = One(i \in assigned'[c]) /\ Own(t, c, i) = One(i \in assigned[c])
      BY <1>3, <1>7 DEF Own, One, Idle
    <3>2. inst'[i].refs = inst[i].refs + One(i \in assigned'[c]) - One(i \in assigned[c])
      BY <1>6
    <3>3. QED BY <3>1, <3>2
  <2>2. \A u \in Thread \ {t} : thr'[u].held = thr[u].held /\ thr'[u].made = thr[u].made /\ thr'[u].mark = thr[u].mark
    BY <1>7
  <2>3. \A d \in Conn \ {c} : assigned'[d] = assigned[d]
    BY <1>6
  <2>4. Owned
    BY <1>3
  <2>5. Elsewhere(t, c) /\ Paid(t, c)
    BY <2>1, <2>2, <2>3 DEF Elsewhere, Paid
  <2>6. QED BY <2>4, <2>5, OwnedKept
<1>9. Used'
  <2>1. ASSUME NEW d \in Conn PROVE conn'[d].refs = conn[d].refs + Uses(t, d)' - Uses(t, d)
    <3>1. CASE d = c
      <4>1. Uses(t, c) = One(conn[c].listed) + 1 /\ Uses(t, c)' = One(conn[c].listed) /\ One(conn[c].listed) \in Int
        BY <1>1, <1>2, <1>3, <1>6, <1>7 DEF Uses, One, Ci, Finding, Idle
      <4>2. conn'[c].refs = conn[c].refs - 1 /\ conn[c].refs \in Int
        BY <1>3, <1>6 DEF TypeOK
      <4>3. QED BY <3>1, <4>1, <4>2
    <3>2. CASE d # c
      <4>1. conn'[d] = conn[d]
        BY <1>6, <3>2
      <4>2. Uses(t, d)' = Uses(t, d) /\ Uses(t, d) \in Int
        BY <1>2, <1>3, <1>7, <3>2, <4>1 DEF Uses, One, Ci, Idle
      <4>3. conn[d].refs \in Int
        BY <1>3 DEF TypeOK
      <4>4. QED BY <4>1, <4>2, <4>3
    <3>3. QED BY <3>1, <3>2
  <2>2. \A u \in Thread \ {t} : thr'[u].ci = thr[u].ci /\ thr'[u].pc = thr[u].pc
    BY <1>7
  <2>3. QED BY <1>3, <2>1, <2>2, UsedKept
<1>10. \A u \in Thread \ {t} : ThreadOK(u)'
  <2>1. ASSUME NEW u \in Thread \ {t}, Walking(u) \/ Newborn(u)
        PROVE  Ci(u) \in Conn /\ assigned'[Ci(u)] = assigned[Ci(u)] /\ conn'[Ci(u)].listed = conn[Ci(u)].listed
    <3>1. Ci(u) \in Conn
      BY <2>1, Begun
    <3>2. CASE Ci(u) = c
      <4>1. conn[c].refs # 1
        BY <1>2, <1>3, <3>2, Sole
      <4>2. QED BY <1>6, <3>1, <3>2, <4>1
    <3>3. CASE Ci(u) # c
      BY <1>6, <3>1, <3>3
    <3>4. QED BY <3>2, <3>3
  <2>2. \A u \in Thread \ {t} : Newborn(u) =>
           /\ assigned'[Ci(u)] = assigned[Ci(u)] /\ ~conn'[Ci(u)].listed
           /\ thr'[u] = thr[u] /\ Ci(t)' # Ci(u)
    <3> SUFFICES ASSUME NEW u \in Thread \ {t}, Newborn(u)
                 PROVE  /\ assigned'[Ci(u)] = assigned[Ci(u)] /\ ~conn'[Ci(u)].listed
                        /\ thr'[u] = thr[u] /\ Ci(t)' # Ci(u)
      OBVIOUS
    <3>1. ThreadOK(u)
      BY Begun
    <3>2. ~conn[Ci(u)].listed
      BY <3>1 DEF ThreadOK, NewOK
    <3>3. Ci(t)' = None
      BY <1>7 DEF Ci, Idle
    <3>4. QED BY <1>3, <1>7, <2>1, <3>2, <3>3
  <2>3. ~Walking(t)'
    BY <1>7 DEF Walking, Idle
  <2>4. \A u \in Thread \ {t} : Walking(u) =>
           \/ assigned'[Ci(u)] = assigned[Ci(u)]
           \/ assigned'[Ci(u)] \subseteq assigned[Ci(u)] /\ thr'[u].gone
    BY <2>1
  <2>5. \A u \in Thread \ {t} : /\ thr'[u] = thr[u] \/ thr'[u] = [thr[u] EXCEPT !.gone = TRUE]
                                /\ At(u, "idle") => thr'[u] = thr[u]
    BY <1>7
  <2>6. Stable
    BY <1>6
  <2>7. QED BY <2>2, <2>3, <2>4, <2>5, <2>6, Others
<1>11. ThreadOK(t)'
  <2>1. ~Walking(t)' /\ thr'[t].pc \notin {"default", "tracker", "tracked", "drop"} /\ PcOK(t)'
    BY <1>7 DEF Walking, PcOK, At, Ci, Idle
  <2>2. QED BY <2>1, Past
<1>12. exiting' \in BOOLEAN /\ jobs' \in Nat
  BY <1>1, <1>3 DEF TypeOK
<1>13. \A u \in Thread : ThreadOK(u)'
  BY <1>10, <1>11
<1>14. /\ InstOK' /\ conn' \in [Conn -> [refs : Int, listed : BOOLEAN]]
       /\ assigned' \in [Conn -> SUBSET Inst] /\ \A d \in Conn : ConnOK(d)'
  BY <1>6
<1>15. thr' \in [Thread -> ThreadType]
  BY <1>7
<1>16. QED BY <1>8, <1>9, <1>12, <1>13, <1>14, <1>15, PartsNext

(* Nobody has a connection whose last reference is that of the list.       *)
LEMMA ExpireKeeps ==
  ASSUME LifecycleAssumption, IInv, NEW c \in Conn, Expire(c)
  PROVE  IInv'
<1>1. conn[c].listed /\ DerefConn(c, FALSE) /\ exiting' = exiting /\ thr' = thr /\ jobs' = jobs
  BY DEF Expire
<1>2. TypeOK /\ Owned /\ Used
  BY Begun
<1>3. \A t : conn[c].refs \in Nat /\ conn[c].refs >= Uses(t, c)
  BY <1>2, AtLeast
<1>4. PICK t : t \notin Thread
  <2> DEFINE R == {x \in Thread : x \notin x}
  <2>1. \A x : x \in R <=> x \in Thread /\ x \notin x
    OBVIOUS
  <2> HIDE DEF R
  <2>2. R \notin Thread
    BY <2>1
  <2>3. QED BY <2>2
<1>5. conn[c].refs > 0
  <2>1. Uses(t, c) = 1
    BY <1>1, <1>4 DEF Uses, One
  <2>2. QED BY <1>3, <2>1
<1>6. /\ InstOK' /\ Stable
      /\ conn' \in [Conn -> [refs : Int, listed : BOOLEAN]]
      /\ assigned' \in [Conn -> SUBSET Inst]
      /\ \A d \in Conn \ {c} : assigned'[d] = assigned[d] /\ conn'[d] = conn[d]
      /\ conn'[c].refs = conn[c].refs - 1 /\ conn'[c].listed = FALSE
      /\ conn[c].refs # 1 => assigned'[c] = assigned[c]
      /\ \A i \in Inst : inst'[i].refs = inst[i].refs + One(i \in assigned'[c]) - One(i \in assigned[c])
      /\ \A d \in Conn : ConnOK(d)'
  <2>1. DerefConn(c, FALSE)
    BY <1>1
  <2>2. QED BY <1>5, <2>1, LetGo
<1>7. Owned'
  <2>1. ASSUME NEW i \in Inst PROVE inst'[i].refs = inst[i].refs + Own(t, c, i)' - Own(t, c, i)
    <3>1. Own(t, c, i)' = One(i \in assigned'[c]) /\ Own(t, c, i) = One(i \in assigned[c])
      BY <1>4 DEF Own, One
    <3>2. inst'[i].refs = inst[i].refs + One(i \in assigned'[c]) - One(i \in assigned[c])
      BY <1>6
    <3>3. QED BY <3>1, <3>2
  <2>2. \A u \in Thread \ {t} : thr'[u].held = thr[u].held /\ thr'[u].made = thr[u].made /\ thr'[u].mark = thr[u].mark
    BY <1>1
  <2>3. \A d \in Conn \ {c} : assigned'[d] = assigned[d]
    BY <1>6
  <2>4. Owned
    BY <1>2
  <2>5. Elsewhere(t, c) /\ Paid(t, c)
    BY <2>1, <2>2, <2>3 DEF Elsewhere, Paid
  <2>6. QED BY <2>4, <2>5, OwnedKept
<1>8. Used'
  <2>1. ASSUME NEW d \in Conn PROVE conn'[d].refs = conn[d].refs + Uses(t, d)' - Uses(t, d)
    <3>1. conn[d].refs \in Int
      BY <1>2 DEF TypeOK
    <3>2. Uses(t, d) = One(conn[d].listed) /\ Uses(t, d)' = One(conn'[d].listed)
      BY <1>4 DEF Uses, One
    <3>3. CASE d = c
      BY <1>1, <1>6, <3>1, <3>2, <3>3 DEF One
    <3>4. CASE d # c
      BY <1>6, <3>1, <3>2, <3>4 DEF One
    <3>5. QED BY <3>3, <3>4
  <2>2. \A u \in Thread \ {t} : thr'[u].ci = thr[u].ci /\ thr'[u].pc = thr[u].pc
    BY <1>1
  <2>3. QED BY <1>2, <2>1, <2>2, UsedKept
<1>9. \A u \in Thread : ThreadOK(u)'
  <2>1. ASSUME NEW u \in Thread, Walking(u) \/ Newborn(u)
        PROVE  Ci(u) \in Conn /\ assigned'[Ci(u)] = assigned[Ci(u)]
    <3>1. Ci(u) \in Conn
      BY <2>1, Begun
    <3>2. CASE Ci(u) = c
      <4>1. Uses(u, c) >= 2 /\ Uses(u, c) \in Int
        BY <1>1, <3>2 DEF Uses, One
      <4>2. conn[c].refs # 1
        BY <1>3, <4>1
      <4>3. QED BY <1>6, <3>1, <3>2, <4>2
    <3>3. CASE Ci(u) # c
      BY <1>6, <3>1, <3>3
    <3>4. QED BY <3>2, <3>3
  <2>2. \A u \in Thread \ {t} : Newborn(u) =>
           /\ assigned'[Ci(u)] = assigned[Ci(u)] /\ ~conn'[Ci(u)].listed
           /\ thr'[u] = thr[u] /\ (t \in Thread => Ci(t)' # Ci(u))
    <3> SUFFICES ASSUME NEW u \in Thread, Newborn(u)
                 PROVE  assigned'[Ci(u)] = assigned[Ci(u)] /\ ~conn'[Ci(u)].listed
      BY <1>1, <1>4
    <3>1. ThreadOK(u)
      BY Begun
    <3>2. ~conn[Ci(u)].listed
      BY <3>1 DEF ThreadOK, NewOK
    <3>3. Ci(u) # c
      BY <1>1, <3>2
    <3>4. QED BY <1>6, <2>1, <3>2, <3>3
  <2>3. \A u \in Thread \ {t} : Walking(u) /\ t \in Thread /\ Walking(t)' => Ci(t)' # Ci(u)
    BY <1>4
  <2>4. \A u \in Thread \ {t} : Walking(u) =>
           \/ assigned'[Ci(u)] = assigned[Ci(u)]
           \/ assigned'[Ci(u)] \subseteq assigned[Ci(u)] /\ thr'[u].gone
    BY <2>1
  <2>5. \A u \in Thread \ {t} : /\ thr'[u] = thr[u] \/ thr'[u] = [thr[u] EXCEPT !.gone = TRUE]
                                /\ At(u, "idle") => thr'[u] = thr[u]
    BY <1>1
  <2>6. Stable
    BY <1>6
  <2>7. \A u \in Thread \ {t} : ThreadOK(u)'
    BY <2>2, <2>3, <2>4, <2>5, <2>6, Others
  <2>8. QED BY <1>4, <2>7
<1>10. exiting' \in BOOLEAN /\ jobs' \in Nat /\ thr' \in [Thread -> ThreadType]
  BY <1>1, <1>2 DEF TypeOK
<1>11. /\ InstOK' /\ conn' \in [Conn -> [refs : Int, listed : BOOLEAN]]
       /\ assigned' \in [Conn -> SUBSET Inst] /\ \A d \in Conn : ConnOK(d)'
  BY <1>6
<1>12. QED BY <1>7, <1>8, <1>9, <1>10, <1>11, PartsNext

-----------------------------------------------------------------------------
(* A thread that begins: with a connection of its own, or with a listed    *)
(* one and the classifiers assigned.                                       *)
LEMMA BeginStep ==
  ASSUME LifecycleAssumption, IInv, NEW t \in Thread, At(t, "idle"), NEW c \in Conn,
         NEW r \in ThreadType, thr' = [thr EXCEPT ![t] = r],
         r.ci = c, r.made = None, r.mark = None, r.pc \notin {"look", "asked", "put"},
         conn' = [conn EXCEPT ![c].refs = @ + 1], assigned' = assigned,
         exiting' = exiting, jobs' = jobs + 1,
         InstOK', Stable,
         \A i \in Inst : inst'[i].refs = inst[i].refs + One(i \in r.held),
         \A u \in Thread \ {t} : Newborn(u) => Ci(u) # c,
         \A u \in Thread \ {t} : Walking(u) /\ Walking(t)' => Ci(u) # c,
         ThreadOK(t)'
  PROVE  IInv'
<1>1. /\ thr[t] \in ThreadType /\ thr \in [Thread -> ThreadType] /\ TypeOK /\ Owned /\ Used
      /\ None \notin Inst /\ None \notin Conn /\ thr[t] = Idle
  BY Begun DEF TypeOK, ThreadOK, PcOK, At
<1>2. thr'[t] = r /\ \A u \in Thread \ {t} : thr'[u] = thr[u]
  BY <1>1
<1>3. /\ conn' \in [Conn -> [refs : Int, listed : BOOLEAN]] /\ conn[c].refs \in Int
      /\ \A d \in Conn \ {c} : conn'[d] = conn[d]
      /\ conn'[c].refs = conn[c].refs + 1 /\ conn'[c].listed = conn[c].listed
  BY <1>1 DEF TypeOK
<1>4. Owned'
  <2>1. ASSUME NEW i \in Inst PROVE inst'[i].refs = inst[i].refs + Own(t, c, i)' - Own(t, c, i)
    <3>1. Own(t, c, i)' = One(i \in assigned[c]) + One(i \in r.held) /\ Own(t, c, i) = One(i \in assigned[c])
      BY <1>1, <1>2 DEF Own, One, Idle
    <3>2. inst'[i].refs = inst[i].refs + One(i \in r.held) /\ inst[i].refs \in Int
      BY <1>1 DEF TypeOK
    <3>3. One(i \in assigned[c]) \in Int /\ One(i \in r.held) \in Int
      BY DEF One
    <3>4. QED BY <3>1, <3>2, <3>3
  <2>2. \A u \in Thread \ {t} : thr'[u].held = thr[u].held /\ thr'[u].made = thr[u].made /\ thr'[u].mark = thr[u].mark
    BY <1>2
  <2>3. \A d \in Conn \ {c} : assigned'[d] = assigned[d]
    OBVIOUS
  <2>4. Owned
    BY <1>1
  <2>5. Elsewhere(t, c) /\ Paid(t, c)
    BY <2>1, <2>2, <2>3 DEF Elsewhere, Paid
  <2>6. QED BY <2>4, <2>5, OwnedKept
<1>5. Used'
  <2>1. ASSUME NEW d \in Conn PROVE conn'[d].refs = conn[d].refs + Uses(t, d)' - Uses(t, d)
    <3>1. conn[d].refs \in Int
      BY <1>1 DEF TypeOK
    <3>2. CASE d = c
      <4>1. Uses(t, c)' = One(conn[c].listed) + 1 /\ Uses(t, c) = One(conn[c].listed) /\ One(conn[c].listed) \in Int
        BY <1>1, <1>2, <1>3 DEF Uses, One, Ci, Finding, Idle
      <4>2. QED BY <1>3, <3>2, <4>1
    <3>3. CASE d # c
      <4>1. conn'[d] = conn[d]
        BY <1>3, <3>3
      <4>2. Uses(t, d)' = Uses(t, d) /\ Uses(t, d) \in Int
        BY <1>1, <1>2, <3>3, <4>1 DEF Uses, One, Ci, Finding, Idle
      <4>3. PICK n \in Int : Uses(t, d)' = n /\ Uses(t, d) = n
        BY <4>2
      <4>4. PICK m \in Int : conn[d].refs = m /\ conn'[d].refs = m
        BY <3>1, <4>1
      <4>5. m = m + n - n
        OBVIOUS
      <4>6. QED BY <4>3, <4>4, <4>5
    <3>4. QED BY <3>2, <3>3
  <2>2. \A u \in Thread \ {t} : thr'[u].ci = thr[u].ci /\ thr'[u].pc = thr[u].pc
    BY <1>2
  <2>3. QED BY <1>1, <2>1, <2>2, UsedKept
<1>6. ASSUME NEW d \in Conn PROVE ConnOK(d)'
  <2>1. conn[d].refs = 0 => assigned[d] = {}
    BY Begun DEF ConnOK
  <2>2. conn'[d].listed = conn[d].listed
    BY <1>3
  <2>3. conn'[d].refs = 0 => assigned[d] = {}
    <3>1. CASE d = c
      <4>1. conn[c].refs \in Nat
        BY <1>1, AtLeast
      <4>2. QED BY <1>3, <3>1, <4>1
    <3>2. CASE d # c
      BY <1>3, <2>1, <3>2
    <3>3. QED BY <3>1, <3>2
  <2>4. QED BY <2>2, <2>3, ConnKept
<1>7. \A u \in Thread \ {t} : ThreadOK(u)'
  <2>1. Ci(t)' = c
    BY <1>2 DEF Ci
  <2>2. \A u \in Thread \ {t} : Newborn(u) =>
           /\ assigned'[Ci(u)] = assigned[Ci(u)] /\ ~conn'[Ci(u)].listed
           /\ thr'[u] = thr[u] /\ Ci(t)' # Ci(u)
    <3> SUFFICES ASSUME NEW u \in Thread \ {t}, Newborn(u)
                 PROVE  ~conn'[Ci(u)].listed /\ Ci(t)' # Ci(u)
      BY <1>2
    <3>1. ThreadOK(u) /\ Ci(u) \in Conn
      BY Begun
    <3>2. ~conn[Ci(u)].listed
      BY <3>1 DEF ThreadOK, NewOK
    <3>3. QED BY <1>3, <2>1, <3>1, <3>2
  <2>3. \A u \in Thread \ {t} : Walking(u) /\ Walking(t)' => Ci(t)' # Ci(u)
    BY <2>1
  <2>4. \A u \in Thread \ {t} : Walking(u) =>
           \/ assigned'[Ci(u)] = assigned[Ci(u)]
           \/ assigned'[Ci(u)] \subseteq assigned[Ci(u)] /\ thr'[u].gone
    OBVIOUS
  <2>5. \A u \in Thread \ {t} : /\ thr'[u] = thr[u] \/ thr'[u] = [thr[u] EXCEPT !.gone = TRUE]
                                /\ At(u, "idle") => thr'[u] = thr[u]
    BY <1>2
  <2>6. QED BY <2>2, <2>3, <2>4, <2>5, Others
<1>8. \A u \in Thread : ThreadOK(u)'
  BY <1>7
<1>9. /\ exiting' \in BOOLEAN /\ jobs' \in Nat /\ thr' \in [Thread -> ThreadType]
      /\ assigned' \in [Conn -> SUBSET Inst]
  BY <1>1 DEF TypeOK
<1>10. InstOK' /\ conn' \in [Conn -> [refs : Int, listed : BOOLEAN]] /\ \A d \in Conn : ConnOK(d)'
  BY <1>3, <1>6
<1>11. QED BY <1>4, <1>5, <1>8, <1>9, <1>10, PartsNext

LEMMA IdleType ==
  ASSUME LifecycleAssumption
  PROVE  Idle \in ThreadType
BY DEF LifecycleAssumption, Idle, ThreadType, Pc

LEMMA NewConnKeeps ==
  ASSUME LifecycleAssumption, IInv, NEW t \in Thread, NewConn(t)
  PROVE  IInv'
<1>1. /\ At(t, "idle") /\ jobs' = jobs + 1 /\ assigned' = assigned /\ exiting' = exiting
      /\ UNCHANGED classifiers
  BY DEF NewConn, Starts
<1>2. PICK c \in Conn : /\ conn[c].refs = 0 /\ RefConn(c)
                        /\ thr' = [thr EXCEPT ![t] = [Idle EXCEPT !.pc = "default", !.ci = c]]
  BY DEF NewConn
<1>3. /\ thr \in [Thread -> ThreadType] /\ TypeOK /\ InstOK /\ Owned /\ Used /\ Types \in Nat
      /\ None \notin Inst /\ None \notin Conn
  BY Begun DEF TypeOK
<1>4. /\ ~conn[c].listed /\ assigned[c] = {} /\ \A u \in Thread : Ci(u) # c
  <2>1. ASSUME NEW u \in Thread PROVE ~conn[c].listed /\ Ci(u) # c
    <3>1. Uses(u, c) >= One(conn[c].listed) + One(Ci(u) = c)
      BY DEF Uses, One
    <3>2. conn[c].refs >= Uses(u, c) /\ Uses(u, c) \in Int
      <4>1. Uses(u, c) \in Int
        BY DEF Uses, One
      <4>2. QED BY <1>3, <4>1, AtLeast
    <3>3. QED BY <1>2, <3>1, <3>2 DEF One
  <2>2. assigned[c] = {}
    BY <1>2, Begun DEF ConnOK
  <2>3. QED BY <2>1, <2>2
<1>5. PICK r \in ThreadType :
         /\ r = [Idle EXCEPT !.pc = "default", !.ci = c]
         /\ r.ci = c /\ r.pc = "default" /\ r.held = {} /\ r.made = None /\ r.mark = None
  <2> DEFINE x == [Idle EXCEPT !.pc = "default", !.ci = c]
  <2>1. x \in ThreadType
    BY IdleType DEF ThreadType, Pc
  <2>2. x.ci = c /\ x.pc = "default" /\ x.held = {} /\ x.made = None /\ x.mark = None
    BY DEF Idle
  <2> HIDE DEF x
  <2>3. x = [Idle EXCEPT !.pc = "default", !.ci = c]
    BY DEF x
  <2>4. QED BY <2>1, <2>2, <2>3
<1>6. thr' = [thr EXCEPT ![t] = r]
  BY <1>2, <1>5
<1>7. thr'[t] = r /\ \A u \in Thread \ {t} : thr'[u] = thr[u]
  BY <1>3, <1>6
<1>8. conn' = [conn EXCEPT ![c].refs = @ + 1] /\ conn'[c].listed = conn[c].listed
  BY <1>2, <1>3 DEF RefConn, TypeOK
<1>9. InstOK' /\ Stable /\ \A i \in Inst : inst'[i].refs = inst[i].refs + One(i \in r.held)
  <2>1. InstOK' /\ Stable /\ inst' = inst
    BY <1>1, <1>3, SameKeeps
  <2>2. QED BY <1>3, <1>5, <2>1 DEF TypeOK, One
<1>10. ThreadOK(t)'
  <2>1. ~Walking(t)' /\ Ci(t)' = c
    BY <1>5, <1>7 DEF Walking, Ci
  <2>2. PcOK(t)'
    BY <1>5, <1>7 DEF PcOK, At, Ci
  <2>3. NewOK(t)'
    <3>1. \A u \in Thread \ {t} : Ci(u)' # c
      BY <1>4, <1>7 DEF Ci
    <3>2. thr'[t] = [Idle EXCEPT !.pc = thr'[t].pc, !.ci = c]
      BY <1>5, <1>7
    <3>3. thr'[t].pc \in {"default", "tracker", "tracked", "drop"} => assigned'[c] = {}
      BY <1>1, <1>4
    <3>4. thr'[t].pc \notin {"walk", "built", "assigned"} /\ ~At(t, "made")'
      BY <1>5, <1>7 DEF At
    <3>5. ~conn'[c].listed
      BY <1>4, <1>8
    <3>6. QED BY <2>1, <3>1, <3>2, <3>3, <3>4, <3>5 DEF NewOK
  <2>4. WalkOK(t)' /\ FullOK(t)'
    BY <2>1 DEF WalkOK, FullOK
  <2>5. QED BY <2>2, <2>3, <2>4 DEF ThreadOK
<1>11. r.pc \notin {"look", "asked", "put"} /\ r.ci = c /\ r.made = None /\ r.mark = None
  BY <1>5
<1>12. /\ conn' = [conn EXCEPT ![c].refs = @ + 1]
       /\ \A u \in Thread \ {t} : Newborn(u) => Ci(u) # c
       /\ \A u \in Thread \ {t} : Walking(u) /\ Walking(t)' => Ci(u) # c
  BY <1>4, <1>8
<1>13. QED BY <1>1, <1>6, <1>9, <1>10, <1>11, <1>12, BeginStep

LEMMA HoldKeeps ==
  ASSUME LifecycleAssumption, IInv, NEW t \in Thread, NEW c \in Conn, NEW pc \in {"walk", "process"},
         Hold(t, c, pc), pc = "walk" => ~\E u \in Thread : Walking(u) /\ Ci(u) = c
  PROVE  IInv'
<1>1. /\ At(t, "idle") /\ jobs' = jobs + 1 /\ assigned' = assigned /\ exiting' = exiting
      /\ conn[c].listed /\ RefConn(c) /\ Ref(assigned[c]) /\ UNCHANGED <<links, defaults>>
  BY DEF Hold, Starts, memory
<1>2. /\ thr \in [Thread -> ThreadType] /\ TypeOK /\ InstOK /\ Owned /\ Used /\ Types \in Nat
      /\ None \notin Inst /\ None \notin Conn /\ ConnOK(c)
  BY Begun DEF TypeOK
<1>3. PICK q \in Seq(Inst) :
         /\ q = ByType(assigned[c])
         /\ \A k \in 1..Len(q) : q[k] \in assigned[c]
         /\ Covers(assigned[c], q) /\ Ascends(q)
  BY <1>2, Sorted
<1>4. q # <<>>
  <2>1. PICK a \in assigned[c] : Ty(a) = 0
    BY <1>1, <1>2 DEF ConnOK, Has
  <2>2. PICK k \in 1..Len(q) : q[k] = a
    BY <1>3, <2>1 DEF Covers
  <2>3. QED BY <1>3, <2>2
<1>5. thr' = [thr EXCEPT ![t] = [Idle EXCEPT !.pc = pc, !.ci = c, !.held = assigned[c], !.arr = q]]
  BY <1>3 DEF Hold
<1>6. PICK r \in ThreadType :
         /\ thr' = [thr EXCEPT ![t] = r]
         /\ r.ci = c /\ r.pc = pc /\ r.held = assigned[c] /\ r.arr = q /\ r.i = 1 /\ r.type = 0
         /\ r.made = None /\ r.mark = None
  <2> DEFINE x == [Idle EXCEPT !.pc = pc, !.ci = c, !.held = assigned[c], !.arr = q]
  <2>1. assigned[c] \in SUBSET Inst
    BY <1>2 DEF TypeOK
  <2>2. x \in ThreadType
    BY <1>3, <2>1, IdleType DEF ThreadType, Pc
  <2>3. /\ x.ci = c /\ x.pc = pc /\ x.held = assigned[c] /\ x.arr = q /\ x.i = 1 /\ x.type = 0
        /\ x.made = None /\ x.mark = None
    BY DEF Idle
  <2>4. thr' = [thr EXCEPT ![t] = x]
    BY <1>5
  <2> HIDE DEF x
  <2>5. QED BY <2>2, <2>3, <2>4
<1>7. thr'[t] = r /\ \A u \in Thread \ {t} : thr'[u] = thr[u]
  BY <1>2, <1>6
<1>8. /\ InstOK' /\ Stable
      /\ \A i \in Inst : inst'[i].refs = inst[i].refs + One(i \in assigned[c]) /\ Ty(i)' = Ty(i)
  <2>1. assigned[c] \in SUBSET Live
    BY <1>2, Holding
  <2>2. QED BY <1>1, <1>2, <2>1, RefKeeps
<1>9. \A u \in Thread \ {t} : Newborn(u) => Ci(u) # c
  <2> SUFFICES ASSUME NEW u \in Thread, Newborn(u) PROVE Ci(u) # c
    OBVIOUS
  <2>1. ThreadOK(u)
    BY Begun
  <2>2. ~conn[Ci(u)].listed
    BY <2>1 DEF ThreadOK, NewOK
  <2>3. QED BY <1>1, <2>2
<1>10. \A u \in Thread \ {t} : Walking(u) /\ Walking(t)' => Ci(u) # c
  <2>1. pc # "walk" => ~Walking(t)'
    BY <1>6, <1>7 DEF Walking
  <2>2. QED BY <2>1
<1>11. ThreadOK(t)'
  <2>1. PcOK(t)' /\ Ci(t)' = c /\ thr'[t].pc \notin {"default", "tracker", "tracked", "drop"}
    BY <1>6, <1>7 DEF PcOK, At, Ci
  <2>2. CASE ~Walking(t)'
    BY <2>1, <2>2, Past
  <2>3. CASE Walking(t)'
    <3>1. pc = "walk" /\ At(t, "walk")' /\ ~At(t, "assigned")'
      BY <1>6, <1>7, <2>3 DEF Walking, At
    <3>2. NewOK(t)'
      BY <1>4, <1>6, <1>7, <3>1 DEF NewOK, Newborn, At
    <3>3. \A k \in 1..Len(q) : q[k] \in Inst /\ Ty(q[k])' = Ty(q[k]) /\ Ty(q[k]) \in 0..(Types - 1)
      <4>1. \A i \in Inst : Ty(i)' = Ty(i) /\ Ty(i) \in 0..(Types - 1)
        BY <1>2, <1>8 DEF TypeOK, Ty
      <4>2. \A k \in 1..Len(q) : q[k] \in Inst
        BY <1>3
      <4>3. QED BY <4>1, <4>2
    <3>4. WalkOK(t)'
      <4>1. \A u \in Thread \ {t} : Walking(u)' => Ci(u)' # c
        BY <1>7, <3>1 DEF Walking, Ci
      <4>2. Len(q) \in Nat
        BY <1>3
      <4>3. /\ r.i \in 1..(Len(r.arr) + 1)
            /\ \A k \in 1..Len(r.arr) : IF k < r.i THEN Ty(r.arr[k])' < r.type ELSE Ty(r.arr[k])' >= r.type
        BY <1>2, <1>6, <3>3, <4>2
      <4>4. InStep(r)'
        BY <4>3 DEF InStep
      <4>5. Ascends(r.arr)'
        BY <1>3, <1>6, <3>3 DEF Ascends
      <4>6. Covers(r.held, r.arr)' /\ \A k \in 1..Len(r.arr) : r.arr[k] \in r.held
        BY <1>3, <1>6 DEF Covers
      <4>7. assigned'[c] \ r.held = {}
        BY <1>1, <1>6
      <4>8. QED BY <1>7, <2>1, <3>1, <4>1, <4>4, <4>5, <4>6, <4>7 DEF WalkOK
    <3>5. FullOK(t)'
      <4>1. r.held \subseteq assigned'[c] /\ 0..(r.type - 1) = {}
        BY <1>1, <1>6
      <4>2. QED BY <1>7, <2>1, <3>1, <4>1 DEF FullOK
    <3>6. QED BY <2>1, <3>2, <3>4, <3>5 DEF ThreadOK
  <2>4. QED BY <2>2, <2>3
<1>12. /\ conn' = [conn EXCEPT ![c].refs = @ + 1]
       /\ \A i \in Inst : inst'[i].refs = inst[i].refs + One(i \in r.held)
  BY <1>1, <1>6, <1>8 DEF RefConn
<1>13. r.pc \notin {"look", "asked", "put"} /\ r.ci = c /\ r.made = None /\ r.mark = None /\ thr' = [thr EXCEPT ![t] = r]
  BY <1>6
<1>14. InstOK' /\ Stable
  BY <1>8
<1>15. QED BY <1>1, <1>9, <1>10, <1>11, <1>12, <1>13, <1>14, BeginStep

-----------------------------------------------------------------------------
(* The invariant of the specification.                                     *)
LEMMA InitOK ==
  ASSUME LifecycleAssumption, Init
  PROVE  IInv
<1>1. /\ thr \in [Thread -> ThreadType] /\ \A t \in Thread : thr[t] = Idle
      /\ Types \in Nat /\ MARK \in 1..(Types - 1) /\ None \notin Inst /\ None \notin Conn
  BY IdleType DEF Init, LifecycleAssumption
<1>2. Live = {} /\ Marks = {} /\ OfType(Live, 0) = {}
  BY DEF Init, Live, Marks, OfType
<1>3. Cardinality({}) = 0
  BY FS_EmptySet
<1>4. InstOK
  <2>1. InstTypes
    BY <1>1 DEF Init, InstTypes
  <2>2. Allocated
    BY <1>2, <1>3 DEF Init, Allocated
  <2>3. ListOK
    <3>1. Lists(<<>>, Marks, next, prev, head, count)
      BY <1>2 DEF Init, Lists
    <3>2. QED BY <1>2, <1>3, <3>1 DEF Init, ListOK
  <2>4. QED BY <2>1, <2>2, <2>3 DEF InstOK
<1>5. Owned
  <2> SUFFICES ASSUME NEW i \in Inst
               PROVE  inst[i].refs =
                        Cardinality({c \in Conn : i \in assigned[c]})
                          + Cardinality({t \in Thread : i \in thr[t].held})
                          + Cardinality({t \in Thread : thr[t].made = i})
                          + Cardinality({t \in Thread : thr[t].mark = i})
    BY DEF Owned
  <2> DEFINE A == {c \in Conn : i \in assigned[c]}
             H == {t \in Thread : i \in thr[t].held}
             M == {t \in Thread : thr[t].made = i}
             K == {t \in Thread : thr[t].mark = i}
  <2>1. A = {} /\ H = {} /\ M = {} /\ K = {}
    BY <1>1 DEF Init, Idle
  <2>2. inst[i].refs = 0
    BY DEF Init
  <2>3. inst[i].refs = Cardinality(A) + Cardinality(H) + Cardinality(M) + Cardinality(K)
    <3> HIDE DEF A, H, M, K
    <3>1. QED BY <1>3, <2>1, <2>2
  <2>4. QED BY <2>3
<1>6. Used
  <2> SUFFICES ASSUME NEW c \in Conn
               PROVE  conn[c].refs =
                        (IF conn[c].listed THEN 1 ELSE 0)
                          + Cardinality({t \in Thread : Ci(t) = c})
                          + Cardinality({t \in Thread : Ci(t) = c /\ thr[t].pc \in {"look", "asked", "put"}})
    BY DEF Used
  <2>1. /\ {t \in Thread : Ci(t) = c} = {}
        /\ {t \in Thread : Ci(t) = c /\ thr[t].pc \in {"look", "asked", "put"}} = {}
    BY <1>1 DEF Idle, Ci
  <2>2. conn[c].refs = 0 /\ ~conn[c].listed
    BY DEF Init
  <2>3. QED BY <1>3, <2>1, <2>2
<1>7. \A c \in Conn : ConnOK(c)
  BY DEF Init, ConnOK
<1>8. \A t \in Thread : ThreadOK(t)
  <2> SUFFICES ASSUME NEW t \in Thread PROVE ThreadOK(t)
    OBVIOUS
  <2>1. ~Walking(t) /\ thr[t].pc \notin {"default", "tracker", "tracked", "drop"}
    BY <1>1 DEF Walking, Idle
  <2>2. PcOK(t)
    BY <1>1 DEF PcOK, At, Idle
  <2>3. NewOK(t) /\ WalkOK(t) /\ FullOK(t)
    BY <2>1 DEF NewOK, Newborn, WalkOK, FullOK
  <2>4. QED BY <2>2, <2>3 DEF ThreadOK
<1>9. /\ conn \in [Conn -> [refs : Int, listed : BOOLEAN]] /\ assigned \in [Conn -> SUBSET Inst]
      /\ exiting \in BOOLEAN /\ jobs \in Nat
  <2>1. conn \in [Conn -> [refs : Int, listed : BOOLEAN]]
    BY DEF Init
  <2>2. assigned \in [Conn -> SUBSET Inst]
    <3>1. {} \in SUBSET Inst
      OBVIOUS
    <3>2. QED BY <3>1 DEF Init
  <2>3. exiting \in BOOLEAN /\ jobs \in Nat
    BY DEF Init
  <2>4. QED BY <2>1, <2>2, <2>3
<1>10. QED BY <1>1, <1>4, <1>5, <1>6, <1>7, <1>8, <1>9, Parts

(* What changes nothing but exiting.                                       *)
LEMMA Idles ==
  ASSUME LifecycleAssumption, IInv, exiting' \in BOOLEAN,
         UNCHANGED <<conn, assigned, classifiers, thr, jobs>>
  PROVE  IInv'
<1>1. /\ conn' = conn /\ assigned' = assigned /\ inst' = inst /\ next' = next /\ prev' = prev
      /\ head' = head /\ count' = count /\ defaults' = defaults
      /\ thr' = thr /\ jobs' = jobs
  BY DEF classifiers, links, memory
<1>2. TypeOK'
  BY <1>1 DEF IInv, TypeOK
<1>3. Owned' /\ Used' /\ Allocated'
  <2>1. Owned'
    BY <1>1 DEF IInv, Owned
  <2>2. Used'
    BY <1>1 DEF IInv, Used, Ci
  <2>3. Allocated'
    BY <1>1 DEF IInv, Allocated, Live, OfType
  <2>4. QED BY <2>1, <2>2, <2>3
<1>4. ListOK'
  <2>1. Marks' = Marks
    BY <1>1 DEF Marks, Live, OfType
  <2>2. PICK q : Lists(q, Marks, next, prev, head, count)
    BY DEF IInv, ListOK
  <2>3. Lists(q, Marks', next', prev', head', count')
    BY <1>1, <2>1, <2>2
  <2>4. /\ \A i \in Inst \ Marks' : next'[i] = None /\ prev'[i] = None
        /\ count' = Cardinality(Marks')
    BY <1>1, <2>1 DEF IInv, ListOK
  <2>5. QED BY <2>3, <2>4 DEF ListOK
<1>5. \A c \in Conn : ConnOK(c)'
  BY <1>1 DEF IInv, ConnOK, Ty, Has
<1>6. \A t \in Thread : PcOK(t)' /\ NewOK(t)' /\ WalkOK(t)' /\ FullOK(t)'
  <2> SUFFICES ASSUME NEW t \in Thread PROVE PcOK(t)' /\ NewOK(t)' /\ WalkOK(t)' /\ FullOK(t)'
    OBVIOUS
  <2>1. PcOK(t) /\ NewOK(t) /\ WalkOK(t) /\ FullOK(t)
    BY DEF IInv
  <2>2. PcOK(t)'
    BY <1>1, <2>1 DEF PcOK, At, Ci
  <2>3. NewOK(t)'
    BY <1>1, <2>1 DEF NewOK, Newborn, Walking, At, Ci, Has, Ty
  <2>4. WalkOK(t)'
    BY <1>1, <2>1 DEF WalkOK, Walking, Covers, Ascends, InStep, At, Ci, Ty, Same, More
  <2>5. FullOK(t)'
    BY <1>1, <2>1 DEF FullOK, Walking, At, Ci, Has, Ty
  <2>6. QED BY <2>2, <2>3, <2>4, <2>5
<1>7. QED BY <1>2, <1>3, <1>4, <1>5, <1>6 DEF IInv

LEMMA StepOK ==
  ASSUME LifecycleAssumption, IInv, NEW t \in Thread, Step(t)
  PROVE  IInv'
<1>1. CASE NewConn(t)
  BY <1>1, NewConnKeeps
<1>2. CASE DefaultAlloc(t) \/ TrackerAlloc(t)
  <2>1. /\ thr[t].pc \in {"default", "tracker", "tracked"}
        /\ UNCHANGED <<conn, assigned, exiting, jobs>> /\ UNCHANGED <<inst, links, defaults>>
    BY <1>2 DEF DefaultAlloc, TrackerAlloc, At
  <2>2. PICK pc \in {"tracker", "tracked", "drop"} : Goto(t, pc)
    BY <1>2 DEF DefaultAlloc, TrackerAlloc
  <2>3. QED BY <2>1, <2>2, DefaultGoesOn
<1>3. CASE DefaultCounted(t)
  <2>1. At(t, "tracked") /\ UNCHANGED links /\ UNCHANGED <<conn, assigned, exiting, jobs>>
    BY <1>3 DEF DefaultCounted
  <2>2. CASE exiting
    <3>1. Goto(t, "drop") /\ UNCHANGED <<inst, links, defaults>>
      BY <1>3, <2>1, <2>2 DEF DefaultCounted
    <3>2. thr[t].pc \in {"default", "tracker", "tracked"}
      BY <2>1 DEF At
    <3>3. QED BY <2>1, <3>1, <3>2, DefaultGoesOn
  <2>3. CASE ~exiting
    <3>1. PICK i \in Fresh :
          /\ inst' = [inst EXCEPT ![i] = [type |-> 0, refs |-> 1]]
          /\ defaults' = defaults + 1
          /\ thr' = [thr EXCEPT ![t].made = i, ![t].pc = "made"]
      BY <1>3, <2>3 DEF DefaultCounted
    <3>2. QED BY <2>1, <3>1, DefaultMakes
  <2>4. QED BY <2>2, <2>3
<1>4. CASE Reclassify(t)
  <2>1. PICK c \in Conn : Hold(t, c, "walk") /\ ~\E u \in Thread : Walking(u) /\ Ci(u) = c
    BY <1>4 DEF Reclassify
  <2>2. QED BY <2>1, HoldKeeps
<1>5. CASE WalkSame(t)
  BY <1>5, WalkSameKeeps
<1>6. CASE WalkMissing(t)
  <2>1. /\ At(t, "walk") /\ ~Same(t) /\ thr[t].type < Types
        /\ UNCHANGED <<conn, assigned, exiting, jobs>> /\ UNCHANGED <<inst, links, defaults>>
    BY <1>6 DEF WalkMissing
  <2>2. CASE thr' = Fails(t)
    <3>1. thr[t] \in ThreadType /\ thr \in [Thread -> ThreadType] /\ thr[t].pc = "walk"
      BY <2>1, Begun DEF TypeOK, At
    <3>2. thr' = [Fails(t) EXCEPT ![t].pc = "walk"]
      BY <2>2, <3>1 DEF Fails, Advance, ThreadType
    <3>3. QED BY <2>1, <3>1, <3>2, WalkMissingFails
  <2>3. CASE thr[t].type # 0 /\ Goto(t, "built")
    BY <2>1, <2>3, WalkMissingBuilds
  <2>4. QED BY <1>6, <2>2, <2>3 DEF WalkMissing
<1>7. CASE Link(t)
  <2>1. /\ At(t, "built") /\ thr[t].pc \in {"walk", "built"}
        /\ UNCHANGED <<conn, assigned, exiting, jobs>> /\ UNCHANGED defaults
    BY <1>7 DEF Link, At
  <2>2. ~Same(t) /\ thr[t].type < Types /\ thr[t].type # 0
    <3>1. ThreadOK(t) /\ Walking(t) /\ ~At(t, "walk")
      BY <2>1, Begun DEF Walking, At
    <3>2. QED BY <2>1, <3>1 DEF ThreadOK, WalkOK
  <2>3. CASE thr[t].type = MARK /\ exiting
    <3>1. thr' = [Fails(t) EXCEPT ![t].pc = "walk"] /\ UNCHANGED <<inst, links, defaults>>
      BY <1>7, <2>1, <2>3 DEF Link
    <3>2. QED BY <2>1, <2>2, <3>1, WalkMissingFails
  <2>4. CASE ~(thr[t].type = MARK /\ exiting)
    <3>1. PICK i \in Fresh :
                  /\ inst' = [inst EXCEPT ![i] = [type |-> thr[t].type, refs |-> 1]]
                  /\ IF thr[t].type = MARK THEN Linked(i) ELSE UNCHANGED links
                  /\ thr' = [thr EXCEPT ![t].made = i, ![t].pc = "made"]
      BY <1>7, <2>4, Zenon DEF Link
    <3>2. QED BY <2>1, <2>2, <3>1, LinkMakes
  <2>5. QED BY <2>3, <2>4
<1>8. CASE Assign(t)
  BY <1>8, AssignKeeps
<1>9. CASE Give(t)
  BY <1>9, GiveKeeps
<1>10. CASE WalkEnds(t)
  BY <1>10, WalkEndsKeeps
<1>11. CASE Packet(t)
  <2>1. PICK c \in Conn : Hold(t, c, "process")
    BY <1>11 DEF Packet
  <2>2. QED BY <2>1, HoldKeeps
<1>12. CASE Find(t)
  BY <1>12, FindKeeps
<1>13. CASE Look(t)
  BY <1>13, LookKeeps
<1>14. CASE Asked(t)
  BY <1>14, AskedKeeps
<1>15. CASE PutFound(t)
  BY <1>15, PutFoundKeeps
<1>16. CASE Decide(t)
  BY <1>16, DecideKeeps
<1>17. CASE Release(t)
  BY <1>17, ReleaseKeeps
<1>18. CASE ReleaseConn(t)
  BY <1>18, ReleaseConnKeeps
<1>19. QED BY <1>1, <1>2, <1>3, <1>4, <1>5, <1>6, <1>7, <1>8, <1>9, <1>10, <1>11, <1>12,
              <1>13, <1>14, <1>15, <1>16, <1>17, <1>18 DEF Step

LEMMA NextOK ==
  ASSUME LifecycleAssumption, IInv, [Next]_vars
  PROVE  IInv'
<1>1. CASE Exit
  <2>1. exiting' \in BOOLEAN /\ UNCHANGED <<conn, assigned, classifiers, thr, jobs>>
    BY <1>1 DEF Exit
  <2>2. QED BY <2>1, Idles
<1>2. CASE \E t \in Thread : Step(t)
  BY <1>2, StepOK
<1>3. CASE \E c \in Conn : Expire(c)
  BY <1>3, ExpireKeeps
<1>4. CASE UNCHANGED vars
  <2>1. exiting' \in BOOLEAN /\ UNCHANGED <<conn, assigned, classifiers, thr, jobs>>
    BY <1>4 DEF vars, classifiers, links, memory, IInv, TypeOK
  <2>2. QED BY <2>1, Idles
<1>5. QED BY <1>1, <1>2, <1>3, <1>4 DEF Next

LEMMA Invariant == Spec => []IInv
<1>1. Init => IInv
  BY LifecycleAssumption, InitOK
<1>2. IInv /\ [Next]_vars => IInv'
  BY LifecycleAssumption, NextOK
<1>3. QED BY <1>1, <1>2, PTL DEF Spec

-----------------------------------------------------------------------------
(* Memory.  A tracker or an instance that is not counted yet belongs to    *)
(* the thread in the middle of its allocation.                             *)

Midway == {"tracker", "tracked", "built"}
Tracked == {t \in Thread : At(t, "tracked")}
Pending == {t \in Thread : thr[t].pc \in {"tracker", "tracked", "built"}}
Memory ==
  /\ trackers = defaults + Cardinality(Tracked)
  /\ blocks = Cardinality(Live) + Cardinality(Pending)

(* By how much a step changes what the threads have.                       *)
Account(a, b) ==
  /\ trackers' - defaults' = trackers - defaults + a
  /\ blocks' - Cardinality(Live)' = blocks - Cardinality(Live) + b
(* The memory and the counts, as they are typed.                           *)
Counted ==
  /\ Live \in SUBSET Inst /\ IsFiniteSet(Live) /\ Cardinality(Live) \in Nat
  /\ defaults \in Int /\ trackers \in Int /\ blocks \in Int

LEMMA MemoryCounted ==
  ASSUME LifecycleAssumption, TypeOK, Memory
  PROVE  Counted
<1>1. Live \in SUBSET Inst /\ Tracked \in SUBSET Thread /\ Pending \in SUBSET Thread
  BY DEF Live, Tracked, Pending
<1>2. IsFiniteSet(Live) /\ IsFiniteSet(Tracked) /\ IsFiniteSet(Pending)
  BY <1>1, Finite
<1>3. Cardinality(Live) \in Nat /\ Cardinality(Tracked) \in Nat /\ Cardinality(Pending) \in Nat
  BY <1>2, FS_CardinalityType
<1>4. QED BY <1>1, <1>2, <1>3 DEF Counted, Memory, TypeOK

LEMMA MemoryKept ==
  ASSUME LifecycleAssumption, Memory, Counted,
         defaults' \in Int, trackers' \in Int, blocks' \in Int, Cardinality(Live)' \in Nat,
         NEW t, \A u \in Thread \ {t} : thr'[u].pc = thr[u].pc,
         Account(One(t \in Tracked') - One(t \in Tracked), One(t \in Pending') - One(t \in Pending))
  PROVE  Memory'
<1> DEFINE A == Tracked
           A1 == Tracked'
           B == Pending
           B1 == Pending'
<1>1. IsFiniteSet(A) /\ IsFiniteSet(A1) /\ A \ {t} = A1 \ {t}
  <2>1. A \in SUBSET Thread /\ A1 \in SUBSET Thread
    BY DEF Tracked
  <2>2. QED BY <2>1, Finite DEF Tracked, At
<1>2. IsFiniteSet(B) /\ IsFiniteSet(B1) /\ B \ {t} = B1 \ {t}
  <2>1. B \in SUBSET Thread /\ B1 \in SUBSET Thread
    BY DEF Pending
  <2>2. QED BY <2>1, Finite DEF Pending
<1>3. /\ trackers = defaults + Cardinality(A) /\ blocks = Cardinality(Live) + Cardinality(B)
      /\ trackers' - defaults' = trackers - defaults + (One(t \in A1) - One(t \in A))
      /\ blocks' - Cardinality(Live)' = blocks - Cardinality(Live) + (One(t \in B1) - One(t \in B))
  BY DEF Memory, Account
<1>4. (Tracked' = A1 /\ Pending' = B1)
  OBVIOUS
<1> HIDE DEF A, A1, B, B1
<1>5. /\ Cardinality(A) \in Nat /\ Cardinality(A1) = Cardinality(A) + One(t \in A1) - One(t \in A)
      /\ Cardinality(B) \in Nat /\ Cardinality(B1) = Cardinality(B) + One(t \in B1) - One(t \in B)
  BY <1>1, <1>2, SameRest
<1>6. One(t \in A) \in Int /\ One(t \in A1) \in Int /\ One(t \in B) \in Int /\ One(t \in B1) \in Int
  BY DEF One
<1>7. trackers' = defaults' + Cardinality(A1) /\ blocks' = Cardinality(Live)' + Cardinality(B1)
  BY <1>3, <1>5, <1>6 DEF Counted
<1>8. QED BY <1>4, <1>7 DEF Memory

(* A thread that is not in the middle of an allocation before or after.    *)
LEMMA Quiet ==
  ASSUME LifecycleAssumption, Memory, Counted,
         defaults' \in Int, trackers' \in Int, blocks' \in Int, Cardinality(Live)' \in Nat,
         NEW t, \A u \in Thread \ {t} : thr'[u].pc = thr[u].pc,
         thr[t].pc \notin Midway, thr'[t].pc \notin Midway,
         Account(0, 0)
  PROVE  Memory'
<1>1. t \notin Tracked /\ t \notin Tracked' /\ t \notin Pending /\ t \notin Pending'
  BY DEF Tracked, Pending, Midway, At
<1>2. One(t \in Tracked') - One(t \in Tracked) = 0 /\ One(t \in Pending') - One(t \in Pending) = 0
  BY <1>1 DEF One
<1>3. QED BY <1>2, MemoryKept

(* What leaves the instances in use alone, or lets some of them go.        *)
LEMMA SameAccount ==
  ASSUME Counted, Live' = Live, UNCHANGED memory
  PROVE  /\ Account(0, 0)
         /\ defaults' \in Int /\ trackers' \in Int /\ blocks' \in Int /\ Cardinality(Live)' \in Nat
<1>1. Cardinality(Live)' = Cardinality(Live) /\ defaults' = defaults /\ trackers' = trackers /\ blocks' = blocks
  BY DEF memory
<1>2. QED BY <1>1 DEF Counted, Account

LEMMA RefAccount ==
  ASSUME TypeOK, Counted, NEW S \in SUBSET Live, Ref(S), UNCHANGED memory
  PROVE  /\ Account(0, 0)
         /\ defaults' \in Int /\ trackers' \in Int /\ blocks' \in Int /\ Cardinality(Live)' \in Nat
<1>1. \A i \in Inst : inst[i] \in [type : 0..(Types - 1), refs : Int]
  BY DEF TypeOK
<1>2. \A i \in Inst : inst'[i].refs > 0 <=> inst[i].refs > 0
  BY <1>1 DEF Ref, Live
<1>3. Live' = Live
  BY <1>2 DEF Live
<1>4. QED BY <1>3, SameAccount

LEMMA DerefAccount ==
  ASSUME LifecycleAssumption, TypeOK, Counted, NEW S \in SUBSET Live, Deref(S)
  PROVE  /\ Account(0, 0)
         /\ defaults' \in Int /\ trackers' \in Int /\ blocks' \in Int /\ Cardinality(Live)' \in Nat
<1> DEFINE final == {i \in S : inst[i].refs = 1}
           gone == OfType(final, 0)
<1>1. \A i \in Inst : inst[i] \in [type : 0..(Types - 1), refs : Int]
  BY DEF TypeOK
<1>2. Live' = Live \ final
  <2>1. ASSUME NEW i \in Inst PROVE inst'[i].refs > 0 <=> i \in Live /\ i \notin final
    BY <1>1 DEF Live, Deref
  <2>2. QED BY <2>1 DEF Live
<1>3. final \in SUBSET Live /\ final \in SUBSET Inst /\ gone \in SUBSET Inst
  BY DEF Live, OfType
<1>4. /\ blocks' = blocks - Cardinality(final)
      /\ defaults' = defaults - Cardinality(gone) /\ trackers' = trackers - Cardinality(gone)
  BY DEF Deref
<1> HIDE DEF final, gone
<1>5. /\ IsFiniteSet(final) /\ Cardinality(final) \in Nat /\ Cardinality(gone) \in Nat
      /\ IsFiniteSet(Live) /\ Cardinality(Live) \in Nat
  BY <1>3, Finite, FS_CardinalityType DEF Counted
<1>6. Live \cap final = final
  BY <1>3
<1>7. Cardinality(Live \ final) = Cardinality(Live) - Cardinality(final)
  BY <1>5, <1>6, FS_Difference
<1>8. Cardinality(Live)' = Cardinality(Live) - Cardinality(final) /\ Cardinality(Live)' \in Nat
  <2>1. Cardinality(Live)' = Cardinality(Live \ final)
    BY <1>2
  <2>2. IsFiniteSet(Live \ final)
    BY <1>5, FS_Difference
  <2>3. QED BY <1>7, <2>1, <2>2, FS_CardinalityType
<1>9. QED BY <1>4, <1>5, <1>8 DEF Counted, Account

LEMMA DerefConnAccount ==
  ASSUME LifecycleAssumption, IInv, Counted, NEW c \in Conn, NEW listed, DerefConn(c, listed)
  PROVE  /\ Account(0, 0)
         /\ defaults' \in Int /\ trackers' \in Int /\ blocks' \in Int /\ Cardinality(Live)' \in Nat
<1>1. TypeOK /\ assigned[c] \in SUBSET Live
  BY Begun, Holding
<1>2. CASE conn[c].refs = 1
  BY <1>1, <1>2, DerefAccount DEF DerefConn
<1>3. CASE conn[c].refs # 1
  <2>1. Live' = Live /\ UNCHANGED memory
    BY <1>3 DEF DerefConn, classifiers, Live
  <2>2. QED BY <2>1, SameAccount
<1>4. QED BY <1>2, <1>3

(* A new instance that has its memory already.                             *)
LEMMA FreshAccount ==
  ASSUME LifecycleAssumption, TypeOK, Counted, NEW i \in Fresh, NEW y,
         inst' = [inst EXCEPT ![i] = [type |-> y, refs |-> 1]]
  PROVE  Cardinality(Live)' = Cardinality(Live) + 1 /\ Cardinality(Live)' \in Nat
<1>1. i \in Inst /\ i \notin Live
  BY DEF Fresh
<1>2. Live' = Live \cup {i}
  BY <1>1 DEF Live, TypeOK
<1>3. Cardinality(Live \cup {i}) = Cardinality(Live) + 1
  BY <1>1, FS_AddElement DEF Counted
<1>4. QED BY <1>2, <1>3 DEF Counted

(* The steps of an allocation, which are the others.                       *)
LEMMA MidwayKeeps ==
  ASSUME LifecycleAssumption, IInv, Memory, NEW t \in Thread,
         DefaultAlloc(t) \/ TrackerAlloc(t) \/ DefaultCounted(t) \/ WalkMissing(t) \/ Link(t)
  PROVE  Memory'
<1> DEFINE pc == thr[t].pc
           pc1 == thr'[t].pc
           a == One(pc1 = "tracked") - One(pc = "tracked")
           b == One(pc1 \in Midway) - One(pc \in Midway)
<1>1. TypeOK /\ thr \in [Thread -> ThreadType] /\ thr[t] \in ThreadType
  BY Begun DEF TypeOK
<1>2. Counted
  BY <1>1, MemoryCounted
<1>3. SUFFICES /\ \A u \in Thread \ {t} : thr'[u].pc = thr[u].pc
               /\ defaults' \in Int /\ trackers' \in Int /\ blocks' \in Int /\ Cardinality(Live)' \in Nat
               /\ Account(a, b)
  <2>1. /\ a = One(t \in Tracked') - One(t \in Tracked)
        /\ b = One(t \in Pending') - One(t \in Pending)
    BY DEF Tracked, Pending, Midway, At, One
  <2> HIDE DEF a, b
  <2>2. QED BY <1>2, <2>1, MemoryKept
<1>4. inst' = inst => Live' = Live /\ Cardinality(Live)' = Cardinality(Live)
  BY DEF Live
<1>5. CASE DefaultAlloc(t)
  <2>1. /\ pc = "default" /\ \A u \in Thread \ {t} : thr'[u].pc = thr[u].pc
        /\ \/ pc1 = "drop" /\ blocks' = blocks
           \/ pc1 = "tracker" /\ blocks' = blocks + 1
        /\ defaults' = defaults /\ trackers' = trackers /\ inst' = inst
    BY <1>1, <1>5 DEF DefaultAlloc, Goto, At, Allocates, ThreadType
  <2>2. QED BY <1>2, <1>4, <2>1 DEF Counted, Account, One, Midway
<1>6. CASE TrackerAlloc(t)
  <2>1. /\ pc = "tracker" /\ \A u \in Thread \ {t} : thr'[u].pc = thr[u].pc
        /\ \/ pc1 = "drop" /\ blocks' = blocks - 1 /\ trackers' = trackers
           \/ pc1 = "tracked" /\ trackers' = trackers + 1 /\ blocks' = blocks
        /\ defaults' = defaults /\ inst' = inst
    BY <1>1, <1>6 DEF TrackerAlloc, Goto, At, ThreadType
  <2>2. QED BY <1>2, <1>4, <2>1 DEF Counted, Account, One, Midway
<1>7. CASE DefaultCounted(t)
  <2>1. CASE exiting
    <3>1. /\ pc = "tracked" /\ \A u \in Thread \ {t} : thr'[u].pc = thr[u].pc
          /\ pc1 = "drop" /\ blocks' = blocks - 1 /\ trackers' = trackers - 1
          /\ defaults' = defaults /\ inst' = inst
      BY <1>1, <1>7, <2>1 DEF DefaultCounted, Goto, At, ThreadType
    <3>2. QED BY <1>2, <1>4, <3>1 DEF Counted, Account, One, Midway
  <2>2. CASE ~exiting
    <3>1. PICK i \in Fresh :
            /\ inst' = [inst EXCEPT ![i] = [type |-> 0, refs |-> 1]]
            /\ thr' = [thr EXCEPT ![t].made = i, ![t].pc = "made"]
      BY <1>7, <2>2 DEF DefaultCounted
    <3>2. /\ pc = "tracked" /\ \A u \in Thread \ {t} : thr'[u].pc = thr[u].pc
          /\ pc1 = "made" /\ blocks' = blocks /\ trackers' = trackers /\ defaults' = defaults + 1
      BY <1>1, <1>7, <2>2, <3>1 DEF DefaultCounted, At, ThreadType
    <3>3. Cardinality(Live)' = Cardinality(Live) + 1 /\ Cardinality(Live)' \in Nat
      BY <1>1, <1>2, <3>1, FreshAccount
    <3>4. QED BY <1>2, <3>2, <3>3 DEF Counted, Account, One, Midway
  <2>3. QED BY <2>1, <2>2
<1>8. CASE WalkMissing(t)
  <2>1. /\ pc = "walk" /\ \A u \in Thread \ {t} : thr'[u].pc = thr[u].pc
        /\ \/ pc1 = "walk" /\ blocks' = blocks
           \/ pc1 = "built" /\ blocks' = blocks + 1
        /\ defaults' = defaults /\ trackers' = trackers /\ inst' = inst
    BY <1>1, <1>8 DEF WalkMissing, Fails, Advance, Goto, At, Allocates, ThreadType
  <2>2. QED BY <1>2, <1>4, <2>1 DEF Counted, Account, One, Midway
<1>9. CASE Link(t)
  <2>1. CASE thr[t].type = MARK /\ exiting
    <3>1. /\ pc = "built" /\ \A u \in Thread \ {t} : thr'[u].pc = thr[u].pc
          /\ pc1 = "walk" /\ blocks' = blocks - 1 /\ trackers' = trackers
          /\ defaults' = defaults /\ inst' = inst
      BY <1>1, <1>9, <2>1 DEF Link, Fails, Advance, At, ThreadType
    <3>2. QED BY <1>2, <1>4, <3>1 DEF Counted, Account, One, Midway
  <2>2. CASE ~(thr[t].type = MARK /\ exiting)
    <3>1. PICK i \in Fresh :
            /\ inst' = [inst EXCEPT ![i] = [type |-> thr[t].type, refs |-> 1]]
            /\ thr' = [thr EXCEPT ![t].made = i, ![t].pc = "made"]
      BY <1>9, <2>2, Zenon DEF Link
    <3>2. /\ pc = "built" /\ \A u \in Thread \ {t} : thr'[u].pc = thr[u].pc
          /\ pc1 = "made" /\ blocks' = blocks /\ trackers' = trackers /\ defaults' = defaults
      <4>1. pc = "built" /\ blocks' = blocks /\ trackers' = trackers /\ defaults' = defaults
        BY <1>9, <2>2 DEF Link, At
      <4>2. pc1 = "made" /\ \A u \in Thread \ {t} : thr'[u].pc = thr[u].pc
        BY <1>1, <3>1 DEF ThreadType
      <4>3. QED BY <4>1, <4>2
    <3>3. Cardinality(Live)' = Cardinality(Live) + 1 /\ Cardinality(Live)' \in Nat
      BY <1>1, <1>2, <3>1, FreshAccount
    <3>4. QED BY <1>2, <3>2, <3>3 DEF Counted, Account, One, Midway
  <2>3. QED BY <2>1, <2>2
<1>10. QED BY <1>5, <1>6, <1>7, <1>8, <1>9

(* The steps of a thread that take or give back references, or neither.    *)
LEMMA QuietKeeps ==
  ASSUME LifecycleAssumption, IInv, Memory, NEW t \in Thread,
         \/ NewConn(t) \/ Reclassify(t) \/ WalkSame(t) \/ Assign(t) \/ Give(t) \/ WalkEnds(t)
         \/ Packet(t) \/ Find(t) \/ Look(t) \/ Asked(t) \/ PutFound(t) \/ Decide(t)
         \/ Release(t) \/ ReleaseConn(t)
  PROVE  Memory'
<1> DEFINE ends == /\ \A u \in Thread \ {t} : thr'[u].pc = thr[u].pc
                   /\ thr[t].pc \notin Midway /\ thr'[t].pc \notin Midway
           even == /\ Account(0, 0)
                   /\ defaults' \in Int /\ trackers' \in Int /\ blocks' \in Int
                   /\ Cardinality(Live)' \in Nat
<1>1. /\ TypeOK /\ thr \in [Thread -> ThreadType] /\ thr[t] \in ThreadType
      /\ ThreadOK(t) /\ (~At(t, "idle") => Ci(t) \in Conn)
  BY Begun DEF TypeOK
<1>2. Counted
  BY <1>1, MemoryCounted
<1>3. /\ \A c \in Conn : assigned[c] \subseteq Live
      /\ thr[t].held \subseteq Live
      /\ thr[t].made # None => thr[t].made \in Live
      /\ thr[t].mark # None => thr[t].mark \in Live
  BY Begun, Holding
<1>4. SUFFICES ends /\ even
  BY <1>2, Quiet
<1>5. UNCHANGED classifiers => even
  <2>1. UNCHANGED classifiers => Live' = Live /\ UNCHANGED memory
    BY DEF classifiers, Live
  <2>2. QED BY <1>2, <2>1, SameAccount
<1>6. ASSUME NEW S \in SUBSET Live, Deref(S) PROVE even
  BY <1>1, <1>2, <1>6, DerefAccount
<1>7. ASSUME NEW S \in SUBSET Live, Ref(S), UNCHANGED memory PROVE even
  BY <1>1, <1>2, <1>7, RefAccount
<1>8. ASSUME NEW c \in Conn, NEW listed, DerefConn(c, listed) PROVE even
  BY <1>2, <1>8, DerefConnAccount
<1>9. CASE NewConn(t) \/ Reclassify(t) \/ Packet(t)
  <2>1. PICK x \in {"default", "walk", "process"}, c \in Conn :
           /\ At(t, "idle")
           /\ \E r : thr' = [thr EXCEPT ![t] = r] /\ r.pc = x
           /\ UNCHANGED classifiers \/ (Ref(assigned[c]) /\ UNCHANGED memory)
    <3>1. CASE NewConn(t)
      <4>1. PICK c \in Conn : thr' = [thr EXCEPT ![t] = [Idle EXCEPT !.pc = "default", !.ci = c]]
        BY <3>1 DEF NewConn
      <4>2. [Idle EXCEPT !.pc = "default", !.ci = c].pc = "default"
        BY DEF Idle
      <4>3. At(t, "idle") /\ UNCHANGED classifiers
        BY <3>1 DEF NewConn, Starts
      <4>4. \E r : thr' = [thr EXCEPT ![t] = r] /\ r.pc = "default"
        BY <4>1, <4>2
      <4>5. QED BY <4>3, <4>4
    <3>2. ASSUME NEW x \in {"walk", "process"}, NEW c \in Conn, Hold(t, c, x)
          PROVE  /\ At(t, "idle") /\ Ref(assigned[c]) /\ UNCHANGED memory
                 /\ \E r : thr' = [thr EXCEPT ![t] = r] /\ r.pc = x
      <4>1. /\ At(t, "idle") /\ Ref(assigned[c]) /\ UNCHANGED memory
            /\ thr' = [thr EXCEPT ![t] = [Idle EXCEPT !.pc = x, !.ci = c, !.held = assigned[c],
                                                      !.arr = ByType(assigned[c])]]
        BY <3>2 DEF Hold, Starts
      <4>2. [Idle EXCEPT !.pc = x, !.ci = c, !.held = assigned[c], !.arr = ByType(assigned[c])].pc = x
        BY DEF Idle
      <4>3. QED BY <4>1, <4>2
    <3>3. CASE Reclassify(t)
      <4>1. PICK c \in Conn : Hold(t, c, "walk")
        BY <3>3 DEF Reclassify
      <4>2. QED BY <3>2, <4>1
    <3>4. CASE Packet(t)
      <4>1. PICK c \in Conn : Hold(t, c, "process")
        BY <3>4 DEF Packet
      <4>2. QED BY <3>2, <4>1
    <3>5. QED BY <1>9, <3>1, <3>3, <3>4
  <2>2. ends
    <3>1. PICK r : thr' = [thr EXCEPT ![t] = r] /\ r.pc = x
      BY <2>1
    <3>2. QED BY <1>1, <2>1, <3>1 DEF At, Midway
  <2>3. even
    BY <1>3, <1>5, <1>7, <2>1
  <2>4. QED BY <2>2, <2>3
<1>10. CASE WalkSame(t) \/ WalkEnds(t)
  <2>1. ends
    BY <1>1, <1>10 DEF WalkSame, WalkEnds, Advance, Goto, At, Midway, ThreadType
  <2>2. UNCHANGED classifiers
    BY <1>10 DEF WalkSame, WalkEnds
  <2>3. QED BY <1>5, <2>1, <2>2
<1>11. CASE Assign(t)
  <2>1. ends
    BY <1>1, <1>11 DEF Assign, Goto, At, Midway, ThreadType
  <2>2. Ref({thr[t].made}) /\ UNCHANGED memory /\ thr[t].made # None
    BY <1>1, <1>11 DEF Assign, ThreadOK, PcOK, At
  <2>3. QED BY <1>3, <1>7, <2>1, <2>2
<1>12. CASE Give(t)
  <2>1. ends
    BY <1>1, <1>12 DEF Give, Advance, At, Midway, ThreadType
  <2>2. Deref({thr[t].made}) /\ thr[t].made # None
    BY <1>1, <1>12 DEF Give, Given, ThreadOK, PcOK, At
  <2>3. QED BY <1>3, <1>6, <2>1, <2>2
<1>13. CASE Find(t)
  <2>1. ends
    BY <1>1, <1>13 DEF Find, Goto, At, Midway, ThreadType
  <2>2. UNCHANGED classifiers
    BY <1>13 DEF Find
  <2>3. QED BY <1>5, <2>1, <2>2
<1>14. CASE Look(t)
  <2>1. CASE OfType(assigned[Ci(t)], MARK) = {}
    <3>1. ends
      BY <1>1, <1>14, <2>1 DEF Look, Goto, At, Midway, ThreadType
    <3>2. UNCHANGED classifiers
      BY <1>14, <2>1 DEF Look, classifiers
    <3>3. QED BY <1>5, <3>1, <3>2
  <2>2. CASE OfType(assigned[Ci(t)], MARK) # {}
    <3>1. PICK m \in OfType(assigned[Ci(t)], MARK) :
            Ref({m}) /\ thr' = [thr EXCEPT ![t].mark = m, ![t].pc = "asked"]
      BY <1>14, <2>2 DEF Look
    <3>2. At(t, "look") /\ UNCHANGED memory
      BY <1>14 DEF Look
    <3>3. {m} \in SUBSET Live
      BY <1>1, <1>3, <3>2 DEF OfType, At
    <3>4. ends
      BY <1>1, <3>1, <3>2 DEF At, Midway, ThreadType
    <3>5. QED BY <1>7, <3>1, <3>2, <3>3, <3>4
  <2>3. QED BY <2>1, <2>2
<1>15. CASE Asked(t)
  <2>1. ends
    BY <1>1, <1>15 DEF Asked, At, Midway, ThreadType
  <2>2. Deref({thr[t].mark}) /\ thr[t].mark # None
    BY <1>1, <1>15 DEF Asked, ThreadOK, PcOK, At
  <2>3. QED BY <1>3, <1>6, <2>1, <2>2
<1>16. CASE PutFound(t) \/ ReleaseConn(t)
  <2>1. ends
    <3>1. CASE PutFound(t)
      BY <1>1, <3>1 DEF PutFound, Goto, At, Midway, ThreadType
    <3>2. CASE ReleaseConn(t)
      BY <1>1, <3>2 DEF ReleaseConn, At, Midway, Idle
    <3>3. QED BY <1>16, <3>1, <3>2
  <2>2. DerefConn(Ci(t), conn[Ci(t)].listed) /\ ~At(t, "idle")
    BY <1>16 DEF PutFound, ReleaseConn, At
  <2>3. QED BY <1>1, <1>8, <2>1, <2>2
<1>17. CASE Decide(t)
  <2>1. At(t, "decide")
    BY <1>17 DEF Decide
  <2>2. CASE UNCHANGED <<assigned, classifiers>> /\ Goto(t, "release")
    <3>1. ends
      BY <1>1, <2>1, <2>2 DEF Goto, At, Midway, ThreadType
    <3>2. QED BY <1>5, <2>2, <3>1
  <2>3. CASE \E i \in assigned[Ci(t)] \cap thr[t].held :
              /\ Deref({i})
              /\ thr' = [u \in Thread |->
                   IF u = t THEN [thr[u] EXCEPT !.pc = "release"]
                   ELSE IF Ci(u) = Ci(t) THEN [thr[u] EXCEPT !.gone = TRUE] ELSE thr[u]]
    <3>1. PICK i \in thr[t].held : Deref({i})
      BY <2>3
    <3>2. \A u \in Thread \ {t} : thr'[u].pc = thr[u].pc
      <4>1. \A u \in Thread \ {t} : thr[u] \in ThreadType
                /\ (thr'[u] = thr[u] \/ thr'[u] = [thr[u] EXCEPT !.gone = TRUE])
        BY <1>1, <2>3
      <4>2. QED BY <4>1, GoneOnly
    <3>3. ends
      BY <1>1, <2>1, <2>3, <3>2 DEF At, Midway, ThreadType
    <3>4. QED BY <1>3, <1>6, <3>1, <3>3
  <2>4. QED BY <1>17, <2>2, <2>3 DEF Decide
<1>18. CASE Release(t)
  <2>1. PICK i \in thr[t].held : Deref({i}) /\ thr' = [thr EXCEPT ![t].held = @ \ {i}]
    BY <1>18 DEF Release
  <2>2. ends
    BY <1>1, <1>18, <2>1 DEF Release, At, Midway, ThreadType
  <2>3. QED BY <1>3, <1>6, <2>1, <2>2
<1>19. QED BY <1>9, <1>10, <1>11, <1>12, <1>13, <1>14, <1>15, <1>16, <1>17, <1>18

LEMMA MemoryNext ==
  ASSUME LifecycleAssumption, IInv, Memory, [Next]_vars
  PROVE  Memory'
<1>1. Counted
  BY Begun, MemoryCounted
<1>2. ASSUME NEW t \in Thread, Step(t) PROVE Memory'
  <2>1. CASE DefaultAlloc(t) \/ TrackerAlloc(t) \/ DefaultCounted(t) \/ WalkMissing(t) \/ Link(t)
    BY <2>1, MidwayKeeps
  <2>2. CASE ~(DefaultAlloc(t) \/ TrackerAlloc(t) \/ DefaultCounted(t) \/ WalkMissing(t) \/ Link(t))
    BY <1>2, <2>2, QuietKeeps DEF Step
  <2>3. QED BY <2>1, <2>2
<1>3. ASSUME thr' = thr, Account(0, 0),
             defaults' \in Int, trackers' \in Int, blocks' \in Int, Cardinality(Live)' \in Nat
      PROVE  Memory'
  <2>1. Tracked' = Tracked /\ Pending' = Pending
    BY <1>3 DEF Tracked, Pending, At
  <2>2. PICK t : t \notin Thread
    <3> DEFINE R == {x \in Thread : x \notin x}
    <3>1. \A x : x \in R <=> x \in Thread /\ x \notin x
      OBVIOUS
    <3> HIDE DEF R
    <3>2. R \notin Thread
      BY <3>1
    <3>3. QED BY <3>2
  <2>3. One(t \in Tracked') - One(t \in Tracked) = 0 /\ One(t \in Pending') - One(t \in Pending) = 0
    BY <2>1 DEF One
  <2>4. \A u \in Thread \ {t} : thr'[u].pc = thr[u].pc
    BY <1>3
  <2>5. QED BY <1>1, <1>3, <2>3, <2>4, MemoryKept
<1>4. ASSUME NEW c \in Conn, Expire(c) PROVE Memory'
  <2>1. DerefConn(c, FALSE) /\ thr' = thr
    BY <1>4 DEF Expire
  <2>2. QED BY <1>1, <1>3, <2>1, DerefConnAccount
<1>5. CASE Exit \/ UNCHANGED vars
  <2>1. Live' = Live /\ UNCHANGED memory /\ thr' = thr
    BY <1>5 DEF Exit, vars, classifiers, memory, Live
  <2>2. QED BY <1>1, <1>3, <2>1, SameAccount
<1>6. QED BY <1>2, <1>4, <1>5 DEF Next

LEMMA MemoryInvariant == Spec => []Memory
<1>1. LifecycleAssumption /\ Init => Memory
  <2> SUFFICES ASSUME LifecycleAssumption, Init PROVE Memory
    OBVIOUS
  <2>1. Live = {} /\ Tracked = {} /\ Pending = {}
    BY DEF Init, Live, Tracked, Pending, At, Idle
  <2>2. Cardinality({}) = 0
    BY FS_EmptySet
  <2>3. QED BY <2>1, <2>2 DEF Init, Memory
<1>2. LifecycleAssumption /\ IInv /\ Memory /\ [Next]_vars => Memory'
  BY MemoryNext
<1>3. QED BY <1>1, <1>2, LifecycleAssumption, Invariant, PTL DEF Spec

-----------------------------------------------------------------------------
(* A connection that has references has no two classifiers of one type,    *)
(* and one of type DEFAULT as soon as it is listed, whatever is allocated, *)
(* assigned, unassigned and freed at the same time: the assertion of       *)
(* ecm_classifier_assignment_classifier_create() on DEFAULT never fails.   *)
THEOREM OneOfEachType == Spec => []OnePerType
<1>1. IInv => OnePerType
  <2> SUFFICES ASSUME IInv, NEW c \in Conn
               PROVE  /\ \A i, j \in assigned[c] : inst[i].type = inst[j].type => i = j
                      /\ conn[c].listed => OfType(assigned[c], 0) # {}
    BY DEF OnePerType
  <2>1. ConnOK(c)
    BY DEF IInv
  <2>2. QED BY <2>1 DEF ConnOK, Ty, Has, OfType
<1>2. QED BY <1>1, Invariant, PTL

(* The reference counts of connections and classifier instances are what   *)
(* the lists and the threads hold, in whatever order threads allocate,     *)
(* assign, ask, unassign and release, so nothing in use is freed and       *)
(* nothing unused is kept.  Instances and trackers have memory while they  *)
(* are alive or an allocation is between two of its steps, wherever it     *)
(* fails (default.c 497-518 and 561-566, mark.c 656-660).                  *)
THEOREM CountsAreExact == Spec => []RefsExact
<1>1. IInv /\ Memory => RefsExact
  BY Zenon DEF IInv, Owned, Used, Allocated, Memory, Tracked, Pending, RefsExact
<1>2. QED BY <1>1, Invariant, MemoryInvariant, PTL

(* The list mark.c keeps in next, prev and head is a list of its live      *)
(* instances and of nothing else, of the length it counts, wherever an     *)
(* instance is taken out of it.                                            *)
THEOREM ListOfTheLive == Spec => []ListIsLive
<1>1. IInv => ListIsLive
  BY LifecycleAssumption, ListedIsLive DEF IInv
<1>2. QED BY <1>1, Invariant, PTL

(* ecm_classifier_reclassify() reports success only where each type has    *)
(* its classifier assigned, or one was unassigned while it walked: its     *)
(* index into the array stays in step with the types.                      *)
THEOREM FullMeansAll == Spec => []FullIsComplete
<1>1. IInv => FullIsComplete
  <2> SUFFICES ASSUME IInv, NEW t \in Thread,
                      At(t, "walk"), ~More(t), thr[t].type >= Types, thr[t].full, ~thr[t].gone
               PROVE  {inst[i].type : i \in assigned[Ci(t)]} = 0..(Types - 1)
    BY DEF FullIsComplete
  <2>1. /\ ThreadOK(t) /\ thr[t] \in ThreadType /\ Walking(t) /\ Types \in Nat /\ TypeOK
        /\ Ci(t) \in Conn
    BY LifecycleAssumption, Begun DEF Walking, At
  <2>2. thr[t].type = Types
    BY <2>1 DEF ThreadType
  <2>3. \A y \in 0..(Types - 1) : Has(Ci(t), y)
    BY <2>1, <2>2 DEF ThreadOK, FullOK
  <2>4. \A i \in assigned[Ci(t)] : inst[i].type \in 0..(Types - 1)
    BY <2>1 DEF TypeOK
  <2>5. QED BY <2>3, <2>4 DEF Has, Ty
<1>2. QED BY <1>1, Invariant, PTL
=============================================================================
