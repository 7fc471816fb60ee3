--------------------------- MODULE EdmaTx_proofs ---------------------------
(***************************************************************************)
(* Proofs about EdmaTx, for any CPUs, packets and ring size.               *)
(***************************************************************************)
EXTENDS EdmaTx, TLAPS

(* The descriptor rings, for any number of entries.                        *)

(* An index stays in the ring (++cons_idx == count and alike).             *)
LEMMA SuccInRing ==
  ASSUME NEW n \in Nat, NEW i \in 0..n - 1
  PROVE  Succ(i, n) \in 0..n - 1
BY DEF Succ

(* A consumer that has not reached the producer takes the entry it is at.  *)
LEMMA Consume ==
  ASSUME NEW n \in Nat, NEW c \in 0..n - 1, NEW p \in 0..n - 1, c # p
  PROVE  /\ c \in Between(c, p, n)
         /\ Between(Succ(c, n), p, n) = Between(c, p, n) \ {c}
BY DEF Succ, Between

(* A producer that keeps one entry free adds the entry it is at.           *)
LEMMA Produce ==
  ASSUME NEW n \in Nat, NEW c \in 0..n - 1, NEW p \in 0..n - 1, Succ(p, n) # c
  PROVE  /\ p \notin Between(c, p, n)
         /\ Between(c, Succ(p, n), n) = Between(c, p, n) \cup {p}
BY DEF Succ, Between

(* Equal indices mean an empty ring.                                       *)
LEMMA EmptyRing == ASSUME NEW n \in Nat, NEW c \in 0..n - 1 PROVE Between(c, c, n) = {}
BY DEF Between

(* Positions on the way from c to p, both included.                        *)
OnWay(c, x, p, n) == x \in Between(c, p, n) \cup {p}

(* What is in between stays so when the producer or the consumer advances, *)
(* or what is in between itself.                                           *)
LEMMA WayFacts ==
  ASSUME NEW n \in Nat, n >= 2,
         NEW c \in 0..n - 1, NEW x \in 0..n - 1, NEW p \in 0..n - 1, OnWay(c, x, p, n)
  PROVE  /\ Succ(p, n) # c => Succ(p, n) # x /\ OnWay(c, x, Succ(p, n), n)
         /\ x # c => OnWay(Succ(c, n), x, p, n)
         /\ x # p => OnWay(c, Succ(x, n), p, n)
         /\ x = c \/ c # p
BY DEF Succ, Between, OnWay

-----------------------------------------------------------------------------

-----------------------------------------------------------------------------
(* Rings.                                                                  *)
LEMMA Counts ==
  /\ TxdescCount \in Nat /\ TxdescCount >= 2 /\ 0 \in TxIdx
  /\ TxcmplCount \in Nat /\ TxcmplCount >= 2 /\ 0 \in CmplIdx
BY TxAssumption DEF TxAssumption, TxIdx, CmplIdx

LEMMA SuccFacts ==
  /\ \A i \in TxIdx : Succ(i, TxdescCount) \in TxIdx
  /\ \A i \in CmplIdx : Succ(i, TxcmplCount) \in CmplIdx
BY Counts, SuccInRing DEF TxIdx, CmplIdx

LEMMA TxWay ==
  ASSUME NEW c \in CmplIdx, NEW x \in CmplIdx, NEW p \in CmplIdx,
         OnWay(c, x, p, TxcmplCount)
  PROVE  /\ Succ(p, TxcmplCount) # c => /\ Succ(p, TxcmplCount) # x
                                        /\ OnWay(c, x, Succ(p, TxcmplCount), TxcmplCount)
         /\ x # c => OnWay(Succ(c, TxcmplCount), x, p, TxcmplCount)
         /\ x # p => OnWay(c, Succ(x, TxcmplCount), p, TxcmplCount)
         /\ x = c \/ c # p
BY Counts, WayFacts DEF CmplIdx

-----------------------------------------------------------------------------
(* Types.                                                                  *)
LEMMA IdleTypes ==
  Idle \in [pc : {"idle", "called", "locked"}, pkt : Packet \cup {None},
            use : TxIdx, full : BOOLEAN]
BY Counts DEF Idle

LEMMA HeadTypes ==
  ASSUME NEW p \in Packet, heads \in [Packet -> 0..2]
  PROVE  /\ Push(p) => heads' \in [Packet -> 0..2]
         /\ [heads EXCEPT ![p] = 0] \in [Packet -> 0..2]
<1> DEFINE n == IF heads[p] = 2 THEN 2 ELSE heads[p] + 1
<1>1. heads[p] \in 0..2
  OBVIOUS
<1>2. n \in 0..2 /\ 0 \in 0..2
  BY <1>1
<1>3. Push(p) => heads' = [heads EXCEPT ![p] = n]
  BY DEF Push
<1> HIDE DEF n
<1>4. QED BY <1>2, <1>3

LEMMA TypesStep ==
  ASSUME TypeOK, [Next]_vars,
         \A c \in Cpu : xmit[c].pc # "idle" => xmit[c].pkt \in Packet,
         \A i \in Posted : txdesc.buf[i] \in Packet
  PROVE  TypeOK'
<1>1. ASSUME NEW p \in Packet, NewPacket(p) PROVE TypeOK'
  BY <1>1 DEF TypeOK, NewPacket
<1>2. ASSUME NEW p \in Packet, NEW c \in Cpu, Call(c, p) PROVE TypeOK'
  <2>1. [Idle EXCEPT !.pc = "called", !.pkt = p]
          \in [pc : {"idle", "called", "locked"}, pkt : Packet \cup {None},
               use : TxIdx, full : BOOLEAN]
    BY IdleTypes
  <2>2. QED BY <1>2, <2>1 DEF TypeOK, Call
<1>3. ASSUME NEW c \in Cpu, ReadIndices(c) PROVE TypeOK'
  <2> DEFINE r == [pc |-> "locked", pkt |-> xmit[c].pkt, use |-> txdesc.prod,
                   full |-> Succ(txdesc.prod, TxdescCount) = txdesc.cons]
  <2>1. r \in [pc : {"idle", "called", "locked"}, pkt : Packet \cup {None},
               use : TxIdx, full : BOOLEAN]
    BY DEF TypeOK
  <2>2. xmit' = [xmit EXCEPT ![c] = r]
    BY <1>3 DEF ReadIndices
  <2> HIDE DEF r
  <2>3. QED BY <1>3, <2>1, <2>2 DEF TypeOK, ReadIndices
<1>4. ASSUME NEW c \in Cpu, Full(c) PROVE TypeOK'
  BY <1>4, IdleTypes DEF TypeOK, Full, Unlock
<1>5. ASSUME NEW c \in Cpu, Occupied(c) PROVE TypeOK'
  BY <1>5, IdleTypes, HeadTypes DEF TypeOK, Occupied, Unlock, HasRoom
<1>6. ASSUME NEW c \in Cpu, Drop(c) PROVE TypeOK'
  BY <1>6, IdleTypes, HeadTypes DEF TypeOK, Drop, Unlock, HasRoom
<1>7. ASSUME NEW c \in Cpu, Post(c) PROVE TypeOK'
  <2>1. xmit[c].pkt \in Packet /\ xmit[c].use \in TxIdx /\ Succ(xmit[c].use, TxdescCount) \in TxIdx
    BY <1>7, Counts, SuccFacts DEF TypeOK, Post, SlotFree, HasRoom
  <2>2. QED BY <1>7, <2>1, IdleTypes, HeadTypes DEF TypeOK, Post, Put
<1>8. CASE Fetch
  <2>1. txdesc.cons \in Posted /\ Succ(txdesc.cons, TxdescCount) \in TxIdx
    BY <1>8, Consume, Counts, SuccFacts DEF TypeOK, Fetch, Posted, TxIdx
  <2>2. [slot |-> txdesc.cons, buf |-> txdesc.buf[txdesc.cons]] \in [slot : TxIdx, buf : Packet]
    BY <2>1 DEF TypeOK
  <2>3. txdesc' \in [prod : TxIdx, cons : TxIdx, buf : [TxIdx -> Packet \cup {None}]]
    BY <1>8, <2>1 DEF TypeOK, Fetch
  <2>4. QED BY <1>8, <2>2, <2>3 DEF TypeOK, Fetch
<1>9. ASSUME NEW d \in sending, Complete(d) PROVE TypeOK'
  BY <1>9, Counts, SuccFacts DEF TypeOK, Complete
<1>10. CASE CleanBegin
  BY <1>10 DEF TypeOK, CleanBegin
<1>11. CASE Reap
  BY <1>11, Counts, SuccFacts, HeadTypes DEF TypeOK, Reap, Release
<1>12. CASE CleanEnd
  BY <1>12 DEF TypeOK, CleanEnd
<1>13. CASE UNCHANGED vars
  BY <1>13 DEF vars, TypeOK
<1>14. QED
  BY <1>1, <1>2, <1>3, <1>4, <1>5, <1>6, <1>7, <1>8, <1>9, <1>10, <1>11, <1>12, <1>13
  DEF Next, Xmit, Clean, Hardware

-----------------------------------------------------------------------------
(* The calls: the lock excludes, a locked call knows where it writes, and  *)
(* its packet is its own.                                                  *)
LockInv == \A c \in Cpu : lock = c <=> xmit[c].pc = "locked"

CallOwns(c) ==
  xmit[c].pc # "idle" =>
    /\ xmit[c].pkt \in Packet
    /\ owner[xmit[c].pkt] = "driver"
    /\ \A i \in TxIdx : store[i] # xmit[c].pkt
    /\ \A b \in Cpu : xmit[b].pc # "idle" /\ xmit[b].pkt = xmit[c].pkt => b = c

CallReady(c) ==
  xmit[c].pc = "locked" =>
    /\ xmit[c].use = txdesc.prod
    /\ ~xmit[c].full => Succ(txdesc.prod, TxdescCount) # txdesc.cons

CallInv == LockInv /\ \A c \in Cpu : CallOwns(c) /\ CallReady(c)

(* The reaper stands between the indices of its ring; a slot is posted,    *)
(* being sent, or reported, and never two of these.                        *)
ReaperInv ==
  clean.on => /\ OnWay(txcmpl.cons, clean.cons, txcmpl.prod, TxcmplCount)
              /\ OnWay(clean.cons, clean.prod, txcmpl.prod, TxcmplCount)

Apart ==
  /\ \A d \in sending : d.slot \notin Posted
  /\ \A k \in Unreaped : txcmpl.slot[k] \notin Posted
  /\ \A d \in sending, k \in Unreaped : txcmpl.slot[k] # d.slot

SlotInv == ReaperInv /\ Apart /\ HardwareReadsLive /\ ReportsMatch

TxInv == TypeOK /\ CallInv /\ StoreIsOwner /\ SlotInv

LEMMA InitTx == Init => TxInv
<1> SUFFICES ASSUME Init PROVE TxInv
  OBVIOUS
<1>1. Posted = {} /\ Unreaped = {}
  <2>1. Between(0, 0, TxdescCount) = {} /\ Between(0, 0, TxcmplCount) = {}
    BY EmptyRing, Counts DEF TxIdx, CmplIdx
  <2>2. QED BY <2>1 DEF Init, Posted, Unreaped
<1>2. TypeOK
  BY IdleTypes, Counts, SuccFacts DEF Init, TypeOK
<1>3. CallInv
  BY TxAssumption DEF Init, CallInv, LockInv, CallOwns, CallReady, Idle, TxAssumption
<1>4. QED
  BY <1>1, <1>2, <1>3
  DEF Init, TxInv, StoreIsOwner, SlotInv, ReaperInv, Apart, HardwareReadsLive, ReportsMatch

LEMMA TxTypes == ASSUME TxInv, [Next]_vars PROVE TypeOK'
<1>1. \A i \in Posted : txdesc.buf[i] \in Packet
  BY DEF TxInv, SlotInv, HardwareReadsLive, TypeOK, Posted, Between, TxIdx
<1>2. \A c \in Cpu : xmit[c].pc # "idle" => xmit[c].pkt \in Packet
  BY DEF TxInv, CallInv, CallOwns
<1>3. QED BY <1>1, <1>2, TypesStep DEF TxInv

LEMMA CallsStep == ASSUME TxInv, TypeOK', [Next]_vars PROVE CallInv' /\ StoreIsOwner'
<1> USE DEF TxInv
<1>0. None \notin Packet /\ None \notin Cpu /\ Idle.pc = "idle"
  BY TxAssumption DEF TxAssumption, Idle
<1>1. ASSUME NEW p \in Packet, NewPacket(p) PROVE CallInv' /\ StoreIsOwner'
  <2>1. \A q : owner[q] = "driver" => owner'[q] = "driver"
    BY <1>1 DEF NewPacket, TypeOK
  <2>2. UNCHANGED <<xmit, lock, txdesc, store>>
    BY <1>1 DEF NewPacket
  <2>3. StoreIsOwner'
    BY <2>1, <2>2 DEF StoreIsOwner
  <2>4. CallInv'
    BY <2>1, <2>2 DEF CallInv, LockInv, CallOwns, CallReady
  <2>5. QED BY <2>3, <2>4
<1>2. ASSUME NEW p \in Packet, NEW c \in Cpu, Call(c, p) PROVE CallInv' /\ StoreIsOwner'
  <2>1. owner[p] = "stack" /\ owner'[p] = "driver" /\ UNCHANGED <<lock, txdesc, store>>
        /\ \A q \in Packet : owner[q] = "driver" => owner'[q] = "driver"
    BY <1>2 DEF Call, TypeOK
  <2>2. xmit'[c].pc = "called" /\ xmit'[c].pkt = p /\ xmit[c].pc = "idle"
        /\ \A b \in Cpu : b # c => xmit'[b] = xmit[b]
    BY <1>2 DEF Call, TypeOK, Idle
  <2>3. \A i \in TxIdx : store[i] # p
    BY <1>0, <2>1 DEF StoreIsOwner
  <2>4. \A b \in Cpu : xmit[b].pc # "idle" => xmit[b].pkt # p
    BY <2>1 DEF CallInv, CallOwns
  <2>5. LockInv'
    BY <2>1, <2>2 DEF CallInv, LockInv
  <2>6. ASSUME NEW b \in Cpu PROVE CallOwns(b)' /\ CallReady(b)'
    BY <2>1, <2>2, <2>3, <2>4 DEF CallInv, CallOwns, CallReady
  <2>7. StoreIsOwner'
    BY <2>1 DEF StoreIsOwner, TypeOK
  <2>8. QED BY <2>5, <2>6, <2>7 DEF CallInv
<1>3. ASSUME NEW c \in Cpu, ReadIndices(c) PROVE CallInv' /\ StoreIsOwner'
  <2>1. xmit'[c].pc = "locked" /\ xmit'[c].pkt = xmit[c].pkt /\ xmit[c].pc = "called"
        /\ xmit'[c].use = txdesc.prod /\ xmit'[c].full = (Succ(txdesc.prod, TxdescCount) = txdesc.cons)
        /\ \A b \in Cpu : b # c => xmit'[b] = xmit[b]
    BY <1>3 DEF ReadIndices, TypeOK
  <2>2. lock = None /\ lock' = c /\ UNCHANGED <<owner, txdesc, store>>
    BY <1>3 DEF ReadIndices
  <2>3. \A b \in Cpu : xmit[b].pc # "locked"
    BY <1>0, <2>2 DEF CallInv, LockInv
  <2>4. LockInv'
    BY <2>1, <2>2, <2>3 DEF LockInv
  <2>5. ASSUME NEW b \in Cpu PROVE CallOwns(b)' /\ CallReady(b)'
    <3>2. \A e \in Cpu : xmit'[e].pkt = xmit[e].pkt
                         /\ (xmit'[e].pc = "idle" <=> xmit[e].pc = "idle")
      BY <2>1
    <3>3. CallOwns(b)'
      BY <2>2, <3>2 DEF CallInv, CallOwns
    <3>4. CallReady(b)'
      BY <2>1, <2>2, <2>3 DEF CallReady
    <3>5. QED BY <3>3, <3>4
  <2>6. QED BY <2>2, <2>4, <2>5 DEF CallInv, StoreIsOwner
<1>4. ASSUME NEW c \in Cpu, NEW o \in {"stack", "nobody"}, xmit[c].pc = "locked",
             Unlock(c, o), UNCHANGED <<txdesc, store>>
      PROVE  CallInv' /\ StoreIsOwner'
  <2>1. lock = c /\ lock' = None /\ xmit'[c] = Idle
        /\ \A b \in Cpu : b # c => xmit'[b] = xmit[b]
    BY <1>4 DEF Unlock, TypeOK, CallInv, LockInv
  <2>2. \A b \in Cpu : b # c => xmit[b].pc # "locked"
    BY <2>1 DEF CallInv, LockInv
  <2>3. LockInv'
    BY <1>0, <2>1, <2>2 DEF LockInv
  <2>4. xmit[c].pkt \in Packet /\ \A i \in TxIdx : store[i] # xmit[c].pkt
    BY <1>4 DEF CallInv, CallOwns
  <2>5. \A q \in Packet : q # xmit[c].pkt => owner'[q] = owner[q]
    BY <1>4 DEF Unlock, TypeOK
  <2>6. StoreIsOwner'
    BY <1>4, <2>4, <2>5 DEF StoreIsOwner, TypeOK
  <2>7. ASSUME NEW b \in Cpu PROVE CallOwns(b)' /\ CallReady(b)'
    <3>1. CASE b = c
      BY <1>0, <2>1, <3>1 DEF CallOwns, CallReady
    <3>2. CASE b # c
      <4>1. xmit[b].pc # "idle" => xmit[b].pkt # xmit[c].pkt
        BY <1>4, <3>2 DEF CallInv, CallOwns
      <4>2. QED BY <1>0, <1>4, <2>1, <2>5, <3>2, <4>1 DEF CallInv, CallOwns, CallReady
    <3>3. QED BY <3>1, <3>2
  <2>8. QED BY <2>3, <2>6, <2>7 DEF CallInv
<1>5. ASSUME NEW c \in Cpu, Full(c) \/ Occupied(c) \/ Drop(c) PROVE CallInv' /\ StoreIsOwner'
  BY <1>4, <1>5 DEF Full, Occupied, Drop, HasRoom
<1>6. ASSUME NEW c \in Cpu, Post(c) PROVE CallInv' /\ StoreIsOwner'
  <2> DEFINE i == xmit[c].use  p == xmit[c].pkt
  <2>1. /\ xmit[c].pc = "locked" /\ p \in Packet /\ i \in TxIdx /\ store[i] = None
        /\ owner[p] = "driver" /\ \A j \in TxIdx : store[j] # p
    BY <1>6 DEF Post, SlotFree, HasRoom, CallInv, CallOwns, TypeOK
  <2>2. /\ lock = c /\ lock' = None /\ xmit'[c] = Idle /\ owner' = owner
        /\ \A b \in Cpu : b # c => xmit'[b] = xmit[b]
        /\ store'[i] = p /\ \A j \in TxIdx : j # i => store'[j] = store[j]
    BY <1>6, <2>1 DEF Post, Put, TypeOK, CallInv, LockInv
  <2>3. \A b \in Cpu : b # c => xmit[b].pc # "locked"
    BY <2>2 DEF CallInv, LockInv
  <2>4. LockInv'
    BY <1>0, <2>2, <2>3 DEF LockInv
  <2>5. StoreIsOwner'
    BY <2>1, <2>2 DEF StoreIsOwner
  <2>6. ASSUME NEW b \in Cpu PROVE CallOwns(b)' /\ CallReady(b)'
    <3>1. CASE b = c
      BY <1>0, <2>2, <3>1 DEF CallOwns, CallReady
    <3>2. CASE b # c
      <4>1. xmit[b].pc # "idle" => xmit[b].pkt # p
        BY <2>1, <3>2 DEF CallInv, CallOwns
      <4>2. CallOwns(b)'
        BY <1>0, <2>2, <3>2, <4>1 DEF CallInv, CallOwns
      <4>3. CallReady(b)'
        BY <2>2, <2>3, <3>2 DEF CallReady
      <4>4. QED BY <4>2, <4>3
    <3>3. QED BY <3>1, <3>2
  <2>7. QED BY <2>4, <2>5, <2>6 DEF CallInv
<1>7. CASE Fetch
  <2>1. UNCHANGED <<owner, xmit, lock, store>> /\ txdesc'.prod = txdesc.prod
        /\ txdesc'.cons = Succ(txdesc.cons, TxdescCount) /\ txdesc.cons # txdesc.prod
    BY <1>7 DEF Fetch, TypeOK
  <2> DEFINE u == txdesc.prod  v == txdesc.cons
  <2>2. Succ(u, TxdescCount) # Succ(v, TxdescCount)
    <3>1. u \in TxIdx /\ v \in TxIdx /\ u # v
      BY <2>1 DEF TypeOK
    <3> HIDE DEF u, v
    <3>2. QED BY <3>1, Counts DEF TxIdx, Succ
  <2>3. ASSUME NEW b \in Cpu PROVE CallOwns(b)' /\ CallReady(b)'
    BY <2>1, <2>2 DEF CallInv, CallOwns, CallReady
  <2>4. QED BY <2>1, <2>3 DEF CallInv, LockInv, StoreIsOwner
<1>8. CASE Reap
  <2> DEFINE i == txcmpl.slot[clean.cons]
  <2>1. UNCHANGED <<xmit, lock, txdesc>> /\ i \in TxIdx /\ store'[i] = None
        /\ \A j \in TxIdx : j # i => store'[j] = store[j]
    BY <1>8 DEF Reap, TypeOK
  <2>2. \A q \in Packet : q # store[i] => owner'[q] = owner[q]
    BY <1>8 DEF Reap, Release, TypeOK
  <2>3. StoreIsOwner'
    BY <1>0, <2>1, <2>2 DEF StoreIsOwner, TypeOK
  <2>4. ASSUME NEW b \in Cpu PROVE CallOwns(b)' /\ CallReady(b)'
    <3>1. xmit[b].pc # "idle" => /\ xmit[b].pkt \in Packet /\ xmit[b].pkt # store[i]
                                 /\ owner'[xmit[b].pkt] = "driver"
                                 /\ \A j \in TxIdx : store'[j] # xmit[b].pkt
      BY <1>0, <2>1, <2>2 DEF CallInv, CallOwns
    <3>2. QED BY <2>1, <3>1 DEF CallInv, CallOwns, CallReady
  <2>5. QED BY <2>1, <2>3, <2>4 DEF CallInv, LockInv
<1>9. ASSUME UNCHANGED <<owner, xmit, lock, txdesc, store>> PROVE CallInv' /\ StoreIsOwner'
  BY <1>9 DEF CallInv, LockInv, CallOwns, CallReady, StoreIsOwner
<1>10. ASSUME NEW d \in sending, Complete(d) PROVE CallInv' /\ StoreIsOwner'
  BY <1>9, <1>10 DEF Complete
<1>11. CASE CleanBegin \/ CleanEnd \/ UNCHANGED vars
  BY <1>9, <1>11 DEF CleanBegin, CleanEnd, vars
<1>12. QED
  BY <1>1, <1>2, <1>3, <1>5, <1>6, <1>7, <1>8, <1>10, <1>11
  DEF Next, Xmit, Clean, Hardware

-----------------------------------------------------------------------------
(* The slots.  Where the reaper stands, and that this is inside its ring.  *)
Reaper == IF clean.on THEN clean.cons ELSE txcmpl.cons

LEMMA ReaperPlace ==
  ASSUME TypeOK, ReaperInv
  PROVE  /\ txcmpl.prod \in CmplIdx /\ txcmpl.cons \in CmplIdx /\ clean.cons \in CmplIdx
         /\ clean.prod \in CmplIdx /\ txdesc.prod \in TxIdx /\ txdesc.cons \in TxIdx
         /\ Reaper \in CmplIdx /\ Unreaped = Between(Reaper, txcmpl.prod, TxcmplCount)
         /\ OnWay(txcmpl.cons, Reaper, txcmpl.prod, TxcmplCount)
<1>1. /\ txcmpl.prod \in CmplIdx /\ txcmpl.cons \in CmplIdx /\ clean.cons \in CmplIdx
      /\ clean.prod \in CmplIdx /\ txdesc.prod \in TxIdx /\ txdesc.cons \in TxIdx
  BY DEF TypeOK
<1>2. OnWay(txcmpl.cons, txcmpl.cons, txcmpl.prod, TxcmplCount)
  BY <1>1, Consume, Counts DEF OnWay, CmplIdx
<1>3. QED BY <1>1, <1>2 DEF ReaperInv, Reaper, Unreaped

(* Slots and packets that the rings speak about.                           *)
LEMMA SlotTypes ==
  ASSUME TypeOK, SlotInv
  PROVE  /\ \A d \in sending : d.slot \in TxIdx /\ d.buf \in Packet /\ store[d.slot] = d.buf
         /\ \A d, e \in sending : d.slot = e.slot => d = e
         /\ \A k \in Unreaped : k \in CmplIdx /\ txcmpl.slot[k] \in TxIdx
         /\ \A i \in Posted : i \in TxIdx
<1>1. \A d \in sending : d.slot \in TxIdx /\ d.buf \in Packet /\ store[d.slot] = d.buf
                         /\ d = [slot |-> d.slot, buf |-> d.buf]
  BY DEF TypeOK, SlotInv, HardwareReadsLive
<1>2. \A d, e \in sending : d.slot = e.slot => d = e
  BY <1>1
<1>3. \A k \in Unreaped : k \in CmplIdx /\ txcmpl.slot[k] \in TxIdx
  BY DEF TypeOK, Unreaped, Between, CmplIdx
<1>4. QED BY <1>1, <1>2, <1>3 DEF Posted, Between, TxIdx

LEMMA PostSlots ==
  ASSUME TxInv, NEW c \in Cpu, Post(c)
  PROVE  SlotInv'
<1> DEFINE i == xmit[c].use  p == xmit[c].pkt
<1>1. /\ p \in Packet /\ i \in TxIdx /\ store[i] = None /\ i = txdesc.prod
      /\ Succ(i, TxdescCount) # txdesc.cons /\ txdesc.cons \in TxIdx
  BY DEF Post, SlotFree, HasRoom, TxInv, CallInv, CallOwns, CallReady, TypeOK
<1>2. /\ store'[i] = p /\ \A j \in TxIdx : j # i => store'[j] = store[j]
      /\ txdesc'.buf[i] = p /\ \A j \in TxIdx : j # i => txdesc'.buf[j] = txdesc.buf[j]
      /\ txdesc'.prod = Succ(i, TxdescCount) /\ txdesc'.cons = txdesc.cons
      /\ UNCHANGED <<sending, txcmpl, clean>>
  BY <1>1 DEF Post, Put, TxInv, TypeOK
<1> HIDE DEF i, p
<1>3. i \notin Posted /\ Posted' = Posted \cup {i}
  BY <1>1, <1>2, Produce, Counts DEF Posted, TxIdx
<1>4. None \notin Packet
  BY TxAssumption DEF TxAssumption
<1>5. /\ \A d \in sending : d.slot # i
      /\ \A k \in Unreaped : txcmpl.slot[k] # i
  BY <1>1, <1>4, SlotTypes DEF TxInv, SlotInv, ReportsMatch
<1>6. HardwareReadsLive'
  BY <1>1, <1>2, <1>3, <1>4, <1>5, SlotTypes DEF TxInv, SlotInv, HardwareReadsLive
<1>7. Unreaped' = Unreaped /\ ReaperInv'
  BY <1>2 DEF Unreaped, ReaperInv, TxInv, SlotInv
<1>8. Apart'
  BY <1>2, <1>3, <1>5, <1>7 DEF TxInv, SlotInv, Apart
<1>9. ReportsMatch'
  BY <1>2, <1>5, <1>7, SlotTypes DEF TxInv, SlotInv, ReportsMatch
<1>10. QED BY <1>6, <1>7, <1>8, <1>9 DEF SlotInv

LEMMA FetchSlots == ASSUME TxInv, Fetch PROVE SlotInv'
<1> DEFINE i == txdesc.cons  n == [slot |-> i, buf |-> txdesc.buf[i]]
<1>1. /\ i \in TxIdx /\ txdesc.prod \in TxIdx /\ i # txdesc.prod
      /\ txdesc'.cons = Succ(i, TxdescCount) /\ txdesc'.prod = txdesc.prod
      /\ \A j \in TxIdx : j # i => txdesc'.buf[j] = txdesc.buf[j]
      /\ sending' = sending \cup {n} /\ UNCHANGED <<store, txcmpl, clean>>
      /\ n.slot = i /\ n.buf = txdesc.buf[i]
  BY DEF Fetch, TxInv, TypeOK
<1>2. i \in Posted /\ Posted' = Posted \ {i}
  BY <1>1, Consume, Counts DEF Posted, TxIdx
<1> HIDE DEF i, n
<1>3. store[i] = txdesc.buf[i]
  BY <1>2 DEF TxInv, SlotInv, HardwareReadsLive
<1>4. HardwareReadsLive'
  BY <1>1, <1>2, <1>3, SlotTypes DEF TxInv, SlotInv, HardwareReadsLive
<1>5. Unreaped' = Unreaped /\ ReaperInv'
  BY <1>1 DEF Unreaped, ReaperInv, TxInv, SlotInv
<1>6. Apart'
  BY <1>1, <1>2, <1>5 DEF TxInv, SlotInv, Apart
<1>7. ReportsMatch'
  BY <1>1, <1>5 DEF TxInv, SlotInv, ReportsMatch
<1>8. QED BY <1>4, <1>5, <1>6, <1>7 DEF SlotInv

LEMMA CompleteSlots ==
  ASSUME TxInv, NEW d \in sending, Complete(d)
  PROVE  SlotInv'
<1> DEFINE q == txcmpl.prod
<1>1. /\ q \in CmplIdx /\ Reaper \in CmplIdx /\ Unreaped = Between(Reaper, q, TxcmplCount)
      /\ txcmpl.cons \in CmplIdx /\ OnWay(txcmpl.cons, Reaper, q, TxcmplCount)
      /\ clean.cons \in CmplIdx /\ clean.prod \in CmplIdx
  BY ReaperPlace DEF TxInv, SlotInv
<1>2. /\ Succ(q, TxcmplCount) # txcmpl.cons /\ sending' = sending \ {d}
      /\ txcmpl'.prod = Succ(q, TxcmplCount) /\ txcmpl'.cons = txcmpl.cons
      /\ txcmpl'.slot[q] = d.slot
      /\ \A k \in CmplIdx : k # q => txcmpl'.slot[k] = txcmpl.slot[k]
      /\ UNCHANGED <<store, txdesc, clean>>
  BY <1>1 DEF Complete, TxInv, TypeOK
<1> HIDE DEF q
<1>3. Succ(q, TxcmplCount) # Reaper
  BY <1>1, <1>2, TxWay
<1>4. Reaper' = Reaper /\ Unreaped' = Between(Reaper, Succ(q, TxcmplCount), TxcmplCount)
  BY <1>2 DEF Reaper, Unreaped
<1>5. q \notin Unreaped /\ Unreaped' = Unreaped \cup {q} /\ Posted' = Posted
  BY <1>1, <1>2, <1>3, <1>4, Produce, Counts DEF Posted, CmplIdx
<1>6. ReaperInv'
  <2> SUFFICES ASSUME clean.on
               PROVE  /\ OnWay(txcmpl.cons, clean.cons, Succ(q, TxcmplCount), TxcmplCount)
                      /\ OnWay(clean.cons, clean.prod, Succ(q, TxcmplCount), TxcmplCount)
    BY <1>2 DEF ReaperInv
  <2>1. OnWay(txcmpl.cons, clean.cons, q, TxcmplCount) /\ OnWay(clean.cons, clean.prod, q, TxcmplCount)
    BY DEF TxInv, SlotInv, ReaperInv, q
  <2>2. Succ(q, TxcmplCount) # clean.cons
    BY <1>1, <1>2, <2>1, TxWay
  <2>3. QED BY <1>1, <1>2, <2>1, <2>2, TxWay
<1>7. HardwareReadsLive'
  BY <1>2, <1>5 DEF TxInv, SlotInv, HardwareReadsLive
<1>8. \A k \in Unreaped : k \in CmplIdx /\ k # q
  BY <1>5, SlotTypes DEF TxInv
<1>9. Apart'
  BY <1>2, <1>5, <1>8, SlotTypes DEF TxInv, SlotInv, Apart
<1>10. store[d.slot] # None
  BY SlotTypes, TxAssumption DEF TxInv, TxAssumption
<1>11. ReportsMatch'
  BY <1>2, <1>5, <1>8, <1>10 DEF TxInv, SlotInv, Apart, ReportsMatch
<1>12. QED BY <1>6, <1>7, <1>9, <1>11 DEF SlotInv

LEMMA ReapSlots == ASSUME TxInv, Reap PROVE SlotInv'
<1> DEFINE k == clean.cons  i == txcmpl.slot[k]
<1>1. /\ txcmpl.prod \in CmplIdx /\ txcmpl.cons \in CmplIdx /\ k \in CmplIdx /\ clean.prod \in CmplIdx
      /\ i \in TxIdx
  BY DEF TxInv, TypeOK
<1>2. /\ clean.on /\ k # clean.prod /\ clean'.on = clean.on /\ clean'.cons = Succ(k, TxcmplCount)
      /\ clean'.prod = clean.prod /\ UNCHANGED <<txdesc, sending>>
      /\ txcmpl'.prod = txcmpl.prod /\ txcmpl'.cons = txcmpl.cons
      /\ \A j \in CmplIdx : j # k => txcmpl'.slot[j] = txcmpl.slot[j]
      /\ store'[i] = None /\ \A j \in TxIdx : j # i => store'[j] = store[j]
  BY <1>1 DEF Reap, TxInv, TypeOK
<1>3. OnWay(txcmpl.cons, k, txcmpl.prod, TxcmplCount) /\ OnWay(k, clean.prod, txcmpl.prod, TxcmplCount)
  BY <1>2 DEF TxInv, SlotInv, ReaperInv
<1>4. Unreaped = Between(k, txcmpl.prod, TxcmplCount) /\ Unreaped' = Between(Succ(k, TxcmplCount), txcmpl.prod, TxcmplCount)
  BY <1>2 DEF Unreaped
<1> HIDE DEF k, i
<1>5. k # txcmpl.prod
  BY <1>1, <1>2, <1>3, TxWay
<1>6. k \in Unreaped /\ Unreaped' = Unreaped \ {k} /\ Posted' = Posted
  BY <1>1, <1>2, <1>4, <1>5, Consume, Counts DEF Posted, CmplIdx
<1>7. ReaperInv'
  BY <1>1, <1>2, <1>3, <1>5, TxWay, Counts, SuccFacts DEF ReaperInv
<1>8. /\ i \notin Posted /\ \A d \in sending : d.slot # i
      /\ \A j \in Unreaped : j # k => txcmpl.slot[j] # i
  BY <1>6 DEF TxInv, SlotInv, Apart, ReportsMatch, i
<1>9. HardwareReadsLive'
  BY <1>2, <1>6, <1>8, SlotTypes DEF TxInv, SlotInv, HardwareReadsLive
<1>10. Apart'
  BY <1>2, <1>6, SlotTypes DEF TxInv, SlotInv, Apart
<1>11. ReportsMatch'
  BY <1>2, <1>6, <1>8, SlotTypes DEF TxInv, SlotInv, ReportsMatch
<1>12. QED BY <1>7, <1>9, <1>10, <1>11 DEF SlotInv

LEMMA SlotsStep == ASSUME TxInv, [Next]_vars PROVE SlotInv'
<1>1. ASSUME UNCHANGED <<txdesc, store, sending>>, Unreaped' = Unreaped,
             txcmpl'.slot = txcmpl.slot, ReaperInv'
      PROVE  SlotInv'
  BY <1>1 DEF TxInv, SlotInv, Apart, HardwareReadsLive, ReportsMatch, Posted
<1>2. ASSUME UNCHANGED <<txdesc, store, sending, txcmpl, clean>> PROVE SlotInv'
  BY <1>1, <1>2 DEF TxInv, SlotInv, ReaperInv, Unreaped
<1>3. ASSUME NEW p \in Packet, NewPacket(p) \/ \E c \in Cpu : Call(c, p) PROVE SlotInv'
  BY <1>2, <1>3 DEF NewPacket, Call
<1>4. ASSUME NEW c \in Cpu, ReadIndices(c) \/ Full(c) \/ Occupied(c) \/ Drop(c) PROVE SlotInv'
  BY <1>2, <1>4 DEF ReadIndices, Full, Occupied, Drop
<1>5. CASE CleanBegin
  <2>1. txcmpl.cons \in CmplIdx /\ txcmpl.prod \in CmplIdx /\ txcmpl.cons # txcmpl.prod
    BY <1>5 DEF TxInv, TypeOK, CleanBegin
  <2>2. OnWay(txcmpl.cons, txcmpl.cons, txcmpl.prod, TxcmplCount)
        /\ OnWay(txcmpl.cons, txcmpl.prod, txcmpl.prod, TxcmplCount)
    BY <2>1, Consume, Counts DEF OnWay, CmplIdx
  <2>3. QED BY <1>1, <1>5, <2>2 DEF CleanBegin, ReaperInv, Unreaped
<1>6. CASE CleanEnd
  <2>1. clean'.on = FALSE /\ txcmpl'.cons = clean.cons /\ clean.on
        /\ txcmpl'.prod = txcmpl.prod /\ txcmpl'.slot = txcmpl.slot
        /\ UNCHANGED <<txdesc, store, sending>>
    BY <1>6 DEF TxInv, TypeOK, CleanEnd
  <2>2. QED BY <1>1, <2>1 DEF ReaperInv, Unreaped
<1>7. CASE UNCHANGED vars
  BY <1>2, <1>7 DEF vars
<1>8. QED
  BY <1>3, <1>4, <1>5, <1>6, <1>7, PostSlots, FetchSlots, CompleteSlots, ReapSlots
  DEF Next, Xmit, Clean, Hardware

-----------------------------------------------------------------------------
LEMMA TxInvHolds == Spec => []TxInv
<1>1. TxInv /\ [Next]_vars => TxInv'
  <2> SUFFICES ASSUME TxInv, [Next]_vars PROVE TxInv'
    OBVIOUS
  <2>1. TypeOK'
    BY TxTypes
  <2>2. QED BY <2>1, CallsStep, SlotsStep DEF TxInv
<1>2. QED BY InitTx, <1>1, PTL DEF Spec

(* The indices, slots and calls of the driver have their types: no index   *)
(* that edma_ring_xmit() or edma_clean_tx() computes leaves its ring.      *)
THEOREM TxTypesHold == Spec => []TypeOK
<1>1. TxInv => TypeOK
  BY DEF TxInv
<1>2. QED BY TxInvHolds, <1>1, PTL

(* The hardware reads no released buffer (edma_ring_xmit, edma_clean_tx).  *)
THEOREM BuffersLive == Spec => []HardwareReadsLive
<1>1. TxInv => HardwareReadsLive
  BY DEF TxInv, SlotInv
<1>2. QED BY TxInvHolds, <1>1, PTL

(* A packet in tx_skb_store is in one slot and the driver's alone.         *)
THEOREM OneOwner == Spec => []StoreIsOwner
<1>1. TxInv => StoreIsOwner
  BY DEF TxInv
<1>2. QED BY TxInvHolds, <1>1, PTL

(* edma_clean_tx() finds a packet for each report, and never the same.     *)
THEOREM NoInvalidReport == Spec => []ReportsMatch
<1>1. TxInv => ReportsMatch
  BY DEF TxInv, SlotInv
<1>2. QED BY TxInvHolds, <1>1, PTL
=============================================================================
