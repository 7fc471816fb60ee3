--------------------------- MODULE EdmaRx_proofs ---------------------------
(***************************************************************************)
(* Proofs about EdmaRx, for any buffers, ring sizes and budget.            *)
(***************************************************************************)
EXTENDS EdmaRx, TLAPS

(* The descriptor rings, for any number of entries.                        *)

(* An index stays in the ring (++cons_idx == count and alike).             *)
LEMMA SuccInRing ==
  ASSUME NEW n \in Nat, NEW i \in 0..n - 1
  PROVE  Succ(i, n) \in 0..n - 1
BY DEF Succ

(* A consumer that has not reached the producer takes the entry it is at.  *)
LEMMA Consume ==
  ASSUME NEW n \in Nat, NEW c \in 0..n - 1, NEW p \in 0..n - 1, c # p
  PROVE  /\ c \in Between(c, p, n)
         /\ Between(Succ(c, n), p, n) = Between(c, p, n) \ {c}
BY DEF Succ, Between

(* A producer that keeps one entry free adds the entry it is at.           *)
LEMMA Produce ==
  ASSUME NEW n \in Nat, NEW c \in 0..n - 1, NEW p \in 0..n - 1, Succ(p, n) # c
  PROVE  /\ p \notin Between(c, p, n)
         /\ Between(c, Succ(p, n), n) = Between(c, p, n) \cup {p}
BY DEF Succ, Between

(* Equal indices mean an empty ring.                                       *)
LEMMA EmptyRing == ASSUME NEW n \in Nat, NEW c \in 0..n - 1 PROVE Between(c, c, n) = {}
BY DEF Between

(* Positions on the way from c to p, both included.                        *)
OnWay(c, x, p, n) == x \in Between(c, p, n) \cup {p}

(* What is in between stays so when the producer or the consumer advances, *)
(* or what is in between itself.                                           *)
LEMMA WayFacts ==
  ASSUME NEW n \in Nat, n >= 2,
         NEW c \in 0..n - 1, NEW x \in 0..n - 1, NEW p \in 0..n - 1, OnWay(c, x, p, n)
  PROVE  /\ Succ(p, n) # c => Succ(p, n) # x /\ OnWay(c, x, Succ(p, n), n)
         /\ x # c => OnWay(Succ(c, n), x, p, n)
         /\ x # p => OnWay(c, Succ(x, n), p, n)
         /\ x = c \/ c # p
BY DEF Succ, Between, OnWay

-----------------------------------------------------------------------------

LEMMA Counts ==
  /\ RxfillCount \in Nat /\ RxfillCount >= 2 /\ 0 \in FillIdx
  /\ RxdescCount \in Nat /\ RxdescCount >= 2 /\ 0 \in DescIdx
  /\ Budget \in Nat /\ Budget >= 1 /\ None \notin Buffer
BY RxAssumption DEF RxAssumption, FillIdx, DescIdx

LEMMA SuccFacts ==
  /\ \A i \in FillIdx : Succ(i, RxfillCount) \in FillIdx
  /\ \A i \in DescIdx : Succ(i, RxdescCount) \in DescIdx
BY Counts, SuccInRing DEF FillIdx, DescIdx

-----------------------------------------------------------------------------
(* The inductive invariant: the driver and the hardware pass through each  *)
(* ring in order, and a slot in use is in one place.                       *)
FillInv ==
  poll.pc = "fill" =>
    /\ OnWay(poll.stop, rxfill.cons, poll.next, RxfillCount)
    /\ OnWay(rxfill.cons, rxfill.prod, poll.next, RxfillCount)

ReadInv == OnWay(rxdesc.cons, Reader, rxdesc.prod, RxdescCount)

Apart ==
  /\ \A d \in fetched : d.slot \notin Offered
  /\ \A k \in Unread : rxdesc.entry[k].slot \notin Offered
  /\ \A k \in Unread, d \in fetched : rxdesc.entry[k].slot # d.slot
  /\ \A k, l \in Unread : rxdesc.entry[k].slot = rxdesc.entry[l].slot => k = l

BufInv == HardwareWritesLive /\ StoreIsOwner /\ NoBufferLost /\ Apart

RxInv == TypeOK /\ FillInv /\ ReadInv /\ BufInv

LEMMA InitRx == Init => RxInv
<1> SUFFICES ASSUME Init PROVE RxInv
  OBVIOUS
<1>1. TypeOK
  <2>1. BufTypes
    BY Counts DEF Init, BufTypes
  <2>2. IrqTypes
    BY DEF Init, IrqTypes
  <2>3. PollTypes
    BY Counts DEF Init, PollTypes
  <2>4. QED BY <2>1, <2>2, <2>3 DEF TypeOK
<1>2. Offered = {} /\ Unread = {}
  BY EmptyRing, Counts DEF Init, Offered, Unread, Top, Reader, Reading, FillIdx, DescIdx
<1>3. FillInv /\ ReadInv
  BY DEF Init, FillInv, ReadInv, OnWay, Reader, Reading
<1>4. QED
  BY <1>1, <1>2, <1>3
  DEF Init, RxInv, BufInv, HardwareWritesLive, StoreIsOwner, NoBufferLost, Apart

-----------------------------------------------------------------------------
(* What the steps do to the rings.                                         *)
LEMMA TopType ==
  ASSUME TypeOK
  PROVE  /\ Top \in FillIdx /\ rxfill.cons \in FillIdx /\ rxfill.prod \in FillIdx
         /\ poll.next \in FillIdx /\ poll.stop \in FillIdx
         /\ Offered \subseteq FillIdx
BY DEF TypeOK, BufTypes, PollTypes, Top, Offered, Between, FillIdx

LEMMA ReaderType ==
  ASSUME TypeOK
  PROVE  /\ Reader \in DescIdx /\ rxdesc.cons \in DescIdx /\ rxdesc.prod \in DescIdx
         /\ Unread \subseteq DescIdx
BY DEF TypeOK, BufTypes, PollTypes, Reader, Unread, Between, DescIdx

LEMMA FetchTakes ==
  ASSUME TypeOK, FillInv, Fetch
  PROVE  /\ rxfill.cons \in Offered
         /\ Offered' = Offered \ {rxfill.cons}
         /\ FillInv'
<1>1. rxfill.cons # rxfill.prod /\ rxfill'.cons = Succ(rxfill.cons, RxfillCount)
      /\ rxfill'.prod = rxfill.prod /\ poll' = poll
  BY DEF Fetch, TypeOK, BufTypes, PollTypes
<1>2. rxfill.cons # Top
  BY <1>1, TopType, WayFacts, Counts DEF Top, FillInv, FillIdx
<1>3. Top' = Top
  BY <1>1 DEF Top
<1>4. FillInv'
  <2> SUFFICES ASSUME poll.pc = "fill" PROVE FillInv'
    BY <1>1 DEF FillInv
  <2>1. Top = poll.next
    BY DEF Top
  <2>2. QED
    BY <1>1, <1>2, <2>1, TopType, WayFacts, Counts DEF FillInv, FillIdx
<1>5. QED
  BY <1>1, <1>2, <1>3, <1>4, TopType, Consume, Counts DEF Offered, FillIdx

LEMMA ReceiveAdds ==
  ASSUME TypeOK, ReadInv, NEW d \in fetched, Receive(d)
  PROVE  /\ rxdesc.prod \notin Unread
         /\ Unread' = Unread \cup {rxdesc.prod}
         /\ ReadInv'
<1>1. Succ(rxdesc.prod, RxdescCount) # rxdesc.cons /\ poll' = poll
      /\ rxdesc'.cons = rxdesc.cons /\ rxdesc'.prod = Succ(rxdesc.prod, RxdescCount)
  BY DEF Receive, TypeOK, BufTypes, PollTypes
<1>2. Reader' = Reader
  BY <1>1 DEF Reader, Reading
<1>3. Succ(rxdesc.prod, RxdescCount) # Reader
      /\ OnWay(rxdesc.cons, Reader, Succ(rxdesc.prod, RxdescCount), RxdescCount)
  BY <1>1, ReaderType, WayFacts, Counts DEF ReadInv, DescIdx
<1>4. QED
  BY <1>1, <1>2, <1>3, ReaderType, Produce, Counts DEF Unread, ReadInv, DescIdx

LEMMA TakeRemoves ==
  ASSUME TypeOK, ReadInv, RxTake
  PROVE  /\ poll.cons \in Unread
         /\ Unread' = Unread \ {poll.cons}
         /\ ReadInv'
<1>1. poll.cons # rxdesc.prod /\ poll.pc = "rx" /\ poll'.pc = "rx"
      /\ poll'.cons = Succ(poll.cons, RxdescCount)
      /\ rxdesc'.cons = rxdesc.cons /\ rxdesc'.prod = rxdesc.prod
  BY DEF RxTake, RxMore, At, TypeOK, BufTypes, PollTypes
<1>2. Reader = poll.cons /\ Reader' = Succ(poll.cons, RxdescCount)
  BY <1>1 DEF Reader, Reading
<1>3. QED
  BY <1>1, <1>2, ReaderType, Consume, WayFacts, Counts DEF Unread, ReadInv, DescIdx

LEMMA FillAdds ==
  ASSUME TypeOK, FillInv, NEW b \in Buffer, Fill(b)
  PROVE  /\ poll.next \notin Offered
         /\ Offered' = Offered \cup {poll.next}
         /\ FillInv'
<1>1. poll.pc = "fill" /\ poll'.pc = "fill" /\ Succ(poll.next, RxfillCount) # poll.stop
      /\ poll'.next = Succ(poll.next, RxfillCount) /\ poll'.stop = poll.stop
      /\ rxfill'.cons = rxfill.cons /\ rxfill'.prod = rxfill.prod
  BY DEF Fill, At, TypeOK, BufTypes, PollTypes
<1>2. Top = poll.next /\ Top' = Succ(poll.next, RxfillCount)
  BY <1>1 DEF Top
<1>3. Succ(poll.next, RxfillCount) # rxfill.cons
      /\ OnWay(poll.stop, rxfill.cons, Succ(poll.next, RxfillCount), RxfillCount)
  BY <1>1, TopType, WayFacts, Counts DEF FillInv, FillIdx
<1>4. OnWay(rxfill.cons, rxfill.prod, Succ(poll.next, RxfillCount), RxfillCount)
  BY <1>1, <1>3, TopType, WayFacts, Counts DEF FillInv, FillIdx
<1>5. QED
  BY <1>1, <1>2, <1>3, <1>4, TopType, Produce, Counts DEF Offered, FillInv, FillIdx

-----------------------------------------------------------------------------
(* The other steps move no buffer.                                         *)
Still ==
  /\ Offered' = Offered /\ Unread' = Unread
  /\ UNCHANGED <<owner, store, fetched>>
  /\ rxfill'.buf = rxfill.buf /\ rxdesc'.entry = rxdesc.entry
  /\ FillInv' /\ ReadInv'

LEMMA StillKeeps == ASSUME BufInv, Still PROVE BufInv'
<1>1. InUse' = InUse
  BY DEF Still, InUse
<1>2. QED
  BY <1>1 DEF Still, BufInv, HardwareWritesLive, StoreIsOwner, NoBufferLost, Apart

SamePlace ==
  /\ UNCHANGED <<buffers, rxdesc>>
  /\ Top' = Top /\ Reader' = Reader

LEMMA SameIsStill ==
  ASSUME SamePlace, ReadInv, FillInv'
  PROVE  Still
BY DEF SamePlace, Still, Offered, Unread, ReadInv, buffers

QuietStep ==
  \/ Report \/ Irq \/ PollBegin \/ RxDone \/ FillEnd \/ RxWrite
  \/ CleanTx \/ PollAgain \/ PollComplete
  \/ Unmask("unmask rxdesc", "rxdesc", "unmask txcmpl")
  \/ Unmask("unmask txcmpl", "txcmpl", "unmask rxfill")
  \/ Unmask("unmask rxfill", "rxfill", "off")
  \/ UNCHANGED vars

LEMMA QuietIsStill == ASSUME TypeOK, FillInv, ReadInv, QuietStep PROVE Still
<1>1. ASSUME poll' = poll, UNCHANGED <<buffers, rxdesc>> PROVE Still
  BY <1>1, SameIsStill DEF SamePlace, Top, Reader, Reading, FillInv, buffers
<1>2. CASE Report \/ Irq \/ UNCHANGED vars
  BY <1>1, <1>2
  DEF Report, Irq, IrqBegin, IrqRxdesc, IrqTxcmpl, IrqRxfill, IrqEnd, vars, buffers
<1>3. CASE PollBegin
  BY <1>3, SameIsStill
  DEF PollBegin, At, TypeOK, BufTypes, PollTypes, SamePlace, Top, Reader, Reading, FillInv, buffers
<1>4. ASSUME NEW i, poll.pc \notin {"fill", "write"}, FillBegin(i),
             i = Reading, UNCHANGED <<buffers, rxdesc>>
      PROVE  Still
  <2>1. poll'.pc = "fill" /\ poll'.inner = Reading /\ poll'.next = rxfill.prod
        /\ poll'.stop = rxfill.cons /\ poll'.cons = poll.cons
    BY <1>4 DEF FillBegin, TypeOK, BufTypes, PollTypes
  <2>2. Top' = Top /\ Reader' = Reader
    BY <1>4, <2>1 DEF Top, Reader, Reading, buffers
  <2>3. FillInv'
    <3>1. OnWay(rxfill.cons, rxfill.cons, rxfill.prod, RxfillCount)
      BY TopType, Consume, Counts DEF OnWay, FillIdx
    <3>2. OnWay(rxfill.cons, rxfill.prod, rxfill.prod, RxfillCount)
      BY DEF OnWay
    <3>3. QED BY <1>4, <2>1, <3>1, <3>2 DEF FillInv, buffers
  <2>4. QED BY <1>4, <2>2, <2>3, SameIsStill DEF SamePlace
<1>5. CASE RxDone
  BY <1>4, <1>5 DEF RxDone, At, Reading
<1>6. CASE CleanTx
  BY <1>4, <1>6 DEF CleanTx, At, Reading
<1>7. CASE FillEnd
  <2>1. poll.pc = "fill" /\ poll'.pc = (IF poll.inner THEN "write" ELSE "end")
        /\ rxfill'.prod = poll.next /\ rxfill'.cons = rxfill.cons
        /\ rxfill'.buf = rxfill.buf /\ poll'.cons = poll.cons
        /\ UNCHANGED <<owner, store, fetched, rxdesc>>
    BY <1>7 DEF FillEnd, At, TypeOK, BufTypes, PollTypes
  <2>2. Top' = Top /\ Reader' = Reader /\ FillInv'
    BY <2>1 DEF Top, Reader, Reading, FillInv
  <2>3. QED BY <2>1, <2>2 DEF Still, Offered, Unread, ReadInv
<1>8. CASE RxWrite
  <2>1. poll.pc = "write" /\ poll'.pc = "tx" /\ rxdesc'.cons = poll.cons
        /\ rxdesc'.prod = rxdesc.prod /\ rxdesc'.entry = rxdesc.entry
        /\ UNCHANGED buffers
    BY <1>8 DEF RxWrite, At, TypeOK, BufTypes, PollTypes
  <2>2. Top' = Top /\ Reader' = Reader /\ FillInv'
    BY <2>1 DEF Top, Reader, Reading, FillInv, buffers
  <2>3. ReadInv'
    <3>1. Reader = poll.cons
      BY <2>1 DEF Reader, Reading
    <3>2. OnWay(poll.cons, poll.cons, rxdesc.prod, RxdescCount)
      BY <3>1, ReaderType, Consume, Counts DEF OnWay, DescIdx
    <3>3. QED BY <2>1, <2>2, <3>1, <3>2 DEF ReadInv
  <2>4. QED BY <2>1, <2>2, <2>3 DEF Still, Offered, Unread, buffers
<1>9. ASSUME poll.pc \notin {"rx", "fill", "write"}, poll'.pc \notin {"rx", "fill", "write"},
             UNCHANGED <<buffers, rxdesc>>
      PROVE  Still
  BY <1>9, SameIsStill DEF SamePlace, Top, Reader, Reading, FillInv, buffers
<1>10. CASE PollAgain \/ PollComplete
  BY <1>9, <1>10 DEF PollAgain, PollComplete, At, TypeOK, BufTypes, PollTypes
<1>11. CASE \/ Unmask("unmask rxdesc", "rxdesc", "unmask txcmpl")
            \/ Unmask("unmask txcmpl", "txcmpl", "unmask rxfill")
            \/ Unmask("unmask rxfill", "rxfill", "off")
  BY <1>9, <1>11 DEF Unmask, At, TypeOK, BufTypes, PollTypes
<1>12. QED
  BY <1>2, <1>3, <1>5, <1>6, <1>7, <1>8, <1>10, <1>11 DEF QuietStep

-----------------------------------------------------------------------------
(* Types.                                                                  *)
LEMMA RxTypes == ASSUME RxInv, [Next]_vars PROVE TypeOK'
<1> USE DEF RxInv, TypeOK
<1>1. ASSUME UNCHANGED <<buffers, rxdesc>> PROVE BufTypes'
  BY <1>1 DEF BufTypes, buffers
<1>2. ASSUME UNCHANGED control PROVE IrqTypes'
  BY <1>2 DEF IrqTypes, control
<1>3. ASSUME poll' = poll PROVE PollTypes'
  BY <1>3 DEF PollTypes
<1>4. CASE Fetch
  <2>1. rxfill.cons \in FillIdx /\ rxfill.buf[rxfill.cons] \in Buffer
    BY <1>4, FetchTakes, TopType DEF BufTypes, BufInv, HardwareWritesLive
  <2>2. [slot |-> rxfill.cons, buf |-> rxfill.buf[rxfill.cons]] \in Filled
    BY <2>1 DEF Filled
  <2>3. BufTypes'
    BY <1>4, <2>1, <2>2, SuccFacts DEF Fetch, BufTypes
  <2>4. UNCHANGED control /\ poll' = poll
    BY <1>4 DEF Fetch
  <2>5. QED BY <1>2, <1>3, <2>3, <2>4
<1>5. ASSUME NEW d \in fetched, Receive(d) PROVE TypeOK'
  <2>1. BufTypes'
    BY <1>5, SuccFacts DEF Receive, BufTypes
  <2>2. UNCHANGED control /\ poll' = poll
    BY <1>5 DEF Receive
  <2>3. QED BY <1>2, <1>3, <2>1, <2>2
<1>6. CASE Report
  <2>1. IrqTypes'
    BY <1>6 DEF Report, IrqTypes
  <2>2. UNCHANGED <<buffers, rxdesc>> /\ poll' = poll
    BY <1>6 DEF Report
  <2>3. QED BY <1>1, <1>3, <2>1, <2>2
<1>7. CASE Irq
  <2>1. IrqTypes'
    <3>1. CASE IrqBegin
      BY <1>7, <3>1 DEF IrqBegin, IrqTypes
    <3>2. CASE IrqRxdesc
      BY <1>7, <3>2 DEF IrqRxdesc, Arrived, IrqTypes
    <3>3. CASE IrqTxcmpl
      BY <1>7, <3>3 DEF IrqTxcmpl, IrqTypes
    <3>4. CASE IrqRxfill
      BY <1>7, <3>4 DEF IrqRxfill, IrqEnd, IrqTypes
    <3>5. QED BY <1>7, <3>1, <3>2, <3>3, <3>4 DEF Irq
  <2>2. UNCHANGED <<buffers, rxdesc>> /\ poll' = poll
    BY <1>7 DEF Irq, IrqBegin, IrqRxdesc, IrqTxcmpl, IrqRxfill, IrqEnd
  <2>3. QED BY <1>1, <1>3, <2>1, <2>2
<1>8. CASE PollBegin
  BY <1>1, <1>2, <1>8 DEF PollBegin, BufTypes, PollTypes
<1>9. CASE RxTake
  <2>1. poll.cons \in DescIdx /\ rxdesc.entry[poll.cons].slot \in FillIdx
    BY <1>9, TakeRemoves, ReaderType, Counts DEF BufTypes, Filled, Empty
  <2>2. BufTypes'
    BY <1>9, <2>1 DEF RxTake, BufTypes, Empty
  <2>3. poll.work + 1 \in 0..Budget
    <3>1. poll.work \in 0..Budget
      BY DEF PollTypes
    <3>2. poll.work < Budget
      BY <1>9 DEF RxTake, RxMore
    <3>3. QED BY <3>1, <3>2, Counts
  <2>4. PollTypes'
    BY <1>9, <2>1, <2>3, SuccFacts DEF RxTake, PollTypes
  <2>5. QED BY <1>2, <1>9, <2>2, <2>4 DEF RxTake
<1>10. ASSUME NEW i \in BOOLEAN, FillBegin(i) PROVE PollTypes'
  BY <1>10 DEF FillBegin, BufTypes, PollTypes
<1>11. CASE RxDone
  BY <1>1, <1>2, <1>10, <1>11 DEF RxDone
<1>12. ASSUME NEW b \in Buffer, Fill(b) PROVE TypeOK'
  <2>1. BufTypes'
    BY <1>12 DEF Fill, BufTypes
  <2>2. PollTypes'
    BY <1>12, SuccFacts DEF Fill, PollTypes
  <2>3. QED BY <1>2, <1>12, <2>1, <2>2 DEF Fill
<1>13. CASE FillEnd
  <2>1. BufTypes'
    BY <1>13 DEF FillEnd, BufTypes, PollTypes
  <2>2. PollTypes'
    BY <1>13, Counts DEF FillEnd, PollTypes
  <2>3. QED BY <1>2, <1>13, <2>1, <2>2 DEF FillEnd
<1>14. CASE RxWrite
  <2>1. BufTypes'
    BY <1>14 DEF RxWrite, BufTypes, PollTypes, buffers
  <2>2. PollTypes'
    BY <1>14, Counts DEF RxWrite, PollTypes
  <2>3. QED BY <1>2, <1>14, <2>1, <2>2 DEF RxWrite
<1>15. CASE CleanTx
  <2>1. IrqTypes'
    BY <1>15 DEF CleanTx, IrqTypes
  <2>2. QED BY <1>1, <1>10, <1>15, <2>1 DEF CleanTx
<1>16. 0 \in 0..Budget
  BY Counts
<1>17. CASE PollAgain
  <2>1. PollTypes'
    BY <1>16, <1>17 DEF PollAgain, PollTypes
  <2>2. QED BY <1>1, <1>2, <1>17, <2>1 DEF PollAgain
<1>18. CASE PollComplete
  <2>1. PollTypes' /\ IrqTypes'
    BY <1>16, <1>18 DEF PollComplete, PollTypes, IrqTypes
  <2>2. QED BY <1>1, <1>18, <2>1 DEF PollComplete
<1>19. CASE \/ Unmask("unmask rxdesc", "rxdesc", "unmask txcmpl")
            \/ Unmask("unmask txcmpl", "txcmpl", "unmask rxfill")
            \/ Unmask("unmask rxfill", "rxfill", "off")
  <2>1. PollTypes'
    BY <1>19 DEF Unmask, PollTypes
  <2>2. IrqTypes'
    BY <1>19 DEF Unmask, IrqTypes
  <2>3. QED BY <1>1, <1>19, <2>1, <2>2 DEF Unmask
<1>20. CASE UNCHANGED vars
  BY <1>1, <1>2, <1>20 DEF vars, buffers, control, PollTypes
<1>21. QED
  BY <1>4, <1>5, <1>6, <1>7, <1>8, <1>9, <1>11, <1>12, <1>13, <1>14, <1>15, <1>17, <1>18,
     <1>19, <1>20 DEF Next, Poll

-----------------------------------------------------------------------------
(* The steps that move a buffer.                                           *)
LEMMA FetchMoves == ASSUME RxInv, TypeOK', Fetch PROVE BufInv'
<1> USE DEF RxInv, BufInv
<1> DEFINE i == rxfill.cons
           d == [slot |-> i, buf |-> rxfill.buf[i]]
<1>1. i \in Offered /\ Offered' = Offered \ {i} /\ i \in FillIdx
  BY FetchTakes, TopType
<1>2. fetched' = fetched \cup {d} /\ UNCHANGED <<owner, store, rxdesc, poll>>
      /\ \A j \in FillIdx : j # i => rxfill'.buf[j] = rxfill.buf[j]
  BY DEF Fetch, TypeOK, BufTypes, control
<1>3. Unread' = Unread
  BY <1>2 DEF Unread, Reader, Reading
<1>4. HardwareWritesLive'
  BY <1>1, <1>2, <1>3, TopType DEF HardwareWritesLive
<1>5. Apart'
  BY <1>1, <1>2, <1>3 DEF Apart
<1>6. InUse' = InUse
  <2>1. {e.slot : e \in fetched'} = {e.slot : e \in fetched} \cup {i}
    <3>1. d.slot = i
      OBVIOUS
    <3> HIDE DEF d
    <3>2. QED BY <1>2, <3>1
  <2>2. {rxdesc'.entry[k].slot : k \in Unread'} = {rxdesc.entry[k].slot : k \in Unread}
    BY <1>2, <1>3
  <2>3. QED BY <1>1, <2>1, <2>2 DEF InUse
<1>7. QED
  BY <1>2, <1>4, <1>5, <1>6 DEF StoreIsOwner, NoBufferLost

LEMMA ReceiveMoves ==
  ASSUME RxInv, TypeOK', NEW d \in fetched, Receive(d) PROVE BufInv'
<1> USE DEF RxInv, BufInv
<1> DEFINE k == rxdesc.prod
<1>1. k \notin Unread /\ Unread' = Unread \cup {k} /\ Unread \subseteq DescIdx /\ k \in DescIdx
  BY ReceiveAdds, ReaderType
<1>2. fetched' = fetched \ {d} /\ UNCHANGED <<owner, store, rxfill, poll>>
      /\ rxdesc'.entry[k] = d /\ \A l \in DescIdx : l # k => rxdesc'.entry[l] = rxdesc.entry[l]
  BY <1>1 DEF Receive, TypeOK, BufTypes, control
<1>3. Offered' = Offered
  BY <1>2 DEF Offered, Top
<1>4. d \in Filled /\ d # Empty
  BY Counts DEF TypeOK, BufTypes, Filled, Empty
<1>5. \A e \in fetched : e.slot = d.slot => e = d
  BY DEF HardwareWritesLive, TypeOK, BufTypes, Filled
<1>6. HardwareWritesLive'
  BY <1>1, <1>2, <1>3, <1>4 DEF HardwareWritesLive
<1>7. Apart'
  BY <1>1, <1>2, <1>3, <1>5 DEF Apart
<1>8. InUse \subseteq InUse'
  BY <1>1, <1>2, <1>3 DEF InUse
<1>9. QED
  BY <1>2, <1>6, <1>7, <1>8 DEF StoreIsOwner, NoBufferLost

LEMMA TakeMoves == ASSUME RxInv, TypeOK', RxTake PROVE BufInv'
<1> USE DEF RxInv, BufInv
<1> DEFINE k == poll.cons
           i == rxdesc.entry[k].slot
<1>1. k \in Unread /\ Unread' = Unread \ {k} /\ Unread \subseteq DescIdx
  BY TakeRemoves, ReaderType
<1>2. i \in FillIdx
  BY <1>1, Counts DEF TypeOK, BufTypes, Filled, Empty
<1>3. store[i] \in Buffer
  BY <1>1, Counts DEF HardwareWritesLive, TypeOK, BufTypes, Filled
<1>4. /\ owner'[store[i]] = "kernel"
      /\ \A b \in Buffer : b # store[i] => owner'[b] = owner[b]
  BY <1>3, Counts DEF RxTake, TypeOK, BufTypes
<1>5. /\ store'[i] = None
      /\ \A j \in FillIdx : j # i => store'[j] = store[j]
  BY <1>2 DEF RxTake, TypeOK, BufTypes
<1>6. UNCHANGED <<rxfill, fetched>>
      /\ \A l \in DescIdx : l # k => rxdesc'.entry[l] = rxdesc.entry[l]
  BY DEF RxTake, TypeOK, BufTypes, control
<1>7. Offered' = Offered /\ Offered \subseteq FillIdx
  BY <1>6, TopType DEF RxTake, At, Offered, Top, TypeOK, BufTypes
<1>8. i \notin Offered /\ (\A d \in fetched : d.slot # i)
      /\ \A l \in Unread : l # k => rxdesc.entry[l].slot # i
  BY <1>1 DEF Apart
<1>9. \A l \in Unread : rxdesc.entry[l].slot \in FillIdx
  BY <1>1, Counts DEF TypeOK, BufTypes, Filled, Empty
<1>10. \A d \in fetched : d.slot \in FillIdx
  BY DEF TypeOK, BufTypes, Filled
<1>11. HardwareWritesLive'
  BY <1>1, <1>5, <1>6, <1>7, <1>8, <1>9, <1>10 DEF HardwareWritesLive
<1>12. Apart'
  BY <1>1, <1>6, <1>7 DEF Apart
<1>13. StoreIsOwner'
  BY <1>2, <1>3, <1>4, <1>5 DEF StoreIsOwner, TypeOK, BufTypes
<1>14. NoBufferLost'
  <2> SUFFICES ASSUME NEW b \in Buffer, owner'[b] = "driver"
               PROVE  \E j \in InUse' : store'[j] = b
    BY DEF NoBufferLost
  <2>1. b # store[i] /\ owner[b] = "driver"
    BY <1>4
  <2>2. PICK j \in InUse : store[j] = b
    BY <2>1 DEF NoBufferLost
  <2>3. j # i /\ j \in FillIdx
    BY <1>7, <1>9, <1>10, <2>1, <2>2 DEF InUse
  <2>4. j \in InUse'
    BY <1>1, <1>6, <1>7, <2>2, <2>3 DEF InUse
  <2>5. QED BY <1>5, <2>2, <2>3, <2>4
<1>15. QED BY <1>11, <1>12, <1>13, <1>14

LEMMA FillMoves == ASSUME RxInv, TypeOK', NEW b \in Buffer, Fill(b) PROVE BufInv'
<1> USE DEF RxInv, BufInv
<1> DEFINE i == poll.next
<1>1. i \notin Offered /\ Offered' = Offered \cup {i} /\ i \in FillIdx /\ Offered \subseteq FillIdx
  BY FillAdds, TopType
<1>2. owner[b] = "kernel" /\ owner'[b] = "driver" /\ store[i] = None /\ store'[i] = b
      /\ rxfill'.buf[i] = b
  BY <1>1 DEF Fill, TypeOK, BufTypes
<1>3. /\ \A j \in FillIdx : j # i => store'[j] = store[j] /\ rxfill'.buf[j] = rxfill.buf[j]
      /\ \A a \in Buffer : a # b => owner'[a] = owner[a]
      /\ UNCHANGED <<fetched, rxdesc>>
  BY DEF Fill, TypeOK, BufTypes, control
<1>4. Unread' = Unread /\ Unread \subseteq DescIdx
  BY <1>3, ReaderType DEF Fill, At, Unread, Reader, Reading, TypeOK, BufTypes
<1>5. \A d \in fetched : d.slot \in FillIdx /\ d.slot # i
  BY <1>2, Counts DEF HardwareWritesLive, TypeOK, BufTypes, Filled
<1>6. \A k \in Unread : rxdesc.entry[k].slot \in FillIdx /\ rxdesc.entry[k].slot # i
  BY <1>2, <1>4, Counts DEF HardwareWritesLive, TypeOK, BufTypes, Filled, Empty
<1>7. HardwareWritesLive'
  BY <1>1, <1>2, <1>3, <1>4, <1>5, <1>6, Counts DEF HardwareWritesLive
<1>8. Apart'
  BY <1>1, <1>3, <1>4, <1>5, <1>6 DEF Apart
<1>9. \A j \in FillIdx : store[j] # b
  BY <1>2, Counts DEF StoreIsOwner
<1>10. StoreIsOwner'
  BY <1>1, <1>2, <1>3, <1>9 DEF StoreIsOwner, TypeOK, BufTypes
<1>11. NoBufferLost'
  <2> SUFFICES ASSUME NEW a \in Buffer, owner'[a] = "driver"
               PROVE  \E j \in InUse' : store'[j] = a
    BY DEF NoBufferLost
  <2>1. i \in InUse' /\ InUse \subseteq InUse'
    BY <1>1, <1>3, <1>4 DEF InUse
  <2>2. CASE a = b
    BY <1>2, <2>1, <2>2
  <2>3. CASE a # b
    <3>1. PICK j \in InUse : store[j] = a
      BY <1>3, <2>3 DEF NoBufferLost
    <3>2. j \in FillIdx /\ j # i
      BY <1>1, <1>2, <1>5, <1>6, <3>1, Counts DEF InUse
    <3>3. QED BY <1>3, <2>1, <3>1, <3>2
  <2>4. QED BY <2>2, <2>3
<1>12. QED BY <1>7, <1>8, <1>10, <1>11

LEMMA RxStep == ASSUME RxInv, [Next]_vars PROVE RxInv'
<1> USE DEF RxInv
<1>1. TypeOK'
  BY RxTypes
<1>2. CASE Fetch
  <2>1. ReadInv'
    BY <1>2 DEF Fetch, ReadInv, Reader, Reading
  <2>2. QED BY <1>1, <1>2, <2>1, FetchTakes, FetchMoves
<1>3. ASSUME NEW d \in fetched, Receive(d) PROVE RxInv'
  <2>1. FillInv'
    BY <1>3 DEF Receive, FillInv
  <2>2. QED BY <1>1, <1>3, <2>1, ReceiveAdds, ReceiveMoves
<1>4. CASE RxTake
  <2>1. FillInv'
    BY <1>4 DEF RxTake, At, FillInv, TypeOK, PollTypes
  <2>2. QED BY <1>1, <1>4, <2>1, TakeRemoves, TakeMoves
<1>5. ASSUME NEW b \in Buffer, Fill(b) PROVE RxInv'
  <2>1. ReadInv'
    BY <1>5 DEF Fill, At, ReadInv, Reader, Reading, TypeOK, PollTypes
  <2>2. QED BY <1>1, <1>5, <2>1, FillAdds, FillMoves
<1>6. CASE QuietStep
  <2>1. Still
    BY <1>6, QuietIsStill
  <2>2. QED BY <1>1, <2>1, StillKeeps DEF Still
<1>7. QED
  BY <1>2, <1>3, <1>4, <1>5, <1>6 DEF Next, Poll, QuietStep

(* RxInv holds in every state of edma_napi(), the handler and the hardware.*)
LEMMA RxInvariant == Spec => []RxInv
BY InitRx, RxStep, PTL DEF Spec

-----------------------------------------------------------------------------
(* No index, slot or local variable of reception leaves its range.         *)
THEOREM RxTypesHold == Spec => []TypeOK
<1>1. RxInv => TypeOK
  BY DEF RxInv
<1>2. QED BY <1>1, RxInvariant, PTL

(* The hardware never writes to a buffer the driver has given away, and    *)
(* edma_clean_rx() finds a buffer for every packet that is reported.       *)
THEOREM ReceiveBuffersLive == Spec => []HardwareWritesLive
<1>1. RxInv => HardwareWritesLive
  BY DEF RxInv, BufInv
<1>2. QED BY <1>1, RxInvariant, PTL

(* No buffer is in two slots of rx_skb_store or passed on while in one.    *)
THEOREM ReceiveOneOwner == Spec => []StoreIsOwner
<1>1. RxInv => StoreIsOwner
  BY DEF RxInv, BufInv
<1>2. QED BY <1>1, RxInvariant, PTL

(* edma_alloc_rx_buffer() and edma_clean_rx() leak no buffer.              *)
THEOREM NoLeak == Spec => []NoBufferLost
<1>1. RxInv => NoBufferLost
  BY DEF RxInv, BufInv
<1>2. QED BY <1>1, RxInvariant, PTL

-----------------------------------------------------------------------------
(* On one CPU nothing that the handler has seen goes away while it runs,   *)
(* so that it always schedules a poll.                                     *)
IrqInv ==
  /\ irq.pc = "rxdesc" => Arrived \/ reports \/ Low
  /\ irq.pc = "txcmpl" => irq.status \/ reports \/ Low
  /\ irq.pc = "rxfill" => irq.status \/ Low

WakeInv == TypeOK /\ IrqInv /\ NoLostWake

LEMMA WakeStep ==
  ASSUME OneCpu, WakeInv, TypeOK', [Next]_vars PROVE WakeInv'
<1> USE DEF WakeInv
<1>1. CASE Fetch
  BY <1>1 DEF Fetch, IrqInv, Arrived, Low, NoLostWake, Coming, control
<1>2. ASSUME NEW d \in fetched, Receive(d) PROVE WakeInv'
  BY <1>2 DEF Receive, IrqInv, Arrived, Low, NoLostWake, Coming, control, TypeOK, BufTypes
<1>3. CASE Report
  BY <1>3 DEF Report, IrqInv, Arrived, Low, NoLostWake, Coming, buffers
<1>4. CASE Irq
  <2>1. UNCHANGED <<buffers, rxdesc, reports, poll>>
    BY <1>4 DEF Irq, IrqBegin, IrqRxdesc, IrqTxcmpl, IrqRxfill, IrqEnd
  <2>2. Arrived' = Arrived /\ Low' = Low
    BY <2>1 DEF Arrived, Low, buffers
  <2>3. CASE IrqBegin
    BY <2>1, <2>2, <2>3 DEF IrqBegin, IrqInv, Arrived, Low, NoLostWake, Coming, TypeOK, IrqTypes
  <2>4. CASE IrqRxdesc
    BY <2>1, <2>2, <2>4 DEF IrqRxdesc, IrqInv, NoLostWake, Coming, TypeOK, IrqTypes
  <2>5. CASE IrqTxcmpl
    BY <2>1, <2>2, <2>5 DEF IrqTxcmpl, IrqInv, NoLostWake, Coming, TypeOK, IrqTypes
  <2>6. CASE IrqRxfill
    <3>1. irq'.pc = "idle" /\ napi' # "off"
      BY <2>6 DEF IrqRxfill, IrqEnd, IrqInv, TypeOK, IrqTypes
    <3>2. QED BY <3>1 DEF IrqInv, NoLostWake, Coming
  <2>7. QED BY <1>1, <1>4, <2>3, <2>4, <2>5, <2>6 DEF Irq
<1>5. CASE Poll
  <2>1. irq.pc = "idle" /\ irq' = irq
    BY <1>5
    DEF Poll, At, PollBegin, RxTake, RxDone, Fill, FillEnd, RxWrite, CleanTx, PollAgain,
        PollComplete, Unmask, control
  <2>2. IrqInv'
    BY <2>1 DEF IrqInv
  <2>3. CASE \/ PollBegin \/ RxTake \/ RxDone \/ (\E b \in Buffer : Fill(b)) \/ FillEnd
             \/ RxWrite \/ CleanTx \/ PollAgain
    <3>1. UNCHANGED <<mask, napi>> /\ poll.pc \notin {"unmask rxdesc", "unmask txcmpl", "unmask rxfill"}
      BY <2>3
      DEF At, PollBegin, RxTake, RxDone, Fill, FillEnd, RxWrite, CleanTx, PollAgain, control
    <3>2. QED BY <1>5, <2>1, <2>2, <3>1 DEF NoLostWake, Coming
  <2>4. CASE PollComplete
    BY <2>1, <2>2, <2>4 DEF PollComplete, NoLostWake, Coming, TypeOK, IrqTypes, PollTypes
  <2>5. CASE \/ Unmask("unmask rxdesc", "rxdesc", "unmask txcmpl")
             \/ Unmask("unmask txcmpl", "txcmpl", "unmask rxfill")
             \/ Unmask("unmask rxfill", "rxfill", "off")
    BY <2>1, <2>2, <2>5 DEF Unmask, At, NoLostWake, Coming, TypeOK, IrqTypes, PollTypes
  <2>6. QED BY <1>5, <2>3, <2>4, <2>5 DEF Poll
<1>6. CASE UNCHANGED vars
  BY <1>6 DEF vars, IrqInv, Arrived, Low, NoLostWake, Coming
<1>7. QED
  BY <1>1, <1>2, <1>3, <1>4, <1>5, <1>6 DEF Next

(* If interrupts and polls share a CPU, edma_handle_irq() never leaves an  *)
(* interrupt masked that edma_napi() will not unmask.                      *)
THEOREM NoWakeLost == OneCpu /\ Spec => []NoLostWake
<1> SUFFICES ASSUME OneCpu PROVE Spec => []NoLostWake
  OBVIOUS
<1>1. Init /\ TypeOK => WakeInv
  BY DEF Init, WakeInv, IrqInv, NoLostWake
<1>2. WakeInv /\ TypeOK' /\ [Next]_vars => WakeInv'
  BY WakeStep
<1>3. WakeInv => NoLostWake
  BY DEF WakeInv
<1>4. QED BY <1>1, <1>2, <1>3, RxTypesHold, PTL DEF Spec
=============================================================================
