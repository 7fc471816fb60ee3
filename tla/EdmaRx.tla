------------------------------ MODULE EdmaRx ------------------------------
(***************************************************************************)
(* Reception in edma_tx_rx.c.  edma_alloc_rx_buffer() offers buffers to    *)
(* the hardware in the RXFILL ring and keeps each in rx_skb_store, at the  *)
(* index of its descriptor, which also travels in front of the buffer.     *)
(* The hardware fills them with packets and returns them in the RXDESC     *)
(* ring, from which edma_clean_rx() takes them.  edma_napi() polls until   *)
(* there is less work than its budget, then unmasks the interrupts;        *)
(* edma_handle_irq() masks them and schedules the next poll.               *)
(*                                                                         *)
(* There is one ring of each kind, as in ipq8074-ess.dtsi.  What poll and  *)
(* interrupt have to do with transmission is whether the TXCMPL ring holds *)
(* reports.  An interrupt lasts as long as its cause.  An entry that was   *)
(* consumed is cleared here, though not in the code: nobody reads it       *)
(* before it is written again.                                             *)
(***************************************************************************)
EXTENDS EdmaRing

CONSTANTS
  Buffer,       \* socket buffers
  RxfillCount,  \* entries of the RXFILL ring and of rx_skb_store
  RxdescCount,  \* entries of the RXDESC ring
  Budget,       \* of a poll
  OneCpu,       \* interrupts and polls run on the same CPU
  None          \* NULL

ASSUME RxAssumption ==
  /\ RxfillCount \in Nat /\ RxfillCount >= 2 /\ IsMask(RxfillCount)
  /\ RxdescCount \in Nat /\ RxdescCount >= 2
  /\ Budget \in Nat /\ Budget >= 1
  /\ OneCpu \in BOOLEAN
  /\ None \notin Buffer

VARIABLES
  owner,    \* who holds each buffer: the driver, or anybody else in the kernel
  rxfill,   \* the RXFILL ring with its index registers
  store,    \* rx_skb_store
  fetched,  \* descriptors the hardware has fetched (external)
  rxdesc,   \* the RXDESC ring with its index registers
  reports,  \* the TXCMPL ring holds reports
  mask,     \* the interrupts that are enabled
  irq,      \* edma_handle_irq()
  napi,     \* the state of the poll: off, scheduled, or scheduled again
  poll      \* local variables of edma_napi() and what it calls

vars == <<owner, rxfill, store, fetched, rxdesc, reports, mask, irq, napi, poll>>
buffers == <<owner, rxfill, store, fetched>>
control == <<reports, mask, irq, napi>>

FillIdx == 0..RxfillCount - 1
DescIdx == 0..RxdescCount - 1
Filled == [slot : FillIdx, buf : Buffer]
Empty == [slot |-> 0, buf |-> None]

Init ==
  /\ owner = [b \in Buffer |-> "kernel"]
  /\ rxfill = [prod |-> 0, cons |-> 0, buf |-> [i \in FillIdx |-> None]]
  /\ store = [i \in FillIdx |-> None]
  /\ fetched = {}
  /\ rxdesc = [prod |-> 0, cons |-> 0, entry |-> [i \in DescIdx |-> Empty]]
  /\ reports = FALSE
  /\ mask = [rxdesc |-> TRUE, txcmpl |-> TRUE, rxfill |-> TRUE]
  /\ irq = [pc |-> "idle", status |-> FALSE]
  /\ napi = "off"
  /\ poll = [pc |-> "off", cons |-> 0, work |-> 0, inner |-> FALSE,
             next |-> 0, stop |-> 0]

-----------------------------------------------------------------------------
(* The hardware and the network stack (external).                          *)

Fetch ==
  /\ rxfill.cons # rxfill.prod
  /\ LET i == rxfill.cons IN
       /\ fetched' = fetched \cup {[slot |-> i, buf |-> rxfill.buf[i]]}
       /\ rxfill' = [rxfill EXCEPT !.buf[i] = None, !.cons = Succ(i, RxfillCount)]
  /\ UNCHANGED <<owner, store, rxdesc, control, poll>>

(* A packet arrives and is written to a buffer.                            *)
Receive(d) ==
  /\ d \in fetched /\ Succ(rxdesc.prod, RxdescCount) # rxdesc.cons
  /\ fetched' = fetched \ {d}
  /\ rxdesc' = [rxdesc EXCEPT !.entry[rxdesc.prod] = d,
                              !.prod = Succ(@, RxdescCount)]
  /\ UNCHANGED <<owner, rxfill, store, control, poll>>

Report ==
  /\ ~reports
  /\ reports' = TRUE
  /\ UNCHANGED <<buffers, rxdesc, mask, irq, napi, poll>>

-----------------------------------------------------------------------------
(* edma_handle_irq(): it reads and masks one cause after the other.        *)

Arrived == rxdesc.cons # rxdesc.prod
Low == rxfill.cons = rxfill.prod

IrqBegin ==
  /\ irq.pc = "idle"
  /\ \/ mask.rxdesc /\ Arrived
     \/ mask.txcmpl /\ reports
     \/ mask.rxfill /\ Low
  /\ irq' = [pc |-> "rxdesc", status |-> FALSE]
  /\ UNCHANGED <<buffers, rxdesc, reports, mask, napi, poll>>

IrqRxdesc ==
  /\ irq.pc = "rxdesc"
  /\ irq' = [pc |-> "txcmpl", status |-> Arrived]
  /\ mask' = [mask EXCEPT !.rxdesc = FALSE]
  /\ UNCHANGED <<buffers, rxdesc, reports, napi, poll>>

IrqTxcmpl ==
  /\ irq.pc = "txcmpl"
  /\ irq' = [pc |-> "rxfill", status |-> irq.status \/ reports]
  /\ mask' = [mask EXCEPT !.txcmpl = FALSE]
  /\ UNCHANGED <<buffers, rxdesc, reports, napi, poll>>

(* The handler ends.  If there was a cause it masks RXDESC once more and   *)
(* schedules a poll; one that is scheduled already is done once more.      *)
IrqEnd(cause) ==
  /\ irq' = [pc |-> "idle", status |-> FALSE]
  /\ mask' = [mask EXCEPT !.rxfill = FALSE, !.rxdesc = @ /\ ~cause]
  /\ napi' = IF ~cause THEN napi ELSE IF napi = "off" THEN "scheduled" ELSE "again"
  /\ UNCHANGED <<buffers, rxdesc, reports, poll>>

(* variant: the status of the RXFILL ring does not count                   *)
IrqRxfill_Ignored == irq.pc = "rxfill" /\ IrqEnd(irq.status)

IrqRxfill == irq.pc = "rxfill" /\ IrqEnd(irq.status \/ Low)

Irq == IrqBegin \/ IrqRxdesc \/ IrqTxcmpl \/ IrqRxfill

-----------------------------------------------------------------------------
(* edma_napi().  On the CPU that handles the interrupt the poll waits.     *)

At(pc) == poll.pc = pc /\ (OneCpu => irq.pc = "idle")

PollBegin ==
  /\ At("off") /\ napi # "off"
  /\ poll' = [poll EXCEPT !.pc = "rx", !.cons = rxdesc.cons]
  /\ UNCHANGED <<buffers, rxdesc, control>>

(* edma_clean_rx(): a packet is passed on, or dropped for want of a device *)
(* that runs.                                                              *)
RxMore == poll.cons # rxdesc.prod /\ poll.work < Budget

(* variant: the slot keeps the buffer that is passed on                    *)
RxTake_KeepsSlot ==
  /\ At("rx") /\ RxMore
  /\ LET b == store[rxdesc.entry[poll.cons].slot] IN
       owner' = IF b = None THEN owner ELSE [owner EXCEPT ![b] = "kernel"]
  /\ rxdesc' = [rxdesc EXCEPT !.entry[poll.cons] = Empty]
  /\ poll' = [poll EXCEPT !.cons = Succ(@, RxdescCount), !.work = @ + 1]
  /\ UNCHANGED <<rxfill, store, fetched, control>>

RxTake ==
  /\ At("rx") /\ RxMore
  /\ LET i == rxdesc.entry[poll.cons].slot IN
       /\ owner' = IF store[i] = None THEN owner
                   ELSE [owner EXCEPT ![store[i]] = "kernel"]
       /\ store' = [store EXCEPT ![i] = None]
  /\ rxdesc' = [rxdesc EXCEPT !.entry[poll.cons] = Empty]
  /\ poll' = [poll EXCEPT !.cons = Succ(@, RxdescCount), !.work = @ + 1]
  /\ UNCHANGED <<rxfill, fetched, control>>

(* edma_alloc_rx_buffer() begins: it reads both indices.                   *)
FillBegin(inner) ==
  poll' = [poll EXCEPT !.pc = "fill", !.inner = inner,
                       !.next = rxfill.prod, !.stop = rxfill.cons]

RxDone ==
  /\ At("rx") /\ ~RxMore
  /\ FillBegin(TRUE)
  /\ UNCHANGED <<buffers, rxdesc, control>>

(* variant: the slot is not looked at                                      *)
Fill_Overwrites(b) ==
  /\ At("fill") /\ Succ(poll.next, RxfillCount) # poll.stop
  /\ owner[b] = "kernel"
  /\ owner' = [owner EXCEPT ![b] = "driver"]
  /\ store' = [store EXCEPT ![poll.next] = b]
  /\ rxfill' = [rxfill EXCEPT !.buf[poll.next] = b]
  /\ poll' = [poll EXCEPT !.next = Succ(@, RxfillCount)]
  /\ UNCHANGED <<fetched, rxdesc, control>>

(* A buffer is allocated, and its slot is free.                            *)
Fill(b) ==
  /\ At("fill") /\ Succ(poll.next, RxfillCount) # poll.stop
  /\ owner[b] = "kernel" /\ store[poll.next] = None
  /\ owner' = [owner EXCEPT ![b] = "driver"]
  /\ store' = [store EXCEPT ![poll.next] = b]
  /\ rxfill' = [rxfill EXCEPT !.buf[poll.next] = b]
  /\ poll' = [poll EXCEPT !.next = Succ(@, RxfillCount)]
  /\ UNCHANGED <<fetched, rxdesc, control>>

(* variant: the producer index is not written                              *)
FillEnd_NoWrite ==
  /\ At("fill")
  /\ poll' = [poll EXCEPT !.pc = IF poll.inner THEN "write" ELSE "end",
                          !.inner = FALSE, !.next = 0, !.stop = 0]
  /\ UNCHANGED <<buffers, rxdesc, control>>

(* The ring is full, the slot is in use, or there is no memory, which may  *)
(* happen at any time.                                                     *)
FillEnd ==
  /\ At("fill")
  /\ rxfill' = [rxfill EXCEPT !.prod = poll.next]
  /\ poll' = [poll EXCEPT !.pc = IF poll.inner THEN "write" ELSE "end",
                          !.inner = FALSE, !.next = 0, !.stop = 0]
  /\ UNCHANGED <<owner, store, fetched, rxdesc, control>>

(* variant: the consumer index is not written                              *)
RxWrite_Forgotten ==
  /\ At("write")
  /\ poll' = [poll EXCEPT !.pc = "tx", !.cons = 0]
  /\ UNCHANGED <<buffers, rxdesc, control>>

RxWrite ==
  /\ At("write")
  /\ rxdesc' = [rxdesc EXCEPT !.cons = poll.cons]
  /\ poll' = [poll EXCEPT !.pc = "tx", !.cons = 0]
  /\ UNCHANGED <<buffers, control>>

(* edma_clean_tx() takes the reports, edma_alloc_rx_buffer() begins.       *)
CleanTx ==
  /\ At("tx")
  /\ reports' = FALSE
  /\ FillBegin(FALSE)
  /\ UNCHANGED <<buffers, rxdesc, mask, irq, napi>>

PollAgain ==
  /\ At("end") /\ poll.work >= Budget
  /\ poll' = [poll EXCEPT !.pc = "off", !.work = 0]
  /\ UNCHANGED <<buffers, rxdesc, control>>

PollComplete ==
  /\ At("end") /\ poll.work < Budget
  /\ napi' = IF napi = "again" THEN "scheduled" ELSE "off"
  /\ poll' = [poll EXCEPT !.pc = "unmask rxdesc", !.work = 0]
  /\ UNCHANGED <<buffers, rxdesc, reports, mask, irq>>

(* variant: the interrupt of the RXFILL ring stays masked                  *)
Unmask_NotRxfill(pc, ring, next) ==
  /\ At(pc)
  /\ mask' = [mask EXCEPT ![ring] = ring # "rxfill"]
  /\ poll' = [poll EXCEPT !.pc = next]
  /\ UNCHANGED <<buffers, rxdesc, reports, irq, napi>>

Unmask(pc, ring, next) ==
  /\ At(pc)
  /\ mask' = [mask EXCEPT ![ring] = TRUE]
  /\ poll' = [poll EXCEPT !.pc = next]
  /\ UNCHANGED <<buffers, rxdesc, reports, irq, napi>>

Poll ==
  \/ PollBegin \/ RxTake \/ RxDone \/ (\E b \in Buffer : Fill(b)) \/ FillEnd
  \/ RxWrite \/ CleanTx \/ PollAgain \/ PollComplete
  \/ Unmask("unmask rxdesc", "rxdesc", "unmask txcmpl")
  \/ Unmask("unmask txcmpl", "txcmpl", "unmask rxfill")
  \/ Unmask("unmask rxfill", "rxfill", "off")

Next ==
  \/ Fetch \/ (\E d \in fetched : Receive(d)) \/ Report
  \/ Irq \/ Poll

Spec == Init /\ [][Next]_vars

(* The CPU runs, the hardware fetches what is offered, and an allocation   *)
(* that is tried again and again succeeds.                                 *)
Fairness ==
  /\ WF_vars(Irq) /\ WF_vars(Poll) /\ WF_vars(Fetch)
  /\ SF_vars(\E b \in Buffer : Fill(b))
FairSpec == Spec /\ Fairness

-----------------------------------------------------------------------------
(* Properties.                                                             *)
BufTypes ==
  /\ owner \in [Buffer -> {"kernel", "driver"}]
  /\ rxfill \in [prod : FillIdx, cons : FillIdx, buf : [FillIdx -> Buffer \cup {None}]]
  /\ store \in [FillIdx -> Buffer \cup {None}]
  /\ fetched \subseteq Filled
  /\ rxdesc \in [prod : DescIdx, cons : DescIdx, entry : [DescIdx -> Filled \cup {Empty}]]

IrqTypes ==
  /\ reports \in BOOLEAN
  /\ mask \in [rxdesc : BOOLEAN, txcmpl : BOOLEAN, rxfill : BOOLEAN]
  /\ irq \in [pc : {"idle", "rxdesc", "txcmpl", "rxfill"}, status : BOOLEAN]
  /\ napi \in {"off", "scheduled", "again"}

PollTypes ==
  poll \in [pc : {"off", "rx", "fill", "write", "tx", "end", "unmask rxdesc",
                  "unmask txcmpl", "unmask rxfill"},
            cons : DescIdx, work : 0..Budget, inner : BOOLEAN,
            next : FillIdx, stop : FillIdx]

TypeOK == BufTypes /\ IrqTypes /\ PollTypes

(* The indices up to which buffers are offered, and packets are taken.     *)
Top == IF poll.pc = "fill" THEN poll.next ELSE rxfill.prod
Reading == poll.pc \in {"rx", "write"} \/ (poll.pc = "fill" /\ poll.inner)
Reader == IF Reading THEN poll.cons ELSE rxdesc.cons

Offered == Between(rxfill.cons, Top, RxfillCount)
Unread == Between(Reader, rxdesc.prod, RxdescCount)
InUse == Offered \cup {d.slot : d \in fetched} \cup {rxdesc.entry[k].slot : k \in Unread}

(* The hardware only writes to buffers the driver still keeps for it, and  *)
(* every packet it reports is found (edma_alloc_rx_buffer, edma_clean_rx). *)
HardwareWritesLive ==
  /\ \A i \in Offered : store[i] # None /\ store[i] = rxfill.buf[i]
  /\ \A d \in fetched : store[d.slot] = d.buf
  /\ \A i \in Unread : store[rxdesc.entry[i].slot] = rxdesc.entry[i].buf
                       /\ rxdesc.entry[i] # Empty

(* No buffer is in two slots, and all in slots are the driver's: none is   *)
(* passed on or freed twice.                                               *)
StoreIsOwner ==
  \A i \in FillIdx : store[i] # None =>
    /\ owner[store[i]] = "driver"
    /\ \A j \in FillIdx : store[j] = store[i] => j = i

(* Every buffer of the driver is on its way: offered, being filled, or     *)
(* holding a packet that was not taken; none is leaked by a way out of     *)
(* edma_alloc_rx_buffer().                                                 *)
NoBufferLost ==
  \A b \in Buffer : owner[b] = "driver" => \E i \in InUse : store[i] = b

(* An interrupt that is masked will be unmasked: a poll is scheduled, or   *)
(* under way to where it unmasks it, or the handler may still schedule it. *)
Coming(pcs) == napi # "off" \/ irq.pc # "idle" \/ poll.pc \in pcs
NoLostWake ==
  /\ mask.rxdesc \/ Coming({"unmask rxdesc"})
  /\ mask.txcmpl \/ Coming({"unmask rxdesc", "unmask txcmpl"})
  /\ mask.rxfill \/ Coming({"unmask rxdesc", "unmask txcmpl", "unmask rxfill"})

(* Every packet the hardware reports is taken and its entry returned,      *)
(* whatever the order of interrupts and polls.                             *)
Pending == Between(rxdesc.cons, rxdesc.prod, RxdescCount)
PacketsTaken == \A i \in DescIdx : i \in Pending ~> i \notin Pending

(* The hardware does not stay without buffers, though allocation may fail  *)
(* any number of times (the RXFILL interrupt of edma_handle_irq).          *)
Starved == fetched = {} /\ rxfill.cons = rxfill.prod
BuffersComeBack == Starved ~> ~Starved
=============================================================================
