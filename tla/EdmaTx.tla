------------------------------ MODULE EdmaTx ------------------------------
(***************************************************************************)
(* Transmission in edma_tx_rx.c: edma_ring_xmit() posts packets in the     *)
(* TXDESC ring, the hardware sends them and reports them in the TXCMPL     *)
(* ring, edma_clean_tx() releases them.  A packet on its way is kept in    *)
(* tx_skb_store, at the index of its descriptor.                           *)
(*                                                                         *)
(* The CPUs that transmit exclude each other by a lock; the hardware and   *)
(* edma_clean_tx(), which runs on one CPU at a time, take no part in it.   *)
(* There is one TXDESC and one TXCMPL ring, as in ipq8074-ess.dtsi, and    *)
(* the network stack tries a packet that was refused again.  An entry that *)
(* was consumed is cleared here, though not in the code: nobody reads it   *)
(* before it is written again.                                             *)
(***************************************************************************)
EXTENDS EdmaRing

CONSTANTS
  Cpu,          \* CPUs that transmit
  Packet,       \* socket buffers
  TxdescCount,  \* entries of the TXDESC ring and of tx_skb_store
  TxcmplCount,  \* entries of the TXCMPL ring
  None          \* NULL

ASSUME TxAssumption ==
  /\ TxdescCount \in Nat /\ TxdescCount >= 2 /\ IsMask(TxdescCount)
  /\ TxcmplCount \in Nat /\ TxcmplCount >= 2
  /\ None \notin Packet \cup Cpu

VARIABLES
  owner,    \* who holds each packet: nobody, the stack, or this driver
  xmit,     \* local variables of edma_ring_xmit() on each CPU
  lock,     \* tx_lock
  txdesc,   \* the TXDESC ring with its index registers
  heads,    \* preheaders in front of each packet, counted up to 2
  store,    \* tx_skb_store
  sending,  \* descriptors the hardware has fetched (external)
  txcmpl,   \* the TXCMPL ring with its index registers
  clean     \* local variables of edma_clean_tx()

vars == <<owner, xmit, lock, txdesc, heads, store, sending, txcmpl, clean>>

TxIdx == 0..TxdescCount - 1
CmplIdx == 0..TxcmplCount - 1

Idle == [pc |-> "idle", pkt |-> None, use |-> 0, full |-> FALSE]

Init ==
  /\ owner = [p \in Packet |-> "nobody"]
  /\ xmit = [c \in Cpu |-> Idle]
  /\ lock = None
  /\ txdesc = [prod |-> 0, cons |-> 0, buf |-> [i \in TxIdx |-> None]]
  /\ heads = [p \in Packet |-> 0]
  /\ store = [i \in TxIdx |-> None]
  /\ sending = {}
  /\ txcmpl = [prod |-> 0, cons |-> 0, slot |-> [i \in CmplIdx |-> 0]]
  /\ clean = [on |-> FALSE, prod |-> 0, cons |-> 0]

-----------------------------------------------------------------------------
(* The network stack (external).                                           *)

NewPacket(p) ==
  /\ owner[p] = "nobody"
  /\ owner' = [owner EXCEPT ![p] = "stack"]
  /\ UNCHANGED <<heads, xmit, lock, txdesc, store, sending, txcmpl, clean>>

Call(c, p) ==
  /\ xmit[c].pc = "idle" /\ owner[p] = "stack"
  /\ owner' = [owner EXCEPT ![p] = "driver"]
  /\ xmit' = [xmit EXCEPT ![c] = [Idle EXCEPT !.pc = "called", !.pkt = p]]
  /\ UNCHANGED <<heads, lock, txdesc, store, sending, txcmpl, clean>>

-----------------------------------------------------------------------------
(* edma_ring_xmit(): the lock and both indices, then the slot.             *)

ReadIndices(c) ==
  /\ xmit[c].pc = "called" /\ lock = None
  /\ lock' = c
  /\ xmit' = [xmit EXCEPT ![c] = [pc |-> "locked", pkt |-> @.pkt, use |-> txdesc.prod,
                                  full |-> Succ(txdesc.prod, TxdescCount) = txdesc.cons]]
  /\ UNCHANGED <<heads, owner, txdesc, store, sending, txcmpl, clean>>

(* The call returns, and the packet is o's.                                *)
Unlock(c, o) ==
  /\ lock' = None
  /\ xmit' = [xmit EXCEPT ![c] = Idle]
  /\ owner' = [owner EXCEPT ![xmit[c].pkt] = o]

(* Room for a preheader is made in front of the packet.                    *)
Push(p) == heads' = [heads EXCEPT ![p] = IF @ = 2 THEN 2 ELSE @ + 1]

Full(c) ==
  /\ xmit[c].pc = "locked" /\ xmit[c].full
  /\ Unlock(c, "stack")
  /\ UNCHANGED <<heads, txdesc, store, sending, txcmpl, clean>>

HasRoom(c) == xmit[c].pc = "locked" /\ ~xmit[c].full
SlotFree(c) == HasRoom(c) /\ store[xmit[c].use] = None

(* variant: the lock is kept                                               *)
Occupied_KeepsLock(c) ==
  /\ HasRoom(c) /\ ~SlotFree(c)
  /\ Push(xmit[c].pkt)
  /\ xmit' = [xmit EXCEPT ![c] = Idle]
  /\ owner' = [owner EXCEPT ![xmit[c].pkt] = "stack"]
  /\ UNCHANGED <<lock, txdesc, store, sending, txcmpl, clean>>

(* The slot holds a packet that was sent but not released yet.             *)
Occupied(c) ==
  /\ HasRoom(c) /\ ~SlotFree(c)
  /\ Push(xmit[c].pkt)
  /\ Unlock(c, "stack")
  /\ UNCHANGED <<txdesc, store, sending, txcmpl, clean>>

(* A short packet cannot be padded, before the slot is looked at, or the   *)
(* buffer cannot be mapped, after that: it is dropped.                     *)
Drop(c) ==
  /\ HasRoom(c)
  /\ Unlock(c, "nobody")
  /\ heads' = [heads EXCEPT ![xmit[c].pkt] = 0]
  /\ UNCHANGED <<txdesc, store, sending, txcmpl, clean>>

(* The packet goes into slot i and its descriptor, and is published.       *)
Put(c, i, p) ==
  /\ Push(p)
  /\ store' = [store EXCEPT ![i] = p]
  /\ txdesc' = [txdesc EXCEPT !.buf[i] = p, !.prod = Succ(i, TxdescCount)]
  /\ lock' = None
  /\ xmit' = [xmit EXCEPT ![c] = Idle]
  /\ UNCHANGED <<owner, sending, txcmpl, clean>>

(* variant: the slot is not looked at                                      *)
Post_Overwrites(c) == HasRoom(c) /\ Put(c, xmit[c].use, xmit[c].pkt)

Post(c) == SlotFree(c) /\ Put(c, xmit[c].use, xmit[c].pkt)

-----------------------------------------------------------------------------
(* The hardware (external): it fetches descriptors in turn, and reports    *)
(* the slot, which travels in the preheader, in any order.                 *)

Fetch ==
  /\ txdesc.cons # txdesc.prod
  /\ LET i == txdesc.cons IN
       sending' = sending \cup {[slot |-> i, buf |-> txdesc.buf[i]]}
  /\ txdesc' = [txdesc EXCEPT !.buf[txdesc.cons] = None,
                                !.cons = Succ(@, TxdescCount)]
  /\ UNCHANGED <<heads, owner, xmit, lock, store, txcmpl, clean>>

Complete(d) ==
  /\ d \in sending /\ Succ(txcmpl.prod, TxcmplCount) # txcmpl.cons
  /\ sending' = sending \ {d}
  /\ txcmpl' = [txcmpl EXCEPT !.slot[txcmpl.prod] = d.slot,
                                !.prod = Succ(@, TxcmplCount)]
  /\ UNCHANGED <<heads, owner, xmit, lock, txdesc, store, clean>>

-----------------------------------------------------------------------------
(* edma_clean_tx()                                                         *)

CleanBegin ==
  /\ ~clean.on /\ txcmpl.cons # txcmpl.prod
  /\ clean' = [on |-> TRUE, prod |-> txcmpl.prod, cons |-> txcmpl.cons]
  /\ UNCHANGED <<heads, owner, xmit, lock, txdesc, store, sending, txcmpl>>

(* The packet p, if there is one, is released.                             *)
Release(p) ==
  /\ owner' = IF p = None THEN owner ELSE [owner EXCEPT ![p] = "nobody"]
  /\ heads' = IF p = None THEN heads ELSE [heads EXCEPT ![p] = 0]

(* variant: the slot keeps the packet that is released                     *)
Reap_KeepsSlot ==
  /\ clean.on /\ clean.cons # clean.prod
  /\ Release(store[txcmpl.slot[clean.cons]])
  /\ clean' = [clean EXCEPT !.cons = Succ(@, TxcmplCount)]
  /\ txcmpl' = [txcmpl EXCEPT !.slot[clean.cons] = 0]
  /\ UNCHANGED <<xmit, lock, txdesc, store, sending>>

Reap ==
  /\ clean.on /\ clean.cons # clean.prod
  /\ LET i == txcmpl.slot[clean.cons] IN
       Release(store[i]) /\ store' = [store EXCEPT ![i] = None]
  /\ clean' = [clean EXCEPT !.cons = Succ(@, TxcmplCount)]
  /\ txcmpl' = [txcmpl EXCEPT !.slot[clean.cons] = 0]
  /\ UNCHANGED <<xmit, lock, txdesc, sending>>

(* variant: the consumer index is not written                              *)
CleanEnd_NoWrite ==
  /\ clean.on /\ clean.cons = clean.prod
  /\ clean' = [clean EXCEPT !.on = FALSE]
  /\ UNCHANGED <<heads, owner, xmit, lock, txdesc, store, sending, txcmpl>>

CleanEnd ==
  /\ clean.on /\ clean.cons = clean.prod
  /\ txcmpl' = [txcmpl EXCEPT !.cons = clean.cons]
  /\ clean' = [clean EXCEPT !.on = FALSE]
  /\ UNCHANGED <<heads, owner, xmit, lock, txdesc, store, sending>>

-----------------------------------------------------------------------------
Xmit(c) == ReadIndices(c) \/ Full(c) \/ Occupied(c) \/ Drop(c) \/ Post(c)
Clean == CleanBegin \/ Reap \/ CleanEnd
Hardware == Fetch \/ \E d \in sending : Complete(d)

Next ==
  \/ \E p \in Packet : NewPacket(p) \/ \E c \in Cpu : Call(c, p)
  \/ \E c \in Cpu : Xmit(c)
  \/ Hardware
  \/ Clean

(* The lock is fair, the hardware sends what was posted, and its report    *)
(* interrupts until edma_clean_tx() has run.                               *)
Fairness ==
  /\ \A c \in Cpu : SF_vars(ReadIndices(c)) /\ WF_vars(Xmit(c))
  /\ WF_vars(Fetch)
  /\ \A d \in [slot : TxIdx, buf : Packet] : WF_vars(Complete(d))
  /\ WF_vars(Clean)

Spec == Init /\ [][Next]_vars
FairSpec == Spec /\ Fairness

-----------------------------------------------------------------------------
(* Properties.                                                             *)

TypeOK ==
  /\ owner \in [Packet -> {"nobody", "stack", "driver"}]
  /\ xmit \in [Cpu -> [pc : {"idle", "called", "locked"}, pkt : Packet \cup {None},
                       use : TxIdx, full : BOOLEAN]]
  /\ lock \in Cpu \cup {None}
  /\ txdesc \in [prod : TxIdx, cons : TxIdx, buf : [TxIdx -> Packet \cup {None}]]
  /\ heads \in [Packet -> 0..2]
  /\ store \in [TxIdx -> Packet \cup {None}]
  /\ sending \subseteq [slot : TxIdx, buf : Packet]
  /\ txcmpl \in [prod : CmplIdx, cons : CmplIdx, slot : [CmplIdx -> TxIdx]]
  /\ clean \in [on : BOOLEAN, prod : CmplIdx, cons : CmplIdx]

Posted == Between(txdesc.cons, txdesc.prod, TxdescCount)
Unreaped ==
  Between(IF clean.on THEN clean.cons ELSE txcmpl.cons, txcmpl.prod, TxcmplCount)

(* The hardware only reads buffers that were not released: whatever is     *)
(* posted or being sent is in the store (edma_ring_xmit, edma_clean_tx).   *)
HardwareReadsLive ==
  /\ \A i \in Posted : store[i] # None /\ store[i] = txdesc.buf[i]
  /\ \A d \in sending : store[d.slot] = d.buf

(* No packet is in two slots, and all in slots are the driver's: none is   *)
(* released twice, nor while the stack tries it again.                     *)
StoreIsOwner ==
  \A i \in TxIdx : store[i] # None =>
    /\ owner[store[i]] = "driver"
    /\ \A j \in TxIdx : store[j] = store[i] => j = i

(* Every report names an occupied slot of its own, so that the warning     *)
(* about an invalid skb never appears (edma_clean_tx).                     *)
ReportsMatch ==
  \A i \in Unreaped : /\ store[txcmpl.slot[i]] # None
                      /\ \A j \in Unreaped : txcmpl.slot[j] = txcmpl.slot[i] => j = i

(* A packet is sent with the one preheader its descriptor announces        *)
(* (edma_ring_xmit: "Make room for Tx preheader").  This does not hold for *)
(* a packet that was refused and is tried again: README, "Divergences".    *)
OnePreheader == \A i \in Posted : heads[txdesc.buf[i]] = 1

(* Every packet given to the driver leaves it: it is sent and released,    *)
(* dropped, or returned to the stack.                                      *)
Leaves == \A p \in Packet : owner[p] = "driver" ~> owner[p] # "driver"
=============================================================================
