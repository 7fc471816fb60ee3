---------------------------- MODULE EcmClassify ----------------------------
(***************************************************************************)
(* How one connection gets its acceleration decision.  Packets of the      *)
(* connection are processed by several CPUs at once; each one runs         *)
(* process() of the two classifiers that the fork rewrote:                 *)
(*                                                                         *)
(*   DEFAULT (ecm_classifier_default.c)  decides once, after asking MARK;  *)
(*   MARK    (ecm_classifier_mark.c)     denies packets with mark 0x100.   *)
(*                                                                         *)
(* A step is what the code does inside one lock section, or one unlocked   *)
(* read or write of shared data.  The caller of process() (the ECM front   *)
(* end) is outside the repository: it is the part named "front end" below. *)
(* It calls the classifiers in the order of their types, DEFAULT before    *)
(* MARK: manual 06_NSS_bypass, lines 84-88 and 211, and the walk of        *)
(* ecm_classifier_reclassify (ecm_classifier.c:250).                       *)
(***************************************************************************)
EXTENDS Naturals

CONSTANTS
  Cpu,         \* the contexts that process packets of the connection
  Mark,        \* the values of skb->mark
  DENY,        \* the mark 0x100
  Inst,        \* the MARK instances that may be allocated for the connection
  NoInst,      \* no MARK classifier assigned
  Modes,       \* the values written to debugfs "mode" (0, 1 or 2)
  Enables,     \* the values written to debugfs "enabled"
  ExternalCb   \* a mark callback other than the default one is registered

ASSUME EcmAssumption ==
  /\ DENY \in Mark
  /\ NoInst \notin Inst
  /\ Modes \subseteq 0..2
  /\ Enables \subseteq BOOLEAN
  /\ ExternalCb \in BOOLEAN

VARIABLES
  enabled, mode,  \* debugfs files of MARK; nothing reads "deny_mark"
  inDb,      \* the connection can be found by its serial
  assigned,  \* the MARK instance assigned to the connection, or NoInst
  inst,      \* the MARK instances
  def,       \* the DEFAULT instance of the connection
  rule,      \* the front end has pushed an acceleration rule to the NSS
  pkt,       \* the packet each CPU is processing
  teardowns, \* history: how often DEFAULT called feci->decelerate
  misses,    \* history: how often it found nothing to call
  marked,    \* history: a packet with mark 0x100 has arrived
  denyAll,   \* history: "mode" has been set to 1
  lapse      \* history: something has happened that permits acceleration

knobs == <<enabled, mode>>
asked == <<teardowns, misses>>
history == <<asked, marked, denyAll, lapse>>
vars == <<knobs, inDb, assigned, inst, def, rule, pkt, history>>

-----------------------------------------------------------------------------
Relevance == {"no", "maybe", "yes"}
AccelMode == {"dont_care", "accel", "no"}
Response == [relevance : Relevance, accel : AccelMode]

(* A response struct of the front end that process() has not filled: its   *)
(* content is whatever was on the stack.                                   *)
Unfilled == [relevance |-> "unfilled", accel |-> "dont_care"]

(* The reasons for which MARK's process() ends, in the order of the code.  *)
Verdict == {"off", "gone", "allow_all", "deny_all", "accept", "deny",
            "wait", "unknown"}

(* What mark_get returns: the default callback denies exactly 0x100.       *)
MarkGet(m) == IF ExternalCb THEN {"accept", "deny", "wait", "unknown"}
              ELSE IF m = DENY THEN {"deny"} ELSE {"accept"}

(* variant: a denied mark is answered with relevance NO, as mode 1 is      *)
Published_DenyIrrelevant(v, old) ==
  [relevance |-> IF v = "unknown" THEN "yes"
                 ELSE IF v = "wait" THEN "maybe" ELSE "no",
   accel |-> IF v \in {"allow_all", "accept"} THEN "accel"
             ELSE IF v \in {"deny_all", "deny", "unknown"} THEN "no"
             ELSE old.accel]

(* The response MARK publishes for a verdict, given its previous one.      *)
Published(v, old) ==
  [relevance |-> IF v \in {"deny", "unknown"} THEN "yes"
                 ELSE IF v = "wait" THEN "maybe" ELSE "no",
   accel |-> IF v \in {"allow_all", "accept"} THEN "accel"
             ELSE IF v \in {"deny_all", "deny", "unknown"} THEN "no"
             ELSE old.accel]

(* The verdicts that also copy the response to the caller.                 *)
Fills == Verdict \ {"off", "gone", "wait"}

Instance ==
  [born : BOOLEAN, sealed : BOOLEAN, resp : Response]
Unborn ==
  [born |-> FALSE, sealed |-> FALSE,
   resp |-> [relevance |-> "yes", accel |-> "dont_care"]]
Fresh == [Unborn EXCEPT !.born = TRUE]

DefaultState ==
  [classified : BOOLEAN, decelerated : BOOLEAN, accel : AccelMode]

DefaultPc == {"default", "consult", "read", "decide"}
MarkPc == {"mark", "gate", "mode2", "mode1", "publish", "seal", "unassign"}
Pc == DefaultPc \cup MarkPc \cup {"idle", "resolve", "accelerate", "reclassify"}

Packet ==
  [pc : Pc, mark : Mark,
   mi : Inst \cup {NoInst},         \* the MARK instance the front end holds
   seen : Inst \cup {NoInst},       \* the one DEFAULT found when it asked
   denies : BOOLEAN,                \* mark_denies
   verdict : Verdict \cup {"none"}, \* why MARK's process() ends
   dresp : AccelMode,               \* what DEFAULT told the front end
   mresp : Response \cup {Unfilled}] \* what MARK told the front end

Idle == [pc |-> "idle", mark |-> DENY, mi |-> NoInst,
         seen |-> NoInst, denies |-> FALSE, verdict |-> "none",
         dresp |-> "dont_care", mresp |-> Unfilled]

Goto(c, pc) == pkt' = [pkt EXCEPT ![c].pc = pc]

-----------------------------------------------------------------------------
Init ==
  /\ enabled = TRUE /\ mode = 0
  /\ inDb = TRUE
  /\ \/ assigned = NoInst /\ inst = [i \in Inst |-> Unborn]
     \/ \E i \in Inst : /\ assigned = i
                        /\ inst = [j \in Inst |-> IF j = i THEN Fresh ELSE Unborn]
  /\ def = [classified |-> FALSE, decelerated |-> FALSE, accel |-> "dont_care"]
  /\ rule = FALSE
  /\ pkt = [c \in Cpu |-> Idle]
  /\ teardowns = 0 /\ misses = 0
  /\ marked = FALSE /\ denyAll = FALSE /\ lapse = ExternalCb

-----------------------------------------------------------------------------
(* Environment: debugfs writes, the connection leaving the database, the   *)
(* front end receiving a packet.                                           *)

SetMode ==
  /\ mode' \in Modes
  /\ denyAll' = (denyAll \/ mode' = 1)
  /\ lapse' = (lapse \/ mode' # 0)
  /\ UNCHANGED <<enabled, inDb, assigned, inst, def, rule, pkt, asked, marked>>

SetEnabled ==
  /\ enabled' \in Enables
  /\ lapse' = (lapse \/ ~enabled')
  /\ UNCHANGED <<mode, inDb, assigned, inst, def, rule, pkt, asked, marked, denyAll>>

ConnectionGone ==
  /\ inDb
  /\ inDb' = FALSE
  /\ lapse' = TRUE
  /\ UNCHANGED <<knobs, assigned, inst, def, rule, pkt, asked, marked, denyAll>>

(* A packet arrives: the front end takes the classifiers assigned now.     *)
Arrive(c) ==
  /\ pkt[c].pc = "idle"
  /\ inDb
  /\ \E m \in Mark :
       /\ pkt' = [pkt EXCEPT ![c] = [Idle EXCEPT
                    !.pc = "default", !.mark = m, !.mi = assigned]]
       /\ marked' = (marked \/ m = DENY)
       /\ lapse' = (lapse \/ m # DENY \/ assigned = NoInst)
  /\ UNCHANGED <<knobs, inDb, assigned, inst, def, rule, asked, denyAll>>

-----------------------------------------------------------------------------
(* DEFAULT: ecm_classifier_default_process().                              *)

(* variant: the test of `classified` is missing                            *)
DefaultCheck_Always(c) ==
  /\ pkt[c].pc = "default"
  /\ Goto(c, "consult")
  /\ UNCHANGED <<knobs, inDb, assigned, inst, def, rule, history>>

(* A decision already made is returned as it is.  (A packet that is not a  *)
(* SYN makes this test twice; when both fail the result is the same.)      *)
DefaultCheck(c) ==
  /\ pkt[c].pc = "default"
  /\ pkt' = IF def.classified
            THEN [pkt EXCEPT ![c].pc = "mark", ![c].dresp = def.accel]
            ELSE [pkt EXCEPT ![c].pc = "consult"]
  /\ UNCHANGED <<knobs, inDb, assigned, inst, def, rule, history>>

(* variant: the result of the look-up is not tested                        *)
DefaultConsult_NoNullCheck(c) ==
  /\ pkt[c].pc = "consult"
  /\ pkt' = [pkt EXCEPT ![c].seen = IF inDb THEN assigned ELSE NoInst,
                        ![c].pc = "read"]
  /\ UNCHANGED <<knobs, inDb, assigned, inst, def, rule, history>>

(* Look up the connection by serial and the MARK classifier assigned to it. *)
DefaultConsult(c) ==
  /\ pkt[c].pc = "consult"
  /\ LET found == IF inDb THEN assigned ELSE NoInst
     IN  pkt' = [pkt EXCEPT ![c].seen = found,
                            ![c].pc = IF found = NoInst THEN "decide" ELSE "read"]
  /\ UNCHANGED <<knobs, inDb, assigned, inst, def, rule, history>>

(* variant: any answer that does not say ACCEL denies                      *)
DefaultRead_DeniesUndecided(c) ==
  /\ pkt[c].pc = "read"
  /\ pkt' = [pkt EXCEPT ![c].pc = "decide", ![c].seen = NoInst,
                        ![c].denies = inst[pkt[c].seen].resp.accel # "accel"]
  /\ UNCHANGED <<knobs, inDb, assigned, inst, def, rule, history>>

(* variant: the test looks for relevance NO instead of YES                 *)
DefaultRead_WrongRelevance(c) ==
  /\ pkt[c].pc = "read"
  /\ LET r == inst[pkt[c].seen].resp
     IN  pkt' = [pkt EXCEPT ![c].pc = "decide", ![c].seen = NoInst,
                            ![c].denies = r.relevance = "no" /\ r.accel = "no"]
  /\ UNCHANGED <<knobs, inDb, assigned, inst, def, rule, history>>

(* last_process_response_get(): a copy, under MARK's lock; MARK is let go. *)
DefaultRead(c) ==
  /\ pkt[c].pc = "read"
  /\ LET r == inst[pkt[c].seen].resp
     IN  pkt' = [pkt EXCEPT ![c].pc = "decide", ![c].seen = NoInst,
                            ![c].denies = r.relevance = "yes" /\ r.accel = "no"]
  /\ UNCHANGED <<knobs, inDb, assigned, inst, def, rule, history>>

(* The front end is told to remove the rule (lines 266-270)...             *)
Teardown ==
  /\ rule' = FALSE
  /\ teardowns' = teardowns + 1
  /\ UNCHANGED misses

(* ...unless the connection has none, or it has no decelerate function.    *)
NobodyToAsk ==
  /\ misses' = misses + 1
  /\ UNCHANGED <<rule, teardowns>>

(* variant: the rule is torn down for every denial                         *)
DefaultDeny_TearsDownAgain(c) ==
  /\ pkt[c].denies
  /\ def' = [classified |-> TRUE, decelerated |-> TRUE, accel |-> "no"]
  /\ Teardown \/ NobodyToAsk

(* The decision, under DEFAULT's lock, which does not test classified      *)
(* again.  The first denial also looks for somebody who removes the rule;  *)
(* decelerated is set whether there is anybody or not (line 273).          *)
DefaultDeny(c) ==
  /\ pkt[c].denies
  /\ def' = [classified |-> TRUE, decelerated |-> TRUE, accel |-> "no"]
  /\ \/ ~def.decelerated /\ (Teardown \/ NobodyToAsk)
     \/ def.decelerated /\ UNCHANGED <<rule, asked>>

(* variant: accepting forgets that the rule was torn down                  *)
DefaultAccept_ForgetsTeardown(c) ==
  /\ ~pkt[c].denies
  /\ def' = [classified |-> TRUE, decelerated |-> FALSE, accel |-> "accel"]
  /\ UNCHANGED <<rule, asked>>

DefaultAccept(c) ==
  /\ ~pkt[c].denies
  /\ def' = [def EXCEPT !.classified = TRUE, !.accel = "accel"]
  /\ UNCHANGED <<rule, asked>>

DefaultDecide(c) ==
  /\ pkt[c].pc = "decide"
  /\ DefaultDeny(c) \/ DefaultAccept(c)
  /\ pkt' = [pkt EXCEPT ![c].pc = "mark", ![c].denies = FALSE,
                        ![c].dresp = def'.accel]
  /\ UNCHANGED <<knobs, inDb, assigned, inst, marked, denyAll, lapse>>

-----------------------------------------------------------------------------
(* MARK: ecm_classifier_mark_process().  The flag `decelerated` of the     *)
(* instance is called sealed here; it is read and written outside the lock. *)

(* variant: the early return for a sealed instance is missing              *)
MarkCheck_NoEarlyReturn(c) ==
  /\ pkt[c].pc = "mark"
  /\ Goto(c, IF pkt[c].mi = NoInst THEN "resolve" ELSE "gate")
  /\ UNCHANGED <<knobs, inDb, assigned, inst, def, rule, history>>

(* variant: the early return does not copy the stored response             *)
MarkCheck_ReturnsUnfilled(c) ==
  /\ pkt[c].pc = "mark"
  /\ Goto(c, IF pkt[c].mi = NoInst THEN "resolve"
             ELSE IF inst[pkt[c].mi].sealed THEN "unassign" ELSE "gate")
  /\ UNCHANGED <<knobs, inDb, assigned, inst, def, rule, history>>

MarkCheck(c) ==
  /\ pkt[c].pc = "mark"
  /\ LET i == pkt[c].mi
     IN  pkt' = IF i = NoInst
                THEN [pkt EXCEPT ![c].pc = "resolve"]
                ELSE IF inst[i].sealed
                THEN [pkt EXCEPT ![c].pc = "unassign", ![c].mresp = inst[i].resp]
                ELSE [pkt EXCEPT ![c].pc = "gate"]
  /\ UNCHANGED <<knobs, inDb, assigned, inst, def, rule, history>>

Judged(c, v) == pkt' = [pkt EXCEPT ![c].pc = "publish", ![c].verdict = v]

(* CASO 1: not enabled, or the connection is gone.                         *)
MarkGate(c) ==
  /\ pkt[c].pc = "gate"
  /\ \/ ~enabled /\ Judged(c, "off")
     \/ enabled /\ ~inDb /\ Judged(c, "gone")
     \/ enabled /\ inDb /\ Goto(c, "mode2")
  /\ UNCHANGED <<knobs, inDb, assigned, inst, def, rule, history>>

(* CASO 2 and CASO 3 read `mode` one after the other.                      *)
MarkMode2(c) ==
  /\ pkt[c].pc = "mode2"
  /\ IF mode = 2 THEN Judged(c, "allow_all") ELSE Goto(c, "mode1")
  /\ UNCHANGED <<knobs, inDb, assigned, inst, def, rule, history>>

MarkMode1(c) ==
  /\ pkt[c].pc = "mode1"
  /\ \/ mode = 1 /\ Judged(c, "deny_all")
     \/ mode # 1 /\ \E v \in MarkGet(pkt[c].mark) : Judged(c, v)
  /\ UNCHANGED <<knobs, inDb, assigned, inst, def, rule, history>>

(* The response is written and copied to the caller under MARK's lock...   *)
MarkPublish(c) ==
  /\ pkt[c].pc = "publish"
  /\ LET i == pkt[c].mi
         v == pkt[c].verdict
         r == Published(v, inst[i].resp)
     IN  /\ inst' = [inst EXCEPT ![i].resp = r]
         /\ pkt' = [pkt EXCEPT
                      ![c].pc = IF v = "wait" THEN "unassign" ELSE "seal",
                      ![c].verdict = "none",
                      ![c].mresp = IF v \in Fills THEN r ELSE Unfilled]
  /\ UNCHANGED <<knobs, inDb, assigned, def, rule, history>>

(* ...and the flag is set after the lock is released.                      *)
MarkSeal(c) ==
  /\ pkt[c].pc = "seal"
  /\ inst' = [inst EXCEPT ![pkt[c].mi].sealed = TRUE]
  /\ Goto(c, "unassign")
  /\ UNCHANGED <<knobs, inDb, assigned, def, rule, history>>

-----------------------------------------------------------------------------
(* The front end (external): it unassigns a classifier that answered NO,   *)
(* lets a relevant answer of MARK override DEFAULT's, and accelerates.     *)

FrontUnassign(c) ==
  /\ pkt[c].pc = "unassign"
  /\ \E r \in IF pkt[c].mresp = Unfilled THEN Response ELSE {pkt[c].mresp} :
       /\ assigned' = IF r.relevance = "no" /\ assigned = pkt[c].mi
                      THEN NoInst ELSE assigned
       /\ pkt' = [pkt EXCEPT ![c].pc = "resolve", ![c].mresp = r]
  /\ UNCHANGED <<knobs, inDb, inst, def, rule, history>>

(* MARK's answer counts when it is relevant and names a mode.              *)
Overrides(r) == r.relevance \in {"maybe", "yes"} /\ r.accel # "dont_care"
Final(c) == IF Overrides(pkt[c].mresp) THEN pkt[c].mresp.accel ELSE pkt[c].dresp

FrontResolve(c) ==
  /\ pkt[c].pc = "resolve"
  /\ pkt' = IF Final(c) = "accel" THEN [pkt EXCEPT ![c].pc = "accelerate"]
            ELSE [pkt EXCEPT ![c] = Idle]
  /\ UNCHANGED <<knobs, inDb, assigned, inst, def, rule, history>>

FrontAccelerate(c) ==
  /\ pkt[c].pc = "accelerate"
  /\ rule' = TRUE
  /\ pkt' = [pkt EXCEPT ![c] = Idle]
  /\ UNCHANGED <<knobs, inDb, assigned, inst, def, history>>

-----------------------------------------------------------------------------
(* ecm_classifier_reclassify() for the types DEFAULT and MARK: DEFAULT's   *)
(* handler does nothing, MARK's makes it relevant, a missing MARK is       *)
(* allocated and assigned (the allocation may fail).                       *)

ReclassifyBegin(c) ==
  /\ pkt[c].pc = "idle"
  /\ pkt' = [pkt EXCEPT ![c] = [Idle EXCEPT !.pc = "reclassify", !.mi = assigned]]
  /\ UNCHANGED <<knobs, inDb, assigned, inst, def, rule, history>>

ReclassifyMark(c) ==
  /\ pkt[c].mi # NoInst
  /\ inst' = [inst EXCEPT ![pkt[c].mi].resp.relevance = "yes"]
  /\ UNCHANGED assigned

ReclassifyInstantiate(c) ==
  /\ pkt[c].mi = NoInst
  /\ \E i \in Inst : /\ ~inst[i].born
                     /\ inst' = [inst EXCEPT ![i] = Fresh]
                     /\ assigned' = i

ReclassifyFail(c) ==
  /\ pkt[c].mi = NoInst
  /\ UNCHANGED <<inst, assigned>>

ReclassifyApply(c) ==
  /\ pkt[c].pc = "reclassify"
  /\ ReclassifyMark(c) \/ ReclassifyInstantiate(c) \/ ReclassifyFail(c)
  /\ pkt' = [pkt EXCEPT ![c] = Idle]
  /\ UNCHANGED <<knobs, inDb, def, rule, history>>

-----------------------------------------------------------------------------
CpuNext(c) ==
  \/ Arrive(c)
  \/ DefaultCheck(c) \/ DefaultConsult(c) \/ DefaultRead(c) \/ DefaultDecide(c)
  \/ MarkCheck(c) \/ MarkGate(c) \/ MarkMode2(c) \/ MarkMode1(c)
  \/ MarkPublish(c) \/ MarkSeal(c)
  \/ FrontUnassign(c) \/ FrontResolve(c) \/ FrontAccelerate(c)
  \/ ReclassifyBegin(c) \/ ReclassifyApply(c)

Next ==
  \/ SetMode \/ SetEnabled \/ ConnectionGone
  \/ \E c \in Cpu : CpuNext(c)

Spec == Init /\ [][Next]_vars

-----------------------------------------------------------------------------
(* Properties.                                                             *)

(* A CPU that is inside MARK's process() has an instance, one that copies  *)
(* MARK's answer has found one.                                            *)
PointersOK(p) ==
  /\ p.pc \in MarkPc \ {"mark"} => p.mi # NoInst
  /\ p.pc = "read" => p.seen # NoInst
  /\ p.pc = "publish" => p.verdict # "none"

(* Types, and that no classifier is used through a null pointer.           *)
TypeOK ==
  /\ enabled \in BOOLEAN /\ mode \in 0..2
  /\ inDb \in BOOLEAN /\ rule \in BOOLEAN
  /\ assigned \in Inst \cup {NoInst}
  /\ inst \in [Inst -> Instance]
  /\ def \in DefaultState
  /\ pkt \in [Cpu -> Packet]
  /\ teardowns \in Nat /\ misses \in Nat
  /\ marked \in BOOLEAN /\ denyAll \in BOOLEAN /\ lapse \in BOOLEAN
  /\ \A c \in Cpu : PointersOK(pkt[c])

Cause == marked \/ denyAll \/ ExternalCb

(* DEFAULT forces the slow path (lines 237-263 of ecm_classifier_default.c) *)
(* only for a cause: a packet marked 0x100 came by, the operator chose     *)
(* deny-all, or a foreign callback judged the packets.  However the CPUs   *)
(* interleave, other traffic keeps its acceleration.                       *)
DenyHasCause == def.accel = "no" => Cause

(* DEFAULT never answers NO without having looked for somebody to remove   *)
(* the rule, and it looks only once, even when several packets are denied  *)
(* at once: a rule is not torn down twice, and a teardown that was missed  *)
(* for want of a front end is never made good (lines 265-275).             *)
TeardownExact ==
  /\ teardowns + misses = (IF def.decelerated THEN 1 ELSE 0)
  /\ (def.accel = "no" \/ \E c \in Cpu : pkt[c].dresp = "no") => def.decelerated

(* DEFAULT has decided, and no packet that found no decision is still      *)
(* about to make one.                                                      *)
Decided ==
  /\ def.classified
  /\ \A c \in Cpu : pkt[c].pc \notin {"consult", "read", "decide"}

(* From then on the decision and the flag decelerated are final, for any   *)
(* number of CPUs: neither later packets nor a reclassification reopen     *)
(* what `classified` has closed (default.c, lines 203-224 and 290).        *)
DecisionIsFinal == [][Decided => Decided' /\ def' = def]_vars

(* A MARK instance is sealed, and no packet that found it open is still    *)
(* judging.                                                                *)
Sealed(i) ==
  /\ inst[i].sealed
  /\ \A c \in Cpu : pkt[c].mi = i =>
       pkt[c].pc \notin {"gate", "mode2", "mode1", "publish", "seal"}

(* From then on it keeps its acceleration mode, for any number of CPUs: no *)
(* packet judges again, whatever is assigned, reclassified or written to   *)
(* debugfs, and only the relevance comes back, by reclassify               *)
(* (ecm_classifier_mark.c lines 221-226 and 415-426).                      *)
SealedIsFinal ==
  [][\A i \in Inst : Sealed(i) =>
       /\ Sealed(i)' /\ inst'[i].resp.accel = inst[i].resp.accel
       /\ inst'[i].resp.relevance \in {inst[i].resp.relevance, "yes"}]_vars

Denial == [relevance |-> "yes", accel |-> "no"]

(* MARK has sealed a denial, and the packets that overlapped with it are   *)
(* gone: every CPU works with the instance that denied, none is judging,   *)
(* and what MARK has answered so far is the denial.                        *)
Settled(i) ==
  /\ assigned = i /\ inst[i].sealed /\ inst[i].resp = Denial
  /\ \A c \in Cpu : pkt[c].pc # "idle" =>
       /\ pkt[c].mi = i
       /\ pkt[c].pc \in DefaultPc \cup {"mark", "unassign", "resolve", "reclassify"}
       /\ pkt[c].pc \in {"unassign", "resolve"} => pkt[c].mresp = Denial

(* From then on the connection stays on the slow path, on any number of    *)
(* CPUs: whatever marks later packets carry, whatever DEFAULT decides,     *)
(* whatever is reclassified or written to debugfs, no rule is pushed       *)
(* (ecm_classifier_mark.c lines 221-226 and 415-426).                      *)
SlowPathHolds ==
  [][\A i \in Inst : Settled(i) => Settled(i)' /\ (rule' => rule)]_vars

(* As long as MARK filters with its own callback, the connection is in the *)
(* database, and every packet carries 0x100 and finds a MARK classifier,   *)
(* the connection is never accelerated: DEFAULT consults MARK before MARK  *)
(* has judged and accepts, MARK's own answer must hold the packet back, in *)
(* every race of packets, decisions and reclassifications.                 *)
AccelHasCause == rule => lapse

(* The abstract decision this module implements.                           *)
Sequential == \A c, d \in Cpu : c = d

Decision == INSTANCE AccelDecision WITH
  Racing   <- ~Sequential,
  decision <- IF def.classified THEN def.accel ELSE "undecided",
  torn     <- def.decelerated,
  cause    <- Cause

(* Every step of the classifiers is a step of AccelDecision or leaves the  *)
(* decision alone; on one CPU the decision is taken only once.             *)
ImplementsDecision == Decision!Spec

-----------------------------------------------------------------------------
(* Inductive strengthenings used by the proofs.                            *)

(* As long as there is no cause, no datum on the way from a packet to the  *)
(* decision says deny.                                                     *)
Blameless(p) ==
  /\ p.pc \notin {"idle", "reclassify"} => p.mark # DENY
  /\ p.verdict \notin {"deny_all", "deny", "unknown"}
  /\ ~p.denies
CauseInv ==
  \/ Cause
  \/ /\ def.accel # "no" /\ mode # 1
     /\ \A i \in Inst : inst[i].resp.accel # "no"
     /\ \A c \in Cpu : Blameless(pkt[c])

(* On one CPU what the packet has tested still holds when it acts on it.   *)
SequentialInv ==
  Sequential => \A c \in Cpu :
    pkt[c].pc \in {"consult", "read", "decide"} => ~def.classified

-----------------------------------------------------------------------------
(* What the repository says of the program, and the code does not do.      *)

(* Manual 06_NSS_bypass, lines 205-209: a decelerated connection stays     *)
(* NO_ACCEL.                                                               *)
DeceleratedIsSlow == def.decelerated => def.accel = "no"

(* Manual 06_NSS_bypass, lines 211-213: when MARK says NO, DEFAULT, which  *)
(* consults it, decides NO_ACCEL and the connection is decelerated.  It is *)
(* false with one CPU already: DEFAULT consults MARK before MARK judges.   *)
DenialHeard ==
  \A i \in Inst : Settled(i) /\ def.classified => def.decelerated

=============================================================================
