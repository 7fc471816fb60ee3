------------------------ MODULE EcmClassify_proofs ------------------------
(***************************************************************************)
(* Proofs about EcmClassify, for any set of CPUs, marks and MARK           *)
(* instances, and any values of debugfs.                                   *)
(***************************************************************************)
EXTENDS EcmClassify, TLAPS

-----------------------------------------------------------------------------
(* What the actions do to the packet of a CPU: the records involved stay   *)
(* in their sets.                                                          *)

PacketOK(p) == p \in Packet /\ PointersOK(p)

LEMMA IdleOK ==
  ASSUME EcmAssumption PROVE PacketOK(Idle)
BY DEF EcmAssumption, PacketOK, PointersOK, Packet, Idle, Pc, DefaultPc, MarkPc,
       AccelMode, Unfilled, Verdict

LEMMA ArrivedOK ==
  ASSUME EcmAssumption, NEW m \in Mark,
         NEW i \in Inst \cup {NoInst}, NEW pc \in {"mark", "default"}
  PROVE  PacketOK([Idle EXCEPT !.pc = pc, !.mark = m, !.mi = i])
BY DEF PacketOK, PointersOK, Packet, Idle, Pc, DefaultPc, MarkPc, AccelMode,
       Unfilled, Verdict

LEMMA GotoOK ==
  ASSUME NEW p, PacketOK(p), NEW pc \in Pc,
         pc \in MarkPc \ {"mark"} => p.mi # NoInst,
         pc # "read", pc # "publish"
  PROVE  PacketOK([p EXCEPT !.pc = pc])
BY DEF PacketOK, PointersOK, Packet

LEMMA AnswerOK ==
  ASSUME NEW p, PacketOK(p), NEW pc \in Pc, NEW r \in Response \cup {Unfilled},
         pc \in MarkPc \ {"mark"} => p.mi # NoInst,
         pc # "read", pc # "publish"
  PROVE  PacketOK([p EXCEPT !.pc = pc, !.mresp = r])
BY DEF PacketOK, PointersOK, Packet

LEMMA DecidedOK ==
  ASSUME NEW p, PacketOK(p), NEW a \in AccelMode
  PROVE  /\ PacketOK([p EXCEPT !.pc = "mark", !.dresp = a])
         /\ PacketOK([p EXCEPT !.pc = "mark", !.denies = FALSE, !.dresp = a])
BY DEF PacketOK, PointersOK, Packet, Pc, MarkPc

LEMMA ConsultedOK ==
  ASSUME NEW p, PacketOK(p), NEW i \in Inst \cup {NoInst},
         NEW pc \in {"decide", "read"}, pc = "read" => i # NoInst
  PROVE  PacketOK([p EXCEPT !.seen = i, !.pc = pc])
BY DEF PacketOK, PointersOK, Packet, Pc, DefaultPc, MarkPc

LEMMA PacketStep ==
  ASSUME TypeOK, NEW c \in Cpu, NEW p, PacketOK(p),
         pkt' = [pkt EXCEPT ![c] = p]
  PROVE  pkt' \in [Cpu -> Packet] /\ \A d \in Cpu : PointersOK(pkt'[d])
BY DEF TypeOK, PacketOK

LEMMA PublishedType ==
  ASSUME NEW v \in Verdict, NEW r \in Response
  PROVE  Published(v, r) \in Response
BY DEF Published, Response, Relevance, AccelMode, Verdict

-----------------------------------------------------------------------------
(* Types are respected and no classifier is used through a null pointer.   *)
THEOREM TypeCorrect == Spec => []TypeOK
<1> USE EcmAssumption
<1>1. Init => TypeOK
  <2> SUFFICES ASSUME Init PROVE TypeOK
    OBVIOUS
  <2>1. Unborn \in Instance /\ Fresh \in Instance
    BY DEF Fresh, Unborn, Instance, Response, Relevance, AccelMode
  <2>2. inst \in [Inst -> Instance] /\ assigned \in Inst \cup {NoInst}
    BY <2>1 DEF Init
  <2>3. pkt \in [Cpu -> Packet] /\ \A c \in Cpu : PointersOK(pkt[c])
    BY IdleOK DEF Init, PacketOK
  <2>4. def \in DefaultState
    BY DEF Init, DefaultState, AccelMode
  <2>5. mode \in 0..2 /\ teardowns \in Nat /\ misses \in Nat
    BY DEF Init
  <2>6. /\ enabled \in BOOLEAN /\ inDb \in BOOLEAN /\ rule \in BOOLEAN
        /\ marked \in BOOLEAN /\ denyAll \in BOOLEAN /\ lapse \in BOOLEAN
    BY EcmAssumption, Zenon DEF Init, EcmAssumption
  <2>7. QED
    BY <2>2, <2>3, <2>4, <2>5, <2>6 DEF TypeOK
<1>2. ASSUME TypeOK, [Next]_vars PROVE TypeOK'
  <2> USE <1>2
  <2> DEFINE PktOK == pkt \in [Cpu -> Packet] /\ \A d \in Cpu : PointersOK(pkt[d])
  <2>0. \A c \in Cpu : PacketOK(pkt[c])
    BY DEF TypeOK, PacketOK
  <2>1. CASE SetMode BY <2>1 DEF SetMode, TypeOK, asked, EcmAssumption
  <2>2. CASE SetEnabled BY <2>2 DEF SetEnabled, TypeOK, history, asked, EcmAssumption
  <2>4. CASE ConnectionGone BY <2>4 DEF ConnectionGone, TypeOK, history, asked, knobs
  <2>5. ASSUME NEW c \in Cpu, Arrive(c) PROVE TypeOK'
    <3>1. PICK m \in Mark :
             pkt' = [pkt EXCEPT ![c] = [Idle EXCEPT
                       !.pc = "default", !.mark = m, !.mi = assigned]]
      BY <2>5 DEF Arrive
    <3>2. PktOK'
      BY <3>1, ArrivedOK, PacketStep DEF TypeOK, EcmAssumption
    <3>3. lapse' \in BOOLEAN /\ marked' \in BOOLEAN
      BY <2>5, Zenon DEF Arrive, TypeOK
    <3>4. QED BY <2>5, <3>2, <3>3 DEF Arrive, TypeOK, knobs, asked
  <2>6. ASSUME NEW c \in Cpu, DefaultCheck(c) PROVE TypeOK'
    <3>1. CASE def.classified
      <4> DEFINE q == [pkt[c] EXCEPT !.pc = "mark", !.dresp = def.accel]
      <4>1. PacketOK(q)
        BY <2>0, DecidedOK DEF TypeOK, DefaultState
      <4>2. pkt' = [pkt EXCEPT ![c] = q]
        BY <2>6, <3>1 DEF DefaultCheck
      <4>3. PktOK'
        BY <4>1, <4>2, PacketStep
      <4>4. QED BY <2>6, <4>3 DEF DefaultCheck, TypeOK, history, asked, knobs
    <3>2. CASE ~def.classified
      <4>1. PacketOK([pkt[c] EXCEPT !.pc = "consult"])
        BY <2>0, GotoOK DEF Pc, DefaultPc, MarkPc
      <4>2. PktOK'
        BY <2>6, <3>2, <4>1, PacketStep DEF DefaultCheck
      <4>3. QED BY <2>6, <4>2 DEF DefaultCheck, TypeOK, history, asked, knobs
    <3>3. QED BY <3>1, <3>2
  <2>7. ASSUME NEW c \in Cpu, DefaultConsult(c) PROVE TypeOK'
    <3> DEFINE found == IF inDb THEN assigned ELSE NoInst
               q == [pkt[c] EXCEPT !.seen = found,
                       !.pc = IF found = NoInst THEN "decide" ELSE "read"]
    <3>1. PacketOK(q)
      <4>1. found \in Inst \cup {NoInst}
        BY DEF TypeOK
      <4>2. QED BY <2>0, <4>1, ConsultedOK
    <3>2. pkt' = [pkt EXCEPT ![c] = q]
      BY <2>7 DEF DefaultConsult
    <3>3. PktOK'
      BY <3>1, <3>2, PacketStep
    <3>4. QED BY <2>7, <3>3 DEF DefaultConsult, TypeOK, history, asked, knobs
  <2>8. ASSUME NEW c \in Cpu, DefaultRead(c) PROVE TypeOK'
    <3> DEFINE r == inst[pkt[c].seen].resp
               q == [pkt[c] EXCEPT !.pc = "decide", !.seen = NoInst,
                       !.denies = r.relevance = "yes" /\ r.accel = "no"]
    <3>1. PacketOK(q)
      BY <2>0 DEF PacketOK, PointersOK, Packet, Pc, DefaultPc, MarkPc
    <3>2. pkt' = [pkt EXCEPT ![c] = q]
      BY <2>8 DEF DefaultRead
    <3>3. PktOK'
      BY <3>1, <3>2, PacketStep
    <3>4. QED BY <2>8, <3>3 DEF DefaultRead, TypeOK, history, asked, knobs
  <2>9. ASSUME NEW c \in Cpu, DefaultDecide(c) PROVE TypeOK'
    <3> DEFINE q == [pkt[c] EXCEPT !.pc = "mark", !.denies = FALSE,
                                   !.dresp = def'.accel]
    <3>1. /\ def' \in DefaultState /\ rule' \in BOOLEAN
          /\ teardowns' \in Nat /\ misses' \in Nat
      <4>1. CASE DefaultDeny(c)
        <5>1. def' \in DefaultState
          BY <4>1 DEF DefaultDeny, DefaultState, AccelMode
        <5>2. rule' \in BOOLEAN
          BY <4>1, Zenon DEF DefaultDeny, Teardown, NobodyToAsk, TypeOK
        <5>3. teardowns' \in Nat /\ misses' \in Nat
          BY <4>1 DEF DefaultDeny, Teardown, NobodyToAsk, asked, TypeOK
        <5>4. QED BY <5>1, <5>2, <5>3
      <4>2. CASE DefaultAccept(c)
        BY <4>2 DEF DefaultAccept, asked, TypeOK, DefaultState, AccelMode
      <4>3. QED BY <2>9, <4>1, <4>2 DEF DefaultDecide
    <3>2. PacketOK(q)
      BY <2>0, <3>1, DecidedOK DEF DefaultState
    <3>3. pkt' = [pkt EXCEPT ![c] = q]
      BY <2>9 DEF DefaultDecide
    <3>4. PktOK'
      BY <3>2, <3>3, PacketStep
    <3>5. QED BY <2>9, <3>1, <3>4 DEF DefaultDecide, TypeOK, knobs
  <2>10. ASSUME NEW c \in Cpu, MarkCheck(c) PROVE TypeOK'
    <3>1. CASE pkt[c].mi = NoInst
      <4>1. PacketOK([pkt[c] EXCEPT !.pc = "resolve"])
        BY <2>0, GotoOK DEF Pc, DefaultPc, MarkPc
      <4>2. PktOK'
        BY <2>10, <3>1, <4>1, PacketStep DEF MarkCheck
      <4>3. QED BY <2>10, <4>2 DEF MarkCheck, TypeOK, history, asked, knobs
    <3>2. CASE pkt[c].mi # NoInst /\ inst[pkt[c].mi].sealed
      <4> DEFINE q == [pkt[c] EXCEPT !.pc = "unassign",
                                     !.mresp = inst[pkt[c].mi].resp]
      <4>1. inst[pkt[c].mi].resp \in Response
        BY <2>0, <3>2 DEF TypeOK, PacketOK, Packet, Instance
      <4>2. PacketOK(q)
        BY <2>0, <3>2, <4>1 DEF PacketOK, PointersOK, Packet, Pc, DefaultPc, MarkPc
      <4>3. pkt' = [pkt EXCEPT ![c] = q]
        BY <2>10, <3>2 DEF MarkCheck
      <4>4. PktOK'
        BY <4>2, <4>3, PacketStep
      <4>5. QED BY <2>10, <4>4 DEF MarkCheck, TypeOK, history, asked, knobs
    <3>3. CASE pkt[c].mi # NoInst /\ ~inst[pkt[c].mi].sealed
      <4>1. PacketOK([pkt[c] EXCEPT !.pc = "gate"])
        BY <2>0, <3>3, GotoOK DEF Pc, DefaultPc, MarkPc
      <4>2. PktOK'
        BY <2>10, <3>3, <4>1, PacketStep DEF MarkCheck
      <4>3. QED BY <2>10, <4>2 DEF MarkCheck, TypeOK, history, asked, knobs
    <3>4. QED BY <3>1, <3>2, <3>3
  <2>11. ASSUME NEW c \in Cpu, MarkGate(c) PROVE TypeOK'
    <3>1. pkt[c].mi # NoInst
      BY <2>0, <2>11 DEF MarkGate, PacketOK, PointersOK, MarkPc
    <3>2. \A v \in Verdict :
             PacketOK([pkt[c] EXCEPT !.pc = "publish", !.verdict = v])
      BY <2>0, <3>1 DEF PacketOK, PointersOK, Packet, Pc, DefaultPc, MarkPc, Verdict
    <3>3. PacketOK([pkt[c] EXCEPT !.pc = "mode2"])
      BY <2>0, <3>1, GotoOK DEF Pc, DefaultPc, MarkPc
    <3>4. \/ pkt' = [pkt EXCEPT ![c] = [pkt[c] EXCEPT !.pc = "mode2"]]
          \/ \E v \in Verdict : pkt' = [pkt EXCEPT ![c] =
               [pkt[c] EXCEPT !.pc = "publish", !.verdict = v]]
      BY <2>11 DEF MarkGate, Judged, Goto, Verdict
    <3>5. PktOK'
      BY <3>2, <3>3, <3>4, PacketStep
    <3>6. QED BY <2>11, <3>5 DEF MarkGate, TypeOK, history, asked, knobs
  <2>12. ASSUME NEW c \in Cpu, MarkMode2(c) PROVE TypeOK'
    <3>1. pkt[c].mi # NoInst
      BY <2>0, <2>12 DEF MarkMode2, PacketOK, PointersOK, MarkPc
    <3>2. \A v \in Verdict :
             PacketOK([pkt[c] EXCEPT !.pc = "publish", !.verdict = v])
      BY <2>0, <3>1 DEF PacketOK, PointersOK, Packet, Pc, DefaultPc, MarkPc, Verdict
    <3>3. PacketOK([pkt[c] EXCEPT !.pc = "mode1"])
      BY <2>0, <3>1, GotoOK DEF Pc, DefaultPc, MarkPc
    <3>4. \/ pkt' = [pkt EXCEPT ![c] = [pkt[c] EXCEPT !.pc = "mode1"]]
          \/ \E v \in Verdict : pkt' = [pkt EXCEPT ![c] =
               [pkt[c] EXCEPT !.pc = "publish", !.verdict = v]]
      BY <2>12 DEF MarkMode2, Judged, Goto, Verdict
    <3>5. PktOK'
      BY <3>2, <3>3, <3>4, PacketStep
    <3>6. QED BY <2>12, <3>5 DEF MarkMode2, TypeOK, history, asked, knobs
  <2>13. ASSUME NEW c \in Cpu, MarkMode1(c) PROVE TypeOK'
    <3>1. pkt[c].mi # NoInst
      BY <2>0, <2>13 DEF MarkMode1, PacketOK, PointersOK, MarkPc
    <3>2. \A v \in Verdict :
             PacketOK([pkt[c] EXCEPT !.pc = "publish", !.verdict = v])
      BY <2>0, <3>1 DEF PacketOK, PointersOK, Packet, Pc, DefaultPc, MarkPc, Verdict
    <3>3. \E v \in Verdict : pkt' = [pkt EXCEPT ![c] =
             [pkt[c] EXCEPT !.pc = "publish", !.verdict = v]]
      BY <2>13 DEF MarkMode1, Judged, MarkGet, Verdict
    <3>4. PktOK'
      BY <3>2, <3>3, PacketStep
    <3>5. QED BY <2>13, <3>4 DEF MarkMode1, TypeOK, history, asked, knobs
  <2>14. ASSUME NEW c \in Cpu, MarkPublish(c) PROVE TypeOK'
    <3> DEFINE i == pkt[c].mi
               v == pkt[c].verdict
               r == Published(v, inst[i].resp)
               q == [pkt[c] EXCEPT
                       !.pc = IF v = "wait" THEN "unassign" ELSE "seal",
                       !.verdict = "none",
                       !.mresp = IF v \in Fills THEN r ELSE Unfilled]
    <3>1. i \in Inst /\ v \in Verdict
      BY <2>0, <2>14 DEF MarkPublish, PacketOK, PointersOK, Packet, MarkPc
    <3>2. r \in Response
      BY <3>1, PublishedType DEF TypeOK, Instance
    <3>3. PacketOK(q)
      <4>1. i # NoInst
        BY <3>1, EcmAssumption DEF EcmAssumption
      <4>2. QED
        BY <2>0, <3>2, <4>1 DEF PacketOK, PointersOK, Packet, Pc, DefaultPc, MarkPc
    <3>4. pkt' = [pkt EXCEPT ![c] = q]
      BY <2>14 DEF MarkPublish
    <3>5. PktOK'
      BY <3>3, <3>4, PacketStep
    <3>6. inst' \in [Inst -> Instance]
      <4>1. inst' = [inst EXCEPT ![i] = [inst[i] EXCEPT !.resp = r]]
        BY <2>14 DEF MarkPublish
      <4>2. [inst[i] EXCEPT !.resp = r] \in Instance
        BY <3>1, <3>2 DEF TypeOK, Instance
      <4>3. QED BY <4>1, <4>2 DEF TypeOK
    <3>7. QED BY <2>14, <3>5, <3>6 DEF MarkPublish, TypeOK, history, asked, knobs
  <2>15. ASSUME NEW c \in Cpu, MarkSeal(c) PROVE TypeOK'
    <3>1. pkt[c].mi \in Inst
      BY <2>0, <2>15 DEF MarkSeal, PacketOK, PointersOK, Packet, MarkPc
    <3>2. PacketOK([pkt[c] EXCEPT !.pc = "unassign"])
      BY <2>0, <3>1, GotoOK, EcmAssumption DEF EcmAssumption, Pc, DefaultPc, MarkPc
    <3>3. PktOK'
      BY <2>15, <3>2, PacketStep DEF MarkSeal, Goto
    <3>4. inst' \in [Inst -> Instance]
      BY <2>15, <3>1 DEF MarkSeal, TypeOK, Instance
    <3>5. QED BY <2>15, <3>3, <3>4 DEF MarkSeal, TypeOK, history, asked, knobs
  <2>16. ASSUME NEW c \in Cpu, FrontUnassign(c) PROVE TypeOK'
    <3>1. PICK r \in Response \cup {pkt[c].mresp} :
             pkt' = [pkt EXCEPT ![c].pc = "resolve", ![c].mresp = r]
      BY <2>16 DEF FrontUnassign
    <3>2. PacketOK([pkt[c] EXCEPT !.pc = "resolve", !.mresp = r])
      <4>1. r \in Response \cup {Unfilled}
        BY <2>0 DEF PacketOK, Packet
      <4>2. QED BY <2>0, <4>1, AnswerOK DEF Pc, DefaultPc, MarkPc
    <3>3. PktOK'
      BY <3>1, <3>2, PacketStep
    <3>4. assigned' \in Inst \cup {NoInst}
      BY <2>16 DEF FrontUnassign, TypeOK
    <3>5. QED BY <2>16, <3>3, <3>4 DEF FrontUnassign, TypeOK, history, asked, knobs
  <2>17. ASSUME NEW c \in Cpu, FrontResolve(c) PROVE TypeOK'
    <3>1. PacketOK([pkt[c] EXCEPT !.pc = "accelerate"])
      BY <2>0, GotoOK DEF Pc, DefaultPc, MarkPc
    <3>2. PktOK'
      BY <2>17, <3>1, IdleOK, PacketStep DEF FrontResolve
    <3>3. QED BY <2>17, <3>2 DEF FrontResolve, TypeOK, history, asked, knobs
  <2>18. ASSUME NEW c \in Cpu, FrontAccelerate(c) PROVE TypeOK'
    <3>1. PktOK'
      BY <2>18, IdleOK, PacketStep DEF FrontAccelerate
    <3>2. QED BY <2>18, <3>1 DEF FrontAccelerate, TypeOK, history, asked, knobs
  <2>19. ASSUME NEW c \in Cpu, ReclassifyBegin(c) PROVE TypeOK'
    <3>1. PacketOK([Idle EXCEPT !.pc = "reclassify", !.mi = assigned])
      BY IdleOK DEF TypeOK, PacketOK, PointersOK, Packet, Pc, DefaultPc, MarkPc
    <3>2. PktOK'
      BY <2>19, <3>1, PacketStep DEF ReclassifyBegin
    <3>3. QED BY <2>19, <3>2 DEF ReclassifyBegin, TypeOK, history, asked, knobs
  <2>20. ASSUME NEW c \in Cpu, ReclassifyApply(c) PROVE TypeOK'
    <3>1. PktOK'
      BY <2>20, IdleOK, PacketStep DEF ReclassifyApply
    <3>2. inst' \in [Inst -> Instance] /\ assigned' \in Inst \cup {NoInst}
      <4>1. CASE ReclassifyMark(c)
        <5>1. pkt[c].mi \in Inst
          BY <2>0, <4>1 DEF ReclassifyMark, PacketOK, Packet
        <5>2. [inst[pkt[c].mi] EXCEPT !.resp.relevance = "yes"] \in Instance
          BY <5>1 DEF TypeOK, Instance, Response, Relevance
        <5>3. QED BY <4>1, <5>1, <5>2 DEF ReclassifyMark, TypeOK
      <4>2. CASE ReclassifyInstantiate(c)
        <5>1. Fresh \in Instance
          BY DEF Fresh, Unborn, Instance, Response, Relevance, AccelMode
        <5>2. QED BY <4>2, <5>1 DEF ReclassifyInstantiate, TypeOK
      <4>3. CASE ReclassifyFail(c) BY <4>3 DEF ReclassifyFail, TypeOK
      <4>4. QED BY <2>20, <4>1, <4>2, <4>3 DEF ReclassifyApply
    <3>3. QED BY <2>20, <3>1, <3>2 DEF ReclassifyApply, TypeOK, history, asked, knobs
  <2>21. CASE UNCHANGED vars BY <2>21 DEF vars, history, asked, knobs, TypeOK
  <2>22. QED
    BY <2>1, <2>2, <2>4, <2>5, <2>6, <2>7, <2>8, <2>9, <2>10, <2>11,
       <2>12, <2>13, <2>14, <2>15, <2>16, <2>17, <2>18, <2>19, <2>20, <2>21
       DEF Next, CpuNext
<1>3. QED BY <1>1, <1>2, PTL DEF Spec
-----------------------------------------------------------------------------
(* Only DefaultDecide changes what DEFAULT has decided.                    *)
LEMMA OnlyDecideDecides ==
  ASSUME [Next]_vars
  PROVE  \/ \E c \in Cpu : DefaultDecide(c)
         \/ UNCHANGED <<def, asked>>
BY DEF Next, CpuNext, vars, history, asked, knobs, SetMode, SetEnabled, ConnectionGone,
       Arrive, DefaultCheck, DefaultConsult, DefaultRead,
       MarkCheck, MarkGate, MarkMode2, MarkMode1, MarkPublish, MarkSeal,
       FrontUnassign, FrontResolve, FrontAccelerate, ReclassifyBegin,
       ReclassifyApply

(* What a packet carries as DEFAULT's answer was DEFAULT's decision.       *)
LEMMA AnswerIsDecision ==
  ASSUME TypeOK, [Next]_vars, NEW c \in Cpu
  PROVE  pkt'[c].dresp \in {pkt[c].dresp, "dont_care", def'.accel}
<1>1. pkt \in [Cpu -> Packet]
  BY DEF TypeOK
<1>2. ASSUME NEW d \in Cpu, CpuNext(d)
      PROVE  pkt'[c].dresp \in {pkt[c].dresp, "dont_care", def'.accel}
  <2>1. CASE Arrive(d) \/ ReclassifyBegin(d)
    <3>1. CASE Arrive(d)
      BY <1>1, <3>1 DEF Arrive, Idle
    <3>2. CASE ReclassifyBegin(d)
      <4> DEFINE r == [Idle EXCEPT !.pc = "reclassify", !.mi = assigned]
      <4>1. pkt' = [pkt EXCEPT ![d] = r]
        BY <3>2 DEF ReclassifyBegin
      <4>2. r.dresp = "dont_care"
        BY DEF Idle
      <4>3. QED BY <1>1, <4>1, <4>2
    <3>3. QED BY <2>1, <3>1, <3>2
  <2>2. CASE DefaultCheck(d) \/ DefaultConsult(d) \/ DefaultRead(d)
    BY <1>1, <2>2 DEF DefaultCheck, DefaultConsult, DefaultRead, Packet
  <2>3. CASE DefaultDecide(d)
    BY <1>1, <2>3 DEF DefaultDecide, Packet
  <2>4. CASE MarkCheck(d) \/ MarkGate(d)
    BY <1>1, <2>4 DEF MarkCheck, MarkGate, Judged, Goto, Packet
  <2>5. CASE MarkMode2(d) \/ MarkMode1(d)
    BY <1>1, <2>5 DEF MarkMode2, MarkMode1, Judged, Goto, Packet
  <2>6. CASE MarkPublish(d) \/ MarkSeal(d)
    BY <1>1, <2>6 DEF MarkPublish, MarkSeal, Goto, Packet
  <2>7. CASE FrontUnassign(d)
    BY <1>1, <2>7 DEF FrontUnassign, Packet
  <2>8. CASE FrontResolve(d) \/ FrontAccelerate(d) \/ ReclassifyApply(d)
    BY <1>1, <2>8 DEF FrontResolve, FrontAccelerate, ReclassifyApply, Packet, Idle
  <2>9. QED
    BY <1>2, <2>1, <2>2, <2>3, <2>4, <2>5, <2>6, <2>7, <2>8 DEF CpuNext
<1>3. CASE UNCHANGED pkt
  BY <1>3
<1>4. QED
  BY <1>2, <1>3 DEF Next, SetMode, SetEnabled, ConnectionGone, vars

(* However packets race, DEFAULT looks exactly once for somebody to remove *)
(* the rule, and has done so whenever it answers NO.                       *)
THEOREM RuleTornDownOnce == Spec => []TeardownExact
<1>1. Init => TeardownExact
  BY DEF Init, TeardownExact, Idle
<1>2. ASSUME TypeOK, TeardownExact, [Next]_vars PROVE TeardownExact'
  <2>1. /\ def.decelerated => def'.decelerated
        /\ def'.accel = "no" => def'.decelerated
        /\ teardowns' + misses' = (IF def'.decelerated THEN 1 ELSE 0)
    <3>1. CASE UNCHANGED <<def, asked>>
      BY <1>2, <3>1 DEF TeardownExact, asked
    <3>2. ASSUME NEW c \in Cpu, DefaultDeny(c)
          PROVE  /\ def'.decelerated
                 /\ teardowns' + misses' = 1
      BY <1>2, <3>2
         DEF DefaultDeny, Teardown, NobodyToAsk, asked, TeardownExact, TypeOK
    <3>3. ASSUME NEW c \in Cpu, DefaultAccept(c)
          PROVE  /\ def'.decelerated = def.decelerated /\ def'.accel = "accel"
                 /\ UNCHANGED <<teardowns, misses>>
      BY <1>2, <3>3 DEF DefaultAccept, asked, TypeOK, DefaultState
    <3>4. QED
      BY <1>2, <3>1, <3>2, <3>3, OnlyDecideDecides DEF DefaultDecide, TeardownExact
  <2>2. \A c \in Cpu : pkt'[c].dresp = "no" => def'.decelerated
    BY <1>2, <2>1, AnswerIsDecision DEF TeardownExact
  <2>3. QED BY <2>1, <2>2 DEF TeardownExact
<1>3. QED BY <1>1, <1>2, TypeCorrect, PTL DEF Spec
-----------------------------------------------------------------------------
(* Without a cause nothing says deny, at any stage of any packet.          *)

LEMMA BlamelessStep ==
  ASSUME TypeOK, \A d \in Cpu : Blameless(pkt[d]), NEW c \in Cpu, NEW p,
         Blameless(p), pkt' = [pkt EXCEPT ![c] = p]
  PROVE  \A d \in Cpu : Blameless(pkt'[d])
BY DEF TypeOK

LEMMA PublishedBlameless ==
  ASSUME NEW v \in Verdict, v \notin {"deny_all", "deny", "unknown"},
         NEW r, r.accel # "no"
  PROVE  Published(v, r).accel # "no"
BY DEF Published

LEMMA CauseStable ==
  ASSUME TypeOK, [Next]_vars, Cause PROVE Cause'
BY DEF TypeOK, Cause, Next, CpuNext, vars, history, asked, knobs, SetMode, SetEnabled,
       ConnectionGone, Arrive, DefaultCheck, DefaultConsult,
       DefaultRead, DefaultDecide, MarkCheck, MarkGate, MarkMode2, MarkMode1,
       MarkPublish, MarkSeal, FrontUnassign, FrontResolve, FrontAccelerate,
       ReclassifyBegin, ReclassifyApply

LEMMA CauseInductive ==
  ASSUME EcmAssumption, TypeOK, CauseInv, [Next]_vars PROVE CauseInv'
<1> SUFFICES ASSUME ~Cause' PROVE CauseInv'
  BY DEF CauseInv
<1> DEFINE DefOK == def.accel # "no"
           InstOK == \A i \in Inst : inst[i].resp.accel # "no"
           PktsOK == \A c \in Cpu : Blameless(pkt[c])
<1>1. /\ DefOK /\ mode # 1 /\ InstOK /\ PktsOK
  BY CauseStable DEF CauseInv
<1>2. SUFFICES DefOK' /\ (mode # 1)' /\ InstOK' /\ PktsOK'
  BY DEF CauseInv
<1>3. Blameless(Idle)
  BY DEF Blameless, Idle
<1>4. CASE SetMode BY <1>1, <1>4 DEF SetMode, Cause
<1>5. CASE SetEnabled BY <1>1, <1>5 DEF SetEnabled
<1>7. CASE ConnectionGone BY <1>1, <1>7 DEF ConnectionGone, knobs
<1>8. ASSUME NEW c \in Cpu, Arrive(c) PROVE DefOK' /\ (mode # 1)' /\ InstOK' /\ PktsOK'
  <2>1. PICK m \in Mark :
          /\ pkt' = [pkt EXCEPT ![c] = [Idle EXCEPT
                       !.pc = "default", !.mark = m, !.mi = assigned]]
          /\ marked' = (marked \/ m = DENY)
    BY <1>8 DEF Arrive
  <2>2. m # DENY
    BY <2>1 DEF Cause
  <2>3. Blameless([Idle EXCEPT !.pc = "default", !.mark = m, !.mi = assigned])
    BY <2>2 DEF Blameless, Idle
  <2>4. PktsOK'
    BY <1>1, <2>1, <2>3, BlamelessStep
  <2>5. QED BY <1>1, <1>8, <2>4 DEF Arrive, knobs
<1>9. ASSUME NEW c \in Cpu,
             \/ DefaultCheck(c) \/ DefaultConsult(c) \/ MarkCheck(c)
             \/ FrontUnassign(c) \/ FrontResolve(c) \/ FrontAccelerate(c)
             \/ ReclassifyBegin(c) \/ MarkMode2(c) \/ MarkGate(c)
      PROVE  DefOK' /\ (mode # 1)' /\ InstOK' /\ PktsOK'
  <2>1. \/ pkt'[c].pc \in {"idle", "reclassify"} /\ pkt'[c].verdict = "none"
           /\ pkt'[c].denies = FALSE
        \/ /\ pkt[c].pc \notin {"idle", "reclassify"}
           /\ pkt'[c].mark = pkt[c].mark /\ pkt'[c].denies = pkt[c].denies
           /\ pkt'[c].verdict \in {pkt[c].verdict, "off", "gone", "allow_all"}
    <3>1. pkt[c] \in Packet /\ pkt \in [Cpu -> Packet]
      BY DEF TypeOK
    <3>2. CASE DefaultCheck(c)
      BY <3>1, <3>2 DEF Packet, DefaultCheck
    <3>3. CASE DefaultConsult(c)
      BY <3>1, <3>3 DEF Packet, DefaultConsult
    <3>4. CASE MarkCheck(c)
      BY <3>1, <3>4 DEF Packet, MarkCheck
    <3>5. CASE FrontUnassign(c)
      BY <3>1, <3>5 DEF Packet, FrontUnassign
    <3>6. CASE FrontResolve(c)
      BY <3>1, <3>6 DEF Packet, FrontResolve, Idle
    <3>7. CASE FrontAccelerate(c)
      BY <3>1, <3>7 DEF FrontAccelerate, Idle
    <3>10. CASE ReclassifyBegin(c)
      <4> DEFINE q == [Idle EXCEPT !.pc = "reclassify", !.mi = assigned]
      <4>1. pkt' = [pkt EXCEPT ![c] = q]
        BY <3>10 DEF ReclassifyBegin
      <4>2. q.pc = "reclassify" /\ q.verdict = "none" /\ q.denies = FALSE
        BY DEF Idle
      <4>3. QED BY <3>1, <4>1, <4>2
    <3>8. CASE MarkMode2(c)
      BY <3>1, <3>8 DEF Packet, MarkMode2, Judged, Goto
    <3>9. CASE MarkGate(c)
      BY <3>1, <3>9 DEF Packet, MarkGate, Judged, Goto
    <3>11. QED BY <1>9, <3>2, <3>3, <3>4, <3>5, <3>6, <3>7, <3>8, <3>9,
       <3>10
  <2>2. \A d \in Cpu : d # c => pkt'[d] = pkt[d]
    BY <1>9 DEF TypeOK, DefaultCheck, DefaultConsult, MarkCheck,
         FrontUnassign, FrontResolve, FrontAccelerate, ReclassifyBegin,
         MarkMode2, MarkGate, Judged, Goto
  <2>3. Blameless(pkt'[c])
    BY <1>1, <2>1 DEF Blameless
  <2>4. PktsOK'
    BY <1>1, <2>2, <2>3
  <2>5. UNCHANGED <<def, mode, inst>>
    BY <1>9 DEF knobs, DefaultCheck, DefaultConsult, MarkCheck, FrontUnassign,
         FrontResolve, FrontAccelerate, ReclassifyBegin, MarkMode2, MarkGate
  <2>6. QED BY <1>1, <2>4, <2>5
<1>10. ASSUME NEW c \in Cpu, DefaultRead(c) PROVE DefOK' /\ (mode # 1)' /\ InstOK' /\ PktsOK'
  <2>1. pkt[c].seen \in Inst
    BY <1>10 DEF DefaultRead, TypeOK, PointersOK, Packet
  <2>2. pkt' = [pkt EXCEPT ![c].pc = "decide", ![c].seen = NoInst,
                           ![c].denies = FALSE]
    BY <1>1, <1>10, <2>1 DEF DefaultRead
  <2>3. Blameless([pkt[c] EXCEPT !.pc = "decide", !.seen = NoInst, !.denies = FALSE])
    BY <1>1, <1>10 DEF DefaultRead, Blameless, TypeOK, Packet
  <2>4. PktsOK'
    BY <1>1, <2>2, <2>3, BlamelessStep
  <2>5. QED BY <1>1, <1>10, <2>4 DEF DefaultRead, knobs
<1>11. ASSUME NEW c \in Cpu, DefaultDecide(c) PROVE DefOK' /\ (mode # 1)' /\ InstOK' /\ PktsOK'
  <2>1. DefaultAccept(c)
    BY <1>1, <1>11 DEF DefaultDecide, DefaultDeny, Blameless
  <2>2. DefOK'
    BY <2>1 DEF DefaultAccept, TypeOK, DefaultState
  <2> DEFINE q == [pkt[c] EXCEPT !.pc = "mark", !.denies = FALSE, !.dresp = def'.accel]
  <2>3. Blameless(q)
    BY <1>1, <1>11 DEF DefaultDecide, Blameless, TypeOK, Packet
  <2>4. pkt' = [pkt EXCEPT ![c] = q]
    BY <1>11 DEF DefaultDecide
  <2>5. PktsOK'
    BY <1>1, <2>3, <2>4, BlamelessStep
  <2>6. QED BY <1>1, <1>11, <2>2, <2>5 DEF DefaultDecide, knobs
<1>12. ASSUME NEW c \in Cpu, MarkMode1(c) PROVE DefOK' /\ (mode # 1)' /\ InstOK' /\ PktsOK'
  <2>1. pkt[c].mark # DENY
    BY <1>1, <1>12 DEF MarkMode1, Blameless
  <2>2. MarkGet(pkt[c].mark) = {"accept"}
    BY <2>1, CauseStable DEF MarkGet, Cause
  <2>3. pkt' = [pkt EXCEPT ![c] = [pkt[c] EXCEPT !.pc = "publish", !.verdict = "accept"]]
    BY <1>1, <1>12, <2>2 DEF MarkMode1, Judged
  <2>4. Blameless([pkt[c] EXCEPT !.pc = "publish", !.verdict = "accept"])
    BY <1>1, <2>1 DEF Blameless, TypeOK, Packet
  <2>5. PktsOK'
    BY <1>1, <2>3, <2>4, BlamelessStep
  <2>6. QED BY <1>1, <1>12, <2>5 DEF MarkMode1, knobs
<1>13. ASSUME NEW c \in Cpu, MarkPublish(c) PROVE DefOK' /\ (mode # 1)' /\ InstOK' /\ PktsOK'
  <2> DEFINE i == pkt[c].mi
             v == pkt[c].verdict
             r == Published(v, inst[i].resp)
  <2>1. i \in Inst /\ v \in Verdict
    BY <1>13 DEF MarkPublish, TypeOK, PointersOK, Packet, MarkPc
  <2>2. r.accel # "no"
    BY <1>1, <2>1, PublishedBlameless DEF Blameless
  <2>3. InstOK'
    <3>1. inst' = [inst EXCEPT ![i] = [inst[i] EXCEPT !.resp = r]]
      BY <1>13 DEF MarkPublish
    <3>2. [inst[i] EXCEPT !.resp = r].resp = r
      BY <2>1 DEF TypeOK, Instance
    <3>3. inst'[i].resp.accel # "no"
      BY <2>1, <2>2, <3>1, <3>2 DEF TypeOK
    <3>4. \A j \in Inst : j # i => inst'[j] = inst[j]
      BY <3>1 DEF TypeOK
    <3>5. QED BY <1>1, <3>3, <3>4
  <2>4. /\ pkt'[c].pc \notin {"idle", "reclassify"}
        /\ pkt'[c].mark = pkt[c].mark /\ pkt'[c].denies = pkt[c].denies
        /\ pkt'[c].verdict = "none"
        /\ \A d \in Cpu : d # c => pkt'[d] = pkt[d]
    BY <1>13 DEF MarkPublish, TypeOK, Packet
  <2>5. PktsOK'
    BY <1>1, <1>13, <2>4 DEF Blameless, MarkPublish
  <2>6. QED BY <1>1, <1>13, <2>3, <2>5 DEF MarkPublish, knobs
<1>14. ASSUME NEW c \in Cpu, MarkSeal(c) PROVE DefOK' /\ (mode # 1)' /\ InstOK' /\ PktsOK'
  <2>1. pkt[c].mi \in Inst
    BY <1>14 DEF MarkSeal, TypeOK, PointersOK, Packet, MarkPc
  <2>2. InstOK'
    BY <1>1, <1>14, <2>1 DEF MarkSeal, TypeOK, Instance
  <2>3. Blameless([pkt[c] EXCEPT !.pc = "unassign"])
    BY <1>1, <1>14 DEF MarkSeal, Blameless, TypeOK, Packet
  <2>4. PktsOK'
    BY <1>1, <1>14, <2>3, BlamelessStep DEF MarkSeal, Goto
  <2>5. QED BY <1>1, <1>14, <2>2, <2>4 DEF MarkSeal, knobs
<1>15. ASSUME NEW c \in Cpu, ReclassifyApply(c) PROVE DefOK' /\ (mode # 1)' /\ InstOK' /\ PktsOK'
  <2>1. InstOK'
    <3>1. CASE ReclassifyMark(c)
      BY <1>1, <3>1 DEF ReclassifyMark, TypeOK, Instance, Response, Packet
    <3>2. CASE ReclassifyInstantiate(c)
      BY <1>1, <3>2 DEF ReclassifyInstantiate, Fresh, Unborn, TypeOK
    <3>3. CASE ReclassifyFail(c)
      BY <1>1, <3>3 DEF ReclassifyFail
    <3>4. QED BY <1>15, <3>1, <3>2, <3>3 DEF ReclassifyApply
  <2>2. PktsOK'
    BY <1>1, <1>3, <1>15, BlamelessStep DEF ReclassifyApply
  <2>3. QED BY <1>1, <1>15, <2>1, <2>2 DEF ReclassifyApply, knobs
<1>16. CASE UNCHANGED vars
  BY <1>1, <1>16 DEF vars, knobs
<1>17. QED
  BY <1>4, <1>5, <1>7, <1>8, <1>9, <1>10, <1>11, <1>12, <1>13, <1>14,
     <1>15, <1>16 DEF Next, CpuNext

LEMMA CauseInvariant == Spec => []CauseInv
<1>1. Init => CauseInv
  BY DEF Init, CauseInv, Blameless, Idle, Fresh, Unborn
<1>2. QED BY <1>1, CauseInductive, TypeCorrect, EcmAssumption, PTL DEF Spec

(* Traffic is denied only for a cause, however many CPUs, marks and MARK   *)
(* instances there are and however they interleave.                        *)
THEOREM DenialsHaveACause == Spec => []DenyHasCause
<1>1. CauseInv => DenyHasCause
  BY DEF CauseInv, DenyHasCause
<1>2. QED BY <1>1, CauseInvariant, PTL
-----------------------------------------------------------------------------
(* What a packet has tested still holds when it acts, unless another       *)
(* packet came in between.                                                 *)

DecidingPc == {"consult", "read", "decide"}
JudgingPc == {"gate", "mode2", "mode1", "publish", "seal"}
Undecided(p) == p.pc \in DecidingPc => ~def.classified
Unsealed(p, i) == p.pc \in JudgingPc /\ p.mi = i => ~inst[i].sealed

LEMMA TestedStep ==
  ASSUME TypeOK, NEW c \in Cpu, CpuNext(c), NEW i
  PROVE  /\ Undecided(pkt[c]) => Undecided(pkt[c])'
         /\ Unsealed(pkt[c], i) => Unsealed(pkt[c], i)'
<1> DEFINE p == pkt[c]
<1>1. p \in Packet /\ pkt \in [Cpu -> Packet] /\ PointersOK(p)
  BY DEF TypeOK
<1>2. CASE \/ FrontUnassign(c) \/ FrontResolve(c) \/ FrontAccelerate(c)
           \/ ReclassifyBegin(c) \/ ReclassifyApply(c) \/ Arrive(c)
           \/ DefaultDecide(c) \/ MarkSeal(c)
  <2>1. pkt'[c].pc \in {"idle", "default", "mark", "resolve", "accelerate",
                        "unassign", "reclassify"}
    <3>1. CASE FrontUnassign(c)
      BY <1>1, <3>1 DEF FrontUnassign, Packet
    <3>2. CASE FrontResolve(c)
      BY <1>1, <3>2 DEF FrontResolve, Idle, Packet
    <3>3. CASE FrontAccelerate(c) \/ ReclassifyApply(c)
      BY <1>1, <3>3 DEF FrontAccelerate, ReclassifyApply, Idle
    <3>4. CASE ReclassifyBegin(c)
      BY <1>1, <3>4 DEF ReclassifyBegin, Idle
    <3>5. CASE Arrive(c)
      BY <1>1, <3>5 DEF Arrive, Idle
    <3>6. CASE DefaultDecide(c)
      BY <1>1, <3>6 DEF DefaultDecide, Packet
    <3>7. CASE MarkSeal(c)
      BY <1>1, <3>7 DEF MarkSeal, Goto, Packet
    <3>8. QED BY <1>2, <3>1, <3>2, <3>3, <3>4, <3>5, <3>6, <3>7
  <2>2. QED BY <2>1 DEF Undecided, Unsealed, DecidingPc, JudgingPc
<1>3. CASE DefaultCheck(c)
  <2>1. UNCHANGED <<def, inst>>
    BY <1>3 DEF DefaultCheck
  <2>2. \/ pkt'[c].pc = "consult" /\ ~def.classified
        \/ pkt'[c].pc \in {"mark", "resolve"}
    BY <1>1, <1>3 DEF DefaultCheck, Packet
  <2>3. QED BY <2>1, <2>2 DEF Undecided, Unsealed, DecidingPc, JudgingPc
<1>4. CASE DefaultConsult(c) \/ DefaultRead(c)
  <2>1. UNCHANGED <<def, inst>>
    BY <1>4 DEF DefaultConsult, DefaultRead
  <2>2. p.pc \in DecidingPc /\ pkt'[c].pc \in DecidingPc
    BY <1>1, <1>4 DEF DefaultConsult, DefaultRead, DecidingPc, Packet
  <2>3. QED BY <1>1, <2>1, <2>2 DEF Undecided, Unsealed, DecidingPc, JudgingPc
<1>5. CASE MarkCheck(c)
  <2>1. UNCHANGED <<def, inst>>
    BY <1>5 DEF MarkCheck
  <2>2. \/ pkt'[c].pc \in {"default", "resolve", "unassign"}
        \/ /\ pkt'[c].pc = "gate" /\ pkt'[c].mi = p.mi
           /\ ~inst[p.mi].sealed
    BY <1>1, <1>5 DEF MarkCheck, Packet
  <2>3. QED BY <2>1, <2>2 DEF Undecided, Unsealed, DecidingPc, JudgingPc
<1>6. CASE MarkGate(c) \/ MarkMode2(c) \/ MarkMode1(c)
  <2>1. UNCHANGED <<def, inst>>
    BY <1>6 DEF MarkGate, MarkMode2, MarkMode1
  <2>2. /\ p.pc \in JudgingPc /\ pkt'[c].pc \in JudgingPc
        /\ pkt'[c].mi = p.mi
    <3>1. CASE MarkGate(c)
      BY <1>1, <3>1 DEF MarkGate, Judged, Goto, JudgingPc, Packet
    <3>2. CASE MarkMode2(c)
      BY <1>1, <3>2 DEF MarkMode2, Judged, Goto, JudgingPc, Packet
    <3>3. CASE MarkMode1(c)
      BY <1>1, <3>3 DEF MarkMode1, Judged, JudgingPc, Packet
    <3>4. QED BY <1>6, <3>1, <3>2, <3>3
  <2>3. QED BY <1>1, <2>1, <2>2 DEF Undecided, Unsealed, DecidingPc, JudgingPc
<1>7. CASE MarkPublish(c)
  <2>1. p.mi \in Inst
    BY <1>1, <1>7 DEF MarkPublish, PointersOK, Packet, MarkPc
  <2>2. inst'[p.mi].sealed = inst[p.mi].sealed
    BY <1>7, <2>1 DEF MarkPublish, TypeOK, Instance
  <2>3. /\ p.pc \in JudgingPc /\ pkt'[c].pc \in {"unassign", "seal"}
        /\ pkt'[c].mi = p.mi
    BY <1>1, <1>7 DEF MarkPublish, JudgingPc, Packet
  <2>4. QED BY <2>2, <2>3 DEF Undecided, Unsealed, DecidingPc, JudgingPc
<1>8. QED
  BY <1>2, <1>3, <1>4, <1>5, <1>6, <1>7 DEF CpuNext

(* A step of one CPU leaves the packets of the others alone.               *)
LEMMA OthersStay ==
  ASSUME TypeOK, NEW c \in Cpu, CpuNext(c), NEW d \in Cpu, d # c
  PROVE  pkt'[d] = pkt[d]
BY DEF TypeOK, CpuNext, Arrive, DefaultCheck, DefaultConsult, DefaultRead, DefaultDecide,
       MarkCheck, MarkGate, MarkMode2, MarkMode1, MarkPublish, MarkSeal, Judged, Goto,
       FrontUnassign, FrontResolve, FrontAccelerate, ReclassifyBegin, ReclassifyApply

(* Steps of the operator and of the database touch no packet and no        *)
(* classifier.                                                             *)
LEMMA OtherSteps ==
  ASSUME [Next]_vars
  PROVE  (\E c \in Cpu : CpuNext(c)) \/ UNCHANGED <<pkt, def, inst>>
BY DEF Next, SetMode, SetEnabled, ConnectionGone, vars

LEMMA SequentialInductive ==
  ASSUME EcmAssumption, TypeOK, SequentialInv, [Next]_vars
  PROVE  SequentialInv'
<1>1. SUFFICES ASSUME Sequential, NEW c \in Cpu PROVE Undecided(pkt[c])'
  BY DEF SequentialInv, Undecided, DecidingPc, Sequential
<1>2. Undecided(pkt[c])
  BY <1>1 DEF SequentialInv, Undecided, DecidingPc
<1>3. ASSUME NEW d \in Cpu, CpuNext(d) PROVE Undecided(pkt[c])'
  <2>1. c = d
    BY <1>1 DEF Sequential
  <2>2. QED BY <1>2, <1>3, <2>1, TestedStep
<1>4. QED BY <1>2, <1>3, OtherSteps DEF Undecided

LEMMA SequentialInvariant == Spec => []SequentialInv
<1>1. Init => SequentialInv
  <2> SUFFICES ASSUME Init, NEW c \in Cpu PROVE pkt[c].pc = "idle"
    BY DEF SequentialInv
  <2>1. QED BY DEF Init, Idle
<1>2. QED BY <1>1, SequentialInductive, TypeCorrect, EcmAssumption, PTL DEF Spec

(* Once every packet that found no decision has made its own, DEFAULT      *)
(* keeps the decision, however many CPUs process packets.                  *)
THEOREM DecisionFinal == Spec => DecisionIsFinal
<1>1. ASSUME TypeOK, [Next]_vars, Decided PROVE Decided' /\ def' = def
  <2>1. def' = def
    BY <1>1, OnlyDecideDecides DEF Decided, DefaultDecide
  <2>2. ASSUME NEW c \in Cpu, CpuNext(c), NEW d \in Cpu PROVE pkt'[d].pc \notin DecidingPc
    <3>1. CASE d = c
      BY <1>1, <2>1, <2>2, <3>1, TestedStep DEF Decided, Undecided, DecidingPc
    <3>2. CASE d # c
      BY <1>1, <2>2, <3>2, OthersStay DEF Decided, DecidingPc
    <3>3. QED BY <3>1, <3>2
  <2>3. QED BY <1>1, <2>1, <2>2, OtherSteps DEF Decided, DecidingPc
<1>2. ASSUME TypeOK, [Next]_vars PROVE [Decided => Decided' /\ def' = def]_vars
  BY <1>1, <1>2
<1>3. QED BY <1>2, TypeCorrect, PTL DEF Spec, DecisionIsFinal
-----------------------------------------------------------------------------
(* A MARK instance that is in use is never allocated a second time.        *)

BornInv ==
  /\ assigned # NoInst => inst[assigned].born
  /\ \A c \in Cpu : pkt[c].mi # NoInst => inst[pkt[c].mi].born
  /\ \A i \in Inst : inst[i].sealed => inst[i].born

(* MARK's process() and reclassify are the only writers of an instance.    *)
LEMMA InstWriters ==
  ASSUME [Next]_vars
  PROVE  \/ UNCHANGED inst
         \/ \E c \in Cpu : ReclassifyApply(c) \/ MarkPublish(c) \/ MarkSeal(c)
BY DEF Next, CpuNext, vars, SetMode, SetEnabled, ConnectionGone,
       Arrive, DefaultCheck, DefaultConsult, DefaultRead, DefaultDecide,
       MarkCheck, MarkGate, MarkMode2, MarkMode1, FrontUnassign, FrontResolve,
       FrontAccelerate, ReclassifyBegin

LEMMA BornStable ==
  ASSUME TypeOK, [Next]_vars
  PROVE  \A i \in Inst : inst[i].born => inst'[i].born
<1>1. ASSUME NEW c \in Cpu, ReclassifyApply(c)
      PROVE  \A i \in Inst : inst[i].born => inst'[i].born
  <2>1. CASE ReclassifyMark(c)
    BY <2>1 DEF ReclassifyMark, TypeOK, Instance
  <2>2. CASE ReclassifyInstantiate(c)
    BY <2>2 DEF ReclassifyInstantiate, Fresh, Unborn, TypeOK
  <2>3. CASE ReclassifyFail(c)
    BY <2>3 DEF ReclassifyFail
  <2>4. QED BY <1>1, <2>1, <2>2, <2>3 DEF ReclassifyApply
<1>2. ASSUME NEW c \in Cpu, MarkPublish(c) \/ MarkSeal(c)
      PROVE  \A i \in Inst : inst[i].born => inst'[i].born
  BY <1>2 DEF MarkPublish, MarkSeal, TypeOK, Instance
<1>3. CASE UNCHANGED inst
  BY <1>3
<1>4. QED BY <1>1, <1>2, <1>3, InstWriters

LEMMA SealedOnlyBySeal ==
  ASSUME TypeOK, [Next]_vars
  PROVE  \/ \A i \in Inst : inst'[i].sealed => inst[i].sealed
         \/ \E c \in Cpu : MarkSeal(c)
<1>1. ASSUME NEW c \in Cpu, MarkPublish(c)
      PROVE  \A i \in Inst : inst'[i].sealed => inst[i].sealed
  BY <1>1 DEF MarkPublish, TypeOK, Instance
<1>2. ASSUME NEW c \in Cpu, ReclassifyApply(c)
      PROVE  \A i \in Inst : inst'[i].sealed => inst[i].sealed
  <2>1. CASE ReclassifyMark(c)
    BY <2>1 DEF ReclassifyMark, TypeOK, Instance
  <2>2. CASE ReclassifyInstantiate(c)
    BY <2>2 DEF ReclassifyInstantiate, Fresh, Unborn, TypeOK
  <2>3. CASE ReclassifyFail(c)
    BY <2>3 DEF ReclassifyFail
  <2>4. QED BY <1>2, <2>1, <2>2, <2>3 DEF ReclassifyApply
<1>3. QED BY <1>1, <1>2, InstWriters

(* A packet only ever holds the instance it held before, or the assigned   *)
(* one, or none.                                                           *)
LEMMA HeldInstance ==
  ASSUME TypeOK, [Next]_vars, NEW c \in Cpu
  PROVE  pkt'[c].mi \in {pkt[c].mi, assigned, NoInst}
<1>1. pkt \in [Cpu -> Packet]
  BY DEF TypeOK
<1>2. ASSUME NEW d \in Cpu, CpuNext(d)
      PROVE  pkt'[c].mi \in {pkt[c].mi, assigned, NoInst}
  <2>1. CASE Arrive(d)
    BY <1>1, <2>1 DEF Arrive, Packet, Idle
  <2>2. CASE DefaultCheck(d) \/ DefaultConsult(d) \/ DefaultRead(d)
    BY <1>1, <2>2 DEF DefaultCheck, DefaultConsult, DefaultRead, Packet
  <2>3. CASE DefaultDecide(d)
    BY <1>1, <2>3 DEF DefaultDecide, Packet
  <2>4. CASE MarkCheck(d) \/ MarkGate(d)
    BY <1>1, <2>4 DEF MarkCheck, MarkGate, Judged, Goto, Packet
  <2>5. CASE MarkMode2(d) \/ MarkMode1(d)
    BY <1>1, <2>5 DEF MarkMode2, MarkMode1, Judged, Goto, Packet
  <2>6. CASE MarkPublish(d) \/ MarkSeal(d)
    BY <1>1, <2>6 DEF MarkPublish, MarkSeal, Goto, Packet
  <2>7. CASE FrontUnassign(d)
    BY <1>1, <2>7 DEF FrontUnassign, Packet
  <2>8. CASE FrontResolve(d) \/ FrontAccelerate(d) \/ ReclassifyApply(d)
    BY <1>1, <2>8 DEF FrontResolve, FrontAccelerate, ReclassifyApply, Packet, Idle
  <2>9. CASE ReclassifyBegin(d)
    BY <1>1, <2>9 DEF ReclassifyBegin, Packet, Idle
  <2>10. QED
    BY <1>2, <2>1, <2>2, <2>3, <2>4, <2>5, <2>6, <2>7, <2>8, <2>9 DEF CpuNext
<1>3. CASE UNCHANGED pkt
  BY <1>3
<1>4. QED
  BY <1>2, <1>3 DEF Next, SetMode, SetEnabled, ConnectionGone, vars

LEMMA BornInvariant == Spec => []BornInv
<1>1. Init => BornInv
  BY DEF Init, BornInv, Idle, Fresh, Unborn
<1>2. ASSUME EcmAssumption, TypeOK, BornInv, [Next]_vars PROVE BornInv'
  <2>1. assigned' # NoInst => inst'[assigned'].born
    <3>1. CASE UNCHANGED assigned \/ assigned' = NoInst
      BY <1>2, <3>1, BornStable DEF BornInv, TypeOK
    <3>2. ASSUME NEW c \in Cpu, ReclassifyInstantiate(c)
          PROVE  inst'[assigned'].born
      BY <1>2, <3>2 DEF ReclassifyInstantiate, Fresh, Unborn, TypeOK
    <3>3. \/ UNCHANGED assigned \/ assigned' = NoInst
          \/ \E c \in Cpu : ReclassifyInstantiate(c)
      BY <1>2 DEF Next, CpuNext, vars, SetMode, SetEnabled, ConnectionGone, Arrive,
         DefaultCheck, DefaultConsult, DefaultRead,
         DefaultDecide, MarkCheck, MarkGate, MarkMode2, MarkMode1, MarkPublish,
         MarkSeal, FrontUnassign, FrontResolve, FrontAccelerate,
         ReclassifyBegin, ReclassifyApply, ReclassifyMark, ReclassifyFail
    <3>4. QED BY <3>1, <3>2, <3>3
  <2>2. \A c \in Cpu : pkt'[c].mi # NoInst => inst'[pkt'[c].mi].born
    BY <1>2, BornStable, HeldInstance DEF BornInv, TypeOK, Packet
  <2>3. \A i \in Inst : inst'[i].sealed => inst'[i].born
    <3>1. \A i \in Inst : inst[i].born => inst'[i].born
      BY <1>2, BornStable
    <3>2. \/ \A i \in Inst : inst'[i].sealed => inst[i].sealed
          \/ \E c \in Cpu : MarkSeal(c)
      BY <1>2, SealedOnlyBySeal
    <3>3. ASSUME NEW c \in Cpu, MarkSeal(c)
          PROVE  \A i \in Inst : inst'[i].sealed => inst[i].born
      <4>1. pkt[c].mi \in Inst /\ inst[pkt[c].mi].born
        BY <1>2, <3>3 DEF MarkSeal, BornInv, TypeOK, PointersOK, Packet, MarkPc
      <4>2. \A i \in Inst : i # pkt[c].mi => inst'[i] = inst[i]
        BY <1>2, <3>3 DEF MarkSeal, TypeOK
      <4>3. QED BY <1>2, <4>1, <4>2 DEF BornInv
    <3>4. QED BY <1>2, <3>1, <3>2, <3>3 DEF BornInv
  <2>4. QED BY <2>1, <2>2, <2>3 DEF BornInv
<1>3. QED BY <1>1, <1>2, TypeCorrect, EcmAssumption, PTL DEF Spec

(* Once every packet that found a MARK instance open has judged, the       *)
(* instance keeps its acceleration mode, and only reclassify brings its    *)
(* relevance back, however many CPUs process packets.                      *)
THEOREM SealedFinal == Spec => SealedIsFinal
<1> DEFINE Kept(i) == /\ inst'[i].sealed /\ inst'[i].resp.accel = inst[i].resp.accel
                      /\ inst'[i].resp.relevance \in {inst[i].resp.relevance, "yes"}
           Judging(p, i) == p.mi = i /\ p.pc \in JudgingPc
<1>1. ASSUME TypeOK, BornInv, [Next]_vars, NEW i \in Inst, Sealed(i)
      PROVE  Kept(i)
  <2>1. CASE UNCHANGED inst
    BY <1>1, <2>1 DEF Sealed
  <2>2. ASSUME NEW c \in Cpu, MarkPublish(c) PROVE Kept(i)
    <3>1. pkt[c].mi # i
      BY <1>1, <2>2 DEF Sealed, MarkPublish
    <3>2. inst'[i] = inst[i]
      BY <1>1, <2>2, <3>1 DEF MarkPublish, TypeOK
    <3>3. QED BY <1>1, <3>2 DEF Sealed
  <2>3. ASSUME NEW c \in Cpu, MarkSeal(c) PROVE Kept(i)
    BY <1>1, <2>3 DEF Sealed, MarkSeal, TypeOK, Instance
  <2>4. ASSUME NEW c \in Cpu, ReclassifyApply(c) PROVE Kept(i)
    <3>1. CASE ReclassifyMark(c)
      BY <1>1, <3>1 DEF Sealed, ReclassifyMark, TypeOK, Instance, Response
    <3>2. CASE ReclassifyInstantiate(c)
      BY <1>1, <3>2 DEF Sealed, ReclassifyInstantiate, BornInv, TypeOK
    <3>3. CASE ReclassifyFail(c)
      BY <1>1, <3>3 DEF Sealed, ReclassifyFail
    <3>4. QED BY <2>4, <3>1, <3>2, <3>3 DEF ReclassifyApply
  <2>5. QED BY <1>1, <2>1, <2>2, <2>3, <2>4, InstWriters
<1>2. ASSUME TypeOK, BornInv, [Next]_vars, NEW i \in Inst, Sealed(i)
      PROVE  Sealed(i)'
  <2>1. inst'[i].sealed
    BY <1>1, <1>2
  <2>2. \A d \in Cpu : ~Judging(pkt[d], i)
    BY <1>2 DEF Sealed, JudgingPc
  <2>3. ASSUME NEW c \in Cpu, CpuNext(c), NEW d \in Cpu PROVE ~Judging(pkt'[d], i)
    <3>1. CASE d = c
      <4>1. Unsealed(pkt[c], i)
        BY <2>2 DEF Unsealed
      <4>2. QED BY <1>2, <2>1, <2>3, <3>1, <4>1, TestedStep DEF Unsealed
    <3>2. CASE d # c
      BY <1>2, <2>2, <2>3, <3>2, OthersStay
    <3>3. QED BY <3>1, <3>2
  <2>4. \A d \in Cpu : ~Judging(pkt'[d], i)
    BY <1>2, <2>2, <2>3, OtherSteps
  <2>5. QED BY <2>1, <2>4 DEF Sealed, JudgingPc
<1>3. ASSUME TypeOK, BornInv, [Next]_vars
      PROVE  [\A i \in Inst : Sealed(i) =>
                /\ Sealed(i)' /\ inst'[i].resp.accel = inst[i].resp.accel
                /\ inst'[i].resp.relevance \in {inst[i].resp.relevance, "yes"}]_vars
  BY <1>1, <1>2, <1>3
<1>4. QED
  BY <1>3, TypeCorrect, BornInvariant, PTL DEF Spec, SealedIsFinal
-----------------------------------------------------------------------------
(* Once a sealed denial has settled, no rule is pushed any more.           *)

SettledPacket(p, i) ==
  p.pc # "idle" =>
    /\ p.mi = i
    /\ p.pc \in DefaultPc \cup {"mark", "unassign", "resolve", "reclassify"}
    /\ p.pc \in {"unassign", "resolve"} => p.mresp = Denial

LEMMA DenialIsFilled == Denial # Unfilled
<1>1. Denial.relevance # Unfilled.relevance
  BY DEF Denial, Unfilled
<1>2. QED BY <1>1

(* A packet on its way: it stays with the instance that denied, and takes  *)
(* the denial from it.                                                     *)
LEMMA SettledStep ==
  ASSUME EcmAssumption, TypeOK, NEW i \in Inst, Settled(i), NEW c \in Cpu, CpuNext(c)
  PROVE  /\ SettledPacket(pkt'[c], i)
         /\ \A d \in Cpu : d # c => pkt'[d] = pkt[d]
         /\ assigned' = i /\ inst'[i].sealed /\ inst'[i].resp = Denial
         /\ rule' => rule
<1> DEFINE p == pkt[c]
           q == pkt'[c]
           Others == \A d \in Cpu : d # c => pkt'[d] = pkt[d]
           Kept == assigned' = i /\ inst'[i].sealed /\ inst'[i].resp = Denial
<1>1. /\ p \in Packet /\ pkt \in [Cpu -> Packet] /\ inst \in [Inst -> Instance]
      /\ SettledPacket(p, i) /\ i # NoInst
      /\ assigned = i /\ inst[i].sealed /\ inst[i].resp = Denial
  BY DEF TypeOK, Settled, SettledPacket, EcmAssumption
<1>2. CASE Arrive(c)
  BY <1>1, <1>2 DEF Arrive, SettledPacket, DefaultPc, Idle
<1>3. CASE DefaultCheck(c) \/ DefaultConsult(c) \/ DefaultRead(c)
  <2>1. UNCHANGED <<assigned, inst, rule>> /\ Others
    BY <1>1, <1>3 DEF DefaultCheck, DefaultConsult, DefaultRead
  <2>2. q.mi = p.mi /\ q.pc \in {"mark", "consult", "decide", "read"} /\ p.pc # "idle"
    BY <1>1, <1>3 DEF DefaultCheck, DefaultConsult, DefaultRead, Packet
  <2>3. QED BY <1>1, <2>1, <2>2 DEF SettledPacket, DefaultPc
<1>4. CASE DefaultDecide(c)
  <2>1. UNCHANGED <<assigned, inst>> /\ Others
    BY <1>1, <1>4 DEF DefaultDecide
  <2>2. q.mi = p.mi /\ q.pc = "mark" /\ p.pc # "idle"
    BY <1>1, <1>4 DEF DefaultDecide, Packet
  <2>3. rule' => rule
    BY <1>4 DEF DefaultDecide, DefaultDeny, DefaultAccept, Teardown, NobodyToAsk
  <2>4. QED BY <1>1, <2>1, <2>2, <2>3 DEF SettledPacket
<1>5. CASE MarkCheck(c)
  <2>1. p.mi = i
    BY <1>1, <1>5 DEF MarkCheck, SettledPacket
  <2>2. pkt' = [pkt EXCEPT ![c].pc = "unassign", ![c].mresp = Denial]
    BY <1>1, <1>5, <2>1 DEF MarkCheck
  <2>3. q.mi = i /\ q.pc = "unassign" /\ q.mresp = Denial /\ Others
    BY <1>1, <2>1, <2>2 DEF Packet
  <2>4. QED BY <1>1, <1>5, <2>3 DEF MarkCheck, SettledPacket
<1>6. CASE \/ MarkGate(c) \/ MarkMode2(c) \/ MarkMode1(c) \/ MarkPublish(c)
           \/ MarkSeal(c) \/ FrontAccelerate(c)
  BY <1>1, <1>6 DEF MarkGate, MarkMode2, MarkMode1, MarkPublish, MarkSeal,
     FrontAccelerate, SettledPacket, DefaultPc
<1>7. CASE FrontUnassign(c)
  <2>1. p.mresp = Denial
    BY <1>1, <1>7 DEF FrontUnassign, SettledPacket
  <2>2. assigned' = assigned /\ pkt' = [pkt EXCEPT ![c].pc = "resolve", ![c].mresp = Denial]
    <3>1. PICK r \in {p.mresp} :
            /\ assigned' = IF r.relevance = "no" /\ assigned = p.mi
                           THEN NoInst ELSE assigned
            /\ pkt' = [pkt EXCEPT ![c].pc = "resolve", ![c].mresp = r]
      BY <1>7, <2>1, DenialIsFilled DEF FrontUnassign
    <3>2. Denial.relevance # "no"
      BY DEF Denial
    <3>3. QED BY <2>1, <3>1, <3>2
  <2>3. q.mi = p.mi /\ q.pc = "resolve" /\ q.mresp = Denial /\ Others
    BY <1>1, <2>2 DEF Packet
  <2>4. QED BY <1>1, <1>7, <2>2, <2>3 DEF FrontUnassign, SettledPacket
<1>8. CASE FrontResolve(c)
  <2>1. p.mresp = Denial
    BY <1>1, <1>8 DEF FrontResolve, SettledPacket
  <2>2. Final(c) = "no"
    BY <2>1 DEF Final, Overrides, Denial
  <2>3. pkt' = [pkt EXCEPT ![c] = Idle]
    BY <1>8, <2>2 DEF FrontResolve
  <2>4. QED BY <1>1, <1>8, <2>3 DEF FrontResolve, SettledPacket, Idle
<1>9. CASE ReclassifyBegin(c)
  BY <1>1, <1>9 DEF ReclassifyBegin, SettledPacket, Idle
<1>10. CASE ReclassifyApply(c)
  <2>1. p.mi = i
    BY <1>1, <1>10 DEF ReclassifyApply, SettledPacket
  <2>2. ReclassifyMark(c)
    BY <1>1, <1>10, <2>1
       DEF ReclassifyApply, ReclassifyInstantiate, ReclassifyFail
  <2>3. inst'[i].sealed /\ inst'[i].resp = Denial /\ UNCHANGED assigned
    BY <1>1, <2>1, <2>2 DEF ReclassifyMark, Instance, Response, Denial
  <2>4. QED BY <1>1, <1>10, <2>3 DEF ReclassifyApply, SettledPacket, Idle
<1>11. QED
  BY <1>2, <1>3, <1>4, <1>5, <1>6, <1>7, <1>8, <1>9, <1>10 DEF CpuNext

(* For any number of CPUs, marks and instances: once the packets that      *)
(* overlapped with a sealed denial are gone, the connection stays on the   *)
(* slow path.                                                              *)
THEOREM SlowPathKept == Spec => SlowPathHolds
<1>1. ASSUME EcmAssumption, TypeOK, [Next]_vars, NEW i \in Inst, Settled(i)
      PROVE  Settled(i)' /\ (rule' => rule)
  <2>1. ASSUME NEW c \in Cpu, CpuNext(c) PROVE Settled(i)' /\ (rule' => rule)
    <3>1. \A d \in Cpu : SettledPacket(pkt'[d], i)
      BY <1>1, <2>1, SettledStep DEF Settled, SettledPacket
    <3>2. QED BY <1>1, <2>1, <3>1, SettledStep DEF Settled, SettledPacket
  <2>2. CASE UNCHANGED <<assigned, inst, pkt, rule>>
    BY <1>1, <2>2 DEF Settled
  <2>3. QED
    BY <1>1, <2>1, <2>2 DEF Next, SetMode, SetEnabled, ConnectionGone, vars
<1>2. ASSUME TypeOK, [Next]_vars
      PROVE  [\A i \in Inst : Settled(i) => Settled(i)' /\ (rule' => rule)]_vars
  BY <1>1, <1>2, EcmAssumption
<1>3. QED
  BY <1>2, TypeCorrect, PTL DEF Spec, SlowPathHolds
-----------------------------------------------------------------------------
(* As long as nothing permits acceleration: every instance has judged      *)
(* nothing or has denied, and every packet is on its way to a denial.      *)

Untouched == [relevance |-> "yes", accel |-> "dont_care"]

Strict == enabled /\ mode = 0 /\ inDb /\ ~ExternalCb

OnlyDenies(s) ==
  /\ s.resp \in {Untouched, Denial}
  /\ s.sealed => s.resp = Denial

HeldBack(p) ==
  /\ p.pc \notin {"idle", "reclassify"} => p.mark = DENY /\ p.mi # NoInst
  /\ p.pc = "publish" => p.verdict = "deny"
  /\ p.pc = "seal" => inst[p.mi].resp = Denial
  /\ p.pc \in {"seal", "unassign", "resolve"} => p.mresp = Denial
  /\ p.pc # "accelerate"

LapseInv ==
  ~lapse =>
    /\ Strict /\ ~rule
    /\ \A i \in Inst : OnlyDenies(inst[i])
    /\ \A c \in Cpu : HeldBack(pkt[c])

(* A lapse is never forgotten.                                             *)
LEMMA LapseStable ==
  ASSUME TypeOK, [Next]_vars, ~lapse' PROVE ~lapse
BY DEF TypeOK, Next, CpuNext, vars, history, asked, knobs, SetMode, SetEnabled,
       ConnectionGone, Arrive, DefaultCheck, DefaultConsult,
       DefaultRead, DefaultDecide, MarkCheck, MarkGate, MarkMode2, MarkMode1,
       MarkPublish, MarkSeal, FrontUnassign, FrontResolve, FrontAccelerate,
       ReclassifyBegin, ReclassifyApply

(* What a step does to the packet that takes it.                           *)
LEMMA LapsePacketStep ==
  ASSUME EcmAssumption, TypeOK, LapseInv, ~lapse, ~lapse', NEW c \in Cpu, CpuNext(c)
  PROVE  HeldBack(pkt[c])'
<1> DEFINE p == pkt[c]
           q == pkt'[c]
<1>1. /\ p \in Packet /\ pkt \in [Cpu -> Packet] /\ inst \in [Inst -> Instance]
      /\ PointersOK(p) /\ HeldBack(p) /\ Strict
      /\ \A i \in Inst : OnlyDenies(inst[i])
  BY DEF TypeOK, LapseInv
<1>2. CASE Arrive(c)
  <2>1. PICK m \in Mark :
          /\ pkt' = [pkt EXCEPT ![c] = [Idle EXCEPT
                       !.pc = "default", !.mark = m, !.mi = assigned]]
          /\ lapse' = (lapse \/ m # DENY \/ assigned = NoInst)
    BY <1>2 DEF Arrive
  <2>2. m = DENY /\ assigned # NoInst
    BY <2>1
  <2>3. QED BY <1>1, <2>1, <2>2 DEF HeldBack, Idle
<1>3. CASE DefaultCheck(c) \/ DefaultConsult(c) \/ DefaultRead(c) \/ DefaultDecide(c)
  <2>1. /\ q.mi = p.mi /\ q.mark = p.mark /\ p.pc \in DefaultPc
        /\ q.pc \in {"mark", "consult", "decide", "read"}
    BY <1>1, <1>3 DEF DefaultCheck, DefaultConsult, DefaultRead, DefaultDecide,
       Packet, DefaultPc
  <2>2. QED BY <1>1, <2>1 DEF HeldBack, DefaultPc
<1>4. CASE MarkCheck(c)
  <2>1. p.mi \in Inst
    BY <1>1, <1>4 DEF MarkCheck, HeldBack, Packet
  <2>2. inst[p.mi].sealed => inst[p.mi].resp = Denial
    BY <1>1, <2>1 DEF OnlyDenies
  <2>3. /\ q.mi = p.mi /\ q.mark = p.mark
        /\ \/ q.pc = "gate"
           \/ q.pc = "unassign" /\ q.mresp = Denial
    BY <1>1, <1>4, <2>1, <2>2 DEF MarkCheck, Packet, EcmAssumption
  <2>4. QED BY <1>1, <1>4, <2>3 DEF HeldBack, MarkCheck
<1>5. CASE MarkGate(c) \/ MarkMode2(c)
  <2>1. /\ q.mi = p.mi /\ q.mark = p.mark /\ q.pc \in {"mode2", "mode1"}
        /\ p.pc \in {"gate", "mode2"}
    <3>1. CASE MarkGate(c)
      BY <1>1, <3>1 DEF MarkGate, Judged, Goto, Strict, Packet
    <3>2. CASE MarkMode2(c)
      BY <1>1, <3>2 DEF MarkMode2, Judged, Goto, Strict, Packet
    <3>3. QED BY <1>5, <3>1, <3>2
  <2>2. QED BY <1>1, <2>1 DEF HeldBack
<1>6. CASE MarkMode1(c)
  <2>1. MarkGet(p.mark) = {"deny"}
    BY <1>1, <1>6 DEF MarkMode1, HeldBack, MarkGet, Strict
  <2>2. /\ q.mi = p.mi /\ q.mark = p.mark /\ q.pc = "publish" /\ q.verdict = "deny"
    BY <1>1, <1>6, <2>1 DEF MarkMode1, Judged, Strict, Packet
  <2>3. QED BY <1>1, <1>6, <2>2 DEF HeldBack, MarkMode1
<1>7. CASE MarkPublish(c)
  <2>1. p.mi \in Inst /\ p.verdict = "deny"
    BY <1>1, <1>7 DEF MarkPublish, HeldBack, PointersOK, Packet, MarkPc
  <2>2. Published("deny", inst[p.mi].resp) = Denial /\ "deny" \in Fills
    BY DEF Published, Denial, Fills, Verdict
  <2>3. /\ q.mi = p.mi /\ q.mark = p.mark /\ q.pc = "seal" /\ q.mresp = Denial
    BY <1>1, <1>7, <2>1, <2>2 DEF MarkPublish, Packet
  <2>4. inst'[p.mi].resp = Denial
    BY <1>1, <1>7, <2>1, <2>2 DEF MarkPublish, Instance
  <2>5. QED BY <1>1, <1>7, <2>3, <2>4 DEF HeldBack, MarkPublish
<1>8. CASE MarkSeal(c)
  <2>1. /\ q.mi = p.mi /\ q.mark = p.mark /\ q.pc = "unassign" /\ q.mresp = p.mresp
    BY <1>1, <1>8 DEF MarkSeal, Goto, Packet
  <2>2. QED BY <1>1, <1>8, <2>1 DEF HeldBack, MarkSeal
<1>9. CASE FrontUnassign(c)
  <2>1. p.mresp = Denial
    BY <1>1, <1>9 DEF FrontUnassign, HeldBack
  <2>2. /\ q.mi = p.mi /\ q.mark = p.mark /\ q.pc = "resolve" /\ q.mresp = Denial
    BY <1>1, <1>9, <2>1, DenialIsFilled DEF FrontUnassign, Packet
  <2>3. QED BY <1>1, <1>9, <2>2 DEF HeldBack, FrontUnassign
<1>10. CASE FrontResolve(c)
  <2>1. p.mresp = Denial
    BY <1>1, <1>10 DEF FrontResolve, HeldBack
  <2>2. Final(c) = "no"
    BY <2>1 DEF Final, Overrides, Denial
  <2>3. q = Idle
    BY <1>1, <1>10, <2>2 DEF FrontResolve
  <2>4. QED BY <2>3 DEF HeldBack, Idle
<1>11. CASE FrontAccelerate(c) \/ ReclassifyApply(c)
  BY <1>1, <1>11 DEF FrontAccelerate, ReclassifyApply, HeldBack, Idle
<1>12. CASE ReclassifyBegin(c)
  <2> DEFINE r == [Idle EXCEPT !.pc = "reclassify", !.mi = assigned]
  <2>1. q = r
    BY <1>1, <1>12 DEF ReclassifyBegin
  <2>2. r.pc = "reclassify"
    BY DEF Idle
  <2>3. QED BY <2>1, <2>2 DEF HeldBack
<1>13. QED
  BY <1>2, <1>3, <1>4, <1>5, <1>6, <1>7, <1>8, <1>9, <1>10, <1>11, <1>12 DEF CpuNext

(* What a step does to the instances: a denial stays, and nothing else is  *)
(* published.                                                              *)
LEMMA LapseInstStep ==
  ASSUME EcmAssumption, TypeOK, BornInv, LapseInv, ~lapse, [Next]_vars
  PROVE  \A i \in Inst :
           /\ OnlyDenies(inst'[i])
           /\ inst[i].born /\ inst[i].resp = Denial => inst'[i].resp = Denial
<1>1. /\ inst \in [Inst -> Instance]
      /\ \A i \in Inst : OnlyDenies(inst[i])
      /\ \A c \in Cpu : pkt[c] \in Packet /\ PointersOK(pkt[c]) /\ HeldBack(pkt[c])
  BY DEF TypeOK, LapseInv
<1>2. CASE UNCHANGED inst
  BY <1>1, <1>2
<1> SUFFICES ASSUME NEW i \in Inst
             PROVE  /\ OnlyDenies(inst'[i])
                    /\ inst[i].born /\ inst[i].resp = Denial => inst'[i].resp = Denial
  OBVIOUS
<1>3. ASSUME NEW c \in Cpu, MarkPublish(c)
      PROVE  /\ OnlyDenies(inst'[i])
             /\ inst[i].resp = Denial => inst'[i].resp = Denial
  <2>1. pkt[c].mi \in Inst /\ pkt[c].verdict = "deny"
    BY <1>1, <1>3 DEF MarkPublish, HeldBack, PointersOK, Packet, MarkPc
  <2>2. Published("deny", inst[pkt[c].mi].resp) = Denial
    BY DEF Published, Denial
  <2>3. inst' = [inst EXCEPT ![pkt[c].mi].resp = Denial]
    BY <1>3, <2>1, <2>2 DEF MarkPublish
  <2>4. QED BY <1>1, <2>1, <2>3 DEF OnlyDenies, Instance
<1>4. ASSUME NEW c \in Cpu, MarkSeal(c)
      PROVE  OnlyDenies(inst'[i]) /\ inst'[i].resp = inst[i].resp
  <2>1. pkt[c].mi \in Inst /\ inst[pkt[c].mi].resp = Denial
    BY <1>1, <1>4 DEF MarkSeal, HeldBack, PointersOK, Packet, MarkPc
  <2>2. QED BY <1>1, <1>4, <2>1 DEF MarkSeal, OnlyDenies, Instance
<1>5. ASSUME NEW c \in Cpu, ReclassifyApply(c)
      PROVE  /\ OnlyDenies(inst'[i])
             /\ inst[i].born /\ inst[i].resp = Denial => inst'[i].resp = Denial
  <2>1. CASE ReclassifyMark(c)
    <3>1. pkt[c].mi \in Inst
      BY <1>1, <2>1 DEF ReclassifyMark, Packet
    <3>2. inst'[i] = inst[i]
      <4>1. inst[pkt[c].mi].resp.relevance = "yes"
        BY <1>1, <3>1 DEF OnlyDenies, Untouched, Denial
      <4>2. QED BY <1>1, <2>1, <3>1, <4>1 DEF ReclassifyMark, Instance, Response
    <3>3. QED BY <1>1, <3>2
  <2>2. CASE ReclassifyInstantiate(c)
    BY <1>1, <2>2 DEF ReclassifyInstantiate, Fresh, Unborn, OnlyDenies, Untouched
  <2>3. CASE ReclassifyFail(c)
    BY <1>1, <2>3 DEF ReclassifyFail
  <2>4. QED BY <1>5, <2>1, <2>2, <2>3 DEF ReclassifyApply
<1>6. QED BY <1>2, <1>3, <1>4, <1>5, InstWriters

LEMMA LapseInvariant == Spec => []LapseInv
<1>1. Init => LapseInv
  BY DEF Init, LapseInv, Strict, OnlyDenies, HeldBack, Untouched, Idle, Fresh, Unborn
<1>2. ASSUME EcmAssumption, TypeOK, BornInv, LapseInv, [Next]_vars PROVE LapseInv'
  <2> SUFFICES ASSUME ~lapse'
               PROVE  /\ Strict' /\ ~rule'
                      /\ \A i \in Inst : OnlyDenies(inst'[i])
                      /\ \A c \in Cpu : HeldBack(pkt[c])'
    BY DEF LapseInv
  <2>1. ~lapse
    BY <1>2, LapseStable
  <2>2. /\ Strict /\ ~rule
        /\ \A c \in Cpu : HeldBack(pkt[c])
    BY <1>2, <2>1 DEF LapseInv
  <2>3. \A i \in Inst :
          /\ OnlyDenies(inst'[i])
          /\ inst[i].born /\ inst[i].resp = Denial => inst'[i].resp = Denial
    BY <1>2, <2>1, LapseInstStep
  <2>4. ASSUME NEW c \in Cpu, CpuNext(c)
        PROVE  Strict' /\ ~rule' /\ \A d \in Cpu : HeldBack(pkt[d])'
    <3>1. HeldBack(pkt[c])'
      BY <1>2, <2>1, <2>4, LapsePacketStep
    <3>2. ASSUME NEW d \in Cpu, d # c PROVE HeldBack(pkt[d])'
      <4>1. pkt'[d] = pkt[d]
        BY <1>2, <2>4, <3>2
           DEF TypeOK, CpuNext, Arrive, DefaultCheck, DefaultConsult, DefaultRead,
               DefaultDecide, MarkCheck, MarkGate, MarkMode2, MarkMode1, Judged,
               Goto, MarkPublish, MarkSeal, FrontUnassign, FrontResolve,
               FrontAccelerate, ReclassifyBegin, ReclassifyApply
      <4>2. pkt[d].pc = "seal" => pkt[d].mi \in Inst /\ inst[pkt[d].mi].born
        BY <1>2 DEF TypeOK, PointersOK, Packet, MarkPc, BornInv
      <4>3. QED BY <2>2, <2>3, <4>1, <4>2 DEF HeldBack
    <3>3. ~rule'
      <4>1. pkt[c].pc # "accelerate"
        BY <2>2 DEF HeldBack
      <4>2. UNCHANGED rule \/ DefaultDecide(c)
        BY <2>4, <4>1
           DEF CpuNext, Arrive, DefaultCheck, DefaultConsult, DefaultRead,
               MarkCheck, MarkGate, MarkMode2, MarkMode1, MarkPublish, MarkSeal,
               FrontUnassign, FrontResolve, FrontAccelerate, ReclassifyBegin,
               ReclassifyApply
      <4>3. QED
        BY <2>2, <4>2
           DEF DefaultDecide, DefaultDeny, DefaultAccept, Teardown, NobodyToAsk
    <3>4. UNCHANGED <<enabled, mode, inDb>>
      BY <2>4
         DEF knobs, CpuNext, Arrive, DefaultCheck, DefaultConsult, DefaultRead,
             DefaultDecide, MarkCheck, MarkGate, MarkMode2, MarkMode1, MarkPublish,
             MarkSeal, FrontUnassign, FrontResolve, FrontAccelerate,
             ReclassifyBegin, ReclassifyApply
    <3>5. QED BY <2>2, <3>1, <3>2, <3>3, <3>4 DEF Strict
  <2>5. CASE SetMode \/ SetEnabled \/ ConnectionGone
    <3>1. UNCHANGED <<inst, pkt, rule>> /\ Strict'
      BY <1>2, <2>2, <2>5 DEF SetMode, SetEnabled, ConnectionGone, Strict
    <3>2. QED BY <2>2, <2>3, <3>1 DEF HeldBack
  <2>6. CASE UNCHANGED vars
    <3>1. UNCHANGED <<enabled, mode, inDb, inst, pkt, rule>>
      BY <2>6 DEF vars, knobs
    <3>2. QED BY <2>2, <2>3, <3>1 DEF HeldBack, Strict
  <2>7. QED BY <1>2, <2>3, <2>4, <2>5, <2>6 DEF Next
<1>3. QED BY <1>1, <1>2, TypeCorrect, BornInvariant, EcmAssumption, PTL DEF Spec

(* A rule is only ever pushed after something permitted it, whatever the   *)
(* number of CPUs and their interleaving.                                  *)
THEOREM AccelerationHasACause == Spec => []AccelHasCause
<1>1. LapseInv => AccelHasCause
  BY DEF LapseInv, AccelHasCause
<1>2. QED BY <1>1, LapseInvariant, PTL
-----------------------------------------------------------------------------
(* EcmClassify implements AccelDecision.                                   *)

decisionBar == IF def.classified THEN def.accel ELSE "undecided"

LEMMA DecideImplements ==
  ASSUME TypeOK, CauseInv, SequentialInv, Cause' = Cause,
         NEW c \in Cpu, DefaultDecide(c)
  PROVE  Decision!Next
<1>1. def \in DefaultState
  BY DEF TypeOK
<1>2. Decision!Open
  BY DEF Decision!Open, SequentialInv, DefaultDecide
<1>3. CASE DefaultDeny(c)
  <2>1. Cause
    BY <1>3 DEF CauseInv, Blameless, DefaultDeny
  <2>2. decisionBar' = "no" /\ def'.decelerated = TRUE
    BY <1>3 DEF DefaultDeny, decisionBar
  <2>3. Decision!Deny
    BY <1>2, <2>1, <2>2 DEF Decision!Deny, decisionBar
  <2>4. QED BY <2>3 DEF Decision!Next
<1>4. CASE DefaultAccept(c)
  <2>1. decisionBar' = "accel" /\ def'.decelerated = def.decelerated
    BY <1>1, <1>4 DEF DefaultAccept, DefaultState, decisionBar
  <2>2. Decision!Accept
    BY <1>2, <2>1 DEF Decision!Accept, decisionBar
  <2>3. QED BY <2>2 DEF Decision!Next
<1>5. QED BY <1>3, <1>4 DEF DefaultDecide

(* A decision is taken without moving the cause.                           *)
LEMMA DecideKeepsCause ==
  ASSUME NEW c \in Cpu, DefaultDecide(c) PROVE Cause' = Cause
BY DEF DefaultDecide, Cause

(* Every step of DEFAULT, MARK, the front end and the environment is a     *)
(* step of AccelDecision or leaves the decision alone: accept and deny     *)
(* happen in one place, deny has a cause, and on one CPU both happen only  *)
(* while nothing is decided.                                               *)
THEOREM DecisionImplemented == Spec => ImplementsDecision
<1>1. Init => Decision!Init
  <2> SUFFICES ASSUME Init PROVE Decision!Init
    OBVIOUS
  <2>1. ~def.classified /\ def.decelerated = FALSE
    BY DEF Init
  <2>2. Cause \in BOOLEAN
    BY Zenon DEF Cause
  <2>3. QED BY <2>1, <2>2 DEF Decision!Init
<1>2. ASSUME TypeOK, CauseInv, SequentialInv, [Next]_vars
      PROVE  [Decision!Next]_(Decision!vars)
  <2>1. CASE \E c \in Cpu : DefaultDecide(c)
    BY <1>2, <2>1, DecideImplements, DecideKeepsCause
  <2>2. CASE UNCHANGED <<def, asked>>
    <3>1. CASE Cause' = Cause
      BY <2>2, <3>1 DEF Decision!vars
    <3>2. CASE Cause' # Cause
      <4>1. Cause' = TRUE
        BY <1>2, <3>2, CauseStable DEF Cause
      <4>2. Decision!Blame
        BY <2>2, <4>1 DEF Decision!Blame
      <4>3. QED BY <4>2 DEF Decision!Next
    <3>3. QED BY <3>1, <3>2
  <2>3. QED BY <1>2, <2>1, <2>2, OnlyDecideDecides
<1>3. QED
  BY <1>1, <1>2, TypeCorrect, CauseInvariant, SequentialInvariant, PTL
     DEF Spec, ImplementsDecision, Decision!Spec
=============================================================================
