------------------------ MODULE NssMessages_proofs ------------------------
(***************************************************************************)
(* Proofs about NssSyncMsg, for any callers and any number of messages,    *)
(* and about the two modules that drive its calls: NssSysctl, for any      *)
(* writers and values, and MirrorCtl, for any devices and commands.        *)
(***************************************************************************)
EXTENDS NssSysctl, MirrorCtl, FiniteSetTheorems, TLAPS

(* Between down() and up().                                                *)
Holds(c) == call[c].pc \in {"send", "wait", "timedout", "read"}

(* The semaphore is free, or exactly one caller holds it.                  *)
Mutex ==
  /\ \A c, d \in Caller : Holds(c) /\ Holds(d) => c = d
  /\ \A c \in Caller : Holds(c) => sem = 0

TypeInv == TypeOK /\ Mutex

-----------------------------------------------------------------------------
(* A step of a caller that leaves the others alone.                        *)
LEMMA CallStep ==
  ASSUME TypeOK, NEW c \in Caller, NEW q \in Call, q.pc # "idle" => q.req # 0,
         call' = [call EXCEPT ![c] = q]
  PROVE  /\ call' \in [Caller -> Call]
         /\ \A d \in Caller : call'[d].pc # "idle" => call'[d].req # 0
         /\ call'[c] = q
         /\ \A d \in Caller : d # c => call'[d] = call[d]
BY DEF TypeOK

(* Goto changes one position only.                                         *)
LEMMA GotoStep ==
  ASSUME TypeOK, NEW c \in Caller, NEW pc \in CallPc, Goto(c, pc),
         call[c].pc # "idle"
  PROVE  /\ call' \in [Caller -> Call]
         /\ \A d \in Caller : call'[d].pc # "idle" => call'[d].req # 0
         /\ call'[c].pc = pc /\ call'[c].req = call[c].req
         /\ call'[c].status = call[c].status
         /\ \A d \in Caller : d # c => call'[d] = call[d]
<1> DEFINE q == [call[c] EXCEPT !.pc = pc]
<1>1. call[c] \in Call /\ call[c].req # 0
  BY DEF TypeOK
<1>2. q \in Call /\ q.req = call[c].req /\ q.pc = pc /\ q.status = call[c].status
  BY <1>1 DEF Call
<1>3. call' = [call EXCEPT ![c] = q]
  BY DEF Goto
<1>4. QED BY <1>1, <1>2, <1>3, CallStep

LEMMA OwnCbType ==
  ASSUME NEW r \in Req PROVE OwnCb(r) \in Req \cup {0}
BY DEF OwnCb

-----------------------------------------------------------------------------
LEMMA InitTypes == Init => TypeInv
BY SyncAssumption DEF SyncAssumption, Init, TypeInv, TypeOK, Mutex, Holds,
   Status, Call, CallPc, Soft, Quiet, Req

(* Types hold and the semaphore is binary: no path releases it twice.      *)
THEOREM SyncTypeCorrect == Spec => []TypeInv
<1>1. Init => TypeInv
  BY InitTypes
<1>2. ASSUME TypeInv, [Next]_vars PROVE TypeInv'
  <2> USE <1>2 DEF TypeInv
  <2>0. Req \subseteq Nat /\ 0 \notin Req
    BY SyncAssumption DEF Req, SyncAssumption
  <2>1. ASSUME NEW c \in Caller, Begin(c) PROVE TypeInv'
    <3> DEFINE q == [pc |-> "down", req |-> issued + 1, status |-> "failure"]
    <3>1. issued + 1 \in Req /\ issued' \in 0..MaxReq
      BY <2>1, SyncAssumption DEF SyncAssumption, Begin, TypeOK, Req
    <3>2. q \in Call
      BY <3>1 DEF Call, CallPc, Status
    <3>3. call' = [call EXCEPT ![c] = q]
      BY <2>1 DEF Begin
    <3>4. /\ call' \in [Caller -> Call]
          /\ \A d \in Caller : call'[d].pc # "idle" => call'[d].req # 0
          /\ call'[c] = q
          /\ \A d \in Caller : d # c => call'[d] = call[d]
      BY <2>0, <3>1, <3>2, <3>3, CallStep
    <3>5. TypeOK'
      BY <2>1, <3>1, <3>4 DEF Begin, TypeOK
    <3>6. Mutex'
      BY <2>1, <3>4 DEF Begin, Mutex, Holds
    <3>7. QED BY <3>5, <3>6
  <2>2. ASSUME NEW c \in Caller, Down(c) PROVE TypeInv'
    <3>1. /\ call' \in [Caller -> Call]
          /\ \A d \in Caller : call'[d].pc # "idle" => call'[d].req # 0
          /\ call'[c].pc = "send"
          /\ \A d \in Caller : d # c => call'[d] = call[d]
      BY <2>2, GotoStep DEF Down, CallPc
    <3>2. call[c].req \in Req
      BY <2>2 DEF Down, TypeOK, Call
    <3>3. sem = 1 /\ sem' = 0
      BY <2>2 DEF Down, TypeOK
    <3>4. TypeOK'
      BY <2>2, <3>1, <3>2, <3>3, OwnCbType DEF Down, TypeOK
    <3>5. Mutex'
      BY <3>1, <3>3 DEF Mutex, Holds
    <3>6. QED BY <3>4, <3>5
  <2>3. ASSUME NEW c \in Caller, SendFails(c) \/ Return(c) PROVE TypeInv'
    <3> DEFINE s == IF SendFails(c) THEN "failure" ELSE response
               q == [call[c] EXCEPT !.pc = "idle", !.status = s]
    <3>1. call[c] \in Call /\ call[c].req # 0 /\ s \in Status /\ Holds(c)
      BY <2>3 DEF SendFails, Return, TypeOK, Status, Holds
    <3>2. q \in Call /\ q.pc = "idle"
      BY <3>1 DEF Call, CallPc
    <3>3. call' = [call EXCEPT ![c] = q]
      <4>1. CASE SendFails(c)
        BY <4>1 DEF SendFails
      <4>2. CASE ~SendFails(c)
        BY <2>3, <4>2 DEF Return
      <4>3. QED BY <4>1, <4>2
    <3>4. /\ call' \in [Caller -> Call]
          /\ \A d \in Caller : call'[d].pc # "idle" => call'[d].req # 0
          /\ call'[c] = q
          /\ \A d \in Caller : d # c => call'[d] = call[d]
      BY <3>2, <3>3, CallStep
    <3>5. sem = 0 /\ sem' = 1
      BY <2>3, <3>1 DEF SendFails, Return, Mutex
    <3>6. TypeOK'
      BY <2>3, <3>4, <3>5 DEF SendFails, Return, TypeOK
    <3>7. \A d \in Caller : ~Holds(d)'
      BY <3>1, <3>2, <3>4 DEF Holds, Mutex
    <3>8. QED BY <3>6, <3>7 DEF Mutex
  <2>4. ASSUME NEW c \in Caller, Send(c) \/ Wake(c) \/ Timeout(c) \/ Fail(c)
        PROVE  TypeInv'
    <3>1. PICK pc \in {"wait", "read", "timedout"} : Goto(c, pc)
      BY <2>4 DEF Send, Wake, Timeout, Fail
    <3>2. /\ call' \in [Caller -> Call]
          /\ \A d \in Caller : call'[d].pc # "idle" => call'[d].req # 0
          /\ call'[c].pc = pc
          /\ \A d \in Caller : d # c => call'[d] = call[d]
      BY <2>4, <3>1, GotoStep DEF CallPc, Send, Wake, Timeout, Fail
    <3>3. Holds(c) /\ call[c].req \in Req
      BY <2>4 DEF Send, Wake, Timeout, Fail, Holds, TypeOK, Call
    <3>4. sem' = sem
      BY <2>4 DEF Send, Wake, Timeout, Fail
    <3>5. Mutex'
      BY <3>2, <3>3, <3>4 DEF Mutex, Holds
    <3>6. /\ done' \in Nat /\ late' \in Nat /\ response' \in Status
          /\ inFlight' \subseteq Req
      BY <2>4, <3>3 DEF Send, Wake, Timeout, Fail, TypeOK, Status
    <3>7. UNCHANGED <<slot, issued, answer, soft>>
      BY <2>4 DEF Send, Wake, Timeout, Fail
    <3>8. QED BY <3>2, <3>4, <3>5, <3>6, <3>7 DEF TypeOK
  <2>5. ASSUME NEW r \in Req, NssLoses(r) PROVE TypeInv'
    BY <2>5 DEF NssLoses, TypeOK, Mutex, Holds
  <2>6. ASSUME NEW r \in Req, NEW a \in {"ack", "nack"}, NssAnswer(r, a) PROVE TypeInv'
    BY <2>6 DEF NssAnswer, TypeOK, Mutex, Holds
  <2>7. ASSUME NEW r \in Req, SoftTake(r) PROVE TypeInv'
    BY <2>7 DEF SoftTake, TypeOK, Soft, Mutex, Holds
  <2>8. CASE SoftRespond
    BY <2>8 DEF SoftRespond, TypeOK, Soft, Status, Verdict, Mutex, Holds
  <2>9. CASE SoftComplete
    BY <2>9 DEF SoftComplete, TypeOK, Soft, Quiet, Mutex, Holds
  <2>10. CASE UNCHANGED vars
    BY <2>10 DEF vars, TypeOK, Mutex, Holds
  <2>11. QED
    BY <2>1, <2>2, <2>3, <2>4, <2>5, <2>6, <2>7, <2>8, <2>9, <2>10
       DEF Next, InCall, WaitEnds, Answering
<1>3. QED BY <1>1, <1>2, PTL DEF Spec
(* The type invariant of the runs.                                         *)
COROLLARY SyncTypes == Spec => []TypeOK
<1>1. TypeInv => TypeOK
  BY DEF TypeInv
<1>2. QED BY <1>1, SyncTypeCorrect, PTL

-----------------------------------------------------------------------------
(* As long as no answer came late, the one message between down() and up() *)
(* is the only one anywhere, and where it is says what may be stored.      *)

NothingPending == inFlight = {} /\ soft = Quiet /\ done = 0
Answered(r) == answer[r] # "none"

(* Where the message of a waiting caller can be.                           *)
AtNss(r) == inFlight = {r} /\ soft = Quiet /\ done = 0 /\ slot = OwnCb(r)
InSoft(r) ==
  /\ inFlight = {} /\ done = 0 /\ Answered(r) /\ soft.req = r
  /\ soft.pc \in {"respond", "complete"}
  /\ soft.pc = "respond" => soft.cb = OwnCb(r)
  /\ soft.pc = "complete" => response = Verdict(r)
Completed(r) ==
  inFlight = {} /\ soft = Quiet /\ done = 1 /\ Answered(r) /\ response = Verdict(r)
Lost(r) == NothingPending /\ ~Answered(r)

HolderInv(c) ==
  LET r == call[c].req IN
  /\ call[c].pc = "send" => NothingPending /\ slot = OwnCb(r)
  /\ call[c].pc = "wait" => AtNss(r) \/ InSoft(r) \/ Completed(r) \/ Lost(r)
  /\ call[c].pc = "timedout" => Lost(r)
  /\ call[c].pc = "read" => NothingPending /\ response = Verdict(r)

Acknowledged(c) ==
  call[c].status = "success" => call[c].req # 0 /\ answer[call[c].req] = "ack"

Timely ==
  /\ late = 0 => \A c \in Caller : Acknowledged(c)
  /\ late = 0 /\ (\A c \in Caller : ~Holds(c)) => NothingPending
  /\ late = 0 => \A c \in Caller : HolderInv(c)

(* In a state where c holds the semaphore nobody else does.                *)
LEMMA HolderSuffices ==
  ASSUME TypeInv', NEW c \in Caller, Holds(c)', HolderInv(c)',
         \A d \in Caller : Acknowledged(d)'
  PROVE  Timely'
<1>1. \A d \in Caller : d # c => ~Holds(d)'
  BY DEF TypeInv, Mutex
<1>2. \A d \in Caller : d # c => HolderInv(d)'
  BY <1>1 DEF HolderInv, Holds
<1>3. QED BY <1>2 DEF Timely

LEMMA NoHolderSuffices ==
  ASSUME \A d \in Caller : ~Holds(d)', NothingPending',
         \A d \in Caller : Acknowledged(d)'
  PROVE  Timely'
BY DEF Timely, HolderInv, Holds

(* While something is on its way, somebody waits for it.                   *)
LEMMA SomebodyWaits ==
  ASSUME TypeInv, Timely, late = 0, ~NothingPending
  PROVE  \E c \in Caller :
           /\ call[c].pc = "wait" /\ call[c].req \in Req
           /\ LET r == call[c].req IN AtNss(r) \/ InSoft(r) \/ Completed(r)
<1>1. PICK c \in Caller : Holds(c)
  BY DEF Timely
<1>2. call[c].pc = "wait"
  BY <1>1 DEF Timely, Holds, HolderInv, Lost, NothingPending
<1>3. call[c].req \in Req
  BY <1>2 DEF TypeInv, TypeOK, Call
<1>4. QED BY <1>2, <1>3 DEF Timely, HolderInv, Lost

LEMMA TimelyStep ==
  ASSUME TypeInv, TypeInv', Timely, Next, late' = 0
  PROVE  Timely'
<1>0. Req \subseteq Nat /\ 0 \notin Req
  BY SyncAssumption DEF Req, SyncAssumption
<1>1. late = 0 /\ \A c \in Caller : Acknowledged(c)
  <2>1. late = 0
    <3>1. late \in Nat
      BY DEF TypeInv, TypeOK
    <3>2. late' = late \/ late' = late + 1
      BY DEF Next, Begin, InCall, Down, SendFails, Send, WaitEnds, Wake, Timeout,
         Fail, Return, NssLoses, NssAnswer, Answering, SoftTake, SoftRespond, SoftComplete
    <3>3. QED BY <3>1, <3>2
  <2>2. QED BY <2>1 DEF Timely
<1>2. ASSUME NEW c \in Caller, Begin(c) PROVE Timely'
  <2> DEFINE q == [pc |-> "down", req |-> issued + 1, status |-> "failure"]
  <2>1. call' = [call EXCEPT ![c] = q] /\ call \in [Caller -> Call]
    BY <1>2 DEF Begin, TypeInv, TypeOK
  <2>2. call'[c] = q /\ \A d \in Caller : d # c => call'[d] = call[d]
    BY <2>1
  <2>3. UNCHANGED <<sem, done, response, slot, inFlight, answer, soft, late>>
    BY <1>2 DEF Begin
  <2>4. \A d \in Caller : Acknowledged(d)'
    BY <1>1, <2>2, <2>3 DEF Acknowledged
  <2>5. \A d \in Caller : Holds(d)' <=> Holds(d)
    BY <1>2, <2>2 DEF Begin, Holds
  <2>6. \A d \in Caller : d # c => HolderInv(d)'
    BY <1>1, <2>2, <2>3 DEF Timely, HolderInv, AtNss, InSoft, Completed, Lost,
       NothingPending, Answered, Verdict
  <2>7. HolderInv(c)'
    BY <2>2 DEF HolderInv
  <2>8. QED
    BY <1>1, <2>3, <2>4, <2>5, <2>6, <2>7 DEF Timely, NothingPending
<1>3. ASSUME NEW c \in Caller, InCall(c) PROVE Timely'
  <2>1. call[c] \in Call /\ call[c].req \in Req /\ call[c].pc # "idle"
    BY <1>3 DEF InCall, Down, SendFails, Send, WaitEnds, Wake, Timeout, Fail, Return,
       TypeInv, TypeOK, Call
  <2>2. \A d \in Caller : d # c => call'[d] = call[d]
    BY <1>3 DEF InCall, Down, SendFails, Send, WaitEnds, Wake, Timeout, Fail, Return,
       TypeInv, TypeOK, Goto
  <2>3. answer' = answer
    BY <1>3 DEF InCall, Down, SendFails, Send, WaitEnds, Wake, Timeout, Fail, Return
  <2>4. ASSUME NEW pc \in CallPc, Goto(c, pc)
        PROVE  /\ call'[c].pc = pc /\ call'[c].req = call[c].req
               /\ \A d \in Caller : Acknowledged(d)'
    <3>1. call'[c].pc = pc /\ call'[c].req = call[c].req
          /\ call'[c].status = call[c].status
      BY <2>1, <2>4, GotoStep DEF TypeInv
    <3>2. QED BY <1>1, <2>2, <2>3, <3>1 DEF Acknowledged
  <2>5. CASE Down(c)
    <3>1. /\ call'[c].pc = "send" /\ call'[c].req = call[c].req
          /\ \A d \in Caller : Acknowledged(d)'
      BY <2>4, <2>5 DEF Down, CallPc
    <3>2. \A d \in Caller : ~Holds(d)
      BY <2>5 DEF Down, TypeInv, Mutex
    <3>3. NothingPending' /\ slot' = OwnCb(call[c].req)
      BY <1>1, <2>5, <3>2 DEF Timely, Down, NothingPending
    <3>4. HolderInv(c)' /\ Holds(c)'
      BY <3>1, <3>3 DEF HolderInv, Holds, OwnCb
    <3>5. QED BY <3>1, <3>4, HolderSuffices
  <2>6. CASE SendFails(c)
    <3>1. NothingPending' /\ Holds(c)
      BY <1>1, <2>6 DEF Timely, HolderInv, SendFails, NothingPending, Holds
    <3>2. call'[c].pc = "idle" /\ call'[c].status = "failure"
      BY <2>6 DEF SendFails, TypeInv, TypeOK, Call
    <3>3. \A d \in Caller : ~Holds(d)' /\ Acknowledged(d)'
      BY <1>1, <2>2, <2>3, <3>1, <3>2 DEF TypeInv, Mutex, Holds, Acknowledged
    <3>4. QED BY <3>1, <3>3, NoHolderSuffices
  <2>7. CASE Send(c)
    <3>1. /\ call'[c].pc = "wait" /\ call'[c].req = call[c].req
          /\ \A d \in Caller : Acknowledged(d)'
      BY <2>4, <2>7 DEF Send, CallPc
    <3>2. NothingPending /\ slot = OwnCb(call[c].req)
      BY <1>1, <2>7 DEF Timely, HolderInv, Send
    <3>3. HolderInv(c)' /\ Holds(c)'
      BY <2>7, <3>1, <3>2 DEF Send, HolderInv, Holds, AtNss, NothingPending, OwnCb
    <3>4. QED BY <3>1, <3>3, HolderSuffices
  <2>8. CASE Wake(c)
    <3>1. /\ call'[c].pc = "read" /\ call'[c].req = call[c].req
          /\ \A d \in Caller : Acknowledged(d)'
      BY <2>4, <2>8 DEF Wake, CallPc
    <3>2. Completed(call[c].req)
      BY <1>1, <2>8 DEF Timely, HolderInv, Wake, AtNss, InSoft, Lost, NothingPending
    <3>3. HolderInv(c)' /\ Holds(c)'
      BY <2>3, <2>8, <3>1, <3>2 DEF Wake, HolderInv, Holds, Completed, NothingPending,
         Verdict
    <3>4. QED BY <3>1, <3>3, HolderSuffices
  <2>9. CASE Timeout(c)
    <3>1. /\ call'[c].pc = "timedout" /\ call'[c].req = call[c].req
          /\ \A d \in Caller : Acknowledged(d)'
      BY <2>4, <2>9 DEF Timeout, CallPc
    <3>2. ~Unanswered(call[c].req)
      BY <1>1, <2>9 DEF Timeout
    <3>3. Lost(call[c].req)
      BY <1>1, <2>9, <3>2 DEF Timely, HolderInv, Timeout, AtNss, InSoft, Completed,
         Unanswered
    <3>4. HolderInv(c)' /\ Holds(c)'
      BY <2>9, <2>3, <3>1, <3>3 DEF Timeout, HolderInv, Holds, Lost, NothingPending,
         Answered
    <3>5. QED BY <3>1, <3>4, HolderSuffices
  <2>10. CASE Fail(c)
    <3>1. /\ call'[c].pc = "read" /\ call'[c].req = call[c].req
          /\ \A d \in Caller : Acknowledged(d)'
      BY <2>4, <2>10 DEF Fail, CallPc
    <3>2. Lost(call[c].req)
      BY <1>1, <2>10 DEF Timely, HolderInv, Fail
    <3>3. HolderInv(c)' /\ Holds(c)'
      BY <2>3, <2>10, <3>1, <3>2 DEF Fail, HolderInv, Holds, Lost, NothingPending,
         Answered, Verdict
    <3>4. QED BY <3>1, <3>3, HolderSuffices
  <2>11. CASE Return(c)
    <3>1. NothingPending' /\ response = Verdict(call[c].req) /\ Holds(c)
      BY <1>1, <2>11 DEF Timely, HolderInv, Return, NothingPending, Holds
    <3>2. /\ call'[c].pc = "idle" /\ call'[c].status = response
          /\ call'[c].req = call[c].req
      BY <2>11 DEF Return, TypeInv, TypeOK, Call
    <3>3. Acknowledged(c)'
      BY <1>0, <2>1, <2>3, <3>1, <3>2 DEF Acknowledged, Verdict
    <3>4. \A d \in Caller : ~Holds(d)' /\ Acknowledged(d)'
      BY <1>1, <2>2, <2>3, <3>1, <3>2, <3>3 DEF TypeInv, Mutex, Holds, Acknowledged
    <3>5. QED BY <3>1, <3>4, NoHolderSuffices
  <2>12. QED
    BY <1>3, <2>5, <2>6, <2>7, <2>8, <2>9, <2>10, <2>11 DEF InCall, WaitEnds
<1>4. ASSUME NEW r \in Req,
             NssLoses(r) \/ (\E a \in {"ack", "nack"} : NssAnswer(r, a)) \/ Answering
      PROVE  Timely'
  <2>1. ~NothingPending
    BY <1>4 DEF NssLoses, NssAnswer, Answering, SoftTake, SoftRespond, SoftComplete,
       NothingPending, Quiet
  <2>2. PICK c \in Caller :
           /\ call[c].pc = "wait" /\ call[c].req \in Req
           /\ LET q == call[c].req IN AtNss(q) \/ InSoft(q) \/ Completed(q)
    BY <1>1, <2>1, SomebodyWaits
  <2> DEFINE q == call[c].req
  <2>3. call' = call /\ Holds(c)'
    BY <1>4, <2>2 DEF NssLoses, NssAnswer, Answering, SoftTake, SoftRespond,
       SoftComplete, Holds
  <2>4. SUFFICES HolderInv(c)' /\ \A d \in Caller : Acknowledged(d)'
    BY <2>3, HolderSuffices
  <2>5. ASSUME answer' = answer PROVE \A d \in Caller : Acknowledged(d)'
    BY <1>1, <2>3, <2>5 DEF Acknowledged
  <2>6. CASE NssLoses(r)
    <3>1. AtNss(q) /\ r = q /\ answer[q] = "none" /\ answer' = answer
      BY <2>2, <2>6 DEF NssLoses, AtNss, InSoft, Completed
    <3>2. Lost(q)'
      BY <2>3, <2>6, <3>1 DEF NssLoses, AtNss, Lost, NothingPending, Answered
    <3>3. QED BY <2>2, <2>3, <2>5, <3>1, <3>2 DEF HolderInv
  <2>7. ASSUME NEW a \in {"ack", "nack"}, NssAnswer(r, a)
        PROVE  HolderInv(c)' /\ \A d \in Caller : Acknowledged(d)'
    <3>1. AtNss(q) /\ r = q /\ answer[r] = "none"
      BY <2>2, <2>7 DEF NssAnswer, AtNss, InSoft, Completed
    <3>2. AtNss(q)'
      BY <2>3, <2>7, <3>1 DEF NssAnswer, AtNss, OwnCb
    <3>3. \A d \in Caller : Acknowledged(d)'
      BY <1>1, <2>3, <2>7, <3>1 DEF Acknowledged, NssAnswer, TypeInv, TypeOK
    <3>4. QED BY <2>2, <2>3, <3>2, <3>3 DEF HolderInv
  <2>8. ASSUME NEW s \in Req, SoftTake(s)
        PROVE  HolderInv(c)' /\ \A d \in Caller : Acknowledged(d)'
    <3>1. AtNss(q) /\ s = q /\ answer' = answer
      BY <2>2, <2>8 DEF SoftTake, AtNss, InSoft, Completed
    <3>2. InSoft(q)'
      BY <2>3, <2>8, <3>1 DEF SoftTake, AtNss, InSoft, OwnCb, Answered
    <3>3. QED BY <2>2, <2>3, <2>5, <3>1, <3>2 DEF HolderInv
  <2>9. CASE SoftRespond
    <3>1. InSoft(q) /\ answer' = answer
      BY <2>2, <2>9 DEF SoftRespond, AtNss, InSoft, Completed, Quiet
    <3>2. soft'.pc = "complete" /\ soft'.req = q
      BY <2>9, <3>1 DEF SoftRespond, InSoft, TypeInv, TypeOK, Soft
    <3>3. InSoft(q)'
      BY <2>3, <2>9, <3>1, <3>2 DEF SoftRespond, InSoft, Answered, Verdict
    <3>4. QED BY <2>2, <2>3, <2>5, <3>1, <3>3 DEF HolderInv
  <2>10. CASE SoftComplete
    <3>1. InSoft(q) /\ soft.pc = "complete" /\ answer' = answer
      BY <2>2, <2>10 DEF SoftComplete, AtNss, InSoft, Completed, Quiet
    <3>2. Completed(q)'
      BY <2>3, <2>10, <3>1 DEF SoftComplete, InSoft, Completed, Answered, Verdict, Quiet
    <3>3. QED BY <2>2, <2>3, <2>5, <3>1, <3>2 DEF HolderInv
  <2>11. QED
    BY <1>4, <2>6, <2>7, <2>8, <2>9, <2>10 DEF Answering
<1>5. CASE Answering
  <2>1. ~NothingPending
    BY <1>5 DEF Answering, SoftTake, SoftRespond, SoftComplete, NothingPending, Quiet
  <2>2. PICK r \in Req : TRUE
    BY <1>1, <2>1, SomebodyWaits
  <2>3. QED BY <1>4, <1>5, <2>2
<1>6. QED
  BY <1>2, <1>3, <1>4, <1>5 DEF Next

LEMMA TimelyInvariant == Spec => [](TypeInv /\ Timely)
<1>1. Init => Timely
  BY DEF Init, Timely, HolderInv, Acknowledged, NothingPending, Holds
<1>2. TypeInv /\ TypeInv' /\ Timely /\ [Next]_vars => Timely'
  <2>1. ASSUME TypeInv, TypeInv', Timely, Next PROVE Timely'
    <3>1. CASE late' = 0
      BY <2>1, <3>1, TimelyStep
    <3>2. CASE late' # 0
      BY <3>2 DEF Timely
    <3>3. QED BY <3>1, <3>2
  <2>2. ASSUME Timely, UNCHANGED vars PROVE Timely'
    BY <2>2 DEF vars, Timely, HolderInv, Acknowledged, NothingPending, Holds, AtNss,
       InSoft, Completed, Lost, Answered, Verdict, OwnCb
  <2>3. QED BY <2>1, <2>2
<1>3. QED BY <1>1, <1>2, SyncTypeCorrect, PTL DEF Spec

(* The answer a caller gets, and the callback that runs with it, are those *)
(* of its own message as long as no answer came after its time limit.      *)
THEOREM AnswersMatch == Spec => [](OwnAnswer /\ CallbackIsOwn)
<1>1. TypeInv /\ Timely => OwnAnswer /\ CallbackIsOwn
  <2> SUFFICES ASSUME TypeInv, Timely, late = 0 PROVE OwnAnswer /\ CallbackIsOwn
    BY DEF OwnAnswer, CallbackIsOwn
  <2>1. OwnAnswer
    BY DEF OwnAnswer, Timely, Acknowledged, HolderInv
  <2>2. ASSUME soft.pc = "respond" PROVE soft.cb = OwnCb(soft.req)
    <3>1. ~NothingPending
      BY <2>2 DEF NothingPending, Quiet
    <3>2. PICK r \in Req : AtNss(r) \/ InSoft(r) \/ Completed(r)
      BY <3>1, SomebodyWaits
    <3>3. QED BY <2>2, <3>2 DEF AtNss, InSoft, Completed, Quiet
  <2>3. QED BY <2>1, <2>2 DEF CallbackIsOwn
<1>2. QED BY <1>1, TimelyInvariant, PTL

-----------------------------------------------------------------------------
(* How far the calls can fall behind the answers.                          *)

Strays == done + Cardinality(inFlight) + (IF soft.pc = "idle" THEN 0 ELSE 1)

(* A message that nobody will answer any more leaves its caller, as long   *)
(* as no completion is left for him, with late answers only.               *)
LostIsCounted ==
  \A c \in Waiting : ~Unanswered(call[c].req) /\ done = 0 => Strays <= late

StrayInv == StraysBounded /\ LostIsCounted /\ (soft.pc = "idle" => soft = Quiet)

LEMMA SetsFinite ==
  ASSUME TypeOK
  PROVE  /\ IsFiniteSet(inFlight) /\ Cardinality(inFlight) \in Nat
         /\ IsFiniteSet(Waiting) /\ Cardinality(Waiting) \in Nat
<1>1. IsFiniteSet(Req)
  BY FS_Interval, SyncAssumption DEF SyncAssumption, Req
<1>2. IsFiniteSet(inFlight) /\ IsFiniteSet(Waiting)
  BY <1>1, FS_Subset, SyncAssumption DEF TypeOK, Waiting, SyncAssumption
<1>3. QED BY <1>2, FS_CardinalityType

(* What a step of a caller does to the set of those who wait.              *)
LEMMA WaitingStep ==
  ASSUME TypeOK, NEW c \in Caller, \A d \in Caller : d # c => call'[d] = call[d]
  PROVE  Waiting' = IF call'[c].pc = "wait" THEN Waiting \cup {c} ELSE Waiting \ {c}
BY DEF Waiting

(* Nobody starts or stops waiting, and nothing is sent.                    *)
LEMMA QuietStep ==
  ASSUME TypeInv, StrayInv, Waiting' = Waiting, UNCHANGED <<done, inFlight, soft, late>>,
         \A c \in Waiting : call'[c] = call[c]
  PROVE  StrayInv'
<1>1. Strays' = Strays /\ \A c \in Waiting : Unanswered(call[c].req)' <=> Unanswered(call[c].req)
  BY DEF Strays, Unanswered
<1>2. QED BY <1>1 DEF StrayInv, StraysBounded, LostIsCounted, Strays

LEMMA StrayStep ==
  ASSUME TypeInv, TypeInv', StrayInv, Next
  PROVE  StrayInv'
<1>0. /\ IsFiniteSet(inFlight) /\ Cardinality(inFlight) \in Nat
      /\ IsFiniteSet(Waiting) /\ Cardinality(Waiting) \in Nat
      /\ done \in Nat /\ late \in Nat
  BY SetsFinite DEF TypeInv, TypeOK
<1>1. ASSUME NEW c \in Caller, Begin(c) \/ Down(c) \/ SendFails(c) \/ Fail(c) \/ Return(c)
      PROVE  StrayInv'
  <2>1. \A d \in Caller : d # c => call'[d] = call[d]
    BY <1>1 DEF Begin, Down, SendFails, Fail, Return, Goto, TypeInv, TypeOK
  <2>2. call[c].pc # "wait" /\ call'[c].pc # "wait"
    <3>1. call'[c].pc \in {"down", "idle", "send", "read"}
      BY <1>1 DEF Begin, Down, SendFails, Fail, Return, Goto, TypeInv, TypeOK, Call
    <3>2. QED BY <1>1, <3>1 DEF Begin, Down, SendFails, Fail, Return
  <2>3. Waiting' = Waiting
    BY <2>1, <2>2 DEF Waiting
  <2>4. UNCHANGED <<done, inFlight, soft, late>>
    BY <1>1 DEF Begin, Down, SendFails, Fail, Return
  <2>5. QED BY <2>1, <2>2, <2>3, <2>4, QuietStep DEF Waiting
<1>2. ASSUME NEW c \in Caller, Send(c) PROVE StrayInv'
  <2>1. c \notin Waiting /\ Waiting' = Waiting \cup {c} /\ call'[c].req = call[c].req
        /\ \A d \in Caller : d # c => call'[d] = call[d]
    BY <1>2 DEF Send, Goto, TypeInv, TypeOK, Call, Waiting
  <2>2. Cardinality(Waiting') = Cardinality(Waiting) + 1
    BY <1>0, <2>1, FS_AddElement
  <2>3. Cardinality(inFlight') <= Cardinality(inFlight) + 1 /\ Cardinality(inFlight') \in Nat
    <3> DEFINE r == call[c].req
    <3>1. inFlight' = inFlight \cup {r}
      BY <1>2 DEF Send
    <3>2. Cardinality(inFlight \cup {r}) =
            IF r \in inFlight THEN Cardinality(inFlight) ELSE Cardinality(inFlight) + 1
      BY <1>0, FS_AddElement
    <3>3. QED BY <1>0, <3>1, <3>2
  <2>4. StraysBounded'
    BY <1>0, <1>2, <2>2, <2>3 DEF Send, StrayInv, StraysBounded
  <2>5. ASSUME NEW d \in Waiting', ~Unanswered(call[d].req)', done' = 0
        PROVE  Strays' <= late'
    <3>1. d # c
      BY <1>2, <2>1, <2>5 DEF Send, Unanswered
    <3>2. Holds(c) /\ Holds(d)
      BY <1>2, <2>1, <2>5, <3>1 DEF Send, Holds, Waiting
    <3>3. QED BY <2>5, <3>1, <3>2 DEF TypeInv, Mutex, Waiting
  <2>6. QED BY <1>2, <2>4, <2>5 DEF Send, StrayInv, LostIsCounted
<1>3. ASSUME NEW c \in Caller, WaitEnds(c) PROVE StrayInv'
  <2>1. c \in Waiting /\ Waiting' = Waiting \ {c}
    BY <1>3 DEF WaitEnds, Wake, Timeout, Goto, TypeInv, TypeOK, Call, Waiting
  <2>2. Waiting' = {}
    BY <2>1 DEF TypeInv, Mutex, Waiting, Holds
  <2>3. Cardinality(Waiting) = 1 /\ Cardinality(Waiting') = 0
    BY <1>0, <2>1, <2>2, FS_RemoveElement, FS_EmptySet
  <2>4. LostIsCounted'
    BY <2>2 DEF LostIsCounted
  <2>5. CASE Wake(c)
    BY <1>0, <2>3, <2>4, <2>5 DEF Wake, StrayInv, StraysBounded
  <2>6. CASE Timeout(c)
    <3>1. CASE Unanswered(call[c].req)
      BY <1>0, <2>3, <2>4, <2>6, <3>1 DEF Timeout, StrayInv, StraysBounded
    <3>2. CASE ~Unanswered(call[c].req)
      <4>1. Strays <= late
        BY <2>1, <2>6, <3>2 DEF Timeout, StrayInv, LostIsCounted
      <4>2. QED BY <1>0, <2>3, <2>4, <2>6, <3>2, <4>1 DEF Timeout, StrayInv, StraysBounded, Strays
    <3>3. QED BY <3>1, <3>2
  <2>7. QED BY <1>3, <2>5, <2>6 DEF WaitEnds
<1>4. ASSUME NEW r \in Req, NssLoses(r) PROVE StrayInv'
  <2>1. Cardinality(inFlight') = Cardinality(inFlight) - 1
    BY <1>0, <1>4, FS_RemoveElement DEF NssLoses
  <2>2. Waiting' = Waiting /\ call' = call /\ Strays' = Strays - 1
    BY <1>0, <1>4, <2>1 DEF NssLoses, Waiting, Strays
  <2>3. StraysBounded' /\ Strays <= late + Cardinality(Waiting)
    BY <1>0, <1>4, <2>1, <2>2 DEF NssLoses, StrayInv, StraysBounded, Strays
  <2>4. ASSUME NEW c \in Waiting PROVE Strays' <= late'
    <3>1. Waiting = {c}
      BY DEF TypeInv, Mutex, Waiting, Holds
    <3>2. Cardinality(Waiting) = 1
      BY <3>1, FS_Singleton
    <3>3. QED BY <1>0, <1>4, <2>2, <2>3, <3>2 DEF NssLoses, Strays
  <2>5. QED BY <1>4, <2>2, <2>3, <2>4 DEF NssLoses, StrayInv, LostIsCounted
<1>5. ASSUME NEW r \in Req, NEW a \in {"ack", "nack"}, NssAnswer(r, a) PROVE StrayInv'
  BY <1>5, QuietStep DEF NssAnswer, Waiting
<1>6. ASSUME NEW r \in Req, SoftTake(r) PROVE StrayInv'
  <2>1. Cardinality(inFlight') = Cardinality(inFlight) - 1
    BY <1>0, <1>6, FS_RemoveElement DEF SoftTake
  <2>2. /\ Waiting' = Waiting /\ Strays' = Strays
        /\ UNCHANGED <<call, late, done>> /\ soft'.pc = "respond" /\ soft'.req = r
    BY <1>0, <1>6, <2>1 DEF SoftTake, Waiting, Strays
  <2>3. \A q : Unanswered(q) => Unanswered(q)' \/ soft.req = q
    BY <1>6, <2>2 DEF SoftTake, Unanswered
  <2>4. StraysBounded'
    BY <1>0, <2>1, <2>2, <1>6 DEF SoftTake, StrayInv, StraysBounded
  <2>5. soft.req = 0 /\ \A c \in Waiting : call[c].req # 0
    BY <1>6 DEF SoftTake, StrayInv, Quiet, Waiting, TypeInv, TypeOK
  <2>6. QED BY <2>2, <2>3, <2>4, <2>5 DEF StrayInv, LostIsCounted
<1>7. CASE SoftRespond
  <2>1. soft'.pc = "complete" /\ soft'.req = soft.req
    BY <1>7 DEF SoftRespond, TypeInv, TypeOK, Soft
  <2>2. /\ Waiting' = Waiting /\ Strays' = Strays /\ UNCHANGED <<call, late, done, inFlight>>
        /\ \A q : Unanswered(q)' <=> Unanswered(q)
    BY <1>7, <2>1 DEF SoftRespond, Waiting, Strays, Unanswered
  <2>3. StraysBounded'
    BY <1>7, <2>1, <2>2 DEF SoftRespond, StrayInv, StraysBounded
  <2>4. QED BY <2>1, <2>2, <2>3 DEF StrayInv, LostIsCounted, SoftRespond
<1>8. CASE SoftComplete
  <2>1. done' = done + 1 /\ done' # 0 /\ Waiting' = Waiting
    BY <1>0, <1>8 DEF SoftComplete, Waiting
  <2>2. StraysBounded'
    BY <1>0, <1>8, <2>1 DEF SoftComplete, Quiet, StrayInv, StraysBounded
  <2>3. QED BY <1>8, <2>1, <2>2 DEF SoftComplete, StrayInv, LostIsCounted
<1>9. QED
  BY <1>1, <1>2, <1>3, <1>4, <1>5, <1>6, <1>7, <1>8 DEF Next, InCall, Answering

LEMMA StrayInvariant == Spec => []StrayInv
<1>1. Init => StrayInv
  <2> SUFFICES ASSUME Init PROVE StrayInv
    OBVIOUS
  <2>1. Waiting = {} /\ inFlight = {} /\ Strays = 0 /\ late = 0
    BY FS_EmptySet DEF Init, Waiting, Quiet, Strays
  <2>2. QED
    BY <2>1, FS_EmptySet DEF Init, StrayInv, StraysBounded, LostIsCounted, Strays
<1>2. TypeInv /\ TypeInv' /\ StrayInv /\ [Next]_vars => StrayInv'
  <2>1. ASSUME TypeInv, StrayInv, UNCHANGED vars PROVE StrayInv'
    BY <2>1, QuietStep DEF vars, Waiting
  <2>2. QED BY <2>1, StrayStep
<1>3. QED BY <1>1, <1>2, SyncTypeCorrect, PTL DEF Spec

(* At any load, the completions and answers that are still to come exceed  *)
(* the callers who wait by no more than the time-outs that came too early. *)
THEOREM StraysCounted == Spec => []StraysBounded
<1>1. StrayInv => StraysBounded
  BY DEF StrayInv
<1>2. QED BY <1>1, StrayInvariant, PTL

-----------------------------------------------------------------------------
(* NssSysctl.                                                              *)

(* The handlers use the synchronous message as NssSyncMsg describes it.    *)
THEOREM SysctlIsSync == SysctlSpec => Spec
<1>1. SysctlInit => Init
  BY DEF SysctlInit
<1>2. [SysctlNext]_sysctlVars => [Next]_vars
  BY DEF SysctlNext, sysctlVars, sync, ModeSnapshot, ModeStore, ModeSend, ModeEnd,
     DscpSend, DscpEnd, NssDecides, SyncStep, Next
<1>3. QED BY <1>1, <1>2, PTL DEF SysctlSpec, Spec

-----------------------------------------------------------------------------
(* Messages not made yet are unknown to the NSS, no two callers have the   *)
(* same one, and a writer waits for a message that holds his value.        *)
Fresh == \A r \in Req : r > issued => answer[r] = "none" /\ r \notin inFlight
Distinct ==
  \A c, d \in Caller : call[c].req = call[d].req => c = d \/ call[c].req = 0
OwnMessage(c) ==
  /\ call[c].req <= issued
  /\ job[c].pc \in File => call[c].req \in Req /\ msg[call[c].req].kind = job[c].pc
  /\ job[c].pc = "dscp" => msg[call[c].req].val = job[c].new

MessageInv ==
  /\ SysctlTypeOK
  /\ Fresh
  /\ Distinct
  /\ \A c \in Caller : OwnMessage(c)

(* A new message: the ones before it and their writers are left alone.     *)
LEMMA NewMessage ==
  ASSUME MessageInv, NEW c \in Caller, Begin(c), NEW m \in Msg, NEW q \in Job,
         job' = [job EXCEPT ![c] = q], msg' = [msg EXCEPT ![issued + 1] = m]
  PROVE  /\ issued + 1 \in Req /\ msg' \in [Req -> Msg] /\ msg'[issued + 1] = m
         /\ call'[c].req = issued + 1 /\ call'[c].pc = "down" /\ issued' = issued + 1
         /\ job' \in [Caller -> Job] /\ job'[c] = q
         /\ answer' = answer /\ answer[issued + 1] = "none" /\ late' = late
         /\ Fresh' /\ Distinct'
         /\ \A d \in Caller : d # c =>
              /\ call'[d] = call[d] /\ job'[d] = job[d]
              /\ call[d].req \in Req => msg'[call[d].req] = msg[call[d].req]
              /\ OwnMessage(d)'
<1>1. issued + 1 \in Req /\ issued \in Nat /\ \A r \in Req : r \in Nat
  BY SyncAssumption DEF Begin, MessageInv, SysctlTypeOK, TypeOK, Req, SyncAssumption
<1>2. /\ msg' \in [Req -> Msg] /\ msg'[issued + 1] = m
      /\ \A r \in Req : r # issued + 1 => msg'[r] = msg[r]
  BY <1>1 DEF MessageInv, SysctlTypeOK
<1>3. /\ call'[c].req = issued + 1 /\ call'[c].pc = "down" /\ issued' = issued + 1
      /\ \A d \in Caller : d # c => call'[d] = call[d]
  BY DEF Begin, MessageInv, SysctlTypeOK, TypeOK
<1>4. /\ UNCHANGED <<answer, inFlight, late>>
      /\ job' \in [Caller -> Job] /\ job'[c] = q
      /\ \A d \in Caller : d # c => job'[d] = job[d]
  BY DEF Begin, MessageInv, SysctlTypeOK
<1>5. Fresh' /\ answer[issued + 1] = "none"
  <2>1. \A r \in Req : r > issued + 1 => r > issued
    BY <1>1
  <2>2. Fresh
    BY DEF MessageInv
  <2>3. QED BY <1>1, <1>3, <1>4, <2>1, <2>2 DEF Fresh
<1>6. \A d \in Caller : call[d].req \in Nat /\ call[d].req <= issued
  <2>1. \A d \in Caller : call[d].req \in Req \cup {0}
    BY DEF MessageInv, SysctlTypeOK, TypeOK, Call
  <2>2. QED BY <1>1, <2>1 DEF MessageInv, OwnMessage
<1>7. Distinct'
  <2>1. ASSUME NEW d \in Caller, NEW e \in Caller, call'[d].req = call'[e].req, d # e
        PROVE  call'[d].req = 0
    <3>1. d # c /\ e # c
      BY <1>1, <1>3, <1>6, <2>1
    <3>2. QED BY <1>3, <2>1, <3>1 DEF MessageInv, Distinct
  <2>2. QED BY <2>1 DEF Distinct
<1>8. ASSUME NEW d \in Caller, d # c
      PROVE  /\ call'[d] = call[d] /\ job'[d] = job[d]
             /\ call[d].req \in Req => msg'[call[d].req] = msg[call[d].req]
             /\ OwnMessage(d)'
  <2>1. call'[d] = call[d] /\ job'[d] = job[d]
    BY <1>3, <1>4, <1>8
  <2>2. call[d].req \in Req => msg'[call[d].req] = msg[call[d].req]
    BY <1>1, <1>2, <1>6
  <2>3. OwnMessage(d)'
    BY <1>1, <1>3, <1>6, <2>1, <2>2 DEF MessageInv, OwnMessage
  <2>4. QED BY <2>1, <2>2, <2>3
<1>9. QED BY <1>1, <1>2, <1>3, <1>4, <1>5, <1>7, <1>8

(* Inside a call nobody changes which message is his.                      *)
LEMMA CallKeepsReq ==
  ASSUME TypeOK, NEW c \in Caller, InCall(c)
  PROVE  \A d \in Caller : call'[d].req = call[d].req
<1>1. CASE SendFails(c) \/ Return(c)
  BY <1>1 DEF SendFails, Return, TypeOK, Call
<1>2. CASE \E pc \in CallPc : Goto(c, pc)
  BY <1>2 DEF Goto, TypeOK, Call
<1>3. QED
  BY <1>1, <1>2 DEF InCall, Down, Send, WaitEnds, Wake, Timeout, Fail, CallPc

LEMMA MessageInvariant == SysctlSpec => []MessageInv
<1>1. SysctlInit => MessageInv
  <2> SUFFICES ASSUME SysctlInit PROVE MessageInv
    OBVIOUS
  <2>1. Init
    BY DEF SysctlInit
  <2>2. TypeOK
    BY <2>1, InitTypes DEF TypeInv
  <2>3. SysctlTypeOK
    BY <2>2, SysctlAssumption DEF SysctlInit, SysctlTypeOK, Job, Msg, File, SysctlAssumption
  <2>4. Fresh /\ Distinct /\ \A c \in Caller : OwnMessage(c)
    BY <2>1 DEF Init, SysctlInit, Fresh, Distinct, OwnMessage, File
  <2>5. QED
    BY <2>3, <2>4 DEF MessageInv
<1>2. ASSUME TypeOK', MessageInv, [SysctlNext]_sysctlVars
      PROVE  MessageInv'
  <2> USE <1>2
  <2>0. SysctlTypeOK
    BY DEF MessageInv
  <2>1. ASSUME NEW c \in Caller, UNCHANGED <<sync, msg, firmware>>, NEW q \in Job,
               job' = [job EXCEPT ![c] = q], q.pc \notin File, modeHost' \in Value,
               mapHost' \in Value, overlap' \subseteq File
        PROVE  MessageInv'
    <3>1. UNCHANGED <<answer, inFlight, issued, late, call, msg, modeNss, mapNss>>
      BY <2>1 DEF sync, vars, firmware
    <3>2. /\ job' \in [Caller -> Job] /\ job'[c] = q
          /\ \A d \in Caller : d # c => job'[d] = job[d]
      BY <2>0, <2>1 DEF SysctlTypeOK
    <3>3. \A d \in Caller : OwnMessage(d)'
      BY <2>1, <3>1, <3>2 DEF MessageInv, OwnMessage, File
    <3>4. SysctlTypeOK'
      BY <2>0, <2>1, <3>1, <3>2 DEF SysctlTypeOK
    <3>5. QED BY <3>1, <3>3, <3>4 DEF MessageInv, Fresh, Distinct
  <2>2. ASSUME NEW c \in Caller, ModeSnapshot(c) \/ ModeStore(c) \/ ModeEnd(c) \/ DscpEnd(c)
        PROVE  MessageInv'
    <3>1. UNCHANGED <<sync, msg, firmware>> /\ modeHost' \in Value /\ mapHost' \in Value
      BY <2>0, <2>2 DEF ModeSnapshot, ModeStore, ModeEnd, DscpEnd, host, SysctlTypeOK, Job
    <3>2. overlap' \subseteq File
      BY <2>0, <2>2 DEF ModeSnapshot, ModeStore, ModeEnd, DscpEnd, Enters, SysctlTypeOK, File
    <3>3. CASE ModeSnapshot(c)
      <4>1. PICK v \in Value :
              job' = [job EXCEPT ![c] = [pc |-> "store", old |-> modeHost, new |-> v]]
        BY <3>3 DEF ModeSnapshot
      <4> DEFINE q == [pc |-> "store", old |-> modeHost, new |-> v]
      <4>2. q \in Job /\ q.pc \notin File
        BY <2>0 DEF SysctlTypeOK, Job, File
      <4>3. job' = [job EXCEPT ![c] = q]
        BY <4>1
      <4> HIDE DEF q
      <4>4. QED BY <2>1, <3>1, <3>2, <4>2, <4>3
    <3>4. CASE ModeStore(c) \/ ModeEnd(c) \/ DscpEnd(c)
      <4>1. PICK pc \in {"build", "idle"} : Becomes(c, pc)
        BY <3>4 DEF ModeStore, ModeEnd, DscpEnd
      <4> DEFINE q == [job[c] EXCEPT !.pc = pc]
      <4>2. q \in Job /\ q.pc \notin File
        BY <2>0 DEF SysctlTypeOK, Job, File
      <4>3. job' = [job EXCEPT ![c] = q]
        BY <4>1 DEF Becomes
      <4> HIDE DEF q
      <4>4. QED BY <2>1, <3>1, <3>2, <4>2, <4>3
    <3>5. QED BY <2>2, <3>3, <3>4
  <2>3. ASSUME NEW c \in Caller, ModeSend(c) \/ DscpSend(c) PROVE MessageInv'
    <3>1. PICK m \in Msg, q \in Job :
            /\ msg' = [msg EXCEPT ![issued + 1] = m] /\ job' = [job EXCEPT ![c] = q]
            /\ m.kind = q.pc
            /\ q.pc = "dscp" => m.val = q.new
      <4>1. CASE ModeSend(c)
        <5> DEFINE q == [job[c] EXCEPT !.pc = "mode"]
                   m == [kind |-> "mode", val |-> modeHost]
        <5>1. m \in Msg /\ q \in Job /\ q.pc = "mode" /\ m.kind = "mode"
          BY <2>0 DEF SysctlTypeOK, Msg, Job, File
        <5>2. job' = [job EXCEPT ![c] = q] /\ msg' = [msg EXCEPT ![issued + 1] = m]
          BY <4>1 DEF ModeSend, Becomes
        <5> HIDE DEF m, q
        <5>3. QED BY <5>1, <5>2
      <4>2. CASE DscpSend(c)
        <5>1. PICK v \in Value :
                /\ msg' = [msg EXCEPT ![issued + 1] = [kind |-> "dscp", val |-> v]]
                /\ job' = [job EXCEPT ![c] = [job[c] EXCEPT !.pc = "dscp", !.new = v]]
          BY <4>2 DEF DscpSend
        <5> DEFINE q == [job[c] EXCEPT !.pc = "dscp", !.new = v]
                   m == [kind |-> "dscp", val |-> v]
        <5>2. m \in Msg /\ q \in Job /\ q.pc = "dscp" /\ q.new = v
              /\ m.kind = "dscp" /\ m.val = v
          BY <2>0 DEF SysctlTypeOK, Msg, Job, File
        <5>3. job' = [job EXCEPT ![c] = q] /\ msg' = [msg EXCEPT ![issued + 1] = m]
          BY <5>1
        <5> HIDE DEF m, q
        <5>4. QED BY <5>2, <5>3
      <4>3. QED BY <2>3, <4>1, <4>2
    <3>2. Begin(c) /\ UNCHANGED <<modeHost, mapHost, modeNss, mapNss>>
      BY <2>3 DEF ModeSend, DscpSend, host, firmware
    <3>3. /\ issued + 1 \in Req /\ msg' \in [Req -> Msg] /\ msg'[issued + 1] = m
          /\ call'[c].req = issued + 1 /\ issued' = issued + 1
          /\ job' \in [Caller -> Job] /\ job'[c] = q
          /\ Fresh' /\ Distinct'
          /\ \A d \in Caller : d # c => OwnMessage(d)'
      BY <3>1, <3>2, NewMessage
    <3>4. issued' \in Nat /\ issued' <= issued'
      BY <3>3, SyncAssumption DEF SyncAssumption, Req
    <3>5. OwnMessage(c)'
      BY <3>1, <3>3, <3>4 DEF OwnMessage
    <3>6. overlap' \subseteq File
      BY <2>0, <2>3 DEF ModeSend, DscpSend, Enters, SysctlTypeOK, File
    <3>7. SysctlTypeOK'
      BY <2>0, <3>2, <3>3, <3>6 DEF SysctlTypeOK
    <3>8. QED BY <3>3, <3>5, <3>7 DEF MessageInv
  <2>4. ASSUME NEW r \in Req, NEW a \in {"ack", "nack"}, NssDecides(r, a)
        PROVE  MessageInv'
    <3>1. UNCHANGED <<job, host, msg, overlap, issued, inFlight, call>>
      BY <2>4 DEF NssDecides, NssAnswer
    <3>2. r \in inFlight /\ answer' = [answer EXCEPT ![r] = a]
      BY <2>4 DEF NssDecides, NssAnswer
    <3>3. Fresh'
      BY <2>0, <3>1, <3>2 DEF MessageInv, Fresh, SysctlTypeOK, TypeOK
    <3>4. SysctlTypeOK'
      BY <2>0, <2>4, <3>1 DEF SysctlTypeOK, NssDecides, host, Msg
    <3>5. QED BY <3>1, <3>3, <3>4 DEF MessageInv, OwnMessage, Distinct
  <2>5. CASE SyncStep
    <3>1. UNCHANGED <<job, host, firmware, msg, overlap, answer, issued>>
      BY <2>5 DEF SyncStep, InCall, Down, SendFails, Send, WaitEnds, Wake, Timeout, Fail,
         Return, NssLoses, Answering, SoftTake, SoftRespond, SoftComplete
    <3>2. \A c \in Caller : call'[c].req = call[c].req
      <4>1. CASE call' = call
        BY <4>1
      <4>2. ASSUME NEW c \in Caller, InCall(c)
            PROVE  \A d \in Caller : call'[d].req = call[d].req
        BY <2>0, <4>2, CallKeepsReq DEF SysctlTypeOK
      <4>3. QED
        BY <2>5, <4>1, <4>2 DEF SyncStep, NssLoses, Answering, SoftTake, SoftRespond,
           SoftComplete
    <3>3. Fresh'
      <4>1. inFlight' \subseteq inFlight \cup {call[c].req : c \in Caller}
        BY <2>5 DEF SyncStep, InCall, Down, SendFails, Send, WaitEnds, Wake, Timeout,
           Fail, Return, NssLoses, Answering, SoftTake, SoftRespond, SoftComplete
      <4>2. \A c \in Caller : call[c].req <= issued
        BY DEF MessageInv, OwnMessage
      <4>3. \A c \in Caller : call[c].req \in Nat
        BY <2>0, SyncAssumption DEF SysctlTypeOK, TypeOK, Call, Req, SyncAssumption
      <4>4. issued \in Nat /\ Req \subseteq Nat
        BY <2>0, SyncAssumption DEF SysctlTypeOK, TypeOK, Req, SyncAssumption
      <4>5. QED BY <3>1, <4>1, <4>2, <4>3, <4>4 DEF MessageInv, Fresh
    <3>4. SysctlTypeOK'
      BY <2>0, <3>1 DEF SysctlTypeOK, host, firmware
    <3>5. QED BY <3>1, <3>2, <3>3, <3>4 DEF MessageInv, OwnMessage, Distinct
  <2>6. CASE UNCHANGED sysctlVars
    BY <2>0, <2>6 DEF sysctlVars, sync, vars, host, firmware, MessageInv, SysctlTypeOK,
       Fresh, Distinct, OwnMessage
  <2>7. QED
    BY <2>2, <2>3, <2>4, <2>5, <2>6 DEF SysctlNext
<1>3. QED
  BY <1>1, <1>2, SysctlIsSync, SyncTypes, PTL DEF SysctlSpec

(* Types of the handlers.                                                  *)
THEOREM SysctlTypes == SysctlSpec => []SysctlTypeOK
<1>1. MessageInv => SysctlTypeOK
  BY DEF MessageInv
<1>2. QED BY <1>1, MessageInvariant, PTL

(* While no answer is late and no two writers of a file overlap, its two   *)
(* copies differ only by what the writer in its handler has written or the *)
(* NSS has applied of his message.                                         *)
Sent(c) == call[c].req
Applied(c) == answer[Sent(c)] = "ack"

CallInv(c) ==
  /\ job[c].pc \notin File => call[c].pc = "idle"
  /\ job[c].pc \in File =>
       /\ call[c].pc \in {"down", "send"} => answer[Sent(c)] = "none"
       /\ call[c].pc = "idle" => (call[c].status = "success" <=> Applied(c))

MapInv == "dscp" \notin overlap =>
  /\ \A c, d \in DscpWriters : c = d
  /\ DscpWriters = {} => mapHost = mapNss
  /\ \A c \in DscpWriters : mapNss = IF Applied(c) THEN job[c].new ELSE mapHost

ModeOf(c) ==
  /\ job[c].pc = "store" => modeHost = modeNss /\ job[c].old = modeHost
  /\ job[c].pc = "build" => modeNss = job[c].old
  /\ job[c].pc = "mode" =>
       /\ msg[Sent(c)].val = modeHost
       /\ modeNss = IF Applied(c) THEN modeHost ELSE job[c].old

ModeInv == "mode" \notin overlap =>
  /\ \A c, d \in ModeWriters : c = d
  /\ ModeWriters = {} => modeHost = modeNss
  /\ \A c \in Caller : ModeOf(c)

HostInv == late = 0 => (\A c \in Caller : CallInv(c)) /\ MapInv /\ ModeInv

(* Steps that a file does not notice.                                      *)
LEMMA MapKept ==
  ASSUME MapInv, UNCHANGED <<mapHost, mapNss>>, "dscp" \in overlap => "dscp" \in overlap',
         \A c \in Caller :
           /\ job'[c].pc = "dscp" <=> job[c].pc = "dscp"
           /\ job[c].pc = "dscp" => job'[c].new = job[c].new /\ Applied(c)' = Applied(c)
  PROVE  MapInv'
<1>1. DscpWriters' = DscpWriters
  BY DEF DscpWriters
<1>2. \A c \in DscpWriters : job'[c].new = job[c].new /\ Applied(c)' = Applied(c)
  BY DEF DscpWriters
<1> HIDE DEF DscpWriters
<1>3. QED BY <1>1, <1>2 DEF MapInv

LEMMA ModeKept ==
  ASSUME ModeInv, UNCHANGED <<modeHost, modeNss>>, "mode" \in overlap => "mode" \in overlap',
         \A c \in Caller :
           \/ /\ job'[c] = job[c] /\ Applied(c)' = Applied(c)
              /\ job[c].pc = "mode" => msg'[Sent(c)'].val = msg[Sent(c)].val
           \/ /\ job[c].pc \notin {"store", "build", "mode"}
              /\ job'[c].pc \notin {"store", "build", "mode"}
  PROVE  ModeInv'
<1>1. ModeWriters' = ModeWriters
  BY DEF ModeWriters
<1>2. ASSUME NEW c \in Caller, ModeOf(c) PROVE ModeOf(c)'
  BY <1>2 DEF ModeOf
<1> HIDE DEF ModeWriters
<1>3. QED BY <1>1, <1>2 DEF ModeInv

(* Inside a call verdicts and contents stay, and the call ends with its    *)
(* own answer.                                                             *)
LEMMA CallInvStep ==
  ASSUME TypeInv, Timely, SysctlTypeOK, late = 0, NEW c \in Caller, InCall(c),
         \A d \in Caller : CallInv(d), UNCHANGED job
  PROVE  /\ answer' = answer /\ \A d \in Caller : Sent(d)' = Sent(d)
         /\ \A d \in Caller : CallInv(d)'
<1>1. answer' = answer /\ \A d \in Caller : Sent(d)' = Sent(d)
  BY CallKeepsReq DEF InCall, Down, SendFails, Send, WaitEnds, Wake, Timeout, Fail, Return,
     TypeInv, Sent
<1>2. Applied(c)' = Applied(c) /\ call[c].pc # "idle" /\ call[c] \in Call
  BY <1>1 DEF Applied, InCall, Down, SendFails, Send, WaitEnds, Wake, Timeout, Fail, Return,
     TypeInv, TypeOK
<1>3. job[c].pc \in File
  BY <1>2 DEF CallInv
<1>4. \/ Down(c) /\ call'[c].pc = "send"
      \/ (SendFails(c) \/ Return(c)) /\ call'[c].pc = "idle"
      \/ call'[c].pc \in {"wait", "read", "timedout"}
  <2>1. CASE SendFails(c) \/ Return(c)
    BY <1>2, <2>1 DEF SendFails, Return, TypeInv, TypeOK, Call
  <2>2. ASSUME NEW pc \in CallPc, Goto(c, pc) PROVE call'[c].pc = pc
    BY <1>2, <2>2, GotoStep DEF TypeInv
  <2>3. QED
    BY <2>1, <2>2 DEF InCall, Down, Send, WaitEnds, Wake, Timeout, Fail, CallPc
<1>5. call'[c].pc \in {"down", "send"} => answer[Sent(c)] = "none"
  <2>1. call'[c].pc \in {"down", "send"} => Down(c)
    BY <1>4
  <2>2. QED BY <1>3, <2>1 DEF Down, CallInv
<1>6. call'[c].pc = "idle" => (call'[c].status = "success" <=> Applied(c))
  <2>1. call'[c].pc = "idle" => SendFails(c) \/ Return(c)
    BY <1>4
  <2>2. CASE SendFails(c)
    <3>1. answer[Sent(c)] = "none" /\ call'[c].status = "failure"
      BY <1>2, <1>3, <2>2 DEF SendFails, CallInv, TypeInv, TypeOK, Call
    <3>2. QED BY <3>1 DEF Applied
  <2>3. CASE Return(c)
    <3>1. response = Verdict(Sent(c)) /\ call'[c].status = response
      BY <1>2, <2>3 DEF Return, Timely, HolderInv, Sent, TypeInv, TypeOK, Call
    <3>2. QED BY <3>1 DEF Applied, Verdict
  <2>4. QED BY <2>1, <2>2, <2>3
<1>7. CallInv(c)'
  BY <1>1, <1>2, <1>3, <1>5, <1>6 DEF CallInv
<1>8. ASSUME NEW d \in Caller, d # c PROVE CallInv(d)'
  <2>1. call'[d] = call[d]
    BY <1>8 DEF InCall, Down, SendFails, Send, WaitEnds, Wake, Timeout, Fail, Return, Goto,
       TypeInv, TypeOK
  <2>2. QED BY <1>1, <2>1 DEF CallInv, Applied, Sent
<1>9. QED BY <1>1, <1>7, <1>8

(* The NSS decides on the message of the one caller who waits.             *)
LEMMA DecidedIsSent ==
  ASSUME TypeInv, Timely, MessageInv, late = 0, \A d \in Caller : CallInv(d),
         NEW r \in Req, NEW a \in {"ack", "nack"}, NssDecides(r, a)
  PROVE  \E c \in Caller :
           /\ Sent(c) = r /\ call[c].pc = "wait" /\ job[c].pc \in File
           /\ msg[r].kind = job[c].pc /\ (job[c].pc = "dscp" => msg[r].val = job[c].new)
           /\ ~Applied(c) /\ (Applied(c)' <=> a = "ack")
           /\ \A d \in Caller : d # c => Applied(d)' = Applied(d)
<1>1. r \in inFlight /\ answer[r] = "none" /\ answer' = [answer EXCEPT ![r] = a]
      /\ UNCHANGED call /\ answer \in [Req -> {"none", "ack", "nack"}]
  BY DEF NssDecides, NssAnswer, TypeInv, TypeOK
<1>2. PICK c \in Caller :
        /\ call[c].pc = "wait" /\ call[c].req \in Req
        /\ AtNss(call[c].req) \/ InSoft(call[c].req) \/ Completed(call[c].req)
  BY <1>1, SomebodyWaits DEF NothingPending
<1>3. r = Sent(c)
  BY <1>1, <1>2 DEF AtNss, InSoft, Completed, Sent
<1>4. job[c].pc \in File
  BY <1>2 DEF CallInv
<1>5. msg[r].kind = job[c].pc /\ (job[c].pc = "dscp" => msg[r].val = job[c].new)
  BY <1>3, <1>4 DEF MessageInv, OwnMessage, Sent
<1>6. ~Applied(c) /\ (Applied(c)' <=> a = "ack")
  BY <1>1, <1>3 DEF Applied, Sent
<1>7. ASSUME NEW d \in Caller, d # c PROVE Applied(d)' = Applied(d)
  <2>1. Sent(d) # r
    <3>1. r # 0
      BY SyncAssumption DEF Req, SyncAssumption
    <3>2. QED BY <1>3, <1>7, <3>1 DEF MessageInv, Distinct, Sent
  <2>2. Sent(d)' = Sent(d) /\ answer'[Sent(d)] = answer[Sent(d)]
    BY <1>1, <2>1 DEF Sent
  <2>3. QED BY <2>2 DEF Applied
<1>8. QED BY <1>2, <1>3, <1>4, <1>5, <1>6, <1>7

(* A step of the handlers themselves that sends nothing.                   *)
LEMMA HandlerKeeps ==
  ASSUME SysctlTypeOK, UNCHANGED <<sync, msg>>
  PROVE  /\ UNCHANGED <<call, answer>>
         /\ \A d \in Caller : /\ Applied(d)' = Applied(d) /\ Sent(d)' = Sent(d)
                              /\ msg'[Sent(d)'] = msg[Sent(d)]
BY DEF sync, vars, Applied, Sent

LEMMA HostStep ==
  ASSUME TypeInv, Timely, MessageInv, HostInv, SysctlNext, late' = 0
  PROVE  HostInv'
<1>0. SysctlTypeOK /\ job \in [Caller -> Job] /\ File = {"mode", "dscp"}
  BY DEF MessageInv, SysctlTypeOK, File
<1>1. late = 0 /\ (\A c \in Caller : CallInv(c)) /\ MapInv /\ ModeInv
  <2>1. late \in Nat
    BY DEF TypeInv, TypeOK
  <2>2. late' = late \/ late' = late + 1
    BY DEF SysctlNext, sync, vars, ModeSnapshot, ModeStore, ModeSend, ModeEnd, DscpSend, DscpEnd,
       NssDecides, SyncStep, Begin, InCall, Down, SendFails, Send, WaitEnds, Wake, Timeout,
       Fail, Return, NssLoses, NssAnswer, Answering, SoftTake, SoftRespond, SoftComplete
  <2>3. late = 0
    BY <2>1, <2>2
  <2>4. QED BY <2>3 DEF HostInv
<1>2. ASSUME NEW c \in Caller, ModeSnapshot(c) PROVE HostInv'
  <2>1. PICK v \in Value :
          job' = [job EXCEPT ![c] = [pc |-> "store", old |-> modeHost, new |-> v]]
    BY <1>2 DEF ModeSnapshot
  <2>2. /\ job'[c] = [pc |-> "store", old |-> modeHost, new |-> v]
        /\ \A d \in Caller : d # c => job'[d] = job[d]
    BY <1>0, <2>1
  <2>3. UNCHANGED <<sync, msg, modeHost, mapHost, modeNss, mapNss>> /\ job[c].pc = "idle"
        /\ Enters("mode", ModeWriters)
    BY <1>2 DEF ModeSnapshot, host, firmware
  <2>4. /\ UNCHANGED <<call, answer>>
        /\ \A d \in Caller : /\ Applied(d)' = Applied(d) /\ Sent(d)' = Sent(d)
                             /\ msg'[Sent(d)'] = msg[Sent(d)]
    BY <1>0, <2>3, HandlerKeeps
  <2>5. \A d \in Caller : CallInv(d)'
    BY <1>0, <1>1, <2>2, <2>3, <2>4 DEF CallInv
  <2>6. MapInv'
    BY <1>1, <2>2, <2>3, <2>4, MapKept DEF Enters
  <2>7. ASSUME "mode" \notin overlap'
        PROVE  /\ \A d, e \in ModeWriters' : d = e
               /\ ModeWriters' = {} => modeHost' = modeNss'
               /\ \A d \in Caller : ModeOf(d)'
    <3>1. ModeWriters = {} /\ "mode" \notin overlap
      BY <2>3, <2>7 DEF Enters
    <3>2. modeHost = modeNss
      BY <1>1, <3>1 DEF ModeInv
    <3>3. ModeWriters' = {c}
      BY <2>2, <3>1 DEF ModeWriters
    <3>4. ASSUME NEW d \in Caller PROVE ModeOf(d)'
      <4>1. d # c => job'[d].pc \notin {"store", "build", "mode"}
        BY <2>2, <3>1 DEF ModeWriters
      <4>2. QED BY <2>2, <2>3, <3>2, <4>1 DEF ModeOf
    <3>5. QED BY <3>3, <3>4
  <2>8. ModeInv'
    BY <2>7 DEF ModeInv
  <2>9. QED BY <2>5, <2>6, <2>8 DEF HostInv
<1>3. ASSUME NEW c \in Caller, ModeStore(c) \/ ModeEnd(c) PROVE HostInv'
  <2>1. UNCHANGED <<sync, msg, mapHost, modeNss, mapNss, overlap>>
    BY <1>3 DEF ModeStore, ModeEnd, firmware
  <2>2. /\ UNCHANGED <<call, answer>>
        /\ \A d \in Caller : /\ Applied(d)' = Applied(d) /\ Sent(d)' = Sent(d)
                             /\ msg'[Sent(d)'] = msg[Sent(d)]
    BY <1>0, <2>1, HandlerKeeps
  <2>3. /\ job'[c].pc = (IF ModeStore(c) THEN "build" ELSE "idle")
        /\ job'[c].old = job[c].old /\ job'[c].new = job[c].new
        /\ \A d \in Caller : d # c => job'[d] = job[d]
        /\ job[c].pc = (IF ModeStore(c) THEN "store" ELSE "mode")
    BY <1>0, <1>3 DEF ModeStore, ModeEnd, Becomes, Job
  <2>4. \A d \in Caller : CallInv(d)'
    <3>1. call[c].pc = "idle"
      BY <1>0, <1>1, <1>3, <2>3 DEF CallInv, ModeStore, ModeEnd, Returned
    <3>2. QED BY <1>0, <1>1, <2>2, <2>3, <3>1 DEF CallInv
  <2>5. MapInv'
    BY <1>1, <2>1, <2>2, <2>3, MapKept
  <2>6. ASSUME "mode" \notin overlap'
        PROVE  /\ \A d, e \in ModeWriters' : d = e
               /\ ModeWriters' = {} => modeHost' = modeNss'
               /\ \A d \in Caller : ModeOf(d)'
    <3>1. /\ \A d, e \in ModeWriters : d = e
          /\ ModeOf(c)
      BY <1>1, <2>1, <2>6 DEF ModeInv
    <3>2. ModeWriters = {c}
      BY <2>3, <3>1 DEF ModeWriters
    <3>3. \A d \in Caller : d # c => job'[d].pc \notin {"store", "build", "mode"}
      BY <2>3, <3>2 DEF ModeWriters
    <3>4. CASE ModeStore(c)
      <4>1. ModeWriters' = {c}
        BY <2>3, <3>3, <3>4 DEF ModeWriters
      <4>2. modeNss' = job'[c].old
        BY <2>1, <2>3, <3>1, <3>4 DEF ModeOf
      <4>3. \A d \in Caller : ModeOf(d)'
        BY <2>3, <3>3, <3>4, <4>2 DEF ModeOf
      <4>4. QED BY <4>1, <4>3
    <3>5. CASE ~ModeStore(c)
      <4>1. ModeWriters' = {}
        BY <2>3, <3>3, <3>5 DEF ModeWriters
      <4>2. modeHost' = modeNss
        <5>1. call[c].status = "success" <=> Applied(c)
          BY <1>0, <1>1, <1>3, <2>3, <3>5 DEF CallInv, ModeEnd, Returned
        <5>2. QED BY <1>3, <2>3, <3>1, <3>5, <5>1 DEF ModeEnd, ModeOf
      <4>3. \A d \in Caller : ModeOf(d)'
        BY <2>3, <3>3, <3>5 DEF ModeOf
      <4>4. QED BY <2>1, <4>1, <4>2, <4>3
    <3>6. QED BY <3>4, <3>5
  <2>7. ModeInv'
    BY <2>6 DEF ModeInv
  <2>8. QED BY <2>4, <2>5, <2>7 DEF HostInv
<1>4. ASSUME NEW c \in Caller, ModeSend(c) PROVE HostInv'
  <2> DEFINE m == [kind |-> "mode", val |-> modeHost]
             q == [job[c] EXCEPT !.pc = "mode"]
  <2>1. /\ m \in Msg /\ m.val = modeHost /\ q \in Job /\ q.pc = "mode" /\ q.old = job[c].old
        /\ msg' = [msg EXCEPT ![issued + 1] = m] /\ job' = [job EXCEPT ![c] = q]
        /\ Begin(c) /\ job[c].pc = "build"
    BY <1>0, <1>4 DEF ModeSend, Msg, SysctlTypeOK, Becomes, Job
  <2> HIDE DEF m, q
  <2>2. /\ issued + 1 \in Req /\ msg'[issued + 1] = m
        /\ call'[c].req = issued + 1 /\ call'[c].pc = "down"
        /\ job'[c] = q /\ answer' = answer /\ answer[issued + 1] = "none"
        /\ \A d \in Caller : d # c =>
             /\ call'[d] = call[d] /\ job'[d] = job[d]
             /\ call[d].req \in Req => msg'[call[d].req] = msg[call[d].req]
    BY <2>1, NewMessage
  <2>3. UNCHANGED <<modeHost, mapHost, modeNss, mapNss, overlap>>
    BY <1>4 DEF ModeSend, host, firmware
  <2>4. \A d \in Caller : d # c => Applied(d)' = Applied(d) /\ Sent(d)' = Sent(d)
    BY <2>2 DEF Applied, Sent
  <2>5. ~Applied(c)' /\ Sent(c)' = issued + 1
    BY <2>2 DEF Applied, Sent
  <2>6. \A d \in Caller : CallInv(d)'
    <3>1. CallInv(c)'
      BY <1>0, <2>1, <2>2 DEF CallInv, Sent
    <3>2. ASSUME NEW d \in Caller, d # c PROVE CallInv(d)'
      BY <1>1, <2>2, <2>4, <3>2 DEF CallInv
    <3>3. QED BY <3>1, <3>2
  <2>7. MapInv'
    <3>1. job'[c].pc # "dscp" /\ job[c].pc # "dscp"
      BY <2>1, <2>2
    <3>2. \A d \in Caller :
           /\ job'[d].pc = "dscp" <=> job[d].pc = "dscp"
           /\ job[d].pc = "dscp" => job'[d].new = job[d].new /\ Applied(d)' = Applied(d)
      BY <2>2, <2>4, <3>1
    <3>3. QED BY <1>1, <2>3, <3>2, MapKept
  <2>8. ASSUME "mode" \notin overlap'
        PROVE  /\ \A d, e \in ModeWriters' : d = e
               /\ ModeWriters' = {} => modeHost' = modeNss'
               /\ \A d \in Caller : ModeOf(d)'
    <3>1. /\ \A d, e \in ModeWriters : d = e
          /\ ModeOf(c)
      BY <1>1, <2>3, <2>8 DEF ModeInv
    <3>2. ModeWriters = {c}
      BY <2>1, <3>1 DEF ModeWriters
    <3>3. \A d \in Caller : d # c => job'[d].pc \notin {"store", "build", "mode"}
      BY <2>2, <3>2 DEF ModeWriters
    <3>4. ModeWriters' = {c}
      BY <2>1, <2>2, <3>3 DEF ModeWriters
    <3>5. ModeOf(c)'
      BY <2>1, <2>2, <2>3, <2>5, <3>1 DEF ModeOf
    <3>6. \A d \in Caller : d # c => ModeOf(d)'
      BY <3>3 DEF ModeOf
    <3>7. QED BY <3>4, <3>5, <3>6
  <2>9. ModeInv'
    BY <2>8 DEF ModeInv
  <2>10. QED BY <2>6, <2>7, <2>9 DEF HostInv
<1>5. ASSUME NEW c \in Caller, DscpSend(c) PROVE HostInv'
  <2>1. PICK v \in Value :
          /\ msg' = [msg EXCEPT ![issued + 1] = [kind |-> "dscp", val |-> v]]
          /\ job' = [job EXCEPT ![c] = [job[c] EXCEPT !.pc = "dscp", !.new = v]]
    BY <1>5 DEF DscpSend
  <2> DEFINE m == [kind |-> "dscp", val |-> v]
             q == [job[c] EXCEPT !.pc = "dscp", !.new = v]
  <2>2. /\ m \in Msg /\ q \in Job /\ q.pc = "dscp" /\ q.new = v
        /\ Begin(c) /\ job[c].pc = "idle" /\ Enters("dscp", DscpWriters)
    BY <1>0, <1>5 DEF DscpSend, Msg, File, Job
  <2>3. msg' = [msg EXCEPT ![issued + 1] = m] /\ job' = [job EXCEPT ![c] = q]
    BY <2>1
  <2> HIDE DEF m, q
  <2>4. /\ issued + 1 \in Req
        /\ call'[c].req = issued + 1 /\ call'[c].pc = "down"
        /\ job'[c] = q /\ answer' = answer /\ answer[issued + 1] = "none"
        /\ \A d \in Caller : d # c =>
             /\ call'[d] = call[d] /\ job'[d] = job[d]
             /\ call[d].req \in Req => msg'[call[d].req] = msg[call[d].req]
    BY <2>2, <2>3, NewMessage
  <2>5. UNCHANGED <<modeHost, mapHost, modeNss, mapNss>>
    BY <1>5 DEF DscpSend, host, firmware
  <2>6. \A d \in Caller : d # c => Applied(d)' = Applied(d) /\ Sent(d)' = Sent(d)
    BY <2>4 DEF Applied, Sent
  <2>7. ~Applied(c)'
    BY <2>4 DEF Applied, Sent
  <2>8. \A d \in Caller : CallInv(d)'
    <3>1. CallInv(c)'
      BY <1>0, <2>2, <2>4 DEF CallInv, Sent
    <3>2. ASSUME NEW d \in Caller, d # c PROVE CallInv(d)'
      BY <1>1, <2>4, <2>6, <3>2 DEF CallInv
    <3>3. QED BY <3>1, <3>2
  <2>9. ModeInv'
    <3>1. ASSUME NEW d \in Caller, d # c, job[d].pc = "mode"
          PROVE  msg'[Sent(d)'].val = msg[Sent(d)].val
      <4>1. Sent(d) \in Req
        BY <1>0, <3>1 DEF MessageInv, OwnMessage, Sent
      <4>2. QED BY <2>4, <2>6, <3>1, <4>1 DEF Sent
    <3>2. "mode" \in overlap => "mode" \in overlap'
      BY <2>2 DEF Enters
    <3>3. \A d \in Caller :
           \/ /\ job'[d] = job[d] /\ Applied(d)' = Applied(d)
              /\ job[d].pc = "mode" => msg'[Sent(d)'].val = msg[Sent(d)].val
           \/ /\ job[d].pc \notin {"store", "build", "mode"}
              /\ job'[d].pc \notin {"store", "build", "mode"}
      BY <2>2, <2>4, <2>6, <3>1
    <3>4. QED BY <1>1, <2>5, <3>2, <3>3, ModeKept
  <2>10. ASSUME "dscp" \notin overlap'
         PROVE  /\ \A d, e \in DscpWriters' : d = e
                /\ DscpWriters' = {} => mapHost' = mapNss'
                /\ \A d \in DscpWriters' :
                      mapNss' = IF Applied(d)' THEN job'[d].new ELSE mapHost'
    <3>1. DscpWriters = {} /\ "dscp" \notin overlap
      BY <2>2, <2>10 DEF Enters
    <3>2. mapHost = mapNss
      BY <1>1, <3>1 DEF MapInv
    <3>3. DscpWriters' = {c}
      BY <2>2, <2>4, <3>1 DEF DscpWriters
    <3>4. QED BY <2>5, <2>7, <3>2, <3>3
  <2>11. MapInv'
    BY <2>10 DEF MapInv
  <2>12. QED BY <2>8, <2>9, <2>11 DEF HostInv
<1>6. ASSUME NEW c \in Caller, DscpEnd(c) PROVE HostInv'
  <2>1. UNCHANGED <<sync, msg, modeHost, modeNss, mapNss, overlap>>
    BY <1>6 DEF DscpEnd, firmware
  <2>2. /\ UNCHANGED <<call, answer>>
        /\ \A d \in Caller : /\ Applied(d)' = Applied(d) /\ Sent(d)' = Sent(d)
                             /\ msg'[Sent(d)'] = msg[Sent(d)]
    BY <1>0, <2>1, HandlerKeeps
  <2>3. /\ job'[c].pc = "idle" /\ job[c].pc = "dscp" /\ call[c].pc = "idle"
        /\ \A d \in Caller : d # c => job'[d] = job[d]
    BY <1>0, <1>6 DEF DscpEnd, Becomes, Returned, Job
  <2>4. \A d \in Caller : CallInv(d)'
    BY <1>0, <1>1, <2>2, <2>3 DEF CallInv
  <2>5. ModeInv'
    <3>1. \A d \in Caller :
           \/ /\ job'[d] = job[d] /\ Applied(d)' = Applied(d)
              /\ job[d].pc = "mode" => msg'[Sent(d)'].val = msg[Sent(d)].val
           \/ /\ job[d].pc \notin {"store", "build", "mode"}
              /\ job'[d].pc \notin {"store", "build", "mode"}
      BY <2>2, <2>3
    <3>2. QED BY <1>1, <2>1, <3>1, ModeKept
  <2>6. ASSUME "dscp" \notin overlap'
        PROVE  DscpWriters' = {} /\ mapHost' = mapNss'
    <3>1. /\ \A d, e \in DscpWriters : d = e
          /\ mapNss = IF Applied(c) THEN job[c].new ELSE mapHost
      BY <1>1, <2>1, <2>3, <2>6 DEF MapInv, DscpWriters
    <3>2. DscpWriters' = {}
      BY <2>3, <3>1 DEF DscpWriters
    <3>3. call[c].status = "success" <=> Applied(c)
      BY <1>0, <1>1, <2>3 DEF CallInv
    <3>4. QED BY <1>6, <2>1, <3>1, <3>2, <3>3 DEF DscpEnd
  <2>7. MapInv'
    BY <2>6 DEF MapInv
  <2>8. QED BY <2>4, <2>5, <2>7 DEF HostInv
<1>7. ASSUME NEW r \in Req, NEW a \in {"ack", "nack"}, NssDecides(r, a) PROVE HostInv'
  <2>1. PICK c \in Caller :
          /\ Sent(c) = r /\ call[c].pc = "wait" /\ job[c].pc \in File
          /\ msg[r].kind = job[c].pc /\ (job[c].pc = "dscp" => msg[r].val = job[c].new)
          /\ ~Applied(c) /\ (Applied(c)' <=> a = "ack")
          /\ \A d \in Caller : d # c => Applied(d)' = Applied(d)
    BY <1>1, <1>7, DecidedIsSent
  <2>2. /\ UNCHANGED <<call, job, modeHost, mapHost, msg, overlap>>
        /\ \A d \in Caller : Sent(d)' = Sent(d)
        /\ answer' = [answer EXCEPT ![r] = a] /\ answer \in [Req -> {"none", "ack", "nack"}]
    BY <1>0, <1>7 DEF NssDecides, NssAnswer, host, Sent, SysctlTypeOK, TypeOK
  <2>3. /\ modeNss' = IF a = "ack" /\ msg[r].kind = "mode" THEN msg[r].val ELSE modeNss
        /\ mapNss' = IF a = "ack" /\ msg[r].kind = "dscp" THEN msg[r].val ELSE mapNss
    BY <1>7 DEF NssDecides
  <2>4. \A d \in Caller : CallInv(d)'
    <3>1. ASSUME NEW d \in Caller, d # c PROVE CallInv(d)'
      <4>1. Sent(d) # r
        <5>1. r # 0
          BY SyncAssumption DEF Req, SyncAssumption
        <5>2. QED BY <2>1, <3>1, <5>1 DEF MessageInv, Distinct, Sent
      <4>2. answer'[Sent(d)] = answer[Sent(d)]
        BY <2>2, <4>1
      <4>3. QED BY <1>1, <2>1, <2>2, <3>1, <4>2 DEF CallInv
    <3>2. CallInv(c)'
      BY <2>1, <2>2 DEF CallInv
    <3>3. QED BY <3>1, <3>2
  <2>5. CASE job[c].pc = "dscp"
    <3>1. modeNss' = modeNss
      BY <2>1, <2>3, <2>5
    <3>2. ModeInv'
      <4>1. \A d \in Caller :
             \/ /\ job'[d] = job[d] /\ Applied(d)' = Applied(d)
                /\ job[d].pc = "mode" => msg'[Sent(d)'].val = msg[Sent(d)].val
             \/ /\ job[d].pc \notin {"store", "build", "mode"}
                /\ job'[d].pc \notin {"store", "build", "mode"}
        BY <2>1, <2>2, <2>5
      <4>2. QED BY <1>1, <2>2, <3>1, <4>1, ModeKept
    <3>3. ASSUME "dscp" \notin overlap'
          PROVE  /\ \A d, e \in DscpWriters' : d = e
                 /\ DscpWriters' # {}
                 /\ \A d \in DscpWriters' :
                       mapNss' = IF Applied(d)' THEN job'[d].new ELSE mapHost'
      <4>1. /\ \A d, e \in DscpWriters : d = e
            /\ mapNss = IF Applied(c) THEN job[c].new ELSE mapHost
        BY <1>1, <2>2, <2>5, <3>3 DEF MapInv, DscpWriters
      <4>2. DscpWriters' = {c}
        BY <2>2, <2>5, <4>1 DEF DscpWriters
      <4>3. QED BY <2>1, <2>2, <2>3, <2>5, <4>1, <4>2
    <3>4. MapInv'
      BY <3>3 DEF MapInv
    <3>5. QED BY <2>4, <3>2, <3>4 DEF HostInv
  <2>6. CASE job[c].pc = "mode"
    <3>1. mapNss' = mapNss
      BY <2>1, <2>3, <2>6
    <3>2. MapInv'
      <4>1. \A d \in Caller :
             /\ job'[d].pc = "dscp" <=> job[d].pc = "dscp"
             /\ job[d].pc = "dscp" => job'[d].new = job[d].new /\ Applied(d)' = Applied(d)
        BY <2>1, <2>2, <2>6
      <4>2. QED BY <1>1, <2>2, <3>1, <4>1, MapKept
    <3>3. ASSUME "mode" \notin overlap'
          PROVE  /\ \A d, e \in ModeWriters' : d = e
                 /\ ModeWriters' # {}
                 /\ \A d \in Caller : ModeOf(d)'
      <4>1. /\ \A d, e \in ModeWriters : d = e
            /\ ModeOf(c)
        BY <1>1, <2>2, <3>3 DEF ModeInv
      <4>2. ModeWriters' = {c} /\ ModeWriters = {c}
        BY <2>2, <2>6, <4>1 DEF ModeWriters
      <4>3. \A d \in Caller : d # c => ModeOf(d)'
        <5>1. \A d \in Caller : d # c => job'[d].pc \notin {"store", "build", "mode"}
          BY <4>2 DEF ModeWriters
        <5>2. QED BY <5>1 DEF ModeOf
      <4>4. ModeOf(c)'
        BY <2>1, <2>2, <2>3, <2>6, <4>1 DEF ModeOf
      <4>5. QED BY <4>2, <4>3, <4>4
    <3>4. ModeInv'
      BY <3>3 DEF ModeInv
    <3>5. QED BY <2>4, <3>2, <3>4 DEF HostInv
  <2>7. QED BY <1>0, <2>1, <2>5, <2>6
<1>8. CASE SyncStep
  <2>1. UNCHANGED <<job, host, firmware, msg, overlap>>
    BY <1>8 DEF SyncStep
  <2>2. answer' = answer /\ (\A d \in Caller : Sent(d)' = Sent(d) /\ CallInv(d)')
    <3>1. ASSUME NEW c \in Caller, InCall(c)
          PROVE  answer' = answer /\ (\A d \in Caller : Sent(d)' = Sent(d) /\ CallInv(d)')
      BY <1>0, <1>1, <2>1, <3>1, CallInvStep
    <3>2. CASE UNCHANGED <<call, answer>>
      BY <1>1, <2>1, <3>2 DEF CallInv, Sent, Applied
    <3>3. QED
      BY <1>8, <3>1, <3>2 DEF SyncStep, NssLoses, Answering, SoftTake, SoftRespond,
         SoftComplete
  <2>3. \A d \in Caller : Applied(d)' = Applied(d)
    BY <2>2 DEF Applied
  <2>4. MapInv'
    BY <1>1, <2>1, <2>3, MapKept DEF host, firmware
  <2>5. ModeInv'
    BY <1>1, <2>1, <2>2, <2>3, ModeKept DEF host, firmware
  <2>6. QED BY <2>2, <2>4, <2>5 DEF HostInv
<1>9. QED
  BY <1>2, <1>3, <1>4, <1>5, <1>6, <1>7, <1>8 DEF SysctlNext

LEMMA HostInvariant == SysctlSpec => [](MessageInv /\ HostInv)
<1>1. SysctlInit => HostInv
  BY DEF SysctlInit, Init, HostInv, CallInv, MapInv, ModeInv, ModeOf, ModeWriters, DscpWriters,
     File
<1>2. ASSUME TypeInv, Timely, MessageInv, HostInv, [SysctlNext]_sysctlVars PROVE HostInv'
  <2>1. CASE SysctlNext /\ late' = 0
    BY <1>2, <2>1, HostStep
  <2>2. CASE UNCHANGED sysctlVars
    BY <1>2, <2>2 DEF sysctlVars, sync, vars, host, firmware, HostInv, CallInv, MapInv,
       ModeInv, ModeOf, ModeWriters, DscpWriters, Applied, Sent
  <2>3. CASE late' # 0
    BY <2>3 DEF HostInv
  <2>4. QED BY <1>2, <2>1, <2>2, <2>3
<1>3. QED
  BY <1>1, <1>2, SysctlIsSync, TimelyInvariant, MessageInvariant, PTL DEF SysctlSpec

(* A refused or failed message leaves no trace in the map: for any number  *)
(* of writers of both files, as long as no answer came late and no two     *)
(* writers of the map overlapped, the copies agree whenever nobody writes. *)
THEOREM MapMirrored == SysctlSpec => []MapMirrorsNss
<1>1. MessageInv /\ HostInv => MapMirrorsNss
  BY DEF HostInv, MapInv, MapMirrorsNss, Still, DscpWriters
<1>2. QED BY <1>1, HostInvariant, PTL

(* So it is with the acceleration mode, written ahead and restored.        *)
THEOREM ModeMirrored == SysctlSpec => []ModeMirrorsNss
<1>1. MessageInv /\ HostInv => ModeMirrorsNss
  BY DEF HostInv, ModeInv, ModeMirrorsNss, Still, ModeWriters
<1>2. QED BY <1>1, HostInvariant, PTL

-----------------------------------------------------------------------------
(* MirrorCtl.                                                              *)

(* The commands use the synchronous message as NssSyncMsg describes it.    *)
THEOREM MirrorIsSync == MirrorSpec => Spec
<1>1. MirrorInit => Init
  BY DEF MirrorInit
<1>2. [MirrorNext]_mirrorVars => [Next]_vars
  BY DEF MirrorNext, mirrorVars, sync, Outside, Write, Handler, InSync, Take, Copy, Parse,
     PortEnd, Missing, Ready, Use, SendNexthop, NexthopEnds, Next
<1>3. QED BY <1>1, <1>2, PTL DEF MirrorSpec, Spec

(* So the answers reach their own caller, and the calls fall behind them   *)
(* by the early time-outs at most, also between writers of the file.       *)
THEOREM MirrorAnswers == MirrorSpec => [](OwnAnswer /\ StraysBounded)
<1>1. QED BY MirrorIsSync, AnswersMatch, StraysCounted, PTL

(* The state of a writer; between the commands and from the message on it  *)
(* refers to no device, and display looks for its device last.             *)
Key == {"mirrordev", "devname", "value"}
Writer == [pc : Pc, cmd : Cmd, args : Seq(Arg), dev : Dev \cup {NoDev},
           port : Dev \cup {NoDev}, seen : SUBSET Key]
Text == [cmd : Cmd, args : Seq(Arg), cut : BOOLEAN]

(* Where in its command a handler can have a device in hand.               *)
HasNoDev(w) ==
  \/ w.pc \notin {"parse", "port", "use"}
  \/ w.pc \in {"parse", "port"} /\ w.cmd = "display"
InOrder(w) ==
  /\ HasNoDev(w) => w.dev = NoDev
  /\ w.pc # "port" => w.port = NoDev
  /\ w.pc = "port" => w.args # <<>>

WritersOK ==
  /\ writer \in [Caller -> Writer]
  /\ \A c \in Caller : InOrder(writer[c])
  /\ text \in Text
  /\ present \subseteq Dev
HoldInv ==
  /\ WritersOK
  /\ refs \in [Dev -> Nat] /\ lost \in [Dev -> Nat]
  /\ HoldsExact
LEMMA WriterAt ==
  ASSUME WritersOK, NEW c \in Caller, NEW q \in Writer,
         writer' = [writer EXCEPT ![c] = q]
  PROVE  /\ writer' \in [Caller -> Writer] /\ writer'[c] = q
         /\ \A d \in Caller : d # c => writer'[d] = writer[d]
BY DEF WritersOK

(* What one writer has in hand of a device.                                *)
InHand(w, d) == (IF w.dev = d THEN 1 ELSE 0) + (IF w.port = d THEN 1 ELSE 0)

(* A set of callers gains or loses one of them.                            *)
LEMMA CallersStep ==
  ASSUME NEW H, H \subseteq Caller, NEW c \in Caller
  PROVE  /\ Cardinality(H) \in Nat
         /\ Cardinality(H \cup {c}) \in Nat /\ Cardinality(H \ {c}) \in Nat
         /\ Cardinality(H \cup {c}) = Cardinality(H) - (IF c \in H THEN 1 ELSE 0) + 1
         /\ Cardinality(H \ {c}) = Cardinality(H) - (IF c \in H THEN 1 ELSE 0)
<1>1. IsFiniteSet(H) /\ Cardinality(H) \in Nat
  BY FS_Subset, FS_CardinalityType, SyncAssumption DEF SyncAssumption
<1>2. /\ Cardinality(H \cup {c}) = IF c \in H THEN Cardinality(H) ELSE Cardinality(H) + 1
      /\ Cardinality(H \ {c}) = IF c \in H THEN Cardinality(H) - 1 ELSE Cardinality(H)
  BY <1>1, FS_AddElement, FS_RemoveElement
<1>3. c \in H => Cardinality(H) # 0
  BY <1>1, FS_EmptySet
<1>4. QED BY <1>1, <1>2, <1>3

(* Only the devices of the writer that takes a step gain or lose him.      *)
LEMMA HoldersStep ==
  ASSUME WritersOK, NEW c \in Caller, NEW q \in Writer,
         writer' = [writer EXCEPT ![c] = q], NEW d \in Dev
  PROVE  /\ Holders(d) \in Nat /\ Holders(d)' \in Nat
         /\ Holders(d)' = Holders(d) - InHand(writer[c], d) + InHand(q, d)
<1> DEFINE H == {a \in Caller : writer[a].dev = d}
           P == {a \in Caller : writer[a].port = d}
<1>1. /\ H' = IF q.dev = d THEN H \cup {c} ELSE H \ {c}
      /\ P' = IF q.port = d THEN P \cup {c} ELSE P \ {c}
  BY WriterAt
<1>2. /\ c \in H <=> writer[c].dev = d
      /\ c \in P <=> writer[c].port = d
      /\ H \subseteq Caller /\ P \subseteq Caller
  OBVIOUS
<1>3. /\ Holders(d) = Cardinality(H) + Cardinality(P)
      /\ Holders(d)' = Cardinality(H') + Cardinality(P')
  BY DEF Holders
<1> HIDE DEF H, P
<1>4. /\ Cardinality(H) \in Nat /\ Cardinality(H') \in Nat
      /\ Cardinality(H') = Cardinality(H) - (IF c \in H THEN 1 ELSE 0)
                             + (IF q.dev = d THEN 1 ELSE 0)
  <2>1. /\ Cardinality(H) \in Nat
        /\ Cardinality(H \cup {c}) \in Nat /\ Cardinality(H \ {c}) \in Nat
        /\ Cardinality(H \cup {c}) = Cardinality(H) - (IF c \in H THEN 1 ELSE 0) + 1
        /\ Cardinality(H \ {c}) = Cardinality(H) - (IF c \in H THEN 1 ELSE 0)
    BY <1>2, CallersStep
  <2>2. QED BY <1>1, <2>1
<1>5. /\ Cardinality(P) \in Nat /\ Cardinality(P') \in Nat
      /\ Cardinality(P') = Cardinality(P) - (IF c \in P THEN 1 ELSE 0)
                             + (IF q.port = d THEN 1 ELSE 0)
  <2>1. /\ Cardinality(P) \in Nat
        /\ Cardinality(P \cup {c}) \in Nat /\ Cardinality(P \ {c}) \in Nat
        /\ Cardinality(P \cup {c}) = Cardinality(P) - (IF c \in P THEN 1 ELSE 0) + 1
        /\ Cardinality(P \ {c}) = Cardinality(P) - (IF c \in P THEN 1 ELSE 0)
    BY <1>2, CallersStep
  <2>2. QED BY <1>1, <2>1
<1>6. QED BY <1>2, <1>3, <1>4, <1>5 DEF InHand

(* The counts change by what the writer took, gave back and lost.          *)
LEMMA HoldStep ==
  ASSUME HoldInv, NEW c \in Caller, NEW q \in Writer,
         writer' = [writer EXCEPT ![c] = q], InOrder(q),
         text' \in Text, present' \subseteq Dev,
         refs' \in [Dev -> Int], lost' \in [Dev -> Nat],
         \A d \in Dev : refs'[d] = refs[d] - InHand(writer[c], d) + InHand(q, d)
                                 + (lost'[d] - lost[d])
  PROVE  HoldInv'
<1>1. /\ WritersOK /\ refs \in [Dev -> Nat] /\ lost \in [Dev -> Nat]
      /\ \A d \in Dev : refs[d] = Holders(d) + lost[d]
  BY DEF HoldInv, HoldsExact
<1>2. WritersOK'
  BY <1>1, WriterAt DEF WritersOK
<1>3. ASSUME NEW d \in Dev PROVE refs'[d] = Holders(d)' + lost'[d] /\ refs'[d] \in Nat
  <2>1. /\ Holders(d) \in Nat /\ Holders(d)' \in Nat
        /\ Holders(d)' = Holders(d) - InHand(writer[c], d) + InHand(q, d)
    BY <1>1, HoldersStep
  <2>2. refs[d] \in Nat /\ lost[d] \in Nat /\ lost'[d] \in Nat
        /\ InHand(writer[c], d) \in Nat /\ InHand(q, d) \in Nat
    BY <1>1 DEF InHand
  <2>3. QED BY <1>1, <2>1, <2>2
<1>4. refs' \in [Dev -> Nat]
  BY <1>3
<1>5. QED BY <1>2, <1>3, <1>4 DEF HoldInv, HoldsExact

(* dev_put(), and a reference that is lost, device by device.              *)
LEMMA LessAt ==
  ASSUME NEW f \in [Dev -> Int], NEW d \in Dev \cup {NoDev}
  PROVE  /\ Less(f, d) \in [Dev -> Int]
         /\ \A x \in Dev : Less(f, d)[x] = f[x] - (IF x = d THEN 1 ELSE 0)
BY MirrorAssumption DEF MirrorAssumption, Less, Dev

LEMMA LosesAt ==
  ASSUME lost \in [Dev -> Nat], NEW d \in Dev \cup {NoDev}, Loses(d)
  PROVE  /\ lost' \in [Dev -> Nat]
         /\ \A x \in Dev : lost'[x] - lost[x] = IF x = d THEN 1 ELSE 0
BY MirrorAssumption DEF MirrorAssumption, Loses, Dev

LEMMA HoldAt ==
  ASSUME refs \in [Dev -> Nat], NEW d \in Dev, Hold(d)
  PROVE  /\ refs' \in [Dev -> Int]
         /\ \A x \in Dev : refs'[x] = refs[x] + (IF x = d THEN 1 ELSE 0)
BY DEF Hold

LEMMA ArgListsAreLists == ArgLists \subseteq Seq(Arg)
BY DEF ArgLists

(* The next argument, and what is left of the list.                        *)
LEMMA NextArg ==
  ASSUME WritersOK, NEW c \in Caller, writer[c].args # <<>>
  PROVE  /\ Next1(c) \in Arg /\ Next1(c).key \in Key
         /\ Next1(c).key = "mirrordev" => Next1(c).val \in Mirror
         /\ Tail(writer[c].args) \in Seq(Arg)
<1>1. writer[c].args \in Seq(Arg)
  BY DEF WritersOK, Writer
<1>2. Head(writer[c].args) \in Arg /\ Tail(writer[c].args) \in Seq(Arg)
  BY <1>1
<1>3. QED BY <1>2 DEF Next1, Arg, Key

(* A command that ends: it gives back what it has, or loses its device.    *)
LEMMA Ended ==
  ASSUME HoldInv, NEW c \in Caller, Ends(c),
         text' = text, present' \subseteq Dev,
         \/ /\ refs' = Less(Less(refs, writer[c].port), writer[c].dev)
            /\ UNCHANGED lost
         \/ UNCHANGED refs /\ Loses(writer[c].dev) /\ writer[c].port = NoDev
  PROVE  HoldInv'
<1>1. /\ Idle \in Writer /\ writer' = [writer EXCEPT ![c] = Idle] /\ InOrder(Idle)
      /\ Idle.dev = NoDev /\ Idle.port = NoDev
  BY DEF Idle, Writer, Pc, Cmd, Ends, InOrder
<1>2. /\ refs \in [Dev -> Nat] /\ lost \in [Dev -> Nat] /\ text \in Text
      /\ writer[c].dev \in Dev \cup {NoDev} /\ writer[c].port \in Dev \cup {NoDev}
      /\ NoDev \notin Dev
  BY MirrorAssumption DEF HoldInv, WritersOK, Writer, MirrorAssumption, Dev
<1> HIDE DEF Idle
<1>3. CASE refs' = Less(Less(refs, writer[c].port), writer[c].dev) /\ UNCHANGED lost
  <2>1. refs \in [Dev -> Int]
    BY <1>2
  <2>2. /\ Less(refs, writer[c].port) \in [Dev -> Int]
        /\ \A x \in Dev : Less(refs, writer[c].port)[x]
                           = refs[x] - (IF x = writer[c].port THEN 1 ELSE 0)
    BY <1>2, <2>1, LessAt
  <2>3. /\ refs' \in [Dev -> Int]
        /\ \A x \in Dev : refs'[x] = Less(refs, writer[c].port)[x]
                                     - (IF x = writer[c].dev THEN 1 ELSE 0)
    BY <1>2, <1>3, <2>2, LessAt
  <2>4. ASSUME NEW d \in Dev
        PROVE  refs'[d] = refs[d] - InHand(writer[c], d) + InHand(Idle, d) + (lost'[d] - lost[d])
    <3>1. refs[d] \in Int /\ lost[d] \in Int /\ lost'[d] = lost[d]
      BY <1>2, <1>3
    <3>2. InHand(Idle, d) = 0
      BY <1>1, <1>2 DEF InHand
    <3>3. QED BY <2>2, <2>3, <3>1, <3>2 DEF InHand
  <2>5. QED BY <1>1, <1>2, <1>3, <2>3, <2>4, HoldStep
<1>4. CASE UNCHANGED refs /\ Loses(writer[c].dev) /\ writer[c].port = NoDev
  <2>1. /\ lost' \in [Dev -> Nat]
        /\ \A x \in Dev : lost'[x] - lost[x] = IF x = writer[c].dev THEN 1 ELSE 0
    BY <1>2, <1>4, LosesAt
  <2>2. ASSUME NEW d \in Dev
        PROVE  refs'[d] = refs[d] - InHand(writer[c], d) + InHand(Idle, d) + (lost'[d] - lost[d])
    <3>1. refs[d] \in Int /\ refs'[d] = refs[d] /\ writer[c].port # d
      BY <1>2, <1>4
    <3>2. InHand(Idle, d) = 0
      BY <1>1, <1>2 DEF InHand
    <3>3. QED BY <2>1, <3>1, <3>2 DEF InHand
  <2>3. refs' \in [Dev -> Int]
    BY <1>2, <1>4
  <2>4. QED BY <1>1, <1>2, <2>1, <2>2, <2>3, HoldStep
<1>5. QED BY <1>3, <1>4

(* A command that ends when it has no port in hand.                        *)
LEMMA EndedPut ==
  ASSUME HoldInv, NEW c \in Caller, Ends(c), writer[c].pc # "port",
         text' = text, present' \subseteq Dev,
         UNCHANGED lost,
         Put(writer[c].dev) \/ (UNCHANGED refs /\ writer[c].dev = NoDev)
  PROVE  HoldInv'
<1>1. writer[c].port = NoDev
  BY DEF HoldInv, WritersOK, InOrder
<1>2. refs' = Less(Less(refs, writer[c].port), writer[c].dev)
  BY <1>1 DEF Put, Less
<1>3. QED BY <1>2, Ended

(* A command that goes on with what it has in hand.                        *)
LEMMA GoesOn ==
  ASSUME HoldInv, NEW c \in Caller, NEW q \in Writer, writer' = [writer EXCEPT ![c] = q],
         q.dev = writer[c].dev, q.port = writer[c].port, InOrder(q),
         text' \in Text, UNCHANGED <<present, refs, lost>>
  PROVE  HoldInv'
<1>1. /\ refs \in [Dev -> Nat] /\ lost \in [Dev -> Nat] /\ present \subseteq Dev
  BY DEF HoldInv, WritersOK
<1>2. ASSUME NEW d \in Dev
      PROVE  refs'[d] = refs[d] - InHand(writer[c], d) + InHand(q, d) + (lost'[d] - lost[d])
  <2>1. refs[d] \in Int /\ lost[d] \in Int
    BY <1>1
  <2>2. QED BY <2>1 DEF InHand
<1>3. refs' \in [Dev -> Int]
  BY <1>1
<1>4. QED BY <1>1, <1>2, <1>3, HoldStep

(* A command that finds a device, in the place of one it had or not.       *)
LEMMA Finds ==
  ASSUME HoldInv, NEW c \in Caller, NEW q \in Writer, writer' = [writer EXCEPT ![c] = q],
         q.dev \in Dev, q.port = writer[c].port, InOrder(q),
         Hold(q.dev), Loses(writer[c].dev), text' \in Text, UNCHANGED present
  PROVE  HoldInv'
<1>1. /\ refs \in [Dev -> Nat] /\ lost \in [Dev -> Nat] /\ present \subseteq Dev
      /\ writer[c].dev \in Dev \cup {NoDev}
  BY DEF HoldInv, WritersOK, Writer
<1>2. /\ refs' \in [Dev -> Int]
      /\ \A x \in Dev : refs'[x] = refs[x] + (IF x = q.dev THEN 1 ELSE 0)
  BY <1>1, HoldAt
<1>3. /\ lost' \in [Dev -> Nat]
      /\ \A x \in Dev : lost'[x] - lost[x] = IF x = writer[c].dev THEN 1 ELSE 0
  BY <1>1, LosesAt
<1>4. ASSUME NEW d \in Dev
      PROVE  refs'[d] = refs[d] - InHand(writer[c], d) + InHand(q, d) + (lost'[d] - lost[d])
  <2>1. refs[d] \in Int
    BY <1>1
  <2>2. QED BY <1>2, <1>3, <2>1 DEF InHand
<1>5. QED BY <1>1, <1>2, <1>3, <1>4, HoldStep

LEMMA TakenIsWriter ==
  ASSUME WritersOK, NEW c \in Caller, writer[c].args # <<>>, NEW d \in Dev \cup {NoDev}
  PROVE  \E q \in Writer : /\ Taken(c, d) = [writer EXCEPT ![c] = q] /\ q.dev = d
                           /\ q.pc = writer[c].pc /\ q.cmd = writer[c].cmd
                           /\ q.port = writer[c].port
<1> DEFINE q == [writer[c] EXCEPT !.args = Tail(@), !.dev = d, !.seen = @ \cup {Next1(c).key}]
<1>1. writer[c] \in Writer
  BY DEF WritersOK
<1>2. q \in Writer /\ q.dev = d /\ q.pc = writer[c].pc /\ q.cmd = writer[c].cmd
      /\ q.port = writer[c].port
  BY <1>1, NextArg DEF Writer
<1>3. Taken(c, d) = [writer EXCEPT ![c] = q]
  BY <1>1 DEF Taken, WritersOK, Writer
<1>4. QED BY <1>2, <1>3

LEMMA ParseHolds ==
  ASSUME HoldInv, NEW c \in Caller, Parse(c)
  PROVE  HoldInv'
<1>1. /\ writer[c].pc = "parse" /\ writer[c].args # <<>> /\ text' = text /\ present' = present
      /\ WritersOK /\ writer[c] \in Writer /\ present \subseteq Dev
      /\ writer[c].port = NoDev /\ InOrder(writer[c])
  BY DEF Parse, Is, HoldInv, WritersOK, InOrder
<1>2. ASSUME Reject(c) PROVE HoldInv'
  <2>1. CASE writer[c].cmd = "pmc_enable"
    BY <1>1, <1>2, <2>1, EndedPut DEF Reject, PutsOnError
  <2>2. CASE writer[c].cmd # "pmc_enable"
    BY <1>1, <1>2, <2>2, Ended DEF Reject, PutsOnError
  <2>3. QED BY <2>1, <2>2
<1>3. ASSUME writer' = Taken(c, writer[c].dev), UNCHANGED <<refs, lost>> PROVE HoldInv'
  <2>0. writer[c].dev \in Dev \cup {NoDev}
    BY <1>1 DEF Writer
  <2>1. \A d \in Dev \cup {NoDev} : \E q \in Writer :
          /\ Taken(c, d) = [writer EXCEPT ![c] = q] /\ q.dev = d
          /\ q.pc = writer[c].pc /\ q.cmd = writer[c].cmd /\ q.port = writer[c].port
    BY <1>1, TakenIsWriter
  <2>2. PICK q \in Writer : /\ Taken(c, writer[c].dev) = [writer EXCEPT ![c] = q]
                            /\ q.dev = writer[c].dev /\ q.port = writer[c].port
                            /\ q.pc = writer[c].pc /\ q.cmd = writer[c].cmd
    BY <2>0, <2>1
  <2>3. InOrder(q)
    BY <1>1, <2>2 DEF InOrder, HasNoDev
  <2>4. QED BY <1>1, <1>3, <2>2, <2>3, GoesOn DEF WritersOK
<1>4. ASSUME ParseMirror(c) PROVE HoldInv'
  <2>1. Next1(c).val \in Dev /\ writer[c].cmd # "display" /\ Loses(writer[c].dev)
    BY <1>1, <1>4, NextArg DEF ParseMirror, Dev
  <2>2. CASE Ends(c) /\ UNCHANGED refs
    BY <1>1, <2>1, <2>2, Ended
  <2>3. CASE Hold(Next1(c).val) /\ writer' = Taken(c, Next1(c).val)
    <3>1. \A d \in Dev \cup {NoDev} : \E q \in Writer :
            /\ Taken(c, d) = [writer EXCEPT ![c] = q] /\ q.dev = d
            /\ q.pc = writer[c].pc /\ q.cmd = writer[c].cmd /\ q.port = writer[c].port
      BY <1>1, TakenIsWriter
    <3>2. PICK q \in Writer : /\ Taken(c, Next1(c).val) = [writer EXCEPT ![c] = q]
                              /\ q.dev = Next1(c).val /\ q.port = writer[c].port
                              /\ q.pc = writer[c].pc /\ q.cmd = writer[c].cmd
      BY <2>1, <3>1
    <3>3. InOrder(q)
      BY <1>1, <2>1, <3>2 DEF InOrder, HasNoDev
    <3>4. QED BY <1>1, <2>1, <2>3, <3>2, <3>3, Finds DEF WritersOK
  <2>4. QED BY <1>4, <2>2, <2>3 DEF ParseMirror
<1>5. ASSUME ParsePort(c) PROVE HoldInv'
  <2>1. CASE Reject(c)
    BY <1>2, <2>1
  <2>2. CASE /\ Next1(c).val \in present /\ Hold(Next1(c).val)
             /\ writer' = [writer EXCEPT ![c].pc = "port", ![c].port = Next1(c).val]
             /\ UNCHANGED lost
    <3> DEFINE p == Next1(c).val
               q == [writer[c] EXCEPT !.pc = "port", !.port = p]
    <3>1. /\ p \in Dev /\ NoDev \notin Dev
          /\ refs \in [Dev -> Nat] /\ lost \in [Dev -> Nat]
      BY <1>1, <2>2, MirrorAssumption DEF HoldInv, MirrorAssumption, Dev
    <3> HIDE DEF p
    <3>2. q \in Writer /\ q.dev = writer[c].dev /\ q.port = p /\ q.pc = "port"
          /\ q.cmd = writer[c].cmd /\ q.args = writer[c].args
      BY <1>1, <3>1 DEF Writer, Pc
    <3>3. writer' = [writer EXCEPT ![c] = q]
      BY <1>1, <2>2 DEF WritersOK, Writer, p
    <3> HIDE DEF q
    <3>4. InOrder(q)
      BY <1>1, <3>2 DEF InOrder, HasNoDev
    <3>5. /\ refs' \in [Dev -> Int]
          /\ \A x \in Dev : refs'[x] = refs[x] + (IF x = p THEN 1 ELSE 0)
      BY <2>2, <3>1, HoldAt DEF p
    <3>6. ASSUME NEW d \in Dev
          PROVE  refs'[d] = refs[d] - InHand(writer[c], d) + InHand(q, d) + (lost'[d] - lost[d])
      <4>1. refs[d] \in Int /\ lost[d] \in Int /\ lost'[d] = lost[d] /\ writer[c].port # d
        BY <1>1, <2>2, <3>1
      <4>2. QED BY <3>2, <3>5, <4>1 DEF InHand
    <3>7. text' \in Text /\ present' \subseteq Dev /\ lost' \in [Dev -> Nat]
      BY <1>1, <2>2, <3>1 DEF WritersOK
    <3>8. QED BY <3>2, <3>3, <3>4, <3>5, <3>6, <3>7, HoldStep
  <2>3. QED BY <1>5, <2>1, <2>2 DEF ParsePort
<1>6. QED
  BY <1>2, <1>3, <1>4, <1>5 DEF Parse, ParseValue, ParseName

LEMMA PortHolds ==
  ASSUME HoldInv, NEW c \in Caller, PortEnd(c)
  PROVE  HoldInv'
<1>1. /\ writer[c].pc = "port" /\ text' = text /\ present' = present /\ lost' = lost
      /\ WritersOK /\ writer[c] \in Writer /\ present \subseteq Dev /\ text \in Text
      /\ writer[c].args # <<>> /\ InOrder(writer[c])
      /\ refs \in [Dev -> Nat] /\ lost \in [Dev -> Nat] /\ NoDev \notin Dev
      /\ writer[c].dev \in Dev \cup {NoDev} /\ writer[c].port \in Dev \cup {NoDev}
  BY MirrorAssumption
     DEF PortEnd, Is, HoldInv, WritersOK, InOrder, Writer, MirrorAssumption, Dev
<1>2. CASE refs' = Less(Less(refs, writer[c].port), writer[c].dev) /\ Ends(c)
  BY <1>1, <1>2, Ended
<1>3. CASE /\ Put(writer[c].port)
           /\ writer' = [Taken(c, writer[c].dev) EXCEPT ![c].pc = "parse", ![c].port = NoDev]
  <2>0. \A d \in Dev \cup {NoDev} : \E q \in Writer :
          /\ Taken(c, d) = [writer EXCEPT ![c] = q] /\ q.dev = d
          /\ q.pc = writer[c].pc /\ q.cmd = writer[c].cmd /\ q.port = writer[c].port
    BY <1>1, TakenIsWriter
  <2>1. PICK w \in Writer : /\ Taken(c, writer[c].dev) = [writer EXCEPT ![c] = w]
                            /\ w.dev = writer[c].dev /\ w.port = writer[c].port
                            /\ w.pc = writer[c].pc /\ w.cmd = writer[c].cmd
    BY <1>1, <2>0
  <2> DEFINE q == [w EXCEPT !.pc = "parse", !.port = NoDev]
  <2>2. q \in Writer /\ q.dev = writer[c].dev /\ q.port = NoDev /\ q.pc = "parse"
        /\ q.cmd = writer[c].cmd
    BY <2>1 DEF Writer, Pc
  <2>3. writer' = [writer EXCEPT ![c] = q]
    <3>1. [writer EXCEPT ![c] = w] = [a \in Caller |-> IF a = c THEN w ELSE writer[a]]
      BY <1>1 DEF WritersOK
    <3>2. writer' = [a \in Caller |-> IF a = c THEN q ELSE writer[a]]
      BY <1>3, <2>1, <3>1
    <3>3. QED BY <1>1, <3>2 DEF WritersOK
  <2> HIDE DEF q
  <2>4. InOrder(q)
    BY <1>1, <2>2 DEF InOrder, HasNoDev
  <2>5. /\ refs' \in [Dev -> Int]
        /\ \A x \in Dev : refs'[x] = refs[x] - (IF x = writer[c].port THEN 1 ELSE 0)
    <3>1. refs \in [Dev -> Int]
      BY <1>1
    <3>2. /\ Less(refs, writer[c].port) \in [Dev -> Int]
          /\ \A x \in Dev : Less(refs, writer[c].port)[x]
                             = refs[x] - (IF x = writer[c].port THEN 1 ELSE 0)
      BY <1>1, <3>1, LessAt
    <3>3. QED BY <1>3, <3>2 DEF Put
  <2>6. ASSUME NEW d \in Dev
        PROVE  refs'[d] = refs[d] - InHand(writer[c], d) + InHand(q, d) + (lost'[d] - lost[d])
    <3>1. refs[d] \in Int /\ lost[d] \in Int /\ q.port # d
      BY <1>1, <2>2
    <3>2. QED BY <1>1, <2>2, <2>5, <3>1 DEF InHand
  <2>7. QED BY <1>1, <2>2, <2>3, <2>4, <2>5, <2>6, HoldStep
<1>4. QED BY <1>2, <1>3 DEF PortEnd

LEMMA ReadyHolds ==
  ASSUME HoldInv, NEW c \in Caller, Ready(c)
  PROVE  HoldInv'
<1>1. /\ writer[c].pc = "parse" /\ text' = text /\ present' = present /\ lost' = lost
      /\ WritersOK /\ writer[c] \in Writer /\ present \subseteq Dev /\ text \in Text
      /\ writer[c].port = NoDev /\ InOrder(writer[c])
      /\ refs \in [Dev -> Nat] /\ lost \in [Dev -> Nat] /\ NoDev \notin Dev
      /\ writer[c].dev \in Dev \cup {NoDev}
  BY MirrorAssumption
     DEF Ready, Is, HoldInv, WritersOK, InOrder, Writer, MirrorAssumption, Dev
<1>2. CASE writer[c].cmd \in {"pmc_enable", "pmc_disable"}
  <2>1. Put(writer[c].dev)
        /\ (Ends(c) \/ writer' = [writer EXCEPT ![c].pc = "send", ![c].dev = NoDev])
    BY <1>2 DEF Ready
  <2>2. CASE Ends(c)
    BY <1>1, <2>1, <2>2, EndedPut
  <2>3. CASE writer' = [writer EXCEPT ![c].pc = "send", ![c].dev = NoDev]
    <3> DEFINE q == [writer[c] EXCEPT !.pc = "send", !.dev = NoDev]
    <3>1. q \in Writer /\ q.dev = NoDev /\ q.port = NoDev /\ q.pc = "send"
      BY <1>1 DEF Writer, Pc
    <3>2. writer' = [writer EXCEPT ![c] = q]
      BY <1>1, <2>3 DEF WritersOK, Writer
    <3> HIDE DEF q
    <3>3. /\ refs' \in [Dev -> Int]
          /\ \A x \in Dev : refs'[x] = refs[x] - (IF x = writer[c].dev THEN 1 ELSE 0)
      <4>1. refs \in [Dev -> Int]
        BY <1>1
      <4>2. QED BY <1>1, <2>1, <4>1, LessAt DEF Put
    <3>4. ASSUME NEW d \in Dev
          PROVE  refs'[d] = refs[d] - InHand(writer[c], d) + InHand(q, d) + (lost'[d] - lost[d])
      <4>1. refs[d] \in Int /\ lost[d] \in Int /\ q.port # d /\ q.dev # d
        BY <1>1, <3>1
      <4>2. QED BY <1>1, <3>1, <3>3, <4>1 DEF InHand
    <3>5. InOrder(q)
      BY <3>1 DEF InOrder
    <3>6. QED BY <1>1, <3>1, <3>2, <3>3, <3>4, <3>5, HoldStep
  <2>4. QED BY <2>1, <2>2, <2>3
<1>3. CASE writer[c].cmd = "display"
  <2>1. writer[c].dev = NoDev
    BY <1>1, <1>3 DEF InOrder, HasNoDev
  <2>2. CASE Ends(c) /\ UNCHANGED refs
    BY <1>1, <2>1, <2>2, EndedPut
  <2>3. ASSUME NEW d \in present, Hold(d),
               writer' = [writer EXCEPT ![c].pc = "use", ![c].dev = d]
        PROVE  HoldInv'
    <3> DEFINE q == [writer[c] EXCEPT !.pc = "use", !.dev = d]
    <3>1. q \in Writer /\ q.dev = d /\ q.pc = "use" /\ d \in Dev /\ q.port = NoDev
      BY <1>1 DEF Writer, Pc
    <3>2. writer' = [writer EXCEPT ![c] = q]
      BY <1>1, <2>3 DEF WritersOK, Writer
    <3>3. Loses(writer[c].dev)
      BY <1>1, <2>1 DEF Loses
    <3> HIDE DEF q
    <3>4. InOrder(q)
      BY <3>1 DEF InOrder, HasNoDev
    <3>5. QED BY <1>1, <2>3, <3>1, <3>2, <3>3, <3>4, Finds
  <2>4. QED BY <1>3, <2>2, <2>3 DEF Ready
<1>4. CASE writer[c].cmd \notin {"pmc_enable", "pmc_disable", "display"}
  <2> DEFINE q == [writer[c] EXCEPT !.pc = "use"]
  <2>1. q \in Writer /\ q.dev = writer[c].dev /\ q.pc = "use" /\ q.port = writer[c].port
    BY <1>1 DEF Writer, Pc
  <2>2. writer' = [writer EXCEPT ![c].pc = "use"] /\ UNCHANGED refs
    BY <1>4 DEF Ready
  <2>3. writer' = [writer EXCEPT ![c] = q]
    BY <1>1, <2>2 DEF WritersOK, Writer
  <2> HIDE DEF q
  <2>4. InOrder(q)
    BY <1>1, <2>1 DEF InOrder, HasNoDev
  <2>5. QED BY <1>1, <2>1, <2>2, <2>3, <2>4, GoesOn
<1>5. QED BY <1>2, <1>3, <1>4

LEMMA HoldInvariant == MirrorSpec => []HoldInv
<1>1. MirrorInit => HoldInv
  <2> SUFFICES ASSUME MirrorInit PROVE HoldInv
    OBVIOUS
  <2>1. writer = [c \in Caller |-> Idle] /\ refs = [d \in Dev |-> 0] /\ lost = [d \in Dev |-> 0]
        /\ present = Dev /\ text = NoText /\ NoDev \notin Dev
    BY MirrorAssumption DEF MirrorInit, MirrorAssumption, Dev
  <2>2. Idle \in Writer /\ Idle.dev = NoDev /\ Idle.port = NoDev /\ InOrder(Idle)
    BY DEF Idle, Writer, Pc, Cmd, InOrder
  <2>3. WritersOK
    BY <2>1, <2>2 DEF WritersOK, Text, NoText, Cmd
  <2>4. ASSUME NEW d \in Dev PROVE Holders(d) = 0
    <3>1. {c \in Caller : writer[c].dev = d} = {} /\ {c \in Caller : writer[c].port = d} = {}
      BY <2>1, <2>2
    <3>2. QED BY <3>1, FS_EmptySet DEF Holders
  <2>5. refs \in [Dev -> Nat] /\ lost \in [Dev -> Nat] /\ \A d \in Dev : refs[d] = 0 /\ lost[d] = 0
    BY <2>1
  <2>6. HoldsExact
    BY <2>4, <2>5 DEF HoldsExact
  <2>7. QED BY <2>1, <2>3, <2>5, <2>6 DEF HoldInv
<1>2. ASSUME HoldInv, [MirrorNext]_mirrorVars PROVE HoldInv'
  <2> USE <1>2
  <2>0. WritersOK /\ \A c \in Caller : writer[c] \in Writer
    BY DEF HoldInv, WritersOK
  <2>1. ASSUME UNCHANGED <<text, writer, present, refs, lost>> PROVE HoldInv'
    <3>1. \A d \in Dev : Holders(d)' = Holders(d)
      BY <2>1 DEF Holders
    <3>2. QED BY <2>1, <3>1 DEF HoldInv, HoldsExact, WritersOK, InOrder, HasNoDev
  <2>2. ASSUME NEW c \in Caller, NEW pc \in Pc \ {"parse", "port", "use"}, NEW cmd \in Cmd,
               writer' = [writer EXCEPT ![c].pc = pc, ![c].cmd = cmd],
               writer[c].pc \notin {"parse", "port", "use"},
               text' \in Text,
               UNCHANGED <<present, refs, lost>>
        PROVE  HoldInv'
    <3> DEFINE q == [writer[c] EXCEPT !.pc = pc, !.cmd = cmd]
    <3>1. q \in Writer /\ q.dev = writer[c].dev /\ q.port = writer[c].port /\ q.pc = pc
      BY <2>0 DEF Writer
    <3>2. writer' = [writer EXCEPT ![c] = q]
      BY <2>0, <2>2 DEF WritersOK, Writer
    <3>3. writer[c].dev = NoDev /\ writer[c].port = NoDev
      BY <2>0, <2>2 DEF WritersOK, InOrder, HasNoDev
    <3> HIDE DEF q
    <3>4. InOrder(q)
      BY <2>2, <3>1, <3>3 DEF InOrder
    <3>5. QED BY <2>2, <3>1, <3>2, <3>4, GoesOn
  <2>3. ASSUME NEW c \in Caller, Write(c) PROVE HoldInv'
    <3>1. text' \in Text
      <4>1. PICK cmd \in Cmd :
              \/ text' = [cmd |-> cmd, args |-> <<>>, cut |-> TRUE]
              \/ \E args \in ArgLists : text' = [cmd |-> cmd, args |-> args, cut |-> FALSE]
        BY <2>3 DEF Write
      <4>2. <<>> \in Seq(Arg) /\ ArgLists \subseteq Seq(Arg)
        BY ArgListsAreLists
      <4>3. CASE text' = [cmd |-> cmd, args |-> <<>>, cut |-> TRUE]
        BY <4>2, <4>3 DEF Text
      <4>4. ASSUME NEW args \in ArgLists, text' = [cmd |-> cmd, args |-> args, cut |-> FALSE]
            PROVE  text' \in Text
        <5>1. args \in Seq(Arg)
          BY <4>2
        <5>2. QED BY <4>4, <5>1 DEF Text
      <4>5. QED BY <4>1, <4>3, <4>4
    <3>2. writer' = [writer EXCEPT ![c].pc = "take", ![c].cmd = writer[c].cmd]
      BY <2>0, <2>3 DEF Write, WritersOK, Writer
    <3>3. writer[c].cmd \in Cmd /\ "take" \in Pc \ {"parse", "port", "use"} /\ writer[c].pc = "idle"
      BY <2>0, <2>3 DEF Write, Is, Writer, Pc
    <3>4. UNCHANGED <<present, refs, lost>>
      BY <2>3 DEF Write
    <3>5. QED BY <2>2, <3>1, <3>2, <3>3, <3>4
  <2>4. ASSUME NEW c \in Caller, Take(c) PROVE HoldInv'
    <3>1. text' \in Text
      <4>1. text' = [text EXCEPT !.cut = TRUE] \/ text' = NoText
        BY <2>4 DEF Take, Read
      <4>2. [text EXCEPT !.cut = TRUE] \in Text /\ NoText \in Text
        <5>1. text \in Text /\ NoText \in Text
          BY <2>0 DEF WritersOK, Text, NoText, Cmd
        <5>2. QED BY <5>1 DEF Text
      <4>3. QED BY <4>1, <4>2
    <3> DEFINE pc == IF text.cmd = "create" THEN "use"
                     ELSE IF text.cut THEN "oops" ELSE "copy"
               q == [writer[c] EXCEPT !.cmd = text.cmd, !.pc = pc]
    <3>2. q \in Writer /\ q.dev = writer[c].dev /\ q.port = writer[c].port
          /\ q.pc \in {"use", "oops", "copy"}
      BY <2>0 DEF Writer, WritersOK, Pc, Text
    <3>3. writer' = [writer EXCEPT ![c] = q]
      BY <2>0, <2>4 DEF Take, WritersOK, Writer
    <3>4. InOrder(q)
      <4>1. writer[c].dev = NoDev /\ writer[c].port = NoDev
        BY <2>0, <2>4 DEF Take, Is, WritersOK, InOrder, HasNoDev
      <4>2. QED BY <3>2, <4>1 DEF InOrder
    <3>5. UNCHANGED <<present, refs, lost>>
      BY <2>4 DEF Take
    <3> HIDE DEF q
    <3>6. QED BY <3>1, <3>2, <3>3, <3>4, <3>5, GoesOn
  <2>5. ASSUME NEW c \in Caller, Copy(c) PROVE HoldInv'
    <3>1. text' \in Text
      BY <2>0, <2>5 DEF Copy, Read, WritersOK, Text, NoText, Cmd
    <3>2. PICK args \in {text.args, <<>>} :
            writer' = [writer EXCEPT ![c].pc = "parse", ![c].args = args]
      BY <2>5 DEF Copy
    <3> DEFINE q == [writer[c] EXCEPT !.pc = "parse", !.args = args]
    <3>3. q \in Writer /\ q.dev = writer[c].dev /\ q.port = writer[c].port /\ q.pc = "parse"
      <4>1. args \in Seq(Arg)
        <5>1. text.args \in Seq(Arg) /\ <<>> \in Seq(Arg)
          BY <2>0 DEF WritersOK, Text
        <5>2. QED BY <3>2, <5>1
      <4>2. QED BY <2>0, <4>1 DEF Writer, Pc
    <3>4. writer' = [writer EXCEPT ![c] = q]
      BY <2>0, <3>2 DEF WritersOK, Writer
    <3>5. InOrder(q)
      <4>1. writer[c].dev = NoDev /\ writer[c].port = NoDev
        BY <2>0, <2>5 DEF Copy, Is, WritersOK, InOrder, HasNoDev
      <4>2. QED BY <3>3, <4>1 DEF InOrder
    <3>6. UNCHANGED <<present, refs, lost>>
      BY <2>5 DEF Copy
    <3> HIDE DEF q
    <3>7. QED BY <3>1, <3>3, <3>4, <3>5, <3>6, GoesOn
  <2>6. ASSUME NEW c \in Caller, Missing(c) \/ NexthopEnds(c) \/ Use(c) PROVE HoldInv'
    <3>1. Ends(c) /\ text' = text /\ lost' = lost /\ writer[c].pc # "port"
      BY <2>6 DEF Missing, NexthopEnds, Use, Is
    <3>2. present' \subseteq Dev
      BY <2>0, <2>6 DEF Missing, NexthopEnds, Use, WritersOK, Dev
    <3>3. Put(writer[c].dev) \/ (UNCHANGED refs /\ writer[c].dev = NoDev)
      BY <2>0, <2>6 DEF Missing, NexthopEnds, Use, Is, WritersOK, InOrder, HasNoDev
    <3>4. QED BY <3>1, <3>2, <3>3, EndedPut
  <2>7. ASSUME NEW c \in Caller, SendNexthop(c) PROVE HoldInv'
    <3>1. writer' = [writer EXCEPT ![c].pc = "sync", ![c].cmd = writer[c].cmd]
      BY <2>0, <2>7 DEF SendNexthop, WritersOK, Writer
    <3>2. writer[c].cmd \in Cmd /\ "sync" \in Pc \ {"parse", "port", "use"} /\ writer[c].pc = "send"
      BY <2>0, <2>7 DEF SendNexthop, Is, Writer, Pc
    <3>3. UNCHANGED <<text, present, refs, lost>>
      BY <2>7 DEF SendNexthop
    <3>4. QED BY <2>0, <2>2, <3>1, <3>2, <3>3 DEF WritersOK
  <2>8. CASE Outside \/ \E c \in Caller : InSync(c)
    BY <2>1, <2>8 DEF Outside, InSync
  <2>9. CASE UNCHANGED mirrorVars
    BY <2>1, <2>9 DEF mirrorVars
  <2>10. QED
    BY <2>3, <2>4, <2>5, <2>6, <2>7, <2>8, <2>9, ParseHolds, PortHolds, ReadyHolds
       DEF MirrorNext, Handler
<1>3. QED BY <1>1, <1>2, PTL DEF MirrorSpec

(* For any number of writers, devices, arguments and commands that cut     *)
(* each other's text: a device has the references its handlers have in     *)
(* hand, and those the two sloppy kinds of command have lost.              *)
THEOREM ReferencesExact == MirrorSpec => []HoldsExact
<1>1. HoldInv => HoldsExact
  BY DEF HoldInv
<1>2. QED BY <1>1, HoldInvariant, PTL
=============================================================================
