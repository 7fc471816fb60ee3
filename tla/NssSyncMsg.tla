---------------------------- MODULE NssSyncMsg ----------------------------
(***************************************************************************)
(* The synchronous messages of the NSS driver: nss_ipv4_tx_sync() and      *)
(* nss_ipv6_tx_sync(), and nss_phys_if_msg_sync(), which is the same       *)
(* without a callback of its own.  All callers of an interface share one   *)
(* semaphore, one completion, one response and one callback slot.  The     *)
(* answer comes in a softirq that may run at any moment, also after the    *)
(* caller has stopped waiting; the completion is never re-initialised.     *)
(*                                                                         *)
(* The NSS firmware is outside the repository: it answers a message with   *)
(* ACK or NACK, in any order, or never.                                    *)
(***************************************************************************)
EXTENDS Naturals, FiniteSets

CONSTANTS
  Caller,   \* the threads that call the synchronous function
  MaxReq,   \* bound: how many messages are sent
  WithCb    \* the messages carry a callback (only IPv4 and IPv6)

ASSUME SyncAssumption ==
  /\ MaxReq \in Nat
  /\ WithCb \in BOOLEAN
  /\ IsFiniteSet(Caller)

VARIABLES
  sem,       \* the semaphore
  done,      \* the counter of the completion
  response,  \* the shared response
  slot,      \* whose callback is stored, 0 for none
  call,      \* what each caller does
  issued,    \* how many messages have been made
  inFlight,  \* messages sent whose answer the host has not taken
  answer,    \* what the NSS decided on each message
  soft,      \* the softirq that runs the callback
  late       \* history: time-outs of messages that were still to be answered

vars == <<sem, done, response, slot, call, issued, inFlight, answer, soft, late>>
sync == vars   \* as the modules that use the messages call it

Req == 1..MaxReq
Status == {"success", "failure"}
CallPc == {"idle", "down", "send", "wait", "timedout", "read"}
Call == [pc : CallPc, req : Req \cup {0}, status : Status]
Soft == [pc : {"idle", "respond", "complete"},
         req : Req \cup {0}, cb : Req \cup {0}]

Quiet == [pc |-> "idle", req |-> 0, cb |-> 0]
OwnCb(r) == IF WithCb THEN r ELSE 0
Verdict(r) == IF answer[r] = "ack" THEN "success" ELSE "failure"
Goto(c, pc) == call' = [call EXCEPT ![c].pc = pc]

Init ==
  /\ sem = 1 /\ done = 0 /\ slot = 0
  /\ response = "success"      \* NSS_TX_SUCCESS is 0, as static data is
  /\ call = [c \in Caller |-> [pc |-> "idle", req |-> 0, status |-> "failure"]]
  /\ issued = 0
  /\ inFlight = {} /\ answer = [r \in Req |-> "none"]
  /\ soft = Quiet
  /\ late = 0

-----------------------------------------------------------------------------
(* The caller.                                                             *)

(* A message is made and the function called.                              *)
Begin(c) ==
  /\ call[c].pc = "idle" /\ issued < MaxReq
  /\ issued' = issued + 1
  /\ call' = [call EXCEPT ![c] = [pc |-> "down", req |-> issued + 1,
                                  status |-> "failure"]]
  /\ UNCHANGED <<sem, done, response, slot, inFlight, answer, soft, late>>

(* variant: a callback that is still stored is kept                        *)
Down_KeepsCb(c) ==
  /\ call[c].pc = "down" /\ sem > 0
  /\ sem' = sem - 1
  /\ slot' = IF slot = 0 THEN OwnCb(call[c].req) ELSE slot
  /\ Goto(c, "send")
  /\ UNCHANGED <<done, response, issued, inFlight, answer, soft, late>>

(* down() and the store of the callback; the softirq reads only the slot.  *)
Down(c) ==
  /\ call[c].pc = "down" /\ sem > 0
  /\ sem' = sem - 1
  /\ slot' = OwnCb(call[c].req)
  /\ Goto(c, "send")
  /\ UNCHANGED <<done, response, issued, inFlight, answer, soft, late>>

(* variant: the error path returns with the semaphore held                 *)
SendFails_KeepsSem(c) ==
  /\ call[c].pc = "send"
  /\ call' = [call EXCEPT ![c].pc = "idle", ![c].status = "failure"]
  /\ UNCHANGED <<sem, done, response, slot, issued, inFlight, answer, soft, late>>

(* nss_core_send_cmd() fails, for example because the queue is full.       *)
SendFails(c) ==
  /\ call[c].pc = "send"
  /\ sem' = sem + 1
  /\ call' = [call EXCEPT ![c].pc = "idle", ![c].status = "failure"]
  /\ UNCHANGED <<done, response, slot, issued, inFlight, answer, soft, late>>

Send(c) ==
  /\ call[c].pc = "send"
  /\ inFlight' = inFlight \cup {call[c].req}
  /\ Goto(c, "wait")
  /\ UNCHANGED <<sem, done, response, slot, issued, answer, soft, late>>

(* wait_for_completion_timeout() finds the completion done...              *)
Wake(c) ==
  /\ call[c].pc = "wait" /\ done > 0
  /\ done' = done - 1
  /\ Goto(c, "read")
  /\ UNCHANGED <<sem, response, slot, issued, inFlight, answer, soft, late>>

(* ...or the time is over.                                                 *)
Unanswered(r) == r \in inFlight \/ soft.req = r
Timeout(c) ==
  /\ call[c].pc = "wait" /\ done = 0
  /\ Goto(c, "timedout")
  /\ late' = IF Unanswered(call[c].req) THEN late + 1 ELSE late
  /\ UNCHANGED <<sem, done, response, slot, issued, inFlight, answer, soft>>

(* variant: the response is left as it was                                 *)
Fail_KeepsResponse(c) ==
  /\ call[c].pc = "timedout"
  /\ Goto(c, "read")
  /\ UNCHANGED <<sem, done, response, slot, issued, inFlight, answer, soft, late>>

(* variant: the time-out path releases the semaphore, and so does the end  *)
Fail_Ups(c) ==
  /\ call[c].pc = "timedout"
  /\ response' = "failure"
  /\ sem' = sem + 1
  /\ Goto(c, "read")
  /\ UNCHANGED <<done, slot, issued, inFlight, answer, soft, late>>

Fail(c) ==
  /\ call[c].pc = "timedout"
  /\ response' = "failure"
  /\ Goto(c, "read")
  /\ UNCHANGED <<sem, done, slot, issued, inFlight, answer, soft, late>>

Return(c) ==
  /\ call[c].pc = "read"
  /\ call' = [call EXCEPT ![c].pc = "idle", ![c].status = response]
  /\ sem' = sem + 1
  /\ UNCHANGED <<done, response, slot, issued, inFlight, answer, soft, late>>

-----------------------------------------------------------------------------
(* The NSS firmware (external).                                            *)

NssAnswer(r, a) ==
  /\ r \in inFlight /\ answer[r] = "none"
  /\ answer' = [answer EXCEPT ![r] = a]
  /\ UNCHANGED <<sem, done, response, slot, call, issued, inFlight, soft, late>>

NssLoses(r) ==
  /\ r \in inFlight /\ answer[r] = "none"
  /\ inFlight' = inFlight \ {r}
  /\ UNCHANGED <<sem, done, response, slot, call, issued, answer, soft, late>>

-----------------------------------------------------------------------------
(* The softirq: nss_ipv4_tx_sync_callback(), nss_phys_if_callback().       *)

(* It takes the stored callback and clears the slot...                     *)
SoftTake(r) ==
  /\ soft.pc = "idle" /\ r \in inFlight /\ answer[r] # "none"
  /\ inFlight' = inFlight \ {r}
  /\ soft' = [pc |-> "respond", req |-> r, cb |-> slot]
  /\ slot' = 0
  /\ UNCHANGED <<sem, done, response, call, issued, answer, late>>

(* variant: the error branch completes and falls through                   *)
SoftRespond_FallsThrough ==
  /\ soft.pc = "respond"
  /\ response' = Verdict(soft.req)
  /\ done' = IF answer[soft.req] = "nack" THEN done + 1 ELSE done
  /\ soft' = [soft EXCEPT !.pc = "complete"]
  /\ UNCHANGED <<sem, slot, call, issued, inFlight, answer, late>>

(* ...writes the response and runs the callback it took...                 *)
SoftRespond ==
  /\ soft.pc = "respond"
  /\ response' = Verdict(soft.req)
  /\ soft' = [soft EXCEPT !.pc = "complete"]
  /\ UNCHANGED <<sem, done, slot, call, issued, inFlight, answer, late>>

(* ...and wakes one waiter.                                                *)
SoftComplete ==
  /\ soft.pc = "complete"
  /\ done' = done + 1
  /\ soft' = Quiet
  /\ UNCHANGED <<sem, response, slot, call, issued, inFlight, answer, late>>

-----------------------------------------------------------------------------
WaitEnds(c) == Wake(c) \/ Timeout(c)
InCall(c) ==
  \/ Down(c) \/ SendFails(c) \/ Send(c) \/ WaitEnds(c) \/ Fail(c) \/ Return(c)
Answering == \/ \E r \in Req : SoftTake(r)
             \/ SoftRespond \/ SoftComplete

Next ==
  \/ \E c \in Caller : Begin(c) \/ InCall(c)
  \/ \E r \in Req : NssLoses(r) \/ \E a \in {"ack", "nack"} : NssAnswer(r, a)
  \/ Answering

Spec == Init /\ [][Next]_vars

-----------------------------------------------------------------------------
(* Properties.                                                             *)

(* Types; the semaphore stays binary.                                      *)
TypeOK ==
  /\ sem \in 0..1 /\ done \in Nat /\ late \in Nat
  /\ response \in Status
  /\ slot \in Req \cup {0}
  /\ call \in [Caller -> Call]
  /\ issued \in 0..MaxReq
  /\ inFlight \subseteq Req
  /\ answer \in [Req -> {"none", "ack", "nack"}]
  /\ soft \in Soft
  /\ \A c \in Caller : call[c].pc # "idle" => call[c].req # 0

(* As long as no answer came after its time limit, a call that returns     *)
(* success was acknowledged by the NSS, and one that is about to return    *)
(* the failure of an answered message was refused (nss_ipv4.c 289-317,     *)
(* nss_phys_if.c 221-248).                                                 *)
OwnAnswer ==
  late = 0 => \A c \in Caller :
    /\ call[c].status = "success" => answer[call[c].req] = "ack"
    /\ call[c].pc = "read" => response = Verdict(call[c].req)

(* As long as no answer came late, the callback that runs with an answer   *)
(* is the one of the message answered (nss_ipv4.c 167-187).                *)
CallbackIsOwn ==
  late = 0 /\ soft.pc = "respond" => soft.cb = OwnCb(soft.req)

(* Every completion left over belongs to a late answer: the calls fall     *)
(* behind the answers by no more than the number of time-outs, at any load *)
(* (one complete() per answer, nss_phys_if.c 146-157).                     *)
Waiting == {c \in Caller : call[c].pc = "wait"}
StraysBounded ==
  done + Cardinality(inFlight) + (IF soft.pc = "idle" THEN 0 ELSE 1)
    <= late + Cardinality(Waiting)

(* Every call returns, whatever the NSS does: the error paths release the  *)
(* semaphore and the wait has a time limit.                                *)
CallReturns == \A c \in Caller : call[c].pc # "idle" ~> call[c].pc = "idle"
=============================================================================
