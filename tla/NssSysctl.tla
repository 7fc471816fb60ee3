----------------------------- MODULE NssSysctl -----------------------------
(***************************************************************************)
(* The two sysctl files of nss_ipv4.c (nss_ipv6.c has the same two) whose  *)
(* writers send a synchronous message: the acceleration mode, which is     *)
(* written first and restored when the message fails, and the map from     *)
(* DSCP to priority, which is written after the message succeeded.         *)
(* The kernel lets several writers into the handlers at once.              *)
(*                                                                         *)
(* The map has one entry here: entries do not influence each other.        *)
(***************************************************************************)
EXTENDS NssSyncMsg

CONSTANTS
  Value,  \* what may be written
  First   \* the value at boot, on the host and in the NSS

ASSUME SysctlAssumption == First \in Value

VARIABLES
  job,       \* what each writer does
  modeHost,  \* nss_ipv4_accel_mode_cfg
  mapHost,   \* the entry of mapping[]
  modeNss, mapNss,  \* what the NSS applies
  msg,       \* the content of each message
  overlap    \* history: files of which two writers were in the handler at once

host == <<modeHost, mapHost>>
firmware == <<modeNss, mapNss>>
sysctlVars == <<sync, job, host, firmware, msg, overlap>>

Job == [pc : {"idle", "store", "build", "mode", "dscp"}, old : Value, new : Value]
File == {"mode", "dscp"}
Msg == [kind : File, val : Value]

SysctlInit ==
  /\ Init
  /\ job = [c \in Caller |-> [pc |-> "idle", old |-> First, new |-> First]]
  /\ modeHost = First /\ mapHost = First
  /\ modeNss = First /\ mapNss = First
  /\ msg = [r \in Req |-> [kind |-> "mode", val |-> First]]
  /\ overlap = {}

Becomes(c, pc) == job' = [job EXCEPT ![c].pc = pc]
Returned(c) == call[c].pc = "idle"

ModeWriters == {c \in Caller : job[c].pc \in {"store", "build", "mode"}}
DscpWriters == {c \in Caller : job[c].pc = "dscp"}

(* A writer enters the handler of a file, perhaps while others are in it.  *)
Enters(file, inside) ==
  overlap' = IF inside = {} THEN overlap ELSE overlap \cup {file}

-----------------------------------------------------------------------------
(* ipv4_accel_mode: snapshot, write, build the message from the variable.  *)

ModeSnapshot(c) ==
  /\ job[c].pc = "idle" /\ issued < MaxReq
  /\ \E v \in Value :
       job' = [job EXCEPT ![c] = [pc |-> "store", old |-> modeHost, new |-> v]]
  /\ Enters("mode", ModeWriters)
  /\ UNCHANGED <<sync, host, firmware, msg>>

ModeStore(c) ==
  /\ job[c].pc = "store"
  /\ modeHost' = job[c].new
  /\ Becomes(c, "build")
  /\ UNCHANGED <<sync, mapHost, firmware, msg, overlap>>

ModeSend(c) ==
  /\ job[c].pc = "build"
  /\ Begin(c)
  /\ msg' = [msg EXCEPT ![issued + 1] = [kind |-> "mode", val |-> modeHost]]
  /\ Becomes(c, "mode")
  /\ UNCHANGED <<host, firmware, overlap>>

(* variant: the value is not restored when the message fails               *)
ModeEnd_NoRestore(c) ==
  /\ job[c].pc = "mode" /\ Returned(c)
  /\ Becomes(c, "idle")
  /\ UNCHANGED <<sync, host, firmware, msg, overlap>>

ModeEnd(c) ==
  /\ job[c].pc = "mode" /\ Returned(c)
  /\ modeHost' = IF call[c].status = "success" THEN modeHost ELSE job[c].old
  /\ Becomes(c, "idle")
  /\ UNCHANGED <<sync, mapHost, firmware, msg, overlap>>

-----------------------------------------------------------------------------
(* ipv4_dscp_map: send, then write.                                        *)

DscpSend(c) ==
  /\ job[c].pc = "idle"
  /\ Begin(c)
  /\ \E v \in Value :
       /\ msg' = [msg EXCEPT ![issued + 1] = [kind |-> "dscp", val |-> v]]
       /\ job' = [job EXCEPT ![c].pc = "dscp", ![c].new = v]
  /\ Enters("dscp", DscpWriters)
  /\ UNCHANGED <<host, firmware>>

(* variant: the map is written whatever the NSS answered                   *)
DscpEnd_Always(c) ==
  /\ job[c].pc = "dscp" /\ Returned(c)
  /\ mapHost' = job[c].new
  /\ Becomes(c, "idle")
  /\ UNCHANGED <<sync, modeHost, firmware, msg, overlap>>

DscpEnd(c) ==
  /\ job[c].pc = "dscp" /\ Returned(c)
  /\ mapHost' = IF call[c].status = "success" THEN job[c].new ELSE mapHost
  /\ Becomes(c, "idle")
  /\ UNCHANGED <<sync, modeHost, firmware, msg, overlap>>

-----------------------------------------------------------------------------
(* The NSS (external) applies what it acknowledges.                        *)

NssDecides(r, a) ==
  /\ NssAnswer(r, a)
  /\ modeNss' = IF a = "ack" /\ msg[r].kind = "mode" THEN msg[r].val ELSE modeNss
  /\ mapNss' = IF a = "ack" /\ msg[r].kind = "dscp" THEN msg[r].val ELSE mapNss
  /\ UNCHANGED <<job, host, msg, overlap>>

SyncStep ==
  /\ \/ \E c \in Caller : InCall(c)
     \/ \E r \in Req : NssLoses(r)
     \/ Answering
  /\ UNCHANGED <<job, host, firmware, msg, overlap>>

SysctlNext ==
  \/ \E c \in Caller :
       \/ ModeSnapshot(c) \/ ModeStore(c) \/ ModeSend(c) \/ ModeEnd(c)
       \/ DscpSend(c) \/ DscpEnd(c)
  \/ \E r \in Req, a \in {"ack", "nack"} : NssDecides(r, a)
  \/ SyncStep

SysctlSpec == SysctlInit /\ [][SysctlNext]_sysctlVars

-----------------------------------------------------------------------------
(* Properties.                                                             *)

SysctlTypeOK ==
  /\ TypeOK
  /\ job \in [Caller -> Job]
  /\ modeHost \in Value /\ mapHost \in Value
  /\ modeNss \in Value /\ mapNss \in Value
  /\ msg \in [Req -> Msg]
  /\ overlap \subseteq File

Still == \A c \in Caller : job[c].pc = "idle"

(* The map on the host is the one the NSS applies whenever nobody is in    *)
(* its handler, however writers of the two files interleave, provided no   *)
(* answer came late and no two writers of the map overlapped: a refused or *)
(* failed message changes nothing (nss_ipv4.c, 681-692).                   *)
MapMirrorsNss == late = 0 /\ "dscp" \notin overlap /\ Still => mapHost = mapNss

(* So is the acceleration mode, which is written before the NSS has agreed *)
(* and restored when it does not (612-639), under the same conditions.     *)
ModeMirrorsNss == late = 0 /\ "mode" \notin overlap /\ Still => modeHost = modeNss

-----------------------------------------------------------------------------
(* What the repository says of the program, and the code does not do.      *)

(* nss_ipv4.c 687-690: the NSS firmware has acknowledged the configuration, *)
(* so the mapping table on the host is updated as well.  It is false with  *)
(* two writers of the map, which are answered in one order and change the  *)
(* map on the host in the other (line 691).                                *)
MapsAgree == late = 0 /\ Still => mapHost = mapNss
=============================================================================
