----------------------------- MODULE MirrorCtl -----------------------------
(***************************************************************************)
(* The commands written to /proc/sys/dev/nss/mirror/config                 *)
(* (nss_mirror_ctl.c): each is parsed argument by argument, finds network  *)
(* devices by name, which takes a reference on them, and calls the mirror  *)
(* driver; the two about promiscuous ports end in a synchronous message of *)
(* the physical interface.  Several writers share the buffer the kernel    *)
(* copies a command to and strsep() cuts.                                  *)
(*                                                                         *)
(* The mirror driver (nss_mirror_create() and so on) is outside the        *)
(* repository; what matters of it is that devices come and go and that any *)
(* call may fail.                                                          *)
(***************************************************************************)
EXTENDS NssSyncMsg, Sequences

CONSTANTS
  Port,      \* the physical devices
  Mirror,    \* names for mirror devices
  NoDev,
  MaxWrites, \* bound: how many more commands are written
  MaxArgs    \* bound: arguments of a command

ASSUME MirrorAssumption ==
  /\ NoDev \notin Port \cup Mirror
  /\ MaxWrites \in Nat /\ MaxArgs \in Nat

VARIABLES
  text,     \* nss_mirror_config_data
  writer,   \* what each writer does
  present,  \* the devices that can be found by name
  refs,     \* references on each device taken by writers
  writes,
  lost      \* history: references lost by a command that named two mirror
            \* devices, or that was rejected after it named one by a parser
            \* that then gives nothing back

mirrorVars == <<sync, text, writer, present, refs, writes, lost>>

Dev == Port \cup Mirror
(* "switch" is enable, disable and reset_nexthop, whose parsers are alike. *)
Cmd == {"create", "configure", "switch", "set_nexthop", "display", "destroy",
        "pmc_enable", "pmc_disable"}
Keys(cmd) == CASE cmd = "configure"   -> {"mirrordev", "value"}
               [] cmd = "set_nexthop" -> {"mirrordev", "value"}
               [] cmd = "pmc_enable"  -> {"mirrordev", "devname"}
               [] cmd = "pmc_disable" -> {"devname"}
               [] OTHER               -> {"mirrordev"}
Arg == [key : {"mirrordev"}, val : Mirror] \cup [key : {"devname"}, val : Port]
         \cup [key : {"value"}, val : {"good", "bad"}]
ArgLists == UNION {[1..n -> Arg] : n \in 0..MaxArgs}

(* The field cut says that nothing is left after the first word.           *)
NoText == [cmd |-> "create", args |-> <<>>, cut |-> TRUE]
(* dev is the mirror device a handler has found, port the physical one.    *)
Idle == [pc |-> "idle", cmd |-> "create", args |-> <<>>, dev |-> NoDev, port |-> NoDev,
         seen |-> {}]
Pc == {"idle", "take", "copy", "parse", "port", "use", "send", "sync", "oops"}

MirrorInit ==
  /\ Init
  /\ text = NoText
  /\ writer = [c \in Caller |-> Idle]
  /\ present = Dev   \* the mirror devices have been made before
  /\ refs = [d \in Dev |-> 0]
  /\ writes = 0 /\ lost = [d \in Dev |-> 0]

Is(c, pc) == writer[c].pc = pc
Ends(c) == writer' = [writer EXCEPT ![c] = Idle]
(* dev_get_by_name() and dev_put().                                        *)
Hold(d) == refs' = [refs EXCEPT ![d] = @ + 1]
Less(count, d) == IF d = NoDev THEN count ELSE [count EXCEPT ![d] = @ - 1]
Put(d) == refs' = Less(refs, d)
Loses(d) == lost' = IF d = NoDev THEN lost ELSE [lost EXCEPT ![d] = @ + 1]

(* The buffer as far as another writer will still read it.                 *)
Read(c, rest) == text' = IF \E d \in Caller \ {c} : writer[d].pc \in {"take", "copy"}
                         THEN rest ELSE NoText

-----------------------------------------------------------------------------
(* proc_dostring() copies a command to the buffer: a bare word, or one     *)
(* that a blank and any arguments follow...                                *)
Write(c) ==
  /\ Is(c, "idle") /\ writes < MaxWrites
  /\ writes' = writes + 1
  /\ \E cmd \in Cmd :
       \/ text' = [cmd |-> cmd, args |-> <<>>, cut |-> TRUE]
       \/ \E args \in ArgLists : text' = [cmd |-> cmd, args |-> args, cut |-> FALSE]
  /\ writer' = [writer EXCEPT ![c].pc = "take"]
  /\ UNCHANGED <<sync, present, refs, lost>>

(* ...the handler cuts off the first word.  After a bare word, also one    *)
(* that another writer has left of his command, strsep() leaves a null     *)
(* pointer, from which every parser copies; create has no parser...        *)
Take(c) ==
  /\ Is(c, "take")
  /\ IF text.cmd = "create" \/ text.cut THEN Read(c, [text EXCEPT !.cut = TRUE])
     ELSE text' = [text EXCEPT !.cut = TRUE]
  /\ writer' = [writer EXCEPT ![c].cmd = text.cmd,
                        ![c].pc = IF text.cmd = "create" THEN "use"
                                  ELSE IF text.cut THEN "oops" ELSE "copy"]
  /\ UNCHANGED <<sync, present, refs, writes, lost>>

(* ...and the parser copies what then follows: the arguments of the last   *)
(* command written, or nothing when that one was shorter.                  *)
Copy(c) ==
  /\ Is(c, "copy")
  /\ \E args \in {text.args} \cup (IF text.cut THEN {} ELSE {<<>>}) :
       writer' = [writer EXCEPT ![c].pc = "parse", ![c].args = args]
  /\ Read(c, text)
  /\ UNCHANGED <<sync, present, refs, writes, lost>>

-----------------------------------------------------------------------------
(* An argument.                                                            *)

Next1(c) == Head(writer[c].args)
Taken(c, d) == [writer EXCEPT ![c].args = Tail(@), ![c].dev = d,
                           ![c].seen = @ \cup {Next1(c).key}]

(* A command is rejected: only the parser of ingress_pmc_enable gives back *)
(* the mirror device it had found.                                         *)
PutsOnError_Never(cmd) == FALSE
PutsOnError(cmd) == cmd = "pmc_enable"

Reject(c) ==
  /\ Ends(c)
  /\ IF PutsOnError(writer[c].cmd) THEN Put(writer[c].dev) ELSE UNCHANGED refs
  /\ IF writer[c].cmd = "pmc_enable" THEN UNCHANGED lost ELSE Loses(writer[c].dev)

(* mirrordev= of every command but display: the device found takes the     *)
(* place of one found before, whose reference is lost.                     *)
ParseMirror(c) ==
  /\ Next1(c).key = "mirrordev" /\ writer[c].cmd # "display"
  /\ Loses(writer[c].dev)
  /\ IF Next1(c).val \notin present
     THEN Ends(c) /\ UNCHANGED refs
     ELSE \/ Hold(Next1(c).val) /\ writer' = Taken(c, Next1(c).val)
          \* ingress_pmc_enable: it is no mirror interface, and put again
          \/ writer[c].cmd = "pmc_enable" /\ Ends(c) /\ UNCHANGED refs

(* devname=: the device is found...                                        *)
ParsePort(c) ==
  /\ Next1(c).key = "devname"
  /\ IF Next1(c).val \notin present THEN Reject(c)
     ELSE /\ Hold(Next1(c).val)
          /\ writer' = [writer EXCEPT ![c].pc = "port", ![c].port = Next1(c).val]
          /\ UNCHANGED lost

(* variant: the device is not put when it has no interface number          *)
PortEnd_KeepsPort(c) ==
  /\ Is(c, "port")
  /\ \/ Put(writer[c].port)
        /\ writer' = [Taken(c, writer[c].dev) EXCEPT ![c].pc = "parse", ![c].port = NoDev]
     \/ Put(writer[c].dev) /\ Ends(c)
  /\ UNCHANGED <<sync, text, present, writes, lost>>

(* ...its interface number asked for, and it is put; without a number the  *)
(* command is rejected.                                                    *)
PortEnd(c) ==
  /\ Is(c, "port")
  /\ \/ Put(writer[c].port)
        /\ writer' = [Taken(c, writer[c].dev) EXCEPT ![c].pc = "parse", ![c].port = NoDev]
     \/ refs' = Less(Less(refs, writer[c].port), writer[c].dev) /\ Ends(c)
  /\ UNCHANGED <<sync, text, present, writes, lost>>

ParseValue(c) ==
  /\ Next1(c).key = "value"
  /\ IF Next1(c).val = "bad" THEN Reject(c)
     ELSE writer' = Taken(c, writer[c].dev) /\ UNCHANGED <<refs, lost>>

ParseName(c) ==
  /\ Next1(c).key = "mirrordev" /\ writer[c].cmd = "display"
  /\ writer' = Taken(c, writer[c].dev) /\ UNCHANGED <<refs, lost>>

Parse(c) ==
  /\ Is(c, "parse") /\ writer[c].args # <<>>
  /\ IF Next1(c).key \notin Keys(writer[c].cmd) THEN Reject(c)
     ELSE ParseMirror(c) \/ ParsePort(c) \/ ParseValue(c) \/ ParseName(c)
  /\ UNCHANGED <<sync, text, present, writes>>

(* After the last argument: something is missing...                        *)
Needs(cmd) == CASE cmd = "set_nexthop" -> {"mirrordev", "value"}
                [] cmd = "pmc_enable"  -> {"mirrordev", "devname"}
                [] OTHER               -> Keys(cmd) \ {"value"}
Missing(c) ==
  /\ Is(c, "parse") /\ writer[c].args = <<>>
  /\ ~(Needs(writer[c].cmd) \subseteq writer[c].seen)
  /\ Ends(c) /\ Put(writer[c].dev)
  /\ UNCHANGED <<sync, text, present, writes, lost>>

(* ...or the command can be carried out.  ingress_pmc_enable asks whether  *)
(* the mirror device is down and puts it before the message; display looks *)
(* for its device only now.                                                *)
Ready(c) ==
  /\ Is(c, "parse") /\ writer[c].args = <<>>
  /\ Needs(writer[c].cmd) \subseteq writer[c].seen
  /\ CASE writer[c].cmd \in {"pmc_enable", "pmc_disable"} ->
            /\ Put(writer[c].dev)
            /\ Ends(c) \/ writer' = [writer EXCEPT ![c].pc = "send", ![c].dev = NoDev]
       [] writer[c].cmd = "display" ->
            \/ Ends(c) /\ UNCHANGED refs
            \/ \E d \in present : Hold(d) /\ writer' = [writer EXCEPT ![c].pc = "use", ![c].dev = d]
       [] OTHER -> writer' = [writer EXCEPT ![c].pc = "use"] /\ UNCHANGED refs
  /\ UNCHANGED <<sync, text, present, writes, lost>>

-----------------------------------------------------------------------------
(* The call of the mirror driver, which may fail, and the end.             *)
Use(c) ==
  /\ Is(c, "use")
  /\ Ends(c) /\ Put(writer[c].dev)
  /\ \/ UNCHANGED present
     \/ /\ writer[c].cmd = "create"
        /\ \E d \in Mirror \ present : refs[d] = 0 /\ present' = present \cup {d}
     \/ writer[c].cmd = "destroy" /\ present' = present \ ({writer[c].dev} \cap Mirror)
  /\ UNCHANGED <<sync, text, writes, lost>>

(* nss_phys_if_set_nexthop(), nss_phys_if_reset_nexthop().                 *)
SendNexthop(c) ==
  /\ Is(c, "send")
  /\ Begin(c)
  /\ writer' = [writer EXCEPT ![c].pc = "sync"]
  /\ UNCHANGED <<text, present, refs, writes, lost>>

NexthopEnds(c) ==
  /\ Is(c, "sync") /\ call[c].pc = "idle"
  /\ Ends(c)
  /\ UNCHANGED <<sync, text, present, refs, writes, lost>>

Handler(c) ==
  \/ Take(c) \/ Copy(c) \/ Parse(c) \/ PortEnd(c) \/ Missing(c) \/ Ready(c) \/ Use(c)
  \/ SendNexthop(c) \/ NexthopEnds(c)
InSync(c) == InCall(c) /\ UNCHANGED <<text, writer, present, refs, writes, lost>>
Outside ==
  /\ \/ \E q \in Req : NssLoses(q) \/ \E a \in {"ack", "nack"} : NssAnswer(q, a)
     \/ Answering
  /\ UNCHANGED <<text, writer, present, refs, writes, lost>>

MirrorNext == Outside \/ \E c \in Caller : Write(c) \/ Handler(c) \/ InSync(c)

MirrorSpec == MirrorInit /\ [][MirrorNext]_mirrorVars

(* As for the messages: threads run, the time limit comes.                 *)
MirrorFairSpec ==
  /\ MirrorSpec
  /\ \A c \in Caller :
       /\ WF_mirrorVars(Handler(c) \/ InSync(c))
       /\ SF_mirrorVars(Down(c) /\ InSync(c))   \* a semaphore is handed on in order

-----------------------------------------------------------------------------
(* Every reference on a device is in the hands of a handler that will give *)
(* it back, but for those lost by the two kinds of command lost counts     *)
(* (each dev_put() of nss_mirror_ctl.c, lines 162 to 813): no other path,  *)
(* of success or of error, leaves one behind, and none gives back what     *)
(* another handler relies on, also when two writers cut each other's       *)
(* command (the note at line 116).                                         *)
Holders(d) ==
  Cardinality({c \in Caller : writer[c].dev = d}) + Cardinality({c \in Caller : writer[c].port = d})
HoldsExact == \A d \in Dev : refs[d] = Holders(d) + lost[d]
=============================================================================
