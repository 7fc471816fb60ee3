---------------------------- MODULE NssConnCfg ----------------------------
(***************************************************************************)
(* The change of the number of connections, in nss_ipv4.c and nss_ipv6.c.  *)
(* A call checks the count and asks the NSS for the size of its tables;    *)
(* the callback of the answer allocates the tables and sends them as a     *)
(* rule; the callback of that answer takes the count over, or frees the    *)
(* tables.  Both families share one limit, each knows the count of the     *)
(* other, and nothing keeps two changes apart.                             *)
(*                                                                         *)
(* Both families talk to the same NSS core, whose queues keep the order:   *)
(* messages are numbered, the NSS answers them in turn and the softirq     *)
(* handles the answers in turn.  Callbacks do not interrupt each other.    *)
(***************************************************************************)
EXTENDS Naturals

CONSTANTS
  Caller,     \* threads that call nss_ipv4_update_conn_count() or the IPv6 one
  Count,      \* the counts they ask for
  Initial,    \* NSS_DEFAULT_NUM_CONN
  FwDefault,  \* NSS_FW_DEFAULT_NUM_CONN
  Quantum,    \* NSS_NUM_CONN_QUANTA_MASK + 1
  MinConn,    \* NSS_MIN_NUM_CONN
  MaxTotal,   \* NSS_MAX_TOTAL_NUM_CONN_IPV4_IPV6
  MaxMsg      \* bound: messages sent

ASSUME ConnAssumption ==
  /\ Count \subseteq Nat
  /\ {Initial, FwDefault, MinConn, MaxTotal, MaxMsg} \subseteq Nat
  /\ Quantum \in Nat \ {0}
  /\ Initial + Initial <= MaxTotal

VARIABLES
  cfg,       \* nss_ipv4_conn_cfg and nss_ipv6_conn_cfg
  maxConn,   \* what nss_core_update_max_ipv4_conn() was told last (external)
  ct,        \* the connection table information of each family
  heap,      \* the tables allocated
  call,      \* what each caller does
  msg,       \* the messages, in the order they are sent
  verdict,   \* the answers
  sent, answered, handled,  \* how many
  uses,      \* the last rule the NSS acknowledged, per family (external)
  overlap    \* history: a call passed its check during another change

vars == <<cfg, maxConn, ct, heap, call, msg, verdict, sent, answered, handled,
          uses, overlap>>
queue == <<msg, verdict, sent, answered, handled>>

Family == {"v4", "v6"}
Other(f) == IF f = "v4" THEN "v6" ELSE "v4"
Id == 1..MaxMsg
Num == Count \cup {Initial}

(* A table is named by the message whose answer made the host allocate it. *)
Table == Id \X {"ce", "cme"}
NoTable == <<0, "none">>
Tables == [ce : Table \cup {NoTable}, cme : Table \cup {NoTable}]
Msg == [kind : {"size", "rule"}, fam : Family, num : Num, tables : Tables]
Idle == [pc |-> "idle", fam |-> "v4", num |-> Initial]
None == [ce |-> NoTable, cme |-> NoTable]
Pages(t) == {t.ce, t.cme} \ {NoTable}

Init ==
  /\ cfg = [f \in Family |-> Initial]
  /\ maxConn = [f \in Family |-> Initial]
  /\ ct = [f \in Family |-> None]
  /\ heap = {}
  /\ call = [c \in Caller |-> Idle]
  /\ msg = [i \in Id |-> [kind |-> "size", fam |-> "v4", num |-> Initial, tables |-> None]]
  /\ verdict = [i \in Id |-> "none"]
  /\ sent = 0 /\ answered = 0 /\ handled = 0
  /\ uses = [f \in Family |-> [num |-> Initial, tables |-> None]]
  /\ overlap = FALSE

Post(m) == sent < MaxMsg /\ sent' = sent + 1 /\ msg' = [msg EXCEPT ![sent + 1] = m]

-----------------------------------------------------------------------------
(* nss_ipv4_update_conn_count(): the other checks return at once.          *)

Checked(c) == call[c].pc = "checked"
Changing == handled < sent \/ \E c \in Caller : Checked(c)

(* variant: the connections of the other family are forgotten              *)
Accepts_Alone(f, n) ==
  n # FwDefault /\ n % Quantum = 0 /\ n <= MaxTotal /\ n >= MinConn

Accepts(f, n) ==
  /\ n # FwDefault
  /\ n % Quantum = 0
  /\ n + cfg[Other(f)] <= MaxTotal
  /\ n >= MinConn

Check(c, f, n) ==
  /\ call[c].pc = "idle"
  /\ Accepts(f, n)
  /\ call' = [call EXCEPT ![c] = [pc |-> "checked", fam |-> f, num |-> n]]
  /\ overlap' = (overlap \/ Changing)
  /\ UNCHANGED <<cfg, maxConn, ct, heap, queue, uses>>

AskSize(c) ==
  /\ Checked(c)
  /\ Post([kind |-> "size", fam |-> call[c].fam, num |-> call[c].num, tables |-> None])
  /\ call' = [call EXCEPT ![c] = Idle]
  /\ UNCHANGED <<cfg, maxConn, ct, heap, verdict, answered, handled, uses, overlap>>

AskFails(c) ==
  /\ Checked(c)
  /\ call' = [call EXCEPT ![c] = Idle]
  /\ UNCHANGED <<cfg, maxConn, ct, heap, queue, uses, overlap>>

-----------------------------------------------------------------------------
(* The NSS (external).  Only sizes can be empty.                           *)

NssAnswers(v) ==
  /\ answered < sent
  /\ LET m == msg[answered + 1] IN
       /\ m.kind = "rule" => v # "empty"
       /\ uses' = IF m.kind = "rule" /\ v = "ack"
                  THEN [uses EXCEPT ![m.fam] = [num |-> m.num, tables |-> m.tables]]
                  ELSE uses
  /\ verdict' = [verdict EXCEPT ![answered + 1] = v]
  /\ answered' = answered + 1
  /\ UNCHANGED <<cfg, maxConn, ct, heap, call, msg, sent, handled, overlap>>

-----------------------------------------------------------------------------
(* The callbacks, for the next answer.                                     *)

Next_Id == handled + 1
Handles(kind, f, v) ==
  /\ handled < answered
  /\ handled' = handled + 1
  /\ msg[Next_Id].kind = kind /\ msg[Next_Id].fam = f /\ verdict[Next_Id] = v

(* variant: the pointers survive the release                               *)
FreeTables_KeepsPointers(f, t) == heap' = heap \ Pages(t) /\ UNCHANGED ct

(* nss_ipv4_free_conn_tables(), with the pointers t.  The sizes kept and   *)
(* cleared beside them (lines 509-510 and 584-594) are left out: they give *)
(* the order of what is allocated and released.                            *)
FreeTables(f, t) ==
  /\ heap' = heap \ Pages(t)
  /\ ct' = [ct EXCEPT ![f] = None]

(* nss_core_update_max_ipv4_conn()                                         *)
Refused(f) == maxConn' = [maxConn EXCEPT ![f] = FwDefault]

SizeRefused(f) ==
  /\ Handles("size", f, "nack")
  /\ Refused(f)
  /\ UNCHANGED <<cfg, ct, heap, call, msg, verdict, sent, answered, uses, overlap>>

(* The sizes are stored; without them nothing is allocated.                *)
SizeEmpty(f) ==
  /\ Handles("size", f, "empty")
  /\ UNCHANGED <<cfg, maxConn, ct, heap, call, msg, verdict, sent, answered, uses,
                 overlap>>

(* The first allocation fails: the other pointer is still the old one.     *)
FirstAllocFails(f) ==
  /\ Handles("size", f, "ack")
  /\ FreeTables(f, [ct[f] EXCEPT !.ce = NoTable])
  /\ UNCHANGED <<cfg, maxConn, call, msg, verdict, sent, answered, uses, overlap>>

(* variant: the table information is cleared, the tables are not released *)
LaterFails_Forgets(f) ==
  /\ Handles("size", f, "ack")
  /\ heap' = heap \cup {<<Next_Id, "ce">>}
  /\ ct' = [ct EXCEPT ![f] = None]
  /\ UNCHANGED <<cfg, maxConn, call, msg, verdict, sent, answered, uses, overlap>>

(* The second allocation (IPv6), a DMA mapping or the transmission fails:  *)
(* what was allocated here is released, the old pointers are overwritten.  *)
LaterFails(f) ==
  /\ Handles("size", f, "ack")
  /\ ct' = [ct EXCEPT ![f] = None]
  /\ UNCHANGED <<cfg, maxConn, heap, call, msg, verdict, sent, answered, uses, overlap>>

(* The tables that the answer i to a size message can lead to: IPv4 tests  *)
(* the first pointer again in place of the second.                         *)
Allocated(f, i) ==
  {[ce |-> <<i, "ce">>, cme |-> p] :
     p \in {<<i, "cme">>} \cup IF f = "v4" THEN {NoTable} ELSE {}}

SendRule(f) ==
  /\ Handles("size", f, "ack")
  /\ \E t \in Allocated(f, Next_Id) :
       /\ heap' = heap \cup Pages(t)
       /\ ct' = [ct EXCEPT ![f] = t]
       /\ Post([kind |-> "rule", fam |-> f, num |-> msg[Next_Id].num, tables |-> t])
  /\ UNCHANGED <<cfg, maxConn, call, verdict, answered, uses, overlap>>

(* variant: the error branch does not return                               *)
RuleRefused_FallsThrough(f) ==
  /\ Handles("rule", f, "nack")
  /\ Refused(f)
  /\ FreeTables(f, ct[f])
  /\ cfg' = [cfg EXCEPT ![f] = msg[Next_Id].num]
  /\ UNCHANGED <<call, msg, verdict, sent, answered, uses, overlap>>

RuleRefused(f) ==
  /\ Handles("rule", f, "nack")
  /\ Refused(f)
  /\ FreeTables(f, ct[f])
  /\ UNCHANGED <<cfg, call, msg, verdict, sent, answered, uses, overlap>>

(* variant: the tables are released when the rule is through               *)
RuleAccepted_Frees(f) ==
  /\ Handles("rule", f, "ack")
  /\ cfg' = [cfg EXCEPT ![f] = msg[Next_Id].num]
  /\ FreeTables(f, ct[f])
  /\ UNCHANGED <<maxConn, call, msg, verdict, sent, answered, uses, overlap>>

(* variant: the total is stored, as the check computes it                  *)
RuleAccepted_Sum(f) ==
  /\ Handles("rule", f, "ack")
  /\ cfg' = [cfg EXCEPT ![f] = msg[Next_Id].num + cfg[Other(f)]]
  /\ UNCHANGED <<maxConn, ct, heap, call, msg, verdict, sent, answered, uses, overlap>>

RuleAccepted(f) ==
  /\ Handles("rule", f, "ack")
  /\ cfg' = [cfg EXCEPT ![f] = msg[Next_Id].num]
  /\ UNCHANGED <<maxConn, ct, heap, call, msg, verdict, sent, answered, uses, overlap>>

Callback(f) ==
  \/ SizeRefused(f) \/ SizeEmpty(f) \/ FirstAllocFails(f) \/ LaterFails(f)
  \/ SendRule(f) \/ RuleRefused(f) \/ RuleAccepted(f)

Next ==
  \/ \E c \in Caller :
       \/ \E f \in Family, n \in Count : Check(c, f, n)
       \/ AskSize(c) \/ AskFails(c)
  \/ \E v \in {"ack", "empty", "nack"} : NssAnswers(v)
  \/ \E f \in Family : Callback(f)

Spec == Init /\ [][Next]_vars

-----------------------------------------------------------------------------
(* Properties.                                                             *)

TypeOK ==
  /\ cfg \in [Family -> Num] /\ maxConn \in [Family -> Num \cup {FwDefault}]
  /\ ct \in [Family -> Tables]
  /\ heap \subseteq Table
  /\ call \in [Caller -> [pc : {"idle", "checked"}, fam : Family, num : Num]]
  /\ msg \in [Id -> Msg]
  /\ verdict \in [Id -> {"none", "ack", "empty", "nack"}]
  /\ {sent, answered, handled} \subseteq 0..MaxMsg
  /\ handled <= answered /\ answered <= sent
  /\ uses \in [Family -> [num : Num, tables : Tables]]
  /\ overlap \in BOOLEAN

(* While changes follow each other, the counts of both families together   *)
(* stay within the limit (nss_ipv4.c lines 543-562, nss_ipv6.c alike).     *)
TotalWithinLimit == cfg["v4"] + cfg["v6"] <= MaxTotal
TotalKept == ~overlap => TotalWithinLimit

(* Except for rules whose answer is on its way, the host counts what the   *)
(* NSS acknowledged last, at any load (nss_ipv4.c lines 407-421).          *)
Underway(f) ==
  \E i \in Id : /\ handled < i /\ i <= answered
                /\ msg[i].kind = "rule" /\ msg[i].fam = f /\ verdict[i] = "ack"
CountMatches == \A f \in Family : Underway(f) \/ cfg[f] = uses[f].num

Asked(f) ==
  {i \in Id : i <= sent /\ msg[i].kind = "size" /\ msg[i].fam = f}
Once(f) == \A i, j \in Asked(f) : i = j
Owner(f, p) == msg[p[1]].fam = f

(* Whatever the order of answers and failures, the host's pointers lead to *)
(* allocated tables, so that no table is released twice (lines 584-596);   *)
(* and as long as a family was changed once only, every table that is      *)
(* allocated for it has its pointer, so that none is lost (427-490).       *)
TablesAccounted ==
  \A f \in Family :
    /\ Pages(ct[f]) \subseteq heap
    /\ Once(f) => {p \in heap : Owner(f, p)} = Pages(ct[f])

(* As long as a family was changed once only, the NSS uses no table that   *)
(* was released (lines 427-490 and 407-417).                               *)
NssTablesBacked ==
  \A f \in Family : Once(f) => Pages(uses[f].tables) \subseteq heap
=============================================================================
