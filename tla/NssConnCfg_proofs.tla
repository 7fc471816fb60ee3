------------------------- MODULE NssConnCfg_proofs -------------------------
(***************************************************************************)
(* Proofs about NssConnCfg, for any callers, counts and limits.            *)
(***************************************************************************)
EXTENDS NssConnCfg, TLAPS

LEMMA Arith ==
  /\ \A n \in Num : n \in Nat
  /\ \A i \in Id : i \in Nat /\ i >= 1 /\ i <= MaxMsg
  /\ MaxTotal \in Nat /\ MaxMsg \in Nat /\ Initial \in Nat
BY ConnAssumption DEF ConnAssumption, Num, Id

LEMMA Families ==
  /\ \A f \in Family : Other(f) \in Family /\ Other(f) # f /\ Other(Other(f)) = f
  /\ \A f, g \in Family : g # f => g = Other(f)
BY DEF Family, Other

LEMMA AllocatedTables ==
  ASSUME NEW f \in Family, NEW i \in Id, NEW t \in Allocated(f, i)
  PROVE  /\ t \in Tables
         /\ Pages(t) \subseteq Table
         /\ \A p \in Pages(t) : p[1] = i
<1>1. PICK p \in {<<i, "cme">>, NoTable} : t = [ce |-> <<i, "ce">>, cme |-> p]
  BY DEF Allocated
<1>2. <<i, "ce">> \in Table /\ <<i, "cme">> \in Table
  BY DEF Table
<1>3. t \in Tables
  BY <1>1, <1>2 DEF Tables
<1>4. Pages(t) \subseteq {<<i, "ce">>, <<i, "cme">>}
  BY <1>1 DEF Pages
<1>5. QED BY <1>2, <1>3, <1>4

LEMMA NoneTables == None \in Tables /\ Pages(None) = {}
BY DEF None, Tables, Pages

-----------------------------------------------------------------------------
(* Types; a posted message leaves the older ones alone.                    *)
LEMMA PostStep ==
  ASSUME TypeOK, NEW m \in Msg, Post(m)
  PROVE  /\ sent + 1 \in Id /\ sent' = sent + 1 /\ sent' \in 0..MaxMsg
         /\ msg' \in [Id -> Msg] /\ msg'[sent + 1] = m
         /\ \A i \in Id : i # sent + 1 => msg'[i] = msg[i]
BY Arith DEF TypeOK, Post, Id

LEMMA HandlesStep ==
  ASSUME TypeOK, NEW kind, NEW f \in Family, NEW v, Handles(kind, f, v)
  PROVE  /\ Next_Id \in Id /\ Next_Id <= answered /\ handled' = Next_Id
         /\ handled \in Nat /\ answered \in Nat /\ sent \in Nat
         /\ handled' \in 0..MaxMsg /\ Next_Id <= sent
         /\ msg[Next_Id] \in Msg /\ msg[Next_Id].num \in Num
         /\ msg[Next_Id].kind = kind /\ msg[Next_Id].fam = f /\ verdict[Next_Id] = v
<1>1. /\ handled \in Nat /\ answered \in Nat /\ sent \in Nat
      /\ answered <= sent /\ sent <= MaxMsg /\ handled < answered
  BY Arith DEF TypeOK, Handles
<1>2. Next_Id \in Id /\ Next_Id <= answered /\ Next_Id <= sent /\ Next_Id \in 0..MaxMsg
  BY <1>1, Arith DEF Next_Id, Id
<1>3. handled' = Next_Id
  BY DEF Handles, Next_Id
<1>4. msg[Next_Id] \in Msg
  BY <1>2 DEF TypeOK
<1>5. msg[Next_Id].num \in Num
  BY <1>4 DEF Msg
<1>6. QED BY <1>1, <1>2, <1>3, <1>4, <1>5 DEF Handles

LEMMA InitTypes == Init => TypeOK
<1>1. SUFFICES ASSUME Init PROVE TypeOK
  OBVIOUS
<1>2. Idle \in [pc : {"idle", "checked"}, fam : Family, num : Num]
  BY DEF Idle, Family, Num
<1>3. [kind |-> "size", fam |-> "v4", num |-> Initial, tables |-> None] \in Msg
  BY NoneTables DEF Msg, Family, Num
<1>4. [num |-> Initial, tables |-> None] \in [num : Num, tables : Tables]
  BY NoneTables DEF Num
<1>5. {sent, answered, handled} \subseteq 0..MaxMsg /\ handled <= answered /\ answered <= sent
  BY <1>1, Arith DEF Init
<1>6. /\ cfg \in [Family -> Num] /\ maxConn \in [Family -> Num \cup {FwDefault}]
      /\ ct \in [Family -> Tables] /\ heap \subseteq Table
  BY <1>1, NoneTables DEF Init, Num
<1>7. QED
  BY <1>1, <1>2, <1>3, <1>4, <1>5, <1>6 DEF Init, TypeOK

LEMMA TypeStep == TypeOK /\ [Next]_vars => TypeOK'
<1> SUFFICES ASSUME TypeOK, [Next]_vars PROVE TypeOK'
  OBVIOUS
<1> DEFINE C == [pc : {"idle", "checked"}, fam : Family, num : Num]
<1>1. ASSUME NEW c \in Caller, NEW f \in Family, NEW n \in Count, Check(c, f, n)
      PROVE  TypeOK'
  <2>1. [pc |-> "checked", fam |-> f, num |-> n] \in C
    BY DEF Num
  <2>2. overlap' \in BOOLEAN
    BY <1>1 DEF Check, TypeOK, Changing, Checked
  <2>3. QED BY <1>1, <2>1, <2>2 DEF Check, TypeOK, queue
<1>2. ASSUME NEW c \in Caller, AskSize(c) PROVE TypeOK'
  <2> DEFINE m == [kind |-> "size", fam |-> call[c].fam, num |-> call[c].num,
                   tables |-> None]
  <2>1. Idle \in C
    BY DEF Idle, Family, Num
  <2>2. m \in Msg
    BY NoneTables DEF TypeOK, Msg
  <2>3. Post(m)
    BY <1>2 DEF AskSize
  <2> HIDE DEF m
  <2>4. /\ sent' = sent + 1 /\ sent' \in 0..MaxMsg /\ msg' \in [Id -> Msg]
    BY <2>2, <2>3, PostStep
  <2>5. answered <= sent'
    BY <2>4 DEF TypeOK
  <2>6. QED BY <1>2, <2>1, <2>4, <2>5 DEF AskSize, TypeOK
<1>3. ASSUME NEW c \in Caller, AskFails(c) PROVE TypeOK'
  <2>1. Idle \in C
    BY DEF Idle, Family, Num
  <2>2. QED BY <1>3, <2>1 DEF AskFails, TypeOK, queue
<1>4. ASSUME NEW v \in {"ack", "empty", "nack"}, NssAnswers(v) PROVE TypeOK'
  <2>1. answered + 1 \in Id /\ answered' = answered + 1 /\ answered' <= sent
        /\ answered' \in 0..MaxMsg /\ handled <= answered'
    BY <1>4, Arith DEF NssAnswers, TypeOK, Id
  <2>2. msg[answered + 1] \in Msg
    BY <2>1 DEF TypeOK
  <2>3. uses' \in [Family -> [num : Num, tables : Tables]]
    BY <1>4, <2>2 DEF NssAnswers, TypeOK, Msg
  <2>4. QED BY <1>4, <2>1, <2>3 DEF NssAnswers, TypeOK
<1>5. ASSUME NEW f \in Family, Callback(f) PROVE TypeOK'
  <2>1. \E kind \in {"size", "rule"}, v \in {"ack", "empty", "nack"} : Handles(kind, f, v)
    BY <1>5 DEF Callback, SizeRefused, SizeEmpty, FirstAllocFails, LaterFails, SendRule,
       RuleRefused, RuleAccepted
  <2>2. /\ Next_Id \in Id /\ Next_Id <= answered /\ handled' = Next_Id
        /\ handled' \in 0..MaxMsg /\ msg[Next_Id] \in Msg /\ msg[Next_Id].num \in Num
        /\ msg[Next_Id].fam = f
    BY <2>1, HandlesStep
  <2>3. CASE SizeRefused(f) \/ SizeEmpty(f) \/ FirstAllocFails(f) \/ LaterFails(f)
             \/ RuleRefused(f) \/ RuleAccepted(f)
    <3>1. maxConn' \in [Family -> Num \cup {FwDefault}]
      BY <2>3 DEF SizeRefused, SizeEmpty, FirstAllocFails, LaterFails, RuleRefused,
         RuleAccepted, Refused, TypeOK
    <3>2. ct' \in [Family -> Tables] /\ heap' \subseteq Table
      BY <2>3, NoneTables DEF SizeRefused, SizeEmpty, FirstAllocFails, LaterFails,
         RuleRefused, RuleAccepted, FreeTables, TypeOK
    <3>3. cfg' \in [Family -> Num]
      BY <2>2, <2>3 DEF SizeRefused, SizeEmpty, FirstAllocFails, LaterFails,
         RuleRefused, RuleAccepted, TypeOK
    <3>4. UNCHANGED <<call, msg, verdict, sent, answered, uses, overlap>>
      BY <2>3 DEF SizeRefused, SizeEmpty, FirstAllocFails, LaterFails,
         RuleRefused, RuleAccepted
    <3>5. QED BY <2>2, <3>1, <3>2, <3>3, <3>4 DEF TypeOK
  <2>4. CASE SendRule(f)
    <3>1. PICK t \in Allocated(f, Next_Id) :
            /\ heap' = heap \cup Pages(t)
            /\ ct' = [ct EXCEPT ![f] = t]
            /\ Post([kind |-> "rule", fam |-> f, num |-> msg[Next_Id].num, tables |-> t])
      BY <2>4 DEF SendRule
    <3> DEFINE m == [kind |-> "rule", fam |-> f, num |-> msg[Next_Id].num, tables |-> t]
    <3>2. t \in Tables /\ Pages(t) \subseteq Table
      BY <2>2, AllocatedTables
    <3>3. m \in Msg /\ Post(m)
      BY <2>2, <3>1, <3>2 DEF Msg
    <3> HIDE DEF m
    <3>4. sent' = sent + 1 /\ sent' \in 0..MaxMsg /\ msg' \in [Id -> Msg]
      BY <3>3, PostStep
    <3>5. answered <= sent'
      BY <3>4 DEF TypeOK
    <3>6. ct' \in [Family -> Tables] /\ heap' \subseteq Table
      BY <3>1, <3>2 DEF TypeOK
    <3>7. UNCHANGED <<cfg, maxConn, call, verdict, answered, uses, overlap>>
      BY <2>4 DEF SendRule
    <3>8. QED BY <2>2, <3>4, <3>5, <3>6, <3>7 DEF TypeOK
  <2>5. QED BY <1>5, <2>3, <2>4 DEF Callback
<1>6. CASE UNCHANGED vars
  BY <1>6 DEF vars, queue, TypeOK
<1>7. QED BY <1>1, <1>2, <1>3, <1>4, <1>5, <1>6 DEF Next

(* Types hold, and answers are handled in the order of the messages.       *)
THEOREM ConnTypes == Spec => []TypeOK
<1>1. QED BY InitTypes, TypeStep, PTL DEF Spec

-----------------------------------------------------------------------------
(* While changes follow each other there is one of them at most: a caller  *)
(* that passed the check, or one message; its count fits beside the other  *)
(* family's.                                                               *)
Fits(f, n) == n + cfg[Other(f)] <= MaxTotal

Calm ==
  ~overlap =>
    /\ TotalWithinLimit
    /\ \A c \in Caller : Checked(c) =>
         /\ handled = sent
         /\ Fits(call[c].fam, call[c].num)
         /\ \A d \in Caller : Checked(d) => d = c
    /\ handled < sent =>
         /\ sent = handled + 1
         /\ Fits(msg[Next_Id].fam, msg[Next_Id].num)

LEMMA TakesOver ==
  ASSUME TypeOK, NEW f \in Family, NEW n \in Num, Fits(f, n),
         cfg' = [cfg EXCEPT ![f] = n]
  PROVE  TotalWithinLimit'
BY Arith DEF TypeOK, Fits, TotalWithinLimit, Family, Other

LEMMA CalmStep == TypeOK /\ TypeOK' /\ Calm /\ [Next]_vars => Calm'
<1> SUFFICES ASSUME TypeOK, TypeOK', Calm, [Next]_vars, ~overlap' PROVE Calm'
  BY DEF Calm
<1>0. handled \in Nat /\ answered \in Nat /\ sent \in Nat
      /\ handled <= answered /\ answered <= sent
  BY Arith DEF TypeOK
<1>1. ASSUME NEW c \in Caller, NEW f \in Family, NEW n \in Count, Check(c, f, n)
      PROVE  Calm'
  <2>1. ~overlap /\ ~Changing /\ handled = sent
    <3>1. ~overlap /\ ~Changing
      BY <1>1, Zenon DEF Check
    <3>2. QED BY <1>0, <3>1 DEF Changing
  <2>2. Fits(f, n)
    BY <1>1 DEF Check, Accepts, Fits
  <2>3. /\ call'[c].fam = f /\ call'[c].num = n
        /\ \A d \in Caller : d # c => call'[d] = call[d]
    BY <1>1 DEF Check, TypeOK
  <2>4. UNCHANGED <<cfg, sent, handled>>
    BY <1>1 DEF Check, queue
  <2>5. \A d \in Caller : Checked(d)' => d = c
    BY <2>1, <2>3 DEF Checked, Changing
  <2>6. QED
    BY <1>0, <2>1, <2>2, <2>3, <2>4, <2>5 DEF Calm, TotalWithinLimit, Fits
<1>2. ASSUME NEW c \in Caller, AskSize(c) PROVE Calm'
  <2> DEFINE m == [kind |-> "size", fam |-> call[c].fam, num |-> call[c].num,
                   tables |-> None]
  <2>1. /\ handled = sent /\ Fits(call[c].fam, call[c].num) /\ TotalWithinLimit
        /\ \A d \in Caller : Checked(d) => d = c
    BY <1>2 DEF AskSize, Calm
  <2>2. m \in Msg /\ m.fam = call[c].fam /\ m.num = call[c].num
    BY NoneTables DEF TypeOK, Msg
  <2>3. Post(m)
    BY <1>2 DEF AskSize
  <2> HIDE DEF m
  <2>4. sent' = sent + 1 /\ msg'[sent + 1] = m
    BY <2>2, <2>3, PostStep
  <2>5. UNCHANGED <<cfg, handled>> /\ call' = [call EXCEPT ![c] = Idle]
    BY <1>2 DEF AskSize
  <2>6. \A d \in Caller : ~Checked(d)'
    BY <2>1, <2>5 DEF Checked, Idle, TypeOK
  <2>7. QED
    BY <1>0, <2>1, <2>2, <2>4, <2>5, <2>6 DEF Calm, TotalWithinLimit, Fits, Next_Id
<1>3. ASSUME NEW c \in Caller, AskFails(c) PROVE Calm'
  <2>1. UNCHANGED <<cfg, queue, overlap>> /\ call' = [call EXCEPT ![c] = Idle]
    BY <1>3 DEF AskFails
  <2>2. \A d \in Caller : Checked(d)' => Checked(d) /\ call'[d] = call[d]
    BY <2>1 DEF Checked, Idle, TypeOK
  <2>3. QED
    BY <2>1, <2>2 DEF Calm, queue, TotalWithinLimit, Fits, Next_Id
<1>4. ASSUME NEW v \in {"ack", "empty", "nack"}, NssAnswers(v) PROVE Calm'
  BY <1>4 DEF NssAnswers, Calm, TotalWithinLimit, Fits, Next_Id, Checked
<1>5. ASSUME NEW f \in Family, Callback(f) PROVE Calm'
  <2>1. \E kind \in {"size", "rule"}, v \in {"ack", "empty", "nack"} : Handles(kind, f, v)
    BY <1>5 DEF Callback, SizeRefused, SizeEmpty, FirstAllocFails, LaterFails, SendRule,
       RuleRefused, RuleAccepted
  <2>2. /\ Next_Id \in Id /\ Next_Id <= answered /\ handled' = Next_Id
        /\ Next_Id <= sent /\ msg[Next_Id].fam = f /\ msg[Next_Id].num \in Num
    BY <2>1, HandlesStep
  <2>3. call' = call /\ ~overlap
    BY <1>5 DEF Callback, SizeRefused, SizeEmpty, FirstAllocFails, LaterFails, SendRule,
       RuleRefused, RuleAccepted
  <2>4. handled < sent /\ Next_Id = handled + 1
    BY <1>0, <2>2 DEF Next_Id
  <2>5. sent = Next_Id /\ Fits(f, msg[Next_Id].num) /\ TotalWithinLimit
    BY <2>2, <2>3, <2>4 DEF Calm
  <2>6. \A c \in Caller : ~Checked(c)'
    BY <1>0, <2>3, <2>4 DEF Calm, Checked
  <2>7. CASE SizeRefused(f) \/ SizeEmpty(f) \/ FirstAllocFails(f) \/ LaterFails(f)
             \/ RuleRefused(f)
    <3>1. UNCHANGED <<cfg, sent>>
      BY <2>7 DEF SizeRefused, SizeEmpty, FirstAllocFails, LaterFails, RuleRefused
    <3>2. QED BY <1>0, <2>2, <2>5, <2>6, <3>1 DEF Calm, TotalWithinLimit
  <2>8. CASE RuleAccepted(f)
    <3>1. sent' = sent /\ cfg' = [cfg EXCEPT ![f] = msg[Next_Id].num]
      BY <2>8 DEF RuleAccepted
    <3>2. TotalWithinLimit'
      BY <2>2, <2>5, <3>1, TakesOver
    <3>3. QED BY <1>0, <2>2, <2>5, <2>6, <3>1, <3>2 DEF Calm
  <2>9. CASE SendRule(f)
    <3>1. PICK t \in Allocated(f, Next_Id) :
            Post([kind |-> "rule", fam |-> f, num |-> msg[Next_Id].num, tables |-> t])
      BY <2>9 DEF SendRule
    <3> DEFINE m == [kind |-> "rule", fam |-> f, num |-> msg[Next_Id].num, tables |-> t]
    <3>2. m \in Msg /\ Post(m) /\ m.fam = f /\ m.num = msg[Next_Id].num
      BY <2>2, <3>1, AllocatedTables DEF Msg
    <3> HIDE DEF m
    <3>3. sent' = sent + 1 /\ msg'[sent + 1] = m
      BY <3>2, PostStep
    <3>4. cfg' = cfg
      BY <2>9 DEF SendRule
    <3>5. Next_Id' = sent + 1
      BY <2>2, <2>5 DEF Next_Id
    <3>6. QED
      BY <1>0, <2>2, <2>5, <2>6, <3>2, <3>3, <3>4, <3>5 DEF Calm, TotalWithinLimit, Fits
  <2>10. QED BY <1>5, <2>7, <2>8, <2>9 DEF Callback
<1>6. CASE UNCHANGED vars
  BY <1>6 DEF vars, queue, Calm, TotalWithinLimit, Fits, Next_Id, Checked
<1>7. QED BY <1>1, <1>2, <1>3, <1>4, <1>5, <1>6 DEF Next

(* The counts of both families together stay within the limit as long as   *)
(* no change starts during another one.                                    *)
THEOREM TotalSafe == Spec => []TotalKept
<1>1. Init => Calm
  BY ConnAssumption DEF Init, Calm, TotalWithinLimit, Checked, Idle, Family, ConnAssumption
<1>2. Calm => TotalKept
  BY DEF Calm, TotalKept
<1>3. QED BY <1>1, <1>2, CalmStep, ConnTypes, PTL DEF Spec

-----------------------------------------------------------------------------
(* The acknowledged rules of a family whose answers have not been handled  *)
(* and, when there are none, the agreement of both sides.                  *)
Pending(f) ==
  {i \in Id : /\ handled < i /\ i <= answered
              /\ msg[i].kind = "rule" /\ msg[i].fam = f /\ verdict[i] = "ack"}

Agreed(f) ==
  /\ Pending(f) = {} => cfg[f] = uses[f].num
  /\ \A i \in Pending(f) :
       (\A j \in Pending(f) : j <= i) => uses[f].num = msg[i].num

Agreement == \A f \in Family : Agreed(f)

LEMMA AgreedKept ==
  ASSUME NEW f \in Family, Agreed(f), Pending(f)' = Pending(f),
         \A i \in Pending(f) : msg'[i] = msg[i],
         cfg'[f] = cfg[f], uses'[f] = uses[f]
  PROVE  Agreed(f)'
BY DEF Agreed

LEMMA AgreementStep == TypeOK /\ TypeOK' /\ Agreement /\ [Next]_vars => Agreement'
<1> SUFFICES ASSUME TypeOK, TypeOK', Agreement, [Next]_vars PROVE Agreement'
  OBVIOUS
<1>0. handled \in Nat /\ answered \in Nat /\ sent \in Nat
      /\ handled <= answered /\ answered <= sent /\ sent <= MaxMsg
  BY Arith DEF TypeOK
<1>1. ASSUME UNCHANGED <<cfg, uses, verdict, answered, handled>>,
             \A i \in Id : i <= answered => msg'[i] = msg[i]
      PROVE  Agreement'
  <2>1. ASSUME NEW f \in Family PROVE Agreed(f)'
    <3>1. Pending(f)' = Pending(f) /\ \A i \in Pending(f) : msg'[i] = msg[i]
      BY <1>1 DEF Pending
    <3>2. QED BY <1>1, <3>1, AgreedKept DEF Agreement
  <2>2. QED BY <2>1 DEF Agreement
<1>2. ASSUME NEW m \in Msg, Post(m) PROVE \A i \in Id : i <= answered => msg'[i] = msg[i]
  BY <1>0, <1>2, Arith, PostStep
<1>3. ASSUME NEW c \in Caller, AskSize(c) PROVE Agreement'
  <2> DEFINE m == [kind |-> "size", fam |-> call[c].fam, num |-> call[c].num,
                   tables |-> None]
  <2>1. m \in Msg
    BY NoneTables DEF TypeOK, Msg
  <2>2. Post(m)
    BY <1>3 DEF AskSize
  <2> HIDE DEF m
  <2>3. QED BY <1>1, <1>2, <1>3, <2>1, <2>2 DEF AskSize
<1>4. CASE \E c \in Caller : AskFails(c) \/ \E f \in Family, n \in Count : Check(c, f, n)
  BY <1>1, <1>4 DEF AskFails, Check, queue
<1>5. ASSUME NEW v \in {"ack", "empty", "nack"}, NssAnswers(v) PROVE Agreement'
  <2> DEFINE k == answered + 1
  <2>1. k \in Id /\ answered' = k /\ k > answered /\ handled' = handled /\ handled < k
        /\ msg' = msg /\ cfg' = cfg
    BY <1>0, <1>5, Arith DEF NssAnswers, Id
  <2>2. verdict'[k] = v /\ \A i \in Id : i # k => verdict'[i] = verdict[i]
    BY <1>5, <2>1 DEF NssAnswers, TypeOK
  <2>3. ASSUME NEW f \in Family, msg[k].kind = "rule" /\ msg[k].fam = f /\ v = "ack"
        PROVE  Agreed(f)'
    <3>1. uses'[f].num = msg[k].num
      BY <1>5, <2>3 DEF NssAnswers, TypeOK
    <3>2. k \in Pending(f)'
      BY <2>1, <2>2, <2>3 DEF Pending
    <3>3. \A i \in Pending(f)' : i # k => i < k
      BY <2>1, Arith DEF Pending
    <3>4. \A i \in Pending(f)' : (\A j \in Pending(f)' : j <= i) => i = k
      <4>1. \A i \in Pending(f)' : i \in Nat
        BY Arith DEF Pending
      <4>2. QED BY <2>1, <3>2, <3>3, <4>1, Arith
    <3>5. QED BY <2>1, <3>1, <3>2, <3>4 DEF Agreed
  <2>4. ASSUME NEW f \in Family, ~(msg[k].kind = "rule" /\ msg[k].fam = f /\ v = "ack")
        PROVE  Agreed(f)'
    <3>1. uses'[f] = uses[f]
      BY <1>5, <2>4 DEF NssAnswers, TypeOK
    <3>2. \A i \in Id : i <= k /\ i # k <=> i <= answered
      BY <1>0, Arith
    <3>3. Pending(f)' = Pending(f)
      BY <2>1, <2>2, <2>4, <3>2 DEF Pending
    <3>4. QED BY <2>1, <3>1, <3>3, AgreedKept DEF Agreement
  <2>5. QED BY <2>3, <2>4 DEF Agreement
<1>6. ASSUME NEW f \in Family, Callback(f) PROVE Agreement'
  <2>1. PICK kind \in {"size", "rule"}, v \in {"ack", "empty", "nack"} : Handles(kind, f, v)
    BY <1>6 DEF Callback, SizeRefused, SizeEmpty, FirstAllocFails, LaterFails, SendRule,
       RuleRefused, RuleAccepted
  <2>2. /\ Next_Id \in Id /\ Next_Id <= answered /\ handled' = Next_Id
        /\ msg[Next_Id] \in Msg /\ msg[Next_Id].num \in Num
        /\ msg[Next_Id].kind = kind /\ msg[Next_Id].fam = f /\ verdict[Next_Id] = v
    BY <2>1, HandlesStep
  <2>3. Next_Id = handled + 1
    BY DEF Next_Id
  <2>4. \A i \in Id : handled < i <=> (i = Next_Id \/ Next_Id < i)
    BY <1>0, <2>3, Arith
  <2>5. UNCHANGED <<uses, verdict, answered>>
    BY <1>6 DEF Callback, SizeRefused, SizeEmpty, FirstAllocFails, LaterFails, SendRule,
       RuleRefused, RuleAccepted
  <2>6. \A i \in Id : i <= answered => msg'[i] = msg[i]
    <3>1. CASE SendRule(f)
      <4>1. PICK t \in Allocated(f, Next_Id) :
              Post([kind |-> "rule", fam |-> f, num |-> msg[Next_Id].num, tables |-> t])
        BY <3>1 DEF SendRule
      <4> DEFINE m == [kind |-> "rule", fam |-> f, num |-> msg[Next_Id].num, tables |-> t]
      <4>2. m \in Msg /\ Post(m)
        BY <2>2, <4>1, AllocatedTables DEF Msg
      <4> HIDE DEF m
      <4>3. QED BY <1>2, <4>2
    <3>2. CASE ~SendRule(f)
      BY <1>6, <3>2 DEF Callback, SizeRefused, SizeEmpty, FirstAllocFails, LaterFails,
         RuleRefused, RuleAccepted
    <3>3. QED BY <3>1, <3>2
  <2>7. \A g \in Family : Pending(g)' = Pending(g) \ {Next_Id}
    <3> SUFFICES ASSUME NEW g \in Family PROVE Pending(g)' = Pending(g) \ {Next_Id}
      OBVIOUS
    <3>1. \A i \in Id : handled' < i <=> handled < i /\ i # Next_Id
      BY <1>0, <2>2, <2>3, <2>4, Arith
    <3>2. \A i \in Id : i \in Pending(g)' <=> i \in Pending(g) \ {Next_Id}
      BY <2>5, <2>6, <3>1 DEF Pending
    <3>3. Pending(g)' \subseteq Id /\ Pending(g) \subseteq Id
      BY DEF Pending
    <3>4. QED BY <3>2, <3>3
  <2>8. CASE RuleAccepted(f)
    <3>1. Next_Id \in Pending(f) /\ cfg' = [cfg EXCEPT ![f] = msg[Next_Id].num]
      BY <1>0, <2>2, <2>3, <2>8 DEF RuleAccepted, Pending, Handles
    <3>2. \A j \in Pending(f) : j >= Next_Id
      <4>1. \A j \in Pending(f) : j \in Id /\ handled < j
        BY DEF Pending
      <4>2. QED BY <2>2, <2>4, <4>1, Arith
    <3>3. Pending(f)' = {} => uses[f].num = msg[Next_Id].num
      <4>1. Pending(f)' = {} => \A j \in Pending(f) : j = Next_Id
        BY <2>7
      <4>2. Pending(f)' = {} => \A j \in Pending(f) : j <= Next_Id
        BY <2>2, <4>1, Arith
      <4>3. QED BY <3>1, <4>2 DEF Agreement, Agreed
    <3>4. cfg'[f] = msg[Next_Id].num
      BY <3>1 DEF TypeOK
    <3>5. ASSUME NEW i \in Pending(f)', \A j \in Pending(f)' : j <= i
          PROVE  uses[f].num = msg'[i].num
      <4>1. i \in Pending(f) /\ i \in Id /\ i <= answered
        BY <2>7 DEF Pending
      <4>2. Next_Id <= i
        BY <3>2, <4>1
      <4>3. \A j \in Pending(f) : j <= i
        BY <2>7, <3>5, <4>2
      <4>4. QED BY <2>6, <4>1, <4>3 DEF Agreement, Agreed
    <3>6. Agreed(f)'
      BY <2>5, <3>3, <3>4, <3>5 DEF Agreed
    <3>7. ASSUME NEW g \in Family, g # f PROVE Agreed(g)'
      <4>1. Next_Id \notin Pending(g)
        BY <2>2, <3>7 DEF Pending
      <4>2. Pending(g)' = Pending(g)
        BY <2>7, <4>1
      <4>3. cfg'[g] = cfg[g]
        BY <3>1, <3>7 DEF TypeOK
      <4>4. \A i \in Pending(g) : msg'[i] = msg[i]
        BY <2>6 DEF Pending
      <4>5. QED BY <2>5, <4>2, <4>3, <4>4, AgreedKept DEF Agreement
    <3>8. QED BY <3>6, <3>7 DEF Agreement
  <2>9. CASE ~RuleAccepted(f)
    <3>1. cfg' = cfg /\ ~(msg[Next_Id].kind = "rule" /\ verdict[Next_Id] = "ack")
      BY <1>6, <2>9 DEF Callback, SizeRefused, SizeEmpty, FirstAllocFails, LaterFails,
         SendRule, RuleRefused, Handles
    <3>2. ASSUME NEW g \in Family PROVE Agreed(g)'
      <4>1. Next_Id \notin Pending(g)
        BY <3>1 DEF Pending
      <4>2. Pending(g)' = Pending(g)
        BY <2>7, <4>1
      <4>3. \A i \in Pending(g) : msg'[i] = msg[i]
        BY <2>6 DEF Pending
      <4>4. QED BY <2>5, <3>1, <4>2, <4>3, AgreedKept DEF Agreement
    <3>3. QED BY <3>2 DEF Agreement
  <2>10. QED BY <2>8, <2>9
<1>7. CASE UNCHANGED vars
  BY <1>1, <1>7 DEF vars, queue
<1>8. QED BY <1>3, <1>4, <1>5, <1>6, <1>7 DEF Next

(* Except for answers on their way, the host counts what the NSS           *)
(* acknowledged last, whatever the number and order of the changes.        *)
THEOREM CountAgreed == Spec => []CountMatches
<1>1. Init => Agreement
  <2> SUFFICES ASSUME Init, NEW f \in Family PROVE Agreed(f)
    BY DEF Agreement
  <2>1. Pending(f) = {}
    BY DEF Init, Pending
  <2>2. QED BY <2>1 DEF Init, Agreed
<1>2. Agreement => CountMatches
  BY DEF Agreement, Agreed, Pending, CountMatches, Underway
<1>3. QED BY <1>1, <1>2, AgreementStep, ConnTypes, PTL DEF Spec

-----------------------------------------------------------------------------
(* The tables.  Pointers lead to allocated tables of the own family, and   *)
(* tables belong to size messages that were handled.                       *)
Pointers(f) == \A p \in Pages(ct[f]) : p \in heap /\ Owner(f, p)
HeapInv == \A p \in heap : p[1] <= handled /\ msg[p[1]].kind = "size"

Rules(f) == {i \in Id : i <= sent /\ msg[i].kind = "rule" /\ msg[i].fam = f}
Refusal(i) == i <= handled /\ verdict[i] = "nack"

(* A family that was changed once has one rule at most, sent for the size  *)
(* it asked for; its tables are the host's unless it was refused.          *)
Lossless(f) == \A p \in heap : Owner(f, p) => p \in Pages(ct[f])
OneRule(f) ==
  \A i \in Rules(f) :
    /\ \E s \in Asked(f) : s <= handled
    /\ \A j \in Rules(f) : j = i
    /\ Refusal(i) \/ ct[f] = msg[i].tables
UseInv(f) ==
  \/ uses[f].tables = None
  \/ \E i \in Rules(f) : /\ i <= answered /\ verdict[i] = "ack"
                         /\ uses[f].tables = msg[i].tables

OnceInv(f) == Once(f) => Lossless(f) /\ OneRule(f) /\ UseInv(f)
TableInv == HeapInv /\ \A f \in Family : Pointers(f) /\ OnceInv(f)

LEMMA TableMeaning ==
  TypeOK /\ TableInv => TablesAccounted /\ NssTablesBacked
<1> SUFFICES ASSUME TypeOK, TableInv PROVE TablesAccounted /\ NssTablesBacked
  OBVIOUS
<1>1. ASSUME NEW f \in Family PROVE Pages(ct[f]) \subseteq heap
  BY <1>1 DEF TableInv, Pointers
<1>2. ASSUME NEW f \in Family, Once(f) PROVE {p \in heap : Owner(f, p)} = Pages(ct[f])
  BY <1>1, <1>2 DEF TableInv, Pointers, OnceInv, Lossless
<1>3. ASSUME NEW f \in Family, Once(f) PROVE Pages(uses[f].tables) \subseteq heap
  <2>1. CASE uses[f].tables = None
    BY <2>1, NoneTables
  <2>2. CASE uses[f].tables # None
    <3>1. PICK i \in Rules(f) : verdict[i] = "ack" /\ uses[f].tables = msg[i].tables
      BY <1>3, <2>2 DEF TableInv, OnceInv, UseInv
    <3>2. ct[f] = msg[i].tables
      BY <1>3, <3>1 DEF TableInv, OnceInv, OneRule, Refusal
    <3>3. QED BY <3>1, <3>2 DEF TableInv, Pointers
  <2>3. QED BY <2>1, <2>2
<1>4. QED BY <1>1, <1>2, <1>3 DEF TablesAccounted, NssTablesBacked

(* The messages that were sent stay, and new ones come on top.             *)
Keeps == /\ sent' \in Nat /\ sent <= sent'
         /\ \A i \in Id : i <= sent => msg'[i] = msg[i]

LEMMA PostKeeps ==
  ASSUME TypeOK, NEW m \in Msg, Post(m)
  PROVE  Keeps
<1>1. sent \in Nat /\ sent' = sent + 1
  BY PostStep, Arith DEF TypeOK
<1>2. QED BY <1>1, PostStep, Arith DEF Keeps

LEMMA OnceBefore ==
  ASSUME TypeOK, Keeps, NEW f \in Family
  PROVE  /\ Once(f)' => Once(f)
         /\ Asked(f) \subseteq Asked(f)' /\ Rules(f) \subseteq Rules(f)'
<1>1. sent \in Nat
  BY Arith DEF TypeOK
<1>2. Asked(f) \subseteq Asked(f)' /\ Rules(f) \subseteq Rules(f)'
  BY <1>1, Arith DEF Keeps, Asked, Rules
<1>3. QED BY <1>2 DEF Once

(* A step that leaves a family's tables, answers and rules alone.          *)
LEMMA OtherFamily ==
  ASSUME TypeOK, TableInv, Keeps, NEW f \in Family,
         handled' \in Nat, handled <= handled', answered' \in Nat, answered <= answered',
         \A i \in Id : i <= answered => verdict'[i] = verdict[i],
         ct'[f] = ct[f], uses'[f] = uses[f] \/ UseInv(f)', Rules(f)' = Rules(f),
         \A p \in heap : Owner(f, p) => p \in heap',
         \A p \in heap' : p \in heap \/ ~Owner(f, p)'
  PROVE  Pointers(f)' /\ OnceInv(f)'
<1>0. handled \in Nat /\ answered \in Nat /\ sent \in Nat
      /\ handled <= answered /\ answered <= sent
  BY Arith DEF TypeOK
<1>1. \A p \in heap : p[1] \in Id /\ p[1] <= sent
  <2>1. \A p \in heap : p[1] \in Id /\ p[1] <= handled
    BY DEF TypeOK, Table, TableInv, HeapInv
  <2>2. QED BY <1>0, <2>1, Arith
<1>2. \A p \in heap : Owner(f, p)' <=> Owner(f, p)
  BY <1>1 DEF Keeps, Owner
<1>3. Pointers(f)'
  BY <1>2 DEF TableInv, Pointers
<1>4. ASSUME Once(f)' PROVE Lossless(f)' /\ OneRule(f)' /\ UseInv(f)'
  <2>1. Once(f) /\ Asked(f) \subseteq Asked(f)'
    BY <1>4, OnceBefore
  <2>2. Lossless(f)'
    BY <1>2, <2>1 DEF TableInv, OnceInv, Lossless
  <2>3. \A i \in Rules(f) : msg'[i] = msg[i]
    BY DEF Rules, Keeps
  <2>4. \A i \in Rules(f) : Refusal(i) => Refusal(i)'
    <3>1. ASSUME NEW i \in Id, Refusal(i) PROVE Refusal(i)'
      <4>1. i \in Nat /\ i <= handled /\ verdict[i] = "nack"
        BY <3>1, Arith DEF Refusal
      <4>2. i <= answered /\ i <= handled'
        BY <1>0, <4>1
      <4>3. QED BY <3>1, <4>1, <4>2 DEF Refusal
    <3>2. QED BY <3>1 DEF Rules
  <2>5. \A s \in Asked(f) : s <= handled => s <= handled'
    <3>1. \A s \in Asked(f) : s \in Nat
      BY Arith DEF Asked
    <3>2. QED BY <1>0, <3>1
  <2>6. OneRule(f)'
    BY <2>1, <2>3, <2>4, <2>5 DEF TableInv, OnceInv, OneRule
  <2>7. UseInv(f)'
    <3>0. SUFFICES ASSUME uses'[f] = uses[f] PROVE UseInv(f)'
      OBVIOUS
    <3>1. CASE uses[f].tables = None
      BY <3>0, <3>1 DEF UseInv
    <3>2. CASE uses[f].tables # None
      <4>1. PICK i \in Rules(f) : /\ i <= answered /\ verdict[i] = "ack"
                                  /\ uses[f].tables = msg[i].tables
        BY <2>1, <3>2 DEF TableInv, OnceInv, UseInv
      <4>2. i \in Id /\ i \in Nat
        BY Arith DEF Rules
      <4>3. i <= answered' /\ verdict'[i] = "ack" /\ msg'[i] = msg[i]
        BY <1>0, <2>3, <4>1, <4>2
      <4>4. QED BY <3>0, <4>1, <4>3 DEF UseInv
    <3>3. QED BY <3>1, <3>2
  <2>8. QED BY <2>2, <2>6, <2>7
<1>5. QED BY <1>3, <1>4 DEF OnceInv

LEMMA HeapKept ==
  ASSUME TypeOK, HeapInv, Keeps, handled' \in Nat, handled <= handled', heap' \subseteq heap
  PROVE  HeapInv'
<1>0. handled \in Nat /\ sent \in Nat /\ handled <= sent
  BY Arith DEF TypeOK
<1>1. SUFFICES ASSUME NEW p \in heap PROVE p[1] <= handled' /\ msg'[p[1]].kind = "size"
  BY DEF HeapInv
<1>2. p[1] \in Id /\ p[1] \in Nat /\ p[1] <= handled /\ msg[p[1]].kind = "size"
  BY Arith DEF TypeOK, Table, HeapInv
<1>3. p[1] <= handled' /\ p[1] <= sent
  BY <1>0, <1>2
<1>4. QED BY <1>2, <1>3 DEF Keeps

(* The answer to the only size message of a family finds neither a rule    *)
(* nor a table of it.                                                      *)
LEMMA FirstSize ==
  ASSUME TypeOK, TableInv, NEW f \in Family, NEW v, Handles("size", f, v), Once(f)
  PROVE  /\ Rules(f) = {} /\ uses[f].tables = None
         /\ \A p \in heap : ~Owner(f, p)
<1>1. Next_Id \in Asked(f) /\ Next_Id = handled + 1 /\ handled \in Nat
  BY HandlesStep DEF Asked, Next_Id
<1>2. \A s \in Asked(f) : ~(s <= handled)
  BY <1>1 DEF Once
<1>3. Rules(f) = {}
  BY <1>2 DEF TableInv, OnceInv, OneRule
<1>4. uses[f].tables = None
  BY <1>3 DEF TableInv, OnceInv, UseInv
<1>5. ASSUME NEW p \in heap, Owner(f, p) PROVE FALSE
  <2>1. p[1] \in Id /\ p[1] <= handled /\ msg[p[1]].kind = "size" /\ msg[p[1]].fam = f
    BY <1>5 DEF TypeOK, Table, TableInv, HeapInv, Owner
  <2>2. sent \in Nat /\ handled <= sent /\ p[1] \in Nat
    BY <2>1, Arith DEF TypeOK
  <2>3. p[1] \in Asked(f)
    BY <1>1, <2>1, <2>2 DEF Asked
  <2>4. QED BY <1>2, <2>1, <2>3
<1>6. QED BY <1>3, <1>4, <1>5

(* Steps that change neither tables nor rules nor what the NSS uses.       *)
LEMMA TablesKept ==
  ASSUME TypeOK, TypeOK', TableInv, Keeps, handled <= handled', answered <= answered',
         \A i \in Id : i <= answered => verdict'[i] = verdict[i],
         UNCHANGED <<ct, heap>>, \A f \in Family : uses'[f] = uses[f] \/ UseInv(f)',
         \A f \in Family : Rules(f)' = Rules(f)
  PROVE  TableInv'
<1>1. handled' \in Nat /\ answered' \in Nat
  BY Arith DEF TypeOK
<1>2. HeapInv'
  BY <1>1, HeapKept DEF TableInv
<1>3. ASSUME NEW f \in Family PROVE Pointers(f)' /\ OnceInv(f)'
  BY <1>1, OtherFamily
<1>4. QED BY <1>2, <1>3 DEF TableInv

LEMMA AskedStep ==
  ASSUME TypeOK, NEW c \in Caller, AskSize(c)
  PROVE  Keeps /\ \A f \in Family : Rules(f)' = Rules(f)
<1> DEFINE m == [kind |-> "size", fam |-> call[c].fam, num |-> call[c].num, tables |-> None]
<1>1. m \in Msg /\ Post(m) /\ m.kind = "size"
  BY NoneTables DEF TypeOK, Msg, AskSize
<1> HIDE DEF m
<1>2. Keeps
  BY <1>1, PostKeeps
<1>3. /\ sent + 1 \in Id /\ sent' = sent + 1 /\ msg'[sent + 1] = m /\ sent \in Nat
      /\ \A i \in Id : i # sent + 1 => msg'[i] = msg[i]
  BY <1>1, PostStep, Arith DEF TypeOK
<1>4. \A i \in Id : i <= sent' <=> i <= sent \/ i = sent + 1
  BY <1>3, Arith
<1>5. \A i \in Id : i <= sent => i # sent + 1
  BY <1>3, Arith
<1>6. ASSUME NEW f \in Family PROVE Rules(f)' = Rules(f)
  <2>1. \A i \in Id : i \in Rules(f)' <=> i \in Rules(f)
    BY <1>1, <1>3, <1>4, <1>5 DEF Rules
  <2>2. Rules(f)' \subseteq Id /\ Rules(f) \subseteq Id
    BY DEF Rules
  <2>3. QED BY <2>1, <2>2
<1>7. QED BY <1>2, <1>6

(* A callback of f that releases only tables of f, and sends nothing.      *)
LEMMA Releases ==
  ASSUME TypeOK, TypeOK', TableInv, NEW f \in Family, NEW kind, NEW v, Handles(kind, f, v),
         UNCHANGED <<msg, sent, verdict, answered, uses>>,
         ct' = [ct EXCEPT ![f] = None],
         heap' \subseteq heap, heap \ heap' \subseteq Pages(ct[f]),
         Once(f) => /\ \A p \in heap' : ~Owner(f, p)
                    /\ OneRule(f)'
  PROVE  TableInv'
<1>1. Keeps /\ \A g \in Family : Rules(g)' = Rules(g)
  BY Arith DEF TypeOK, Keeps, Rules
<1>2. handled' \in Nat /\ handled <= handled' /\ answered' \in Nat /\ answered <= answered'
  BY HandlesStep, Arith DEF TypeOK, Next_Id
<1>3. HeapInv'
  BY <1>1, <1>2, HeapKept DEF TableInv
<1>4. Pointers(f)' /\ OnceInv(f)'
  <2>1. ct'[f] = None
    BY DEF TypeOK
  <2>2. Pointers(f)'
    BY <2>1, NoneTables DEF Pointers, Pages
  <2>3. ASSUME Once(f)' PROVE Lossless(f)' /\ OneRule(f)' /\ UseInv(f)'
    <3>1. Once(f)
      BY <1>1, <2>3, OnceBefore
    <3>2. Lossless(f)'
      BY <3>1 DEF Lossless, Owner
    <3>3. UseInv(f)'
      BY <1>1, <3>1 DEF TableInv, OnceInv, UseInv
    <3>4. QED BY <3>1, <3>2, <3>3
  <2>4. QED BY <2>2, <2>3 DEF OnceInv
<1>5. ASSUME NEW g \in Family, g # f PROVE Pointers(g)' /\ OnceInv(g)'
  <2>1. ct'[g] = ct[g] /\ uses'[g] = uses[g]
    BY <1>5 DEF TypeOK
  <2>2. \A p \in heap : Owner(g, p) => p \in heap'
    BY <1>5 DEF TableInv, Pointers, Owner
  <2>3. QED BY <1>1, <1>2, <2>1, <2>2, OtherFamily
<1>6. QED BY <1>3, <1>4, <1>5 DEF TableInv

LEMMA TableCallback ==
  ASSUME TypeOK, TypeOK', TableInv, NEW f \in Family, Callback(f)
  PROVE  TableInv'
<1>1. CASE SizeRefused(f) \/ SizeEmpty(f) \/ RuleAccepted(f)
  <2>1. PICK kind \in {"size", "rule"}, v \in {"ack", "empty", "nack"} : Handles(kind, f, v)
    BY <1>1 DEF SizeRefused, SizeEmpty, RuleAccepted
  <2>2. UNCHANGED <<ct, heap, msg, verdict, sent, answered, uses>>
    BY <1>1 DEF SizeRefused, SizeEmpty, RuleAccepted
  <2>3. handled <= handled' /\ answered <= answered'
    BY <2>1, <2>2, HandlesStep, Arith DEF TypeOK, Next_Id
  <2>4. Keeps /\ \A g \in Family : Rules(g)' = Rules(g)
    BY <2>2, Arith DEF TypeOK, Keeps, Rules
  <2>5. QED BY <2>2, <2>3, <2>4, TablesKept
<1>2. CASE FirstAllocFails(f) \/ LaterFails(f)
  <2>1. Handles("size", f, "ack") /\ UNCHANGED <<msg, sent, verdict, answered, uses>>
    BY <1>2 DEF FirstAllocFails, LaterFails
  <2>2. ct' = [ct EXCEPT ![f] = None]
    BY <1>2 DEF FirstAllocFails, LaterFails, FreeTables
  <2>3. heap' \subseteq heap /\ heap \ heap' \subseteq Pages(ct[f])
    BY <1>2 DEF FirstAllocFails, LaterFails, FreeTables, Pages, TypeOK, Tables
  <2>4. ASSUME Once(f) PROVE (\A p \in heap' : ~Owner(f, p)) /\ OneRule(f)'
    <3>1. Rules(f) = {} /\ \A p \in heap : ~Owner(f, p)
      BY <2>1, <2>4, FirstSize
    <3>2. Rules(f)' = {}
      BY <2>1, <3>1 DEF Rules
    <3>3. QED BY <2>3, <3>1, <3>2 DEF OneRule
  <2>5. QED BY <2>1, <2>2, <2>3, <2>4, Releases
<1>3. CASE RuleRefused(f)
  <2>1. Handles("rule", f, "nack") /\ UNCHANGED <<msg, sent, verdict, answered, uses>>
    BY <1>3 DEF RuleRefused
  <2>2. ct' = [ct EXCEPT ![f] = None] /\ heap' = heap \ Pages(ct[f])
    BY <1>3 DEF RuleRefused, FreeTables
  <2>3. heap' \subseteq heap /\ heap \ heap' \subseteq Pages(ct[f])
    BY <2>2
  <2>4. ASSUME Once(f) PROVE (\A p \in heap' : ~Owner(f, p)) /\ OneRule(f)'
    <3>1. Next_Id \in Rules(f) /\ handled' = Next_Id /\ verdict[Next_Id] = "nack"
          /\ Next_Id = handled + 1 /\ handled \in Nat
      BY <2>1, HandlesStep DEF Rules, Next_Id
    <3>2. \A i \in Rules(f) : i = Next_Id
      BY <2>4, <3>1 DEF TableInv, OnceInv, OneRule
    <3>3. \E s \in Asked(f) : s <= handled
      BY <2>4, <3>1 DEF TableInv, OnceInv, OneRule
    <3>4. \E s \in Asked(f) : s <= handled'
      BY <3>1, <3>3, Arith DEF Asked
    <3>5. Rules(f)' = Rules(f) /\ Asked(f)' = Asked(f)
      BY <2>1 DEF Rules, Asked
    <3>6. \A i \in Rules(f) : Refusal(i)'
      BY <2>1, <3>1, <3>2 DEF Refusal
    <3>7. OneRule(f)'
      BY <3>2, <3>4, <3>5, <3>6 DEF OneRule
    <3>8. QED BY <2>2, <2>4, <3>7 DEF TableInv, OnceInv, Lossless
  <2>5. QED BY <2>1, <2>2, <2>3, <2>4, Releases
<1>4. CASE SendRule(f)
  <2>1. Handles("size", f, "ack") /\ UNCHANGED <<verdict, answered, uses>>
    BY <1>4 DEF SendRule
  <2>2. PICK t \in Allocated(f, Next_Id) :
          /\ heap' = heap \cup Pages(t)
          /\ ct' = [ct EXCEPT ![f] = t]
          /\ Post([kind |-> "rule", fam |-> f, num |-> msg[Next_Id].num, tables |-> t])
    BY <1>4 DEF SendRule
  <2> DEFINE m == [kind |-> "rule", fam |-> f, num |-> msg[Next_Id].num, tables |-> t]
  <2>3. /\ Next_Id \in Id /\ handled' = Next_Id /\ Next_Id = handled + 1
        /\ handled \in Nat /\ answered \in Nat /\ sent \in Nat
        /\ handled <= answered /\ answered <= sent /\ Next_Id <= sent
        /\ msg[Next_Id].kind = "size" /\ msg[Next_Id].fam = f /\ msg[Next_Id].num \in Num
    BY <2>1, HandlesStep, Arith DEF TypeOK, Next_Id
  <2>4. m \in Msg /\ Post(m) /\ m.kind = "rule" /\ m.fam = f /\ m.tables = t
    BY <2>2, <2>3, AllocatedTables DEF Msg
  <2> HIDE DEF m
  <2>5. Keeps
    BY <2>4, PostKeeps
  <2>6. /\ sent + 1 \in Id /\ sent' = sent + 1 /\ msg'[sent + 1] = m
        /\ \A i \in Id : i # sent + 1 => msg'[i] = msg[i]
    BY <2>4, PostStep
  <2>7. /\ \A i \in Id : i <= sent' <=> i <= sent \/ i = sent + 1
        /\ \A i \in Id : i <= sent => i # sent + 1
    BY <2>3, <2>6, Arith
  <2>8. /\ \A p \in Pages(t) : p[1] = Next_Id
        /\ msg'[Next_Id] = msg[Next_Id]
    BY <2>3, <2>6, <2>7, AllocatedTables
  <2>9. HeapInv'
    <3>1. ASSUME NEW p \in heap PROVE p[1] <= handled' /\ msg'[p[1]].kind = "size"
      <4>1. p[1] \in Id /\ p[1] \in Nat /\ p[1] <= handled /\ msg[p[1]].kind = "size"
        BY Arith DEF TypeOK, Table, TableInv, HeapInv
      <4>2. p[1] <= handled' /\ p[1] <= sent
        BY <2>3, <4>1
      <4>3. QED BY <2>5, <4>1, <4>2 DEF Keeps
    <3>2. ASSUME NEW p \in Pages(t) PROVE p[1] <= handled' /\ msg'[p[1]].kind = "size"
      BY <2>3, <2>8
    <3>3. QED BY <2>2, <3>1, <3>2 DEF HeapInv
  <2>10. Pointers(f)' /\ OnceInv(f)'
    <3>1. ct'[f] = t
      BY <2>2 DEF TypeOK
    <3>2. Pages(ct'[f]) = Pages(t)
      BY <3>1
    <3>3. Pointers(f)'
      BY <2>2, <2>3, <2>8, <3>2 DEF Pointers, Owner, Pages
    <3>4. ASSUME Once(f)' PROVE Lossless(f)' /\ OneRule(f)' /\ UseInv(f)'
      <4>1. Once(f)
        BY <2>5, <3>4, OnceBefore
      <4>2. Rules(f) = {} /\ uses[f].tables = None /\ \A p \in heap : ~Owner(f, p)
        BY <2>1, <4>1, FirstSize
      <4>3. Lossless(f)'
        <5>1. ASSUME NEW p \in heap, Owner(f, p)' PROVE FALSE
          <6>1. p[1] \in Id /\ p[1] \in Nat /\ p[1] <= handled
            BY Arith DEF TypeOK, Table, TableInv, HeapInv
          <6>2. p[1] <= sent
            BY <2>3, <6>1
          <6>3. QED BY <2>5, <4>2, <5>1, <6>1, <6>2 DEF Keeps, Owner
        <5>2. QED BY <2>2, <3>1, <5>1 DEF Lossless, Pages
      <4>4. Rules(f)' \subseteq {sent + 1}
        BY <2>6, <2>7, <4>2 DEF Rules
      <4>5. OneRule(f)'
        <5>1. Next_Id \in Asked(f)' /\ Next_Id <= handled'
          BY <2>3, <2>5, <2>7, <2>8 DEF Asked
        <5>2. \A i \in Rules(f)' : ct'[f] = msg'[i].tables
          BY <2>4, <2>6, <3>1, <4>4
        <5>3. QED BY <4>4, <5>1, <5>2 DEF OneRule
      <4>6. UseInv(f)'
        BY <2>1, <4>2 DEF UseInv
      <4>7. QED BY <4>3, <4>5, <4>6
    <3>5. QED BY <3>3, <3>4 DEF OnceInv
  <2>11. ASSUME NEW g \in Family, g # f PROVE Pointers(g)' /\ OnceInv(g)'
    <3>1. ct'[g] = ct[g] /\ uses'[g] = uses[g]
      BY <2>1, <2>2, <2>11 DEF TypeOK
    <3>2. Rules(g)' = Rules(g)
      <4>1. \A i \in Id : i \in Rules(g)' <=> i \in Rules(g)
        BY <2>4, <2>6, <2>7, <2>11 DEF Rules
      <4>2. Rules(g)' \subseteq Id /\ Rules(g) \subseteq Id
        BY DEF Rules
      <4>3. QED BY <4>1, <4>2
    <3>3. \A p \in heap' : p \in heap \/ ~Owner(g, p)'
      BY <2>2, <2>3, <2>8, <2>11 DEF Owner
    <3>4. /\ handled' \in Nat /\ handled <= handled'
          /\ answered' \in Nat /\ answered <= answered'
      BY <2>1, <2>3
    <3>5. heap \subseteq heap' /\ verdict' = verdict
      BY <2>1, <2>2
    <3>6. QED BY <2>5, <3>1, <3>2, <3>3, <3>4, <3>5, OtherFamily
  <2>12. QED BY <2>9, <2>10, <2>11 DEF TableInv
<1>5. QED BY <1>1, <1>2, <1>3, <1>4 DEF Callback

LEMMA TableStep == TypeOK /\ TypeOK' /\ TableInv /\ [Next]_vars => TableInv'
<1> SUFFICES ASSUME TypeOK, TypeOK', TableInv, [Next]_vars PROVE TableInv'
  OBVIOUS
<1>0. handled \in Nat /\ answered \in Nat /\ sent \in Nat
      /\ handled <= answered /\ answered <= sent /\ sent <= MaxMsg
  BY Arith DEF TypeOK
<1>1. ASSUME NEW c \in Caller, AskSize(c) PROVE TableInv'
  <2>1. UNCHANGED <<ct, heap, verdict, answered, handled, uses>>
    BY <1>1 DEF AskSize
  <2>2. QED BY <1>0, <1>1, <2>1, AskedStep, TablesKept
<1>2. CASE UNCHANGED <<ct, heap, queue, uses>>
  <2>1. Keeps /\ \A f \in Family : Rules(f)' = Rules(f)
    BY <1>0, <1>2 DEF queue, Keeps, Rules
  <2>2. QED BY <1>0, <1>2, <2>1, TablesKept DEF queue
<1>3. ASSUME NEW v \in {"ack", "empty", "nack"}, NssAnswers(v) PROVE TableInv'
  <2> DEFINE k == answered + 1
  <2>1. /\ k \in Id /\ answered' = k /\ k <= sent /\ answered < k
        /\ UNCHANGED <<handled, sent, msg, ct, heap>>
    BY <1>0, <1>3, Arith DEF NssAnswers, Id
  <2>2. verdict'[k] = v /\ \A i \in Id : i <= answered => verdict'[i] = verdict[i]
    <3>1. \A i \in Id : i <= answered => i # k
      BY <1>0, Arith
    <3>2. QED BY <1>3, <2>1, <3>1 DEF NssAnswers, TypeOK
  <2>3. Keeps /\ \A f \in Family : Rules(f)' = Rules(f)
    BY <1>0, <2>1 DEF Keeps, Rules
  <2>4. ASSUME NEW f \in Family PROVE uses'[f] = uses[f] \/ UseInv(f)'
    <3>1. CASE msg[k].kind = "rule" /\ msg[k].fam = f /\ v = "ack"
      <4>1. uses'[f].tables = msg[k].tables
        BY <1>3, <3>1 DEF NssAnswers, TypeOK
      <4>2. k \in Rules(f)' /\ k <= answered' /\ verdict'[k] = "ack" /\ msg'[k] = msg[k]
        BY <2>1, <2>2, <3>1, <1>0 DEF Rules
      <4>3. QED BY <4>1, <4>2 DEF UseInv
    <3>2. CASE ~(msg[k].kind = "rule" /\ msg[k].fam = f /\ v = "ack")
      BY <1>3, <3>2 DEF NssAnswers, TypeOK
    <3>3. QED BY <3>1, <3>2
  <2>5. QED BY <1>0, <2>1, <2>2, <2>3, <2>4, TablesKept
<1>4. CASE \E c \in Caller : AskFails(c) \/ \E f \in Family, n \in Count : Check(c, f, n)
  BY <1>2, <1>4 DEF AskFails, Check
<1>5. CASE UNCHANGED vars
  BY <1>2, <1>5 DEF vars, queue
<1>6. QED BY <1>1, <1>3, <1>4, <1>5, TableCallback DEF Next

LEMMA TableInvariant == Spec => [](TypeOK /\ TableInv)
<1>1. Init => TableInv
  <2> SUFFICES ASSUME Init PROVE TableInv
    OBVIOUS
  <2>1. HeapInv
    BY DEF Init, HeapInv
  <2>2. ASSUME NEW f \in Family PROVE Pointers(f) /\ OnceInv(f)
    <3>1. Rules(f) = {}
      BY DEF Init, Rules
    <3>2. ct[f] = None /\ uses[f].tables = None /\ heap = {}
      BY DEF Init
    <3>3. QED
      BY <3>1, <3>2, NoneTables DEF Pointers, OnceInv, Lossless, OneRule, UseInv
  <2>3. QED BY <2>1, <2>2 DEF TableInv
<1>2. QED BY <1>1, TableStep, ConnTypes, PTL DEF Spec

(* No pointer outlives its table, and none of the tables of a family that  *)
(* was changed once is lost (nss_ipv4_conn_cfg_process and its callback).  *)
THEOREM TablesKnown == Spec => []TablesAccounted
<1> QED BY TableInvariant, TableMeaning, PTL

(* Until a family is changed a second time, the NSS uses no table that was *)
(* released (nss_ipv4_free_conn_tables).                                   *)
THEOREM TablesSafe == Spec => []NssTablesBacked
<1> QED BY TableInvariant, TableMeaning, PTL
=============================================================================
