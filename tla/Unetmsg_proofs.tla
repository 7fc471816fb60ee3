--------------------------- MODULE Unetmsg_proofs ---------------------------
(***************************************************************************)
(* Proofs about Unetmsg for any clients, topics, connections and bounds:   *)
(* types, the retry that is always due, and the agreement of the lists.    *)
(***************************************************************************)
EXTENDS Unetmsg, FiniteSetTheorems, TLAPS

(* Sequences that grow and shrink at their ends.                           *)
LEMMA Messages ==
  /\ Hello \in ToS /\ Fin \in ToS /\ \A ok \in BOOLEAN : Reply(ok) \in ToS
  /\ Auth \in ToR /\ Message \in ToR /\ Fin \in ToR
  /\ \A t \in Topic, on \in BOOLEAN : Set(t, on) \in ToR
<1>1. Hello \in ToS /\ Fin \in ToS /\ Auth \in ToR /\ Message \in ToR /\ Fin \in ToR
  BY DEF ToS, ToR
<1>2. \A ok \in BOOLEAN : Reply(ok) \in ToS
  BY DEF ToS
<1>3. \A t \in Topic, on \in BOOLEAN : Set(t, on) \in ToR
  BY DEF ToR
<1>4. QED BY <1>1, <1>2, <1>3

LEMMA Queues ==
  ASSUME NEW S, Fin \in S
  PROVE  /\ <<>> \in Seq(S) /\ \A m \in S : <<m>> \in Seq(S)
         /\ \A q \in Seq(S) : q # <<>> => Tail(q) \in Seq(S)
         /\ \A q \in Seq(S), m \in S : Append(q, m) \in Seq(S)
         /\ \A q, p \in Seq(S) : q \o p \in Seq(S)
         /\ \A q \in Seq(S) : \A end : Closing(q, end) \in Seq(S)
BY DEF Closing

LEMMA QueuesToS ==
  /\ <<>> \in Seq(ToS) /\ \A m \in ToS : <<m>> \in Seq(ToS)
  /\ \A q \in Seq(ToS) : q # <<>> => Tail(q) \in Seq(ToS)
  /\ \A q \in Seq(ToS), m \in ToS : Append(q, m) \in Seq(ToS)
  /\ \A q \in Seq(ToS) : Append(q, Hello) \in Seq(ToS)
  /\ \A q \in Seq(ToS) : \A end : Closing(q, end) \in Seq(ToS)
BY Queues, Messages

LEMMA QueuesToR ==
  /\ <<>> \in Seq(ToR) /\ \A m \in ToR : <<m>> \in Seq(ToR)
  /\ \A q \in Seq(ToR) : q # <<>> => Tail(q) \in Seq(ToR)
  /\ \A q \in Seq(ToR), m \in ToR : Append(q, m) \in Seq(ToR)
  /\ \A q \in Seq(ToR) : Append(q, Auth) \in Seq(ToR)
  /\ \A q, p \in Seq(ToR) : q \o p \in Seq(ToR)
  /\ \A q \in Seq(ToR) : \A end : Closing(q, end) \in Seq(ToR)
BY Queues, Messages

(* The walk over the keys of a table gives a sequence of messages.         *)
LEMMA Walks ==
  ASSUME NEW T \in SUBSET Topic, NEW q \in Orders(T), NEW on \in [Topic -> BOOLEAN]
  PROVE  [i \in DOMAIN q |-> Set(q[i], on[q[i]])] \in Seq(ToR)
<1>1. Cardinality(T) \in Nat
  BY UnetmsgAssumption, FS_Subset, FS_CardinalityType
<1>2. DOMAIN q = 1..Cardinality(T) /\ \A i \in DOMAIN q : q[i] \in Topic
  BY DEF Orders
<1>3. \A i \in DOMAIN q : Set(q[i], on[q[i]]) \in ToR
  BY <1>2, Messages
<1>4. [i \in DOMAIN q |-> Set(q[i], on[q[i]])] \in [1..Cardinality(T) -> ToR]
  BY <1>2, <1>3
<1>5. QED BY <1>1, <1>4

-----------------------------------------------------------------------------
(* Types.                                                                  *)

(* The sockets keep their types.                                           *)
Sockets == /\ s \in [Conn -> {"none", "wait", "auth", "up"}]
           /\ r \in [Conn -> {"none", "backlog", "hello", "up"}]
           /\ toS \in [Conn -> Seq(ToS)] /\ toR \in [Conn -> Seq(ToR)]

LEMMA SendsType ==
  ASSUME Sockets, NEW c \in Conn, NEW q \in Seq(ToR), SSends(c, q)
  PROVE  toS' \in [Conn -> Seq(ToS)] /\ toR' \in [Conn -> Seq(ToR)]
BY QueuesToS, QueuesToR DEF Sockets, SSends

LEMMA TxClosedType ==
  ASSUME Sockets, NEW c, TxClosed(c)
  PROVE  Sockets' /\ tx' \in {tx, NoConn}
BY QueuesToS, QueuesToR DEF Sockets, TxClosed

LEMMA RClosedType ==
  ASSUME Sockets, list \in [Conn -> SUBSET Topic], NEW C, RClosed(C)
  PROVE  Sockets' /\ list' \in [Conn -> SUBSET Topic]
BY QueuesToS, QueuesToR DEF Sockets, RClosed

LEMMA TypeClients ==
  ASSUME UnetmsgTypeOK, Users
  PROVE  UnetmsgTypeOK'
<1> USE DEF UnetmsgTypeOK
<1>1. Sockets /\ (tx # NoConn => tx \in Conn)
  BY DEF Sockets
<1>2. ASSUME NEW k \in Client, NEW t \in Topic, Add(k, t) PROVE UnetmsgTypeOK'
  <2>1. <<Set(t, TRUE)>> \in Seq(ToR)
    BY Messages, QueuesToR
  <2>2. toS' \in [Conn -> Seq(ToS)] /\ toR' \in [Conn -> Seq(ToR)]
    BY <1>1, <1>2, <2>1, SendsType DEF Add, TxUp
  <2>3. QED BY <1>2, <2>2, UnetmsgAssumption DEF Add, peer
<1>3. ASSUME NEW k \in Client, ClientGone(k) PROVE UnetmsgTypeOK'
  <2> DEFINE left == [t \in Topic |-> local[t] \ {k}]
             told == {t \in Topic : k \in local[t] /\ (left[t] = {} \/ t \in Published)}
             on == [t \in Topic |-> left[t] # {}]
  <2>1. ASSUME NEW q \in Orders(told), SSends(tx, [i \in DOMAIN q |-> Set(q[i], left[q[i]] # {})]), TxUp
        PROVE  toS' \in [Conn -> Seq(ToS)] /\ toR' \in [Conn -> Seq(ToR)]
    <3>1. [i \in DOMAIN q |-> Set(q[i], on[q[i]])] \in Seq(ToR)
      BY Walks
    <3>2. \A i \in DOMAIN q : q[i] \in Topic
      BY DEF Orders
    <3>3. [i \in DOMAIN q |-> Set(q[i], left[q[i]] # {})] = [i \in DOMAIN q |-> Set(q[i], on[q[i]])]
      BY <3>2
    <3>4. QED BY <1>1, <2>1, <3>1, <3>3, SendsType DEF TxUp
  <2>2. toS' \in [Conn -> Seq(ToS)] /\ toR' \in [Conn -> Seq(ToR)]
    BY <1>3, <2>1 DEF ClientGone
  <2>3. QED BY <1>3, <2>2, UnetmsgAssumption DEF ClientGone, peer
<1>4. ASSUME Forward PROVE UnetmsgTypeOK'
  <2>1. <<Message>> \in Seq(ToR)
    BY Messages, QueuesToR
  <2>2. toS' \in [Conn -> Seq(ToS)] /\ toR' \in [Conn -> Seq(ToR)]
    BY <1>1, <1>4, <2>1, SendsType DEF Forward
  <2>3. QED BY <1>4, <2>2, UnetmsgAssumption DEF Forward, peer, clients, Trouble
<1>5. QED BY <1>2, <1>3, <1>4 DEF Users

LEMMA TypeTimers ==
  ASSUME UnetmsgTypeOK, Timers
  PROVE  UnetmsgTypeOK'
<1> USE DEF UnetmsgTypeOK
<1>1. Sockets
  BY DEF Sockets
<1>2. CASE StaysConnected
  BY <1>2 DEF StaysConnected, clients, peer
<1>3. CASE Connect
  <2>1. PICK c \in Free :
          /\ tx' = c
          /\ s' = [d \in Conn |-> IF d = c THEN "wait" ELSE IF d = tx THEN "none" ELSE s[d]]
          /\ r' = [r EXCEPT ![c] = "backlog"]
          /\ toS' = [d \in Conn |-> IF d = tx THEN <<>> ELSE toS[d]]
          /\ toR' = [d \in Conn |-> IF d = tx THEN Closing(toR[d], r[d]) ELSE toR[d]]
    BY <1>3 DEF Connect
  <2>2. c \in Conn
    BY DEF Free
  <2>3. toS' \in [Conn -> Seq(ToS)] /\ toR' \in [Conn -> Seq(ToR)]
    BY <2>1, QueuesToS, QueuesToR
  <2>4. trouble' \in 0..MaxTrouble
    BY <1>3, UnetmsgAssumption DEF Connect, InTime, Trouble, Calm
  <2>5. QED BY <1>3, <2>1, <2>2, <2>3, <2>4 DEF Connect, clients, peer
<1>4. ASSUME NEW c \in Conn, STimeout(c) PROVE UnetmsgTypeOK'
  <2>1. Sockets' /\ tx' \in {tx, NoConn}
    BY <1>1, <1>4, TxClosedType DEF STimeout
  <2>2. trouble' \in 0..MaxTrouble
    BY <1>4, UnetmsgAssumption DEF STimeout, InTime, Trouble, Calm
  <2>3. QED BY <1>4, <2>1, <2>2 DEF STimeout, Sockets, clients, peer
<1>5. ASSUME NEW c \in Conn, RTimeout(c) PROVE UnetmsgTypeOK'
  <2>1. Sockets' /\ list' \in [Conn -> SUBSET Topic]
    BY <1>1, <1>5, RClosedType DEF RTimeout
  <2>2. trouble' \in 0..MaxTrouble
    BY <1>5, UnetmsgAssumption DEF RTimeout, InTime, Trouble, Calm
  <2>3. QED BY <1>5, <2>1, <2>2 DEF RTimeout, Sockets, clients
<1>6. QED BY <1>2, <1>3, <1>4, <1>5 DEF Timers

LEMMA TypeFailures ==
  ASSUME UnetmsgTypeOK, Failures
  PROVE  UnetmsgTypeOK'
<1> USE DEF UnetmsgTypeOK
<1>1. Sockets
  BY DEF Sockets
<1>2. trouble' \in 0..MaxTrouble
  BY UnetmsgAssumption DEF Failures, SUpdate, RUpdate, SRestarts, RRestarts, Lose, Trouble
<1>3. CASE SUpdate
  <2>1. Sockets' /\ tx' \in {tx, NoConn}
    BY <1>1, <1>3, TxClosedType DEF SUpdate, Sockets
  <2>2. QED BY <1>2, <1>3, <2>1 DEF SUpdate, Sockets, clients, peer
<1>4. CASE RUpdate
  <2>1. Sockets' /\ list' \in [Conn -> SUBSET Topic]
    BY <1>1, <1>4, RClosedType DEF RUpdate
  <2>2. QED BY <1>2, <1>4, <2>1 DEF RUpdate, Sockets, clients
<1>5. CASE SRestarts
  <2>1. \A c \in Conn : <<>> \in Seq(ToS) /\ Closing(toR[c], r[c]) \in Seq(ToR)
    BY QueuesToS, QueuesToR
  <2>2. toS' \in [Conn -> Seq(ToS)]
    BY <1>5, <2>1 DEF SRestarts
  <2>3. toR' \in [Conn -> Seq(ToR)]
    BY <1>5, <2>1 DEF SRestarts
  <2>4. QED BY <1>2, <1>5, <2>2, <2>3 DEF SRestarts, peer
<1>6. CASE RRestarts
  <2>1. \A c \in Conn : <<>> \in Seq(ToR) /\ Closing(toS[c], s[c]) \in Seq(ToS)
    BY QueuesToS, QueuesToR
  <2>2. toS' \in [Conn -> Seq(ToS)]
    BY <1>6, <2>1 DEF RRestarts
  <2>3. toR' \in [Conn -> Seq(ToR)]
    BY <1>6, <2>1 DEF RRestarts
  <2>4. QED BY <1>2, <1>6, <2>2, <2>3 DEF RRestarts, clients
<1>7. ASSUME NEW c \in Conn, Lose(c) PROVE UnetmsgTypeOK'
  BY <1>2, <1>7, QueuesToS, QueuesToR, Messages DEF Lose, clients, peer
<1>8. QED BY <1>3, <1>4, <1>5, <1>6, <1>7 DEF Failures

LEMMA RxClosedType ==
  ASSUME UnetmsgTypeOK, NEW c \in Conn, RxClosed(c)
  PROVE  /\ Sockets' /\ list' \in [Conn -> SUBSET Topic]
         /\ rx' \in Conn \cup {NoConn} /\ remote' \subseteq Topic
<1>1. Sockets /\ list \in [Conn -> SUBSET Topic]
  BY DEF Sockets, UnetmsgTypeOK
<1>2. Sockets' /\ list' \in [Conn -> SUBSET Topic]
  BY <1>1, RClosedType DEF RxClosed
<1>3. QED BY <1>2 DEF RxClosed, UnetmsgTypeOK

LEMMA TypeAtS ==
  ASSUME UnetmsgTypeOK, NEW c \in Conn, SHello(c) \/ SReply(c) \/ SRefused(c) \/ SLost(c)
  PROVE  UnetmsgTypeOK'
<1> USE DEF UnetmsgTypeOK
<1>1. Sockets
  BY DEF Sockets
<1>2. toS[c] # <<>> => Tail(toS[c]) \in Seq(ToS)
  BY QueuesToS
<1>3. CASE SHello(c)
  <2>1. CASE TxClosed(c) /\ Trouble
    <3>1. Sockets' /\ tx' \in {tx, NoConn}
      BY <1>1, <2>1, TxClosedType
    <3>2. QED BY <1>3, <2>1, <3>1, UnetmsgAssumption DEF SHello, Sockets, Trouble, clients, peer
  <2>2. CASE ~(TxClosed(c) /\ Trouble)
    <3>1. Tail(toS[c]) \in Seq(ToS) /\ Closing(Tail(toS[c]), "auth") \in Seq(ToS)
      BY <1>2, <1>3, QueuesToS DEF SHello
    <3>2. Append(toR[c], Auth) \in Seq(ToR)
      BY QueuesToR
    <3>3. toS' \in [Conn -> Seq(ToS)]
      BY <1>3, <2>2, <3>1 DEF SHello
    <3>4. toR' \in [Conn -> Seq(ToR)]
      BY <1>3, <2>2, <3>2 DEF SHello
    <3>5. QED BY <1>3, <2>2, <3>3, <3>4 DEF SHello, Calm, clients, peer
  <2>3. QED BY <2>1, <2>2
<1>4. CASE SReply(c)
  <2>1. ASSUME NEW q \in Orders(Announced)
        PROVE  [i \in DOMAIN q |-> Set(q[i], TRUE)] \in Seq(ToR)
    <3>1. DEFINE on == [t \in Topic |-> TRUE]
    <3>2. [i \in DOMAIN q |-> Set(q[i], on[q[i]])] \in Seq(ToR)
      BY Walks DEF Announced
    <3>3. \A i \in DOMAIN q : q[i] \in Topic
      BY DEF Orders, Announced
    <3>4. [i \in DOMAIN q |-> Set(q[i], TRUE)] = [i \in DOMAIN q |-> Set(q[i], on[q[i]])]
      BY <3>3
    <3>5. QED BY <3>2, <3>4
  <2>2. toR' \in [Conn -> Seq(ToR)]
    <3>1. PICK q \in Orders(Announced) :
            toR' = [toR EXCEPT ![c] = IF r[c] = "none" \/ Ended(@) THEN @
                                      ELSE @ \o [i \in DOMAIN q |-> Set(q[i], TRUE)]]
      BY <1>4 DEF SReply
    <3>2. toR[c] \o [i \in DOMAIN q |-> Set(q[i], TRUE)] \in Seq(ToR)
      BY <2>1, QueuesToR
    <3>3. QED BY <3>1, <3>2
  <2>3. toS' \in [Conn -> Seq(ToS)]
    BY <1>2, <1>4, QueuesToS DEF SReply
  <2>4. QED BY <1>4, <2>2, <2>3 DEF SReply, clients, peer
<1>5. CASE SRefused(c)
  <2>1. Sockets' /\ tx' \in {tx, NoConn}
    BY <1>1, <1>5, TxClosedType DEF SRefused
  <2>2. QED BY <1>5, <2>1 DEF SRefused, Sockets, clients, peer
<1>6. CASE SLost(c)
  <2>1. Sockets' /\ tx' \in {tx, NoConn}
    BY <1>1, <1>6, TxClosedType DEF SLost
  <2>2. QED BY <1>6, <2>1 DEF SLost, RetryDue, Sockets, clients, peer
<1>7. QED BY <1>3, <1>4, <1>5, <1>6

LEMMA TypeAtR ==
  ASSUME UnetmsgTypeOK, NEW c \in Conn, RAccept(c) \/ RAuth(c) \/ RCloses(c) \/ RSet(c)
  PROVE  UnetmsgTypeOK'
<1> USE DEF UnetmsgTypeOK
<1>1. Sockets
  BY DEF Sockets
<1>2. toR[c] # <<>> => Tail(toR[c]) \in Seq(ToR) /\ Head(toR[c]) \in ToR
  BY QueuesToR
<1>3. CASE RAccept(c)
  <2>1. CASE allowed = {}
    <3>1. Sockets' /\ list' \in [Conn -> SUBSET Topic]
      BY <1>1, <1>3, <2>1, RClosedType DEF RAccept
    <3>2. QED BY <1>3, <2>1, <3>1 DEF RAccept, Sockets, clients
  <2>2. CASE allowed # {}
    <3>1. Append(toS[c], Hello) \in Seq(ToS)
      BY QueuesToS
    <3>2. toS' \in [Conn -> Seq(ToS)]
      BY <1>3, <2>2, <3>1 DEF RAccept
    <3>3. QED BY <1>3, <2>2, <3>2 DEF RAccept, clients
  <2>3. QED BY <2>1, <2>2
<1>4. CASE RAuth(c)
  <2> DEFINE old == IF rx = NoConn THEN {} ELSE {rx}
  <2>1. PICK ok \in BOOLEAN :
          /\ IF ok THEN Calm ELSE Trouble
          /\ r' = [d \in Conn |-> IF d = c THEN "up" ELSE IF d \in old THEN "none" ELSE r[d]]
          /\ toR' = [d \in Conn |-> IF d = c THEN (IF s[c] = "none" THEN Closing(Tail(toR[c]), "up")
                                                                    ELSE Tail(toR[c]))
                                    ELSE IF d \in old THEN <<>> ELSE toR[d]]
          /\ toS' = [d \in Conn |-> IF d = c
                                    THEN (IF s[c] = "none" THEN toS[c] ELSE Append(toS[c], Reply(ok)))
                                    ELSE IF d \in old THEN Closing(toS[d], s[d]) ELSE toS[d]]
          /\ list' = [d \in Conn |-> IF d \in old THEN {} ELSE list[d]]
    BY <1>4 DEF RAuth
  <2>2. toR' \in [Conn -> Seq(ToR)]
    BY <1>2, <1>4, <2>1, QueuesToR DEF RAuth
  <2>3. toS' \in [Conn -> Seq(ToS)]
    BY <2>1, QueuesToS, Messages
  <2>4. trouble' \in 0..MaxTrouble
    BY <2>1, UnetmsgAssumption DEF Calm, Trouble
  <2>5. QED BY <1>4, <2>1, <2>2, <2>3, <2>4 DEF RAuth, clients
<1>5. CASE RCloses(c)
  BY <1>5, RxClosedType DEF RCloses, Sockets, clients
<1>6. CASE RSet(c)
  <2>1. toR' \in [Conn -> Seq(ToR)]
    BY <1>2, <1>6 DEF RSet
  <2>2. list' \in [Conn -> SUBSET Topic] /\ remote' \subseteq Topic
    BY <1>6 DEF RSet
  <2>3. QED BY <1>6, <2>1, <2>2 DEF RSet, clients
<1>7. QED BY <1>3, <1>4, <1>5, <1>6

LEMMA TypeStep ==
  ASSUME UnetmsgTypeOK, [Next]_vars
  PROVE  UnetmsgTypeOK'
<1>1. CASE Deliveries
  BY <1>1, TypeAtS, TypeAtR DEF Deliveries
<1>2. CASE UNCHANGED vars
  BY <1>2 DEF vars, UnetmsgTypeOK
<1>3. QED BY <1>1, <1>2, TypeClients, TypeTimers, TypeFailures DEF Next

(* Every queue holds messages of its direction, and every handle, timer    *)
(* and table of both daemons keeps its range (unetmsgd.uc and its parts).  *)
THEOREM UnetmsgTypes == Spec => []UnetmsgTypeOK
<1>1. Init => UnetmsgTypeOK
  BY UnetmsgAssumption, QueuesToS, QueuesToR DEF Init, UnetmsgTypeOK
<1>2. QED BY <1>1, TypeStep, PTL DEF Spec

-----------------------------------------------------------------------------
(* The retry.                                                              *)

(* A connection that is closed before it is up was not the working one.    *)
LEMMA ClosingKeepsUp ==
  ASSUME UnetmsgTypeOK, RetryPending, NEW c \in Conn, s[c] # "up", TxClosed(c)
  PROVE  TxUp' <=> TxUp
BY UnetmsgAssumption DEF UnetmsgTypeOK, TxUp, TxClosed

LEMMA RetryStep ==
  ASSUME UnetmsgTypeOK, RetryPending, [Next]_vars
  PROVE  RetryPending'
<1> USE DEF RetryPending
<1>1. CASE Users
  <2>1. UNCHANGED <<tx, s, timer>>
    <3>1. ASSUME NEW k \in Client, NEW t \in Topic, Add(k, t) PROVE UNCHANGED <<tx, s, timer>>
      BY <3>1 DEF Add
    <3>2. ASSUME NEW k \in Client, ClientGone(k) PROVE UNCHANGED <<tx, s, timer>>
      BY <3>2 DEF ClientGone
    <3>3. QED BY <1>1, <3>1, <3>2 DEF Users, Forward
  <2>2. QED BY <2>1 DEF TxUp
<1>2. CASE StaysConnected
  BY <1>2 DEF StaysConnected, Settled, TxUp
<1>3. CASE Connect
  BY <1>3 DEF Connect
<1>4. ASSUME NEW c \in Conn, STimeout(c) PROVE RetryPending'
  BY <1>4, ClosingKeepsUp DEF STimeout
<1>5. ASSUME NEW c \in Conn, SHello(c) PROVE RetryPending'
  <2>1. CASE TxClosed(c) /\ Trouble
    BY <1>5, <2>1, ClosingKeepsUp DEF SHello
  <2>2. CASE ~(TxClosed(c) /\ Trouble)
    BY <1>5, <2>2 DEF SHello, TxUp, UnetmsgTypeOK
  <2>3. QED BY <2>1, <2>2
<1>6. ASSUME NEW c \in Conn, SReply(c) PROVE RetryPending'
  BY <1>6 DEF SReply, TxUp, UnetmsgTypeOK
<1>7. ASSUME NEW c \in Conn, SRefused(c) PROVE RetryPending'
  BY <1>7, ClosingKeepsUp DEF SRefused
<1>8. ASSUME NEW c \in Conn, SLost(c) PROVE RetryPending'
  BY <1>8 DEF SLost, RetryDue
<1>9. ASSUME NEW c \in Conn, RAccept(c) \/ RAuth(c) \/ RCloses(c) \/ RSet(c) \/ RTimeout(c)
      PROVE  RetryPending'
  BY <1>9 DEF RAccept, RAuth, RCloses, RSet, RTimeout, RxClosed, RClosed, TxUp
<1>10. CASE Failures
  BY <1>10 DEF Failures, SUpdate, RUpdate, SRestarts, RRestarts, Lose, RClosed, TxUp
<1>11. CASE UNCHANGED vars
  BY <1>11 DEF vars, TxUp
<1>12. QED
  BY <1>1, <1>2, <1>3, <1>4, <1>5, <1>6, <1>7, <1>8, <1>9, <1>10, <1>11
  DEF Next, Timers, Deliveries

(* Whatever the order of handshakes, timers, failures and restarts, a      *)
(* daemon without a working channel to its peer has a retry due            *)
(* (network_open_channel and the timer of network_connect_peers).          *)
THEOREM RetryDueAlways == Spec => []RetryPending
<1>1. Init => RetryPending
  BY DEF Init, RetryPending
<1>2. QED BY <1>1, UnetmsgTypes, RetryStep, PTL DEF Spec

-----------------------------------------------------------------------------
(* The lists.                                                              *)

(* No other connection has a list, which a new channel would inherit.      *)
ListsInv == ListsAgree /\ \A c \in Conn : c # rx => list[c] = {}

(* Closing connections other than the current channel disturbs nothing.    *)
LEMMA OthersClosed ==
  ASSUME UnetmsgTypeOK, ListsInv, NEW c \in Conn, c # rx, RClosed({c}),
         UNCHANGED <<rx, remote, allowed>>
  PROVE  ListsInv'
BY UnetmsgAssumption DEF UnetmsgTypeOK, ListsInv, ListsAgree, RClosed

LEMMA CurrentClosed ==
  ASSUME UnetmsgTypeOK, ListsInv, RClosed({rx}), rx' = NoConn, remote' = {}
  PROVE  ListsInv'
BY UnetmsgAssumption DEF UnetmsgTypeOK, ListsInv, ListsAgree, RClosed

LEMMA ListsStep ==
  ASSUME UnetmsgTypeOK, ListsInv, [Next]_vars
  PROVE  ListsInv'
<1> USE DEF ListsInv, ListsAgree
<1>1. ASSUME UNCHANGED <<r, list, rx, remote, allowed>> PROVE ListsInv'
  BY <1>1
<1>2. CASE Users
  <2>1. ASSUME NEW k \in Client, NEW t \in Topic, Add(k, t) PROVE ListsInv'
    BY <1>1, <2>1 DEF Add, peer
  <2>2. ASSUME NEW k \in Client, ClientGone(k) PROVE ListsInv'
    BY <1>1, <2>2 DEF ClientGone, peer
  <2>3. QED BY <1>1, <1>2, <2>1, <2>2 DEF Users, Forward, peer
<1>3. CASE StaysConnected
  BY <1>1, <1>3 DEF StaysConnected, peer
<1>4. CASE Connect
  <2>1. PICK c \in Free : r' = [r EXCEPT ![c] = "backlog"]
    BY <1>4 DEF Connect
  <2>2. c \in Conn /\ r[c] = "none"
    BY DEF Free
  <2>3. QED BY <1>4, <2>1, <2>2 DEF Connect, peer, UnetmsgTypeOK
<1>5. ASSUME NEW c \in Conn,
             SHello(c) \/ SReply(c) \/ SRefused(c) \/ SLost(c) \/ STimeout(c)
      PROVE  ListsInv'
  BY <1>1, <1>5 DEF SHello, SReply, SRefused, SLost, STimeout, TxClosed, peer
<1>6. ASSUME NEW c \in Conn, RAccept(c) PROVE ListsInv'
  <2>1. c # rx
    BY <1>6, UnetmsgAssumption DEF RAccept
  <2>2. CASE allowed = {}
    BY <1>6, <2>1, <2>2, OthersClosed DEF RAccept
  <2>3. CASE allowed # {}
    BY <1>6, <2>1, <2>3 DEF RAccept, UnetmsgTypeOK
  <2>4. QED BY <2>2, <2>3
<1>7. ASSUME NEW c \in Conn, RAuth(c) PROVE ListsInv'
  <2>1. c # rx /\ list[c] = {}
    BY <1>7, UnetmsgAssumption DEF RAuth
  <2>2. /\ r' = [d \in Conn |-> IF d = c THEN "up" ELSE IF rx # NoConn /\ d = rx THEN "none" ELSE r[d]]
        /\ list' = [d \in Conn |-> IF rx # NoConn /\ d = rx THEN {} ELSE list[d]]
    BY <1>7 DEF RAuth
  <2>3. QED BY <1>7, <2>1, <2>2, UnetmsgAssumption DEF RAuth, UnetmsgTypeOK
<1>8. ASSUME NEW c \in Conn, RCloses(c) PROVE ListsInv'
  <2>1. CASE c = rx
    BY <1>8, <2>1, CurrentClosed DEF RCloses, RxClosed
  <2>2. CASE c # rx
    BY <1>8, <2>2, OthersClosed DEF RCloses, RxClosed
  <2>3. QED BY <2>1, <2>2
<1>9. ASSUME NEW c \in Conn, RSet(c) PROVE ListsInv'
  BY <1>9, UnetmsgAssumption DEF RSet, UnetmsgTypeOK
<1>10. ASSUME NEW c \in Conn, RTimeout(c) PROVE ListsInv'
  BY <1>10, OthersClosed, UnetmsgAssumption DEF RTimeout
<1>11. CASE Failures
  <2>1. CASE SUpdate
    BY <1>1, <2>1 DEF SUpdate, TxClosed, peer
  <2>2. CASE RUpdate
    BY <2>2, CurrentClosed DEF RUpdate
  <2>3. CASE SRestarts
    BY <1>1, <2>3 DEF SRestarts, peer
  <2>4. CASE RRestarts
    BY <2>4, UnetmsgAssumption DEF RRestarts, UnetmsgTypeOK
  <2>5. ASSUME NEW c \in Conn, Lose(c) PROVE ListsInv'
    BY <1>1, <2>5 DEF Lose, peer
  <2>6. QED BY <1>11, <2>1, <2>2, <2>3, <2>4, <2>5 DEF Failures
<1>12. CASE UNCHANGED vars
  BY <1>1, <1>12 DEF vars
<1>13. QED
  BY <1>2, <1>3, <1>4, <1>5, <1>6, <1>7, <1>8, <1>9, <1>10, <1>11, <1>12
  DEF Next, Timers, Deliveries

(* For any number of connections, old ones that are still open and new     *)
(* ones that overtake them, the tables of R have an entry for S exactly    *)
(* under what its current channel has announced (network_check_auth,       *)
(* network_rx_socket_close, network_socket_handle_request).                *)
THEOREM ListsAgreeAlways == Spec => []ListsAgree
<1>1. Init => ListsInv
  BY UnetmsgAssumption DEF Init, ListsInv, ListsAgree
<1>2. ListsInv => ListsAgree
  BY DEF ListsInv
<1>3. QED BY <1>1, <1>2, UnetmsgTypes, ListsStep, PTL DEF Spec

-----------------------------------------------------------------------------
(* The channel in sync.  First, what a queue says of a topic when a        *)
(* message leaves it and when others are appended.                         *)

LEMMA SaidTail ==
  ASSUME NEW q \in Seq(ToR), q # <<>>, NEW t
  PROVE  Said(Tail(q), t) = {i - 1 : i \in Said(q, t) \ {1}}
<1>1. DOMAIN q = 1..Len(q) /\ DOMAIN Tail(q) = 1..(Len(q) - 1) /\ Len(q) \in Nat \ {0}
  OBVIOUS
<1>2. \A i \in 1..(Len(q) - 1) : Tail(q)[i] = q[i + 1]
  OBVIOUS
<1>3. \A i \in Int : i \in Said(Tail(q), t) <=> i >= 1 /\ i + 1 \in Said(q, t)
  BY <1>1, <1>2 DEF Said
<1>4. Said(q, t) \subseteq Int /\ Said(Tail(q), t) \subseteq Int /\ \A i \in Said(q, t) : i >= 1
  BY <1>1 DEF Said
<1>5. QED BY <1>3, <1>4

LEMMA SaidConcat ==
  ASSUME NEW q \in Seq(ToR), NEW p \in Seq(ToR), NEW t
  PROVE  /\ Said(q \o p, t) = Said(q, t) \cup {Len(q) + i : i \in Said(p, t)}
         /\ \A i \in Said(q, t) : (q \o p)[i] = q[i]
         /\ \A i \in Said(p, t) : (q \o p)[Len(q) + i] = p[i]
<1>1. /\ DOMAIN q = 1..Len(q) /\ DOMAIN p = 1..Len(p) /\ Len(q) \in Nat /\ Len(p) \in Nat
      /\ DOMAIN (q \o p) = 1..(Len(q) + Len(p))
  OBVIOUS
<1>2. /\ \A i \in DOMAIN q : (q \o p)[i] = q[i]
      /\ \A i \in DOMAIN p : (q \o p)[Len(q) + i] = p[i]
  OBVIOUS
<1>3. \A i \in DOMAIN (q \o p) : i \in DOMAIN q \/ \E k \in DOMAIN p : i = Len(q) + k
  <2>1. TAKE i \in DOMAIN (q \o p)
  <2>2. i \notin DOMAIN q => i - Len(q) \in DOMAIN p /\ i = Len(q) + (i - Len(q))
    BY <1>1
  <2>3. QED BY <2>2
<1>4. QED BY <1>1, <1>2, <1>3 DEF Said

LEMMA TailSays ==
  ASSUME NEW q \in Seq(ToR), q # <<>>, NEW t
  PROVE  /\ ~(Head(q).kind = "set" /\ Head(q).topic = t) =>
              /\ Said(Tail(q), t) = {} <=> Said(q, t) = {}
              /\ EndsOn(Tail(q), t) <=> EndsOn(q, t)
         /\ Head(q).kind = "set" /\ Head(q).topic = t =>
              /\ Said(q, t) # {}
              /\ EndsOn(q, t) <=> IF Said(Tail(q), t) = {} THEN Head(q).on
                                  ELSE EndsOn(Tail(q), t)
<1>1. DOMAIN q = 1..Len(q) /\ Len(q) \in Nat \ {0} /\ Head(q) = q[1]
  OBVIOUS
<1>2. \A i \in Said(q, t) : i \in Int /\ i >= 1 /\ (i # 1 => i - 1 \in Said(Tail(q), t) /\ Tail(q)[i - 1] = q[i])
  <2>1. TAKE i \in Said(q, t)
  <2>2. i \in 1..Len(q)
    BY <1>1 DEF Said
  <2>3. i # 1 => i - 1 \in Said(Tail(q), t)
    BY SaidTail
  <2>4. i # 1 => Tail(q)[i - 1] = q[i]
    BY <1>1, <2>2
  <2>5. QED BY <2>2, <2>3, <2>4
<1>3. \A i \in Said(Tail(q), t) : i \in Int /\ i >= 1 /\ i + 1 \in Said(q, t) /\ Tail(q)[i] = q[i + 1]
  <2>1. TAKE i \in Said(Tail(q), t)
  <2>2. DOMAIN Tail(q) = 1..(Len(q) - 1)
    OBVIOUS
  <2>3. i \in 1..(Len(q) - 1) /\ Tail(q)[i].kind = "set" /\ Tail(q)[i].topic = t
    BY <2>2 DEF Said
  <2>4. Tail(q)[i] = q[i + 1] /\ i + 1 \in DOMAIN q
    BY <1>1, <2>3
  <2>5. QED BY <2>3, <2>4 DEF Said
<1>4. 1 \in Said(q, t) <=> Head(q).kind = "set" /\ Head(q).topic = t
  BY <1>1 DEF Said
<1>5. CASE 1 \notin Said(q, t)
  <2>1. Said(Tail(q), t) = {} <=> Said(q, t) = {}
    BY <1>2, <1>3, <1>5
  <2>2. ASSUME EndsOn(q, t) PROVE EndsOn(Tail(q), t)
    <3>1. PICK i \in Said(q, t) : \A j \in Said(q, t) : j >= i => q[j].on
      BY <2>2 DEF EndsOn
    <3>2. i - 1 \in Said(Tail(q), t) /\ i \in Int
      BY <1>2, <1>5
    <3>3. ASSUME NEW j \in Said(Tail(q), t), j >= i - 1 PROVE Tail(q)[j].on
      <4>1. j \in Int /\ j + 1 \in Said(q, t) /\ Tail(q)[j] = q[j + 1]
        BY <1>3
      <4>2. j + 1 >= i
        BY <3>2, <3>3, <4>1
      <4>3. QED BY <3>1, <4>1, <4>2
    <3>4. QED BY <3>2, <3>3 DEF EndsOn
  <2>3. ASSUME EndsOn(Tail(q), t) PROVE EndsOn(q, t)
    <3>1. PICK i \in Said(Tail(q), t) : \A j \in Said(Tail(q), t) : j >= i => Tail(q)[j].on
      BY <2>3 DEF EndsOn
    <3>2. i + 1 \in Said(q, t) /\ i \in Int
      BY <1>3
    <3>3. ASSUME NEW j \in Said(q, t), j >= i + 1 PROVE q[j].on
      <4>1. j \in Int /\ j - 1 \in Said(Tail(q), t) /\ Tail(q)[j - 1] = q[j]
        BY <1>2, <1>5
      <4>2. j - 1 >= i
        BY <3>2, <3>3, <4>1
      <4>3. QED BY <3>1, <4>1, <4>2
    <3>4. QED BY <3>2, <3>3 DEF EndsOn
  <2>4. QED BY <1>4, <1>5, <2>1, <2>2, <2>3
<1>6. CASE 1 \in Said(q, t)
  <2>1. CASE Said(Tail(q), t) = {}
    <3>1. Said(q, t) = {1}
      BY <1>2, <1>6, <2>1
    <3>2. EndsOn(q, t) <=> q[1].on
      BY <3>1 DEF EndsOn
    <3>3. QED BY <1>1, <1>4, <1>6, <2>1, <3>2
  <2>2. CASE Said(Tail(q), t) # {}
    <3>1. ASSUME EndsOn(q, t) PROVE EndsOn(Tail(q), t)
      <4>1. PICK i \in Said(q, t) : \A j \in Said(q, t) : j >= i => q[j].on
        BY <3>1 DEF EndsOn
      <4>2. CASE i # 1
        <5>1. i - 1 \in Said(Tail(q), t) /\ i \in Int
          BY <1>2, <4>2
        <5>2. ASSUME NEW j \in Said(Tail(q), t), j >= i - 1 PROVE Tail(q)[j].on
          <6>1. j \in Int /\ j + 1 \in Said(q, t) /\ Tail(q)[j] = q[j + 1]
            BY <1>3
          <6>2. j + 1 >= i
            BY <5>1, <5>2, <6>1
          <6>3. QED BY <4>1, <6>1, <6>2
        <5>3. QED BY <5>1, <5>2 DEF EndsOn
      <4>3. CASE i = 1
        <5>1. ASSUME NEW j \in Said(Tail(q), t) PROVE Tail(q)[j].on
          <6>1. j \in Int /\ j >= 1 /\ j + 1 \in Said(q, t) /\ Tail(q)[j] = q[j + 1]
            BY <1>3
          <6>2. j + 1 >= i
            BY <4>3, <6>1
          <6>3. QED BY <4>1, <6>1, <6>2
        <5>2. QED BY <2>2, <5>1 DEF EndsOn
      <4>4. QED BY <4>2, <4>3
    <3>2. ASSUME EndsOn(Tail(q), t) PROVE EndsOn(q, t)
      <4>1. PICK i \in Said(Tail(q), t) : \A j \in Said(Tail(q), t) : j >= i => Tail(q)[j].on
        BY <3>2 DEF EndsOn
      <4>2. i + 1 \in Said(q, t) /\ i \in Int /\ i >= 1
        BY <1>3
      <4>3. ASSUME NEW j \in Said(q, t), j >= i + 1 PROVE q[j].on
        <5>1. j \in Int /\ j # 1
          BY <1>2, <4>2, <4>3
        <5>2. j - 1 \in Said(Tail(q), t) /\ Tail(q)[j - 1] = q[j]
          BY <1>2, <5>1
        <5>3. j - 1 >= i
          BY <4>2, <4>3, <5>1
        <5>4. QED BY <4>1, <5>2, <5>3
      <4>4. QED BY <4>2, <4>3 DEF EndsOn
    <3>3. QED BY <1>4, <1>6, <2>2, <3>1, <3>2
  <2>3. QED BY <2>1, <2>2
<1>7. QED BY <1>5, <1>6

LEMMA ConcatSays ==
  ASSUME NEW q \in Seq(ToR), NEW p \in Seq(ToR), NEW t
  PROVE  /\ Said(p, t) = {} =>
              /\ Said(q \o p, t) = Said(q, t)
              /\ EndsOn(q \o p, t) <=> EndsOn(q, t)
         /\ \A v \in BOOLEAN :
              Said(p, t) # {} /\ (\A i \in Said(p, t) : p[i].on = v) =>
                /\ Said(q \o p, t) # {}
                /\ EndsOn(q \o p, t) <=> v
<1>1. /\ Len(q) \in Nat /\ \A i \in Said(q, t) : i \in 1..Len(q)
      /\ \A i \in Said(p, t) : i \in 1..Len(p) /\ i \in Int /\ i >= 1
  BY DEF Said
<1>2. CASE Said(p, t) = {}
  <2>0. Said(q \o p, t) = Said(q, t) \cup {Len(q) + i : i \in Said(p, t)}
    BY SaidConcat
  <2>1. Said(q \o p, t) = Said(q, t)
    BY <1>2, <2>0
  <2>2. \A i \in Said(q, t) : (q \o p)[i] = q[i]
    BY SaidConcat
  <2>3. QED BY <1>2, <2>1, <2>2 DEF EndsOn
<1>3. ASSUME NEW v \in BOOLEAN, Said(p, t) # {}, \A i \in Said(p, t) : p[i].on = v
      PROVE  Said(q \o p, t) # {} /\ (EndsOn(q \o p, t) <=> v)
  <2>1. PICK k \in Said(p, t) : TRUE
    BY <1>3
  <2>0. /\ Said(q \o p, t) = Said(q, t) \cup {Len(q) + i : i \in Said(p, t)}
        /\ \A i \in Said(p, t) : (q \o p)[Len(q) + i] = p[i]
    BY SaidConcat
  <2>2. Len(q) + k \in Said(q \o p, t) /\ (q \o p)[Len(q) + k].on = v
    BY <1>3, <2>0
  <2>3. ASSUME v PROVE EndsOn(q \o p, t)
    <3>1. ASSUME NEW j \in Said(q \o p, t), j >= Len(q) + k PROVE (q \o p)[j].on
      <4>1. j \notin Said(q, t)
        BY <1>1, <2>1, <3>1
      <4>2. PICK i \in Said(p, t) : j = Len(q) + i
        BY <3>1, <4>1, SaidConcat
      <4>3. (q \o p)[j] = p[i]
        BY <4>2, SaidConcat
      <4>4. QED BY <1>3, <2>3, <4>2, <4>3
    <3>2. QED BY <2>2, <3>1 DEF EndsOn
  <2>4. ASSUME ~v, EndsOn(q \o p, t) PROVE FALSE
    <3>1. PICK i \in Said(q \o p, t) : \A j \in Said(q \o p, t) : j >= i => (q \o p)[j].on
      BY <2>4 DEF EndsOn
    <3>2. CASE i \in Said(q, t)
      <4>1. Len(q) + k >= i
        BY <1>1, <3>2, <2>1
      <4>2. QED BY <2>2, <2>4, <3>1, <4>1
    <3>3. CASE i \notin Said(q, t)
      <4>1. PICK l \in Said(p, t) : i = Len(q) + l
        BY <3>3, SaidConcat
      <4>2. (q \o p)[i].on = v
        BY <1>3, <2>0, <4>1
      <4>3. i >= i
        BY <1>1, <4>1
      <4>4. QED BY <2>4, <3>1, <4>2, <4>3
    <3>4. QED BY <3>2, <3>3
  <2>5. QED BY <2>2, <2>3, <2>4
<1>4. QED BY <1>2, <1>3

(* The fields of the messages.                                             *)
LEMMA Fields ==
  /\ Fin.kind = "fin" /\ Auth.kind = "auth" /\ Message.kind = "message" /\ Hello.kind = "hello"
  /\ \A ok \in BOOLEAN : Reply(ok).kind = "reply"
  /\ \A t, on : Set(t, on).kind = "set" /\ Set(t, on).topic = t /\ Set(t, on).on = on
BY DEF Fin, Auth, Message, Hello, Reply, Set

(* Two queues say the same, and one that has ended does not go on.         *)
Alike(q, p) ==
  /\ \A t \in Topic : Said(p, t) = Said(q, t) /\ (EndsOn(p, t) <=> EndsOn(q, t))
  /\ Ended(q) => Ended(p)
Answers(q) == \E i \in DOMAIN q : q[i].kind = "reply"

LEMMA EndedConcat ==
  ASSUME NEW q \in Seq(ToR), NEW p \in Seq(ToR), Ended(q)
  PROVE  Ended(q \o p)
<1>1. PICK i \in DOMAIN q : q[i] = Fin
  BY DEF Ended
<1>2. i \in DOMAIN (q \o p) /\ (q \o p)[i] = q[i]
  OBVIOUS
<1>3. QED BY <1>1, <1>2 DEF Ended

LEMMA EndedTail ==
  ASSUME NEW q \in Seq(ToR), q # <<>>, Head(q) # Fin, Ended(q)
  PROVE  Ended(Tail(q))
<1>1. PICK i \in DOMAIN q : q[i] = Fin
  BY DEF Ended
<1>2. i # 1 /\ i \in 1..Len(q) /\ Len(q) \in Nat
  BY <1>1
<1>3. i - 1 \in DOMAIN Tail(q) /\ Tail(q)[i - 1] = q[i]
  BY <1>2
<1>4. QED BY <1>1, <1>3 DEF Ended

LEMMA AppendAlike ==
  ASSUME NEW q \in Seq(ToR), NEW m \in ToR, m.kind # "set"
  PROVE  Alike(q, Append(q, m)) /\ Alike(q, q) /\ (m = Fin => Ended(Append(q, m)))
<1>1. <<m>> \in Seq(ToR) /\ Append(q, m) = q \o <<m>>
  OBVIOUS
<1>2. \A t : Said(<<m>>, t) = {}
  BY DEF Said
<1>3. Alike(q, Append(q, m))
  <2>1. ASSUME NEW t \in Topic
        PROVE  Said(q \o <<m>>, t) = Said(q, t) /\ (EndsOn(q \o <<m>>, t) <=> EndsOn(q, t))
    BY <1>1, <1>2, ConcatSays
  <2>2. Ended(q) => Ended(q \o <<m>>)
    BY <1>1, EndedConcat
  <2>3. QED BY <1>1, <2>1, <2>2 DEF Alike
<1>4. m = Fin => Ended(Append(q, m))
  <2>1. Len(q) + 1 \in DOMAIN Append(q, m) /\ Append(q, m)[Len(q) + 1] = m
    OBVIOUS
  <2>2. QED BY <2>1 DEF Ended
<1>5. QED BY <1>3, <1>4 DEF Alike

LEMMA ClosingAlike ==
  ASSUME NEW q \in Seq(ToR), NEW end
  PROVE  Alike(q, Closing(q, end)) /\ (end # "none" => Ended(Closing(q, end)))
<1>1. Fin \in ToR /\ Fin.kind # "set"
  BY Messages, Fields
<1>2. QED BY <1>1, AppendAlike DEF Closing

LEMMA AnswersKept ==
  ASSUME NEW q \in Seq(ToS)
  PROVE  /\ \A end : Answers(Closing(q, end)) => Answers(q)
         /\ Answers(Append(q, Hello)) => Answers(q)
         /\ q # <<>> /\ Answers(Tail(q)) => Answers(q)
         /\ ~Answers(<<>>) /\ ~Answers(<<Fin>>)
<1>1. ASSUME NEW m, m.kind # "reply", Answers(Append(q, m)) PROVE Answers(q)
  <2>1. PICK i \in DOMAIN Append(q, m) : Append(q, m)[i].kind = "reply"
    BY <1>1 DEF Answers
  <2>2. i \in DOMAIN q /\ Append(q, m)[i] = q[i]
    BY <1>1, <2>1
  <2>3. QED BY <2>1, <2>2 DEF Answers
<1>2. Fin.kind # "reply" /\ Hello.kind # "reply"
  BY Fields
<1>3. ASSUME q # <<>>, Answers(Tail(q)) PROVE Answers(q)
  <2>1. PICK i \in DOMAIN Tail(q) : Tail(q)[i].kind = "reply"
    BY <1>3 DEF Answers
  <2>2. i + 1 \in DOMAIN q /\ Tail(q)[i] = q[i + 1]
    BY <1>3
  <2>3. QED BY <2>1, <2>2 DEF Answers
<1>4. ~Answers(<<>>) /\ ~Answers(<<Fin>>)
  BY <1>2 DEF Answers
<1>5. QED BY <1>1, <1>2, <1>3, <1>4 DEF Closing

LEMMA WalkSays ==
  ASSUME NEW T \in SUBSET Topic, NEW q \in Orders(T), NEW on \in [Topic -> BOOLEAN],
         NEW p, p = [i \in DOMAIN q |-> Set(q[i], on[q[i]])]
  PROVE  \A t \in Topic :
           /\ t \in T => Said(p, t) # {} /\ \A i \in Said(p, t) : p[i].on = on[t]
           /\ t \notin T => Said(p, t) = {}
<1>1. DOMAIN p = DOMAIN q /\ \A i \in DOMAIN q : q[i] \in T
  BY DEF Orders
<1>2. \A i \in DOMAIN p : p[i].kind = "set" /\ p[i].topic = q[i] /\ p[i].on = on[q[i]]
  BY <1>1, Fields
<1>3. \A t \in T : \E i \in DOMAIN q : q[i] = t
  BY DEF Orders
<1>4. QED BY <1>1, <1>2, <1>3 DEF Said

(* What holds of one connection.                                           *)
SyncAt(c) ==
  /\ s[c] # "none" => c = tx
  /\ s[c] = "up" \/ Answers(toS[c]) => r[c] \in {"up", "none"}
  /\ s[c] \in {"wait", "auth"} => list[c] = {} /\ \A t \in Topic : Said(toR[c], t) = {}
  /\ s[c] = "up" /\ r[c] = "up" /\ ~Ended(toR[c]) =>
       \A t \in Topic : /\ t \in Live \cap allowed => t \in Believed(c)
                        /\ t \in Believed(c) => t \in known
SyncInv == Live \subseteq known /\ \A c \in Conn : SyncAt(c)

(* Nothing of importance happens to a connection.                          *)
Keeps(c) ==
  /\ s'[c] = s[c]
  /\ s[c] # "none" => tx' = tx
  /\ Answers(toS'[c]) => Answers(toS[c])
  /\ \/ r'[c] = "none" /\ toR'[c] = <<>> /\ list'[c] = {}
     \/ /\ r'[c] = r[c] \/ (r[c] = "backlog" /\ r'[c] = "hello")
        /\ toR'[c] = toR[c] \/ Alike(toR[c], toR'[c])
        /\ list'[c] = list[c]

LEMMA KeepsSync ==
  ASSUME NEW c \in Conn, SyncAt(c), Keeps(c), UNCHANGED <<local, known, allowed>>
  PROVE  SyncAt(c)'
<1>1. CASE r'[c] = "none" /\ toR'[c] = <<>> /\ list'[c] = {}
  <2>1. \A t \in Topic : Said(<<>>, t) = {}
    BY DEF Said
  <2>2. QED BY <1>1, <2>1 DEF SyncAt, Keeps
<1>2. CASE /\ r'[c] = r[c] \/ (r[c] = "backlog" /\ r'[c] = "hello")
           /\ toR'[c] = toR[c] \/ Alike(toR[c], toR'[c])
           /\ list'[c] = list[c]
  <2>1. /\ \A t \in Topic : /\ Said(toR'[c], t) = Said(toR[c], t)
                            /\ EndsOn(toR'[c], t) <=> EndsOn(toR[c], t)
        /\ Ended(toR[c]) => Ended(toR'[c])
    BY <1>2 DEF Alike
  <2>2. Believed(c)' = Believed(c)
    BY <1>2, <2>1 DEF Believed
  <2>3. Live' = Live
    BY DEF Live
  <2>4. s'[c] = "up" \/ Answers(toS'[c]) => r'[c] \in {"up", "none"}
    BY <1>2 DEF Keeps, SyncAt
  <2>5. s'[c] # "none" => c = tx'
    BY DEF Keeps, SyncAt
  <2>6. s'[c] \in {"wait", "auth"} => list'[c] = {} /\ \A t \in Topic : Said(toR'[c], t) = {}
    BY <1>2, <2>1 DEF Keeps, SyncAt
  <2>7. s'[c] = "up" /\ r'[c] = "up" /\ ~Ended(toR'[c]) =>
          \A t \in Topic : /\ t \in Live' \cap allowed' => t \in Believed(c)'
                           /\ t \in Believed(c)' => t \in known'
    BY <1>2, <2>1, <2>2, <2>3 DEF Keeps, SyncAt
  <2>8. QED BY <2>4, <2>5, <2>6, <2>7 DEF SyncAt
<1>3. QED BY <1>1, <1>2 DEF Keeps

(* S has no end of it any more.                                            *)
LEMMA GoneSync ==
  ASSUME NEW c \in Conn, s'[c] = "none", Answers(toS'[c]) => r'[c] \in {"up", "none"}
  PROVE  SyncAt(c)'
BY DEF SyncAt

LEMMA TxClosedSync ==
  ASSUME UnetmsgTypeOK, SyncInv, NEW c, TxClosed(c),
         UNCHANGED <<local, known, allowed, list>>
  PROVE  SyncInv'
<1>1. ASSUME NEW d \in Conn PROVE SyncAt(d)'
  <2>1. SyncAt(d)
    BY DEF SyncInv
  <2>2. toR[d] \in Seq(ToR) /\ toS[d] \in Seq(ToS)
    BY DEF UnetmsgTypeOK
  <2>3. CASE d = c
    <3>1. s'[d] = "none" /\ toS'[d] = <<>>
      BY <2>3 DEF TxClosed
    <3>2. QED BY <2>2, <3>1, GoneSync, AnswersKept
  <2>4. CASE d # c
    <3>1. s'[d] = s[d] /\ toS'[d] = toS[d] /\ toR'[d] = toR[d] /\ r'[d] = r[d]
      BY <2>4 DEF TxClosed
    <3>2. s[d] # "none" => tx' = tx
      <4>1. s[d] # "none" => d = tx
        BY <2>1 DEF SyncAt
      <4>2. QED BY <2>4, <4>1 DEF TxClosed
    <3>3. QED BY <2>1, <3>1, <3>2, KeepsSync DEF Keeps
  <2>5. QED BY <2>3, <2>4
<1>2. Live' \subseteq known'
  BY DEF SyncInv, Live
<1>3. QED BY <1>1, <1>2 DEF SyncInv

LEMMA RClosedSync ==
  ASSUME UnetmsgTypeOK, SyncInv, NEW C, RClosed(C), UNCHANGED <<tx, local, known>>,
         UNCHANGED allowed \/ \A c \in Conn : r[c] = "up" => c \in C
  PROVE  SyncInv'
<1>1. ASSUME NEW d \in Conn PROVE SyncAt(d)'
  <2>1. SyncAt(d)
    BY DEF SyncInv
  <2>2. toR[d] \in Seq(ToR) /\ toS[d] \in Seq(ToS)
    BY DEF UnetmsgTypeOK
  <2>3. CASE d \in C
    <3>1. /\ r'[d] = "none" /\ toR'[d] = <<>> /\ list'[d] = {} /\ s'[d] = s[d]
          /\ toS'[d] = Closing(toS[d], s[d])
      BY <2>3 DEF RClosed
    <3>2. \A t \in Topic : Said(<<>>, t) = {}
      BY DEF Said
    <3>3. QED BY <2>1, <3>1, <3>2 DEF SyncAt
  <2>4. CASE d \notin C
    <3>1. r'[d] = r[d] /\ toR'[d] = toR[d] /\ list'[d] = list[d] /\ s'[d] = s[d] /\ toS'[d] = toS[d]
      BY <2>4 DEF RClosed
    <3>2. CASE UNCHANGED allowed
      BY <2>1, <3>1, <3>2, KeepsSync DEF Keeps
    <3>3. CASE \A c \in Conn : r[c] = "up" => c \in C
      BY <2>1, <2>4, <3>1, <3>3 DEF SyncAt
    <3>4. QED BY <3>2, <3>3
  <2>5. QED BY <2>3, <2>4
<1>2. Live' \subseteq known'
  BY DEF SyncInv, Live
<1>3. QED BY <1>1, <1>2 DEF SyncInv

(* What S says of a topic on its channel replaces what R believed of it.   *)
Tells(T, on, p) ==
  /\ SSends(tx, p)
  /\ \A t \in Topic :
       /\ t \in T => Said(p, t) # {} /\ \A i \in Said(p, t) : p[i].on = on[t]
       /\ t \notin T => Said(p, t) = {}
  /\ \A t \in Topic : /\ t \in T => (t \in Live' <=> on[t])
                      /\ t \notin T /\ t \in Live' => t \in Live
  /\ Live' \subseteq known' /\ known \subseteq known'

LEMMA TellSync ==
  ASSUME UnetmsgTypeOK, SyncInv, TxUp, NEW T \in SUBSET Topic, NEW on \in [Topic -> BOOLEAN],
         NEW p \in Seq(ToR), Tells(T, on, p), UNCHANGED <<tx, s, r, list, allowed>>
  PROVE  SyncInv'
<1> USE DEF Tells
<1>1. ASSUME NEW c \in Conn PROVE SyncAt(c)'
  <2>1. SyncAt(c) /\ tx \in Conn /\ s[tx] = "up"
    BY DEF SyncInv, TxUp, UnetmsgTypeOK
  <2>2. toR[c] \in Seq(ToR) /\ toS[c] \in Seq(ToS)
    BY DEF UnetmsgTypeOK
  <2>3. CASE c # tx
    <3>1. s[c] = "none" /\ toS'[c] = toS[c]
      BY <2>1, <2>3 DEF SyncAt, SSends, UnetmsgTypeOK
    <3>2. QED BY <2>1, <3>1, GoneSync DEF SyncAt
  <2>4. CASE c = tx
    <3>1. Answers(toS'[c]) => Answers(toS[c])
      BY <2>2, <2>4, AnswersKept DEF SSends, UnetmsgTypeOK
    <3>2. CASE r[c] = "up" /\ ~Ended(toR'[c])
      <4>1. toR'[c] = toR[c] \o p /\ ~Ended(toR[c])
        BY <2>1, <2>2, <2>4, <3>2 DEF SSends, UnetmsgTypeOK
      <4>2. ASSUME NEW t \in Topic
            PROVE  /\ t \in Live' \cap allowed => t \in Believed(c)'
                   /\ t \in Believed(c)' => t \in known'
        <5>1. CASE t \in T
          <6>1. Said(toR[c] \o p, t) # {} /\ (EndsOn(toR[c] \o p, t) <=> on[t])
            BY <2>2, <5>1, ConcatSays
          <6>2. t \in Believed(c)' <=> t \in allowed /\ on[t]
            BY <4>1, <6>1 DEF Believed
          <6>3. QED BY <5>1, <6>2
        <5>2. CASE t \notin T
          <6>1. Said(toR[c] \o p, t) = Said(toR[c], t) /\ (EndsOn(toR[c] \o p, t) <=> EndsOn(toR[c], t))
            BY <2>2, <5>2, ConcatSays
          <6>2. t \in Believed(c)' <=> t \in Believed(c)
            BY <4>1, <6>1 DEF Believed
          <6>3. QED BY <2>1, <2>4, <3>2, <4>1, <5>2, <6>2 DEF SyncAt
        <5>3. QED BY <5>1, <5>2
      <4>3. QED BY <2>1, <2>4, <3>2, <4>2 DEF SyncAt
    <3>3. CASE ~(r[c] = "up" /\ ~Ended(toR'[c]))
      BY <2>1, <2>4, <3>3, <3>1 DEF SyncAt
    <3>4. QED BY <3>2, <3>3
  <2>5. QED BY <2>3, <2>4
<1>2. QED BY <1>1 DEF SyncInv

(* As long as no channel is up the clients may do what they like.          *)
LEMMA SilentSync ==
  ASSUME UnetmsgTypeOK, SyncInv, UNCHANGED <<tx, s, r, toR, toS, list, allowed>>,
         Live' \subseteq known', known \subseteq known', ~TxUp \/ Live' \subseteq Live
  PROVE  SyncInv'
<1>1. ASSUME NEW c \in Conn PROVE SyncAt(c)'
  <2>1. SyncAt(c)
    BY DEF SyncInv
  <2>2. Believed(c)' = Believed(c)
    BY DEF Believed
  <2>3. CASE ~TxUp
    <3>1. s[c] # "up"
      BY <2>1, <2>3, UnetmsgAssumption DEF SyncAt, TxUp
    <3>2. QED BY <2>1, <3>1 DEF SyncAt
  <2>4. CASE Live' \subseteq Live
    BY <2>1, <2>2, <2>4 DEF SyncAt
  <2>5. QED BY <2>3, <2>4
<1>2. QED BY <1>1 DEF SyncInv

LEMMA SyncAdd ==
  ASSUME UnetmsgTypeOK, SyncInv, NEW k \in Client, NEW t \in Topic, Add(k, t)
  PROVE  SyncInv'
<1>1. Live' = Live \cup {t} /\ known' = known \cup {t}
  BY DEF Add, Live, UnetmsgTypeOK
<1>2. Live \subseteq known
  BY DEF SyncInv
<1>3. UNCHANGED <<tx, s, r, list, allowed>>
  BY DEF Add, peer
<1>4. CASE TxUp /\ (local[t] = {} \/ t \in Published)
  <2> DEFINE p == <<Set(t, TRUE)>>
             on == [u \in Topic |-> TRUE]
  <2>1. p \in Seq(ToR) /\ SSends(tx, p)
    BY <1>4, Messages, QueuesToR DEF Add
  <2>2. \A u \in Topic : /\ u \in {t} => Said(p, u) # {} /\ \A i \in Said(p, u) : p[i].on = on[u]
                         /\ u \notin {t} => Said(p, u) = {}
    <3>1. DOMAIN p = {1} /\ p[1] = Set(t, TRUE)
      OBVIOUS
    <3>2. p[1].kind = "set" /\ p[1].topic = t /\ p[1].on = TRUE
      BY <3>1, Fields
    <3>3. QED BY <3>1, <3>2 DEF Said
  <2>3. \A u \in Topic : /\ u \in {t} => (u \in Live' <=> on[u])
                         /\ u \notin {t} /\ u \in Live' => u \in Live
    BY <1>1
  <2>4. on \in [Topic -> BOOLEAN] /\ {t} \in SUBSET Topic
    OBVIOUS
  <2> HIDE DEF p, on
  <2>5. Tells({t}, on, p)
    BY <1>1, <1>2, <2>1, <2>2, <2>3 DEF Tells
  <2>6. QED BY <1>3, <1>4, <2>1, <2>4, <2>5, TellSync
<1>5. CASE ~(TxUp /\ (local[t] = {} \/ t \in Published))
  <2>1. UNCHANGED <<toR, toS>>
    BY <1>5 DEF Add
  <2>2. ~TxUp \/ Live' \subseteq Live
    BY <1>1, <1>5 DEF Live
  <2>3. QED BY <1>1, <1>2, <1>3, <2>1, <2>2, SilentSync
<1>6. QED BY <1>4, <1>5

LEMMA SyncGone ==
  ASSUME UnetmsgTypeOK, SyncInv, NEW k \in Client, ClientGone(k)
  PROVE  SyncInv'
<1> DEFINE left == [t \in Topic |-> local[t] \ {k}]
           told == {t \in Topic : k \in local[t] /\ (left[t] = {} \/ t \in Published)}
           on == [t \in Topic |-> left[t] # {}]
<1>1. Live' = {t \in Topic : left[t] # {}} /\ Live' \subseteq Live /\ known' = known
  BY DEF ClientGone, Live
<1>2. Live \subseteq known
  BY DEF SyncInv
<1>3. UNCHANGED <<tx, s, r, list, allowed>>
  BY DEF ClientGone, peer
<1>4. CASE TxUp
  <2>1. PICK q \in Orders(told) : SSends(tx, [i \in DOMAIN q |-> Set(q[i], left[q[i]] # {})])
    BY <1>4 DEF ClientGone
  <2> DEFINE p == [i \in DOMAIN q |-> Set(q[i], on[q[i]])]
  <2>2. \A i \in DOMAIN q : q[i] \in Topic
    BY DEF Orders
  <2>3. SSends(tx, p)
    <3>1. p = [i \in DOMAIN q |-> Set(q[i], left[q[i]] # {})]
      BY <2>2
    <3>2. QED BY <2>1, <3>1
  <2>4. on \in [Topic -> BOOLEAN] /\ told \in SUBSET Topic
    OBVIOUS
  <2>5. \A t \in Topic : /\ t \in told => (t \in Live' <=> on[t])
                         /\ t \notin told /\ t \in Live' => t \in Live
    BY <1>1
  <2> HIDE DEF on, told
  <2>6. p \in Seq(ToR)
    BY <2>4, Walks
  <2>7. \A t \in Topic :
          /\ t \in told => Said(p, t) # {} /\ \A i \in Said(p, t) : p[i].on = on[t]
          /\ t \notin told => Said(p, t) = {}
    BY <2>4, WalkSays
  <2> HIDE DEF p, left
  <2>8. Live' \subseteq known' /\ known \subseteq known'
    BY <1>1, <1>2
  <2>9. Tells(told, on, p)
    BY <2>3, <2>5, <2>7, <2>8 DEF Tells
  <2>10. QED BY <1>3, <1>4, <2>4, <2>6, <2>9, TellSync
<1>5. CASE ~TxUp
  <2>1. UNCHANGED <<toR, toS>>
    BY <1>5 DEF ClientGone
  <2>2. QED BY <1>1, <1>2, <1>3, <1>5, <2>1, SilentSync
<1>6. QED BY <1>4, <1>5

LEMMA SyncConnect ==
  ASSUME UnetmsgTypeOK, ListsInv, SyncInv, Connect
  PROVE  SyncInv'
<1>1. PICK c \in Free :
        /\ tx' = c
        /\ s' = [d \in Conn |-> IF d = c THEN "wait" ELSE IF d = tx THEN "none" ELSE s[d]]
        /\ r' = [r EXCEPT ![c] = "backlog"]
        /\ toS' = [d \in Conn |-> IF d = tx THEN <<>> ELSE toS[d]]
        /\ toR' = [d \in Conn |-> IF d = tx THEN Closing(toR[d], r[d]) ELSE toR[d]]
  BY DEF Connect
<1>2. c \in Conn /\ s[c] = "none" /\ r[c] = "none" /\ toS[c] = <<>> /\ toR[c] = <<>>
  BY DEF Free
<1>3. UNCHANGED <<local, known, list, allowed>>
  BY DEF Connect, clients, peer
<1>4. ~Answers(<<>>)
  BY QueuesToS, AnswersKept
<1>5. ASSUME NEW d \in Conn PROVE SyncAt(d)'
  <2>1. SyncAt(d) /\ toS[d] \in Seq(ToS)
    BY DEF SyncInv, UnetmsgTypeOK
  <2>2. CASE d = c
    <3>1. s'[d] = "wait" /\ toS'[d] = <<>> /\ toR'[d] = <<>> /\ list'[d] = list[d]
      BY <1>1, <1>2, <1>3, <2>2 DEF Closing
    <3>2. list[d] = {}
      BY <1>2, <2>2 DEF ListsInv, ListsAgree
    <3>3. \A t \in Topic : Said(<<>>, t) = {}
      BY DEF Said
    <3>4. QED BY <1>1, <1>4, <2>2, <3>1, <3>2, <3>3 DEF SyncAt
  <2>3. CASE d # c
    <3>1. s[d] # "none" => d = tx
      BY <2>1 DEF SyncAt
    <3>2. s'[d] = "none" /\ r'[d] = r[d] /\ toS'[d] \in {<<>>, toS[d]}
      BY <1>1, <2>3, <3>1 DEF UnetmsgTypeOK
    <3>3. QED BY <1>4, <2>1, <3>2, GoneSync DEF SyncAt
  <2>4. QED BY <2>2, <2>3
<1>6. QED BY <1>3, <1>5 DEF SyncInv, Live

LEMMA HeadAnswers ==
  ASSUME NEW q \in Seq(ToS), q # <<>>, Head(q).kind = "reply"
  PROVE  Answers(q)
<1>1. 1 \in DOMAIN q /\ q[1] = Head(q)
  OBVIOUS
<1>2. QED BY <1>1 DEF Answers

LEMMA SyncAtS ==
  ASSUME UnetmsgTypeOK, SyncInv, NEW c \in Conn, SHello(c) \/ SReply(c) \/ SRefused(c) \/ SLost(c)
  PROVE  SyncInv'
<1>1. UNCHANGED <<local, known, list, allowed>>
  BY DEF SHello, SReply, SRefused, SLost, clients, peer
<1>2. s[c] # "none" /\ toS[c] # <<>>
  BY DEF SHello, SReply, SRefused, SLost
<1>3. CASE TxClosed(c)
  BY <1>1, <1>2, <1>3, TxClosedSync
<1>4. CASE ~TxClosed(c) /\ SHello(c)
  <2>1. /\ s' = [s EXCEPT ![c] = "auth"]
        /\ toS' = [toS EXCEPT ![c] = IF r[c] = "none" THEN Closing(Tail(@), "auth") ELSE Tail(@)]
        /\ toR' = [toR EXCEPT ![c] = IF r[c] = "none" \/ Ended(@) THEN @ ELSE Append(@, Auth)]
        /\ UNCHANGED <<tx, r>> /\ s[c] = "wait"
    BY <1>4 DEF SHello
  <2>2. ASSUME NEW d \in Conn PROVE SyncAt(d)'
    <3>1. SyncAt(d) /\ toS[d] \in Seq(ToS) /\ toR[d] \in Seq(ToR)
      BY DEF SyncInv, UnetmsgTypeOK
    <3>2. CASE d # c
      <4>1. s'[d] = s[d] /\ toS'[d] = toS[d] /\ toR'[d] = toR[d]
        BY <2>1, <3>2 DEF UnetmsgTypeOK
      <4>2. QED BY <1>1, <2>1, <3>1, <4>1, KeepsSync DEF Keeps
    <3>3. CASE d = c
      <4>1. /\ s'[d] = "auth"
            /\ toS'[d] \in {Closing(Tail(toS[d]), "auth"), Tail(toS[d])}
            /\ toR'[d] \in {toR[d], Append(toR[d], Auth)}
        BY <2>1, <3>3 DEF UnetmsgTypeOK
      <4>2. Answers(toS'[d]) => Answers(toS[d])
        <5>1. Tail(toS[d]) \in Seq(ToS)
          BY <1>2, <3>1, <3>3
        <5>2. Answers(Tail(toS[d])) => Answers(toS[d])
          BY <1>2, <3>1, <3>3, AnswersKept
        <5>3. Answers(Closing(Tail(toS[d]), "auth")) => Answers(Tail(toS[d]))
          BY <5>1, AnswersKept
        <5>4. QED BY <4>1, <5>2, <5>3
      <4>3. \A t \in Topic : Said(toR'[d], t) = Said(toR[d], t)
        <5>1. Auth \in ToR /\ Auth.kind # "set"
          BY Messages, Fields
        <5>2. Alike(toR[d], Append(toR[d], Auth))
          BY <3>1, <5>1, AppendAlike
        <5>3. QED BY <4>1, <5>2 DEF Alike
      <4>4. QED BY <1>1, <2>1, <3>1, <3>3, <4>1, <4>2, <4>3 DEF SyncAt
    <3>4. QED BY <3>2, <3>3
  <2>3. QED BY <1>1, <2>2 DEF SyncInv, Live
<1>5. CASE SReply(c)
  <2>1. PICK q \in Orders(Announced) :
          toR' = [toR EXCEPT ![c] = IF r[c] = "none" \/ Ended(@) THEN @
                                    ELSE @ \o [i \in DOMAIN q |-> Set(q[i], TRUE)]]
    BY <1>5 DEF SReply
  <2>2. /\ s' = [s EXCEPT ![c] = "up"] /\ UNCHANGED <<tx, r>> /\ s[c] = "auth"
        /\ toS' = [toS EXCEPT ![c] = IF r[c] = "none" /\ Announced # {} THEN Closing(Tail(@), "up")
                                                                  ELSE Tail(@)]
        /\ Head(toS[c]) = Reply(TRUE)
    BY <1>5 DEF SReply
  <2> DEFINE on == [t \in Topic |-> TRUE]
             p == [i \in DOMAIN q |-> Set(q[i], on[q[i]])]
  <2>3. \A i \in DOMAIN q : q[i] \in Topic
    BY DEF Orders, Announced, UnetmsgTypeOK
  <2>4. toR' = [toR EXCEPT ![c] = IF r[c] = "none" \/ Ended(@) THEN @ ELSE @ \o p]
    <3>1. p = [i \in DOMAIN q |-> Set(q[i], TRUE)]
      BY <2>3
    <3>2. QED BY <2>1, <3>1
  <2>5. on \in [Topic -> BOOLEAN] /\ known \in SUBSET Topic /\ q \in Orders(known)
    BY DEF UnetmsgTypeOK, Announced
  <2>6. \A t \in Topic : on[t] = TRUE
    OBVIOUS
  <2> HIDE DEF on
  <2>7. p \in Seq(ToR)
    BY <2>5, Walks
  <2>8. \A t \in Topic :
          /\ t \in known => Said(p, t) # {} /\ \A i \in Said(p, t) : p[i].on = TRUE
          /\ t \notin known => Said(p, t) = {}
    BY <2>5, <2>6, WalkSays
  <2> HIDE DEF p
  <2>9. ASSUME NEW d \in Conn PROVE SyncAt(d)'
    <3>1. SyncAt(d) /\ toS[d] \in Seq(ToS) /\ toR[d] \in Seq(ToR)
      BY DEF SyncInv, UnetmsgTypeOK
    <3>2. CASE d # c
      <4>1. s'[d] = s[d] /\ toS'[d] = toS[d] /\ toR'[d] = toR[d]
        BY <2>2, <2>4, <3>2 DEF UnetmsgTypeOK
      <4>2. QED BY <1>1, <2>2, <3>1, <4>1, KeepsSync DEF Keeps
    <3>3. CASE d = c
      <4>1. Answers(toS[d])
        <5>0. toS[d] # <<>> /\ Head(toS[d]) = Reply(TRUE)
          BY <1>2, <2>2, <3>3
        <5>1. QED BY <3>1, <5>0, Fields, HeadAnswers
      <4>2. r[d] \in {"up", "none"} /\ list[d] = {} /\ \A t \in Topic : Said(toR[d], t) = {}
        BY <2>2, <3>1, <3>3, <4>1 DEF SyncAt
      <4>3. ASSUME r[d] = "up", ~Ended(toR'[d]), NEW t \in Topic
            PROVE  t \in Believed(d)' <=> t \in known \cap allowed
        <5>1. toR'[d] = toR[d] \o p
          BY <2>4, <3>3, <4>3 DEF UnetmsgTypeOK
        <5>2. CASE t \in known
          <6>1. Said(toR[d] \o p, t) # {} /\ EndsOn(toR[d] \o p, t)
            BY <2>7, <2>8, <3>1, <5>2, ConcatSays
          <6>2. QED BY <1>1, <5>1, <5>2, <6>1 DEF Believed
        <5>3. CASE t \notin known
          <6>1. Said(toR[d] \o p, t) = {}
            BY <2>7, <2>8, <3>1, <4>2, <5>3, ConcatSays
          <6>2. QED BY <1>1, <4>2, <5>1, <5>3, <6>1 DEF Believed
        <5>4. QED BY <5>2, <5>3
      <4>4. s'[d] = "up"
        BY <2>2, <3>3 DEF UnetmsgTypeOK
      <4>5. Live' = Live /\ Live \subseteq known
        BY <1>1 DEF Live, SyncInv
      <4>6. QED BY <1>1, <2>2, <3>1, <3>3, <4>2, <4>3, <4>4, <4>5 DEF SyncAt
    <3>4. QED BY <3>2, <3>3
  <2>10. QED BY <1>1, <2>9 DEF SyncInv, Live
<1>6. QED BY <1>3, <1>4, <1>5 DEF SRefused, SLost

(* A step that keeps every connection keeps the invariant.                 *)
LEMMA AllKept ==
  ASSUME SyncInv, UNCHANGED <<local, known, allowed>>, \A d \in Conn : Keeps(d)
  PROVE  SyncInv'
BY KeepsSync DEF SyncInv, Live

LEMMA SyncForward ==
  ASSUME UnetmsgTypeOK, SyncInv, Forward
  PROVE  SyncInv'
<1>1. /\ UNCHANGED <<local, known, allowed, tx, s, r, list>> /\ tx \in Conn
      /\ SSends(tx, <<Message>>)
  BY DEF Forward, clients, peer, UnetmsgTypeOK
<1>2. ASSUME NEW d \in Conn PROVE Keeps(d)
  <2>1. toS[d] \in Seq(ToS) /\ toR[d] \in Seq(ToR)
    BY DEF UnetmsgTypeOK
  <2>2. Message \in ToR /\ Message.kind # "set" /\ toR[d] \o <<Message>> = Append(toR[d], Message)
    BY <2>1, Messages, Fields
  <2>3. Alike(toR[d], toR[d] \o <<Message>>)
    BY <2>1, <2>2, AppendAlike
  <2>4. toR'[d] \in {toR[d], toR[d] \o <<Message>>} /\ toS'[d] \in {toS[d], Closing(toS[d], s[d])}
    BY <1>1 DEF SSends, UnetmsgTypeOK
  <2>5. Answers(toS'[d]) => Answers(toS[d])
    BY <2>1, <2>4, AnswersKept
  <2>6. QED BY <1>1, <2>3, <2>4, <2>5 DEF Keeps
<1>3. QED BY <1>1, <1>2, AllKept

LEMMA SyncAccept ==
  ASSUME UnetmsgTypeOK, SyncInv, NEW c \in Conn, RAccept(c)
  PROVE  SyncInv'
<1>1. UNCHANGED <<local, known, allowed, tx>> /\ r[c] = "backlog"
  BY DEF RAccept, clients
<1>2. CASE allowed = {}
  BY <1>1, <1>2, RClosedSync DEF RAccept
<1>3. CASE allowed # {}
  <2>1. /\ r' = [r EXCEPT ![c] = "hello"]
        /\ toS' = [toS EXCEPT ![c] = IF s[c] = "none" THEN @ ELSE Append(@, Hello)]
        /\ UNCHANGED <<s, toR, list>>
    BY <1>3 DEF RAccept
  <2>2. ASSUME NEW d \in Conn PROVE Keeps(d)
    <3>1. toS[d] \in Seq(ToS) /\ toS'[d] \in {toS[d], Append(toS[d], Hello)}
      BY <2>1 DEF UnetmsgTypeOK
    <3>2. Answers(toS'[d]) => Answers(toS[d])
      BY <3>1, AnswersKept
    <3>3. QED BY <1>1, <2>1, <3>2 DEF Keeps, UnetmsgTypeOK
  <2>3. QED BY <1>1, <2>2, AllKept
<1>4. QED BY <1>2, <1>3

LEMMA SyncAuth ==
  ASSUME UnetmsgTypeOK, SyncInv, NEW c \in Conn, RAuth(c)
  PROVE  SyncInv'
<1> DEFINE old == IF rx = NoConn THEN {} ELSE {rx}
<1>1. PICK ok \in BOOLEAN :
        /\ r' = [d \in Conn |-> IF d = c THEN "up" ELSE IF d \in old THEN "none" ELSE r[d]]
        /\ toR' = [d \in Conn |-> IF d = c THEN (IF s[c] = "none" THEN Closing(Tail(toR[c]), "up")
                                                                  ELSE Tail(toR[c]))
                                  ELSE IF d \in old THEN <<>> ELSE toR[d]]
        /\ toS' = [d \in Conn |-> IF d = c
                                  THEN (IF s[c] = "none" THEN toS[c] ELSE Append(toS[c], Reply(ok)))
                                  ELSE IF d \in old THEN Closing(toS[d], s[d]) ELSE toS[d]]
        /\ list' = [d \in Conn |-> IF d \in old THEN {} ELSE list[d]]
  BY DEF RAuth
<1>2. /\ UNCHANGED <<local, known, allowed, tx, s>>
      /\ r[c] = "hello" /\ toR[c] # <<>> /\ Head(toR[c]) = Auth
  BY DEF RAuth, clients
<1> HIDE DEF old
<1>3. ASSUME NEW d \in Conn PROVE SyncAt(d)'
  <2>1. SyncAt(d) /\ toS[d] \in Seq(ToS) /\ toR[d] \in Seq(ToR)
    BY DEF SyncInv, UnetmsgTypeOK
  <2>2. CASE d = c
    <3>1. r'[d] = "up" /\ s'[d] = s[d] /\ s[d] # "up" /\ list'[d] \in {{}, list[d]}
      BY <1>1, <1>2, <2>1, <2>2 DEF SyncAt
    <3>2. ASSUME s[d] # "none", NEW t \in Topic, Said(toR[d], t) = {} PROVE Said(toR'[d], t) = {}
      <4>1. toR'[d] = Tail(toR[d])
        BY <1>1, <2>2, <3>2
      <4>2. QED BY <1>2, <2>1, <2>2, <3>2, <4>1, SaidTail
    <3>3. QED BY <1>2, <2>1, <3>1, <3>2 DEF SyncAt
  <2>3. CASE d # c
    <3>1. Keeps(d)
      BY <1>1, <1>2, <2>1, <2>3, AnswersKept DEF Keeps
    <3>2. QED BY <1>2, <2>1, <3>1, KeepsSync
  <2>4. QED BY <2>2, <2>3
<1>4. QED BY <1>2, <1>3 DEF SyncInv, Live

(* R reads one message: what it holds and will read stays the same.        *)
LEMMA SyncSet ==
  ASSUME UnetmsgTypeOK, ListsInv, SyncInv, NEW c \in Conn, RSet(c)
  PROVE  SyncInv'
<1> DEFINE m == Head(toR[c])
           adds == m.kind = "set" /\ m.on /\ m.topic \in allowed
           dels == m.kind = "set" /\ ~m.on /\ m.topic \in list[c]
<1>1. /\ UNCHANGED <<local, known, allowed, tx, s, toS, r>>
      /\ r[c] = "up" /\ toR[c] # <<>> /\ m \in ToR /\ m # Fin
      /\ toR' = [toR EXCEPT ![c] = Tail(@)]
      /\ list' = [list EXCEPT ![c] = IF adds THEN @ \cup {m.topic}
                                     ELSE IF dels THEN @ \ {m.topic} ELSE @]
  BY DEF RSet, clients
<1>2. list[c] \subseteq allowed
  BY <1>1, UnetmsgAssumption DEF ListsInv, ListsAgree
<1>3. toR[c] \in Seq(ToR) /\ toR'[c] = Tail(toR[c])
  BY <1>1 DEF UnetmsgTypeOK
<1>4. list'[c] = IF adds THEN list[c] \cup {m.topic}
                 ELSE IF dels THEN list[c] \ {m.topic} ELSE list[c]
  BY <1>1 DEF UnetmsgTypeOK
<1>5. m.kind = "set" => m.on \in BOOLEAN
  BY <1>1, Fields DEF ToR, ToS
<1>6. ASSUME NEW t \in Topic
      PROVE  /\ ~(m.kind = "set" /\ m.topic = t) =>
                  /\ Said(toR'[c], t) = {} <=> Said(toR[c], t) = {}
                  /\ EndsOn(toR'[c], t) <=> EndsOn(toR[c], t)
             /\ m.kind = "set" /\ m.topic = t =>
                  /\ Said(toR[c], t) # {}
                  /\ EndsOn(toR[c], t) <=> IF Said(toR'[c], t) = {} THEN m.on
                                           ELSE EndsOn(toR'[c], t)
  <2>1. PICK q \in Seq(ToR) : q = toR[c]
    BY <1>3
  <2>2. q # <<>> /\ m = Head(q) /\ toR'[c] = Tail(q)
    BY <1>1, <1>3, <2>1
  <2>3. /\ ~(Head(q).kind = "set" /\ Head(q).topic = t) =>
              /\ Said(Tail(q), t) = {} <=> Said(q, t) = {}
              /\ EndsOn(Tail(q), t) <=> EndsOn(q, t)
        /\ Head(q).kind = "set" /\ Head(q).topic = t =>
              /\ Said(q, t) # {}
              /\ EndsOn(q, t) <=> IF Said(Tail(q), t) = {} THEN Head(q).on
                                  ELSE EndsOn(Tail(q), t)
    BY <2>2, TailSays
  <2>4. QED BY <2>1, <2>2, <2>3, Zenon
<1> HIDE DEF m
<1>7. ASSUME NEW t \in Topic PROVE t \in Believed(c)' <=> t \in Believed(c)
  <2>1. CASE m.kind = "set" /\ m.topic = t
    <3>1. t \in Believed(c) <=> t \in allowed /\ EndsOn(toR[c], t)
      BY <1>6, <2>1 DEF Believed
    <3>2. CASE Said(toR'[c], t) # {}
      BY <1>1, <1>6, <2>1, <3>1, <3>2 DEF Believed
    <3>3. CASE Said(toR'[c], t) = {}
      <4>1. t \in list'[c] <=> t \in allowed /\ m.on
        BY <1>2, <1>4, <1>5, <2>1
      <4>2. t \in Believed(c)' <=> t \in list'[c]
        BY <3>3 DEF Believed
      <4>3. QED BY <1>6, <2>1, <3>1, <3>3, <4>1, <4>2
    <3>4. QED BY <3>2, <3>3
  <2>2. CASE ~(m.kind = "set" /\ m.topic = t)
    <3>1. t \in list'[c] <=> t \in list[c]
      BY <1>4, <2>2
    <3>2. QED BY <1>1, <1>6, <2>2, <3>1 DEF Believed
  <2>3. QED BY <2>1, <2>2
<1>8. ASSUME NEW d \in Conn PROVE SyncAt(d)'
  <2>1. SyncAt(d)
    BY DEF SyncInv
  <2>2. CASE d # c
    <3>1. Keeps(d)
      BY <1>1, <2>2 DEF Keeps, UnetmsgTypeOK
    <3>2. QED BY <1>1, <2>1, <3>1, KeepsSync
  <2>3. CASE d = c
    <3>1. ASSUME s[c] \in {"wait", "auth"}
          PROVE  list'[c] = {} /\ \A t \in Topic : Said(toR'[c], t) = {}
      <4>1. list[c] = {} /\ \A t \in Topic : Said(toR[c], t) = {}
        BY <2>1, <2>3, <3>1 DEF SyncAt
      <4>2. m.kind = "set" => m.topic \in Topic
        BY <1>1, Fields DEF ToR, ToS, m
      <4>3. m.kind # "set"
        BY <1>6, <4>1, <4>2
      <4>4. QED BY <1>4, <1>6, <4>1, <4>3
    <3>2. ~Ended(toR'[c]) => ~Ended(toR[c])
      BY <1>1, <1>3, EndedTail DEF m
    <3>3. Live' = Live
      BY <1>1 DEF Live
    <3>4. QED BY <1>1, <1>7, <2>1, <2>3, <3>1, <3>2, <3>3 DEF SyncAt
  <2>4. QED BY <2>2, <2>3
<1>9. QED BY <1>1, <1>8 DEF SyncInv, Live

LEMMA SyncLose ==
  ASSUME UnetmsgTypeOK, SyncInv, NEW c \in Conn, Lose(c)
  PROVE  SyncInv'
<1>1. /\ toS' = [toS EXCEPT ![c] = IF s[c] = "none" THEN @ ELSE <<Fin>>]
      /\ toR' = [toR EXCEPT ![c] = IF r[c] = "none" THEN @ ELSE <<Fin>>]
      /\ UNCHANGED <<local, known, allowed, tx, s, r, list>>
  BY DEF Lose, clients, peer
<1>2. ~Answers(<<Fin>>)
  BY QueuesToS, AnswersKept
<1>3. Ended(<<Fin>>) /\ \A t \in Topic : Said(<<Fin>>, t) = {}
  <2>1. DOMAIN <<Fin>> = {1} /\ <<Fin>>[1] = Fin
    OBVIOUS
  <2>2. QED BY <2>1, Fields DEF Ended, Said
<1>4. ASSUME NEW d \in Conn PROVE SyncAt(d)'
  <2>1. SyncAt(d)
    BY DEF SyncInv
  <2>2. CASE d # c
    BY <1>1, <2>1, <2>2, KeepsSync DEF Keeps, UnetmsgTypeOK
  <2>3. CASE d = c
    <3>1. toS'[d] \in {toS[d], <<Fin>>} /\ toR'[d] = IF r[d] = "none" THEN toR[d] ELSE <<Fin>>
      BY <1>1, <2>3 DEF UnetmsgTypeOK
    <3>2. QED BY <1>1, <1>2, <1>3, <2>1, <3>1 DEF SyncAt
  <2>4. QED BY <2>2, <2>3
<1>5. QED BY <1>1, <1>4 DEF SyncInv, Live

LEMMA SyncFailures ==
  ASSUME UnetmsgTypeOK, ListsInv, SyncInv, Failures
  PROVE  SyncInv'
<1>1. CASE SUpdate
  <2>1. UNCHANGED <<local, known, allowed, list>>
    BY <1>1 DEF SUpdate, clients, peer
  <2>2. CASE TxClosed(tx)
    <3>1. PICK c : c = tx /\ TxClosed(c)
      BY <2>2 DEF TxClosed
    <3>2. QED BY <2>1, <3>1, TxClosedSync
  <2>3. CASE UNCHANGED <<tx, s, toS, r, toR>>
    BY <2>1, <2>3, AllKept DEF Keeps
  <2>4. QED BY <1>1, <2>2, <2>3 DEF SUpdate
<1>2. CASE RUpdate
  <2>1. RClosed({rx}) /\ UNCHANGED <<tx, local, known>>
    BY <1>2 DEF RUpdate, clients
  <2>2. \A c \in Conn : r[c] = "up" => c \in {rx}
    BY DEF ListsInv, ListsAgree
  <2>3. QED BY <2>1, <2>2, RClosedSync
<1>3. CASE SRestarts
  <2>1. \A c \in Conn : s'[c] = "none" /\ toS'[c] = <<>>
    BY <1>3 DEF SRestarts
  <2>2. \A c \in Conn : SyncAt(c)'
    BY <2>1, GoneSync, QueuesToS, AnswersKept
  <2>3. Live' = {}
    BY <1>3 DEF SRestarts, Live
  <2>4. QED BY <2>2, <2>3 DEF SyncInv
<1>4. CASE RRestarts
  <2>1. /\ UNCHANGED <<local, known, allowed, tx, s>>
        /\ \A c \in Conn : /\ r'[c] = "none" /\ toR'[c] = <<>> /\ list'[c] = {}
                           /\ toS'[c] \in {toS[c], Closing(toS[c], s[c])}
    BY <1>4 DEF RRestarts, clients
  <2>2. \A c \in Conn : Answers(toS'[c]) => Answers(toS[c])
    <3>1. TAKE c \in Conn
    <3>2. PICK q \in Seq(ToS) : q = toS[c]
      BY DEF UnetmsgTypeOK
    <3>3. toS'[c] \in {q, Closing(q, s[c])}
      BY <2>1, <3>2
    <3>4. QED BY <3>2, <3>3, AnswersKept
  <2>3. QED BY <2>1, <2>2, AllKept DEF Keeps
<1>5. QED BY <1>1, <1>2, <1>3, <1>4, SyncLose DEF Failures

LEMMA SyncStep ==
  ASSUME UnetmsgTypeOK, ListsInv, SyncInv, [Next]_vars
  PROVE  SyncInv'
<1>1. CASE Users
  BY <1>1, SyncAdd, SyncGone, SyncForward DEF Users
<1>2. CASE Deliveries
  <2>1. ASSUME NEW c \in Conn, RCloses(c) PROVE SyncInv'
    BY <2>1, RClosedSync DEF RCloses, RxClosed, clients
  <2>2. QED BY <1>2, <2>1, SyncAtS, SyncAccept, SyncAuth, SyncSet DEF Deliveries
<1>3. CASE Timers
  <2>1. CASE StaysConnected
    BY <2>1, AllKept DEF StaysConnected, Keeps, clients, peer
  <2>2. ASSUME NEW c \in Conn, STimeout(c) PROVE SyncInv'
    BY <2>2, TxClosedSync DEF STimeout, clients, peer
  <2>3. ASSUME NEW c \in Conn, RTimeout(c) PROVE SyncInv'
    BY <2>3, RClosedSync DEF RTimeout, clients
  <2>4. QED BY <1>3, <2>1, <2>2, <2>3, SyncConnect DEF Timers
<1>4. CASE UNCHANGED vars
  BY <1>4, AllKept DEF vars, Keeps
<1>5. QED BY <1>1, <1>2, <1>3, <1>4, SyncFailures DEF Next

(* Between two ends that are up no change of a topic is missed or undone   *)
(* by an older one, for any number of clients, topics and connections and  *)
(* any order of handshakes, changes and failures (auth_data_cb, pubsub_add,*)
(* pubsub_del, network_socket_handle_request).                             *)
THEOREM ChannelInSync == Spec => []InSync
<1>1. Init => ListsInv /\ SyncInv
  <2>1. ASSUME Init, NEW c \in Conn PROVE SyncAt(c)
    <3>1. ~Answers(<<>>)
      BY QueuesToS, AnswersKept
    <3>2. \A t \in Topic : Said(<<>>, t) = {}
      BY DEF Said
    <3>3. QED BY <2>1, <3>1, <3>2 DEF Init, SyncAt
  <2>2. Init => Live = {}
    BY DEF Init, Live
  <2>3. QED BY <2>1, <2>2, UnetmsgAssumption DEF Init, ListsInv, ListsAgree, SyncInv
<1>2. SyncInv => InSync
  BY DEF SyncInv, SyncAt, InSync, Live, Believed
<1>3. QED BY <1>1, <1>2, UnetmsgTypes, ListsStep, SyncStep, PTL DEF Spec
=============================================================================
