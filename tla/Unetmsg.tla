------------------------------- MODULE Unetmsg -------------------------------
(***************************************************************************)
(* How one unetmsg daemon tells another one which topics its clients       *)
(* publish and subscribe to (unetmsgd.uc, unetmsgd-client.uc,              *)
(* unetmsgd-remote.uc).  S is the daemon with the clients, R its peer; the *)
(* connection that matters is the one S opens: S authenticates on it, then *)
(* repeats all topics and sends every later change, and R keeps a list per *)
(* connection and the tables core.remote_publish / core.remote_subscribe.  *)
(* R tells S about its own topics over another connection in the same way. *)
(*                                                                         *)
(* Both daemons are event loops: an action is one callback.  Connections   *)
(* break, daemons restart, hosts lose power, the network is reconfigured.  *)
(* One network is modelled, in which R is always a peer of S.              *)
(***************************************************************************)
EXTENDS Naturals, Sequences, FiniteSets

CONSTANTS
  Client,     \* the clients of S
  Topic,      \* pairs of a kind ("publish", "subscribe") and a name
  Published,  \* the topics of kind "publish"
  Conn,       \* names for connections, used again after both ends are closed
  NoConn,
  MaxOps,     \* bound: how often a client comes or goes
  MaxTrouble  \* bound: how many failures, restarts, updates, early timers

ASSUME UnetmsgAssumption ==
  /\ Published \subseteq Topic /\ IsFiniteSet(Topic)
  /\ NoConn \notin Conn
  /\ MaxOps \in Nat /\ MaxTrouble \in Nat

VARIABLES
  local,    \* S: core.publish and core.subscribe, the handles of each topic
  known,    \* S: the keys of these tables; a key stays when its last handle goes
  tx,       \* S: net.tx_channels[R]
  timer,    \* S: net.timer: off, short (100 ms) or long (10 s)
  s, toS,   \* of each connection: the end of S, and what is on the way to S
  r, toR,   \* the end of R, and what is on the way to R
  list,     \* R: sock_data.publish and sock_data.subscribe
  rx,       \* R: net.rx_channels[S]
  remote,   \* R: the topics under which core.remote_... has an entry for S
  allowed,  \* R: net.peers[S].allowed; S is no peer when it is empty
  ops, trouble

vars == <<local, known, tx, timer, s, toS, r, toR, list, rx, remote, allowed,
          ops, trouble>>
clients == <<local, known, ops>>
peer == <<list, rx, remote, allowed>>

Live == {t \in Topic : local[t] # {}}

Hello == [kind |-> "hello"]
Auth == [kind |-> "auth"]
Reply(ok) == [kind |-> "reply", ok |-> ok]
Message == [kind |-> "message"]
Fin == [kind |-> "fin"]
Set(t, on) == [kind |-> "set", topic |-> t, on |-> on]
ToR == {Auth, Message, Fin} \cup {Set(t, on) : t \in Topic, on \in BOOLEAN}
ToS == {Hello, Fin} \cup {Reply(ok) : ok \in BOOLEAN}

Init ==
  /\ local = [t \in Topic |-> {}] /\ known = {}
  /\ tx = NoConn /\ timer = "short"
  /\ s = [c \in Conn |-> "none"] /\ toS = [c \in Conn |-> <<>>]
  /\ r = [c \in Conn |-> "none"] /\ toR = [c \in Conn |-> <<>>]
  /\ list = [c \in Conn |-> {}]
  /\ rx = NoConn /\ remote = {}
  /\ allowed \in SUBSET Topic
  /\ ops = 0 /\ trouble = 0

TxUp == tx # NoConn /\ s[tx] = "up"
Trouble == trouble < MaxTrouble /\ trouble' = trouble + 1
Calm == trouble' = trouble

-----------------------------------------------------------------------------
(* Sockets.  What is sent to a closed end is answered with a reset; an end *)
(* that closes tells the other one, and drops what it has not read.        *)

Ended(q) == \E i \in DOMAIN q : q[i] = Fin
Closing(q, end) == IF end = "none" \/ Ended(q) THEN q ELSE Append(q, Fin)

SSends(c, q) ==
  /\ toR' = [toR EXCEPT ![c] = IF r[c] = "none" \/ Ended(@) THEN @ ELSE @ \o q]
  /\ toS' = [toS EXCEPT ![c] = IF r[c] = "none" THEN Closing(@, s[c]) ELSE @]

(* network_tx_socket_close of a connection, or of none.                    *)
TxClosed(c) ==
  /\ tx' = IF tx = c THEN NoConn ELSE tx
  /\ s' = [d \in Conn |-> IF d = c THEN "none" ELSE s[d]]
  /\ toS' = [d \in Conn |-> IF d = c THEN <<>> ELSE toS[d]]
  /\ toR' = [d \in Conn |-> IF d = c THEN Closing(toR[d], r[d]) ELSE toR[d]]
  /\ UNCHANGED r

(* network_socket_close at R for the connections C.                        *)
RClosed(C) ==
  /\ r' = [c \in Conn |-> IF c \in C THEN "none" ELSE r[c]]
  /\ toR' = [c \in Conn |-> IF c \in C THEN <<>> ELSE toR[c]]
  /\ toS' = [c \in Conn |-> IF c \in C THEN Closing(toS[c], s[c]) ELSE toS[c]]
  /\ list' = [c \in Conn |-> IF c \in C THEN {} ELSE list[c]]
  /\ UNCHANGED s

(* network_rx_socket_close: the entries of S go with its current channel.  *)
RxClosed_KeepsEntries(c) ==
  /\ RClosed({c})
  /\ rx' = (IF rx = c THEN NoConn ELSE rx) /\ UNCHANGED remote

RxClosed(c) ==
  /\ RClosed({c})
  /\ IF rx = c THEN rx' = NoConn /\ remote' = {} ELSE UNCHANGED <<rx, remote>>

-----------------------------------------------------------------------------
(* Clients of S.                                                           *)

(* core.pubsub_add from client_pubsub: R hears of the first subscription,  *)
(* and of every publication.                                               *)
Add(k, t) ==
  /\ ops < MaxOps /\ k \notin local[t]
  /\ local' = [local EXCEPT ![t] = @ \cup {k}]
  /\ known' = known \cup {t}
  /\ ops' = ops + 1
  /\ IF TxUp /\ (local[t] = {} \/ t \in Published)
     THEN SSends(tx, <<Set(t, TRUE)>>)
     ELSE UNCHANGED <<toR, toS>>
  /\ UNCHANGED <<tx, timer, s, r, peer, trouble>>

(* The orders in which a table with these keys can be walked.              *)
Orders(T) == {q \in [1..Cardinality(T) -> T] : \A t \in T : \E i \in DOMAIN q : q[i] = t}

(* client_disconnect: core.pubsub_del for each topic of the client.        *)
ClientGone(k) ==
  LET left == [t \in Topic |-> local[t] \ {k}]
      told == {t \in Topic : k \in local[t] /\ (left[t] = {} \/ t \in Published)}
  IN  /\ ops < MaxOps /\ \E t \in Topic : k \in local[t]
      /\ local' = left
      /\ ops' = ops + 1
      /\ IF TxUp
         THEN \E q \in Orders(told) :
                SSends(tx, [i \in DOMAIN q |-> Set(q[i], left[q[i]] # {})])
         ELSE UNCHANGED <<toR, toS>>
      /\ UNCHANGED <<known, tx, timer, s, r, peer, trouble>>

(* handle_message forwards to R over whatever connection get_channel finds,*)
(* also one whose handshake has not ended.                                 *)
Forward ==
  /\ tx # NoConn /\ Trouble
  /\ SSends(tx, <<Message>>)
  /\ UNCHANGED <<clients, tx, timer, s, r, peer>>

-----------------------------------------------------------------------------
(* The connection, at S.                                                   *)

Free == {c \in Conn : s[c] = "none" /\ r[c] = "none" /\ toS[c] = <<>> /\ toR[c] = <<>>}

(* Ten seconds are enough for a handshake that is still going on, but for  *)
(* the delays that count as trouble.                                       *)
Going(c) == r[c] = "backlog" \/ toR[c] # <<>> \/ toS[c] # <<>>
InTime(c) == IF c # NoConn /\ Going(c) THEN Trouble ELSE Calm

(* network_connect_peers skips a peer with an authenticated channel.       *)
Settled_AnyChannel == tx # NoConn
Settled == TxUp

(* net.timer fires: network_connect_peers, network_open_channel.           *)
StaysConnected ==
  /\ timer # "off" /\ Settled
  /\ timer' = "off"
  /\ UNCHANGED <<clients, tx, s, toS, r, toR, peer, trouble>>

Connect ==
  /\ timer # "off" /\ ~Settled
  /\ IF timer = "long" THEN InTime(tx) ELSE Calm
  /\ timer' = "long"
  /\ \E c \in Free :
       /\ tx' = c
       /\ s' = [d \in Conn |-> IF d = c THEN "wait" ELSE IF d = tx THEN "none" ELSE s[d]]
       /\ r' = [r EXCEPT ![c] = "backlog"]
       /\ toS' = [d \in Conn |-> IF d = tx THEN <<>> ELSE toS[d]]
       /\ toR' = [d \in Conn |-> IF d = tx THEN Closing(toR[d], r[d]) ELSE toR[d]]
  /\ UNCHANGED <<clients, peer>>

(* The hello of R arrives: S asks for the channel to be authenticated, or  *)
(* gets no token and closes it.                                            *)
SHello(c) ==
  /\ s[c] = "wait" /\ toS[c] # <<>> /\ Head(toS[c]) = Hello
  /\ \/ /\ s' = [s EXCEPT ![c] = "auth"]
        /\ toS' = [toS EXCEPT ![c] = IF r[c] = "none" THEN Closing(Tail(@), "auth")
                                                      ELSE Tail(@)]
        /\ toR' = [toR EXCEPT ![c] = IF r[c] = "none" \/ Ended(@) THEN @
                                     ELSE Append(@, Auth)]
        /\ Calm /\ UNCHANGED <<tx, r>>
     \/ TxClosed(c) /\ Trouble
  /\ UNCHANGED <<clients, timer, peer>>

(* auth_data_cb: the channel is up, and all the topics S knows are sent.   *)
Announced_Publications == known \cap Published
Announced == known

SReply(c) ==
  /\ s[c] = "auth" /\ toS[c] # <<>> /\ Head(toS[c]) = Reply(TRUE)
  /\ s' = [s EXCEPT ![c] = "up"]
  /\ \E q \in Orders(Announced) :
       toR' = [toR EXCEPT ![c] = IF r[c] = "none" \/ Ended(@) THEN @
                                 ELSE @ \o [i \in DOMAIN q |-> Set(q[i], TRUE)]]
  /\ toS' = [toS EXCEPT ![c] = IF r[c] = "none" /\ Announced # {} THEN Closing(Tail(@), "up")
                                                              ELSE Tail(@)]
  /\ UNCHANGED <<clients, tx, timer, r, peer, trouble>>

(* auth_cb: the request ended without a valid token.                       *)
SRefused(c) ==
  /\ s[c] = "auth" /\ toS[c] # <<>> /\ Head(toS[c]) = Reply(FALSE)
  /\ TxClosed(c)
  /\ UNCHANGED <<clients, timer, peer, trouble>>

(* disconnect_cb: a retry soon if the channel was up, late if it was not,  *)
(* none of its own if one is due already.                                  *)
RetryDue_Forgotten(c) == timer
RetryDue(c) == IF timer # "off" THEN timer ELSE IF s[c] = "up" THEN "short" ELSE "long"

SLost(c) ==
  /\ s[c] # "none" /\ toS[c] # <<>> /\ Head(toS[c]) = Fin
  /\ TxClosed(c)
  /\ timer' = RetryDue(c)
  /\ UNCHANGED <<clients, peer, trouble>>

(* The timer of the handshake.                                             *)
STimeout(c) ==
  /\ s[c] = "auth"
  /\ InTime(c)
  /\ TxClosed(c)
  /\ UNCHANGED <<clients, timer, peer>>

(* network_update at S with a change of what R may use, and one without;   *)
(* the timer is set alike when R has authenticated on its own channel      *)
(* while this one is not up (network_check_auth).                          *)
SUpdate ==
  /\ Trouble
  /\ timer' = "short"
  /\ TxClosed(tx) \/ UNCHANGED <<tx, s, toS, r, toR>>
  /\ UNCHANGED <<clients, peer>>

-----------------------------------------------------------------------------
(* The connection, at R.                                                   *)

(* network_accept.                                                         *)
RAccept(c) ==
  /\ r[c] = "backlog"
  /\ IF allowed = {}
     THEN RClosed({c}) /\ UNCHANGED <<rx, remote>>
     ELSE /\ r' = [r EXCEPT ![c] = "hello"]
          /\ toS' = [toS EXCEPT ![c] = IF s[c] = "none" THEN @ ELSE Append(@, Hello)]
          /\ UNCHANGED <<s, toR, list, rx, remote>>
  /\ UNCHANGED <<clients, tx, timer, allowed, trouble>>

(* network_check_auth and the reply: this channel takes the place of the   *)
(* one S had, whose topics are forgotten.  R may fail to make a token.     *)
RAuth(c) ==
  /\ r[c] = "hello" /\ toR[c] # <<>> /\ Head(toR[c]) = Auth /\ allowed # {}
  /\ LET old == IF rx = NoConn THEN {} ELSE {rx} IN
     \E ok \in BOOLEAN :
       /\ IF ok THEN Calm ELSE Trouble
       /\ r' = [d \in Conn |-> IF d = c THEN "up" ELSE IF d \in old THEN "none" ELSE r[d]]
       /\ toR' = [d \in Conn |-> IF d = c THEN (IF s[c] = "none" THEN Closing(Tail(toR[c]), "up")
                                                                 ELSE Tail(toR[c]))
                                 ELSE IF d \in old THEN <<>> ELSE toR[d]]
       /\ toS' = [d \in Conn |-> IF d = c
                                 THEN (IF s[c] = "none" THEN toS[c] ELSE Append(toS[c], Reply(ok)))
                                 ELSE IF d \in old THEN Closing(toS[d], s[d]) ELSE toS[d]]
       /\ list' = [d \in Conn |-> IF d \in old THEN {} ELSE list[d]]
  /\ rx' = c /\ remote' = {}
  /\ UNCHANGED <<clients, tx, timer, s, allowed>>

(* Anything else before that, a failed check and a lost connection close   *)
(* the channel.                                                            *)
RCloses(c) ==
  /\ r[c] \in {"hello", "up"} /\ toR[c] # <<>>
  /\ \/ Head(toR[c]) = Fin
     \/ r[c] = "hello" /\ (Head(toR[c]) # Auth \/ allowed = {})
  /\ RxClosed(c)
  /\ UNCHANGED <<clients, tx, timer, allowed, trouble>>

(* network_socket_handle_request: publish, subscribe and message.          *)
RSet(c) ==
  /\ r[c] = "up" /\ toR[c] # <<>> /\ Head(toR[c]) \in ToR \ {Fin}
  /\ LET m == Head(toR[c])
         adds == m.kind = "set" /\ m.on /\ m.topic \in allowed
         dels == m.kind = "set" /\ ~m.on /\ m.topic \in list[c]
     IN  /\ list' = [list EXCEPT ![c] = IF adds THEN @ \cup {m.topic}
                                        ELSE IF dels THEN @ \ {m.topic} ELSE @]
         /\ remote' = IF adds THEN remote \cup {m.topic}
                      ELSE IF dels THEN remote \ {m.topic} ELSE remote
  /\ toR' = [toR EXCEPT ![c] = Tail(@)]
  /\ UNCHANGED <<clients, tx, timer, s, toS, r, rx, allowed, trouble>>

(* The timer of the handshake.                                             *)
RTimeout(c) ==
  /\ r[c] = "hello"
  /\ InTime(c)
  /\ RClosed({c})
  /\ UNCHANGED <<clients, tx, timer, rx, remote, allowed>>

(* network_update at R with a change of what S may use.                    *)
RUpdate ==
  /\ Trouble
  /\ \E A \in SUBSET Topic : A # allowed /\ allowed' = A
  /\ RClosed({rx})
  /\ rx' = NoConn /\ remote' = {}
  /\ UNCHANGED <<clients, tx, timer>>

-----------------------------------------------------------------------------
(* Failures.                                                               *)

(* A connection breaks: what was on the way is lost.                       *)
Lose(c) ==
  /\ s[c] # "none" \/ r[c] # "none"
  /\ Trouble
  /\ toS' = [toS EXCEPT ![c] = IF s[c] = "none" THEN @ ELSE <<Fin>>]
  /\ toR' = [toR EXCEPT ![c] = IF r[c] = "none" THEN @ ELSE <<Fin>>]
  /\ UNCHANGED <<clients, tx, timer, s, r, peer>>

(* S starts anew; its kernel closes the connections, unless the host was   *)
(* without power.                                                          *)
SRestarts ==
  /\ Trouble
  /\ local' = [t \in Topic |-> {}] /\ known' = {}
  /\ tx' = NoConn /\ timer' = "short"
  /\ s' = [c \in Conn |-> "none"] /\ toS' = [c \in Conn |-> <<>>]
  /\ \/ toR' = [c \in Conn |-> IF s[c] = "none" THEN toR[c] ELSE Closing(toR[c], r[c])]
     \/ UNCHANGED toR
  /\ UNCHANGED <<r, peer, ops>>

RRestarts ==
  /\ Trouble
  /\ r' = [c \in Conn |-> "none"] /\ toR' = [c \in Conn |-> <<>>]
  /\ \/ toS' = [c \in Conn |-> IF r[c] = "none" THEN toS[c] ELSE Closing(toS[c], s[c])]
     \/ UNCHANGED toS
  /\ list' = [c \in Conn |-> {}] /\ rx' = NoConn /\ remote' = {}
  /\ UNCHANGED <<clients, tx, timer, s, allowed>>

-----------------------------------------------------------------------------
Users ==
  \/ \E k \in Client : ClientGone(k) \/ \E t \in Topic : Add(k, t)
  \/ Forward
Deliveries ==
  \E c \in Conn : \/ SHello(c) \/ SReply(c) \/ SRefused(c) \/ SLost(c)
                  \/ RAccept(c) \/ RAuth(c) \/ RCloses(c) \/ RSet(c)
Timers == StaysConnected \/ Connect \/ \E c \in Conn : STimeout(c) \/ RTimeout(c)
Failures ==
  \/ SUpdate \/ RUpdate \/ SRestarts \/ RRestarts
  \/ \E c \in Conn : Lose(c)

Next == Users \/ Deliveries \/ Timers \/ Failures

Spec == Init /\ [][Next]_vars

(* The event loops run what is ready, what was sent arrives or the         *)
(* connection breaks, and a timer that is set fires.                       *)
Fairness ==
  /\ WF_vars(StaysConnected) /\ WF_vars(Connect /\ Calm)
  /\ \A c \in Conn :
       /\ WF_vars(SHello(c) /\ Calm) /\ WF_vars(SReply(c) \/ SRefused(c))
       /\ WF_vars(SLost(c))
       /\ WF_vars(RAccept(c)) /\ WF_vars(RAuth(c) /\ Calm)
       /\ WF_vars(RCloses(c) \/ RSet(c)) /\ WF_vars(RTimeout(c) /\ Calm)

FairSpec == Spec /\ Fairness

-----------------------------------------------------------------------------
UnetmsgTypeOK ==
  /\ local \in [Topic -> SUBSET Client] /\ known \subseteq Topic
  /\ tx \in Conn \cup {NoConn} /\ timer \in {"off", "short", "long"}
  /\ s \in [Conn -> {"none", "wait", "auth", "up"}]
  /\ r \in [Conn -> {"none", "backlog", "hello", "up"}]
  /\ toS \in [Conn -> Seq(ToS)] /\ toR \in [Conn -> Seq(ToR)]
  /\ list \in [Conn -> SUBSET Topic]
  /\ rx \in Conn \cup {NoConn} /\ remote \subseteq Topic
  /\ allowed \subseteq Topic
  /\ ops \in 0..MaxOps /\ trouble \in 0..MaxTrouble

(* What R forwards to S on behalf of its own clients follows one list: the *)
(* tables have an entry for S exactly under the topics its current channel *)
(* has announced and the network permits, and no other authenticated       *)
(* channel of S is left that could change them (network_check_auth,        *)
(* network_rx_socket_close, network_update, handle_request).               *)
ListsAgree ==
  /\ remote = IF rx = NoConn THEN {} ELSE list[rx]
  /\ remote \subseteq allowed
  /\ \A c \in Conn : r[c] = "up" <=> c = rx

(* What R will believe once it has read all that is on the way: of a topic *)
(* the last message counts, and none leaves it as it is.                   *)
Said(q, t) == {i \in DOMAIN q : q[i].kind = "set" /\ q[i].topic = t}
EndsOn(q, t) == \E i \in Said(q, t) : \A j \in Said(q, t) : j >= i => q[j].on
Believed(c) ==
  {t \in Topic : IF Said(toR[c], t) = {} THEN t \in list[c]
                 ELSE t \in allowed /\ EndsOn(toR[c], t)}

(* Between two ends that are up no change of a topic is ever missed or     *)
(* undone by an older one: what R holds and will read covers each topic    *)
(* the clients of S have, and only topics they once had (auth_data_cb,     *)
(* pubsub_add, pubsub_del).                                                *)
InSync ==
  \A c \in Conn :
    s[c] = "up" /\ r[c] = "up" /\ ~Ended(toR[c]) =>
      Live \cap allowed \subseteq Believed(c) /\ Believed(c) \subseteq known

(* As long as S has no working channel to its peer, a retry is due, in     *)
(* whatever order the handshake, the timers and the failures come          *)
(* (network_connect_peers, disconnect_cb, network_tx_socket_close).        *)
RetryPending == TxUp \/ timer # "off"

(* After a power loss of R the end of S stays up until S sends something:  *)
(* there is no keepalive.                                                  *)
HalfOpen == TxUp /\ r[tx] = "none" /\ toS[tx] = <<>>

(* Once failures and clients rest, R comes to hold each permitted topic of *)
(* S, and none that S never had, unless the channel is half open: lost     *)
(* announcements are made good by the next connection (the timer of        *)
(* network_connect_peers, the repetition in auth_data_cb).                 *)
Converges ==
  <>[](HalfOpen \/ (Live \cap allowed \subseteq remote /\ remote \subseteq known))
=============================================================================
