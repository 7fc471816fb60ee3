---------------------------- MODULE EcmLifecycle ----------------------------
(***************************************************************************)
(* How long classifier instances live: allocation and the final deref in   *)
(* ecm_classifier_default.c and ecm_classifier_mark.c, the list of MARK    *)
(* instances, the assignment of missing classifiers and the walk of        *)
(* ecm_classifier_reclassify() in ecm_classifier.c, and the references     *)
(* process() takes on the connection and on the MARK instance.             *)
(*                                                                         *)
(* The connection database and the front end are outside the repository:   *)
(* they keep a reference for each classifier assigned and for each         *)
(* connection listed, a packet's thread holds the connection and all its   *)
(* classifiers, and a connection is reclassified by one thread at a time.  *)
(* Step of a thread: one lock section or one allocation.  What process()   *)
(* decides is the subject of EcmClassify.                                  *)
(***************************************************************************)
EXTENDS Naturals, Sequences, FiniteSets

CONSTANTS
  Thread, Conn, Inst,
  None,     \* no connection, no instance
  Types,    \* ECM_CLASSIFIER_TYPES; 0 is ECM_CLASSIFIER_TYPE_DEFAULT
  MARK,     \* ECM_CLASSIFIER_TYPE_MARK
  MaxJobs   \* bound: connections made, packets and reclassifications

ASSUME LifecycleAssumption ==
  /\ IsFiniteSet(Thread) /\ IsFiniteSet(Conn) /\ IsFiniteSet(Inst)
  /\ Types \in Nat /\ MARK \in 1..(Types - 1)
  /\ None \notin Conn \cup Inst
  /\ MaxJobs \in Nat

VARIABLES
  conn,      \* of each connection: references, and whether it is listed
  assigned,  \* the classifiers assigned to it
  inst,      \* of each instance: its type, and its references (0: no memory)
  next, prev, head, count,   \* the list of MARK instances
  blocks,    \* instances that have memory, also before they are counted
  defaults, trackers,  \* ecm_classifier_default_count; trackers allocated
  exiting,   \* terminate_pending of both modules
  thr,       \* what each thread does
  jobs

vars == <<conn, assigned, inst, next, prev, head, count, blocks, defaults, trackers,
          exiting, thr, jobs>>
links == <<next, prev, head, count>>
memory == <<blocks, defaults, trackers>>
classifiers == <<inst, links, memory>>

Live == {i \in Inst : inst[i].refs > 0}
(* Which free block the allocator hands out does not matter.              *)
Fresh == {i \in Inst \ Live : i = CHOOSE j \in Inst \ Live : TRUE}
OfType(S, ty) == {i \in S : inst[i].type = ty}

Idle == [pc |-> "idle", ci |-> None, held |-> {}, arr |-> <<>>, i |-> 1, type |-> 0,
         full |-> TRUE, made |-> None, mark |-> None, gone |-> FALSE]

Init ==
  /\ conn = [c \in Conn |-> [refs |-> 0, listed |-> FALSE]]
  /\ assigned = [c \in Conn |-> {}]
  /\ inst = [i \in Inst |-> [type |-> 0, refs |-> 0]]
  /\ next = [i \in Inst |-> None] /\ prev = next /\ head = None /\ count = 0
  /\ blocks = 0 /\ defaults = 0 /\ trackers = 0
  /\ exiting = FALSE
  /\ thr = [t \in Thread |-> Idle] /\ jobs = 0

Ci(t) == thr[t].ci
At(t, pc) == thr[t].pc = pc
Goto(t, pc) == thr' = [thr EXCEPT ![t].pc = pc]
Starts(t) == At(t, "idle") /\ jobs < MaxJobs /\ jobs' = jobs + 1

-----------------------------------------------------------------------------
(* References.                                                             *)

RefConn(c) == conn' = [conn EXCEPT ![c].refs = @ + 1]
Ref(S) == inst' = [i \in Inst |-> IF i \in S THEN [inst[i] EXCEPT !.refs = @ + 1] ELSE inst[i]]

(* The list operations of the MARK module.                                 *)
Linked(i) ==
  /\ next' = [next EXCEPT ![i] = head]
  /\ prev' = IF head = None THEN prev ELSE [prev EXCEPT ![head] = i]
  /\ head' = i
  /\ count' = count + 1

(* variant: the successor keeps its pointer back to the instance           *)
Unlinked_KeepsBack(i) ==
  /\ next' = [j \in Inst |-> IF j = i THEN None ELSE IF j = prev[i] THEN next[i] ELSE next[j]]
  /\ prev' = [prev EXCEPT ![i] = None]
  /\ head' = IF prev[i] = None THEN next[i] ELSE head
  /\ count' = count - 1

Unlinked(i) ==
  /\ next' = [j \in Inst |-> IF j = i THEN None ELSE IF j = prev[i] THEN next[i] ELSE next[j]]
  /\ prev' = [j \in Inst |-> IF j = i THEN None ELSE IF j = next[i] THEN prev[i] ELSE prev[j]]
  /\ head' = IF prev[i] = None THEN next[i] ELSE head
  /\ count' = count - 1

(* deref() of each instance of S, which the last one of its references     *)
(* frees: a MARK instance leaves the list, a DEFAULT instance its tracker. *)
Deref(S) ==
  LET final == {i \in S : inst[i].refs = 1}
      gone  == Cardinality(OfType(final, 0))
  IN  /\ inst' = [i \in Inst |-> IF i \in S THEN [inst[i] EXCEPT !.refs = @ - 1] ELSE inst[i]]
      /\ IF OfType(final, MARK) = {} THEN UNCHANGED links
         ELSE Unlinked(CHOOSE i \in OfType(final, MARK) : TRUE)
      /\ blocks' = blocks - Cardinality(final)
      /\ defaults' = defaults - gone /\ trackers' = trackers - gone

(* The last reference to a connection takes its classifiers along.         *)
DerefConn(c, listed) ==
  /\ conn' = [conn EXCEPT ![c] = [refs |-> conn[c].refs - 1, listed |-> listed]]
  /\ IF conn[c].refs = 1
     THEN Deref(assigned[c]) /\ assigned' = [assigned EXCEPT ![c] = {}]
     ELSE UNCHANGED <<assigned, classifiers>>

-----------------------------------------------------------------------------
(* A new connection gets a DEFAULT classifier, then one of each type.      *)

NewConn(t) ==
  /\ Starts(t)
  /\ \E c \in Conn :
       /\ conn[c].refs = 0
       /\ RefConn(c)
       /\ thr' = [thr EXCEPT ![t] = [Idle EXCEPT !.pc = "default", !.ci = c]]
  /\ UNCHANGED <<assigned, classifiers, exiting>>

(* ecm_classifier_default_instance_alloc(), on whose failure the caller    *)
(* drops the connection: memory for the instance...                        *)
Allocates == blocks < Cardinality(Inst) /\ blocks' = blocks + 1

DefaultAlloc(t) ==
  /\ At(t, "default")
  /\ \/ Goto(t, "drop") /\ UNCHANGED blocks
     \/ Goto(t, "tracker") /\ Allocates
  /\ UNCHANGED <<conn, assigned, inst, links, defaults, trackers, exiting, jobs>>

(* ...and for its tracker...                                               *)
(* variant: the instance is not freed when there is no tracker             *)
TrackerAlloc_KeepsBlock(t) ==
  /\ At(t, "tracker")
  /\ \/ Goto(t, "drop") /\ UNCHANGED <<blocks, trackers>>
     \/ Goto(t, "tracked") /\ trackers' = trackers + 1 /\ UNCHANGED blocks
  /\ UNCHANGED <<conn, assigned, inst, links, defaults, exiting, jobs>>

TrackerAlloc(t) ==
  /\ At(t, "tracker")
  /\ \/ Goto(t, "drop") /\ blocks' = blocks - 1 /\ UNCHANGED trackers
     \/ Goto(t, "tracked") /\ trackers' = trackers + 1 /\ UNCHANGED blocks
  /\ UNCHANGED <<conn, assigned, inst, links, defaults, exiting, jobs>>

(* ...before the instance is counted, or both are freed if the module      *)
(* exits meanwhile.                                                        *)
DefaultCounted(t) ==
  /\ At(t, "tracked")
  /\ IF exiting
     THEN /\ Goto(t, "drop")
          /\ blocks' = blocks - 1 /\ trackers' = trackers - 1
          /\ UNCHANGED <<inst, defaults>>
     ELSE \E i \in Fresh :
            /\ inst' = [inst EXCEPT ![i] = [type |-> 0, refs |-> 1]]
            /\ defaults' = defaults + 1
            /\ thr' = [thr EXCEPT ![t].made = i, ![t].pc = "made"]
            /\ UNCHANGED <<blocks, trackers>>
  /\ UNCHANGED <<conn, assigned, links, exiting, jobs>>

-----------------------------------------------------------------------------
(* ecm_classifier_reclassify() of a listed connection.                     *)

ByType(S) == CHOOSE q \in [1..Cardinality(S) -> S] :
               \A i, j \in DOMAIN q : i < j => q[i] # q[j] /\ inst[q[i]].type <= inst[q[j]].type

Hold(t, c, pc) ==
  /\ Starts(t)
  /\ conn[c].listed
  /\ RefConn(c) /\ Ref(assigned[c])
  /\ thr' = [thr EXCEPT ![t] = [Idle EXCEPT !.pc = pc, !.ci = c, !.held = assigned[c],
                                            !.arr = ByType(assigned[c])]]
  /\ UNCHANGED <<assigned, links, memory, exiting>>

Walking(t) == thr[t].pc \in {"walk", "built", "made", "assigned"}
Reclassify(t) ==
  \E c \in Conn : Hold(t, c, "walk") /\ ~\E u \in Thread : Walking(u) /\ Ci(u) = c

(* The walk goes over the array and the types side by side.  An instance   *)
(* of the type that is due is told to reclassify...                        *)
More(t) == thr[t].i <= Len(thr[t].arr)
Same(t) == More(t) /\ inst[thr[t].arr[thr[t].i]].type = thr[t].type

(* variant: both indices are advanced, also when a type is missing         *)
Advance_Both(t) == [thr EXCEPT ![t].i = @ + 1, ![t].type = @ + 1]
Advance(t) == [thr EXCEPT ![t].i = IF Same(t) THEN @ + 1 ELSE @, ![t].type = @ + 1]

WalkSame(t) ==
  /\ At(t, "walk") /\ Same(t)
  /\ thr' = Advance(t)
  /\ UNCHANGED <<conn, assigned, classifiers, exiting, jobs>>

(* ...and for a type that is missing one is allocated, which fails for     *)
(* DEFAULT and without memory...                                           *)
Fails_Silently(t) == Advance(t)
Fails(t) == [Advance(t) EXCEPT ![t].full = FALSE]
WalkMissing(t) ==
  /\ At(t, "walk") /\ ~Same(t) /\ thr[t].type < Types
  /\ \/ thr' = Fails(t) /\ UNCHANGED blocks
     \/ thr[t].type # 0 /\ Goto(t, "built") /\ Allocates
  /\ UNCHANGED <<conn, assigned, inst, links, defaults, trackers, exiting, jobs>>

(* ...linked (MARK), or freed if the module exits meanwhile...             *)
Link(t) ==
  /\ At(t, "built")
  /\ IF thr[t].type = MARK /\ exiting
     THEN /\ thr' = [Fails(t) EXCEPT ![t].pc = "walk"]
          /\ blocks' = blocks - 1
          /\ UNCHANGED <<inst, links>>
     ELSE /\ \E i \in Fresh :
               /\ inst' = [inst EXCEPT ![i] = [type |-> thr[t].type, refs |-> 1]]
               /\ IF thr[t].type = MARK THEN Linked(i) ELSE UNCHANGED links
               /\ thr' = [thr EXCEPT ![t].made = i, ![t].pc = "made"]
          /\ UNCHANGED blocks
  /\ UNCHANGED <<conn, assigned, defaults, trackers, exiting, jobs>>

(* ...assigned, with a reference of the database...                        *)
Assign(t) ==
  /\ At(t, "made")
  /\ assigned' = [assigned EXCEPT ![Ci(t)] = @ \cup {thr[t].made}]
  /\ Ref({thr[t].made})
  /\ Goto(t, "assigned")
  /\ UNCHANGED <<conn, links, memory, exiting, jobs>>

(* variant: naci->deref() is forgotten                                     *)
Given_Never(t) == UNCHANGED classifiers
Given(t) == Deref({thr[t].made})

(* ...and the own reference given back.                                    *)
Give(t) ==
  /\ At(t, "assigned")
  /\ Given(t)
  /\ thr' = [Advance(t) EXCEPT ![t].made = None, ![t].pc = "walk"]
  /\ UNCHANGED <<conn, assigned, exiting, jobs>>

(* The end; a connection that is new is listed now.                        *)
WalkEnds(t) ==
  /\ At(t, "walk") /\ ~More(t) /\ thr[t].type >= Types
  /\ IF thr[t].arr = <<>>
     THEN conn' = [conn EXCEPT ![Ci(t)] = [refs |-> @.refs + 1, listed |-> TRUE]]
     ELSE UNCHANGED conn
  /\ Goto(t, "release")
  /\ UNCHANGED <<assigned, classifiers, exiting, jobs>>

-----------------------------------------------------------------------------
(* A packet: process() of DEFAULT finds the connection by its serial, asks *)
(* the MARK classifier assigned, gives both back, and uses the connection  *)
(* once more when it decides (ecm_classifier_default.c, line 266).         *)

Packet(t) == \E c \in Conn : Hold(t, c, "process")

Find(t) ==
  /\ At(t, "process")
  /\ IF conn[Ci(t)].listed THEN RefConn(Ci(t)) /\ Goto(t, "look")
     ELSE Goto(t, "release") /\ UNCHANGED conn
  /\ UNCHANGED <<assigned, classifiers, exiting, jobs>>

Look(t) ==
  /\ At(t, "look")
  /\ LET S == OfType(assigned[Ci(t)], MARK) IN
     IF S = {} THEN Goto(t, "put") /\ UNCHANGED inst
     ELSE \E i \in S : Ref({i}) /\ thr' = [thr EXCEPT ![t].mark = i, ![t].pc = "asked"]
  /\ UNCHANGED <<conn, assigned, links, memory, exiting, jobs>>

Asked(t) ==
  /\ At(t, "asked")
  /\ Deref({thr[t].mark})
  /\ thr' = [thr EXCEPT ![t].mark = None, ![t].pc = "put"]
  /\ UNCHANGED <<conn, assigned, exiting, jobs>>

PutFound(t) ==
  /\ At(t, "put")
  /\ DerefConn(Ci(t), conn[Ci(t)].listed)
  /\ Goto(t, "decide")
  /\ UNCHANGED <<exiting, jobs>>

(* The front end unassigns a classifier that is no longer relevant.        *)
Decide(t) ==
  /\ At(t, "decide")
  /\ LET drop(S) == /\ assigned' = [assigned EXCEPT ![Ci(t)] = @ \ S]
                    /\ Deref(S)
     IN  \/ UNCHANGED <<assigned, classifiers>> /\ Goto(t, "release")
         \/ \E i \in assigned[Ci(t)] \cap thr[t].held :
              /\ inst[i].type # 0 /\ drop({i})
              /\ thr' = [u \in Thread |->
                   IF u = t THEN [thr[u] EXCEPT !.pc = "release"]
                   ELSE IF Ci(u) = Ci(t) THEN [thr[u] EXCEPT !.gone = TRUE] ELSE thr[u]]
  /\ UNCHANGED <<conn, exiting, jobs>>

-----------------------------------------------------------------------------
(* The front end gives back the classifiers and then the connection.       *)
Release(t) ==
  /\ At(t, "release")
  /\ \E i \in thr[t].held :
       Deref({i}) /\ thr' = [thr EXCEPT ![t].held = @ \ {i}]
  /\ UNCHANGED <<conn, assigned, exiting, jobs>>

ReleaseConn(t) ==
  /\ At(t, "drop") \/ (At(t, "release") /\ thr[t].held = {})
  /\ DerefConn(Ci(t), conn[Ci(t)].listed)
  /\ thr' = [thr EXCEPT ![t] = Idle]
  /\ UNCHANGED <<exiting, jobs>>

(* The database lets a connection expire.                                  *)
Expire(c) ==
  /\ conn[c].listed
  /\ DerefConn(c, FALSE)
  /\ UNCHANGED <<exiting, thr, jobs>>

(* ecm_classifier_mark_exit(), ecm_classifier_default_exit().              *)
Exit ==
  /\ ~exiting /\ exiting' = TRUE
  /\ UNCHANGED <<conn, assigned, classifiers, thr, jobs>>

Step(t) ==
  \/ NewConn(t) \/ DefaultAlloc(t) \/ TrackerAlloc(t) \/ DefaultCounted(t)
  \/ Reclassify(t) \/ WalkSame(t) \/ WalkMissing(t) \/ Link(t) \/ Assign(t) \/ Give(t) \/ WalkEnds(t)
  \/ Packet(t) \/ Find(t) \/ Look(t) \/ Asked(t) \/ PutFound(t) \/ Decide(t)
  \/ Release(t) \/ ReleaseConn(t)

Next == Exit \/ (\E t \in Thread : Step(t)) \/ (\E c \in Conn : Expire(c))

Spec == Init /\ [][Next]_vars

-----------------------------------------------------------------------------
(* The reference counts are exact: no path of allocation, assignment,      *)
(* reclassification, processing or expiry, in any interleaving, keeps a    *)
(* reference or gives one back twice.  So whatever a thread is about to    *)
(* use is alive, the connection that default.c uses at line 266 after its  *)
(* own deref included, and what nobody holds is freed.  Instances and      *)
(* trackers have memory while they are alive or a thread is about to count *)
(* them, so every failure in the middle of an allocation frees what was    *)
(* allocated before (default.c 497-518 and 561-566, mark.c 656-660).       *)
RefsExact ==
  /\ \A i \in Inst : inst[i].refs =
       Cardinality({c \in Conn : i \in assigned[c]})
         + Cardinality({t \in Thread : i \in thr[t].held})
         + Cardinality({t \in Thread : thr[t].made = i})
         + Cardinality({t \in Thread : thr[t].mark = i})
  /\ \A c \in Conn : conn[c].refs =
       (IF conn[c].listed THEN 1 ELSE 0)
         + Cardinality({t \in Thread : Ci(t) = c})
         + Cardinality({t \in Thread : Ci(t) = c /\ thr[t].pc \in {"look", "asked", "put"}})
  /\ defaults = Cardinality(OfType(Live, 0))
  /\ trackers = defaults + Cardinality({t \in Thread : At(t, "tracked")})
  /\ blocks = Cardinality(Live)
       + Cardinality({t \in Thread : thr[t].pc \in {"tracker", "tracked", "built"}})

(* The instance after n steps from the head of the list.                   *)
Walk[n \in 0..Cardinality(Inst)] ==
  IF n = 0 THEN head ELSE LET i == Walk[n - 1] IN IF i = None THEN None ELSE next[i]

(* Walking the list of MARK instances from its head meets each live MARK   *)
(* instance once and nothing else, the pointers back match, and the count  *)
(* is its length (mark.c, lines 178-191 and 662-669).                      *)
ListIsLive ==
  LET S == OfType(Live, MARK) IN
  /\ count = Cardinality(S)
  /\ {Walk[n] : n \in 0..Cardinality(Inst)} \ {None} = S
  /\ Walk[count] = None
  /\ \A i \in S : IF prev[i] = None THEN head = i ELSE next[prev[i]] = i

(* A connection never has two classifiers of one type, and the one of type *)
(* DEFAULT is never instantiated by a reclassification (the assertion at   *)
(* classifier.c, line 89): the walk stays in step with the array, however  *)
(* many types are missing or are unassigned meanwhile.                     *)
OnePerType ==
  \A c \in Conn : conn[c].refs > 0 =>
    /\ \A i, j \in assigned[c] : inst[i].type = inst[j].type => i = j
    /\ conn[c].listed => OfType(assigned[c], 0) # {}

(* A reclassification that reports success has left a classifier of every  *)
(* type, but for those unassigned since it began (classifier.c, line 236). *)
FullIsComplete ==
  \A t \in Thread :
    (At(t, "walk") /\ ~More(t) /\ thr[t].type >= Types /\ thr[t].full /\ ~thr[t].gone)
      => {inst[i].type : i \in assigned[Ci(t)]} = 0..(Types - 1)
=============================================================================
