# Verification of the AX3600 NSS fork

The repository is an OpenWrt tree (`src/openwrt_rel20260713`) and, beside it,
the sources a fork changes in the Qualcomm NSS stack of the Xiaomi AX3600
(`src/0_debugs`). The OpenWrt tree is build recipes, device trees and patches to
programs kept elsewhere, together with a few programs and drivers of its own. The
logic that this repository is about is the C code under `src/0_debugs`, which comes
first here; of the OpenWrt tree two parts with hard concurrency and failure
behaviour are modelled as well, its bad block layer and its message broker unetmsg.

## 1. The system

Packets of a connection reach the Linux stack through the data plane (**EDMA**).
The **ECM** (enhanced connection manager) watches connections; classifiers tell
it whether to accelerate one, and its front end then pushes a rule into the NSS
cores through the **NSS driver**, so that later packets bypass Linux. A
**mirror** client can ask the NSS for copies of traffic. The fork's purpose is
a selective bypass: packets with `skb->mark == 0x100` must stay on the slow path.

| component | source | state | operations | hard behaviour |
|---|---|---|---|---|
| DEFAULT classifier | `ecm_classifier_default.c` | per connection: response, `classified`, `decelerated`, refs | `process`, `reclassify`, alloc/ref/deref, terminate | packets racing on several CPUs; MARK's answer copied, then used; rule torn down once |
| MARK classifier | `ecm_classifier_mark.c` | per connection: response, `decelerated`, mark; global: `enabled`, `mode`, `deny_mark`, callbacks, instance list | `process`, `reclassify`, callbacks, debugfs | flag outside the lock; sealed answers; settings that change between reads |
| Classifier framework | `ecm_classifier.c` | the assignment list of a connection (in ecm_db) | assign, reclassify | allocation failure in the middle of a walk |
| NSS messages, physical interface | `nss_phys_if.c` | one semaphore, one completion, one response for all callers | synchronous messages with a time limit | an answer after the time limit |
| NSS messages, IPv4 and IPv6 | `nss_ipv4.c`, `nss_ipv6.c` | semaphore, completion, response, callback; connection counts, table allocations, DSCP map | synchronous messages; connection count change (three messages) | late answers; two counts that share one limit; failure between two messages |
| EDMA rings | `edma_tx_rx.c` | RXFILL, RXDESC, TXDESC, TXCMPL rings, buffer stores | refill, receive, transmit, reap, NAPI poll, interrupts | producer and consumer indices that wrap; lost wake-ups; buffers at the limit |
| Mirror control | `nss_mirror_ctl.c` | device references, one buffer for the text of all writers | ten commands written to a file | partial failure with a reference held; the shared buffer; late answers |
| Bad block table | `mtk_bmt.c`, `mtk_bmt_v2.c` | the mapping of blocks in RAM, its only copy on the chip | read, write, erase, markbad, isbad, debugfs, boot | every flash operation may fail; power loss in the middle of a remap |
| unetmsg | `unetmsgd*.uc` | topics of the own clients, two tables of channels, topics of each peer | clients come and go, connect, authenticate, announce, update | lost announcements, reconnections that overtake, timers racing with handshakes |
| SSDK shell tables | `shell_config.c` | none | command tables | none: constant data |
| rest of the OpenWrt tree | `src/openwrt_rel20260713` | - | build system, packages, patches, vendored drivers | see section 8 |

The components interact by calls (ECM calls the classifiers' `process` and
`reclassify`; DEFAULT calls MARK's `last_process_response_get` and the front
end's `decelerate`), by callbacks (NSS messages are answered in a tasklet) and
by shared memory (debugfs variables, descriptor rings).

What makes each correct, in a sentence:

- classifiers: a connection is denied only for a cause, a denial looks exactly once
  for somebody who removes the rule, decisions are final once the packets that raced
  for them are gone, and what MARK has denied and sealed stays on the slow path;
- framework: after a successful reclassification every type is assigned;
- messages: a caller gets the answer to its own request, or an error;
- connection counts: the IPv4 and IPv6 counts together stay within the total;
- rings: no slot is reused while the hardware owns it, every buffer is in one
  place, a packet that arrived is eventually received and one that was accepted
  for sending eventually leaves;
- mirror: every reference taken on a device is given back;
- bad blocks: no block of the chip serves two logical ones, the next boot finds the
  same mapping, and data survive bad blocks, retries and power losses;
- unetmsg: a peer believes what the clients of a daemon have announced, and comes
  to believe it again after every failure.

## 2. Modules

| module | models |
|---|---|
| `AccelDecision` | abstract specification: what DEFAULT promises about one connection |
| `EcmClassify` | `process()` of DEFAULT and MARK, reclassification of both, the debugfs settings, the front end as environment |
| `EcmLifecycle` | classifier instances: allocation, references, the MARK list, the walk of `ecm_classifier_reclassify()`, termination |
| `MCEcmClassify`, `MCEcmLifecycle`, `MCNssSysctl` | symmetry for TLC; `MCNssSysctl` also ends the search at the first late answer |
| `NssSyncMsg` | the synchronous message of `nss_ipv4.c`, `nss_ipv6.c` and `nss_phys_if.c` |
| `NssSysctl` | the writers of the acceleration mode and of the DSCP map, on top of `NssSyncMsg` |
| `NssConnCfg` | the change of the connection counts of both families, with their tables |
| `MirrorCtl` | the commands of the mirror client, on top of `NssSyncMsg` |
| `EdmaRing` | index arithmetic of the descriptor rings |
| `EdmaTx` | `edma_ring_xmit()`, `edma_clean_tx()` and the hardware between them |
| `EdmaRx` | `edma_alloc_rx_buffer()`, `edma_clean_rx()`, `edma_napi()`, `edma_handle_irq()` and the hardware |
| `MtkBmt` | the bad block layer, version 2, and the chip below it |
| `Unetmsg` | two daemons, the connection between them and their failures |
| `NssMessages_proofs` | the theorems about `NssSyncMsg`, `NssSysctl` and `MirrorCtl` |
| `EcmClassify_proofs`, `EcmLifecycle_proofs`, `NssConnCfg_proofs`, `EdmaTx_proofs`, `EdmaRx_proofs`, `MtkBmt_proofs`, `Unetmsg_proofs` | the theorems about the module of that name |

Composition: `NssSysctl` and `MirrorCtl` extend `NssSyncMsg` and drive its calls; `EdmaTx` and
`EdmaRx` share `EdmaRing`; `EcmClassify` instantiates `AccelDecision` as the
specification it refines. `NssConnCfg` does not use `NssSyncMsg`: the code sends
these messages without waiting and continues in callbacks. The state of
different components is not connected in the code except through hardware and
firmware, so there is no module that composes all of them.

Definitions named `X_Something` and marked "variant" are altered forms of `X`,
as a plausible mistake would make them. They belong to no specification; they
serve to see that a property can fail.

## 3. What each module says

### 3.1 EcmClassify

One connection. A step is what one CPU does inside one lock section, or one
unlocked access to shared data; that is the granularity at which packets race.

| variable | code |
|---|---|
| `enabled`, `mode` | `ecm_classifier_mark_enabled`, `_mode` |
| `inDb`, `assigned` | what `ecm_db` finds for the serial and for the type MARK |
| `inst[i]` | a MARK instance: `resp` is `process_response`, `sealed` is `decelerated` |
| `def` | the DEFAULT instance: `classified`, `decelerated`, `accel` (`accel_mode`) |
| `rule` | the front end has a rule in the NSS |
| `pkt[c]` | the local variables and the position of the packet CPU c processes |
| `teardowns`, `misses` | history: calls of `feci->decelerate`, and denials that found nothing to call |
| `marked`, `denyAll`, `lapse` | history: causes to deny seen, and whether anything has happened that permits acceleration |

What is abstracted: of a response only relevance and acceleration mode remain
(the bit `ACCEL_MODE` of `process_actions` is set exactly when the mode is not
`dont_care`); the recorded mark value is left out, nothing decides on it;
references are the subject of `EcmLifecycle` (section 3.6). A packet for which MARK
returns without filling the caller's response (disabled, connection gone, not
yet) leaves it with whatever the stack held: any response.

Two things of the code are not in the model because nothing depends on them:
`is_syn`, which selects between two branches that do the same (the comment at
`ecm_classifier_default.c:203`, that only the SYN decides, is not what happens),
and the debugfs file `deny_mark`, which nothing reads
(`ecm_classifier_mark.c:106` compares with the constant 0x100).

The front end is not in the repository. It calls DEFAULT before MARK, as the manual
has it (lines 84-88 and 211), and as `ecm_classifier_reclassify()` walks
(`ecm_classifier.c:250`). Its unassignment of a classifier that answers NO and its
combination of the answers are the actions `FrontUnassign` and `FrontResolve`, both
marked external.

A denial calls `feci->decelerate` if the connection has a front end and that one
has the function (`ecm_classifier_default.c:266-268`), which `Teardown` and
`NobodyToAsk` stand for; `decelerated` is set in either case, and the answer is NO.

Properties, all for any number of CPUs:

- `DenyHasCause`; `TeardownExact`: DEFAULT looks exactly once for somebody to remove
  the rule, before it answers NO. That the rule is then gone is not promised: there
  may be nobody to ask, and it would be false with a packet that accepted before.
- `DecisionIsFinal`, `SealedIsFinal`: once the packets that passed the test of
  `classified` or of MARK's `decelerated` before it was set are gone (`Decided`,
  `Sealed`), nothing reopens the decision. Before that they race: `v_decelerated`.
- `SlowPathHolds`: once the packets that overlapped with a sealed denial are gone
  (`Settled`), no packet, reclassification or debugfs write pushes a rule.
- `AccelHasCause`: as long as every packet is to be denied and MARK can see it, no
  rule is pushed. DEFAULT runs first and accepts, so that this rests on MARK's own
  answer holding each packet back, in every race.
- `ImplementsDecision`, the refinement of `AccelDecision`, whose constant `Racing` is
  instantiated with "there are two CPUs".

### 3.2 NssSyncMsg and NssSysctl

| variable | code |
|---|---|
| `sem`, `done`, `response`, `slot` | `sem`, the counter in `complete`, `response`, `cb` of `nss_ipv4_pvt` (and of the other two structures) |
| `call[c]` | where thread c is in `nss_ipv4_tx_sync()`, its message, its result |
| `inFlight`, `answer` | messages sent and not answered, what the NSS decided (external) |
| `soft` | the softirq in `nss_ipv4_tx_sync_callback()` |
| `issued`, `late` | messages so far; history: time-outs before the answer |

The content of a message is irrelevant to the protocol and left out;
`NssSysctl` adds it (`msg`), with the host's variables (`modeHost`, `mapHost`) and
what the firmware applies (`modeNss`, `mapNss`). Values stand for the modes and
the map's entries; parsing the file is left out. `WithCb` tells the IPv4 and IPv6
function, which keeps a callback, from that of the physical interface.

`wait_for_completion_timeout()` may time out at any moment, also when the answer
is already on its way. Nothing re-initialises the completion, so a late answer
leaves it done: `StraysBounded` says by how much callers can fall behind, and
`OwnAnswer` and `CallbackIsOwn` that without a late answer they do not.
The handlers of the two files pass no callback; `CallbackIsOwn` is about callers of
the exported function.

Several processes may write the files at once. `MapMirrorsNss` and `ModeMirrorsNss`
say that the host has what the NSS applies whenever the handlers are left, as long as
no answer was late and no two writers of the same file overlapped (`overlap`), whatever
writers of the other file do meanwhile. Both conditions are needed: the semaphore is
released before the result is stored (`nss_ipv4.c:691`, `nss_ipv4.c:620`), so two
writers of the map may store in the opposite order of their answers. `MapsAgree`,
which drops the condition, is false; TLC shows it with two messages when it replaces
the invariants of `sysctl.cfg`.

### 3.3 NssConnCfg

| variable | code |
|---|---|
| `cfg`, `ct` | `nss_ipv4_conn_cfg`, `nss_ipv4_ct_info` and those of IPv6 |
| `maxConn` | the argument of `nss_core_update_max_ipv4_conn()` |
| `heap` | the tables from `__get_free_pages()` not yet released |
| `call` | a thread between the checks and the message in `nss_ipv4_update_conn_count()` |
| `msg`, `verdict`, `sent`, `answered`, `handled` | the queues to and from the NSS core, in order |
| `uses` | the rule the NSS acknowledged last (external) |
| `overlap` | history: a change was checked while another was under way |

A table is named by the message whose answer made the host allocate it. The sizes
kept and cleared beside the pointers (`nss_ipv4.c:509-510`, `584-594`) are left out:
they give the order of what is allocated and released.
Callbacks are atomic: the softirq does not interrupt itself, and the state they
touch is touched elsewhere only by the checks, which read one count.

The assumption `Initial + Initial <= MaxTotal` is what makes the limit hold at
all, since nothing checks the initial counts; the constants are in a header that
is not in the repository.

Beyond the finding of `v_conn_total`, three things the model keeps as they are:

- IPv4 tests the first pointer again after the second allocation
  (`nss_ipv4.c:452`); a rule may then carry a table that is missing
  (`Allocated`).
- If a second change fails to allocate, the tables of the first, which the NSS
  still uses, are released or forgotten (`FirstAllocFails`, `LaterFails`);
  hence the condition `Once` of `TablesAccounted` and `NssTablesBacked`.
- `nss_ipv6.c:542` calls the count a power of two; the code tests for a
  multiple, which `Quantum` stands for.

### 3.4 EdmaTx

| variable | code |
|---|---|
| `xmit[c]`, `lock` | the local variables of `edma_ring_xmit()` on CPU c, `tx_lock` |
| `txdesc`, `txcmpl` | both rings with their index registers |
| `store` | `tx_skb_store` |
| `owner`, `heads` | who holds a packet; how many preheaders are in front of it |
| `sending` | descriptors the hardware has fetched (external) |
| `clean` | the local variables of `edma_clean_tx()` |

The hardware fetches in order and reports in any order, which only makes more
happen than the hardware does. A packet that was refused is the stack's, which
may hand it over again, as it does after `NETDEV_TX_BUSY`.

### 3.5 EdmaRx

| variable | code |
|---|---|
| `rxfill`, `rxdesc` | both rings with their index registers |
| `store`, `owner` | `rx_skb_store`; the driver's buffers and all others |
| `fetched` | descriptors the hardware has fetched (external) |
| `mask`, `irq` | the mask registers; where `edma_handle_irq()` is, and the statuses it has read |
| `napi`, `poll` | whether a poll is scheduled; the local variables of `edma_napi()` and its callees |
| `reports` | the TXCMPL ring is not empty: all that polls and interrupts have to do with sending |

`OneCpu` says that interrupts and polls run on one CPU, which a poll then cannot
use while the handler runs. The delivered system is like that: the start script
`smp_affinity` binds the EDMA interrupts to one CPU, and NAPI polls where it was
scheduled. Without it `NoLostWake` is false: the handler masks every interrupt
while a poll on another CPU unmasks them, finds no status set and returns
`IRQ_NONE` (`edma_tx_rx.c:846`), and the RXDESC interrupt stays masked; TLC shows
it with `OneCpu = FALSE`.

Left out, because the model's properties do not depend on it: the content of
packets, the port checks of `edma_clean_rx()` (all end in releasing the buffer or
passing it on), the queues started in `edma_napi()`. On the way we noted that the
filter for mark 0x100 at `edma_tx_rx.c:338` sees a buffer fresh from
`dev_alloc_skb()`, whose mark is zero, so that the branch is never taken (the
manual, line 522, counts on it), and that it would use the `pkt_length` of the
packet before.

### 3.6 EcmLifecycle

The same two classifiers seen from their memory: not what they decide, but when
an instance exists, who holds it, and whether the lists and counts agree.

| variable | code |
|---|---|
| `inst[i]` | an instance: its `refs` (0: the memory is free) and its type |
| `next`, `prev`, `head`, `count` | `ecm_classifier_mark_instances` and the links in the instances, `ecm_classifier_mark_count` |
| `blocks` | instances that have memory, from `kzalloc()` on, also before they are counted |
| `defaults`, `trackers` | `ecm_classifier_default_count`; the trackers that have memory |
| `exiting` | `terminate_pending` of both modules |
| `conn`, `assigned` | connections of `ecm_db` and their classifiers (external) |
| `thr[t]` | the local variables of `process()` and of `ecm_classifier_reclassify()`, and the front end around them |

A step is one lock section or one allocation: a DEFAULT instance is allocated
(`DefaultAlloc`), then its tracker (`TrackerAlloc`, which frees the instance on
failure), then both are counted, or freed if the module exits meanwhile
(`DefaultCounted`); a MARK instance likewise (`WalkMissing`, `Link`). `conn[c].refs` counts the references of the database
and of the threads; a connection whose last reference goes takes its classifiers
along. Types beyond DEFAULT and MARK stand for the other classifiers: they are
allocated and released, and nothing else of them matters here. A packet may end
with the unassignment of a classifier that is no longer relevant, which is what
makes a reclassification find types missing, also in the middle of another
thread's walk.

That the connection used at `ecm_classifier_default.c:266` after its own deref is
still alive rests on the reference of the caller; `RefsExact` counts all of them
in every interleaving, and the memory of instances and trackers with them: what is
allocated is what lives and what a thread is about to count. Reclassifications of one connection are assumed to come
one at a time: two at once would assign a type twice, and nothing in
`ecm_classifier.c` prevents it.

### 3.7 MirrorCtl

| variable | code |
|---|---|
| `text` | `nss_mirror_config_data`: the command, its arguments, whether `strsep()` has cut it |
| `writer[c]` | what writer c has parsed: its position, the mirror device and the port it holds, the arguments seen |
| `refs[d]` | references on device d that writers took with `dev_get_by_name()` |
| `present` | the devices that can be found (mirror devices come and go) |
| `lost[d]` | history: references on d lost by one of the two kinds of command below |

All commands have the same shape: a loop over `key=value`, checks, one call, and
`dev_put()`. `Keys`, `Needs` and `PutsOnError` say where they differ; `enable`,
`disable` and `reset_nexthop` do not differ at all (`"switch"`). Numbers and names
are `"good"` or `"bad"`; the mirror driver is external, and any call of it may fail.

The properties are those of the messages, now in the hands of real callers, and
`HoldsExact`: a device has one reference for each handler that holds it as its mirror
device or as its port, plus the `lost` ones. These are lost by two kinds of command
(section 6): those rejected after their mirror device was found, except
`ingress_pmc_enable`, and those that name two.

A command other than `create` that is a bare word leads its parser to copy from a null
pointer, because `strsep()` leaves none behind the last word (`nss_mirror_ctl.c:879`);
so may one whose rest another writer cut off. The model stops that writer there
(`"oops"`).

### 3.8 MtkBmt

| variable | code |
|---|---|
| `flash[p]` | a block of the chip: its pages, and the table in it or part of one (external) |
| `bad` | the bad marks in the spare area |
| `tbl`, `idx` | `bmtd.bbt` (`bb_tbl` and `bmt_tbl`), `bmtd.bmt_blk_idx` |
| `pc`, `op` | the operation in progress: the loop and its retries, the remap, the copy, the upload |
| `want` | history: what the MTD user may expect of each page |
| `moved`, `harm` | history: the table has moved; events that can cost data |

Each flash operation is a step of its own, since any of them may fail and the
power may go between two of them or in the middle of one. A page is blank, holds
what was programmed, or is unreadable; programming twice makes it unreadable.

The layer does not survive everything, and the properties say exactly what it
does survive: `harm` records by name each event that takes data or the mapping with
it, and the properties hold as long as none has happened.

| `harm` | event |
|---|---|
| `table` | the table is lost, torn or unreadable: its only copy is erased and programmed in place (`mtk_bmt_v2.c:209`), a torn one is accepted (165), a failing upload may leave no place (202) |
| `moved` | power loss after the table has moved to another entry of the pool: the entry is not marked `BMT_MAPPED` |
| `copy` | the copy of a remap stops at a page it cannot read, or the new block could not be erased; neither result is looked at (270, 272) |
| `repair` | power loss during debugfs `repair`, which maps first and copies afterwards |
| `alias` | debugfs `mark_good` or `repair` of a block whose own place serves another one (295) |
| `freed` | debugfs `debug` 100 while block 0 lives in the pool: the search starts at 1 (311) |

What is left is the work of the layer, and all of it is in the run: bad blocks at
the factory, remaps after failed writes, erases and reads, retries, uploads that
move on to another block, reboots from the table or by a scan.

### 3.9 Unetmsg

S is a daemon with clients, R its peer. The connection that S opens carries S's
topics to R; what R tells S goes over another connection and is the same protocol.

| variable | code |
|---|---|
| `local`, `known` | `core.publish`, `core.subscribe` of S: the handles of a topic; the keys of these tables, which stay |
| `tx`, `timer` | `net.tx_channels[R]`, `net.timer` of S |
| `s[c]`, `r[c]` | each end of a connection: connecting, authenticating, up |
| `toS`, `toR` | what is on the way, in order (libubus on TCP, external) |
| `list[c]` | `sock_data.publish` and `.subscribe` at R |
| `rx`, `remote` | `net.rx_channels[S]` of R; the entries of S in `core.remote_publish` and `core.remote_subscribe` |
| `allowed` | `net.peers[S].allowed` of R |

A step is one callback of an event loop. A connection breaks and loses what is on
the way (`Lose`); either daemon restarts, its kernel closing the connections or,
after a power loss, not (`SRestarts`, `RRestarts`); the network is reconfigured
(`SUpdate`, `RUpdate`); a handshake takes longer than its time limit.
`MaxTrouble` bounds all of these together. An old connection
and its successor exist side by side, since each end notices a loss in its own
time; that is where the order of callbacks matters.

`InSync` and `Converges` speak of topics once known rather than of topics that a
client has now, because the keys of a topic stay in the tables and are announced
again on every new channel (section 6).

## 4. Runs

| run | instance | question |
|---|---|---|
| `ecm_concurrent` | 2 CPUs, 2 MARK instances, mode 0 then 1, MARK switched off | does every interleaving deny and accelerate only for a cause, are decisions final, and do denials keep the connection slow? |
| `ecm_race` | 3 CPUs, 1 MARK instance, foreign callback, mode 0 then 2 | is the removal of the rule looked for once, whatever decision overwrites which? |
| `ecm_life` | 2 threads, 2 connections, 4 instances, 3 types, 4 jobs | are references exact and the list sound in every interleaving, and is a reclassification complete? |
| `v_decelerated` | 3 CPUs, 1 MARK instance | the manual: a decelerated connection stays slow (violated) |
| `sysctl` | 2 writers of both files, 3 messages, 2 values | do host and NSS agree when the handlers are left? |
| `mirror` | 2 writers, 2 writes of up to 2 arguments, 2 messages | is every device reference held, given back or lost where we know, does every caller get its own answer, and return? |
| `conn_cfg` | 1 caller, counts 4 and 6 of a total of 8, 4 messages | are counts and tables consistent after every failure? |
| `v_conn_total` | the same | a comment: both families together stay below 8k (violated) |
| `edma_tx` | 2 CPUs, 3 packets, TXDESC 2, TXCMPL 3 | are buffers live while the hardware reads, and do all packets leave? |
| `edma_rx` | 2 buffers, RXFILL 2, RXDESC 3, budget 2, one CPU | are buffers live while the hardware writes, is every packet taken, does the hardware stay supplied? |
| `bmt` | 6 blocks of 2 pages, one bad, 2 logical blocks, 3 operations, 2 faults, 1 power loss | is the mapping sound and persistent, and are data kept? |
| `unetmsg` | 2 clients, 2 topics, 2 connections, 3 arrivals or departures, 2 failures | does the peer believe what the clients announced, and converge? |

Why the bounds are enough:

- Two CPUs are enough for every race of two lock sections, and the invariants are
  proved for any number. Two MARK instances let one be unassigned and replaced by
  reclassification while a packet still holds it. DEFAULT decides twice with
  different results only when a third packet brings MARK's denial between the two,
  which `ecm_race` and `v_decelerated` therefore have. `ecm_concurrent` has only the
  default callback, so that there are states without a cause; foreign callbacks are
  in `ecm_race`. The operator's settings change once in each run (`Modes`, `Enables`), at
  any moment between two reads of a packet.
- Three messages (`sysctl`) let two writers change both files, or one of them twice
  while the other is busy; states after a late answer are not searched, since the
  properties speak only of the time before. In `mirror` two threads share two messages, so that one waits for
  the semaphore while the other's answer is late, and the second message meets it.
  `MaxReq` bounds the messages of `NssSyncMsg`, `MaxMsg` those of `NssConnCfg`.
- Two arguments (`MaxArgs`) are enough to name a device and then be rejected, to
  name two devices, and to complete each command; two writes (`MaxWrites`) are
  two writers at once or one after the other.
- In `ecm_life` four jobs (`MaxJobs`) make a connection and let packets and
  reclassifications meet its expiry; four instances are the three types and one that
  is being replaced, or a half of each connection's; the third type is one after MARK, so that the walk goes on
  behind a type that is missing. Memory for an instance (`blocks`) is bounded by the
  same four.
- In `bmt` six blocks are two logical ones, one bad, and a pool of three: one to
  remap to, a second for a repeated remap, one for the table. `MaxOp` operations,
  `MaxFault` failing flash operations and `MaxCrash` power losses bound the run; one
  operation takes up to a dozen steps. A logical block beyond these would be needed
  to meet `alias` with data in both, which the properties leave out anyway.
  `MaxRetry` is 10 in the code and 1 here: a retry that fails and gives up.
- In `unetmsg` two connections are the old and the new one; three (with `MaxOps` 2)
  were run too. Three arrivals or departures (`MaxOps`) let a topic come, go and
  come back while two failures (`MaxTrouble`) break and delay the handshake.
- Four messages are two changes of two messages each: of one family in turn, or
  of both overlapping. The counts make one change fit and two exceed the total.
- Rings of two and three entries wrap within a few packets, are full with one or
  two, and let two reports wait at once; a slot still in use is met in both
  directions. A budget of two is used up by two packets and not by one. Any
  size is covered by the proofs. The preheaders are counted up to 2 in `heads`.

The runs `sysctl`, `mirror`, `conn_cfg`, `v_conn_total`, `ecm_life`, `bmt` and `unetmsg`
do not check for deadlock: they end when the messages, jobs, operations and
failures that their bounds allow are used up. `bmt` also stops where the driver
does (no usable table, `"dead"`). All others do.

Fairness:

- `EcmClassify`, `EcmLifecycle`, `NssSysctl`, `NssConnCfg` and `MtkBmt`: none. Nothing
  there waits, and whether a packet or an answer ever comes is not the code's
  affair.
- `MirrorCtl` (and the messages in it): every thread runs and its timer fires (WF); the semaphore wakes
  its waiters in order, so that one who waits gets it (SF). Nothing is assumed of
  the NSS or of the softirq, since `CallReturns` must hold when they are dead.
- `Unetmsg`: the event loops run what is ready, what was sent arrives or its
  connection breaks, and a timer that is set fires (WF of each callback). Delays
  that exceed a time limit are failures and bounded. Half-open connections are
  excluded by name (`HalfOpen`): without a keepalive the code itself
  notices one only when it next sends something.
- `EdmaTx`: the hardware sends what is posted and reports it; reports interrupt
  until `edma_clean_tx()` has run (WF); `tx_lock` is a queued spin lock (SF).
- `EdmaRx`: the CPU runs handler and poll (WF), the hardware fetches (WF); an
  allocation tried again and again succeeds at last (SF), without which nothing
  could supply the hardware. Packets need not arrive.

An interrupt lasts as long as its cause (`IrqBegin`), as EDMA's status registers
show the state of the rings; there is no code that acknowledges them.

## 5. Proofs

Every invariant and action property that a run checks is also a theorem, for
all values of the constants. The assumptions are those on the constants that the
modules name:

| assumption | what it asks besides types |
|---|---|
| `EcmAssumption`, `SysctlAssumption`, `ConnAssumption`, `TxAssumption`, `RxAssumption`, `UnetmsgAssumption` | values that must differ do; counts and ring sizes that the drivers start with |
| `SyncAssumption`, `LifecycleAssumption` | callers, threads, connections and instances are finitely many, so that messages and references can be counted |
| `MirrorAssumption` | `NoDev` is not a device |
| `BmtAssumption`, `TableAssumption` | some data exist; block 0 is good, as the vendor says; no table, a torn one and a table differ |

Where a theorem needs more, it says so: interrupts and polls on one CPU (`OneCpu`).
Conditions that a property itself has (no late answer, writers that do not overlap, a
family changed once, packets that overlapped with a denial are gone) are conditions of
its theorem too, and of nothing else.

**`EcmClassify_proofs`**, for any CPUs, marks, MARK instances and settings:

- `TypeCorrect`: types, and no classifier is used through a null pointer;
- `RuleTornDownOnce`: `TeardownExact`;
- `DenialsHaveACause`: `DenyHasCause`, from the inductive `CauseInv`: as long as
  there is no cause, no datum on the way from a packet to the decision (the mark,
  the verdict, the published answer, DEFAULT's copy of it) says deny. The
  property alone is not inductive, since a stale copy could deny later;
- `DecisionFinal`, `SealedFinal`, from `TestedStep`: what a packet has tested still holds
  when the same packet acts, so that a packet can only undo what happened after its
  test; `SealedFinal` also needs that an instance in use is never allocated again
  (`BornInv`);
- `SlowPathKept`: `SlowPathHolds`, one case for each step a packet can take from a
  settled denial: it stays with the instance that denied and takes its answer;
- `AccelerationHasACause`: `AccelHasCause`, from `LapseInv`: as long as nothing permits
  acceleration, each instance has judged nothing or has denied, and each packet is on
  its way to an answer that DEFAULT's acceptance does not override;
- `DecisionImplemented`: `EcmClassify` refines `AccelDecision`; on one CPU, where a
  decision is taken only once, with `SequentialInv`.

**`EcmLifecycle_proofs`**, for any threads, connections, instances, types and jobs. One
invariant, `IInv`, carries the four properties, since each needs the others: a
reference is exact only if nobody forgets an instance, and nobody does because of
what the walk knows. A second one, `Memory`, rests on it and counts memory.

- `CountsAreExact`: `RefsExact`. Each step changes what one thread and one connection
  hold of an instance (`Own`, `Uses`), and the lemmas `OwnedKept`, `UsedKept` and
  `OwnStep` reduce the sums over all threads and connections to that change. For the
  memory, `Account` says the same of blocks and trackers: what is live and what a
  thread is in the middle of allocating; `SameAccount`, `RefAccount`,
  `DerefAccount` and `FreshAccount` say how a step changes either, and a step that
  fails in the middle ends what it was in the middle of (`Midway`).
- `ListOfTheLive`: `ListIsLive`. The list is witnessed by a sequence of instances that
  `next` and `prev` follow (`Lists`); linking extends it in front
  (`LinkedLists`), unlinking takes one out of its middle (`UnlinkedLists`).
- `OneOfEachType`: `OnePerType`, from `ConnOK` (one classifier of a type; a listed
  connection has DEFAULT), `NewOK` (who makes a connection is alone with it until it
  is listed) and `WalkOK`: the array is in strict order of types, its index is in
  step with the type that is due, and whatever was assigned in the meantime is
  of a type the walk has passed. The place of a classifier in the array is the
  number of those below it, which is how sorting is proved without induction.
- `FullMeansAll`: `FullIsComplete`, from `FullOK`: a walk that is full so far, and from which
  nothing was taken, has every type passed among the classifiers assigned.

**`NssMessages_proofs`**, for any callers, values, devices and messages:

- `SyncTypes`, which needs that exactly the callers inside the semaphore hold it;
- `AnswersMatch`: `OwnAnswer` and `CallbackIsOwn`, from `Timely`: as long as no answer was
  late, at most one message is between sending and waking, and completion, response
  and callback slot are its own;
- `StraysCounted`: `StraysBounded`, from `StrayInv`: besides, where the caller that waits finds no
  completion and nobody will answer it, all that is under way are late answers;
- `SysctlIsSync`, `MirrorIsSync`: the sysctl files and the mirror commands implement
  `NssSyncMsg` (their steps are its steps, or leave its variables alone), by which its
  theorems hold for them (`MirrorAnswers`: as long as no answer is late a command gets
  its own, and strays are bounded whatever is late);
- `SysctlTypes`; `MapMirrored` and `ModeMirrored`: `MapMirrorsNss` and `ModeMirrorsNss`,
  for any number of writers, from `HostInv`: at each position of the one writer that is
  in the handler of a file, what it has sent and whether the NSS applied it say by how much host and
  NSS differ, and no step of a writer of the other file touches that;
- `ReferencesExact`: `HoldsExact`, from `HoldInv`: a writer holds the devices it has
  parsed and no other, and every way out of a command gives them back, passes them on,
  or is counted in `lost`.

**`NssConnCfg_proofs`**, for any callers, counts and limits: `ConnTypes`; `TotalSafe`,
from `Calm`: without overlap there is one change at a time, and what was checked
is what will be stored; `CountAgreed`, from `Agreement`: the count differs from
the NSS's only by acknowledged rules not yet handled; `TablesSafe`, from
`TableInv`: a family changed once has one message of each kind, and its tables
are exactly those its size message named; `TablesKnown`: `TablesAccounted`, from the
same, with the fact that a table is named by the message that made it.

**`EdmaTx_proofs`** and **`EdmaRx_proofs`** begin with the same lemmas about rings of any
size: what a consumer takes (`Consume`), what a producer that keeps one entry free
adds (`Produce`), and that an index between two others stays there when any of them
advances (`WayFacts`).

Transmission, for any CPUs, packets and ring sizes: `TxTypesHold`,
`BuffersLive`, `OneOwner`, `NoInvalidReport`. None is inductive alone; together
with the lock (`LockInv`), the facts about a call that is under way and `Apart`
they are: every slot in use is posted, being sent, or reported, and never two of
these, so that a slot found empty is in no ring.

Reception, for any buffers, ring sizes and budget: `RxTypesHold`,
`ReceiveBuffersLive`, `ReceiveOneOwner`, `NoLeak`, by the same argument from
`RxInv`; the indices a refill has read stay valid while the hardware fetches
(`FillInv`), and so does the reader's position while packets arrive (`ReadInv`).
`NoWakeLost` needs `OneCpu` and `IrqInv`: what the handler has seen stays until it
ends, so that it always schedules a poll, which unmasks everything.

**`MtkBmt_proofs`**, for chips of any size, any factory bad blocks and any number of
operations, faults and power losses. Four invariants, each resting on those before:

- `BmtTypes`: `BmtTypeOK`;
- `TablesSound`: `TableSound`, from `SoundInv`: every table on the chip is sound, since
  the next boot may read any of them (`ChipOK`); the table in RAM is, also in the
  middle of a remap (`RamOK`); and an upload that walks down the pool has not
  reached a block in use (`UploadOK`);
- `TableOnChip`: `TablePersisted`, from `PersistInv`: the pool is full up to the entry
  of the table (`PoolFull`), and, as long as nothing in `harm` or `moved` happened,
  the chip has at most one table, which says where it is (`ChipTables`), and that is where
  the one in RAM says it is, with the same content while no change is under way
  (`RamTable`);
- `DataSafe`: `DataKept`, from `DataInv`: what the running operation has promised
  (`OpWants`), what the blocks hold under the table in RAM and, during a copy,
  under the mapping before and after it (`RamData`), and what they hold under the table
  that a boot would find (`ChipData`).

The searches of the driver (the first entry, the last, the k-th good block) are least
and greatest elements of sets of numbers; `HasLeast` and `HasGreatest` come from the
well-foundedness of `<` instead of an induction.

**`Unetmsg_proofs`**, for any clients, topics, connections and numbers of failures:

- `UnetmsgTypes`, and `RetryDueAlways`: a daemon without a working channel always
  has its timer set;
- `ListsAgreeAlways`, from `ListsInv`: besides, only the current channel has a list;
- `ChannelInSync`, from `SyncInv`, which says of each connection, from the moment S
  sends its topics and whatever its end at R does then, that R's list together
  with what is on the way amounts to S's topics. What is on the way is a sequence in
  which the last word on a topic counts; the lemmas `TailSays` and `ConcatSays`
  say how that last word changes when R reads a message and when S sends some,
  `KeepsSync` that a step which touches neither end changes nothing.

The type invariants `TypeCorrect`, `SyncTypes`, `SysctlTypes`, `ConnTypes`, `TxTypesHold`,
`RxTypesHold` and `UnetmsgTypes` speak of are proved only; no run checks them.

Only model-checked is what is out of the prover's reach: liveness under fairness
(`CallReturns`, `Leaves`, `PacketsTaken`, `BuffersComeBack`, `Converges`). No module has a
RECURSIVE operator, and nothing is proved by induction over data; where it suggests itself,
the least counterexample in a set of numbers does its work.

## 6. Divergences

Two disagreements between code and documents are shown by a run:

- A decelerated connection can be accelerated by a packet that asked MARK before
  the denial (`v_decelerated`): DEFAULT does not test `classified` again.
- Both connection counts can exceed their common limit (`v_conn_total`): it is
  checked when a change begins and stored when it ends.

The others are stated here, and the models do what the code does:

- Mode 1 of MARK does not deny (manual, line 557; `ecm_classifier_mark.c:277`): its
  answer has relevance NO, which DEFAULT does not take for a denial.
- DEFAULT consults MARK before MARK has judged the packet: it finds the answer a fresh
  instance was born with, accepts, and does not ask again
  (`ecm_classifier_default.c:205-221` and 290), so that MARK's denial never makes a
  connection `decelerated` unless packets race; the manual (lines 211-212) says that
  DEFAULT hears of it. `DenialHeard` in `EcmClassify` is false with one CPU. The
  connection stays slow all the same (`SlowPathHolds`), by MARK's own answer.
- A denial that finds no front end, or one without the function, marks the connection
  as `decelerated` although nothing was torn down (`ecm_classifier_default.c:266-273`),
  and nothing looks again.
- Two writers of the DSCP map may store their results in the opposite order of their
  answers, after which host and NSS disagree for good (`nss_ipv4.c:691`; the comment at
  687 has the host updated with what the firmware acknowledged). `MapsAgree` in
  `NssSysctl` is false.
- A message can return the answer of the one before (`nss_phys_if.c:236`; the comment
  at 219 says it waits for the response): the completion of a message that timed
  out is not taken back.
- A packet refused at an occupied slot keeps its preheader and gets another one
  when it is tried again (`edma_tx_rx.c:677`; the comment at 661 makes room for
  one). `OnePreheader` in `EdmaTx` is false.
- Mirror commands lose a device reference when they are rejected after
  `mirrordev=` (only `ingress_pmc_enable` gives it back, `nss_mirror_ctl.c:536`), and
  when they name two devices.
- `echo display` without arguments, which the help text allows (`nss_mirror_ctl.c:151`),
  copies from a null pointer, as does every other command but `create` that is a bare
  word (`nss_mirror_ctl.c:879`).
- `remap_block_v2()` says that it marks the bad block as bad (`mtk_bmt_v2.c:253`);
  nothing does, so that a scan after the loss of the table takes it for good.
- When an upload moves on to another block, the table is written before that entry
  is marked `BMT_MAPPED` (`mtk_bmt_v2.c:222`), and nothing marks it later: the next boot
  does not find its place in the table.
- A remap ignores whether the copy succeeded (`mtk_bmt_v2.c:272`), and the copy
  writes no spare bytes, because `ooblen` is set after the write
  (`mtk_bmt.c:63`); debug 100 skips block 0 (`mtk_bmt_v2.c:311`).
- unetmsg keeps the keys of topics that nobody has any more (`unetmsgd.uc:57`) and
  announces them on every new channel (`unetmsgd-remote.uc:316`).

Smaller ones (sections 3.1, 3.3, 3.5): only the SYN decides; `deny_mark` is
configurable; a count is a power of two; EDMA filters by mark.

## 7. Plan

Done: `EcmClassify` with `AccelDecision`, `EcmLifecycle`; `NssSyncMsg`, `NssSysctl`,
`MirrorCtl`; `NssConnCfg`; `EdmaRing`, `EdmaTx`, `EdmaRx`; `MtkBmt`; `Unetmsg`; the proofs
of section 5.

Every invariant and action property that a run checks is proved. Next:

1. `Unetmsg` with several networks: the entries of a host are dropped by its name.
2. `EdmaRx` with statuses of several rings of a kind, for boards that have them:
   `work_done` is then a sum that a single ring's budget does not bound.
3. Abstract specifications, after the example of `AccelDecision`, of the bad block layer
   (a map from logical pages to data that forgets only at the named events) and of
   unetmsg (a set of topics that the peer learns late but in order), which the
   modules implement: `DataInv` and `SyncInv` already hold what the mappings need.

## 8. Not modelled

The SSDK shell tables are constant data. `PROJECT.json` lists the other programs
of the OpenWrt tree (button hotplug, trelay, flash tool, upgrade scripts, hostapd
scripts) with their reasons. `ecm_db`, the ECM front ends, the NSS firmware, the
EDMA hardware, the NAND chip, libubus and the Linux network stack are outside the
repository and appear only as environment.

Within the components that are modelled: registration, statistics, logging and
state dumps; the fields of messages; the content of packets; VAPs as promiscuous
ports; remap ranges, spare bytes and the layouts `bbt` and `nmbm` of the bad block
layer; requests, messages and access lists of unetmsg and its client library.

Hazards met on the way that no property covers, each with the reason:

- ECM: the packet header may be moved by the length of a protocol that was never read
  (`ecm_classifier_mark.c:312`; the default callback does not look at it);
  two reclassifications of one connection at once (`ecm_classifier.c:239`) and
  callbacks registered while the module exits (`ecm_classifier_mark.c:686`), whose
  callers are outside the repository; `skb->protocol` compared without `ntohs()`
  (`ecm_classifier_default.c:192`, without effect).
- NSS: a rule sent without its connection match table (`nss_ipv4.c:452`), which the
  firmware then judges; a second change that overwrites the table pointers of the
  first (`nss_ipv4.c:441`, excluded by `Once`).
- EDMA: a queue stopped after transmitting is started only by a later poll
  (`edma_tx_rx.c:540`; the caller that stops it is outside the repository).
- Mirror: the null pointer a bare word leaves (`nss_mirror_ctl.c:879`, section 6); a device
  that goes between the question whether it is down and the message
  (`nss_mirror_ctl.c:562`).
- Bad blocks: no lock, so that two remaps at once may take the same entry
  (`mtk_bmt_v2.c:242`; who calls concurrently is not in the repository); remap ranges
  (`mtk_bmt_v2.c:279`); a pool without a good block (`mtk_bmt_v2.c:155`).
- unetmsg: the entries of a host are dropped whatever network its channel belonged
  to (`unetmsgd-remote.uc:51`); a peer that authenticates makes the daemon repeat its
  own handshake (`unetmsgd-remote.uc:212`): it happens in `SUpdate`, whose number is
  bounded, so that two daemons disturbing each other for ever is not excluded.

Most of the implementation lines of the tree are not logic that a model can
stand for: register headers (one of 22,800 lines), vendored switch and PHY drivers that
write constants to registers, generated lexers and parsers of the configuration
tools, ELF and firmware image formats, device trees. The programs that these models
are about have under 8,000 lines of the 360,000, so that the share of lines that the
map names stays small however completely they are modelled.
