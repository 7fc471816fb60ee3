------------------------------- MODULE MtkBmt -------------------------------
(***************************************************************************)
(* The bad block layer between an MTD user and a NAND chip, "BMT v2"       *)
(* (mtk_bmt_v2.c on top of mtk_bmt.c).  A table in RAM maps every logical  *)
(* block to a physical one and says which blocks of the pool are taken;    *)
(* its only copy on the chip is rewritten (erased, then programmed) after  *)
(* every change.  Flash operations may fail, and the power may go at any   *)
(* moment, also in the middle of an erase or of a program operation.       *)
(*                                                                         *)
(* Operations of the MTD user come one at a time: the layer has no lock of *)
(* its own.  Not modelled: a configured remap range (all blocks are in     *)
(* range, as they are without one), the limit bb_max on a run of bad       *)
(* blocks, spare bytes other than the bad mark and the signature.          *)
(***************************************************************************)
EXTENDS Integers, FiniteSets

CONSTANTS
  Total,       \* bmtd.total_blks
  PoolLba,     \* bmtd.pool_lba: logical blocks of the table bb_tbl
  Main,        \* logical blocks the MTD user sees (mtd->size)
  Pages,       \* pages of a block
  Data,        \* what a page may be programmed with
  FactoryBad,  \* blocks that carry a bad mark from the beginning
  MaxRetry,    \* remaps one operation may make before it gives up, 10
  MaxOp,       \* bound: how many operations begin
  MaxFault,    \* bound: how many flash operations fail
  MaxCrash,    \* bound: how often the power goes
  NoTable,     \* a block without the signature of a table
  Torn         \* a block with the signature and an incomplete table

ASSUME BmtAssumption ==
  /\ Total \in Nat /\ PoolLba \in 1..(Total - 1) /\ Main \in 1..PoolLba
  /\ Data # {}
  /\ Pages \in Nat \ {0} /\ MaxRetry \in Nat
  /\ MaxOp \in Nat /\ MaxFault \in Nat /\ MaxCrash \in Nat
  /\ FactoryBad \subseteq 1..(Total - 1)   \* block 0 is good, says the vendor

VARIABLES
  flash,    \* the chip: pages and table of each block
  bad,      \* the blocks with a bad mark
  tbl, idx, \* in RAM: the table, and which entry of the pool holds it
  pc, op,   \* the operation in progress
  ops, faults, crashes,
  want,     \* history: what the MTD user may rely on in each page
  moved,    \* history: the table has moved to another block of the pool
  harm      \* history: the events that may cost data, by name

vars == <<flash, bad, tbl, idx, pc, op, ops, faults, crashes, want, moved, harm>>
ram == <<tbl, idx>>
history == <<want, moved, harm>>

-----------------------------------------------------------------------------
Phys == 0..(Total - 1)
Logical == 0..(PoolLba - 1)
User == 0..(Main - 1)
Page == 1..Pages
Cell == Data \cup {"blank", "junk"}   \* junk: unreadable

Entry == [block : Phys, mapped : {"no", "normal", "bmt"}]
Table == [bb : [Logical -> Phys], pool : [Phys -> Entry]]
Content == [pages : [Page -> Cell], table : Table \cup {NoTable, Torn}]

ASSUME TableAssumption == NoTable \notin Table /\ Torn \notin Table /\ NoTable # Torn

Filled(c) == [pages |-> [p \in Page |-> c], table |-> NoTable]
Programmed(old, v) == IF old = "blank" THEN v ELSE "junk"

Kind == {"none", "boot", "read", "write", "erase", "isbad", "markbad",
         "mark_bad", "mark_good", "repair", "debug"}
Pc == {"off", "dead", "wild", "idle", "attempt", "prepare", "copy",
       "uerase", "uwrite", "mark"}
Op == [kind : Kind, blk : Logical, page : Page, val : Data, retry : Nat,
       src : Phys, dst : Phys,   \* the blocks of a copy
       len : 0..Pages, at : Page, \* its length, and the page it is at
       n : -1..(Total - 1),      \* the entry of the pool upload_bmt is at
       then : Pc]                \* what follows the upload

AnyData == CHOOSE v \in Data : TRUE
NoOp == [kind |-> "none", blk |-> 0, page |-> 1, val |-> AnyData, retry |-> 0,
         src |-> 0, dst |-> 0, len |-> 0, at |-> 1, n |-> -1, then |-> "idle"]

Least(S) == CHOOSE x \in S : \A y \in S : x <= y
Greatest(S) == CHOOSE x \in S : \A y \in S : x >= y
Nth(S, k) == CHOOSE x \in S : Cardinality({y \in S : y < x}) = k

NoEntry == [block |-> 0, mapped |-> "no"]
NoMap == [bb |-> [l \in Logical |-> 0], pool |-> [i \in Phys |-> NoEntry]]

Init ==
  /\ flash = [p \in Phys |-> Filled("blank")]
  /\ bad = FactoryBad
  /\ tbl = NoMap /\ idx = 0
  /\ pc = "off" /\ op = NoOp
  /\ ops = 0 /\ faults = 0 /\ crashes = 0
  /\ want = [b \in Logical |-> [p \in Page |-> "blank"]]
  /\ moved = FALSE /\ harm = {}

-----------------------------------------------------------------------------
NoFault == UNCHANGED faults
Fault == faults < MaxFault /\ faults' = faults + 1

Cur == tbl.bb[op.blk]
Done == pc' = "idle" /\ op' = NoOp
Harmed(cond, name) == harm' = IF cond THEN harm \cup {name} ELSE harm

-----------------------------------------------------------------------------
(* Boot: mtk_bmt_init_v2().                                                *)

(* The blocks find_valid_block() accepts.                                  *)
Valid == {p \in 1..(Total - 1) : p \notin bad /\ flash[p].pages[1] # "junk"}
BmtIndex(pool) ==
  LET S == {i \in Phys : /\ pool[i].mapped = "bmt"
                         /\ \A j \in 0..i : pool[j].block # 0}
  IN  IF S = {} THEN 0 ELSE Least(S)

Signed == {p \in PoolLba..(Total - 1) : flash[p].table # NoTable}

BootLoad ==
  /\ pc = "off" /\ Signed # {}
  /\ LET t == flash[Greatest(Signed)].table
     IN  /\ t # Torn /\ BmtIndex(t.pool) # 0
         /\ tbl' = t /\ idx' = BmtIndex(t.pool)
  /\ Done
  /\ UNCHANGED <<flash, bad, ops, faults, crashes, history>>

(* scan_bad_blocks(): logical blocks go to the good blocks in order, what  *)
(* is left is the pool, its last block holds the table.                    *)
ScannedMap == [l \in Logical |-> IF l = 0 THEN 0 ELSE Nth(Valid, l - 1)]
ScannedPool(pba) ==
  LET S == {p \in Valid : p >= pba}
  IN  [i \in Phys |-> IF i >= Cardinality(S) THEN NoEntry
                      ELSE [block |-> Nth(S, i),
                            mapped |-> IF i = Cardinality(S) - 1
                                       THEN "bmt" ELSE "no"]]
Pba == IF PoolLba = 1 THEN 1 ELSE Nth(Valid, PoolLba - 2) + 1
EnoughBlocks ==
  Cardinality(Valid) >= PoolLba /\ Pba < Total - 2

Scan ==
  IF EnoughBlocks
  THEN /\ tbl' = [bb |-> ScannedMap, pool |-> ScannedPool(Pba)]
       /\ idx' = Cardinality({p \in Valid : p >= Pba}) - 1
       /\ pc' = "uerase"
       /\ op' = [NoOp EXCEPT !.kind = "boot", !.n = idx']
  ELSE pc' = "dead" /\ UNCHANGED <<ram, op>>

(* There is no table, it does not say where it is, or reading it fails.    *)
NoUsableTable ==
  \/ Signed = {} /\ NoFault
  \/ /\ Signed # {} /\ flash[Greatest(Signed)].table # Torn
     /\ BmtIndex(flash[Greatest(Signed)].table.pool) = 0 /\ NoFault
  \/ Signed # {} /\ Fault

BootScan ==
  /\ pc = "off" /\ NoUsableTable
  /\ Scan
  /\ Harmed(Signed # {}, "table")
  /\ UNCHANGED <<flash, bad, ops, crashes, want, moved>>

(* get_bmt_index() runs beyond an incomplete table: it may find anything.  *)
BootTorn ==
  /\ pc = "off" /\ Signed # {} /\ flash[Greatest(Signed)].table = Torn
  /\ \/ Scan
     \/ pc' = "wild" /\ UNCHANGED <<ram, op>>
  /\ harm' = harm \cup {"table"}
  /\ UNCHANGED <<flash, bad, ops, faults, crashes, want, moved>>

-----------------------------------------------------------------------------
(* An operation begins.  A page is programmed only when it and the pages   *)
(* behind it are blank, as NAND demands.                                   *)

Begin(o) ==
  /\ pc = "idle" /\ ops < MaxOp
  /\ op' = o /\ pc' = "attempt" /\ ops' = ops + 1
  /\ UNCHANGED <<flash, bad, ram, faults, crashes, moved, harm>>

BeginWrite(b, p, v) ==
  /\ \A q \in p..Pages : want[b][q] = "blank"
  /\ want' = [want EXCEPT ![b][p] = "any"]
  /\ Begin([NoOp EXCEPT !.kind = "write", !.blk = b, !.page = p, !.val = v])

BeginErase(b) ==
  /\ want' = [want EXCEPT ![b] = [p \in Page |-> "any"]]
  /\ Begin([NoOp EXCEPT !.kind = "erase", !.blk = b])

BeginRead(b, p) ==
  /\ Begin([NoOp EXCEPT !.kind = "read", !.blk = b, !.page = p])
  /\ UNCHANGED want

BeginOther(k, b) ==
  /\ Begin([NoOp EXCEPT !.kind = k, !.blk = b])
  /\ UNCHANGED want

-----------------------------------------------------------------------------
(* remap_block_v2(): a free entry of the pool takes the place of the block *)
(* in RAM; then the new block is erased and the pages before `len` copied; *)
(* then the table is written.                                              *)

FreeEntries ==
  {i \in Phys : i < idx /\ tbl.pool[i].block # 0 /\ tbl.pool[i].mapped = "no"}

(* variant: the entry stays free                                           *)
Remap_LeavesFree(len, then) ==
  LET i == Least(FreeEntries)
  IN  /\ FreeEntries # {}
      /\ tbl' = [tbl EXCEPT !.bb[op.blk] = tbl.pool[i].block]
      /\ op' = [op EXCEPT !.src = Cur, !.dst = tbl.pool[i].block, !.len = len,
                          !.at = 1, !.retry = op.retry + 1, !.n = idx,
                          !.then = then]
      /\ pc' = "prepare"
      /\ UNCHANGED idx

Remap(len, then) ==
  LET i == Least(FreeEntries)
      new == tbl.pool[i].block
  IN  /\ FreeEntries # {}
      /\ tbl' = [bb |-> [tbl.bb EXCEPT ![op.blk] = new],
                 pool |-> [tbl.pool EXCEPT ![i].mapped = "normal"]]
      /\ op' = [op EXCEPT !.src = Cur, !.dst = new, !.len = len, !.at = 1,
                          !.retry = op.retry + 1, !.n = idx, !.then = then]
      /\ pc' = "prepare"
      /\ UNCHANGED idx

RemapOr(len, then, otherwise) ==
  \/ Remap(len, then)
  \/ /\ FreeEntries = {} /\ UNCHANGED <<tbl, idx>>
     /\ IF otherwise = "idle" THEN Done
        ELSE pc' = otherwise /\ op' = [op EXCEPT !.src = Cur]

(* remap, and try again unless that was the last retry                     *)
RemapAndRetry(len) ==
  RemapOr(len, IF op.retry < MaxRetry THEN "attempt" ELSE "idle", "idle")

Prepare ==
  /\ pc = "prepare"
  /\ \/ /\ flash' = [flash EXCEPT ![op.dst] = Filled("blank")]
        /\ NoFault /\ UNCHANGED harm
     \/ /\ flash' = [flash EXCEPT ![op.dst] = Filled("junk")]
        /\ Fault /\ harm' = harm \cup {"copy"}
  /\ pc' = IF op.len > 0 THEN "copy" ELSE "uerase"
  /\ UNCHANGED <<bad, ram, op, ops, crashes, want, moved>>

(* variant: the table is not written after a copy                          *)
CopyEnds_NoUpload ==
  IF op.then = "idle" \/ op.kind = "repair" THEN Done
  ELSE pc' = op.then /\ UNCHANGED op

(* debug "repair" copies after the table has been written, and stops there. *)
CopyEnds == IF op.kind = "repair" THEN Done ELSE pc' = "uerase" /\ UNCHANGED op

(* variant: the bound of the loop is off by one                            *)
CopyPage_Overruns ==
  /\ pc = "copy" /\ flash[op.src].pages[op.at] # "junk"
  /\ flash' = [flash EXCEPT ![op.dst].pages[op.at] =
                 Programmed(@, flash[op.src].pages[op.at])]
  /\ IF op.at <= op.len THEN op' = [op EXCEPT !.at = @ + 1] /\ UNCHANGED pc
     ELSE CopyEnds
  /\ UNCHANGED <<bad, ram, ops, faults, crashes, history>>

CopyPage ==
  /\ pc = "copy" /\ flash[op.src].pages[op.at] # "junk"
  /\ flash' = [flash EXCEPT ![op.dst].pages[op.at] =
                 Programmed(@, flash[op.src].pages[op.at])]
  /\ IF op.at < op.len THEN op' = [op EXCEPT !.at = @ + 1] /\ UNCHANGED pc
     ELSE CopyEnds
  /\ UNCHANGED <<bad, ram, ops, faults, crashes, history>>

(* bbt_nand_copy() returns an error, which nobody looks at.                *)
CopyStops ==
  /\ pc = "copy"
  /\ \/ /\ flash[op.src].pages[op.at] = "junk"
        /\ NoFault /\ UNCHANGED flash
     \/ /\ flash' = [flash EXCEPT ![op.dst].pages[op.at] = "junk"]
        /\ Fault
  /\ Harmed(\E p \in op.at..op.len :
              want[op.blk][p] \notin IF p = op.at THEN {"any"} ELSE {"any", "blank"},
            "copy")
  /\ CopyEnds
  /\ UNCHANGED <<bad, ram, ops, crashes, want, moved>>

(* upload_bmt(): from entry n downwards, the first block of the pool that  *)
(* can be erased and programmed.                                           *)

Place == tbl.pool[op.n].block
Uploading == op.n >= 0 /\ tbl.pool[op.n].mapped # "normal"

UploadErase ==
  /\ pc = "uerase" /\ Uploading
  /\ flash' = [flash EXCEPT ![Place] = Filled("blank")]
  /\ pc' = "uwrite"
  /\ UNCHANGED <<bad, ram, op, ops, faults, crashes, history>>

UploadWrite ==
  /\ pc = "uwrite"
  /\ flash' = [flash EXCEPT ![Place].table = tbl]
  /\ idx' = op.n
  /\ IF op.then = "idle" THEN Done ELSE pc' = op.then /\ UNCHANGED op
  /\ UNCHANGED <<bad, tbl, ops, faults, crashes, history>>

(* A failure drops the entry and goes on with the one before it.           *)
UploadFails ==
  /\ (pc = "uerase" /\ Uploading) \/ pc = "uwrite"
  /\ Fault
  /\ \E c \in {flash[Place], Filled("junk"),
               [Filled("junk") EXCEPT !.table = Torn]} :
       /\ pc = "uerase" => c.table # Torn
       /\ flash' = [flash EXCEPT ![Place] = c]
  /\ tbl' = [tbl EXCEPT !.pool[op.n].block = 0]
  /\ op' = [op EXCEPT !.n = @ - 1]
  /\ pc' = "uerase"
  /\ moved' = TRUE
  /\ UNCHANGED <<bad, idx, ops, crashes, want, harm>>

(* No place is left: bmt_blk_idx becomes 65535, and whatever is done next  *)
(* reads the pool far beyond its end.                                      *)
UploadGivesUp ==
  /\ pc = "uerase" /\ ~Uploading
  /\ pc' = IF op.kind = "boot" THEN "dead" ELSE "wild"
  /\ harm' = harm \cup {"table"}
  /\ UNCHANGED <<flash, bad, ram, op, ops, faults, crashes, want, moved>>

-----------------------------------------------------------------------------
(* mtk_bmt_read()                                                          *)

Attempt(k) == pc = "attempt" /\ op.kind = k

ReadOk ==
  /\ Attempt("read") /\ flash[Cur].pages[op.page] # "junk"
  /\ Done
  /\ UNCHANGED <<flash, bad, ram, ops, faults, crashes, history>>

(* Many bit flips: the block is remapped, what has been read is good.      *)
ReadFlips ==
  /\ Attempt("read") /\ flash[Cur].pages[op.page] # "junk"
  /\ Fault
  /\ RemapOr(Pages, "idle", "idle")
  /\ UNCHANGED <<flash, bad, ops, crashes, history>>

(* The page cannot be read, from now on or since long.                     *)
ReadFails ==
  /\ Attempt("read")
  /\ \/ flash[Cur].pages[op.page] = "junk" /\ NoFault
     \/ flash[Cur].pages[op.page] # "junk" /\ Fault
  /\ flash' = [flash EXCEPT ![Cur].pages[op.page] = "junk"]
  /\ want' = [want EXCEPT ![op.blk][op.page] = "any"]
  /\ RemapAndRetry(Pages)
  /\ UNCHANGED <<bad, ops, crashes, moved, harm>>

(* mtk_bmt_write()                                                         *)

WriteOk ==
  /\ Attempt("write")
  /\ flash' = [flash EXCEPT ![Cur].pages[op.page] = Programmed(@, op.val)]
  /\ want' = [want EXCEPT ![op.blk][op.page] = op.val]
  /\ Done
  /\ UNCHANGED <<bad, ram, ops, faults, crashes, moved, harm>>

(* variant: the pages before the failed one are not copied                 *)
WriteFails_CopiesNothing ==
  /\ Attempt("write")
  /\ flash' = [flash EXCEPT ![Cur].pages[op.page] = "junk"]
  /\ Fault
  /\ RemapAndRetry(0)
  /\ UNCHANGED <<bad, ops, crashes, history>>

WriteFails ==
  /\ Attempt("write")
  /\ flash' = [flash EXCEPT ![Cur].pages[op.page] = "junk"]
  /\ Fault
  /\ RemapAndRetry(op.page - 1)
  /\ UNCHANGED <<bad, ops, crashes, history>>

(* mtk_bmt_mtd_erase()                                                     *)

EraseOk ==
  /\ Attempt("erase")
  /\ flash' = [flash EXCEPT ![Cur] = Filled("blank")]
  /\ want' = [want EXCEPT ![op.blk] = [p \in Page |-> "blank"]]
  /\ Done
  /\ UNCHANGED <<bad, ram, ops, faults, crashes, moved, harm>>

EraseFails ==
  /\ Attempt("erase")
  /\ \E c \in {flash[Cur], Filled("junk")} : flash' = [flash EXCEPT ![Cur] = c]
  /\ Fault
  /\ RemapAndRetry(0)
  /\ UNCHANGED <<bad, ops, crashes, history>>

(* mtk_bmt_block_isbad(), mtk_bmt_block_markbad(), debug "mark_bad"        *)

IsBad ==
  /\ Attempt("isbad")
  /\ \/ Cur \notin bad /\ Done /\ UNCHANGED ram
     \/ Cur \in bad /\ RemapAndRetry(Pages)
  /\ UNCHANGED <<flash, bad, ops, faults, crashes, history>>

MarkBadRemaps ==
  /\ Attempt("markbad") \/ Attempt("mark_bad")
  /\ LET then == IF op.kind = "markbad" THEN "mark" ELSE "idle"
     IN  RemapOr(Pages, then, then)
  /\ UNCHANGED <<flash, bad, ops, faults, crashes, history>>

MarkBad ==
  /\ pc = "mark"
  /\ bad' = bad \cup {op.src}
  /\ Done
  /\ UNCHANGED <<flash, ram, ops, faults, crashes, history>>

(* unmap_block_v2(), for debug "mark_good" and "repair"                    *)

Unmap ==
  /\ Attempt("mark_good") \/ Attempt("repair")
  /\ tbl' = [tbl EXCEPT !.bb[op.blk] = op.blk]
  /\ op' = [op EXCEPT !.n = idx, !.src = Cur, !.dst = op.blk, !.len = Pages,
                      !.then = IF op.kind = "repair" /\ Cur # op.blk
                               THEN "prepare" ELSE "idle"]
  /\ pc' = "uerase"
  /\ want' = IF op.kind = "repair" \/ Cur = op.blk THEN want
             ELSE [want EXCEPT ![op.blk] = [p \in Page |-> "any"]]
  /\ Harmed(\E l \in Logical \ {op.blk} : tbl.bb[l] = op.blk, "alias")
  /\ UNCHANGED <<flash, bad, idx, ops, faults, crashes, moved>>

(* debug 100 frees the entries of the pool that no block from 1 on uses.   *)
Unused ==
  {i \in Phys : /\ i <= idx /\ tbl.pool[i].mapped = "normal"
                /\ \A b \in User \ {0} : tbl.bb[b] # tbl.pool[i].block}

FreeUnused ==
  /\ Attempt("debug")
  /\ IF Unused = {} THEN Done /\ UNCHANGED <<tbl, harm>>
     ELSE /\ tbl' = [tbl EXCEPT !.pool =
                       [i \in Phys |-> IF i \in Unused
                                       THEN [@[i] EXCEPT !.mapped = "no"]
                                       ELSE @[i]]]
          /\ op' = [op EXCEPT !.n = idx] /\ pc' = "uerase"
          /\ Harmed(\E i \in Unused, l \in Logical :
                      tbl.bb[l] = tbl.pool[i].block, "freed")
  /\ UNCHANGED <<flash, bad, idx, ops, faults, crashes, want, moved>>

-----------------------------------------------------------------------------
(* The power goes; the flash operation under way may be half done.         *)

HalfDone(p, cs) == \E c \in cs : flash' = [flash EXCEPT ![p] = c]
Interrupted ==
  \/ UNCHANGED flash
  \/ Attempt("write") /\ flash' = [flash EXCEPT ![Cur].pages[op.page] = "junk"]
  \/ Attempt("erase") /\ HalfDone(Cur, {Filled("junk")})
  \/ pc = "prepare" /\ HalfDone(op.dst, {Filled("junk")})
  \/ pc = "copy" /\ flash' = [flash EXCEPT ![op.dst].pages[op.at] = "junk"]
  \/ pc = "uerase" /\ Uploading /\ HalfDone(Place, {Filled("junk")})
  \/ pc = "uwrite" /\ HalfDone(Place, {[Filled("junk") EXCEPT !.table = Torn]})

Crash ==
  /\ pc # "off" /\ crashes < MaxCrash
  /\ crashes' = crashes + 1
  /\ Interrupted
  /\ pc' = "off" /\ op' = NoOp
  /\ tbl' = NoMap /\ idx' = 0
  /\ harm' = harm
       \cup (IF moved THEN {"moved"} ELSE {})
       \cup (IF pc = "uwrite" \/ (pc = "uerase" /\ flash' # flash)
             THEN {"table"} ELSE {})
       \cup (IF op.kind = "repair" THEN {"repair"} ELSE {})
  /\ UNCHANGED <<bad, ops, faults, want, moved>>

-----------------------------------------------------------------------------
Operation ==
  \/ \E b \in User, p \in Page :
       \/ BeginRead(b, p)
       \/ \E v \in Data : BeginWrite(b, p, v)
  \/ \E b \in User :
       \/ BeginErase(b)
       \/ \E k \in {"isbad", "markbad"} : BeginOther(k, b)
  \/ \E b \in Logical, k \in {"mark_bad", "mark_good", "repair"} : BeginOther(k, b)
  \/ BeginOther("debug", 0)

Next ==
  \/ BootLoad \/ BootScan \/ BootTorn
  \/ Operation
  \/ Prepare \/ CopyPage \/ CopyStops
  \/ UploadErase \/ UploadWrite \/ UploadFails \/ UploadGivesUp
  \/ ReadOk \/ ReadFlips \/ ReadFails \/ WriteOk \/ WriteFails
  \/ EraseOk \/ EraseFails
  \/ IsBad \/ MarkBadRemaps \/ MarkBad \/ Unmap \/ FreeUnused
  \/ Crash

Spec == Init /\ [][Next]_vars

-----------------------------------------------------------------------------
(* Properties.                                                             *)

(* Types of the chip, the table and the operation in progress.             *)
BmtTypeOK ==
  /\ flash \in [Phys -> Content]
  /\ bad \subseteq Phys
  /\ tbl \in Table /\ idx \in Phys
  /\ pc \in Pc /\ op \in Op
  /\ ops \in 0..MaxOp /\ faults \in 0..MaxFault /\ crashes \in 0..MaxCrash
  /\ want \in [Logical -> [Page -> Cell \cup {"any"}]]
  /\ moved \in BOOLEAN
  /\ harm \subseteq {"table", "moved", "copy", "repair", "alias", "freed"}

Running == pc \notin {"off", "dead", "wild"}

(* Unless a debugfs file is misused (mark_good on a block whose own place  *)
(* serves another one, "debug" while block 0 lives in the pool), no two    *)
(* logical blocks share a physical one, no block handed out is free, and   *)
(* none is the block of the table (mtk_bmt_v2.c lines 79-163, 234-297).    *)
TableSound ==
  Running /\ harm \cap {"alias", "freed"} = {} =>
    /\ \A l, m \in Logical : l # m => tbl.bb[l] # tbl.bb[m]
    /\ \A l \in Logical, i \in Phys :
         i <= idx /\ tbl.pool[i].block # 0 /\ tbl.bb[l] = tbl.pool[i].block
           => i < idx /\ tbl.pool[i].mapped = "normal"

(* When no upload has failed or was cut off, the table of RAM is the one   *)
(* table on the chip, where a boot looks for it, whenever no change of it  *)
(* is under way (lines 197-232, 446-467; a boot takes index 0 for none).   *)
TablePersisted ==
  pc \in {"idle", "attempt", "mark"} /\ harm = {} /\ ~moved =>
    /\ Signed # {} /\ flash[Greatest(Signed)].table = tbl
    /\ BmtIndex(tbl.pool) = idx

(* Between operations, and after any number of reboots, every page holds   *)
(* what was last written to it or is blank since it was erased, whatever   *)
(* erase, program and read errors occurred, unless one of the events that  *)
(* harm names has happened (mtk_bmt.c 106-295, mtk_bmt_v2.c 256-277).      *)
DataKept ==
  pc = "idle" /\ harm = {} =>
    \A b \in Logical, p \in Page :
      want[b][p] # "any" => flash[tbl.bb[b]].pages[p] = want[b][p]
=============================================================================
