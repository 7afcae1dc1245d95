----------------------------- MODULE Fat32Volume -----------------------------
(***************************************************************************)
(* The FAT32 driver of the kernel on one directory: the allocation table,  *)
(* the directory's slots, the clusters' contents, and the calls that work  *)
(* on whole files (fat32_write_file, fat32_delete_file, fat32_create_dir,  *)
(* fat32_rename).                                                          *)
(*                                                                         *)
(* A step makes at most one disk write, so that power may fail between any *)
(* two writes and memory or the disk may fail where the code tests it.     *)
(* Every call holds fat32_lock from its first step to its answer, so one   *)
(* call is in progress at a time; the variables after the disk's are the   *)
(* C locals of that call.                                                  *)
(***************************************************************************)
EXTENDS Integers, Sequences, FiniteSets, Chains

CONSTANTS MaxCluster,        \* fat_max_cluster() - 1
          Root,              \* the first cluster of the directory
          SlotsPerCluster,   \* directory entries in a cluster (16 per sector)
          UnitsPerCluster,   \* "bytes_per_cluster", in units of data
          Name,              \* 8.3 names
          Unit,              \* what one unit of a file can hold
          Payload,           \* the buffers callers write
          Calls,             \* the calls user programs issue
          Faults,            \* what may fail: kmalloc, a transfer of data
                             \* ("disk"), write_at's update of the entry
          PowerFails         \* TRUE when power may fail during a call

Cluster == 2 .. MaxCluster
FREE == 0                    \* a table entry of no file
EOC == MaxCluster + 1        \* FAT32_EOC, the end of a chain

ASSUME VolumeAssumption ==
  /\ MaxCluster \in Nat /\ Root \in Cluster
  /\ SlotsPerCluster \in Nat \ {0} /\ UnitsPerCluster \in Nat \ {0}
  /\ Payload \subseteq Seq(Unit)
  /\ Calls \subseteq {"write", "delete", "mkdir", "rename", "append", "write_at"}
  /\ Faults \subseteq {"kmalloc", "disk", "entry"}
  /\ PowerFails \in BOOLEAN

VARIABLES fat,       \* the allocation table
          data,      \* what each cluster holds
          dir,       \* the directory's slots, in chain order
          pc,        \* where the call is
          req,       \* the call and its arguments
          rest,      \* data still to be written (data_ptr, bytes_left)
          first_c,   \* first cluster allocated for the file
          prev_c,    \* last cluster linked to it
          cur,       \* the cluster just found free
          c,         \* the cursor of fat32_free_chain
          status     \* the code the call returns

disk == <<fat, data, dir>>
locals == <<req, rest, first_c, prev_c, cur, c>>
vars == <<disk, pc, locals, status>>

(***************************** directory slots *****************************)
END == "end"           \* filename[0] = 0x00: no slot after this one is used
DEL == "deleted"       \* filename[0] = 0xE5
ASSUME NameAssumption == END \notin Name /\ DEL \notin Name

EmptySlot == [name |-> END, folder |-> FALSE, first |-> 0, size |-> 0]
DeletedSlot == [EmptySlot EXCEPT !.name = DEL]
FileSlot(n, h, len) == [name |-> n, folder |-> FALSE, first |-> h, size |-> len]
FolderSlot(n, h) == [name |-> n, folder |-> TRUE, first |-> h, size |-> 0]

Slots == 1 .. Len(dir)
\* fat32_find_entry: the first slot with the name, before the end mark.
Lookup(n, k) == dir[k].name = n /\ \A j \in 1 .. k - 1 : dir[j].name \notin {END, n}
Exists(n) == \E k \in Slots : Lookup(n, k)
\* A slot a new entry may take.
Vacant(k) == dir[k].name \in {END, DEL}
\* Mutant of FirstVacant: any slot of the sector will do.
AnyVacant(k) == Vacant(k)
FirstVacant(k) == Vacant(k) /\ \A j \in 1 .. k - 1 : ~Vacant(j)

Used == {k \in Slots : dir[k].name \in Name}
\* Files and folders that own clusters.
Owners == {k \in Used : dir[k].first # 0}

(**************************** allocation table *****************************)
\* fat32_find_free_cluster: the lowest free index, never the root's.
FreeClusters == {x \in Cluster \ {Root} : fat[x] = FREE}
FirstFree(x) == x \in FreeClusters /\ \A y \in FreeClusters : x <= y

Zero == "zero"
\* One cluster's worth of the data still to be written, zero-padded.
Filled(s) == [i \in 0 .. UnitsPerCluster - 1 |-> IF i < Len(s) THEN s[i + 1] ELSE Zero]
After(s, n) == IF n >= Len(s) THEN << >> ELSE SubSeq(s, n + 1, Len(s))
Zeroed == Filled(<< >>)

NoRequest == [op |-> "none", name |-> END, arg |-> << >>]
Fresh == rest' = << >> /\ first_c' = 0 /\ prev_c' = 0 /\ cur' = 0 /\ c' = 0

Init == /\ fat = [x \in Cluster |-> IF x = Root THEN EOC ELSE FREE]
        /\ data = [x \in Cluster |-> Zeroed]
        /\ dir = [k \in 1 .. SlotsPerCluster |-> EmptySlot]
        /\ pc = "idle" /\ req = NoRequest /\ rest = << >>
        /\ first_c = 0 /\ prev_c = 0 /\ cur = 0 /\ c = 0
        /\ status = "SUCCESS"

Enter(op, n, s, at) ==
  /\ pc = "idle" /\ op \in Calls
  /\ pc' = at
  /\ req' = [op |-> op, name |-> n, arg |-> s]
  /\ rest' = s /\ first_c' = 0 /\ prev_c' = 0 /\ cur' = 0 /\ c' = 0
  /\ status' = "busy"
  /\ UNCHANGED disk

\* The call gives the lock back and returns.
Return(st) == pc' = "idle" /\ req' = NoRequest /\ Fresh /\ status' = st

\* Mutant of RollBack: the error return forgets fat32_free_chain.
RollBackNothing(st) == Return(st)
\* The chain allocated so far is given back before the call returns st.
RollBack(st) == /\ pc' = "rollback" /\ c' = first_c /\ status' = st
                /\ UNCHANGED <<req, rest, first_c, prev_c, cur>>

WriteFile(n, s) == Enter("write", n, s, "scan")
DeleteFile(n) == Enter("delete", n, << >>, "scan")
CreateDir(n) == Enter("mkdir", n, << >>, "mkdir")

(************************ lookup, delete, free chain ***********************)
\* Mutant of MarkDeleted: the chain is freed and the 0xE5 never reaches the disk.
MarkNothing == /\ pc = "scan"
               /\ \E k \in Slots : Lookup(req.name, k) /\ c' = dir[k].first
               /\ pc' = "free"
               /\ UNCHANGED <<disk, req, rest, first_c, prev_c, cur, status>>
\* The old entry is marked deleted on the disk, and only then its chain freed.
MarkDeleted == /\ pc = "scan"
               /\ \E k \in Slots : /\ Lookup(req.name, k)
                                   /\ dir' = [dir EXCEPT ![k] = DeletedSlot]
                                   /\ c' = dir[k].first
               /\ pc' = "free"
               /\ UNCHANGED <<fat, data, req, rest, first_c, prev_c, cur, status>>

NothingToDelete == /\ pc = "scan" /\ ~Exists(req.name)
                   /\ \/ /\ req.op = "write" /\ pc' = "alloc"
                         /\ UNCHANGED <<locals, status>>
                      \/ req.op = "delete" /\ Return("NOT_FOUND")
                   /\ UNCHANGED disk

\* fat32_free_chain: the link is read before its entry is cleared.
FreeNext == /\ pc \in {"free", "rollback"} /\ c \in Cluster
            /\ fat' = [fat EXCEPT ![c] = FREE]
            /\ c' = IF fat[c] = c THEN 0 ELSE fat[c]
            /\ UNCHANGED <<data, dir, pc, req, rest, first_c, prev_c, cur, status>>

ChainFreed == /\ pc \in {"free", "rollback"} /\ c \notin Cluster
              /\ \/ /\ pc = "free" /\ req.op = "write" /\ pc' = "alloc" /\ c' = 0
                    /\ UNCHANGED <<req, rest, first_c, prev_c, cur, status>>
                 \/ pc = "free" /\ req.op = "delete" /\ Return("SUCCESS")
                 \/ pc = "rollback" /\ Return(status)
              /\ UNCHANGED disk

(************************ fat32_write_file: the data ***********************)
\* kmalloc may return NULL, or the device refuse the data.
MayFail == Faults \cap {"kmalloc", "disk"} # {}

\* A free cluster is found and linked behind the last one; its own entry
\* still says free.
Allocate == /\ pc = "alloc" /\ rest # << >>
            /\ \E x \in Cluster :
                 /\ FirstFree(x)
                 /\ cur' = x
                 /\ first_c' = IF first_c = 0 THEN x ELSE first_c
                 /\ fat' = IF prev_c = 0 THEN fat ELSE [fat EXCEPT ![prev_c] = x]
            /\ pc' = "fill"
            /\ UNCHANGED <<data, dir, req, rest, prev_c, c, status>>

\* Mutant of DiskFull: the call waits for a cluster while it holds the lock.
WaitForSpace == /\ pc = "alloc" /\ rest # << >> /\ FreeClusters = {}
                /\ UNCHANGED vars

DiskFull == /\ pc = "alloc" /\ rest # << >> /\ FreeClusters = {}
            /\ RollBack("DISK_FULL")
            /\ UNCHANGED disk

\* Mutant of Fill: data_ptr is not advanced, each cluster gets the first bytes.
FillFromStart == /\ pc = "fill"
                 /\ data' = [data EXCEPT ![cur] = Filled(req.arg)]
                 /\ pc' = "seal"
                 /\ UNCHANGED <<fat, dir, locals, status>>

\* Mutant of Fill: the last cluster gets "to_copy" units, the rest of the
\* buffer is not there.
FillShort == /\ pc = "fill"
             /\ data' = [data EXCEPT ![cur] = [i \in {j \in DOMAIN Zeroed : j < Len(rest)}
                                                |-> rest[i + 1]]]
             /\ pc' = "seal"
             /\ UNCHANGED <<fat, dir, locals, status>>

Fill == /\ pc = "fill"
        /\ data' = [data EXCEPT ![cur] = Filled(rest)]
        /\ pc' = "seal"
        /\ UNCHANGED <<fat, dir, locals, status>>

FillFails == /\ pc = "fill" /\ MayFail
             /\ RollBack("ERROR_WRITE")
             /\ UNCHANGED disk

\* Mutant of Seal: the cluster's entry is left free.
SealNothing == /\ pc = "seal"
               /\ prev_c' = cur
               /\ rest' = After(rest, UnitsPerCluster)
               /\ pc' = "alloc"
               /\ UNCHANGED <<disk, req, first_c, cur, c, status>>

\* The cluster's entry becomes the end of the chain.
Seal == /\ pc = "seal"
        /\ fat' = [fat EXCEPT ![cur] = EOC]
        /\ prev_c' = cur
        /\ rest' = After(rest, UnitsPerCluster)
        /\ pc' = "alloc"
        /\ UNCHANGED <<data, dir, req, first_c, cur, c, status>>

\* Mutant of DataWritten: the entry is published before the last data is out.
PublishEarly == /\ pc = "alloc" /\ (first_c # 0 \/ rest = << >>)
                /\ pc' = "slot"
                /\ UNCHANGED <<disk, locals, status>>

DataWritten == /\ pc = "alloc" /\ rest = << >>
               /\ pc' = "slot"
               /\ UNCHANGED <<disk, locals, status>>

(******************** a slot for the new entry, or a new cluster ***********)
NewEntry == IF req.op = "mkdir" THEN FolderSlot(req.name, first_c)
                                ELSE FileSlot(req.name, first_c, Len(req.arg))

TakeSlot == /\ pc = "slot"
            /\ \E k \in Slots : FirstVacant(k) /\ dir' = [dir EXCEPT ![k] = NewEntry]
            /\ Return("SUCCESS")
            /\ UNCHANGED <<fat, data>>

\* No slot left: fat32_write_file extends the directory, fat32_create_dir
\* gives up and leaves the cluster it took.
FindRoom == /\ pc = "slot" /\ \A k \in Slots : ~Vacant(k)
            /\ \/ /\ req.op = "write"
                  /\ \E x \in Cluster : /\ FirstFree(x)
                                        /\ cur' = x
                                        /\ data' = [data EXCEPT ![x] = Zeroed]
                  /\ pc' = "extend"
                  /\ UNCHANGED <<fat, dir, req, rest, first_c, prev_c, c, status>>
               \/ req.op = "mkdir" /\ Return("DISK_FULL") /\ UNCHANGED disk

NoRoom == /\ pc = "slot" /\ req.op = "write" /\ \A k \in Slots : ~Vacant(k)
          /\ FreeClusters = {} \/ MayFail
          /\ RollBack("DISK_FULL")
          /\ UNCHANGED disk

SealExtension == /\ pc = "extend"
                 /\ fat' = [fat EXCEPT ![cur] = EOC]
                 /\ pc' = "link"
                 /\ UNCHANGED <<data, dir, locals, status>>

\* Only a sealed and zeroed cluster is linked behind the directory.
LinkExtension == /\ pc = "link"
                 /\ \E last \in Chain(Cluster, fat, Root) :
                      fat[last] = EOC /\ fat' = [fat EXCEPT ![last] = cur]
                 /\ dir' = [k \in 1 .. Len(dir) + SlotsPerCluster |->
                              IF k <= Len(dir) THEN dir[k] ELSE EmptySlot]
                 /\ pc' = "entry"
                 /\ UNCHANGED <<data, locals, status>>

FirstEntry == /\ pc = "entry"
              /\ dir' = [dir EXCEPT ![Len(dir) - SlotsPerCluster + 1] = NewEntry]
              /\ Return("SUCCESS")
              /\ UNCHANGED <<fat, data>>

(************************ fat32_create_dir, fat32_rename *******************)
MkdirRefused == /\ pc = "mkdir"
                /\ \/ Exists(req.name) /\ Return("NOT_FOUND")
                   \/ ~Exists(req.name) /\ FreeClusters = {} /\ Return("DISK_FULL")
                /\ UNCHANGED disk

MkdirTakes == /\ pc = "mkdir" /\ ~Exists(req.name)
              /\ \E x \in Cluster : /\ FirstFree(x)
                                    /\ first_c' = x
                                    /\ fat' = [fat EXCEPT ![x] = EOC]
              /\ pc' = "dots"
              /\ UNCHANGED <<data, dir, req, rest, prev_c, cur, c, status>>

\* The "." and ".." entries; the result of the write is not looked at, and a
\* failed kmalloc returns with the cluster taken.
MkdirDots == /\ pc = "dots"
             /\ \/ /\ \/ data' = [data EXCEPT ![first_c] = Zeroed]
                      \/ "disk" \in Faults /\ UNCHANGED data
                   /\ pc' = "slot"
                   /\ UNCHANGED <<fat, dir, locals, status>>
                \/ "kmalloc" \in Faults /\ Return("DISK_FULL") /\ UNCHANGED disk

\* Mutant of Rename: the new name is not looked up first.
RenameBlindly(old, new) ==
  /\ pc = "idle" /\ "rename" \in Calls
  /\ \E k \in Slots : Lookup(old, k) /\ dir' = [dir EXCEPT ![k].name = new]
  /\ status' = "SUCCESS"
  /\ UNCHANGED <<fat, data, pc, locals>>

\* One sector write: the slot gets its new name if no slot has it already.
Rename(old, new) ==
  /\ pc = "idle" /\ "rename" \in Calls
  /\ \/ \E k \in Slots : /\ Lookup(old, k) /\ ~Exists(new)
                         /\ dir' = [dir EXCEPT ![k].name = new]
                         /\ status' = "SUCCESS"
     \/ /\ ~Exists(old) \/ Exists(new) \/ "disk" \in Faults
        /\ dir' = dir /\ status' = "RENAME_REFUSED"
  /\ UNCHANGED <<fat, data, pc, locals>>

(******************************** power loss *******************************)
\* What fat32_sanitize_fat does to the table when the volume is mounted.
Sanitized(f) == IF f[Root] = FREE THEN [f EXCEPT ![Root] = EOC] ELSE f

\* Power fails during a call: the locals are lost, the disk keeps what was
\* written, and the next boot mounts it.
PowerLoss == /\ PowerFails /\ pc # "idle"
             /\ Return("rebooted")
             /\ fat' = Sanitized(fat)
             /\ UNCHANGED <<data, dir>>

(******************************* the system ********************************)
Issue == \/ \E n \in Name : \/ \E s \in Payload : WriteFile(n, s)
                            \/ DeleteFile(n)
                            \/ CreateDir(n)
         \/ \E old, new \in Name : Rename(old, new)

\* What the processor does next in a call in progress.
Step == \/ MarkDeleted \/ NothingToDelete \/ FreeNext \/ ChainFreed
        \/ Allocate \/ DiskFull \/ Fill \/ FillFails \/ Seal \/ DataWritten
        \/ TakeSlot \/ FindRoom \/ NoRoom
        \/ SealExtension \/ LinkExtension \/ FirstEntry
        \/ MkdirRefused \/ MkdirTakes \/ MkdirDots

Next == Issue \/ Step \/ PowerLoss

Spec == Init /\ [][Next]_vars

\* The call runs with interrupts off on the only processor, and the storage
\* drivers bound their polls: a call in progress goes on.
FairSpec == Spec /\ WF_vars(Step)

(******************************* properties ********************************)
Slot == [name : Name \cup {END, DEL}, folder : BOOLEAN,
         first : Cluster \cup {0}, size : Nat]
Buffer == [0 .. UnitsPerCluster - 1 -> Unit \cup {Zero}]
Request == [op : {"none", "write", "delete", "mkdir"},
            name : Name \cup {END}, arg : Seq(Unit)]

\* What is on the disk is in its range: links point into the table or end, slots
\* point to clusters, buffers are one cluster long.
DiskOK ==
  /\ fat \in [Cluster -> Cluster \cup {FREE, EOC}]
  /\ data \in [Cluster -> Buffer]
  /\ dir \in Seq(Slot) /\ Len(dir) >= SlotsPerCluster

\* So is everything else the driver keeps.
TypeOK ==
  /\ DiskOK
  /\ pc \in {"idle", "scan", "free", "rollback", "alloc", "fill", "seal", "slot",
             "extend", "link", "entry", "mkdir", "dots"}
  /\ req \in Request
  /\ rest \in Seq(Unit)
  /\ first_c \in Cluster \cup {0} /\ prev_c \in Cluster \cup {0}
  /\ cur \in Cluster \cup {0} /\ c \in Cluster \cup {FREE, EOC}
  /\ status \in {"SUCCESS", "busy", "NOT_FOUND", "DISK_FULL", "ERROR_WRITE",
                 "ERROR_READ", "RENAME_REFUSED", "rebooted"}

Heads == {Root} \cup {dir[k].first : k \in Owners}
ChainOf(h) == Chain(Cluster, fat, h)

\* No cluster belongs to two files, or to a file and the directory, whatever
\* calls ran, whichever of them failed half-way and wherever power was lost:
\* the guarantee of fat32_find_free_cluster and of the order in which
\* fat32_write_file seals, links and publishes clusters.
NoCrossLinks ==
  /\ \A j, k \in Owners :
       j # k => ChainOf(dir[j].first) \cap ChainOf(dir[k].first) = {}
  /\ \A k \in Owners : ChainOf(dir[k].first) \cap ChainOf(Root) = {}

\* A cluster that can be reached from the directory is never free, so the
\* allocator cannot hand it to another file: entries are published after
\* their chain is sealed and unpublished before it is freed.
ReachableAllocated == \A h \in Heads : \A x \in ChainOf(h) : fat[x] # FREE

\* Two slots never answer to one name, though fat32_write_file creates the
\* new entry long after it took the old one out.
UniqueNames == \A j, k \in Used : dir[j].name = dir[k].name => j = k

\* Nothing is stored behind the end mark, where no lookup would find it.
NoSlotBehindEnd == \A k \in Used : \A j \in 1 .. k - 1 : dir[j].name # END

\* Between calls every allocated cluster is in a file or in the directory:
\* README "escrita com rollback e free_chain (zero orfaos)", for the calls
\* that write and delete whole files, with memory and disk failing under them.
NoOrphans ==
  pc = "idle" => \A x \in Cluster : fat[x] # FREE => \E h \in Heads : x \in ChainOf(h)

\* Every call returns and gives the lock back: no chain it walks or frees is
\* a loop, whatever failed before.
CallsReturn == (pc # "idle") ~> (pc = "idle")
=============================================================================
