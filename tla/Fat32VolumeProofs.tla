------------------------- MODULE Fat32VolumeProofs -------------------------
(***************************************************************************)
(* The allocation guarantees of Fat32Volume, and that it implements        *)
(* FileStore, proved for every volume size, every directory, every         *)
(* payload, every set of calls and faults, and with power failing between  *)
(* any two disk writes.                                                    *)
(*                                                                         *)
(* The argument: the call in progress owns the chain it builds (first_c),  *)
(* the cluster it has just found (cur) and the chain it is giving back (c), *)
(* and none of them can be reached from the directory.  So each table      *)
(* write of the call leaves every reachable chain as it was (ChainFrame),  *)
(* and an entry is only ever published for a chain that is complete.       *)
(***************************************************************************)
EXTENDS Fat32Refinement, BasicTheorems

Building == {"alloc", "fill", "seal", "slot", "extend", "link", "entry", "dots"}

Reachable == UNION {ChainOf(h) : h \in Heads}

\* The call's own clusters.
OwnChain ==
  /\ first_c # 0 /\ pc \in Building =>
       /\ ChainOf(first_c) \cap Reachable = {}
       /\ \A x \in ChainOf(first_c) :
            fat[x] # FREE \/ (x = cur /\ pc \in {"fill", "seal"})
  /\ prev_c # 0 /\ pc = "alloc" => prev_c \notin Reachable /\ fat[prev_c] # FREE
  /\ pc \in {"fill", "seal", "extend"} => cur \in Cluster /\ fat[cur] = FREE
  /\ pc = "link" => /\ cur \in Cluster /\ fat[cur] = EOC /\ cur \notin Reachable
                    /\ first_c # 0 => cur \notin ChainOf(first_c)
  /\ pc \in {"fill", "seal", "dots"} => first_c # 0
  /\ pc \in {"free", "rollback"} /\ c \in Cluster => ChainOf(c) \cap Reachable = {}
  /\ pc \in {"scan", "free", "mkdir"} => first_c = 0 /\ prev_c = 0

\* The directory while a call prepares an entry for it.
EntryRoom ==
  /\ pc # "idle" => req.name \in Name /\ req.op # "none"
  /\ pc \in Building \cup {"free"} => \A k \in Used : dir[k].name # req.name
  /\ pc \in {"extend", "link"} => \A k \in Slots : ~Vacant(k)
  /\ pc = "entry" => /\ Len(dir) > SlotsPerCluster
                     /\ \A k \in 1 .. Len(dir) - SlotsPerCluster : ~Vacant(k)
                     /\ \A k \in Slots : k > Len(dir) - SlotsPerCluster => Vacant(k)

IInv == /\ TypeOK /\ NoCrossLinks /\ ReachableAllocated
        /\ UniqueNames /\ NoSlotBehindEnd /\ OwnChain /\ EntryRoom

-----------------------------------------------------------------------------
(******************************** types ************************************)
LEMMA ConstantFacts ==
  /\ Root \in Cluster /\ Cluster \subseteq Nat /\ 0 \notin Cluster /\ EOC \notin Cluster
  /\ EOC # FREE /\ EOC \in Nat
  /\ SlotsPerCluster \in Nat \ {0} /\ UnitsPerCluster \in Nat \ {0}
  BY VolumeAssumption DEF VolumeAssumption, Cluster, EOC, FREE

LEMMA FilledType ==
  ASSUME NEW s \in Seq(Unit)
  PROVE  Filled(s) \in Buffer
  BY ConstantFacts DEF Filled, Buffer

LEMMA NothingType ==
  /\ << >> \in Seq(Unit) /\ NoRequest \in Request /\ Zeroed \in Buffer
  /\ EmptySlot \in Slot /\ DeletedSlot \in Slot
<1>1. << >> \in Seq(Unit)
  OBVIOUS
<1>2. NoRequest \in Request
  BY <1>1 DEF NoRequest, Request
<1>3. Zeroed \in Buffer
  BY <1>1, FilledType DEF Zeroed
<1>4. EmptySlot \in Slot /\ DeletedSlot \in Slot
  BY DEF EmptySlot, DeletedSlot, Slot
<1>. QED  BY <1>1, <1>2, <1>3, <1>4

LEMMA NewEntryType == TypeOK => NewEntry \in Slot
<1>. SUFFICES ASSUME TypeOK, req.name \in Name \cup {END} PROVE NewEntry \in Slot
  BY DEF TypeOK, DiskOK, Request
<1>1. Len(req.arg) \in Nat
  BY DEF TypeOK, DiskOK, Request
<1>. QED  BY <1>1, ConstantFacts DEF TypeOK, DiskOK, NewEntry, FolderSlot, FileSlot, Slot

LEMMA AfterType ==
  ASSUME NEW s \in Seq(Unit), NEW n \in Nat
  PROVE  After(s, n) \in Seq(Unit)
<1>1. CASE n >= Len(s)
  BY <1>1 DEF After
<1>2. CASE ~(n >= Len(s))
  <2>1. SubSeq(s, n + 1, Len(s)) \in Seq(Unit)
    BY <1>2
  <2>. QED  BY <1>2, <2>1 DEF After
<1>. QED  BY <1>1, <1>2

\* Every variable stays in its range: the record of a call, the table, the
\* slots and the cluster contents are what the driver's C types say.
LEMMA TypeInit == Init => TypeOK
<1>. SUFFICES ASSUME Init PROVE TypeOK
  OBVIOUS
<1>1. fat \in [Cluster -> Cluster \cup {FREE, EOC}]
  BY DEF Init
<1>2. data \in [Cluster -> Buffer]
  BY NothingType DEF Init
<1>3. dir \in Seq(Slot) /\ Len(dir) >= SlotsPerCluster
  BY NothingType, ConstantFacts DEF Init
<1>. QED  BY <1>1, <1>2, <1>3, NothingType, ConstantFacts DEF Init, TypeOK, DiskOK, FREE

LEMMA TypeStep == TypeOK /\ [Next]_vars => TypeOK'
<1>. SUFFICES ASSUME TypeOK, [Next]_vars PROVE TypeOK'
  OBVIOUS
<1>. USE ConstantFacts, NothingType
<1>0. ASSUME NEW op \in {"write", "delete", "mkdir"}, NEW n \in Name,
             NEW s \in Seq(Unit), NEW at \in {"scan", "mkdir"}, Enter(op, n, s, at)
      PROVE  TypeOK'
  <2>1. req' \in Request
    BY <1>0 DEF Enter, Request
  <2>. QED  BY <1>0, <2>1 DEF TypeOK, DiskOK, Enter, disk, FREE
<1>1. ASSUME NEW n \in Name, NEW s \in Payload, WriteFile(n, s)  PROVE TypeOK'
  <2>1. s \in Seq(Unit)
    BY VolumeAssumption DEF VolumeAssumption
  <2>. QED  BY <1>0, <1>1, <2>1 DEF WriteFile
<1>2. ASSUME NEW n \in Name, DeleteFile(n)  PROVE TypeOK'
  BY <1>0, <1>2 DEF DeleteFile
<1>3. ASSUME NEW n \in Name, CreateDir(n)  PROVE TypeOK'
  BY <1>0, <1>3 DEF CreateDir
<1>4. ASSUME NEW old \in Name, NEW new \in Name, Rename(old, new)  PROVE TypeOK'
  <2>1. \A k \in Slots : [dir[k] EXCEPT !.name = new] \in Slot
    <3>. SUFFICES ASSUME NEW k \in Slots PROVE [dir[k] EXCEPT !.name = new] \in Slot
      OBVIOUS
    <3>1. dir[k] \in Slot
      BY DEF TypeOK, DiskOK, Slots
    <3>. QED  BY <3>1 DEF Slot
  <2>2. dir' \in Seq(Slot) /\ Len(dir') >= SlotsPerCluster
    <3>1. CASE dir' = dir
      BY <3>1 DEF TypeOK, DiskOK
    <3>2. ASSUME NEW k \in Slots, dir' = [dir EXCEPT ![k].name = new]
          PROVE  dir' \in Seq(Slot) /\ Len(dir') >= SlotsPerCluster
      <4>1. dir' = [dir EXCEPT ![k] = [dir[k] EXCEPT !.name = new]]
        BY <3>2
      <4> DEFINE moved == [dir[k] EXCEPT !.name = new]
      <4>2. moved \in Slot
        BY <2>1
      <4>3. dir' = [dir EXCEPT ![k] = moved]
        BY <4>1
      <4> HIDE DEF moved
      <4>. QED  BY <4>2, <4>3 DEF TypeOK, DiskOK, Slots
    <3>. QED  BY <1>4, <3>1, <3>2 DEF Rename
  <2>. QED  BY <1>4, <2>2 DEF TypeOK, DiskOK, Rename, locals
<1>5. CASE MarkDeleted
  <2>1. PICK k \in Slots : dir' = [dir EXCEPT ![k] = DeletedSlot] /\ c' = dir[k].first
    BY <1>5 DEF MarkDeleted
  <2>2. dir[k] \in Slot
    BY DEF TypeOK, DiskOK, Slots
  <2>3. dir' \in Seq(Slot) /\ Len(dir') >= SlotsPerCluster
    BY <2>1 DEF TypeOK, DiskOK, Slots
  <2>4. c' \in Cluster \cup {FREE, EOC}
    BY <2>1, <2>2 DEF Slot, FREE
  <2>. QED  BY <1>5, <2>3, <2>4 DEF TypeOK, DiskOK, MarkDeleted
<1>6. CASE NothingToDelete
  BY <1>6 DEF TypeOK, DiskOK, NothingToDelete, Return, Fresh, disk, locals, FREE
<1>7. CASE FreeNext
  <2>1. fat[c] \in Cluster \cup {FREE, EOC} /\ c' \in Cluster \cup {FREE, EOC}
    BY <1>7 DEF TypeOK, DiskOK, FreeNext, FREE
  <2>. QED  BY <1>7, <2>1 DEF TypeOK, DiskOK, FreeNext
<1>8. CASE ChainFreed
  BY <1>8 DEF TypeOK, DiskOK, ChainFreed, Return, Fresh, disk, FREE
<1>9. CASE Allocate
  BY <1>9 DEF TypeOK, DiskOK, Allocate, FirstFree, FreeClusters
<1>10. CASE DiskFull
  BY <1>10 DEF TypeOK, DiskOK, DiskFull, RollBack, disk, FREE
<1>11. CASE Fill
  <2>1. Filled(rest) \in Buffer
    BY FilledType DEF TypeOK, DiskOK
  <2>. QED  BY <1>11, <2>1 DEF TypeOK, DiskOK, Fill, locals
<1>12. CASE FillFails
  BY <1>12 DEF TypeOK, DiskOK, FillFails, RollBack, disk, FREE
<1>13. CASE Seal
  <2>1. After(rest, UnitsPerCluster) \in Seq(Unit)
    BY AfterType DEF TypeOK, DiskOK
  <2>. QED  BY <1>13, <2>1 DEF TypeOK, DiskOK, Seal
<1>14. CASE DataWritten
  BY <1>14 DEF TypeOK, DiskOK, DataWritten, disk, locals
<1>15. CASE TakeSlot
  <2>1. dir' \in Seq(Slot) /\ Len(dir') >= SlotsPerCluster
    BY <1>15, NewEntryType DEF TypeOK, DiskOK, TakeSlot, Slots
  <2>. QED  BY <1>15, <2>1 DEF TypeOK, DiskOK, TakeSlot, Return, Fresh, FREE
<1>16. CASE FindRoom
  BY <1>16 DEF TypeOK, DiskOK, FindRoom, Return, Fresh, disk, FREE
<1>17. CASE NoRoom
  BY <1>17 DEF TypeOK, DiskOK, NoRoom, RollBack, disk, FREE
<1>18. CASE SealExtension
  BY <1>18 DEF TypeOK, DiskOK, SealExtension, locals
<1>19. CASE LinkExtension
  <2>1. dir' \in Seq(Slot) /\ Len(dir') >= SlotsPerCluster
    BY <1>19 DEF TypeOK, DiskOK, LinkExtension
  <2>2. fat' \in [Cluster -> Cluster \cup {FREE, EOC}]
    BY <1>19 DEF TypeOK, DiskOK, LinkExtension, FREE
  <2>. QED  BY <1>19, <2>1, <2>2 DEF TypeOK, DiskOK, LinkExtension, locals
<1>20. CASE FirstEntry
  <2>1. dir' \in Seq(Slot) /\ Len(dir') >= SlotsPerCluster
    BY <1>20, NewEntryType DEF TypeOK, DiskOK, FirstEntry
  <2>. QED  BY <1>20, <2>1 DEF TypeOK, DiskOK, FirstEntry, Return, Fresh, FREE
<1>21. CASE MkdirRefused
  BY <1>21 DEF TypeOK, DiskOK, MkdirRefused, Return, Fresh, disk, FREE
<1>22. CASE MkdirTakes
  BY <1>22 DEF TypeOK, DiskOK, MkdirTakes
<1>23. CASE MkdirDots
  BY <1>23 DEF TypeOK, DiskOK, MkdirDots, Return, Fresh, disk, locals, FREE
<1>24. CASE PowerLoss
  BY <1>24 DEF TypeOK, DiskOK, PowerLoss, Sanitized, Return, Fresh, FREE
<1>25. CASE UNCHANGED vars
  BY <1>25 DEF TypeOK, DiskOK, vars, disk, locals
<1>. QED
  BY <1>1, <1>2, <1>3, <1>4, <1>5, <1>6, <1>7, <1>8, <1>9, <1>10, <1>11, <1>12, <1>13,
     <1>14, <1>15, <1>16, <1>17, <1>18, <1>19, <1>20, <1>21, <1>22, <1>23, <1>24, <1>25
  DEF Next, Issue, Step

THEOREM TypeCorrect == Spec => []TypeOK
<1>. QED  BY TypeInit, TypeStep, PTL DEF Spec

-----------------------------------------------------------------------------
(************************ steps of the table and of the directory **********)
LEMMA HeadType ==
  ASSUME DiskOK
  PROVE  Heads \subseteq Cluster /\ Owners \subseteq Slots /\ Slots = 1 .. Len(dir)
<1>1. \A k \in Slots : dir[k] \in Slot
  BY DEF TypeOK, DiskOK, Slots
<1>2. \A k \in Owners : dir[k].first \in Cluster
  BY <1>1 DEF Owners, Used, Slot
<1>. QED  BY <1>2, ConstantFacts DEF Heads, Owners, Used, Slots

\* A head's chain lies in the volume and is reachable.
LEMMA HeadChain ==
  ASSUME DiskOK, NEW h \in Heads
  PROVE  h \in ChainOf(h) /\ ChainOf(h) \subseteq Reachable /\ ChainOf(h) \subseteq Cluster
  BY HeadType, ChainBasics DEF Reachable, ChainOf, TypeOK

\* No free cluster is reachable.
LEMMA FreeUnreachable ==
  ASSUME ReachableAllocated, NEW x, fat[x] = FREE
  PROVE  x \notin Reachable
  BY DEF ReachableAllocated, Reachable

\* A write to the table outside what is reachable changes no reachable chain.
LEMMA TableStep ==
  ASSUME DiskOK, NoCrossLinks, ReachableAllocated,
         NEW y \in Cluster, NEW v, y \notin Reachable,
         fat' = [fat EXCEPT ![y] = v], dir' = dir
  PROVE  /\ Reachable' = Reachable
         /\ NoCrossLinks' /\ ReachableAllocated'
<1>1. Heads' = Heads /\ Owners' = Owners
  BY DEF Heads, Owners, Used, Slots
<1>2. \A h \in Heads : ChainOf(h)' = ChainOf(h)
  <2>. SUFFICES ASSUME NEW h \in Heads PROVE ChainOf(h)' = ChainOf(h)
    OBVIOUS
  <2>1. \A x \in Chain(Cluster, fat, h) : fat'[x] = fat[x]
    BY HeadChain DEF ChainOf, TypeOK, DiskOK
  <2>2. h \in Cluster
    BY HeadType DEF TypeOK
  <2>. QED  BY <2>1, <2>2, ChainFrame DEF ChainOf
<1>3. Reachable' = Reachable
  BY <1>1, <1>2 DEF Reachable
<1>4. Root \in Heads /\ \A k \in Owners : dir[k].first \in Heads
  BY DEF Heads
<1>5. NoCrossLinks'
  BY <1>1, <1>2, <1>4 DEF NoCrossLinks
<1>6. ReachableAllocated'
  <2>1. \A h \in Heads : \A x \in ChainOf(h) : fat'[x] = fat[x]
    BY HeadChain DEF TypeOK, DiskOK
  <2>. QED  BY <1>1, <1>2, <2>1 DEF ReachableAllocated
<1>. QED  BY <1>3, <1>5, <1>6

\* An entry leaves the directory: what it owned is no longer reachable.
LEMMA RemoveStep ==
  ASSUME TypeOK, NoCrossLinks, ReachableAllocated, UniqueNames, NoSlotBehindEnd,
         NEW k \in Slots, dir[k].name \in Name,
         fat' = fat, dir' = [dir EXCEPT ![k] = DeletedSlot]
  PROVE  /\ NoCrossLinks' /\ ReachableAllocated' /\ UniqueNames' /\ NoSlotBehindEnd'
         /\ Used' = Used \ {k} /\ \A j \in Used' : dir'[j] = dir[j]
         /\ dir[k].first \in Cluster => ChainOf(dir[k].first) \cap Reachable' = {}
<1>1. DEL \notin Name /\ DEL # END /\ DeletedSlot.name = DEL
  BY NameAssumption DEF NameAssumption, DeletedSlot, EmptySlot, END, DEL
<1>2. Slots' = Slots /\ dir'[k] = DeletedSlot /\ \A j \in Slots : j # k => dir'[j] = dir[j]
  BY DEF TypeOK, DiskOK, Slots
<1>3. Used' = Used \ {k}
  BY <1>1, <1>2 DEF Used
<1>4. Owners' = Owners \ {k} /\ \A j \in Owners' : dir'[j] = dir[j] /\ j \in Owners
  BY <1>2, <1>3 DEF Owners, Used
<1>5. Heads' = {Root} \cup {dir[j].first : j \in Owners \ {k}}
  BY <1>4 DEF Heads
<1>6. \A h : ChainOf(h)' = ChainOf(h)
  BY DEF ChainOf
<1>7. NoCrossLinks'
  BY <1>4, <1>6 DEF NoCrossLinks
<1>8. ReachableAllocated'
  BY <1>5, <1>6 DEF ReachableAllocated, Heads
<1>9. UniqueNames'
  BY <1>2, <1>3 DEF UniqueNames, Used
<1>10. NoSlotBehindEnd'
  <2>. SUFFICES ASSUME NEW i \in Used', NEW j \in 1 .. i - 1
                PROVE  dir'[j].name # END
    BY DEF NoSlotBehindEnd
  <2>1. i \in Used /\ i \in 1 .. Len(dir)
    BY <1>3 DEF Used, Slots
  <2>2. dir[j].name # END /\ j \in Slots
    BY <2>1 DEF NoSlotBehindEnd, TypeOK, DiskOK, Slots
  <2>. QED  BY <1>1, <1>2, <2>2
<1>11. ASSUME dir[k].first \in Cluster
       PROVE  ChainOf(dir[k].first) \cap Reachable' = {}
  <2>1. k \in Owners
    BY <1>11, ConstantFacts DEF Owners, Used
  <2>2. Reachable' = UNION {ChainOf(h) : h \in Heads'}
    BY <1>6 DEF Reachable
  <2>. QED  BY <2>1, <2>2, <1>5 DEF NoCrossLinks
<1>. QED  BY <1>2, <1>3, <1>7, <1>8, <1>9, <1>10, <1>11 DEF Used

\* An entry with a complete chain of its own enters the directory at a vacant
\* slot before the end mark.
LEMMA PublishStep ==
  ASSUME TypeOK, NoCrossLinks, ReachableAllocated, UniqueNames, NoSlotBehindEnd,
         NEW k \in Slots, NEW e \in Slot, e.name \in Name,
         Vacant(k), \A j \in 1 .. k - 1 : dir[j].name # END,
         \A j \in Used : dir[j].name # e.name,
         e.first # 0 => /\ ChainOf(e.first) \cap Reachable = {}
                        /\ \A x \in ChainOf(e.first) : fat[x] # FREE,
         fat' = fat, dir' = [dir EXCEPT ![k] = e]
  PROVE  NoCrossLinks' /\ ReachableAllocated' /\ UniqueNames' /\ NoSlotBehindEnd'
<1>1. Slots' = Slots /\ dir'[k] = e /\ \A j \in Slots : j # k => dir'[j] = dir[j]
  BY DEF TypeOK, DiskOK, Slots
<1>2. k \notin Used
  BY NameAssumption DEF NameAssumption, Used, Vacant
<1>3. Used' = Used \cup {k} /\ \A j \in Used : j # k /\ dir'[j] = dir[j]
  BY <1>1, <1>2 DEF Used
<1>4. Owners' = Owners \cup (IF e.first # 0 THEN {k} ELSE {})
  BY <1>1, <1>2, <1>3 DEF Owners
<1>5. \A j \in Owners : j # k /\ dir'[j] = dir[j] /\ dir[j].first \in Heads
  BY <1>3 DEF Owners, Heads
<1>6. Heads' = Heads \cup (IF e.first # 0 THEN {e.first} ELSE {})
  BY <1>1, <1>4, <1>5 DEF Heads
<1>7. \A h : ChainOf(h)' = ChainOf(h)
  BY DEF ChainOf
<1>8. \A h \in Heads : ChainOf(h) \subseteq Reachable
  BY DEF Reachable
<1>9. NoCrossLinks'
  <2>. SUFFICES ASSUME e.first # 0 PROVE NoCrossLinks'
    BY <1>4, <1>5, <1>7 DEF NoCrossLinks
  <2>1. \A h \in Heads : ChainOf(e.first) \cap ChainOf(h) = {}
    BY <1>8
  <2>2. Root \in Heads
    BY DEF Heads
  <2>3. dir'[k].first = e.first /\ \A j \in Owners : dir'[j].first = dir[j].first /\ j # k
    BY <1>1, <1>5
  <2>4. Owners' = Owners \cup {k} /\ ChainOf(e.first) \cap ChainOf(Root) = {}
        /\ \A j \in Owners : ChainOf(e.first) \cap ChainOf(dir[j].first) = {}
    BY <1>4, <1>5, <2>1, <2>2
  <2>. QED  BY <1>7, <2>3, <2>4 DEF NoCrossLinks
<1>10. ReachableAllocated'
  BY <1>6, <1>7 DEF ReachableAllocated
<1>11. UniqueNames'
  BY <1>1, <1>3 DEF UniqueNames
<1>12. NoSlotBehindEnd'
  <2>. SUFFICES ASSUME NEW i \in Used', NEW j \in 1 .. i - 1
                PROVE  dir'[j].name # END
    BY DEF NoSlotBehindEnd
  <2>1. i \in 1 .. Len(dir) /\ k \in 1 .. Len(dir)
    BY <1>1, <1>3 DEF Used, Slots
  <2>2. j \in Slots
    BY <2>1 DEF Slots, TypeOK, DiskOK
  <2>3. CASE i = k
    BY <1>1, <2>2, <2>3
  <2>4. CASE i # k
    <3>1. dir[j].name # END
      BY <1>3, <2>4 DEF NoSlotBehindEnd
    <3>. QED  BY <1>1, <2>2, <3>1, NameAssumption DEF NameAssumption
  <2>. QED  BY <2>3, <2>4
<1>. QED  BY <1>9, <1>10, <1>11, <1>12

LEMMA SameDisk ==
  ASSUME fat' = fat, dir' = dir
  PROVE  /\ Reachable' = Reachable /\ Used' = Used /\ Slots' = Slots
         /\ NoCrossLinks => NoCrossLinks'
         /\ ReachableAllocated => ReachableAllocated'
         /\ UniqueNames => UniqueNames'
         /\ NoSlotBehindEnd => NoSlotBehindEnd'
         /\ \A h : ChainOf(h)' = ChainOf(h)
         /\ \A k : Vacant(k)' = Vacant(k)
<1>1. Used' = Used /\ Slots' = Slots /\ Owners' = Owners /\ Heads' = Heads
  BY DEF Heads, Owners, Used, Slots
<1>2. \A h : ChainOf(h)' = ChainOf(h)
  BY DEF ChainOf
<1>3. Reachable' = Reachable
  BY <1>1, <1>2 DEF Reachable
<1>4. NoCrossLinks => NoCrossLinks'
  BY <1>1, <1>2 DEF NoCrossLinks
<1>5. ReachableAllocated => ReachableAllocated'
  BY <1>1, <1>2 DEF ReachableAllocated
<1>6. (UniqueNames => UniqueNames') /\ (NoSlotBehindEnd => NoSlotBehindEnd')
  BY <1>1 DEF UniqueNames, NoSlotBehindEnd
<1>7. \A k : Vacant(k)' = Vacant(k)
  BY DEF Vacant
<1>. QED  BY <1>1, <1>2, <1>3, <1>4, <1>5, <1>6, <1>7

LEMMA SameDirectory ==
  ASSUME dir' = dir
  PROVE  /\ Used' = Used /\ Slots' = Slots
         /\ UniqueNames => UniqueNames'
         /\ NoSlotBehindEnd => NoSlotBehindEnd'
         /\ \A k : Vacant(k)' = Vacant(k)
  BY DEF Used, Slots, UniqueNames, NoSlotBehindEnd, Vacant

\* Between calls the driver owns nothing.
LEMMA Returned ==
  ASSUME pc' = "idle"
  PROVE  OwnChain' /\ EntryRoom'
  BY DEF OwnChain, EntryRoom, Building

LEMMA VacantUnused ==
  ASSUME NEW k \in Slots
  PROVE  Vacant(k) => k \notin Used
  BY NameAssumption DEF NameAssumption, Vacant, Used

\* A slot with the name, wherever it is, is the one a lookup finds.
LEMMA LookupFinds ==
  ASSUME UniqueNames, NoSlotBehindEnd, DiskOK, NEW n \in Name, ~Exists(n)
  PROVE  \A k \in Used : dir[k].name # n
<1>. SUFFICES ASSUME NEW k \in Used, dir[k].name = n PROVE FALSE
  OBVIOUS
<1>1. k \in Slots /\ \A j \in 1 .. k - 1 : dir[j].name # END
  BY DEF Used, NoSlotBehindEnd
<1>2. ASSUME NEW j \in 1 .. k - 1 PROVE dir[j].name # n
  <2>1. j \in Slots /\ j # k
    BY <1>1 DEF Slots, TypeOK, DiskOK
  <2>. QED  BY <2>1 DEF UniqueNames, Used
<1>. QED  BY <1>1, <1>2 DEF Exists, Lookup

LEMMA IInvInit == Init => IInv
<1>. SUFFICES ASSUME Init PROVE IInv
  OBVIOUS
<1>. USE ConstantFacts
<1>1. TypeOK
  BY TypeInit
<1>2. Used = {} /\ Owners = {}
  <2>1. \A k \in Slots : dir[k].name = END
    BY DEF Init, Slots, EmptySlot
  <2>. QED  BY <2>1, NameAssumption DEF NameAssumption, Used, Owners
<1>3. Heads = {Root}
  BY <1>2 DEF Heads
<1>4. ChainOf(Root) \subseteq {Root}
  <2>1. fat[Root] = EOC
    BY DEF Init
  <2>2. {Root} \in SUBSET Cluster /\ \A x \in {Root} : fat[x] \in Cluster => fat[x] \in {Root}
    BY <2>1
  <2>. QED  BY <2>2, ChainLeast DEF ChainOf
<1>5. NoCrossLinks /\ UniqueNames /\ NoSlotBehindEnd
  BY <1>2 DEF NoCrossLinks, UniqueNames, NoSlotBehindEnd
<1>6. ReachableAllocated
  BY <1>3, <1>4 DEF ReachableAllocated, Init
<1>7. OwnChain /\ EntryRoom
  BY DEF Init, OwnChain, EntryRoom, Building
<1>. QED  BY <1>1, <1>5, <1>6, <1>7 DEF IInv

-----------------------------------------------------------------------------
(************************ the steps of a call ******************************)
LEMMA EnterStep ==
  ASSUME IInv, NEW op \in {"write", "delete", "mkdir"}, NEW n \in Name, NEW s,
         NEW at \in {"scan", "mkdir"}, Enter(op, n, s, at)
  PROVE  NoCrossLinks' /\ ReachableAllocated' /\ UniqueNames' /\ NoSlotBehindEnd'
         /\ OwnChain' /\ EntryRoom'
<1>1. fat' = fat /\ dir' = dir
  BY DEF Enter, disk
<1>2. OwnChain'
  BY DEF Enter, OwnChain, Building
<1>3. EntryRoom'
  BY DEF Enter, EntryRoom, Building
<1>. QED  BY <1>1, <1>2, <1>3, SameDisk DEF IInv

LEMMA RenameStep ==
  ASSUME IInv, NEW old \in Name, NEW new \in Name, Rename(old, new)
  PROVE  NoCrossLinks' /\ ReachableAllocated' /\ UniqueNames' /\ NoSlotBehindEnd'
         /\ OwnChain' /\ EntryRoom'
<1>1. pc' = "idle" /\ fat' = fat
  BY DEF Rename
<1>2. CASE dir' = dir
  BY <1>1, <1>2, SameDisk, Returned DEF IInv
<1>3. ASSUME NEW k \in Slots, Lookup(old, k), ~Exists(new), dir' = [dir EXCEPT ![k].name = new]
      PROVE  NoCrossLinks' /\ ReachableAllocated' /\ UniqueNames' /\ NoSlotBehindEnd'
  <2>1. k \in Used /\ dir[k].name = old /\ dir[k] \in Slot
    BY <1>3 DEF Lookup, Used, IInv, TypeOK, DiskOK, Slots
  <2>2. /\ dir'[k] = [dir[k] EXCEPT !.name = new]
        /\ Slots' = Slots /\ \A j \in Slots : j # k => dir'[j] = dir[j]
    BY <1>3 DEF IInv, TypeOK, DiskOK, Slots
  <2>3. dir'[k].name = new /\ dir'[k].first = dir[k].first
    BY <2>1, <2>2 DEF Slot
  <2>4. Used' = Used /\ Owners' = Owners /\ \A j \in Owners : dir'[j].first = dir[j].first
    BY <2>1, <2>2, <2>3 DEF Used, Owners
  <2>5. Heads' = Heads
    BY <2>4 DEF Heads
  <2>6. \A h : ChainOf(h)' = ChainOf(h)
    BY <1>1 DEF ChainOf
  <2>7. NoCrossLinks' /\ ReachableAllocated'
    BY <1>1, <2>4, <2>5, <2>6 DEF NoCrossLinks, ReachableAllocated, IInv
  <2>8. \A j \in Used : dir[j].name # new
    BY <1>3, LookupFinds DEF IInv, TypeOK
  <2>9. UniqueNames'
    <3>. SUFFICES ASSUME NEW i \in Used, NEW j \in Used, dir'[i].name = dir'[j].name
                  PROVE  i = j
      BY <2>4 DEF UniqueNames
    <3>1. i \in Slots /\ j \in Slots
      BY DEF Used
    <3>2. CASE i = k \/ j = k
      BY <2>2, <2>3, <2>8, <3>1, <3>2
    <3>3. CASE i # k /\ j # k
      <4>1. dir[i].name = dir[j].name
        BY <2>2, <3>1, <3>3
      <4>2. UniqueNames
        BY DEF IInv
      <4>. QED  BY <4>1, <4>2 DEF UniqueNames
    <3>. QED  BY <3>2, <3>3
  <2>10. NoSlotBehindEnd'
    <3>. SUFFICES ASSUME NEW i \in Used, NEW j \in 1 .. i - 1 PROVE dir'[j].name # END
      BY <2>4 DEF NoSlotBehindEnd
    <3>1. j \in Slots /\ dir[j].name # END
      BY DEF Used, Slots, NoSlotBehindEnd, IInv, TypeOK, DiskOK
    <3>. QED  BY <2>2, <2>3, <3>1, NameAssumption DEF NameAssumption
  <2>. QED  BY <2>7, <2>9, <2>10
<1>. QED  BY <1>1, <1>2, <1>3, Returned DEF Rename

Kept == NoCrossLinks /\ ReachableAllocated /\ UniqueNames /\ NoSlotBehindEnd
        /\ OwnChain /\ EntryRoom

LEMMA MarkDeletedStep ==
  ASSUME IInv, MarkDeleted
  PROVE  Kept'
<1>1. PICK k \in Slots : /\ Lookup(req.name, k) /\ dir' = [dir EXCEPT ![k] = DeletedSlot]
                         /\ c' = dir[k].first
  BY DEF MarkDeleted
<1>2. dir[k].name = req.name /\ req.name \in Name
  BY <1>1 DEF Lookup, MarkDeleted, IInv, EntryRoom
<1>3. /\ NoCrossLinks' /\ ReachableAllocated' /\ UniqueNames' /\ NoSlotBehindEnd'
      /\ Used' = Used \ {k} /\ \A j \in Used' : dir'[j] = dir[j]
      /\ dir[k].first \in Cluster => ChainOf(dir[k].first) \cap Reachable' = {}
  BY <1>1, <1>2, RemoveStep DEF MarkDeleted, IInv
<1>4. c' \in Cluster => ChainOf(c)' \cap Reachable' = {}
  BY <1>1, <1>3 DEF ChainOf, MarkDeleted
<1>5. OwnChain'
  BY <1>4 DEF MarkDeleted, IInv, OwnChain, Building
<1>6. \A j \in Used' : dir'[j].name # req.name
  BY <1>2, <1>3 DEF IInv, UniqueNames, Used
<1>7. EntryRoom'
  BY <1>6 DEF MarkDeleted, IInv, EntryRoom, Building
<1>. QED  BY <1>3, <1>5, <1>7 DEF Kept

LEMMA NothingToDeleteStep ==
  ASSUME IInv, NothingToDelete
  PROVE  Kept'
<1>1. fat' = fat /\ dir' = dir
  BY DEF NothingToDelete, disk
<1>2. CASE pc' = "idle"
  BY <1>1, <1>2, SameDisk, Returned DEF IInv, Kept
<1>3. CASE pc' = "alloc" /\ UNCHANGED locals
  <2>1. first_c' = 0 /\ prev_c' = 0
    BY <1>3 DEF locals, IInv, OwnChain, NothingToDelete
  <2>2. OwnChain'
    BY <1>3, <2>1 DEF OwnChain, Building
  <2>3. req' = req /\ req.name \in Name /\ req.op # "none"
    BY <1>3 DEF locals, IInv, EntryRoom, NothingToDelete
  <2>4. \A k \in Used : dir[k].name # req.name
    BY <2>3, LookupFinds DEF IInv, NothingToDelete, TypeOK
  <2>5. EntryRoom'
    BY <1>1, <1>3, <2>3, <2>4, SameDisk DEF EntryRoom
  <2>. QED  BY <1>1, <2>2, <2>5, SameDisk DEF IInv, Kept
<1>. QED  BY <1>2, <1>3 DEF NothingToDelete, Return

LEMMA FreeNextStep ==
  ASSUME IInv, FreeNext
  PROVE  Kept'
<1>. USE ConstantFacts
<1>1. c \in Cluster /\ ChainOf(c) \cap Reachable = {} /\ c \in ChainOf(c)
  BY ChainBasics DEF FreeNext, IInv, OwnChain, ChainOf
<1>2. /\ Reachable' = Reachable
      /\ NoCrossLinks' /\ ReachableAllocated'
  BY <1>1, TableStep DEF FreeNext, IInv, TypeOK
<1>3. c' \in Cluster => ChainOf(c)' \cap Reachable' = {}
  <2>. SUFFICES ASSUME c' \in Cluster PROVE ChainOf(c)' \cap Reachable' = {}
    OBVIOUS
  <2>1. c' = fat[c] /\ fat[c] \in Cluster
    BY DEF FreeNext
  <2>2. fat[c] \in Chain(Cluster, fat, c)
    BY <1>1, <2>1, ChainBasics
  <2>3. Chain(Cluster, fat, fat[c]) \subseteq Chain(Cluster, fat, c)
    BY <1>1, <2>2, SubChain
  <2>4. Chain(Cluster, fat', fat[c]) \subseteq Chain(Cluster, fat, fat[c])
    BY <1>1, <2>1, ChainCut DEF FreeNext, IInv, TypeOK, DiskOK, FREE
  <2>. QED  BY <1>1, <1>2, <2>1, <2>3, <2>4 DEF ChainOf
<1>4. OwnChain'
  BY <1>3 DEF FreeNext, IInv, OwnChain, Building
<1>5. EntryRoom' /\ UniqueNames' /\ NoSlotBehindEnd'
  BY SameDirectory DEF FreeNext, IInv, EntryRoom, Building
<1>. QED  BY <1>2, <1>4, <1>5 DEF Kept

LEMMA ChainFreedStep ==
  ASSUME IInv, ChainFreed
  PROVE  Kept'
<1>1. fat' = fat /\ dir' = dir
  BY DEF ChainFreed, disk
<1>2. CASE pc' = "idle"
  BY <1>1, <1>2, SameDisk, Returned DEF IInv, Kept
<1>3. CASE pc = "free" /\ pc' = "alloc" /\ UNCHANGED <<req, first_c, prev_c>>
  <2>1. first_c' = 0 /\ prev_c' = 0
    BY <1>3 DEF IInv, OwnChain
  <2>2. OwnChain'
    BY <1>3, <2>1 DEF OwnChain, Building
  <2>3. EntryRoom'
    BY <1>1, <1>3, SameDisk DEF EntryRoom, IInv, Building
  <2>. QED  BY <1>1, <2>2, <2>3, SameDisk DEF IInv, Kept
<1>. QED  BY <1>2, <1>3 DEF ChainFreed, Return

LEMMA AllocateStep ==
  ASSUME IInv, Allocate
  PROVE  Kept'
<1>. USE ConstantFacts
<1>1. PICK x \in Cluster :
         /\ fat[x] = FREE /\ cur' = x
         /\ first_c' = IF first_c = 0 THEN x ELSE first_c
         /\ fat' = IF prev_c = 0 THEN fat ELSE [fat EXCEPT ![prev_c] = x]
  BY DEF Allocate, FirstFree, FreeClusters
<1>2. x \notin Reachable
  BY <1>1, FreeUnreachable DEF IInv
<1>3. prev_c # 0 => prev_c \in Cluster /\ prev_c # x /\ prev_c \notin Reachable
  BY <1>1 DEF Allocate, IInv, OwnChain, TypeOK, DiskOK
<1>4. Reachable' = Reachable /\ NoCrossLinks' /\ ReachableAllocated'
  <2>1. CASE prev_c = 0
    BY <1>1, <2>1, SameDisk DEF Allocate, IInv
  <2>2. CASE prev_c # 0
    BY <1>1, <1>3, <2>2, TableStep DEF Allocate, IInv, TypeOK
  <2>. QED  BY <2>1, <2>2
<1>5. fat'[x] = FREE /\ first_c' \in Cluster /\ first_c' # 0
  BY <1>1, <1>3 DEF IInv, TypeOK, DiskOK
<1>6. /\ Chain(Cluster, fat', first_c') \cap Reachable = {}
      /\ \A z \in Chain(Cluster, fat', first_c') : fat'[z] # FREE \/ z = x
  <2>1. CASE first_c = 0
    <3>1. {x} \in SUBSET Cluster /\ \A z \in {x} : fat'[z] \in Cluster => fat'[z] \in {x}
      BY <1>5 DEF FREE
    <3>2. Chain(Cluster, fat', x) \subseteq {x}
      BY <3>1, ChainLeast
    <3>. QED  BY <1>1, <1>2, <2>1, <3>2
  <2>2. CASE first_c # 0
    <3>1. /\ first_c \in Cluster /\ Chain(Cluster, fat, first_c) \cap Reachable = {}
          /\ \A z \in Chain(Cluster, fat, first_c) : z \in Cluster /\ fat[z] # FREE
      BY <2>2, ChainBasics DEF Allocate, IInv, OwnChain, Building, ChainOf, TypeOK, DiskOK
    <3>2. Chain(Cluster, fat', first_c) \subseteq Chain(Cluster, fat, first_c) \cup {x}
      <4>1. CASE prev_c = 0
        BY <1>1, <4>1
      <4>2. CASE prev_c # 0
        BY <1>1, <1>3, <3>1, <4>2, ChainLink DEF IInv, TypeOK, DiskOK, FREE
      <4>. QED  BY <4>1, <4>2
    <3>3. \A z \in Cluster : fat[z] # FREE => fat'[z] # FREE
      BY <1>1, <1>3 DEF IInv, TypeOK, DiskOK, FREE
    <3>. QED  BY <1>1, <1>2, <2>2, <3>1, <3>2, <3>3
  <2>. QED  BY <2>1, <2>2
<1>7. OwnChain'
  BY <1>1, <1>4, <1>5, <1>6 DEF Allocate, OwnChain, Building, ChainOf
<1>8. EntryRoom' /\ UniqueNames' /\ NoSlotBehindEnd'
  BY SameDirectory DEF Allocate, IInv, EntryRoom, Building
<1>. QED  BY <1>4, <1>7, <1>8 DEF Kept

LEMMA RollBackStep ==
  ASSUME IInv, NEW st, pc \in Building, RollBack(st), UNCHANGED disk
  PROVE  Kept'
<1>1. fat' = fat /\ dir' = dir
  BY DEF disk
<1>2. c' \in Cluster => ChainOf(c)' \cap Reachable' = {}
  BY <1>1, SameDisk, ConstantFacts DEF RollBack, IInv, OwnChain, ChainOf
<1>3. OwnChain'
  BY <1>2 DEF RollBack, OwnChain, Building
<1>4. EntryRoom'
  BY DEF RollBack, EntryRoom, IInv, Building
<1>. QED  BY <1>1, <1>3, <1>4, SameDisk DEF IInv, Kept

\* Steps that change neither the table, nor the directory, nor what the call owns.
LEMMA QuietStep ==
  ASSUME IInv, UNCHANGED <<fat, dir, req, first_c, prev_c, cur>>,
         \/ Fill \/ DataWritten \/ (MkdirDots /\ pc' = "slot")
  PROVE  Kept'
<1>1. OwnChain'
  <2>1. Reachable' = Reachable /\ ChainOf(first_c)' = ChainOf(first_c)
    BY SameDisk DEF ChainOf
  <2>. QED
    BY <2>1 DEF Fill, DataWritten, MkdirDots, IInv, OwnChain, Building
<1>2. EntryRoom'
  BY SameDisk DEF Fill, DataWritten, MkdirDots, IInv, EntryRoom, Building
<1>. QED  BY <1>1, <1>2, SameDisk DEF IInv, Kept

LEMMA SealStep ==
  ASSUME IInv, Seal
  PROVE  Kept'
<1>. USE ConstantFacts
<1>1. /\ cur \in Cluster /\ fat[cur] = FREE /\ first_c \in Cluster
      /\ fat' = [fat EXCEPT ![cur] = EOC] /\ prev_c' = cur /\ first_c' = first_c
  BY DEF Seal, IInv, OwnChain, TypeOK, DiskOK
<1>2. cur \notin Reachable
  BY <1>1, FreeUnreachable DEF IInv
<1>3. Reachable' = Reachable /\ NoCrossLinks' /\ ReachableAllocated'
  BY <1>1, <1>2, TableStep DEF Seal, IInv, TypeOK
<1>4. Chain(Cluster, fat', first_c) \subseteq Chain(Cluster, fat, first_c)
  BY <1>1, ChainCut DEF IInv, TypeOK, DiskOK
<1>5. /\ Chain(Cluster, fat, first_c) \cap Reachable = {}
      /\ \A x \in Chain(Cluster, fat, first_c) : x \in Cluster /\ (fat[x] # FREE \/ x = cur)
  BY <1>1, ChainBasics DEF Seal, IInv, OwnChain, Building, ChainOf
<1>6. \A x \in Chain(Cluster, fat', first_c) : fat'[x] # FREE
  BY <1>1, <1>4, <1>5 DEF IInv, TypeOK, DiskOK
<1>7. fat'[cur] # FREE
  BY <1>1 DEF IInv, TypeOK, DiskOK
<1>8. OwnChain'
  BY <1>1, <1>2, <1>3, <1>4, <1>5, <1>6, <1>7 DEF Seal, OwnChain, Building, ChainOf
<1>9. EntryRoom' /\ UniqueNames' /\ NoSlotBehindEnd'
  BY SameDirectory DEF Seal, IInv, EntryRoom, Building
<1>. QED  BY <1>3, <1>8, <1>9 DEF Kept

LEMMA NewEntryFields ==
  NewEntry.name = req.name /\ NewEntry.first = first_c
  BY DEF NewEntry, FolderSlot, FileSlot

\* The call's entry, with the chain it built, goes to slot k.
LEMMA EntryStep ==
  ASSUME IInv, pc \in {"slot", "entry"}, NEW k \in Slots, Vacant(k),
         \A j \in 1 .. k - 1 : dir[j].name # END,
         fat' = fat, dir' = [dir EXCEPT ![k] = NewEntry], pc' = "idle"
  PROVE  Kept'
<1>1. NewEntry \in Slot
  BY NewEntryType DEF IInv
<1>2. NewEntry.name \in Name /\ \A j \in Used : dir[j].name # NewEntry.name
  BY NewEntryFields DEF IInv, EntryRoom, Building
<1>3. NewEntry.first # 0 => /\ ChainOf(NewEntry.first) \cap Reachable = {}
                            /\ \A x \in ChainOf(NewEntry.first) : fat[x] # FREE
  BY NewEntryFields DEF IInv, OwnChain, Building
<1>4. NoCrossLinks' /\ ReachableAllocated' /\ UniqueNames' /\ NoSlotBehindEnd'
  <2> DEFINE e == NewEntry
  <2>1. e \in Slot /\ e.name \in Name /\ (\A j \in Used : dir[j].name # e.name)
        /\ dir' = [dir EXCEPT ![k] = e]
    BY <1>1, <1>2
  <2>2. e.first # 0 => /\ ChainOf(e.first) \cap Reachable = {}
                       /\ \A x \in ChainOf(e.first) : fat[x] # FREE
    BY <1>3
  <2> HIDE DEF e
  <2>. QED  BY <2>1, <2>2, PublishStep DEF IInv
<1>. QED  BY <1>4, Returned DEF Kept

LEMMA TakeSlotStep ==
  ASSUME IInv, TakeSlot
  PROVE  Kept'
<1>1. PICK k \in Slots : FirstVacant(k) /\ dir' = [dir EXCEPT ![k] = NewEntry]
  BY DEF TakeSlot
<1>2. Vacant(k) /\ \A j \in 1 .. k - 1 : dir[j].name # END
  BY <1>1 DEF FirstVacant, Vacant
<1>. QED  BY <1>1, <1>2, EntryStep DEF TakeSlot, Return

LEMMA FirstEntryStep ==
  ASSUME IInv, FirstEntry
  PROVE  Kept'
<1> DEFINE k == Len(dir) - SlotsPerCluster + 1
<1>1. k \in Slots /\ Vacant(k) /\ \A j \in 1 .. k - 1 : dir[j].name # END
  <2>1. pc = "entry" /\ EntryRoom /\ dir \in Seq(Slot)
    BY DEF FirstEntry, IInv, TypeOK, DiskOK
  <2>. QED  BY <2>1, ConstantFacts DEF EntryRoom, Slots, Vacant
<1>2. dir' = [dir EXCEPT ![k] = NewEntry] /\ fat' = fat /\ pc' = "idle" /\ pc = "entry"
  BY DEF FirstEntry, Return
<1> HIDE DEF k
<1>. QED  BY <1>1, <1>2, EntryStep

LEMMA FindRoomStep ==
  ASSUME IInv, FindRoom
  PROVE  Kept'
<1>1. fat' = fat /\ dir' = dir
  BY DEF FindRoom, disk
<1>2. CASE pc' = "idle"
  BY <1>1, <1>2, SameDisk, Returned DEF IInv, Kept
<1>3. CASE req.op = "write" /\ pc' = "extend" /\ UNCHANGED <<req, first_c>>
           /\ \E x \in Cluster : FirstFree(x) /\ cur' = x
  <2>1. Reachable' = Reachable /\ ChainOf(first_c)' = ChainOf(first_c)
    BY <1>1, <1>3, SameDisk DEF ChainOf
  <2>2. cur' \in Cluster /\ fat'[cur'] = FREE
    BY <1>1, <1>3 DEF FirstFree, FreeClusters
  <2>3. OwnChain'
    BY <1>1, <1>3, <2>1, <2>2 DEF FindRoom, IInv, OwnChain, Building
  <2>4. EntryRoom'
    BY <1>1, <1>3, SameDisk DEF FindRoom, IInv, EntryRoom, Building
  <2>. QED  BY <1>1, <2>3, <2>4, SameDisk DEF IInv, Kept
<1>. QED  BY <1>2, <1>3 DEF FindRoom, Return

LEMMA SealExtensionStep ==
  ASSUME IInv, SealExtension
  PROVE  Kept'
<1>. USE ConstantFacts
<1>1. /\ cur \in Cluster /\ fat[cur] = FREE /\ fat' = [fat EXCEPT ![cur] = EOC]
      /\ first_c' = first_c /\ cur' = cur /\ fat'[cur] = EOC
  BY DEF SealExtension, IInv, OwnChain, TypeOK, DiskOK, locals
<1>2. cur \notin Reachable
  BY <1>1, FreeUnreachable DEF IInv
<1>3. Reachable' = Reachable /\ NoCrossLinks' /\ ReachableAllocated'
  BY <1>1, <1>2, TableStep DEF SealExtension, IInv, TypeOK
<1>4. ASSUME first_c # 0
      PROVE  /\ Chain(Cluster, fat', first_c) \cap Reachable = {}
             /\ \A x \in Chain(Cluster, fat', first_c) : fat'[x] # FREE
             /\ cur \notin Chain(Cluster, fat', first_c)
  <2>1. /\ first_c \in Cluster /\ Chain(Cluster, fat, first_c) \cap Reachable = {}
        /\ \A x \in Chain(Cluster, fat, first_c) : x \in Cluster /\ fat[x] # FREE
    BY <1>4, ChainBasics DEF SealExtension, IInv, OwnChain, Building, ChainOf, TypeOK, DiskOK
  <2>2. Chain(Cluster, fat', first_c) \subseteq Chain(Cluster, fat, first_c)
    BY <1>1, <2>1, ChainCut DEF IInv, TypeOK, DiskOK
  <2>. QED  BY <1>1, <2>1, <2>2 DEF IInv, TypeOK, DiskOK
<1>5. OwnChain'
  BY <1>1, <1>2, <1>3, <1>4 DEF SealExtension, OwnChain, Building, ChainOf, locals
<1>6. EntryRoom' /\ UniqueNames' /\ NoSlotBehindEnd'
  BY SameDirectory DEF SealExtension, IInv, EntryRoom, Building, locals
<1>. QED  BY <1>3, <1>5, <1>6 DEF Kept

LEMMA LinkExtensionStep ==
  ASSUME IInv, LinkExtension
  PROVE  Kept'
<1>. USE ConstantFacts
<1>1. PICK last \in ChainOf(Root) : fat[last] = EOC /\ fat' = [fat EXCEPT ![last] = cur]
  BY DEF LinkExtension, ChainOf
<1>2. /\ cur \in Cluster /\ fat[cur] = EOC /\ cur \notin Reachable /\ cur' = cur
      /\ first_c' = first_c /\ req' = req
      /\ first_c # 0 => cur \notin ChainOf(first_c)
  BY DEF LinkExtension, IInv, OwnChain, locals
<1>3. Root \in Heads /\ last \in Reachable /\ last \in Cluster /\ last # cur
  <2>1. Root \in Heads
    BY DEF Heads
  <2>. QED  BY <1>1, <1>2, <2>1, HeadChain DEF IInv, TypeOK
<1>4. \A x \in Cluster : fat[x] # FREE => fat'[x] # FREE
  BY <1>1, <1>2 DEF IInv, TypeOK, DiskOK, FREE
<1>5. /\ Len(dir') = Len(dir) + SlotsPerCluster
      /\ Slots' = 1 .. Len(dir) + SlotsPerCluster /\ Slots = 1 .. Len(dir)
      /\ Slots \subseteq Slots' /\ \A k \in Slots : dir'[k] = dir[k]
      /\ \A k \in Slots' : k \notin Slots => dir'[k] = EmptySlot
  BY DEF LinkExtension, IInv, TypeOK, DiskOK, Slots
<1>6. Used' = Used
  BY <1>5, NameAssumption DEF NameAssumption, Used, EmptySlot
<1>7. Owners' = Owners /\ \A k \in Owners : k \in Slots /\ dir'[k] = dir[k] /\ dir[k].first \in Heads
  BY <1>5, <1>6 DEF Owners, Used, Heads
<1>8. Heads' = Heads
  BY <1>7 DEF Heads
<1>9. ASSUME NEW h \in Cluster, last \notin ChainOf(h)
      PROVE  ChainOf(h)' = ChainOf(h)
  <2>1. \A x \in Chain(Cluster, fat, h) : fat'[x] = fat[x]
    BY <1>1, <1>9, ChainBasics DEF IInv, TypeOK, DiskOK, ChainOf
  <2>. QED  BY <2>1, ChainFrame DEF ChainOf
<1>10. \A k \in Owners : ChainOf(dir[k].first)' = ChainOf(dir[k].first)
  BY <1>1, <1>7, <1>9, HeadType DEF IInv, NoCrossLinks, TypeOK
<1>11. ChainOf(Root)' \subseteq ChainOf(Root) \cup {cur}
  <2>1. fat \in [Cluster -> Cluster \cup {FREE, EOC}] /\ fat[cur] \notin Cluster
    BY <1>2 DEF IInv, TypeOK, DiskOK
  <2>2. Chain(Cluster, [fat EXCEPT ![last] = cur], Root)
          \subseteq Chain(Cluster, fat, Root) \cup {cur}
    BY <1>2, <1>3, <2>1, ChainLink
  <2>. QED  BY <1>1, <2>2 DEF ChainOf
<1>12. Reachable' \subseteq Reachable \cup {cur}
  <2>1. \A h \in Heads : ChainOf(h) \subseteq Reachable
    BY HeadChain DEF IInv, TypeOK
  <2>2. ChainOf(Root)' \subseteq Reachable \cup {cur}
    BY <1>3, <1>11, <2>1
  <2>3. \A k \in Owners : ChainOf(dir[k].first)' \subseteq Reachable \cup {cur}
    BY <1>7, <1>10, <2>1
  <2>4. \A h \in Heads : ChainOf(h)' \subseteq Reachable \cup {cur}
    BY <1>7, <2>2, <2>3 DEF Heads
  <2>. QED  BY <1>8, <2>4 DEF Reachable
<1>13. NoCrossLinks'
  <2>1. \A k \in Owners : ChainOf(dir[k].first) \subseteq Reachable
    BY <1>7, HeadChain DEF IInv, TypeOK
  <2>2. \A k \in Owners : ChainOf(dir[k].first)' \cap ChainOf(Root)' = {}
    BY <1>2, <1>10, <1>11, <2>1 DEF IInv, NoCrossLinks
  <2>. QED  BY <1>7, <1>10, <2>2 DEF IInv, NoCrossLinks
<1>14. ReachableAllocated'
  <2>1. \A x \in Reachable : x \in Cluster /\ fat[x] # FREE
    BY HeadChain DEF IInv, ReachableAllocated, Reachable, TypeOK
  <2>2. \A x \in Reachable' : fat'[x] # FREE
    BY <1>2, <1>4, <1>12, <2>1 DEF FREE
  <2>. QED  BY <2>2 DEF ReachableAllocated, Reachable
<1>15. UniqueNames' /\ NoSlotBehindEnd'
  <2>1. UniqueNames'
    BY <1>5, <1>6 DEF UniqueNames, Used, IInv
  <2>2. NoSlotBehindEnd'
    <3>. SUFFICES ASSUME NEW i \in Used, NEW j \in 1 .. i - 1 PROVE dir'[j].name # END
      BY <1>6 DEF NoSlotBehindEnd
    <3>1. j \in Slots /\ dir[j].name # END
      BY <1>5 DEF Used, NoSlotBehindEnd, IInv, TypeOK, DiskOK
    <3>. QED  BY <1>5, <3>1
  <2>. QED  BY <2>1, <2>2
<1>16. OwnChain'
  <2>1. ASSUME first_c # 0
        PROVE  /\ ChainOf(first_c)' \cap Reachable' = {}
               /\ \A x \in ChainOf(first_c)' : fat'[x] # FREE
    <3>1. /\ first_c \in Cluster /\ ChainOf(first_c) \cap Reachable = {}
          /\ \A x \in ChainOf(first_c) : x \in Cluster /\ fat[x] # FREE
      BY <2>1, ChainBasics DEF LinkExtension, IInv, OwnChain, Building, TypeOK, DiskOK, ChainOf
    <3>2. ChainOf(first_c)' = ChainOf(first_c)
      <4>1. last \notin Chain(Cluster, fat, first_c)
        BY <1>3, <3>1 DEF ChainOf
      <4>2. \A x \in Chain(Cluster, fat, first_c) : fat'[x] = fat[x]
        BY <1>1, <4>1, <3>1 DEF IInv, TypeOK, DiskOK, ChainOf
      <4>3. Chain(Cluster, fat', first_c) = Chain(Cluster, fat, first_c)
        BY <3>1, <4>2, ChainFrame
      <4>. QED  BY <1>2, <4>3 DEF ChainOf
    <3>. QED  BY <1>2, <1>4, <1>12, <2>1, <3>1, <3>2
  <2>. QED  BY <1>2, <2>1 DEF LinkExtension, OwnChain, Building
<1>17. EntryRoom'
  <2>1. /\ req'.name \in Name /\ req'.op # "none"
        /\ \A k \in Used : dir[k].name # req.name
        /\ \A k \in Slots : ~Vacant(k)
    BY <1>2 DEF LinkExtension, IInv, EntryRoom, Building
  <2>2. \A k \in Used' : dir'[k].name # req'.name
    BY <1>2, <1>5, <1>6, <2>1 DEF Used
  <2>3. Len(dir') - SlotsPerCluster = Len(dir) /\ Len(dir') > SlotsPerCluster
    BY <1>5 DEF IInv, TypeOK, DiskOK
  <2>4. \A k \in 1 .. Len(dir) : ~Vacant(k)'
    BY <1>5, <2>1 DEF Vacant
  <2>5. \A k \in Slots' : k > Len(dir) => Vacant(k)'
    BY <1>5 DEF Vacant, EmptySlot
  <2>. QED  BY <2>1, <2>2, <2>3, <2>4, <2>5 DEF LinkExtension, EntryRoom, Building
<1>. QED  BY <1>13, <1>14, <1>15, <1>16, <1>17 DEF Kept

LEMMA MkdirTakesStep ==
  ASSUME IInv, MkdirTakes
  PROVE  Kept'
<1>. USE ConstantFacts
<1>1. PICK x \in Cluster : fat[x] = FREE /\ first_c' = x /\ fat' = [fat EXCEPT ![x] = EOC]
  BY DEF MkdirTakes, FirstFree, FreeClusters
<1>2. x \notin Reachable /\ fat'[x] = EOC
  BY <1>1, FreeUnreachable DEF IInv, TypeOK, DiskOK
<1>3. Reachable' = Reachable /\ NoCrossLinks' /\ ReachableAllocated'
  BY <1>1, <1>2, TableStep DEF MkdirTakes, IInv, TypeOK
<1>4. Chain(Cluster, fat', x) \subseteq {x}
  <2>1. {x} \in SUBSET Cluster /\ \A z \in {x} : fat'[z] \in Cluster => fat'[z] \in {x}
    BY <1>2
  <2>. QED  BY <2>1, ChainLeast
<1>5. OwnChain'
  BY <1>1, <1>2, <1>3, <1>4 DEF MkdirTakes, OwnChain, Building, ChainOf
<1>6. EntryRoom'
  <2>1. \A k \in Used : dir[k].name # req.name
    BY LookupFinds DEF MkdirTakes, IInv, EntryRoom, TypeOK
  <2>. QED  BY <2>1, SameDirectory DEF MkdirTakes, IInv, EntryRoom, Building
<1>. QED  BY <1>3, <1>5, <1>6, SameDirectory DEF MkdirTakes, IInv, Kept

\* The call returns, or power fails, with the disk as it is.
LEMMA ReturnStep ==
  ASSUME IInv, pc' = "idle", fat' = fat, dir' = dir
  PROVE  Kept'
  BY SameDisk, Returned DEF IInv, Kept

LEMMA PowerLossStep ==
  ASSUME IInv, PowerLoss
  PROVE  Kept'
<1>1. fat[Root] # FREE
  <2>1. Root \in Heads
    BY DEF Heads
  <2>. QED  BY <2>1, HeadChain DEF IInv, ReachableAllocated, TypeOK
<1>. QED  BY <1>1, ReturnStep DEF PowerLoss, Sanitized, Return

-----------------------------------------------------------------------------
(************************ the invariant ************************************)
LEMMA IInvStep == IInv /\ [Next]_vars => IInv'
<1>. SUFFICES ASSUME IInv, [Next]_vars PROVE IInv'
  OBVIOUS
<1>0. TypeOK'
  BY TypeStep DEF IInv
<1>. SUFFICES Kept'
  BY <1>0 DEF Kept, IInv
<1>1. ASSUME NEW n \in Name, NEW s \in Payload, WriteFile(n, s)  PROVE Kept'
  BY <1>1, EnterStep DEF WriteFile, Kept
<1>2. ASSUME NEW n \in Name, DeleteFile(n)  PROVE Kept'
  BY <1>2, EnterStep DEF DeleteFile, Kept
<1>3. ASSUME NEW n \in Name, CreateDir(n)  PROVE Kept'
  BY <1>3, EnterStep DEF CreateDir, Kept
<1>4. ASSUME NEW old \in Name, NEW new \in Name, Rename(old, new)  PROVE Kept'
  BY <1>4, RenameStep DEF Kept
<1>5. CASE MarkDeleted
  BY <1>5, MarkDeletedStep
<1>6. CASE NothingToDelete
  BY <1>6, NothingToDeleteStep
<1>7. CASE FreeNext
  BY <1>7, FreeNextStep
<1>8. CASE ChainFreed
  BY <1>8, ChainFreedStep
<1>9. CASE Allocate
  BY <1>9, AllocateStep
<1>10. CASE DiskFull
  BY <1>10, RollBackStep DEF DiskFull, Building
<1>11. CASE Fill
  BY <1>11, QuietStep DEF Fill, locals
<1>12. CASE FillFails
  BY <1>12, RollBackStep DEF FillFails, Building
<1>13. CASE Seal
  BY <1>13, SealStep
<1>14. CASE DataWritten
  BY <1>14, QuietStep DEF DataWritten, locals, disk
<1>15. CASE TakeSlot
  BY <1>15, TakeSlotStep
<1>16. CASE FindRoom
  BY <1>16, FindRoomStep
<1>17. CASE NoRoom
  BY <1>17, RollBackStep DEF NoRoom, Building
<1>18. CASE SealExtension
  BY <1>18, SealExtensionStep
<1>19. CASE LinkExtension
  BY <1>19, LinkExtensionStep
<1>20. CASE FirstEntry
  BY <1>20, FirstEntryStep
<1>21. CASE MkdirRefused
  BY <1>21, ReturnStep DEF MkdirRefused, Return, disk
<1>22. CASE MkdirTakes
  BY <1>22, MkdirTakesStep
<1>23. CASE MkdirDots
  <2>1. CASE pc' = "slot"
    BY <1>23, <2>1, QuietStep DEF MkdirDots, locals, Return
  <2>2. CASE pc' = "idle" /\ UNCHANGED disk
    BY <2>2, ReturnStep DEF disk
  <2>. QED  BY <1>23, <2>1, <2>2 DEF MkdirDots, Return
<1>24. CASE PowerLoss
  BY <1>24, PowerLossStep
<1>25. CASE UNCHANGED vars
  <2>1. UNCHANGED <<fat, dir, pc, req, first_c, prev_c, cur, c>>
    BY <1>25 DEF vars, disk, locals
  <2>2. ChainOf(first_c)' = ChainOf(first_c) /\ ChainOf(c)' = ChainOf(c)
    BY <2>1 DEF ChainOf
  <2>3. OwnChain' /\ EntryRoom'
    BY <2>1, <2>2, SameDisk DEF IInv, OwnChain, EntryRoom
  <2>. QED  BY <2>1, <2>3, SameDisk DEF IInv, Kept
<1>. QED
  BY <1>1, <1>2, <1>3, <1>4, <1>5, <1>6, <1>7, <1>8, <1>9, <1>10, <1>11, <1>12, <1>13,
     <1>14, <1>15, <1>16, <1>17, <1>18, <1>19, <1>20, <1>21, <1>22, <1>23, <1>24, <1>25
  DEF Next, Issue, Step

\* What every program point of a call knows of the chain it builds or frees
\* (IInv) holds in every state the driver reaches.
THEOREM Invariance == Spec => []IInv
<1>. QED  BY IInvInit, IInvStep, PTL DEF Spec

\* No cluster is ever part of two files, or of a file and the directory, on any
\* volume, whatever calls run and fail, wherever power is lost.
THEOREM NoCrossLinksTheorem == Spec => []NoCrossLinks
<1>1. IInv => NoCrossLinks
  BY DEF IInv
<1>. QED  BY <1>1, Invariance, PTL

\* A cluster a file or the directory can reach is never free, so that
\* fat32_find_free_cluster never hands it out.
THEOREM ReachableAllocatedTheorem == Spec => []ReachableAllocated
<1>1. IInv => ReachableAllocated
  BY DEF IInv
<1>. QED  BY <1>1, Invariance, PTL

\* One name, one entry: what a lookup finds does not depend on the slot the
\* driver happened to choose.
THEOREM DirectoryTheorem == Spec => []UniqueNames
<1>1. IInv => UniqueNames
  BY DEF IInv
<1>. QED  BY <1>1, Invariance, PTL

\* No entry behind the end mark, where fat32_find_entry would never look: the
\* end mark is only ever pushed back by a cluster of empty slots.
THEOREM NothingBehindEnd == Spec => []NoSlotBehindEnd
<1>1. IInv => NoSlotBehindEnd
  BY DEF IInv
<1>. QED  BY <1>1, Invariance, PTL

-----------------------------------------------------------------------------
(************************ no orphans ***************************************)
(* Power loss and fat32_create_dir lose clusters; the calls on files do    *)
(* not.  IInv says which clusters are reachable and that they are          *)
(* allocated; here is the other half: an allocated cluster is reachable or *)
(* part of the one chain the call has in hand.                             *)
(***************************************************************************)
FileCallsOnly == ~PowerFails /\ "mkdir" \notin Calls

\* Clusters that are a file's, the directory's or the call's.
Claimed(x) == \/ x \in Reachable
              \/ pc \in Building /\ first_c # 0 /\ x \in ChainOf(first_c)
              \/ pc = "link" /\ x = cur
              \/ pc \in {"free", "rollback"} /\ c \in Cluster /\ x \in ChainOf(c)

AllClaimed == \A x \in Cluster : fat[x] # FREE => Claimed(x)

\* The chain being built hangs together: its last cluster is its end.
BuiltChain ==
  /\ pc = "alloc" => (first_c = 0 <=> prev_c = 0)
  /\ pc = "alloc" /\ prev_c # 0 => prev_c \in ChainOf(first_c) /\ fat[prev_c] = EOC
  /\ pc \in {"fill", "seal"} => cur \in ChainOf(first_c)

NoMkdir == req.op # "mkdir" /\ pc \notin {"mkdir", "dots"}

OInv == IInv /\ FileCallsOnly /\ NoMkdir /\ BuiltChain /\ AllClaimed

LEMMA OInvInit == Init /\ FileCallsOnly => OInv
<1>. SUFFICES ASSUME Init, FileCallsOnly PROVE OInv
  OBVIOUS
<1>1. NoMkdir /\ BuiltChain
  BY DEF Init, NoMkdir, BuiltChain, NoRequest
<1>2. Root \in Reachable
  BY IInvInit, HeadChain DEF IInv, Heads, TypeOK
<1>3. AllClaimed
  BY <1>2 DEF Init, AllClaimed, Claimed
<1>. QED  BY <1>1, <1>3, IInvInit DEF OInv

LEMMA NoMkdirStep == OInv /\ [Next]_vars => NoMkdir' /\ ~PowerLoss
<1>. SUFFICES ASSUME OInv, [Next]_vars PROVE NoMkdir'
  BY DEF OInv, FileCallsOnly, PowerLoss
<1>1. CASE Issue
  <2>1. ASSUME NEW n \in Name, NEW s \in Payload, WriteFile(n, s) PROVE NoMkdir'
    BY <2>1 DEF WriteFile, Enter, NoMkdir
  <2>2. ASSUME NEW n \in Name, DeleteFile(n) PROVE NoMkdir'
    BY <2>2 DEF DeleteFile, Enter, NoMkdir
  <2>3. ASSUME NEW n \in Name, CreateDir(n) PROVE NoMkdir'
    BY <2>3 DEF CreateDir, Enter, OInv, FileCallsOnly
  <2>4. ASSUME NEW old \in Name, NEW new \in Name, Rename(old, new) PROVE NoMkdir'
    BY <2>4 DEF Rename, locals, NoMkdir, OInv
  <2>. QED  BY <1>1, <2>1, <2>2, <2>3, <2>4 DEF Issue
<1>2. CASE Step
  BY <1>2 DEF Step, MarkDeleted, NothingToDelete, FreeNext, ChainFreed, Allocate, DiskFull,
     Fill, FillFails, Seal, DataWritten, TakeSlot, FindRoom, NoRoom, SealExtension,
     LinkExtension, FirstEntry, MkdirRefused, MkdirTakes, MkdirDots, RollBack, Return,
     NoRequest, locals, OInv, NoMkdir
<1>3. CASE PowerLoss
  BY <1>3 DEF PowerLoss, OInv, FileCallsOnly
<1>4. CASE UNCHANGED vars
  BY <1>4 DEF vars, locals, OInv, NoMkdir
<1>. QED  BY <1>1, <1>2, <1>3, <1>4 DEF Next

Accounted == BuiltChain /\ AllClaimed

\* With the disk as it is, who claims a cluster depends on the call only.
LEMMA SameClaims ==
  ASSUME OInv, fat' = fat, Reachable \subseteq Reachable', BuiltChain',
         pc \in Building /\ first_c # 0 =>
           \/ pc' \in Building /\ first_c' = first_c
           \/ pc' = "rollback" /\ c' = first_c
           \/ ChainOf(first_c) \subseteq Reachable',
         pc # "link" \/ cur \in Reachable',
         pc \in {"free", "rollback"} /\ c \in Cluster => pc' = pc /\ c' = c
  PROVE  Accounted'
<1>1. \A h : ChainOf(h)' = ChainOf(h)
  BY DEF ChainOf
<1>2. first_c \in Cluster \cup {0}
  BY DEF OInv, IInv, TypeOK, DiskOK
<1>. SUFFICES ASSUME NEW x \in Cluster, Claimed(x) PROVE Claimed(x)'
  BY DEF Accounted, AllClaimed, OInv
<1>. QED  BY <1>1, <1>2 DEF Claimed

LEMMA MarkDeletedClaims == ASSUME OInv, MarkDeleted PROVE Accounted'
<1>1. PICK k \in Slots : /\ Lookup(req.name, k) /\ dir' = [dir EXCEPT ![k] = DeletedSlot]
                         /\ c' = dir[k].first
  BY DEF MarkDeleted
<1>2. dir[k].name \in Name /\ fat' = fat /\ pc' = "free" /\ pc = "scan"
  BY <1>1 DEF Lookup, MarkDeleted, OInv, IInv, EntryRoom
<1>3. Used' = Used \ {k} /\ \A j \in Used' : dir'[j] = dir[j]
  BY <1>1, <1>2, RemoveStep DEF OInv, IInv
<1>4. \A j \in Owners : j # k => j \in Owners' /\ dir'[j] = dir[j]
  BY <1>3 DEF Owners
<1>5. \A h \in Heads : h = c' \/ h \in Heads'
  BY <1>1, <1>4 DEF Heads
<1>6. \A h : ChainOf(h)' = ChainOf(h)
  BY <1>2 DEF ChainOf
<1>7. \A x \in Reachable : x \in Reachable' \/ x \in ChainOf(c')
  BY <1>5, <1>6 DEF Reachable
<1>8. \A h \in Heads : h \in Cluster
  BY HeadType DEF OInv, IInv, TypeOK
<1>9. \A x \in Reachable : x \in Reachable' \/ (c' \in Cluster /\ x \in ChainOf(c'))
  BY <1>5, <1>6, <1>8 DEF Reachable
<1>10. \A x \in Cluster : Claimed(x) => Claimed(x)'
  BY <1>2, <1>6, <1>9 DEF Claimed, Building
<1>. QED  BY <1>2, <1>10 DEF Accounted, BuiltChain, AllClaimed, OInv

LEMMA FreeNextClaims == ASSUME OInv, FreeNext PROVE Accounted'
<1>. USE ConstantFacts
<1>1. /\ c \in Cluster /\ fat' = [fat EXCEPT ![c] = FREE] /\ pc' = pc /\ dir' = dir
      /\ pc \in {"free", "rollback"} /\ c' = IF fat[c] = c THEN 0 ELSE fat[c]
      /\ fat \in [Cluster -> Cluster \cup {FREE, EOC}]
  BY DEF FreeNext, OInv, IInv, TypeOK, DiskOK
<1>2. c \notin Reachable
  <2>1. c \in ChainOf(c)
    BY <1>1, ChainBasics DEF ChainOf
  <2>. QED  BY <1>1, <2>1 DEF OInv, IInv, OwnChain
<1>3. Reachable' = Reachable
  BY <1>1, <1>2, TableStep DEF OInv, IInv, TypeOK
<1>4. \A x \in ChainOf(c) : x # c => c' \in Cluster /\ x \in ChainOf(c)'
  <2>1. \A x \in Chain(Cluster, fat, c) : x # c =>
          fat[c] \in Cluster /\ fat[c] # c /\ x \in Chain(Cluster, fat', fat[c])
    BY <1>1, ChainBehead
  <2>. QED  BY <1>1, <2>1 DEF ChainOf
<1>. SUFFICES ASSUME NEW x \in Cluster, fat'[x] # FREE PROVE Claimed(x)'
  BY <1>1 DEF Accounted, BuiltChain, AllClaimed
<1>5. x # c /\ fat[x] # FREE
  BY <1>1
<1>6. x \in Reachable \/ x \in ChainOf(c)
  BY <1>1, <1>5 DEF OInv, AllClaimed, Claimed, Building
<1>. QED  BY <1>1, <1>3, <1>4, <1>5, <1>6 DEF Claimed

LEMMA AllocateClaims == ASSUME OInv, Allocate PROVE Accounted'
<1>. USE ConstantFacts
<1>1. PICK x \in Cluster :
         /\ fat[x] = FREE /\ cur' = x
         /\ first_c' = IF first_c = 0 THEN x ELSE first_c
         /\ fat' = IF prev_c = 0 THEN fat ELSE [fat EXCEPT ![prev_c] = x]
  BY DEF Allocate, FirstFree, FreeClusters
<1>2. /\ pc = "alloc" /\ pc' = "fill" /\ dir' = dir
      /\ fat \in [Cluster -> Cluster \cup {FREE, EOC}]
      /\ first_c \in Cluster \cup {0} /\ prev_c \in Cluster \cup {0}
  BY DEF Allocate, OInv, IInv, TypeOK, DiskOK
<1>3. CASE first_c = 0
  <2>1. prev_c = 0 /\ fat' = fat /\ first_c' = x
    BY <1>1, <1>2, <1>3 DEF OInv, BuiltChain
  <2>2. x \in ChainOf(first_c)'
    BY <1>1, <2>1, ChainBasics DEF ChainOf
  <2>3. Reachable' = Reachable
    BY <1>2, <2>1, SameDisk
  <2>4. BuiltChain'
    BY <1>1, <1>2, <2>2 DEF BuiltChain
  <2>. QED  BY <1>2, <1>3, <2>1, <2>3, <2>4, SameClaims DEF OInv
<1>4. CASE first_c # 0
  <2>1. /\ prev_c \in Cluster /\ fat[prev_c] = EOC /\ prev_c \in ChainOf(first_c)
        /\ first_c' = first_c /\ first_c \in Cluster /\ fat' = [fat EXCEPT ![prev_c] = x]
    BY <1>1, <1>2, <1>4 DEF OInv, BuiltChain
  <2>2. prev_c \notin Reachable
    BY <1>2, <2>1 DEF OInv, IInv, OwnChain
  <2>3. Reachable' = Reachable
    BY <1>2, <2>1, <2>2, TableStep DEF OInv, IInv, TypeOK
  <2>4. ChainOf(first_c) \subseteq ChainOf(first_c)'
    BY <1>2, <2>1, ChainGrow DEF ChainOf
  <2>5. fat'[prev_c] = x
    BY <1>2, <2>1
  <2>6. x \in ChainOf(first_c)'
    <3>1. \A z \in Chain(Cluster, fat', first_c) : fat'[z] \in Cluster =>
             fat'[z] \in Chain(Cluster, fat', first_c)
      BY <2>1, ChainBasics
    <3>. QED  BY <2>1, <2>4, <2>5, <3>1 DEF ChainOf
  <2>7. BuiltChain'
    BY <1>1, <1>2, <2>6 DEF BuiltChain
  <2>8. \A z \in Cluster : fat'[z] # FREE => fat[z] # FREE
    BY <1>2, <2>1
  <2>9. \A z \in Cluster : Claimed(z) => Claimed(z)'
    BY <1>2, <2>1, <2>3, <2>4 DEF Claimed, Building
  <2>. QED  BY <2>7, <2>8, <2>9 DEF Accounted, AllClaimed, OInv
<1>. QED  BY <1>3, <1>4

LEMMA SealClaims == ASSUME OInv, Seal PROVE Accounted'
<1>. USE ConstantFacts
<1>1. /\ pc = "seal" /\ pc' = "alloc" /\ dir' = dir /\ prev_c' = cur /\ first_c' = first_c
      /\ fat \in [Cluster -> Cluster \cup {FREE, EOC}] /\ fat' = [fat EXCEPT ![cur] = EOC]
      /\ cur \in Cluster /\ fat[cur] = FREE /\ first_c \in Cluster /\ cur \in ChainOf(first_c)
  BY DEF Seal, OInv, IInv, TypeOK, DiskOK, OwnChain, BuiltChain
<1>2. cur \notin Reachable
  BY <1>1, FreeUnreachable DEF OInv, IInv
<1>3. Reachable' = Reachable
  BY <1>1, <1>2, TableStep DEF OInv, IInv, TypeOK
<1>4. ChainOf(first_c) \subseteq ChainOf(first_c)'
  BY <1>1, ChainGrow DEF ChainOf, FREE
<1>5. fat'[cur] = EOC
  BY <1>1
<1>6. BuiltChain'
  BY <1>1, <1>4, <1>5 DEF BuiltChain
<1>7. \A z \in Cluster : fat'[z] # FREE => fat[z] # FREE \/ z = cur
  BY <1>1
<1>8. \A z \in Cluster : Claimed(z) \/ z = cur => Claimed(z)'
  BY <1>1, <1>3, <1>4 DEF Claimed, Building
<1>. QED  BY <1>6, <1>7, <1>8 DEF Accounted, AllClaimed, OInv

LEMMA SealExtensionClaims == ASSUME OInv, SealExtension PROVE Accounted'
<1>. USE ConstantFacts
<1>1. /\ pc = "extend" /\ pc' = "link" /\ dir' = dir /\ first_c' = first_c /\ cur' = cur
      /\ fat \in [Cluster -> Cluster \cup {FREE, EOC}] /\ fat' = [fat EXCEPT ![cur] = EOC]
      /\ cur \in Cluster /\ fat[cur] = FREE /\ first_c \in Cluster \cup {0}
  BY DEF SealExtension, OInv, IInv, TypeOK, DiskOK, OwnChain, locals
<1>2. cur \notin Reachable
  BY <1>1, FreeUnreachable DEF OInv, IInv
<1>3. Reachable' = Reachable
  BY <1>1, <1>2, TableStep DEF OInv, IInv, TypeOK
<1>4. first_c # 0 => ChainOf(first_c) \subseteq ChainOf(first_c)'
  BY <1>1, ChainGrow DEF ChainOf, FREE
<1>5. \A z \in Cluster : fat'[z] # FREE => fat[z] # FREE \/ z = cur
  BY <1>1
<1>6. \A z \in Cluster : Claimed(z) \/ z = cur => Claimed(z)'
  BY <1>1, <1>3, <1>4 DEF Claimed, Building
<1>. QED  BY <1>1, <1>5, <1>6 DEF Accounted, AllClaimed, OInv, BuiltChain

LEMMA LinkExtensionClaims == ASSUME OInv, LinkExtension PROVE Accounted'
<1>. USE ConstantFacts
<1>1. PICK last \in ChainOf(Root) : fat[last] = EOC /\ fat' = [fat EXCEPT ![last] = cur]
  BY DEF LinkExtension, ChainOf
<1>2. /\ pc = "link" /\ pc' = "entry" /\ first_c' = first_c /\ cur' = cur /\ cur \in Cluster
      /\ fat \in [Cluster -> Cluster \cup {FREE, EOC}] /\ first_c \in Cluster \cup {0}
      /\ Root \in Heads /\ last \in Cluster
  <2>1. Root \in Heads
    BY DEF Heads
  <2>. QED  BY <1>1, <2>1, HeadChain DEF LinkExtension, OInv, IInv, TypeOK, DiskOK, OwnChain, locals
<1>3. \A h \in Cluster : ChainOf(h) \subseteq ChainOf(h)'
  <2>. SUFFICES ASSUME NEW h \in Cluster
                PROVE  Chain(Cluster, fat, h) \subseteq Chain(Cluster, fat', h)
    BY DEF ChainOf
  <2>. QED  BY <1>1, <1>2, ChainGrow
<1>4. /\ Slots \subseteq Slots' /\ \A k \in Slots : dir'[k] = dir[k]
  BY DEF LinkExtension, OInv, IInv, TypeOK, DiskOK, Slots
<1>5. Heads \subseteq Heads' /\ Heads \subseteq Cluster
  <2>1. \A k \in Owners : k \in Owners' /\ dir'[k] = dir[k]
    BY <1>4 DEF Owners, Used
  <2>2. \A k \in Owners : dir[k].first \in {dir'[j].first : j \in Owners'}
    BY <2>1
  <2>. QED  BY <2>2, HeadType DEF Heads, OInv, IInv, TypeOK
<1>6. Reachable \subseteq Reachable'
  <2>. SUFFICES ASSUME NEW h \in Heads PROVE ChainOf(h) \subseteq Reachable'
    BY DEF Reachable
  <2>. QED  BY <1>3, <1>5 DEF Reachable
<1>7. cur \in Reachable'
  <2>1. fat'[last] = cur
    BY <1>1, <1>2
  <2>2. last \in Chain(Cluster, fat', Root)
    BY <1>1, <1>3 DEF ChainOf
  <2>3. cur \in Chain(Cluster, fat', Root)
    BY <1>2, <2>1, <2>2, ChainBasics
  <2>. QED  BY <1>2, <1>5, <2>3 DEF Reachable, ChainOf
<1>8. first_c # 0 => ChainOf(first_c) \subseteq ChainOf(first_c)'
  BY <1>2, <1>3 DEF ChainOf
<1>9. \A z \in Cluster : fat'[z] # FREE => fat[z] # FREE \/ z = last
  BY <1>1, <1>2
<1>10. last \in Reachable
  BY <1>2, HeadChain DEF OInv, IInv, Reachable, TypeOK
<1>11. \A z \in Cluster : Claimed(z) \/ z = last => Claimed(z)'
  BY <1>2, <1>6, <1>7, <1>8, <1>10 DEF Claimed, Building
<1>. QED  BY <1>2, <1>9, <1>11 DEF Accounted, AllClaimed, OInv, BuiltChain

\* The call's entry takes a vacant slot: what it built is the file's.
LEMMA EntryClaims ==
  ASSUME OInv, pc \in {"slot", "entry"}, NEW k \in Slots, Vacant(k),
         fat' = fat, dir' = [dir EXCEPT ![k] = NewEntry], pc' = "idle"
  PROVE  Accounted'
<1>1. Slots' = Slots /\ dir'[k] = NewEntry /\ \A j \in Slots : j # k => dir'[j] = dir[j]
  BY DEF OInv, IInv, TypeOK, DiskOK, Slots
<1>2. k \notin Used /\ NewEntry.name \in Name /\ NewEntry.first = first_c
  BY VacantUnused, NewEntryFields DEF OInv, IInv, EntryRoom
<1>3. \A j \in Owners : j \in Owners' /\ dir'[j] = dir[j]
  BY <1>1, <1>2 DEF Owners, Used
<1>4. first_c # 0 => k \in Owners'
  BY <1>1, <1>2 DEF Owners, Used
<1>5. Heads \subseteq Heads' /\ (first_c # 0 => first_c \in Heads')
  <2>1. \A j \in Owners : dir[j].first \in {dir'[i].first : i \in Owners'}
    BY <1>3
  <2>2. first_c # 0 => first_c \in {dir'[i].first : i \in Owners'}
    BY <1>1, <1>2, <1>4
  <2>. QED  BY <2>1, <2>2 DEF Heads
<1>6. \A h : ChainOf(h)' = ChainOf(h)
  BY DEF ChainOf
<1>7. Reachable \subseteq Reachable' /\ (first_c # 0 => ChainOf(first_c) \subseteq Reachable')
  BY <1>5, <1>6 DEF Reachable
<1>8. BuiltChain'
  BY DEF BuiltChain
<1>. QED  BY <1>7, <1>8, SameClaims

LEMMA RollBackClaims ==
  ASSUME OInv, NEW st, pc \in Building \ {"link"}, RollBack(st), UNCHANGED disk
  PROVE  Accounted'
<1>1. fat' = fat /\ dir' = dir
  BY DEF disk
<1>2. BuiltChain'
  BY DEF RollBack, BuiltChain
<1>. QED  BY <1>1, <1>2, SameDisk, SameClaims DEF RollBack, Building

\* The call returns with nothing in hand.
LEMMA ReturnClaims ==
  ASSUME OInv, pc' = "idle", fat' = fat, dir' = dir,
         pc \in Building => first_c = 0, pc # "link",
         pc \in {"free", "rollback"} => c \notin Cluster
  PROVE  Accounted'
<1>1. BuiltChain'
  BY DEF BuiltChain
<1>. QED  BY <1>1, SameDisk, SameClaims

LEMMA RenameClaims ==
  ASSUME OInv, NEW old \in Name, NEW new \in Name, Rename(old, new)
  PROVE  Accounted'
<1>1. pc = "idle" /\ pc' = "idle" /\ fat' = fat
  BY DEF Rename
<1>2. CASE dir' = dir
  BY <1>1, <1>2, ReturnClaims DEF Building
<1>3. ASSUME NEW k \in Slots, Lookup(old, k), dir' = [dir EXCEPT ![k].name = new]
      PROVE  Accounted'
  <2>1. dir[k] \in Slot /\ k \in Used
    BY <1>3 DEF Lookup, Used, OInv, IInv, TypeOK, DiskOK, Slots
  <2>2. /\ dir'[k] = [dir[k] EXCEPT !.name = new]
        /\ Slots' = Slots /\ \A j \in Slots : j # k => dir'[j] = dir[j]
    BY <1>3 DEF OInv, IInv, TypeOK, DiskOK, Slots
  <2>3. dir'[k].name = new /\ dir'[k].first = dir[k].first
    BY <2>1, <2>2 DEF Slot
  <2>4. \A j \in Owners : j \in Owners' /\ dir'[j].first = dir[j].first
    BY <2>1, <2>2, <2>3 DEF Used, Owners
  <2>5. Heads \subseteq Heads'
    <3>1. \A j \in Owners : dir[j].first \in {dir'[i].first : i \in Owners'}
      BY <2>4
    <3>. QED  BY <3>1 DEF Heads
  <2>6. Reachable \subseteq Reachable'
    <3>1. \A h : ChainOf(h)' = ChainOf(h)
      BY <1>1 DEF ChainOf
    <3>. QED  BY <2>5, <3>1 DEF Reachable
  <2>. QED  BY <1>1, <2>6, SameClaims DEF BuiltChain, Building
<1>. QED  BY <1>2, <1>3 DEF Rename

LEMMA CallClaims == ASSUME OInv, Step PROVE Accounted'
<1>1. CASE MarkDeleted
  BY <1>1, MarkDeletedClaims
<1>2. CASE NothingToDelete
  <2>1. fat' = fat /\ dir' = dir /\ pc = "scan" /\ first_c = 0 /\ prev_c = 0
    BY <1>2 DEF NothingToDelete, disk, OInv, IInv, OwnChain
  <2>2. CASE pc' = "idle"
    BY <2>1, <2>2, ReturnClaims DEF Building
  <2>3. CASE pc' = "alloc" /\ UNCHANGED locals
    <3>1. BuiltChain'
      BY <2>1, <2>3 DEF BuiltChain, locals
    <3>. QED  BY <2>1, <3>1, SameDisk, SameClaims DEF Building
  <2>. QED  BY <1>2, <2>2, <2>3 DEF NothingToDelete, Return
<1>3. CASE FreeNext
  BY <1>3, FreeNextClaims
<1>4. CASE ChainFreed
  <2>1. fat' = fat /\ dir' = dir /\ pc \in {"free", "rollback"} /\ c \notin Cluster
    BY <1>4 DEF ChainFreed, disk
  <2>2. CASE pc' = "idle"
    BY <2>1, <2>2, ReturnClaims DEF Building
  <2>3. CASE pc = "free" /\ pc' = "alloc" /\ UNCHANGED <<first_c, prev_c>>
    <3>1. BuiltChain'
      BY <2>3 DEF BuiltChain, OInv, IInv, OwnChain
    <3>. QED  BY <2>1, <2>3, <3>1, SameDisk, SameClaims DEF Building
  <2>. QED  BY <1>4, <2>2, <2>3 DEF ChainFreed, Return
<1>5. CASE Allocate
  BY <1>5, AllocateClaims
<1>6. CASE DiskFull
  BY <1>6, RollBackClaims DEF DiskFull, Building
<1>7. CASE Fill \/ DataWritten
  <2>1. /\ fat' = fat /\ dir' = dir /\ first_c' = first_c /\ cur' = cur
        /\ pc \in {"fill", "alloc"} /\ pc' \in {"seal", "slot"}
        /\ pc' = "seal" => pc = "fill"
    BY <1>7 DEF Fill, DataWritten, disk, locals
  <2>2. BuiltChain'
    BY <2>1 DEF OInv, BuiltChain, ChainOf
  <2>. QED  BY <2>1, <2>2, SameDisk, SameClaims DEF Building
<1>8. CASE FillFails
  BY <1>8, RollBackClaims DEF FillFails, Building
<1>9. CASE Seal
  BY <1>9, SealClaims
<1>10. CASE TakeSlot
  <2>1. PICK k \in Slots : FirstVacant(k) /\ dir' = [dir EXCEPT ![k] = NewEntry]
    BY <1>10 DEF TakeSlot
  <2>2. Vacant(k)
    BY <2>1 DEF FirstVacant
  <2>. QED  BY <1>10, <2>1, <2>2, EntryClaims DEF TakeSlot, Return
<1>11. CASE FindRoom
  <2>1. /\ fat' = fat /\ dir' = dir /\ first_c' = first_c /\ pc = "slot" /\ pc' = "extend"
    BY <1>11 DEF FindRoom, OInv, NoMkdir
  <2>. QED  BY <2>1, SameDisk, SameClaims DEF Building, BuiltChain
<1>12. CASE NoRoom
  BY <1>12, RollBackClaims DEF NoRoom, Building
<1>13. CASE SealExtension
  BY <1>13, SealExtensionClaims
<1>14. CASE LinkExtension
  BY <1>14, LinkExtensionClaims
<1>15. CASE FirstEntry
  <2> DEFINE k == Len(dir) - SlotsPerCluster + 1
  <2>1. k \in Slots /\ Vacant(k)
    BY <1>15, ConstantFacts DEF FirstEntry, OInv, IInv, EntryRoom, TypeOK, DiskOK, Slots
  <2>2. dir' = [dir EXCEPT ![k] = NewEntry] /\ fat' = fat /\ pc' = "idle" /\ pc = "entry"
    BY <1>15 DEF FirstEntry, Return
  <2> HIDE DEF k
  <2>. QED  BY <2>1, <2>2, EntryClaims
<1>16. CASE MkdirRefused \/ MkdirTakes \/ MkdirDots
  BY <1>16 DEF MkdirRefused, MkdirTakes, MkdirDots, OInv, NoMkdir
<1>. QED
  BY <1>1, <1>2, <1>3, <1>4, <1>5, <1>6, <1>7, <1>8, <1>9, <1>10, <1>11, <1>12, <1>13,
     <1>14, <1>15, <1>16
  DEF Step

LEMMA OInvStep == OInv /\ [Next]_vars => OInv'
<1>. SUFFICES ASSUME OInv, [Next]_vars PROVE OInv'
  OBVIOUS
<1>1. IInv' /\ FileCallsOnly' /\ NoMkdir' /\ ~PowerLoss
  BY IInvStep, NoMkdirStep DEF OInv, FileCallsOnly
<1>. SUFFICES Accounted'
  BY <1>1 DEF OInv, Accounted
<1>2. ASSUME NEW op, NEW n, NEW s, NEW at \in {"scan", "mkdir"}, Enter(op, n, s, at)
      PROVE  Accounted'
  <2>1. BuiltChain'
    BY <1>2 DEF Enter, BuiltChain
  <2>. QED  BY <1>2, <2>1, SameDisk, SameClaims DEF Enter, disk, Building
<1>3. CASE Issue
  BY <1>2, <1>3, RenameClaims DEF Issue, WriteFile, DeleteFile, CreateDir
<1>4. CASE Step
  BY <1>4, CallClaims
<1>5. CASE UNCHANGED vars
  <2>1. UNCHANGED <<fat, dir, pc, first_c, prev_c, cur, c>>
    BY <1>5 DEF vars, disk, locals
  <2>2. \A h : ChainOf(h)' = ChainOf(h)
    BY <2>1 DEF ChainOf
  <2>3. BuiltChain'
    BY <2>1, <2>2 DEF OInv, BuiltChain
  <2>4. \A x : Claimed(x) => Claimed(x)'
    BY <2>1, <2>2, SameDisk DEF Claimed
  <2>. QED  BY <2>1, <2>3, <2>4 DEF Accounted, OInv, AllClaimed
<1>. QED  BY <1>1, <1>3, <1>4, <1>5 DEF Next

\* "zero orfaos": as long as power does not fail and no folder is made, a call
\* that fails at any step, for want of memory, of space or of the disk, has
\* given back every cluster it took, and one that succeeds has lost none.
THEOREM NoOrphansTheorem == FileCallsOnly /\ Spec => []NoOrphans
<1>1. OInv => NoOrphans
  BY DEF OInv, AllClaimed, Claimed, NoOrphans, Building, Reachable
<1>. QED  BY <1>1, OInvInit, OInvStep, PTL DEF Spec

-----------------------------------------------------------------------------
(***************************************************************************)
(* The driver implements FileStore.  IInv says where chains are; here is   *)
(* what they hold: the contents of a file are the payload it was written   *)
(* with, and the chain in hand holds as much of the request as is gone     *)
(* from rest.                                                              *)
(***************************************************************************)

\* What a reader gets of n units from h, by table f and cluster contents d.
Contents(f, d, h, n) ==
  [i \in 1 .. n |->
     LET x == Walk(Cluster, EOC, f, h, (i - 1) \div UnitsPerCluster)
     IN IF x \in Cluster THEN d[x][(i - 1) % UnitsPerCluster] ELSE "unread"]

Value(k) == IF dir[k].folder THEN Folder ELSE Contents(fat, data, dir[k].first, dir[k].size)

\* What every entry shows is Folder or a payload.
Stored == \A k \in Used : ~dir[k].folder => Value(k) \in Payload

\* Which call is where.
Ops ==
  /\ pc # "idle" => req.op \in {"write", "delete", "mkdir"}
  /\ pc # "idle" /\ req.op = "write" => req.arg \in Payload
  /\ pc \in {"scan", "free"} => /\ req.op \in {"write", "delete"}
                                /\ req.op = "write" => rest = req.arg
  /\ pc \in {"alloc", "fill", "seal", "extend", "link", "entry", "rollback"} => req.op = "write"
  /\ pc \in {"mkdir", "dots"} => req.op = "mkdir"
  /\ pc = "slot" => req.op \in {"write", "mkdir"}
  /\ pc = "rollback" => /\ status \in {"DISK_FULL", "ERROR_WRITE"}
                        /\ \A k \in Used : dir[k].name # req.name

\* m clusters are full: what is left is the rest, the walk meets them one after
\* the other, and they hold what the request has there.
At(j) == Walk(Cluster, EOC, fat, first_c, j)
LaidOut(m) ==
  LET U == UnitsPerCluster
      n == Len(req.arg)
  IN /\ Len(rest) = IF m * U < n THEN n - m * U ELSE 0
     /\ \A i \in 1 .. Len(rest) : rest[i] = req.arg[m * U + i]
     /\ \A j \in Nat : j < m =>
          /\ At(j) \in Cluster
          /\ \A r \in 0 .. U - 1 : j * U + r < n => data[At(j)][r] = req.arg[j * U + r + 1]
     /\ pc = "alloc" => IF m = 0 THEN first_c = 0 /\ prev_c = 0
                        ELSE prev_c = At(m - 1) /\ fat[prev_c] = EOC
     /\ pc \in {"fill", "seal"} => At(m) = cur
     /\ pc = "seal" => data[cur] = Filled(rest)

Laid == pc \in {"alloc", "fill", "seal"} => \E m \in Nat : LaidOut(m)

\* The data is out, the entry is not.
Built == pc \in {"slot", "extend", "link", "entry"} /\ req.op = "write" =>
           Contents(fat, data, first_c, Len(req.arg)) = req.arg

RInv == IInv /\ Stored /\ Ops /\ Laid /\ Built

-----------------------------------------------------------------------------
\* A reader who meets the same chain with the same contents reads the same.
LEMMA SameContents ==
  ASSUME NEW f, NEW g, NEW d, NEW b, NEW h, NEW n \in Nat,
         h \in Cluster => \A x \in Chain(Cluster, f, h) : g[x] = f[x] /\ b[x] = d[x]
  PROVE  Contents(g, b, h, n) = Contents(f, d, h, n)
<1> DEFINE W(q) == Walk(Cluster, EOC, f, h, q)
           V(q) == Walk(Cluster, EOC, g, h, q)
<1>1. \A q \in Nat : V(q) = W(q) /\ (W(q) \in Cluster => b[W(q)] = d[W(q)])
  <2>. SUFFICES ASSUME NEW q \in Nat PROVE V(q) = W(q) /\ (W(q) \in Cluster => b[W(q)] = d[W(q)])
    OBVIOUS
  <2>1. V(q) = W(q)
    BY ConstantFacts, WalkSameChain
  <2>2. W(q) \in Cluster => h \in Cluster
    BY ConstantFacts, WalkNowhere
  <2>3. W(q) \in Cluster => W(q) \in Chain(Cluster, f, h)
    BY <2>2, ConstantFacts, WalkInChain
  <2>. QED  BY <2>1, <2>2, <2>3
<1>2. ASSUME NEW i \in 1 .. n PROVE (i - 1) \div UnitsPerCluster \in Nat
  BY ConstantFacts, Quotient
<1>. HIDE DEF W, V
<1>3. ASSUME NEW i \in 1 .. n
      PROVE  LET q == (i - 1) \div UnitsPerCluster
             IN (IF V(q) \in Cluster THEN b[V(q)][(i - 1) % UnitsPerCluster] ELSE "unread")
                  = (IF W(q) \in Cluster THEN d[W(q)][(i - 1) % UnitsPerCluster] ELSE "unread")
  BY <1>1, <1>2
<1>. QED  BY <1>3 DEF Contents, V, W

LEMMA ReadBackIs == \A k : ReadBack(k) = Contents(fat, data, dir[k].first, dir[k].size)
  BY DEF ReadBack, Contents, Nth

\* What a lookup by name gives.
ViewSound ==
  /\ View = [n \in Name |-> View[n]]
  /\ \A n \in Name : (\A k \in Used : dir[k].name # n) => View[n] = Absent
  /\ \A k \in Used : View[dir[k].name] = Value(k)

\* It takes a directory where a name leads to one slot.
Legible == DiskOK /\ UniqueNames /\ NoSlotBehindEnd

LEMMA LegibleView == Legible => ViewSound
<1>. SUFFICES ASSUME Legible PROVE ViewSound
  OBVIOUS
<1>1. \A n \in Name : (\A k \in Used : dir[k].name # n) => ~Exists(n)
  BY DEF Exists, Lookup, Used
<1>2. ASSUME NEW k \in Used PROVE View[dir[k].name] = Value(k)
  <2> DEFINE n == dir[k].name
             j == CHOOSE x \in Slots : Lookup(n, x)
  <2>1. n \in Name /\ Exists(n)
    BY LookupFinds DEF Legible, Used
  <2>2. j \in Slots /\ Lookup(n, j)
    BY <2>1 DEF Exists
  <2>3. j \in Used
    BY <2>1, <2>2 DEF Lookup, Used
  <2>4. j = k
    BY <2>2, <2>3 DEF Lookup, Legible, UniqueNames
  <2>5. View[n] = IF dir[j].folder THEN Folder ELSE ReadBack(j)
    BY <2>1 DEF View
  <2>. HIDE DEF j
  <2>. QED  BY <2>4, <2>5, ReadBackIs DEF Value
<1>3. View = [n \in Name |-> View[n]]
  BY DEF View
<1>4. \A n \in Name : ~Exists(n) => View[n] = Absent
  BY DEF View
<1>. QED  BY <1>1, <1>2, <1>3, <1>4 DEF ViewSound

LEMMA ViewIs == IInv => ViewSound
  BY LegibleView DEF Legible, IInv, TypeOK

LEMMA ViewIsNext == IInv' => ViewSound'
  BY ViewIs, PTL
-----------------------------------------------------------------------------
(************************ files no step touches ****************************)
KeepsFiles == \A k \in Owners : \A x \in ChainOf(dir[k].first) : fat'[x] = fat[x] /\ data'[x] = data[x]

LEMMA OwnedFacts ==
  ASSUME IInv, NEW k \in Owners, NEW x \in ChainOf(dir[k].first)
  PROVE  x \in Cluster /\ x \in Reachable /\ x \notin ChainOf(Root)
<1>1. dir[k].first \in Heads
  BY DEF Heads
<1>2. x \in Cluster /\ x \in Reachable
  BY <1>1, HeadChain DEF IInv, TypeOK
<1>3. x \notin ChainOf(Root)
  BY DEF IInv, NoCrossLinks
<1>. QED  BY <1>2, <1>3

LEMMA WriteKeeps ==
  ASSUME IInv, NEW y, y \notin Reachable \/ y \in ChainOf(Root),
         \A x \in Cluster : x # y => fat'[x] = fat[x] /\ data'[x] = data[x]
  PROVE  KeepsFiles
<1>. SUFFICES ASSUME NEW k \in Owners, NEW x \in ChainOf(dir[k].first)
              PROVE  fat'[x] = fat[x] /\ data'[x] = data[x]
  BY DEF KeepsFiles
<1>1. x \in Cluster /\ x # y
  BY OwnedFacts
<1>. QED  BY <1>1

LEMMA FilesKept == IInv /\ [Next]_vars => KeepsFiles
<1>. SUFFICES ASSUME IInv, [Next]_vars PROVE KeepsFiles
  OBVIOUS
<1>0. /\ fat \in [Cluster -> Cluster \cup {FREE, EOC}] /\ data \in [Cluster -> Buffer]
      /\ ReachableAllocated /\ OwnChain
  BY DEF IInv, TypeOK, DiskOK
<1>1. CASE fat' = fat /\ data' = data
  BY <1>1 DEF KeepsFiles
<1>2. CASE Issue
  BY <1>1, <1>2 DEF Issue, WriteFile, DeleteFile, CreateDir, Enter, Rename, disk
<1>3. CASE MarkDeleted \/ NothingToDelete \/ ChainFreed \/ DiskFull \/ FillFails \/ DataWritten
           \/ TakeSlot \/ NoRoom \/ FirstEntry \/ MkdirRefused
  BY <1>1, <1>3 DEF MarkDeleted, NothingToDelete, ChainFreed, DiskFull, FillFails, DataWritten,
     TakeSlot, NoRoom, FirstEntry, MkdirRefused, disk
<1>4. CASE FreeNext
  <2>1. c \in Cluster /\ fat' = [fat EXCEPT ![c] = FREE] /\ data' = data /\ pc \in {"free", "rollback"}
    BY <1>4 DEF FreeNext
  <2>2. c \notin Reachable
    BY <1>0, <2>1, ChainBasics DEF OwnChain, ChainOf
  <2>. QED  BY <1>0, <2>1, <2>2, WriteKeeps
<1>5. CASE Allocate
  <2>1. CASE prev_c = 0
    BY <1>1, <1>5, <2>1 DEF Allocate
  <2>2. CASE prev_c # 0
    <3>1. \E x \in Cluster : fat' = [fat EXCEPT ![prev_c] = x]
      BY <1>5, <2>2 DEF Allocate
    <3>2. data' = data /\ pc = "alloc"
      BY <1>5 DEF Allocate
    <3>3. prev_c \notin Reachable
      BY <1>0, <2>2, <3>2 DEF OwnChain
    <3>. QED  BY <1>0, <3>1, <3>2, <3>3, WriteKeeps
  <2>. QED  BY <2>1, <2>2
<1>6. CASE Fill \/ Seal \/ SealExtension
  <2>1. fat[cur] = FREE
    BY <1>0, <1>6 DEF OwnChain, Fill, Seal, SealExtension
  <2>2. cur \notin Reachable
    BY <1>0, <2>1, FreeUnreachable
  <2>3. \A x \in Cluster : x # cur => fat'[x] = fat[x] /\ data'[x] = data[x]
    BY <1>0, <1>6 DEF Fill, Seal, SealExtension
  <2>. QED  BY <2>2, <2>3, WriteKeeps
<1>7. CASE FindRoom
  <2>1. CASE fat' = fat /\ \E x \in Cluster : FirstFree(x) /\ data' = [data EXCEPT ![x] = Zeroed]
    <3>1. PICK x \in Cluster : FirstFree(x) /\ data' = [data EXCEPT ![x] = Zeroed]
      BY <2>1
    <3>2. x \notin Reachable
      BY <1>0, <3>1, FreeUnreachable DEF FirstFree, FreeClusters
    <3>. QED  BY <1>0, <2>1, <3>1, <3>2, WriteKeeps
  <2>2. CASE UNCHANGED disk
    BY <1>1, <2>2 DEF disk
  <2>. QED  BY <1>7, <2>1, <2>2 DEF FindRoom
<1>8. CASE LinkExtension
  <2>1. PICK last \in Chain(Cluster, fat, Root) : fat' = [fat EXCEPT ![last] = cur]
    BY <1>8 DEF LinkExtension
  <2>2. data' = data /\ last \in ChainOf(Root)
    BY <1>8 DEF LinkExtension, ChainOf
  <2>. QED  BY <1>0, <2>1, <2>2, WriteKeeps
<1>9. CASE MkdirTakes
  <2>1. PICK x \in Cluster : FirstFree(x) /\ fat' = [fat EXCEPT ![x] = EOC]
    BY <1>9 DEF MkdirTakes
  <2>2. data' = data /\ x \notin Reachable
    BY <1>0, <1>9, <2>1, FreeUnreachable DEF FirstFree, FreeClusters, MkdirTakes
  <2>. QED  BY <1>0, <2>1, <2>2, WriteKeeps
<1>10. CASE MkdirDots
  <2>1. pc = "dots" /\ fat' = fat /\ (data' = data \/ data' = [data EXCEPT ![first_c] = Zeroed])
    BY <1>10 DEF MkdirDots, disk
  <2>2. first_c \in Cluster /\ ChainOf(first_c) \cap Reachable = {}
    BY <1>0, <2>1 DEF OwnChain, Building, IInv, TypeOK, DiskOK
  <2>3. first_c \notin Reachable
    BY <2>2, ChainBasics DEF ChainOf
  <2>. QED  BY <1>0, <1>1, <2>1, <2>3, WriteKeeps
<1>11. CASE PowerLoss
  <2>1. fat[Root] # FREE
    BY <1>0, HeadChain DEF ReachableAllocated, Heads, IInv, TypeOK
  <2>. QED  BY <1>1, <1>11, <2>1 DEF PowerLoss, Sanitized
<1>12. CASE UNCHANGED vars
  BY <1>1, <1>12 DEF vars, disk
<1>. QED  BY <1>2, <1>3, <1>4, <1>5, <1>6, <1>7, <1>8, <1>9, <1>10, <1>11, <1>12 DEF Next, Step

-----------------------------------------------------------------------------
(************************ what a step does to the view *********************)
LEMMA SameValue ==
  ASSUME IInv, KeepsFiles, NEW k \in Used,
         dir'[k].folder = dir[k].folder, dir'[k].first = dir[k].first, dir'[k].size = dir[k].size
  PROVE  Value(k)' = Value(k)
<1>1. dir[k] \in Slot
  BY DEF IInv, TypeOK, DiskOK, Used, Slots
<1>2. dir[k].size \in Nat /\ dir[k].first \in Cluster \cup {0}
  BY <1>1 DEF Slot
<1>3. dir[k].first \in Cluster =>
        \A x \in Chain(Cluster, fat, dir[k].first) : fat'[x] = fat[x] /\ data'[x] = data[x]
  BY ConstantFacts DEF KeepsFiles, Owners, ChainOf
<1>4. Contents(fat', data', dir[k].first, dir[k].size) = Contents(fat, data, dir[k].first, dir[k].size)
  BY <1>2, <1>3, SameContents
<1>. QED  BY <1>4 DEF Value

LEMMA FilesStay ==
  ASSUME IInv, IInv', KeepsFiles, Used' = Used, \A k \in Used : dir'[k] = dir[k]
  PROVE  View' = View /\ (Stored => Stored')
<1>1. \A k \in Used : Value(k)' = Value(k)
  BY SameValue
<1>2. \A n \in Name : View'[n] = View[n]
  <2>. SUFFICES ASSUME NEW n \in Name PROVE View'[n] = View[n]
    OBVIOUS
  <2>1. CASE \A k \in Used : dir[k].name # n
    BY <2>1, ViewIs, ViewIsNext DEF ViewSound
  <2>2. ASSUME NEW k \in Used, dir[k].name = n PROVE View'[n] = View[n]
    BY <1>1, <2>2, ViewIs, ViewIsNext DEF ViewSound
  <2>. QED  BY <2>1, <2>2
<1>3. View' = View
  BY <1>2, ViewIs, ViewIsNext DEF ViewSound
<1>. QED  BY <1>1, <1>3 DEF Stored

LEMMA FileRemoved ==
  ASSUME IInv, IInv', KeepsFiles, NEW k \in Used, Used' = Used \ {k}, \A j \in Used' : dir'[j] = dir[j]
  PROVE  /\ View' = [View EXCEPT ![dir[k].name] = Absent]
         /\ Stored => Stored'
         /\ \A j \in Used' : dir'[j].name # dir[k].name
<1>1. \A j \in Used' : j \in Used /\ Value(j)' = Value(j)
  BY SameValue
<1>2. dir[k].name \in Name
  BY DEF Used
<1>3. \A j \in Used' : dir'[j].name # dir[k].name
  BY DEF IInv, UniqueNames
<1>4. ASSUME NEW n \in Name PROVE View'[n] = IF n = dir[k].name THEN Absent ELSE View[n]
  <2>1. CASE n = dir[k].name
    BY <1>3, <2>1, ViewIsNext DEF ViewSound
  <2>2. CASE n # dir[k].name /\ \A j \in Used : dir[j].name # n
    BY <2>2, ViewIs, ViewIsNext DEF ViewSound
  <2>3. ASSUME n # dir[k].name, NEW j \in Used, dir[j].name = n PROVE View'[n] = View[n]
    BY <1>1, <2>3, ViewIs, ViewIsNext DEF ViewSound
  <2>. QED  BY <2>1, <2>2, <2>3
<1>5. View' = [View EXCEPT ![dir[k].name] = Absent]
  BY <1>2, <1>4, ViewIs, ViewIsNext DEF ViewSound
<1>. QED  BY <1>1, <1>3, <1>5 DEF Stored

LEMMA FilePublished ==
  ASSUME IInv, IInv', KeepsFiles, NEW k, k \notin Used, Used' = Used \cup {k},
         \A j \in Used : dir'[j] = dir[j]
  PROVE  /\ View' = [View EXCEPT ![dir'[k].name] = Value(k)']
         /\ View[dir'[k].name] = Absent
         /\ Stored /\ (dir'[k].folder \/ Value(k)' \in Payload) => Stored'
<1>1. \A j \in Used : j # k /\ Value(j)' = Value(j)
  BY SameValue
<1>2. dir'[k].name \in Name
  BY DEF Used
<1>3. \A j \in Used : dir[j].name # dir'[k].name
  BY <1>1 DEF IInv, UniqueNames
<1>4. ASSUME NEW n \in Name PROVE View'[n] = IF n = dir'[k].name THEN Value(k)' ELSE View[n]
  <2>1. CASE n = dir'[k].name
    BY <2>1, ViewIsNext DEF ViewSound
  <2>2. CASE n # dir'[k].name /\ \A j \in Used : dir[j].name # n
    BY <2>2, ViewIs, ViewIsNext DEF ViewSound
  <2>3. ASSUME n # dir'[k].name, NEW j \in Used, dir[j].name = n PROVE View'[n] = View[n]
    BY <1>1, <2>3, ViewIs, ViewIsNext DEF ViewSound
  <2>. QED  BY <2>1, <2>2, <2>3
<1>5. View' = [View EXCEPT ![dir'[k].name] = Value(k)']
  BY <1>2, <1>4, ViewIs, ViewIsNext DEF ViewSound
<1>6. View[dir'[k].name] = Absent
  BY <1>2, <1>3, ViewIs DEF ViewSound
<1>. QED  BY <1>1, <1>5, <1>6 DEF Stored

LEMMA FileRenamed ==
  ASSUME IInv, IInv', KeepsFiles, NEW k \in Used, NEW new \in Name, \A j \in Used : dir[j].name # new,
         dir' = [dir EXCEPT ![k].name = new]
  PROVE  /\ View' = [View EXCEPT ![new] = View[dir[k].name], ![dir[k].name] = Absent]
         /\ View[new] = Absent
         /\ Stored => Stored'
<1> DEFINE old == dir[k].name
<1>1. k \in Slots /\ old \in Name /\ old # new /\ dir[k] \in Slot
  BY DEF Used, Slots, IInv, TypeOK, DiskOK
<1>2. /\ dir'[k].name = new /\ dir'[k].folder = dir[k].folder /\ dir'[k].first = dir[k].first
      /\ dir'[k].size = dir[k].size
      /\ \A j \in Slots : j # k => dir'[j] = dir[j]
      /\ Slots' = Slots
  BY <1>1 DEF IInv, TypeOK, DiskOK, Slots, Slot
<1>3. Used' = Used
  BY <1>1, <1>2 DEF Used
<1>4. \A j \in Used : Value(j)' = Value(j)
  <2>1. \A j \in Used : /\ dir'[j].folder = dir[j].folder /\ dir'[j].first = dir[j].first
                        /\ dir'[j].size = dir[j].size
    BY <1>2 DEF Used
  <2>. QED  BY <2>1, SameValue
<1>5. \A j \in Used : dir'[j].name = IF j = k THEN new ELSE dir[j].name
  BY <1>2 DEF Used
<1>6. \A j \in Used : j # k => dir[j].name # old
  BY DEF IInv, UniqueNames
<1>. HIDE DEF old
<1>7. View[old] = Value(k) /\ View[new] = Absent
  BY ViewIs DEF ViewSound, old
<1>8. ASSUME NEW n \in Name
      PROVE  View'[n] = IF n = old THEN Absent ELSE IF n = new THEN View[old] ELSE View[n]
  <2>1. CASE n = old
    <3>1. \A j \in Used' : dir'[j].name # n
      BY <1>1, <1>3, <1>5, <1>6, <2>1
    <3>. QED  BY <2>1, <3>1, ViewIsNext DEF ViewSound
  <2>2. CASE n = new
    BY <1>1, <1>2, <1>3, <1>4, <1>7, <2>2, ViewIsNext DEF ViewSound
  <2>3. CASE n # old /\ n # new /\ \A j \in Used : dir[j].name # n
    <3>1. \A j \in Used' : dir'[j].name # n
      BY <1>3, <1>5, <2>3
    <3>. QED  BY <2>3, <3>1, ViewIs, ViewIsNext DEF ViewSound
  <2>4. ASSUME n # old, n # new, NEW j \in Used, dir[j].name = n PROVE View'[n] = View[n]
    <3>1. j # k
      BY <2>4 DEF old
    <3>. QED  BY <1>3, <1>4, <1>5, <2>4, <3>1, ViewIs, ViewIsNext DEF ViewSound
  <2>. QED  BY <2>1, <2>2, <2>3, <2>4
<1>9. View' = [View EXCEPT ![new] = View[old], ![old] = Absent]
  <2>1. View = [n \in Name |-> View[n]] /\ View' = [n \in Name |-> View'[n]]
    BY ViewIs, ViewIsNext DEF ViewSound
  <2> DEFINE v == [View EXCEPT ![new] = View[old], ![old] = Absent]
  <2>2. v = [n \in Name |-> v[n]] /\ \A n \in Name : v[n] = View'[n]
    BY <1>1, <1>8, <2>1
  <2>. HIDE DEF v
  <2>3. v = View'
    BY <2>1, <2>2
  <2>. QED  BY <2>3 DEF v
<1>10. Stored => Stored'
  BY <1>2, <1>3, <1>4 DEF Stored, Used
<1>. QED  BY <1>7, <1>9, <1>10 DEF old
-----------------------------------------------------------------------------
(************************ which call is where ******************************)
LEMMA OpsStep == IInv /\ Ops /\ [Next]_vars => Ops'
<1>. SUFFICES ASSUME IInv, Ops, [Next]_vars PROVE Ops'
  OBVIOUS
<1>0. CASE pc' = "idle"
  BY <1>0 DEF Ops
<1>1. ASSUME NEW n \in Name, NEW s \in Payload, WriteFile(n, s) PROVE Ops'
  BY <1>1 DEF WriteFile, Enter, Ops
<1>2. ASSUME NEW n \in Name, DeleteFile(n) \/ CreateDir(n) PROVE Ops'
  BY <1>2 DEF DeleteFile, CreateDir, Enter, Ops
<1>3. ASSUME NEW old \in Name, NEW new \in Name, Rename(old, new) PROVE Ops'
  BY <1>0, <1>3 DEF Rename
<1>4. CASE MarkDeleted \/ NothingToDelete \/ ChainFreed \/ Allocate \/ Fill \/ Seal \/ DataWritten
           \/ TakeSlot \/ FindRoom \/ SealExtension \/ LinkExtension \/ FirstEntry
           \/ MkdirRefused \/ MkdirTakes \/ MkdirDots \/ PowerLoss
  <2>1. pc' = "idle" \/ (pc # "idle" /\ pc' # "rollback" /\ req' = req) \/ (ChainFreed /\ pc' # "rollback")
    BY <1>4 DEF MarkDeleted, NothingToDelete, ChainFreed, Allocate, Fill, Seal, DataWritten,
       TakeSlot, FindRoom, SealExtension, LinkExtension, FirstEntry, MkdirRefused, MkdirTakes,
       MkdirDots, PowerLoss, Return, locals
  <2>. QED
    BY <1>0, <1>4, <2>1 DEF Ops, MarkDeleted, NothingToDelete, ChainFreed, Allocate, Fill, Seal, DataWritten,
       TakeSlot, FindRoom, SealExtension, LinkExtension, FirstEntry, MkdirRefused, MkdirTakes,
       MkdirDots, PowerLoss, Return, locals
<1>5. CASE DiskFull \/ FillFails \/ NoRoom
  <2>1. /\ pc \in {"alloc", "fill", "slot"} /\ pc' = "rollback" /\ req' = req /\ dir' = dir
        /\ status' \in {"DISK_FULL", "ERROR_WRITE"} /\ req.op = "write"
    BY <1>5 DEF DiskFull, FillFails, NoRoom, RollBack, disk, Ops
  <2>2. \A k \in Used : dir[k].name # req.name
    BY <2>1 DEF IInv, EntryRoom, Building
  <2>. QED  BY <2>1, <2>2, SameDirectory DEF Ops
<1>6. CASE FreeNext
  <2>1. pc \in {"free", "rollback"} /\ UNCHANGED <<pc, req, rest, status, dir>>
    BY <1>6 DEF FreeNext
  <2>. QED  BY <2>1, SameDirectory DEF Ops
<1>7. CASE UNCHANGED vars
  BY <1>7, SameDirectory DEF Ops, vars, disk, locals
<1>. QED  BY <1>1, <1>2, <1>3, <1>4, <1>5, <1>6, <1>7 DEF Next, Issue, Step

-----------------------------------------------------------------------------
(************************ what the chain in hand holds *********************)
LEMMA RequestFacts ==
  ASSUME IInv
  PROVE  /\ req.arg \in Seq(Unit) /\ Len(req.arg) \in Nat /\ rest \in Seq(Unit) /\ Len(rest) \in Nat
         /\ UnitsPerCluster \in Nat /\ UnitsPerCluster > 0 /\ first_c \in Cluster \cup {0}
         /\ fat \in [Cluster -> Cluster \cup {FREE, EOC}] /\ data \in [Cluster -> Buffer]
  BY ConstantFacts DEF IInv, TypeOK, DiskOK, Request

\* Nothing is written yet.
LEMMA LaidFirst ==
  ASSUME IInv, IInv', pc' = "alloc", rest' = req'.arg, first_c' = 0, prev_c' = 0
  PROVE  Laid'
<1> DEFINE U == UnitsPerCluster
<1>1. U \in Nat /\ 0 * U = 0
  BY ConstantFacts
<1>2. req'.arg \in Seq(Unit) /\ Len(req'.arg) \in Nat
  BY DEF IInv, TypeOK, DiskOK, Request
<1>. HIDE DEF U
<1>3. Len(rest') = IF 0 * U < Len(req'.arg) THEN Len(req'.arg) - 0 * U ELSE 0
  <2>. DEFINE n == Len(req'.arg)
  <2>1. n \in Nat /\ Len(rest') = n
    BY <1>2
  <2>. HIDE DEF n
  <2>2. n = IF 0 < n THEN n - 0 ELSE 0
    BY <2>1
  <2>3. n = IF 0 * U < n THEN n - 0 * U ELSE 0
    BY <1>1, <2>2
  <2>. QED  BY <2>1, <2>3 DEF n
<1>4. \A i \in 1 .. Len(rest') : rest'[i] = req'.arg[0 * U + i]
  <2>1. \A i \in 1 .. Len(rest') : 0 * U + i = i
    BY <1>1, <1>2
  <2>. QED  BY <2>1
<1>5. LaidOut(0)'
  BY <1>3, <1>4 DEF LaidOut, U
<1>. QED  BY <1>5 DEF Laid

\* The clusters before the last one are linked to clusters.
LEMMA LaidLinks ==
  ASSUME NEW m \in Nat, LaidOut(m)
  PROVE  \A j \in Nat : /\ At(j + 1) = IF At(j) \in Cluster THEN fat[At(j)] ELSE EOC
                        /\ j < m => At(j) \in Cluster /\ At(j + 1) = fat[At(j)]
<1>1. \A j \in Nat : At(j + 1) = IF At(j) \in Cluster THEN fat[At(j)] ELSE EOC
  BY WalkNext DEF At
<1>2. \A j \in Nat : j < m => At(j) \in Cluster
  BY DEF LaidOut
<1>. QED  BY <1>1, <1>2

LEMMA LaidAllocate ==
  ASSUME IInv, Allocate, NEW m \in Nat, LaidOut(m)
  PROVE  LaidOut(m)'
<1>1. PICK x \in Cluster : /\ FirstFree(x) /\ cur' = x
                           /\ first_c' = IF first_c = 0 THEN x ELSE first_c
                           /\ fat' = IF prev_c = 0 THEN fat ELSE [fat EXCEPT ![prev_c] = x]
  BY DEF Allocate
<1>2. pc = "alloc" /\ pc' = "fill" /\ UNCHANGED <<data, req, rest>>
  BY DEF Allocate
<1>3. CASE m = 0
  <2>1. first_c' = x
    BY <1>1, <1>2, <1>3 DEF LaidOut
  <2>2. At(0)' = x
    BY <2>1, WalkZero DEF At
  <2>. QED  BY <1>1, <1>2, <1>3, <2>2 DEF LaidOut
<1>4. CASE m # 0
  <2>1. m - 1 \in Nat /\ m - 1 < m /\ m - 1 + 1 = m /\ 0 < m
    BY <1>4
  <2>2. prev_c = At(m - 1) /\ fat[prev_c] = EOC /\ At(m - 1) \in Cluster /\ At(0) \in Cluster
    BY <1>2, <1>4, <2>1 DEF LaidOut
  <2>3. first_c = At(0)
    BY WalkZero DEF At
  <2>4. prev_c \in Cluster /\ prev_c # 0 /\ first_c # 0
    BY <2>2, <2>3, ConstantFacts
  <2>5. first_c' = first_c /\ fat' = [fat EXCEPT ![prev_c] = x]
    BY <1>1, <2>4
  <2>6. ASSUME NEW i \in Nat, i + 1 < m PROVE At(i) # prev_c
    <3>1. At(i + 1) \in Cluster /\ At(i + 1) = fat[At(i)]
      BY <2>6, LaidLinks
    <3>. QED  BY <2>2, <3>1, ConstantFacts
  <2>7. ASSUME NEW j \in Nat, j < m PROVE At(j)' = At(j)
    <3>1. ASSUME NEW i \in Nat, i < j, Walk(Cluster, EOC, fat, first_c, i) \in Cluster
          PROVE  fat'[Walk(Cluster, EOC, fat, first_c, i)] = fat[Walk(Cluster, EOC, fat, first_c, i)]
      <4>1. At(i) # prev_c
        BY <2>6, <2>7, <3>1
      <4>. QED  BY <2>5, <3>1, <4>1, RequestFacts DEF At
    <3>2. Walk(Cluster, EOC, fat', first_c, j) = Walk(Cluster, EOC, fat, first_c, j)
      BY <3>1, WalkFrame
    <3>. QED  BY <2>5, <3>2 DEF At
  <2>8. At(m)' = x
    <3>1. Walk(Cluster, EOC, fat', first_c', m - 1 + 1) =
            IF At(m - 1)' \in Cluster THEN fat'[At(m - 1)'] ELSE EOC
      BY <2>1, WalkNext DEF At
    <3>2. At(m - 1)' = prev_c
      BY <2>1, <2>2, <2>7
    <3>3. fat'[prev_c] = x
      BY <2>4, <2>5, RequestFacts
    <3>. QED  BY <2>1, <2>4, <3>1, <3>2, <3>3 DEF At
  <2>9. \A j \in Nat : j < m =>
          /\ At(j)' \in Cluster
          /\ \A r \in 0 .. UnitsPerCluster - 1 : j * UnitsPerCluster + r < Len(req'.arg) =>
               data'[At(j)'][r] = req'.arg[j * UnitsPerCluster + r + 1]
    BY <1>2, <2>7 DEF LaidOut
  <2>. QED  BY <1>1, <1>2, <2>8, <2>9 DEF LaidOut
<1>. QED  BY <1>3, <1>4

\* The cluster just found is none of those before it.
LEMMA CurIsNew ==
  ASSUME IInv, pc \in {"fill", "seal"}, NEW m \in Nat, LaidOut(m), NEW j \in Nat, j < m
  PROVE  At(j) # cur
<1>1. cur \in Cluster /\ fat[cur] = FREE /\ At(m) = cur
  BY DEF IInv, OwnChain, LaidOut
<1>2. At(j + 1) = fat[At(j)]
  BY LaidLinks
<1>3. At(j + 1) \in Cluster
  <2>1. CASE j + 1 = m
    BY <1>1, <2>1
  <2>2. CASE j + 1 < m
    BY <2>2, LaidLinks
  <2>. QED  BY <2>1, <2>2
<1>. QED  BY <1>1, <1>2, <1>3, ConstantFacts DEF FREE

LEMMA LaidFill ==
  ASSUME IInv, Fill, NEW m \in Nat, LaidOut(m)
  PROVE  LaidOut(m)'
<1>1. /\ pc = "fill" /\ pc' = "seal" /\ data' = [data EXCEPT ![cur] = Filled(rest)]
      /\ UNCHANGED <<fat, req, rest, first_c, prev_c, cur>>
  BY DEF Fill, locals
<1>2. cur \in Cluster /\ data \in [Cluster -> Buffer]
  BY <1>1, RequestFacts DEF IInv, OwnChain
<1>3. \A j : At(j)' = At(j)
  BY <1>1 DEF At
<1>4. \A j \in Nat : j < m => At(j) \in Cluster /\ data'[At(j)] = data[At(j)]
  <2>1. \A j \in Nat : j < m => At(j) # cur
    BY <1>1, CurIsNew
  <2>2. \A j \in Nat : j < m => At(j) \in Cluster
    BY DEF LaidOut
  <2>. QED  BY <1>1, <1>2, <2>1, <2>2
<1>5. data'[cur] = Filled(rest)
  BY <1>1, <1>2
<1>. QED  BY <1>1, <1>3, <1>4, <1>5 DEF LaidOut

LEMMA LaidSeal ==
  ASSUME IInv, Seal, NEW m \in Nat, LaidOut(m)
  PROVE  LaidOut(m + 1)'
<1> DEFINE U == UnitsPerCluster
           n == Len(req.arg)
<1>1. /\ pc = "seal" /\ pc' = "alloc" /\ fat' = [fat EXCEPT ![cur] = EOC] /\ prev_c' = cur
      /\ rest' = After(rest, UnitsPerCluster) /\ UNCHANGED <<data, req, first_c, cur>>
  BY DEF Seal
<1>2. cur \in Cluster /\ At(m) = cur /\ data[cur] = Filled(rest) /\ fat \in [Cluster -> Cluster \cup {FREE, EOC}]
  BY <1>1, RequestFacts DEF IInv, OwnChain, LaidOut
<1>3. U \in Nat /\ U > 0 /\ n \in Nat /\ rest \in Seq(Unit) /\ Len(rest) \in Nat
  BY RequestFacts
<1>4. m * U \in Nat /\ (m + 1) * U = m * U + U
  BY <1>3, Product
<1>5. Len(rest) = (IF m * U < n THEN n - m * U ELSE 0) /\ \A i \in 1 .. Len(rest) : rest[i] = req.arg[m * U + i]
  BY DEF LaidOut
<1>6. ASSUME NEW j \in Nat, j < m + 1 PROVE At(j)' = At(j)
  <2>1. ASSUME NEW i \in Nat, i < j, Walk(Cluster, EOC, fat, first_c, i) \in Cluster
        PROVE  fat'[Walk(Cluster, EOC, fat, first_c, i)] = fat[Walk(Cluster, EOC, fat, first_c, i)]
    <3>1. At(i) # cur
      BY <1>1, <1>6, <2>1, CurIsNew
    <3>. QED  BY <1>1, <1>2, <2>1, <3>1 DEF At
  <2>2. Walk(Cluster, EOC, fat', first_c, j) = Walk(Cluster, EOC, fat, first_c, j)
    BY <2>1, WalkFrame
  <2>. QED  BY <1>1, <2>2 DEF At
<1>7. Len(rest') = (IF (m + 1) * U < n THEN n - (m + 1) * U ELSE 0)
      /\ \A i \in 1 .. Len(rest') : rest'[i] = req.arg[(m + 1) * U + i]
  <2>. HIDE DEF U, n
  <2>1. CASE U >= Len(rest)
    <3>1. rest' = <<>> /\ Len(<<>>) = 0
      BY <1>1, <2>1 DEF After, U
    <3>. QED  BY <1>3, <1>4, <1>5, <2>1, <3>1
  <2>2. CASE ~ (U >= Len(rest))
    <3>1. rest' = SubSeq(rest, U + 1, Len(rest))
      BY <1>1, <2>2 DEF After, U
    <3>2. Len(rest') = Len(rest) - U /\ \A i \in 1 .. Len(rest) - U : rest'[i] = rest[U + i]
      BY <1>3, <2>2, <3>1
    <3>3. Len(rest') = IF (m + 1) * U < n THEN n - (m + 1) * U ELSE 0
      BY <1>3, <1>4, <1>5, <2>2, <3>2
    <3>4. ASSUME NEW i \in 1 .. Len(rest') PROVE rest'[i] = req.arg[(m + 1) * U + i]
      <4>1. U + i \in 1 .. Len(rest) /\ m * U + (U + i) = (m + 1) * U + i
        BY <1>3, <1>4, <2>2, <3>2
      <4>2. rest'[i] = rest[U + i]
        BY <3>2
      <4>. QED  BY <1>5, <4>1, <4>2
    <3>. QED  BY <3>3, <3>4
  <2>. QED  BY <2>1, <2>2
<1>8. ASSUME NEW j \in Nat, j < m + 1
      PROVE  /\ At(j) \in Cluster
             /\ \A r \in 0 .. U - 1 : j * U + r < n => data[At(j)][r] = req.arg[j * U + r + 1]
  <2>1. CASE j < m
    BY <2>1 DEF LaidOut
  <2>2. CASE j = m
    <3>1. ASSUME NEW r \in 0 .. U - 1, m * U + r < n PROVE data[cur][r] = req.arg[m * U + r + 1]
      <4> HIDE DEF U, n
      <4>1. r < Len(rest) /\ r + 1 \in 1 .. Len(rest)
        <5>1. r \in Nat /\ r < n - m * U /\ m * U < n
          BY <1>3, <1>4, <3>1
        <5>2. Len(rest) = n - m * U
          BY <1>5, <5>1
        <5>. QED  BY <1>3, <5>1, <5>2
      <4>2. data[cur][r] = rest[r + 1]
        BY <1>2, <4>1 DEF Filled, U
      <4>3. rest[r + 1] = req.arg[m * U + (r + 1)] /\ m * U + (r + 1) = m * U + r + 1
        BY <1>4, <1>5, <4>1
      <4>. QED  BY <4>2, <4>3
    <3>. QED  BY <1>2, <2>2, <3>1
  <2>. QED  BY <1>8, <2>1, <2>2
<1>9. prev_c' = At(m)' /\ fat'[prev_c'] = EOC /\ m + 1 # 0 /\ m + 1 - 1 = m
  BY <1>1, <1>2, <1>6
<1>. QED  BY <1>1, <1>6, <1>7, <1>8, <1>9 DEF LaidOut

LEMMA LaidStep == IInv /\ IInv' /\ Ops /\ Laid /\ [Next]_vars => Laid'
<1>. SUFFICES ASSUME IInv, IInv', Ops, Laid, [Next]_vars PROVE Laid'
  OBVIOUS
<1>1. CASE pc' \notin {"alloc", "fill", "seal"}
  BY <1>1 DEF Laid
<1>2. CASE (NothingToDelete \/ ChainFreed) /\ pc' = "alloc"
  <2>1. /\ pc \in {"scan", "free"} /\ req.op = "write"
        /\ UNCHANGED <<req, rest, first_c, prev_c>>
    BY <1>2 DEF NothingToDelete, ChainFreed, Return, locals
  <2>2. rest = req.arg /\ first_c = 0 /\ prev_c = 0
    BY <2>1 DEF Ops, IInv, OwnChain
  <2>3. rest' = req'.arg /\ first_c' = 0 /\ prev_c' = 0
    BY <2>1, <2>2
  <2>. QED  BY <1>2, <2>3, LaidFirst
<1>3. CASE Allocate
  <2>1. PICK m \in Nat : LaidOut(m)
    BY <1>3 DEF Laid, Allocate
  <2>. QED  BY <1>3, <2>1, LaidAllocate DEF Laid
<1>4. CASE Fill
  <2>1. PICK m \in Nat : LaidOut(m)
    BY <1>4 DEF Laid, Fill
  <2>. QED  BY <1>4, <2>1, LaidFill DEF Laid
<1>5. CASE Seal
  <2>1. PICK m \in Nat : LaidOut(m)
    BY <1>5 DEF Laid, Seal
  <2>2. LaidOut(m + 1)' /\ m + 1 \in Nat
    BY <1>5, <2>1, LaidSeal
  <2>. QED  BY <2>2 DEF Laid
<1>6. CASE UNCHANGED vars
  BY <1>6 DEF Laid, LaidOut, At, vars, disk, locals
<1>7. CASE Issue
  <2>1. pc' \notin {"alloc", "fill", "seal"}
    BY <1>7 DEF Issue, WriteFile, DeleteFile, CreateDir, Enter, Rename
  <2>. QED  BY <1>1, <2>1
<1>8. CASE MarkDeleted \/ FreeNext \/ DiskFull \/ FillFails \/ DataWritten \/ TakeSlot \/ FindRoom
           \/ NoRoom \/ SealExtension \/ LinkExtension \/ FirstEntry
           \/ MkdirRefused \/ MkdirTakes \/ MkdirDots \/ PowerLoss
  <2>1. pc' \notin {"alloc", "fill", "seal"}
    BY <1>8 DEF MarkDeleted, FreeNext, DiskFull, FillFails, DataWritten, TakeSlot, FindRoom,
       NoRoom, SealExtension, LinkExtension, FirstEntry, MkdirRefused, MkdirTakes, MkdirDots,
       PowerLoss, RollBack, Return
  <2>. QED  BY <1>1, <2>1
<1>9. CASE NothingToDelete \/ ChainFreed
  BY <1>1, <1>2, <1>9 DEF NothingToDelete, ChainFreed, Return
<1>. QED  BY <1>3, <1>4, <1>5, <1>6, <1>7, <1>8, <1>9 DEF Next, Step

\* Once nothing is left, the chain holds the request.
LEMMA AllLaid ==
  ASSUME IInv, Laid, DataWritten
  PROVE  Built'
<1> DEFINE U == UnitsPerCluster
           n == Len(req.arg)
<1>1. PICK m \in Nat : LaidOut(m)
  BY DEF Laid, DataWritten
<1>2. rest = << >> /\ UNCHANGED <<fat, data, req, first_c>>
  BY DEF DataWritten, disk, locals
<1>3. U \in Nat /\ U > 0 /\ n \in Nat /\ req.arg \in Seq(Unit)
  BY RequestFacts
<1>4. Len(rest) = IF m * U < n THEN n - m * U ELSE 0
  BY <1>1 DEF LaidOut
<1>5. ASSUME NEW j \in Nat, j < m, NEW r \in 0 .. U - 1, j * U + r < n
      PROVE  At(j) \in Cluster /\ data[At(j)][r] = req.arg[j * U + r + 1]
  BY <1>1, <1>5 DEF LaidOut
<1>6. ASSUME NEW i \in 1 .. n
      PROVE  LET x == Walk(Cluster, EOC, fat, first_c, (i - 1) \div UnitsPerCluster)
             IN (IF x \in Cluster THEN data[x][(i - 1) % UnitsPerCluster] ELSE "unread") = req.arg[i]
  <2> DEFINE q == (i - 1) \div U
             r == (i - 1) % U
  <2>. HIDE DEF n
  <2>1. i - 1 \in Nat /\ i - 1 < n
    BY <1>3, <1>6
  <2>2. q \in Nat /\ r \in 0 .. U - 1 /\ i - 1 = q * U + r
    BY <1>3, <2>1, Quotient
  <2>. HIDE DEF q, r, U
  <2>3. m * U \in Nat /\ q * U \in Nat /\ (m <= q => m * U <= q * U)
    BY <1>3, <2>2, Product
  <2>4. ~ (m * U < n)
    <3>1. Len(rest) = 0
      BY <1>2
    <3>. QED  BY <1>3, <1>4, <2>3, <3>1
  <2>5. q < m
    BY <1>3, <2>1, <2>2, <2>3, <2>4
  <2>6. q * U + r < n /\ q * U + r + 1 = i
    BY <2>1, <2>2, <2>3
  <2>7. At(q) \in Cluster /\ data[At(q)][r] = req.arg[i]
    <3>1. At(q) \in Cluster /\ data[At(q)][r] = req.arg[q * U + r + 1]
      BY <1>5, <2>2, <2>5, <2>6
    <3>. QED  BY <2>6, <3>1
  <2>. QED  BY <2>7 DEF At, q, r, U
<1>7. Contents(fat, data, first_c, n) = req.arg
  <2>1. req.arg = [i \in 1 .. n |-> req.arg[i]]
    BY <1>3
  <2>. QED  BY <1>6, <2>1 DEF Contents
<1>. QED  BY <1>2, <1>7 DEF Built

LEMMA BuiltStays ==
  ASSUME IInv, Built, pc \in {"slot", "extend", "link"}, UNCHANGED <<req, first_c>>,
         NEW y, first_c # 0 => y \notin ChainOf(first_c),
         \A x \in Cluster : x # y => fat'[x] = fat[x] /\ data'[x] = data[x]
  PROVE  Built'
<1>. SUFFICES ASSUME req.op = "write"
              PROVE  Contents(fat', data', first_c, Len(req.arg)) = req.arg
  BY DEF Built
<1>1. Contents(fat, data, first_c, Len(req.arg)) = req.arg
  BY DEF Built
<1>2. first_c \in Cluster =>
        \A x \in Chain(Cluster, fat, first_c) : fat'[x] = fat[x] /\ data'[x] = data[x]
  BY ConstantFacts, ChainBasics DEF ChainOf
<1>3. Len(req.arg) \in Nat
  BY RequestFacts
<1>. QED  BY <1>1, <1>2, <1>3, SameContents

LEMMA BuiltStep == IInv /\ Ops /\ Ops' /\ Laid /\ Built /\ [Next]_vars => Built'
<1>. SUFFICES ASSUME IInv, Ops, Ops', Laid, Built, [Next]_vars PROVE Built'
  OBVIOUS
<1>0. fat \in [Cluster -> Cluster \cup {FREE, EOC}] /\ data \in [Cluster -> Buffer] /\ OwnChain
      /\ first_c \in Cluster \cup {0}
  BY DEF IInv, TypeOK, DiskOK
<1>1. CASE pc' \notin {"slot", "extend", "link", "entry"}
  BY <1>1 DEF Built
<1>2. CASE DataWritten
  BY <1>2, AllLaid
<1>3. CASE FindRoom
  <2>1. CASE pc' = "extend"
    <3>1. PICK x \in Cluster : FirstFree(x) /\ data' = [data EXCEPT ![x] = Zeroed]
      BY <1>3, <2>1 DEF FindRoom, Return
    <3>2. pc = "slot" /\ UNCHANGED <<fat, req, first_c>>
      BY <1>3, <2>1 DEF FindRoom, Return
    <3>3. first_c # 0 => x \notin ChainOf(first_c)
      BY <1>0, <3>1, <3>2 DEF FirstFree, FreeClusters, OwnChain, Building
    <3>. QED  BY <1>0, <3>1, <3>2, <3>3, BuiltStays
  <2>. QED  BY <1>1, <1>3, <2>1 DEF FindRoom, Return
<1>4. CASE SealExtension
  <2>1. /\ pc = "extend" /\ fat' = [fat EXCEPT ![cur] = EOC] /\ UNCHANGED <<data, req, first_c>>
    BY <1>4 DEF SealExtension, locals
  <2>2. first_c # 0 => cur \notin ChainOf(first_c)
    BY <1>0, <2>1 DEF OwnChain, Building
  <2>. QED  BY <1>0, <2>1, <2>2, BuiltStays
<1>5. CASE LinkExtension
  <2>1. PICK last \in Chain(Cluster, fat, Root) : fat' = [fat EXCEPT ![last] = cur]
    BY <1>5 DEF LinkExtension
  <2>2. pc = "link" /\ UNCHANGED <<data, req, first_c>>
    BY <1>5 DEF LinkExtension, locals
  <2>3. last \in Reachable
    BY <2>1, HeadChain DEF ChainOf, Heads, IInv, TypeOK
  <2>4. first_c # 0 => last \notin ChainOf(first_c)
    BY <1>0, <2>2, <2>3 DEF OwnChain, Building
  <2>. QED  BY <1>0, <2>1, <2>2, <2>4, BuiltStays
<1>6. CASE MkdirDots
  <2>1. req'.op # "write"
    BY <1>6 DEF MkdirDots, Ops, Return, NoRequest, locals
  <2>. QED  BY <2>1 DEF Built
<1>7. CASE UNCHANGED vars
  BY <1>7 DEF Built, vars, disk, locals
<1>8. CASE Issue
  <2>1. pc' \notin {"slot", "extend", "link", "entry"}
    BY <1>8 DEF Issue, WriteFile, DeleteFile, CreateDir, Enter, Rename
  <2>. QED  BY <1>1, <2>1
<1>9. CASE MarkDeleted \/ NothingToDelete \/ FreeNext \/ ChainFreed \/ Allocate \/ DiskFull \/ Fill
           \/ FillFails \/ Seal \/ TakeSlot \/ NoRoom \/ FirstEntry
           \/ MkdirRefused \/ MkdirTakes \/ PowerLoss
  <2>1. pc' \notin {"slot", "extend", "link", "entry"}
    BY <1>9 DEF MarkDeleted, NothingToDelete, FreeNext, ChainFreed, Allocate, DiskFull, Fill,
       FillFails, Seal, TakeSlot, NoRoom, FirstEntry, MkdirRefused, MkdirTakes, PowerLoss,
       RollBack, Return
  <2>. QED  BY <1>1, <2>1
<1>. QED  BY <1>2, <1>3, <1>4, <1>5, <1>6, <1>7, <1>8, <1>9 DEF Next, Step
-----------------------------------------------------------------------------
(************************ every step is a step of FileStore ****************)
CallSound == Called = IF pc = "idle" THEN Files!NoRequest
                      ELSE [op |-> req.op, name |-> req.name,
                            arg |-> IF req.op = "write" THEN req.arg ELSE Absent]

LEMMA CallIs == IInv => CallSound
<1>. SUFFICES ASSUME IInv, pc # "idle" PROVE CallSound
  BY DEF CallSound, Called, Files!NoRequest
<1>1. req \in [op : {"none", "write", "delete", "mkdir"}, name : Name \cup {END}, arg : Seq(Unit)]
  BY DEF IInv, TypeOK, DiskOK, Request
<1>2. Called = [req EXCEPT !.arg = IF req.op = "write" THEN req.arg ELSE Absent]
  BY DEF Called
<1>. QED  BY <1>1, <1>2 DEF CallSound

LEMMA CallIsNext == IInv' => CallSound'
  BY CallIs, PTL

\* What a step is to the caller of the driver.
FileStep == Stored' /\ [Files!Next]_Files!vars

\* A step inside a call that leaves the files alone is no step of FileStore.
LEMMA SilentStep ==
  ASSUME IInv, IInv', KeepsFiles, Stored, Used' = Used, \A k \in Used : dir'[k] = dir[k],
         pc # "idle", pc' # "idle", req' = req
  PROVE  FileStep
<1>1. View' = View /\ Stored'
  BY FilesStay
<1>2. Called' = Called
  BY DEF Called
<1>3. Answered' = Answered
  BY DEF Answered
<1>. QED  BY <1>1, <1>2, <1>3 DEF FileStep, Files!vars

\* A call that returns without touching the files only answers.
LEMMA AnswerStep ==
  ASSUME IInv, IInv', KeepsFiles, Stored, dir' = dir, NEW st, Return(st), pc # "idle"
  PROVE  /\ Stored' /\ View' = View
         /\ Called' = Files!NoRequest /\ Answered' = st
         /\ Called.op = req.op /\ Called.name = req.name
<1>1. Used' = Used
  BY SameDirectory
<1>2. View' = View /\ Stored'
  BY <1>1, FilesStay
<1>3. Called' = Files!NoRequest
  BY DEF Return, Called, Files!NoRequest
<1>4. Answered' = st
  BY DEF Return, Answered
<1>5. Called.op = req.op /\ Called.name = req.name
  BY CallIs DEF CallSound
<1>. QED  BY <1>2, <1>3, <1>4, <1>5

\* A call that fails leaves nothing under its name, if it is a write.
LEMMA FailStep ==
  ASSUME IInv, IInv', KeepsFiles, Stored, dir' = dir, pc # "idle",
         NEW st \in {"NOT_FOUND", "DISK_FULL", "ERROR_WRITE"}, Return(st),
         \/ req.op = "mkdir"
         \/ req.op = "write" /\ \A k \in Used : dir[k].name # req.name
  PROVE  FileStep
<1>1. Stored' /\ View' = View /\ Called' = Files!NoRequest /\ Answered' = st
      /\ Called.op = req.op /\ Called.name = req.name
  BY AnswerStep
<1>2. req.op = "write" => View[req.name] = Absent
  BY ViewIs DEF IInv, EntryRoom, ViewSound
<1>3. Files!Fail
  BY <1>1, <1>2 DEF Files!Fail, Files!Answer
<1>. QED  BY <1>1, <1>3 DEF FileStep, Files!Next

LEMMA DeletedStep ==
  ASSUME IInv, IInv', KeepsFiles, Stored, dir' = dir, pc # "idle", req.op = "delete",
         NEW st \in {"SUCCESS", "NOT_FOUND"}, Return(st), \A k \in Used : dir[k].name # req.name
  PROVE  FileStep
<1>1. Stored' /\ View' = View /\ Called' = Files!NoRequest /\ Answered' = st
      /\ Called.op = req.op /\ Called.name = req.name
  BY AnswerStep
<1>2. View[req.name] = Absent
  BY ViewIs DEF IInv, EntryRoom, ViewSound
<1>3. Files!Deleted
  BY <1>1, <1>2 DEF Files!Deleted, Files!Answer
<1>. QED  BY <1>1, <1>3 DEF FileStep, Files!Next

LEMMA BeginStep ==
  ASSUME IInv, IInv', KeepsFiles, Stored, NEW n \in Name, NEW s,
         NEW op \in {"write", "delete", "mkdir"}, op = "write" => s \in Payload,
         NEW at \in {"scan", "mkdir"}, Enter(op, n, s, at)
  PROVE  FileStep
<1>1. Used' = Used /\ dir' = dir
  BY SameDirectory DEF Enter, disk
<1>2. View' = View /\ Stored'
  BY <1>1, FilesStay
<1>3. Called = Files!NoRequest
  BY DEF Enter, Called, Files!NoRequest
<1>4. Called' = [op |-> op, name |-> n, arg |-> IF op = "write" THEN s ELSE Absent]
  <2>1. req' = [op |-> op, name |-> n, arg |-> s] /\ pc' # "idle"
    BY DEF Enter
  <2>. QED  BY <2>1, CallIsNext DEF CallSound
<1>5. Answered' = "busy"
  BY DEF Enter, Answered
<1>6. Files!Begin
  <2>1. CASE op = "write"
    BY <1>2, <1>3, <1>4, <1>5, <2>1 DEF Files!Begin
  <2>2. CASE op # "write"
    BY <1>2, <1>3, <1>4, <1>5, <2>2 DEF Files!Begin
  <2>. QED  BY <2>1, <2>2
<1>. QED  BY <1>2, <1>6 DEF FileStep, Files!Next

LEMMA MoveStep ==
  ASSUME IInv, IInv', KeepsFiles, Stored, NEW old \in Name, NEW new \in Name, Rename(old, new)
  PROVE  FileStep
<1>1. Called = Files!NoRequest /\ Called' = Called /\ Answered' = status'
  BY DEF Rename, Called, Answered, Files!NoRequest
<1>2. ASSUME NEW k \in Slots, Lookup(old, k), ~Exists(new), dir' = [dir EXCEPT ![k].name = new],
             status' = "SUCCESS"
      PROVE  FileStep
  <2>1. k \in Used /\ dir[k].name = old
    BY <1>2 DEF Lookup, Used
  <2>2. \A j \in Used : dir[j].name # new
    BY <1>2, LookupFinds DEF IInv, TypeOK
  <2>3. /\ View' = [View EXCEPT ![new] = View[old], ![old] = Absent]
        /\ View[new] = Absent /\ Stored'
    BY <1>2, <2>1, <2>2, FileRenamed
  <2>4. View[old] # Absent
    BY <2>1, ViewIs, ViewAssumption DEF ViewSound, ViewAssumption, Stored, Value
  <2>5. Files!Rename
    BY <1>1, <1>2, <2>3, <2>4 DEF Files!Rename
  <2>. QED  BY <2>3, <2>5 DEF FileStep, Files!Next
<1>3. CASE dir' = dir /\ status' = "RENAME_REFUSED"
  <2>1. Used' = Used
    BY <1>3, SameDirectory
  <2>2. View' = View /\ Stored'
    BY <1>3, <2>1, FilesStay
  <2>3. Files!Rename
    BY <1>1, <1>3, <2>2 DEF Files!Rename
  <2>. QED  BY <2>2, <2>3 DEF FileStep, Files!Next
<1>. QED  BY <1>2, <1>3 DEF Rename

LEMMA UnlinkStep ==
  ASSUME IInv, IInv', Ops, KeepsFiles, Stored, MarkDeleted
  PROVE  FileStep
<1>1. PICK k \in Slots : Lookup(req.name, k) /\ dir' = [dir EXCEPT ![k] = DeletedSlot]
  BY DEF MarkDeleted
<1>2. pc = "scan" /\ pc' = "free" /\ req' = req
  BY DEF MarkDeleted
<1>3. k \in Used /\ dir[k].name = req.name /\ req.op \in {"write", "delete"}
  BY <1>1, <1>2 DEF Lookup, Used, IInv, EntryRoom, Ops
<1>4. DOMAIN dir = Slots
  BY DEF IInv, TypeOK, DiskOK, Slots
<1>5. Used' = Used \ {k} /\ \A j \in Used' : dir'[j] = dir[j]
  <2>1. Slots' = Slots /\ dir'[k].name = DEL /\ \A j \in Slots : j # k => dir'[j] = dir[j]
    BY <1>1, <1>4 DEF IInv, TypeOK, DiskOK, Slots, DeletedSlot, EmptySlot
  <2>. QED  BY <2>1, NameAssumption DEF Used, NameAssumption
<1>6. View' = [View EXCEPT ![req.name] = Absent] /\ Stored'
  BY <1>3, <1>5, FileRemoved
<1>7. View[req.name] # Absent
  BY <1>3, ViewIs, ViewAssumption DEF ViewSound, ViewAssumption, Stored, Value
<1>8. Called.op = req.op /\ Called.name = req.name /\ Called' = Called /\ Answered' = Answered
  BY <1>2, CallIs DEF CallSound, Called, Answered
<1>9. Files!Remove
  BY <1>3, <1>6, <1>7, <1>8 DEF Files!Remove
<1>. QED  BY <1>6, <1>9 DEF FileStep, Files!Next

LEMMA PublishedStep ==
  ASSUME IInv, IInv', Ops, Built, KeepsFiles, Stored, pc \in {"slot", "entry"}, NEW k \in Slots, Vacant(k),
         dir' = [dir EXCEPT ![k] = NewEntry], UNCHANGED <<fat, data>>, Return("SUCCESS")
  PROVE  FileStep
<1>1. k \notin Used /\ DOMAIN dir = Slots
  BY VacantUnused DEF IInv, TypeOK, DiskOK, Slots
<1>2. req.name \in Name
  BY DEF IInv, EntryRoom
<1>3. Slots' = Slots /\ dir'[k] = NewEntry /\ \A j \in Slots : j # k => dir'[j] = dir[j]
  BY <1>1 DEF IInv, TypeOK, DiskOK, Slots
<1>4. Used' = Used \cup {k} /\ \A j \in Used : dir'[j] = dir[j]
  BY <1>1, <1>2, <1>3, NewEntryFields DEF Used
<1>5. dir'[k].name = req.name
  BY <1>3, NewEntryFields
<1>6. /\ View' = [View EXCEPT ![req.name] = Value(k)']
      /\ View[req.name] = Absent
      /\ (dir'[k].folder \/ Value(k)' \in Payload) => Stored'
  BY <1>1, <1>4, <1>5, FilePublished
<1>7. /\ Called.op = req.op /\ Called.name = req.name /\ (req.op = "write" => Called.arg = req.arg)
      /\ Called' = Files!NoRequest /\ Answered' = "SUCCESS"
  BY CallIs, CallIsNext DEF CallSound, Return, Answered
<1>8. CASE req.op = "mkdir"
  <2>1. dir'[k].folder /\ Value(k)' = Folder
    BY <1>3, <1>8 DEF NewEntry, FolderSlot, Value
  <2>2. Files!MakeFolder
    BY <1>6, <1>7, <1>8, <2>1 DEF Files!MakeFolder, Files!Answer
  <2>. QED  BY <1>6, <2>1, <2>2 DEF FileStep, Files!Next
<1>9. CASE req.op = "write"
  <2>1. ~dir'[k].folder /\ dir'[k].first = first_c /\ dir'[k].size = Len(req.arg)
    BY <1>3, <1>9 DEF NewEntry, FileSlot
  <2>2. Value(k)' = Contents(fat, data, first_c, Len(req.arg))
    BY <2>1 DEF Value
  <2>3. Value(k)' = req.arg /\ req.arg \in Payload
    BY <1>9, <2>2 DEF Built, Ops
  <2>4. Files!Put
    BY <1>6, <1>7, <1>9, <2>3 DEF Files!Put, Files!Answer
  <2>. QED  BY <1>6, <2>3, <2>4 DEF FileStep, Files!Next
<1>. QED  BY <1>8, <1>9 DEF Ops
LEMMA FilesStep == RInv /\ [Next]_vars => FileStep
<1>. SUFFICES ASSUME RInv, [Next]_vars PROVE FileStep
  OBVIOUS
<1>0. IInv /\ IInv' /\ KeepsFiles /\ Stored /\ Ops /\ Built
  BY IInvStep, FilesKept DEF RInv
<1>. USE <1>0
<1>1. CASE Issue
  <2>1. ASSUME NEW n \in Name, NEW s \in Payload, WriteFile(n, s) PROVE FileStep
    BY <2>1, BeginStep DEF WriteFile
  <2>2. ASSUME NEW n \in Name, DeleteFile(n) PROVE FileStep
    BY <2>2, BeginStep DEF DeleteFile
  <2>3. ASSUME NEW n \in Name, CreateDir(n) PROVE FileStep
    BY <2>3, BeginStep DEF CreateDir
  <2>. QED  BY <1>1, <2>1, <2>2, <2>3, MoveStep DEF Issue
<1>2. CASE MarkDeleted
  BY <1>2, UnlinkStep
<1>3. CASE NothingToDelete
  <2>1. pc = "scan" /\ dir' = dir /\ ~Exists(req.name)
    BY <1>3 DEF NothingToDelete, disk
  <2>2. CASE pc' = "alloc" /\ req' = req
    BY <2>1, <2>2, SameDirectory, SilentStep
  <2>3. CASE req.op = "delete" /\ Return("NOT_FOUND")
    <3>1. \A k \in Used : dir[k].name # req.name
      BY <2>1, LookupFinds DEF IInv, EntryRoom, TypeOK
    <3>. QED  BY <2>1, <2>3, <3>1, DeletedStep
  <2>. QED  BY <1>3, <2>2, <2>3 DEF NothingToDelete, locals
<1>4. CASE ChainFreed
  <2>1. pc \in {"free", "rollback"} /\ dir' = dir
    BY <1>4 DEF ChainFreed, disk
  <2>2. CASE pc = "free" /\ pc' = "alloc" /\ req' = req
    BY <2>1, <2>2, SameDirectory, SilentStep
  <2>3. CASE pc = "free" /\ req.op = "delete" /\ Return("SUCCESS")
    <3>1. \A k \in Used : dir[k].name # req.name
      BY <2>3 DEF IInv, EntryRoom
    <3>. QED  BY <2>1, <2>3, <3>1, DeletedStep
  <2>4. CASE pc = "rollback" /\ Return(status)
    <3>1. /\ req.op = "write" /\ status \in {"DISK_FULL", "ERROR_WRITE"}
          /\ \A k \in Used : dir[k].name # req.name
      BY <2>4 DEF Ops
    <3>. QED  BY <2>1, <2>4, <3>1, FailStep
  <2>. QED  BY <1>4, <2>2, <2>3, <2>4 DEF ChainFreed
<1>5. CASE FreeNext \/ Allocate \/ Fill \/ Seal \/ DataWritten \/ SealExtension \/ MkdirTakes
           \/ DiskFull \/ FillFails \/ NoRoom
  <2>1. pc # "idle" /\ pc' # "idle" /\ UNCHANGED <<dir, req>>
    BY <1>5 DEF FreeNext, Allocate, Fill, Seal, DataWritten, SealExtension, MkdirTakes, DiskFull,
       FillFails, NoRoom, RollBack, disk, locals
  <2>. QED  BY <2>1, SameDirectory, SilentStep
<1>6. CASE TakeSlot
  <2>1. PICK k \in Slots : FirstVacant(k) /\ dir' = [dir EXCEPT ![k] = NewEntry]
    BY <1>6 DEF TakeSlot
  <2>2. pc = "slot" /\ Vacant(k) /\ UNCHANGED <<fat, data>> /\ Return("SUCCESS")
    BY <1>6, <2>1 DEF TakeSlot, FirstVacant
  <2>. QED  BY <2>1, <2>2, PublishedStep
<1>7. CASE FirstEntry
  <2> DEFINE k == Len(dir) - SlotsPerCluster + 1
  <2>1. k \in Slots /\ Vacant(k)
    <3>1. pc = "entry" /\ EntryRoom /\ Len(dir) \in Nat
      BY <1>7 DEF FirstEntry, IInv, TypeOK, DiskOK
    <3>2. Len(dir) > SlotsPerCluster /\ SlotsPerCluster \in Nat \ {0}
      BY <3>1, ConstantFacts DEF EntryRoom
    <3>3. k \in Slots /\ k > Len(dir) - SlotsPerCluster
      BY <3>1, <3>2 DEF Slots
    <3>. HIDE DEF k
    <3>. QED  BY <3>1, <3>3 DEF EntryRoom
  <2>2. /\ pc = "entry" /\ dir' = [dir EXCEPT ![k] = NewEntry] /\ UNCHANGED <<fat, data>>
        /\ Return("SUCCESS")
    BY <1>7 DEF FirstEntry
  <2>. HIDE DEF k
  <2>. QED  BY <2>1, <2>2, PublishedStep
<1>8. CASE FindRoom
  <2>1. pc = "slot" /\ dir' = dir
    BY <1>8 DEF FindRoom, disk
  <2>2. CASE pc' = "extend" /\ req' = req
    BY <2>1, <2>2, SameDirectory, SilentStep
  <2>3. CASE req.op = "mkdir" /\ Return("DISK_FULL")
    BY <2>1, <2>3, FailStep
  <2>. QED  BY <1>8, <2>2, <2>3 DEF FindRoom
<1>9. CASE LinkExtension
  <2>1. /\ pc = "link" /\ pc' = "entry" /\ req' = req
        /\ dir' = [k \in 1 .. Len(dir) + SlotsPerCluster |->
                     IF k <= Len(dir) THEN dir[k] ELSE EmptySlot]
    BY <1>9 DEF LinkExtension, locals
  <2>2. Len(dir) \in Nat /\ SlotsPerCluster \in Nat
    BY ConstantFacts DEF IInv, TypeOK, DiskOK
  <2>3. Len(dir') = Len(dir) + SlotsPerCluster
    <3>1. Len(dir') \in Nat /\ DOMAIN dir' = 1 .. Len(dir')
      BY DEF IInv, TypeOK, DiskOK
    <3>. QED  BY <2>1, <2>2, <3>1
  <2>4. \A k \in Slots' : IF k \in Slots THEN dir'[k] = dir[k] ELSE dir'[k] = EmptySlot
    BY <2>1, <2>2, <2>3 DEF Slots
  <2>5. Slots \subseteq Slots'
    BY <2>2, <2>3 DEF Slots
  <2>6. Used' = Used /\ \A k \in Used : dir'[k] = dir[k]
    BY <2>4, <2>5, NameAssumption DEF Used, EmptySlot, NameAssumption
  <2>. QED  BY <2>1, <2>6, SilentStep
<1>10. CASE MkdirRefused
  <2>1. pc = "mkdir" /\ dir' = dir /\ (Return("NOT_FOUND") \/ Return("DISK_FULL"))
    BY <1>10 DEF MkdirRefused, disk
  <2>2. req.op = "mkdir"
    BY <2>1 DEF Ops
  <2>. QED  BY <2>1, <2>2, FailStep
<1>11. CASE MkdirDots
  <2>1. pc = "dots" /\ dir' = dir /\ req.op = "mkdir"
    BY <1>11 DEF MkdirDots, disk, Ops
  <2>2. CASE pc' = "slot" /\ req' = req
    BY <2>1, <2>2, SameDirectory, SilentStep
  <2>3. CASE Return("DISK_FULL")
    BY <2>1, <2>3, FailStep
  <2>. QED  BY <1>11, <2>2, <2>3 DEF MkdirDots, locals
<1>12. CASE PowerLoss
  <2>1. pc # "idle" /\ Return("rebooted") /\ dir' = dir
    BY <1>12 DEF PowerLoss
  <2>2. Stored' /\ View' = View /\ Called' = Files!NoRequest /\ Answered' = "rebooted"
    BY <2>1, AnswerStep
  <2>3. Files!PowerLoss
    BY <2>2 DEF Files!PowerLoss
  <2>. QED  BY <2>2, <2>3 DEF FileStep, Files!Next
<1>13. CASE UNCHANGED vars
  <2>1. UNCHANGED <<dir, pc, req, status>>
    BY <1>13 DEF vars, disk, locals
  <2>2. View' = View /\ Stored'
    BY <2>1, SameDirectory, FilesStay
  <2>3. Called' = Called /\ Answered' = Answered
    BY <2>1 DEF Called, Answered
  <2>. QED  BY <2>2, <2>3 DEF FileStep, Files!vars
<1>. QED
  BY <1>1, <1>2, <1>3, <1>4, <1>5, <1>6, <1>7, <1>8, <1>9, <1>10, <1>11, <1>12, <1>13
  DEF Next, Step

\* The files are what FileStore says they are from the first state on, and in it.
LEMMA RInvInit == Init => RInv /\ Files!Init
<1>. SUFFICES ASSUME Init PROVE RInv /\ Files!Init
  OBVIOUS
<1>1. IInv
  BY IInvInit
<1>2. pc = "idle" /\ status = "SUCCESS"
  BY DEF Init
<1>3. Used = {}
  BY NameAssumption, ConstantFacts DEF Init, Used, Slots, EmptySlot, NameAssumption
<1>4. View = [n \in Name |-> Absent]
  BY <1>1, <1>3, ViewIs DEF ViewSound
<1>5. Files!Init
  BY <1>2, <1>4 DEF Files!Init, Files!NoRequest, Called, Answered
<1>6. Stored /\ Ops /\ Laid /\ Built
  BY <1>2, <1>3 DEF Stored, Ops, Laid, Built
<1>. QED  BY <1>1, <1>5, <1>6 DEF RInv

LEMMA RInvStep == RInv /\ [Next]_vars => RInv' /\ [Files!Next]_Files!vars
<1>. SUFFICES ASSUME RInv, [Next]_vars PROVE RInv' /\ [Files!Next]_Files!vars
  OBVIOUS
<1>1. IInv' /\ Ops'
  BY IInvStep, OpsStep DEF RInv
<1>2. FileStep
  BY FilesStep
<1>3. Laid'
  BY <1>1, LaidStep DEF RInv
<1>4. Built'
  BY <1>1, BuiltStep DEF RInv
<1>. QED  BY <1>1, <1>2, <1>3, <1>4 DEF RInv, FileStep

\* A caller of fat32_write_file, fat32_delete_file, fat32_create_dir and
\* fat32_rename sees the files of FileStore: whole or not there at all, holding
\* exactly what a call that succeeded was given, and changed only by calls on
\* their own name, with memory, disk and power failing anywhere in between.
THEOREM TheDriverIsAFileStore == Spec => ImplementsFileStore
  BY RInvInit, RInvStep, PTL DEF Spec, ImplementsFileStore, Files!Spec
=============================================================================
