---------------------------- MODULE AddressSpaces ----------------------------
(***************************************************************************)
(* Physical pages and the address spaces built of them: the bitmap of      *)
(* pmm.c, the page tables of vmm.c, the loader (create_elf_process, run by *)
(* task_c and task_d), and SYS_SBRK.                                       *)
(*                                                                         *)
(* One processor.  The loader runs with interrupts on and pmm.c turns none *)
(* off: the timer may take the processor from it between its reading of a  *)
(* word of the bitmap and its writing of it ("|=" and "&=" are a load and  *)
(* a store in the documented build, which asks gcc for no optimization).   *)
(* A system call runs with interrupts off: while one is under way (caller) *)
(* the loader stands still.                                                *)
(*                                                                         *)
(* An address space is a map from slots to frames: its tables, its pages,  *)
(* and the "hand", the frame a C local holds between pmm_alloc_block and   *)
(* the page table entry.  The pages of an area share one table.            *)
(***************************************************************************)
EXTENDS Integers

CONSTANTS Words, WordBits,   \* the bitmap: words, and bits of a word
          Reserved,          \* frames never released to pmm.c at boot
          KernelFrames,      \* frames the kernel heap may take before its limit
          Levels,            \* of tables under the PML4 (3 in the code)
          Space,             \* address spaces
          NoSpace,
          ImagePages, StackPages, HeapPages   \* the most pages of each area

ASSUME PagesAssumption ==
  /\ Words \in Nat \ {0} /\ WordBits \in Nat \ {0}
  /\ ImagePages \in Nat \ {0} /\ StackPages \in Nat \ {0} /\ HeapPages \in Nat
  /\ KernelFrames \in Nat /\ Levels \in Nat \ {0}
  /\ Reserved \subseteq 0 .. Words * WordBits - 1
  /\ NoSpace \notin Space

Word == 0 .. Words - 1
Frame == 0 .. Words * WordBits - 1
NoFrame == -1
WordOf(f) == f \div WordBits
InWord(w) == {f \in Frame : WordOf(f) = w}

(*********************************** slots *********************************)
Pml4 == <<"pml4", 0>>
Hand == <<"hand", 0>>
Table(area, level) == <<area, -level>>     \* of 3 levels: PDPT, PD, PT
Page(area, n) == <<area, n>>
Level == 1 .. Levels
Area == {"image", "stack", "heap"}
PageNumber(area) == 1 .. CASE area = "image" -> ImagePages
                           [] area = "stack" -> StackPages
                           [] area = "heap" -> HeapPages
Slot == {Pml4, Hand} \cup {Table(a, l) : a \in Area, l \in Level}
          \cup UNION {{Page(a, n) : n \in PageNumber(a)} : a \in Area}

Empty == [x \in Slot |-> NoFrame]

VARIABLES marked,    \* the bits that are 1
          last,      \* last_bit_index
          slots,     \* Space -> [Slot -> Frame or NoFrame]
          phase,     \* of each address space
          brk,       \* heap_end, in pages
          pc,        \* where the loader is
          loading,   \* the address space it builds
          at,        \* how far it has come
          i, index, frame, word,   \* the locals of its pmm_alloc_block
          caller, next, upto,      \* SYS_SBRK: who, next page, last page
          heap,      \* frames the kernel heap has taken
          kernel,    \* frames of the kernel (for properties)
          raced,     \* frames a call took or gave under the loader's hands
          leaked,    \* frames known to be lost
          quiet      \* no call has touched the bitmap in this search

bitmap == <<marked, last>>
programs == <<phase, brk>>
search == <<i, index, frame, word>>
loader == <<pc, loading, at, search>>
call == <<caller, next, upto>>
history == <<heap, kernel, raced, leaked, quiet>>
vars == <<bitmap, slots, programs, loader, call, history>>

Init == /\ marked = Reserved /\ last = 0
        /\ slots = [s \in Space |-> Empty]
        /\ phase = [s \in Space |-> "none"] /\ brk = [s \in Space |-> 0]
        /\ pc = "idle" /\ loading = NoSpace /\ at = 1
        /\ i = 0 /\ index = 0 /\ frame = NoFrame /\ word = {}
        /\ caller = NoSpace /\ next = 0 /\ upto = 0
        /\ heap = 0 /\ kernel = Reserved /\ raced = {} /\ leaked = {} /\ quiet = TRUE

(**************************** the bitmap, pmm.c ****************************)
Full(w) == InWord(w) \subseteq marked
\* "bsf" of the word's complement.
LowestFree(w, bits) == CHOOSE f \in InWord(w) \ bits : \A g \in InWord(w) \ bits : f <= g
\* The k-th word that a search looks at.
Probe(k) == (last + k) % Words

\* pmm_alloc_block with interrupts off: the first word that is not full.
OutOfFrames == \A w \in Word : Full(w)
AllocWord == Probe(CHOOSE k \in Word : ~Full(Probe(k)) /\ \A j \in 0 .. k - 1 : Full(Probe(j)))
Alloc == LowestFree(AllocWord, marked)

\* pmm_free_block moves the next search back to the word it freed a bit of.
LastAfterFree(f) == IF WordOf(f) < last THEN WordOf(f) ELSE last

\* The loader has read the word it is about to write.
Writing == pc \in {"store", "clear"}

\* A system call takes frame f. The loader may have picked it, or may write
\* back what the word was before.
Take(f) == /\ marked' = marked \cup {f} /\ last' = WordOf(f) /\ quiet' = FALSE
           /\ raced' = IF \/ pc = "mark" /\ f = frame
                          \/ Writing /\ WordOf(f) = WordOf(frame)
                       THEN raced \cup {f} ELSE raced

(*************************** page tables, vmm.c ****************************)
Missing(t, area) == {l \in Level : t[Table(area, l)] = NoFrame}
\* The tables are made from the top down.
NextTable(t, area) == Table(area, CHOOSE l \in Missing(t, area) : \A k \in Missing(t, area) : l <= k)

\* The page table entry is written once the three tables are there.
Place(t, page) ==
  IF t[Hand] # NoFrame /\ Missing(t, page[1]) = {}
  THEN [t EXCEPT ![page] = t[Hand], ![Hand] = NoFrame] ELSE t

\* What the next frame is for: the page itself, or a table it needs.
Goal(t, page) == IF t[Hand] = NoFrame THEN Hand ELSE NextTable(t, page[1])

(**************************** the loader, elf.c ****************************)
\* Frames are asked for in this order; the image's PDPT and PD come first.
Start == Levels + 1
Final == Levels + ImagePages + StackPages
Target(k) == CASE k = 1 -> Pml4
               [] k \in 2 .. Levels -> Table("image", k - 1)
               [] k \in Start .. Levels + ImagePages -> Page("image", k - Levels)
               [] OTHER -> Page("stack", k - Levels - ImagePages)

Running == caller = NoSpace   \* the loader may have the processor
Mine == slots[loading]

RestSearch == i' = 0 /\ index' = 0 /\ frame' = NoFrame /\ word' = {}
Search == pc' = "index" /\ quiet' = TRUE /\ RestSearch

\* On to target k, or to the copy of the segments.
Onward(k) == /\ at' = k
             /\ IF k > Final THEN pc' = "copy" /\ RestSearch /\ UNCHANGED quiet ELSE Search

GiveBack == pc' = "unload" /\ at' = 1 /\ RestSearch /\ UNCHANGED quiet

LoadBegins(s) ==
  /\ Running /\ pc = "idle" /\ phase[s] = "none"
  /\ phase' = [phase EXCEPT ![s] = "loading"] /\ loading' = s /\ at' = 1
  /\ Search
  /\ UNCHANGED <<bitmap, slots, brk, call, heap, kernel, raced, leaked>>

\* The header cannot be read or is no ELF's, or kmalloc fails.
BadFile ==
  /\ Running /\ pc = "index" /\ at = Start /\ i = 0 /\ Mine[Hand] = NoFrame
  /\ GiveBack
  /\ UNCHANGED <<bitmap, slots, programs, loading, call, heap, kernel, raced, leaked>>

\* pmm_alloc_block, where the timer may come in between any two steps.
ReadIndex ==
  /\ Running /\ pc = "index"
  /\ index' = Probe(i) /\ pc' = "word"
  /\ UNCHANGED <<bitmap, slots, programs, loading, at, i, frame, word, call, history>>

ReadWord ==
  /\ Running /\ pc = "word"
  /\ \/ /\ ~Full(index)
        /\ frame' = LowestFree(index, marked) /\ pc' = "mark"
        /\ UNCHANGED <<i, index>>
     \/ /\ Full(index) /\ i + 1 < Words
        /\ i' = i + 1 /\ index' = 0 /\ pc' = "index"
        /\ UNCHANGED frame
  /\ UNCHANGED <<bitmap, slots, programs, loading, at, word, call, history>>

ReadAgain ==
  /\ Running /\ pc = "mark"
  /\ word' = (marked \cap InWord(index)) \cup {frame} /\ pc' = "store"
  /\ UNCHANGED <<bitmap, slots, programs, loading, at, i, index, frame, call, history>>

\* The frame found goes to what it was asked for.
Granted(t) == LET x == IF at < Start THEN Target(at) ELSE Goal(t, Target(at))
              IN Place([t EXCEPT ![x] = frame], Target(at))

\* Mutant of StoreWord: the next search begins behind the word.
StoreWordBehind ==
  /\ Running /\ pc = "store"
  /\ marked' = (marked \ InWord(index)) \cup word /\ last' = index + 1
  /\ slots' = [slots EXCEPT ![loading] = Granted(@)]
  /\ Onward(IF Granted(Mine)[Hand] = NoFrame THEN at + 1 ELSE at)
  /\ UNCHANGED <<programs, loading, call, heap, kernel, raced, leaked>>

StoreWord ==
  /\ Running /\ pc = "store"
  /\ marked' = (marked \ InWord(index)) \cup word /\ last' = index
  /\ slots' = [slots EXCEPT ![loading] = Granted(@)]
  /\ Onward(IF Granted(Mine)[Hand] = NoFrame THEN at + 1 ELSE at)
  /\ UNCHANGED <<programs, loading, call, heap, kernel, raced, leaked>>

\* Mutant of NoFrameLeft: the search ends a word early.
NoFrameLeftEarly == pc = "word" /\ Full(index) /\ i + 2 >= Words

\* pmm_alloc_block gives NULL: every word it looked at was full.
NoFrameLeft == pc = "word" /\ Full(index) /\ i + 1 = Words

\* Without its tables or a page of its image a load fails.
LoadRefused ==
  /\ Running /\ NoFrameLeft /\ Mine[Hand] = NoFrame /\ at <= Levels + ImagePages
  /\ GiveBack
  /\ UNCHANGED <<bitmap, slots, programs, loading, call, heap, kernel, raced, leaked>>

\* A page of the stack that cannot be had is passed over.
StackPageSkipped ==
  /\ Running /\ NoFrameLeft /\ Mine[Hand] = NoFrame /\ at > Levels + ImagePages
  /\ Onward(at + 1)
  /\ UNCHANGED <<bitmap, slots, programs, loading, call, heap, kernel, raced, leaked>>

\* vmm_map_page_to_pml4 without a table maps nothing and says nothing.
NotMapped ==
  /\ Running /\ NoFrameLeft /\ Mine[Hand] # NoFrame
  /\ leaked' = leaked \cup {Mine[Hand]}
  /\ slots' = [slots EXCEPT ![loading][Hand] = NoFrame]
  /\ Onward(at + 1)
  /\ UNCHANGED <<bitmap, programs, loading, call, heap, kernel, raced>>

\* The segments are copied and create_process is called; interrupts are off.
Idle == pc' = "idle" /\ loading' = NoSpace /\ at' = 1 /\ UNCHANGED <<search, quiet>>

LoadSucceeds ==
  /\ Running /\ pc = "copy"
  /\ phase' = [phase EXCEPT ![loading] = "running"]
  /\ Idle
  /\ UNCHANGED <<bitmap, slots, brk, call, heap, kernel, raced, leaked>>

\* kmalloc has no buffer for the copy.
CopyFails ==
  /\ Running /\ pc = "copy"
  /\ GiveBack
  /\ UNCHANGED <<bitmap, slots, programs, loading, call, heap, kernel, raced, leaked>>

\* create_process answers -1, which "pid == 0" does not catch.
ProcessRefused ==
  /\ Running /\ pc = "copy"
  /\ leaked' = leaked \cup {Mine[x] : x \in {y \in Slot : Mine[y] # NoFrame}}
  /\ slots' = [slots EXCEPT ![loading] = Empty]
  /\ phase' = [phase EXCEPT ![loading] = "none"]
  /\ Idle
  /\ UNCHANGED <<bitmap, brk, call, heap, kernel, raced>>

\* The copy faults on a page that was not mapped, outside any K_TRY.
Panic ==
  /\ Running /\ pc = "copy"
  /\ \E n \in PageNumber("image") : Mine[Page("image", n)] = NoFrame
  /\ pc' = "panic"
  /\ UNCHANGED <<bitmap, slots, programs, loading, at, search, call, history>>

\* Mutant of Unloaded: the image's last table is forgotten.
UnloadedShort(k) == CASE k \in 1 .. ImagePages -> Page("image", k)
                      [] k \in ImagePages + 1 .. ImagePages + Levels - 1 ->
                           Table("image", ImagePages + Levels - k)
                      [] k = ImagePages + Levels -> Table("stack", 1)
                      [] OTHER -> Pml4

\* elf_unload_failed_pml4: the image's pages and tables, one level of the
\* other areas, and the PML4.
UnloadFinal == ImagePages + Levels + 2
Unloaded(k) == CASE k \in 1 .. ImagePages -> Page("image", k)
                 [] k \in ImagePages + 1 .. ImagePages + Levels ->
                      Table("image", ImagePages + Levels + 1 - k)
                 [] k = ImagePages + Levels + 1 -> Table("stack", 1)
                 [] OTHER -> Pml4

UnloadPasses ==
  /\ Running /\ pc = "unload" /\ at <= UnloadFinal /\ Mine[Unloaded(at)] = NoFrame
  /\ at' = at + 1
  /\ UNCHANGED <<bitmap, slots, programs, pc, loading, search, call, history>>

\* Mutant of UnloadReads: the free clears the whole word.
UnloadReadsNothing ==
  /\ Running /\ pc = "unload" /\ at <= UnloadFinal /\ Mine[Unloaded(at)] # NoFrame
  /\ LET f == Mine[Unloaded(at)]
     IN frame' = f /\ index' = WordOf(f) /\ word' = {}
  /\ pc' = "clear"
  /\ UNCHANGED <<bitmap, slots, programs, loading, at, i, call, history>>

\* pmm_free_block, its load and its store.
UnloadReads ==
  /\ Running /\ pc = "unload" /\ at <= UnloadFinal /\ Mine[Unloaded(at)] # NoFrame
  /\ LET f == Mine[Unloaded(at)]
     IN frame' = f /\ index' = WordOf(f) /\ word' = (marked \cap InWord(WordOf(f))) \ {f}
  /\ pc' = "clear"
  /\ UNCHANGED <<bitmap, slots, programs, loading, at, i, call, history>>

UnloadClears ==
  /\ Running /\ pc = "clear"
  /\ marked' = (marked \ InWord(index)) \cup word /\ last' = LastAfterFree(frame)
  /\ slots' = [slots EXCEPT ![loading][Unloaded(at)] = NoFrame]
  /\ pc' = "unload" /\ at' = at + 1 /\ RestSearch
  /\ UNCHANGED <<programs, loading, call, history>>

\* What is left of the address space is lost.
UnloadEnds ==
  /\ Running /\ pc = "unload" /\ at > UnloadFinal
  /\ leaked' = leaked \cup {Mine[x] : x \in {y \in Slot : y[1] = "stack" /\ Mine[y] # NoFrame}}
  /\ slots' = [slots EXCEPT ![loading] = Empty]
  /\ phase' = [phase EXCEPT ![loading] = "none"]
  /\ Idle
  /\ UNCHANGED <<bitmap, brk, call, heap, kernel, raced>>

(******************************* system calls ******************************)
\* A program has the processor and no call is under way.
Calls(s) == caller = NoSpace /\ pc # "panic" /\ phase[s] = "running"

\* SYS_SBRK with a positive increment that reaches new pages.
SbrkBegins(s) ==
  /\ Calls(s)
  /\ \E k \in 1 .. HeapPages - brk[s] : upto' = brk[s] + k
  /\ caller' = s /\ next' = brk[s] + 1
  /\ UNCHANGED <<bitmap, slots, programs, loader, history>>

\* With a negative one it lowers heap_end and gives nothing back.
SbrkShrinks(s) ==
  /\ Calls(s)
  /\ \E k \in 1 .. brk[s] : brk' = [brk EXCEPT ![s] = @ - k]
  /\ UNCHANGED <<bitmap, slots, phase, loader, call, history>>

Returns == caller' = NoSpace /\ next' = 0 /\ upto' = 0

\* One pmm_alloc_block of the call: a page, or a table that vmm_map_user needs.
\* A page mapped before, by a call that failed or shrank, is mapped over.
SbrkTakes ==
  LET page == Page("heap", next)
      t == slots[caller]
      got == Place([t EXCEPT ![Goal(t, page)] = Alloc], page)
      over == got[Hand] = NoFrame /\ t[page] # NoFrame
  IN /\ caller # NoSpace /\ ~OutOfFrames
     /\ Take(Alloc)
     /\ slots' = [slots EXCEPT ![caller] = got]
     /\ leaked' = IF over THEN leaked \cup {t[page]} ELSE leaked
     /\ IF got[Hand] # NoFrame THEN UNCHANGED <<brk, call>>
        ELSE IF next < upto THEN next' = next + 1 /\ UNCHANGED <<brk, caller, upto>>
        ELSE brk' = [brk EXCEPT ![caller] = upto] /\ Returns
     /\ UNCHANGED <<phase, loader, heap, kernel>>

\* Mutant of SbrkRefused: heap_end is raised to the page that was not had.
SbrkRefusedRaised ==
  /\ caller # NoSpace /\ OutOfFrames
  /\ brk' = [brk EXCEPT ![caller] = next]
  /\ UNCHANGED <<bitmap, slots, leaked, quiet>>
  /\ Returns
  /\ UNCHANGED <<phase, loader, heap, kernel, raced>>

\* It fails with -1: the frame in hand is freed, heap_end stays. The loader may
\* be about to mark that frame again.
SbrkRefused ==
  /\ caller # NoSpace /\ OutOfFrames
  /\ LET f == slots[caller][Hand]
     IN IF f = NoFrame THEN UNCHANGED <<bitmap, slots, leaked, quiet>>
        ELSE /\ marked' = marked \ {f} /\ last' = LastAfterFree(f) /\ quiet' = FALSE
             /\ slots' = [slots EXCEPT ![caller][Hand] = NoFrame]
             /\ leaked' = IF Writing /\ f \in word THEN leaked \cup {f} ELSE leaked
  /\ Returns
  /\ UNCHANGED <<programs, loader, heap, kernel, raced>>

\* The kernel heap grows by a frame, which stays the kernel's: with interrupts
\* off, in a program's call, another kernel task or the loader's own kmalloc.
KernelTakes ==
  /\ caller = NoSpace /\ pc # "panic" /\ ~OutOfFrames /\ heap < KernelFrames
  /\ Take(Alloc) /\ kernel' = kernel \cup {Alloc} /\ heap' = heap + 1
  /\ UNCHANGED <<slots, programs, loader, call, leaked>>

\* SYS_EXIT or SYS_KILL: a zombie, whose address space nobody takes down.
Exits(s) ==
  /\ Calls(s)
  /\ phase' = [phase EXCEPT ![s] = "zombie"]
  /\ UNCHANGED <<bitmap, slots, brk, loader, call, history>>

(******************************** the system *******************************)
Load == \/ \E s \in Space : LoadBegins(s)
        \/ BadFile \/ ReadIndex \/ ReadWord \/ ReadAgain \/ StoreWord
        \/ LoadRefused \/ StackPageSkipped \/ NotMapped
        \/ LoadSucceeds \/ CopyFails \/ ProcessRefused \/ Panic
        \/ UnloadPasses \/ UnloadReads \/ UnloadClears \/ UnloadEnds

Program == \E s \in Space : SbrkBegins(s) \/ SbrkShrinks(s) \/ Exits(s)

Next == Load \/ Program \/ KernelTakes \/ SbrkTakes \/ SbrkRefused

Spec == Init /\ [][Next]_vars

(******************************** properties *******************************)
Owned(s, x) == slots[s][x] # NoFrame

TypeOK ==
  /\ marked \subseteq Frame /\ last \in Word
  /\ slots \in [Space -> [Slot -> Frame \cup {NoFrame}]]
  /\ phase \in [Space -> {"none", "loading", "running", "zombie"}]
  /\ brk \in [Space -> 0 .. HeapPages]
  /\ pc \in {"idle", "index", "word", "mark", "store", "copy", "unload", "clear", "panic"}
  /\ loading \in Space \cup {NoSpace} /\ at \in Nat \ {0}
  /\ i \in Word /\ index \in Word /\ frame \in Frame \cup {NoFrame} /\ word \subseteq Frame
  /\ caller \in Space \cup {NoSpace} /\ next \in 0 .. HeapPages /\ upto \in 0 .. HeapPages
  /\ heap \in Nat /\ kernel \subseteq Frame /\ raced \subseteq Frame /\ leaked \subseteq Frame
  /\ quiet \in BOOLEAN

\* A frame has one use: no two slots of any two programs, and no slot and the
\* kernel, hold the same frame, and what is held is marked, through any loads,
\* failed loads, SBRKs and retries. The one way out is the race of pmm.c: a call
\* that took the frame while the loader stood between reading and writing its word.
Exclusive ==
  \A s \in Space : \A x \in Slot :
    LET f == slots[s][x]
    IN Owned(s, x) /\ f \notin raced =>
         /\ f \in marked /\ f \notin kernel
         /\ \A t \in Space : \A y \in Slot : slots[t][y] = f => t = s /\ y = x

\* No other frame is lost: one that is marked and that neither the kernel nor a
\* slot holds is one of those the code is known to lose (a failed load's stack, a
\* page without its table, a page mapped over, a process that was refused).
FramesAccounted ==
  \A f \in marked \ (kernel \cup leaked) : \E s \in Space : \E x \in Slot : slots[s][x] = f

\* The heap a program was told it has is there: below heap_end every page is
\* mapped, after calls that failed half way, shrank and grew again.
HeapMapped ==
  \A s \in Space : phase[s] = "running" =>
    \A n \in 1 .. brk[s] : /\ Owned(s, Page("heap", n))
                           /\ Missing(slots[s], "heap") = {}

\* The loader is told "NULL se a RAM estiver cheia" only when it is, whatever
\* last_bit_index was when the search began, if no call came in between: the
\* index is computed anew at every word, and a call that moves last_bit_index
\* makes the search skip words.
NullOnlyWhenFull == NoFrameLeft /\ quiet => marked = Frame
=============================================================================
