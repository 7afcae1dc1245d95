-------------------------------- MODULE Heap --------------------------------
(***************************************************************************)
(* The kernel's heap: a list of blocks from HEAP_START_SAFE up to          *)
(* heap_atual, first fit with a split, growth page by page, and kfree with *)
(* a merge on both sides.                                                  *)
(*                                                                         *)
(* One processor.  Between trava_adquirir and trava_liberar interrupts are *)
(* off, so a call is one step, but for a kernel task's first instructions, *)
(* which read RFLAGS into a register before the "cli"; the register goes   *)
(* to rflags_salvos, one place for everybody, after it.  Programs are in   *)
(* system calls, where interrupts are off already.                         *)
(***************************************************************************)
EXTENDS Integers, FiniteSets

CONSTANTS KernelTask,  \* callers that run with interrupts on
          Program,     \* callers inside system calls
          Sizes,       \* the sizes they ask for, in bytes
          Header,      \* sizeof(cabecalho_bloco_t)
          Align,       \* 16: what sizes are rounded up to
          Page,        \* 4096
          Limit        \* LIMITE_HEAP

ASSUME HeapAssumption ==
  /\ Sizes \subseteq Nat \ {0}
  /\ {Header, Align, Page, Limit} \subseteq Nat \ {0}
  /\ Header % Align = 0 /\ Page % Align = 0 /\ Page >= Header + Align /\ Limit > Page

Nil == -1
Caller == KernelTask \cup Program

VARIABLES block,       \* the headers in memory, by address: size, free, next, prev
          first, last, \* lista_livre_inicio, lista_livre_fim
          top,         \* heap_atual
          mapped,      \* heap_mapeado_fim
          saved,       \* the IF bit in rflags_salvos
          on,          \* kernel tasks with interrupts on
          register,    \* the IF bit each kernel task has read
          entering,    \* kernel tasks between "popq" and "cli"
          held         \* what callers have: [at, size, by]

list == <<block, first, last>>
bounds == <<top, mapped>>
flags == <<saved, on, register, entering>>
vars == <<list, bounds, flags, held>>

\* heap_init: one free block in the first page; expandir_heap(4096) maps two.
Init == /\ block = [a \in {0} |-> [size |-> Page - Header, free |-> TRUE,
                                   next |-> Nil, prev |-> Nil]]
        /\ first = 0 /\ last = 0
        /\ top = Page /\ mapped = 2 * Page
        /\ saved = FALSE /\ on = KernelTask
        /\ register = [t \in KernelTask |-> FALSE] /\ entering = {}
        /\ held = {}

(********************************* kmalloc *********************************)
Rounded(n) == ((n + Align - 1) \div Align) * Align
After(a) == a + Header + block[a].size
Fits(a, n) == block[a].free /\ block[a].size >= n
Fitting(n) == {a \in DOMAIN block : Fits(a, n)}
FirstFit(n) == CHOOSE a \in Fitting(n) : \A b \in Fitting(n) : a <= b

\* Mutant of Whole: the block is not marked.
WholeStillFree(a) == UNCHANGED <<block, first, last>>

\* Gives a block as it is, when what is left of it holds no block of its own.
Whole(a) == /\ block' = [block EXCEPT ![a].free = FALSE]
            /\ UNCHANGED <<first, last>>

\* Mutant of Split: the block behind keeps its old predecessor.
SplitNoBack(a, n) ==
  LET rest == a + Header + n
      b == block[a]
      new == [size |-> b.size - n - Header, free |-> TRUE, next |-> b.next, prev |-> a]
      cut == [size |-> n, free |-> FALSE, next |-> rest, prev |-> b.prev]
  IN /\ block' = [x \in DOMAIN block \cup {rest} |->
                    CASE x = a -> cut [] x = rest -> new [] OTHER -> block[x]]
     /\ last' = IF b.next = Nil THEN rest ELSE last
     /\ UNCHANGED first

\* Cuts n bytes off the front of a block; the rest becomes a free one behind it.
Split(a, n) ==
  LET rest == a + Header + n
      b == block[a]
      new == [size |-> b.size - n - Header, free |-> TRUE, next |-> b.next, prev |-> a]
      cut == [size |-> n, free |-> FALSE, next |-> rest, prev |-> b.prev]
  IN /\ block' = [x \in DOMAIN block \cup {rest} |->
                    CASE x = a -> cut [] x = rest -> new
                      [] x = b.next -> [block[x] EXCEPT !.prev = rest]
                      [] OTHER -> block[x]]
     /\ last' = IF b.next = Nil THEN rest ELSE last
     /\ UNCHANGED first

Take(a, n) == IF block[a].size >= n + Header + Align THEN Split(a, n) ELSE Whole(a)

\* Mutant of Pages: one page too few.
OnePageLess(need) == ((top + need - mapped) \div Page) * Page

\* Bytes expandir_heap maps for a block of that many at the top: pages, until
\* the block's end is strictly below the mapped end.
Pages(need) == IF top + need < mapped THEN 0
               ELSE ((top + need - mapped) \div Page + 1) * Page

\* Mutant of Grows: the limit is looked at without the block that is asked for.
GrowsPast(need) == top < Limit /\ mapped' = mapped + Pages(need)

\* expandir_heap: refused at the limit, or when the frames run out, which keeps
\* the pages mapped so far.
Grows(need) == top + need < Limit /\ mapped' = mapped + Pages(need)
CannotGrow(need) ==
  \/ top + need >= Limit /\ UNCHANGED mapped
  \/ /\ top + need < Limit
     /\ \E k \in 0 .. Pages(need) \div Page - 1 : mapped' = mapped + k * Page

\* A new block at the top, behind the last one (which stays free if it was).
Append(n) ==
  /\ Grows(Header + n)
  /\ block' = [x \in DOMAIN block \cup {top} |->
                 CASE x = top -> [size |-> n, free |-> FALSE, next |-> Nil, prev |-> last]
                   [] x = last -> [block[x] EXCEPT !.next = top]
                   [] OTHER -> block[x]]
  /\ last' = top /\ top' = top + Header + n
  /\ UNCHANGED first

Hand(t, a, n) == held' = held \cup {[at |-> a + Header, size |-> n, by |-> t]}

\* The body of kmalloc(n), for caller t.
Malloc(t, n) ==
  LET r == Rounded(n)
  IN \/ /\ Fitting(r) # {}
        /\ Take(FirstFit(r), r) /\ Hand(t, FirstFit(r), n) /\ UNCHANGED bounds
     \/ /\ Fitting(r) = {}
        /\ Append(r) /\ Hand(t, top, n)
     \/ /\ Fitting(r) = {} /\ CannotGrow(Header + r)
        /\ UNCHANGED <<list, top, held>>

(********************************** kfree **********************************)
\* A block swallows the one behind it.
Swallow(bs, a) ==
  LET b == bs[a].next
      c == bs[b].next
      grown == [bs[a] EXCEPT !.size = @ + Header + bs[b].size, !.next = c]
  IN [x \in DOMAIN bs \ {b} |->
        CASE x = a -> grown
          [] x = c -> [bs[x] EXCEPT !.prev = a]
          [] OTHER -> bs[x]]

Joins(bs, a) == /\ a # Nil /\ bs[a].next # Nil
                /\ bs[a].free /\ bs[bs[a].next].free
                /\ a + Header + bs[a].size = bs[a].next
Merged(bs, a) == IF Joins(bs, a) THEN Swallow(bs, a) ELSE bs

\* Mutant of Free: only the block behind is looked at.
FreeForward(a) ==
  LET done == Merged([block EXCEPT ![a].free = TRUE], a)
  IN /\ block' = done
     /\ last' = IF last \in DOMAIN done THEN last ELSE a
     /\ UNCHANGED <<first, bounds>>

\* The body of kfree for the block at a: merged with the one behind it, then
\* with the one before it.
Free(a) ==
  LET behind == Merged([block EXCEPT ![a].free = TRUE], a)
      done == Merged(behind, behind[a].prev)
      end == {x \in DOMAIN done : done[x].next = Nil}
  IN /\ block' = done
     /\ last' = IF last \in DOMAIN done THEN last ELSE CHOOSE x \in end : TRUE
     /\ UNCHANGED <<first, bounds>>

GiveBack(t) == \E h \in held : /\ h.by = t /\ held' = held \ {h}
                               /\ Free(h.at - Header)

(************************* the lock and the callers ************************)
\* A kernel task with interrupts off keeps the processor.
MayRun(t) == KernelTask \ on \subseteq {t}

Body(t) == (\E n \in Sizes : Malloc(t, n)) \/ GiveBack(t)

\* kmalloc, kfree or kmalloc_stats in a system call: off before, off after.
Call(t) == /\ t \in Program /\ MayRun(t)
           /\ Body(t) \/ UNCHANGED <<list, bounds, held>>
           /\ saved' = FALSE /\ UNCHANGED <<on, register, entering>>

\* "pushfq; popq" of a kernel task.
SaveFlags(t) == /\ t \in KernelTask \ entering /\ MayRun(t)
                /\ register' = [register EXCEPT ![t] = t \in on]
                /\ entering' = entering \cup {t}
                /\ UNCHANGED <<list, bounds, saved, on, held>>

\* Mutant of Locked: trava_liberar always turns interrupts on.
LockedThenOn(t) == /\ t \in entering /\ MayRun(t)
                   /\ saved' = register[t]
                   /\ Body(t)
                   /\ on' = on \cup {t}
                   /\ entering' = entering \ {t} /\ UNCHANGED register

\* From "cli" to trava_liberar, which turns interrupts on if rflags_salvos says so.
Locked(t) == /\ t \in entering /\ MayRun(t)
             /\ saved' = register[t]
             /\ Body(t)
             /\ on' = IF saved' THEN on \cup {t} ELSE on \ {t}
             /\ entering' = entering \ {t} /\ UNCHANGED register

\* The loader reads a program into its pages between a "cli" and a "sti" of its
\* own, and allocates in between.
Cli(t) == /\ t \in on \ entering /\ MayRun(t)
          /\ on' = on \ {t}
          /\ UNCHANGED <<list, bounds, saved, register, entering, held>>
Sti(t) == /\ t \in KernelTask \ (on \cup entering)
          /\ on' = on \cup {t}
          /\ UNCHANGED <<list, bounds, saved, register, entering, held>>

Next == \E t \in Caller : Call(t) \/ SaveFlags(t) \/ Locked(t) \/ Cli(t) \/ Sti(t)
Spec == Init /\ [][Next]_vars

(******************************** properties *******************************)
BlockHeader == [size : Nat, free : BOOLEAN, next : Nat \cup {Nil}, prev : Nat \cup {Nil}]

TypeOK ==
  /\ DOMAIN block \subseteq 0 .. top /\ block \in [DOMAIN block -> BlockHeader]
  /\ first \in DOMAIN block /\ last \in DOMAIN block
  /\ top \in 0 .. Limit - 1 /\ mapped \in top + 1 .. Limit + Page
  /\ saved \in BOOLEAN /\ on \subseteq KernelTask /\ entering \subseteq KernelTask
  /\ register \in [KernelTask -> BOOLEAN]
  /\ held \subseteq [at : 0 .. Limit, size : Sizes, by : Caller]

\* The blocks cover the heap from its start to heap_atual without a gap and
\* without an overlap, in list order, and the links lead back as they lead
\* forth: what the address tests of kfree and the walk of kmalloc rely on,
\* through any order of splits, growth and merges.
Tiled ==
  /\ first = 0
  /\ \A a \in DOMAIN block :
       IF After(a) = top THEN a = last /\ block[a].next = Nil
       ELSE block[a].next = After(a) /\ After(a) \in DOMAIN block /\ block[After(a)].prev = a
  /\ block[first].prev = Nil

\* No two free blocks are neighbours, so memory given back is whole again: a
\* heap whose callers returned everything is one free block, up to the top.
NoFreeNeighbours ==
  \A a \in DOMAIN block : block[a].free /\ block[a].next # Nil => ~block[block[a].next].free

\* Every byte of a header or a payload is on a mapped page, below the limit;
\* the pages mapped by a growth that failed half-way are used by the next.
InMappedMemory == \A a \in DOMAIN block : After(a) <= mapped /\ After(a) < Limit

\* kmalloc and kfree are Allocator's Give and TakeBack: nobody's memory is given
\* to another, shortened or taken away by what others allocate and free.
A == INSTANCE Allocator WITH given <- {[at |-> h.at, size |-> h.size] : h \in held}
ImplementsAllocator == A!Spec

\* "Só religa se estava ligado antes": whoever uses the heap while a kernel task
\* is on its way in, the task leaves it with interrupts as they were; with them
\* on too early, the loader is preempted in the middle of another address space.
InterruptsKept ==
  [][\A t \in entering \ entering' : t \in on <=> t \in on']_vars
=============================================================================
