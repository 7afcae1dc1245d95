------------------------- MODULE AddressSpacesProofs -------------------------
(***************************************************************************)
(* AddressSpaces for any bitmap, any number of address spaces, any depth   *)
(* of tables and any sizes of areas: its types, and that frames outside    *)
(* the race of pmm.c have one use, that no others are lost than those the  *)
(* code is known to lose, that the heap a program was told it has is       *)
(* mapped, and that an undisturbed search gives NULL only when memory is   *)
(* full.                                                                   *)
(*                                                                         *)
(* The invariant says what each local of the loader's pmm_alloc_block and  *)
(* pmm_free_block still tells about the bitmap when other steps came in    *)
(* between (Picked), what is not yet filled of the address space it builds *)
(* or not yet emptied of the one it takes down (Progress), and what        *)
(* SYS_SBRK has mapped so far (CallHeap).                                  *)
(***************************************************************************)
EXTENDS AddressSpaces, BasicTheorems

Stages == /\ pc = "idle" => loading = NoSpace
          /\ pc # "idle" => loading \in Space /\ phase[loading] = "loading"
          /\ pc \in {"index", "word", "mark", "store"} => at \in 1 .. Final
          /\ pc \in {"unload", "clear"} => at \in 1 .. UnloadFinal + 1
          /\ pc = "clear" => at <= UnloadFinal
          /\ caller \in Space => /\ phase[caller] = "running"
                                 /\ next \in 1 .. HeapPages /\ upto \in next .. HeapPages

\* What the locals of the loader's call know.
Picked ==
  /\ pc \in {"mark", "store", "clear"} => frame \in Frame /\ index = WordOf(frame)
  /\ pc \in {"mark", "store"} /\ frame \in marked => frame \in raced
  /\ pc = "store" => frame \in word
  /\ pc = "clear" => frame \notin word /\ slots[loading][Unloaded(at)] = frame
  /\ pc \in {"store", "clear"} =>
       /\ \A f \in marked : WordOf(f) = index => f \in raced \/ f \in word \/ f = frame
       /\ word \subseteq marked \cup leaked \cup {frame}

KernelMarked == kernel \subseteq marked \cup raced

\* What the loader has not filled yet, and what it has emptied again.
Progress ==
  /\ pc \in {"index", "word", "mark", "store"} =>
       /\ \A k \in at .. Final : Mine[Target(k)] = NoFrame
       /\ Mine[Hand] # NoFrame => at >= Start /\ Missing(Mine, Target(at)[1]) # {}
  /\ pc \in {"copy", "unload", "clear"} => Mine[Hand] = NoFrame
  /\ pc \in {"unload", "clear"} => \A k \in 1 .. at - 1 : Mine[Unloaded(k)] = NoFrame

\* An address space that no program has is empty; one that was never run has no heap.
Unborn == \A s \in Space :
            /\ phase[s] = "none" => slots[s] = Empty
            /\ phase[s] \in {"none", "loading"} =>
                 brk[s] = 0 /\ \A x \in Slot : x[1] = "heap" => slots[s][x] = NoFrame

Hands == \A s \in Space : phase[s] = "running" /\ slots[s][Hand] # NoFrame =>
           s = caller /\ Missing(slots[s], "heap") # {}

CallHeap == caller \in Space =>
  \A n \in 1 .. next - 1 : Owned(caller, Page("heap", n)) /\ Missing(slots[caller], "heap") = {}

Searched == quiet /\ pc \in {"index", "word"} =>
  /\ \A j \in 0 .. i - 1 : Full(Probe(j))
  /\ pc = "word" => index = Probe(i)

AInv == /\ TypeOK /\ Stages /\ Picked /\ KernelMarked /\ Progress /\ Unborn /\ Hands
        /\ CallHeap /\ Searched /\ Exclusive /\ FramesAccounted /\ HeapMapped

-----------------------------------------------------------------------------
LEMMA ConstantFacts ==
  /\ Words \in Nat \ {0} /\ WordBits \in Nat \ {0} /\ HeapPages \in Nat
  /\ ImagePages \in Nat \ {0} /\ StackPages \in Nat \ {0} /\ Levels \in Nat \ {0}
  /\ Reserved \subseteq Frame /\ NoSpace \notin Space /\ NoFrame \notin Frame
  /\ Frame \subseteq Nat /\ Word \subseteq Nat /\ 0 \in Word
  BY PagesAssumption DEF PagesAssumption, Frame, Word, NoFrame

\* The word of a frame is a word of the bitmap.
LEMMA WordOfFrame ==
  ASSUME NEW f \in Frame
  PROVE  WordOf(f) \in Word
<1>1. f \in Nat /\ f < Words * WordBits /\ Words \in Nat /\ WordBits \in Nat /\ WordBits > 0
  BY ConstantFacts DEF Frame
<1> DEFINE q == f \div WordBits
<1>2. q \in Nat /\ WordBits * q <= f
  BY <1>1
<1>3. ~ (q >= Words)
  <2>1. SUFFICES ASSUME q >= Words PROVE FALSE
    OBVIOUS
  <2>2. PICK d \in Nat : q = Words + d
    BY <1>1, <1>2, <2>1
  <2>3. WordBits * q = Words * WordBits + WordBits * d
    BY <1>1, <2>2
  <2>4. WordBits * d >= 0
    BY <1>1, <2>2
  <2>. QED  BY <1>1, <1>2, <2>3, <2>4
<1>. QED  BY <1>1, <1>2, <1>3 DEF WordOf, Word

\* A search that starts anywhere looks at words only, and comes past every one.
LEMMA ProbeReaches ==
  ASSUME last \in Word
  PROVE  /\ \A k \in Nat : Probe(k) \in Word
         /\ \A w \in Word : \E k \in Word : Probe(k) = w
<1>1. last \in Nat /\ last < Words /\ Words \in Nat \ {0}
  BY ConstantFacts DEF Word
<1>2. \A k \in Nat : Probe(k) \in Word
  BY <1>1 DEF Probe, Word
<1>3. ASSUME NEW w \in Word
      PROVE  \E k \in Word : Probe(k) = w
  <2>1. w \in Nat /\ w < Words
    BY <1>1 DEF Word
  <2>2. CASE w >= last
    <3>1. w - last \in Word /\ last + (w - last) = w
      BY <1>1, <2>1, <2>2 DEF Word
    <3>. QED  BY <1>1, <2>1, <3>1 DEF Probe
  <2>3. CASE w < last
    <3>1. w + Words - last \in Word /\ last + (w + Words - last) = w + Words
      BY <1>1, <2>1, <2>3 DEF Word
    <3>2. (w + Words) % Words = w
      BY <1>1, <2>1
    <3>. QED  BY <3>1, <3>2 DEF Probe
  <2>. QED  BY <1>1, <2>1, <2>2, <2>3
<1>. QED  BY <1>2, <1>3

\* "bsf" finds a bit that is 0 if there is one.
LEMMA LowestFreeIsFree ==
  ASSUME NEW w, NEW bits, ~ (InWord(w) \subseteq bits)
  PROVE  LowestFree(w, bits) \in InWord(w) \ bits
<1>1. InWord(w) \ bits # {} /\ InWord(w) \ bits \subseteq Nat
  BY ConstantFacts DEF InWord
<1>2. \E f \in InWord(w) \ bits : \A g \in InWord(w) \ bits : f <= g
  BY <1>1, Least
<1>. QED  BY <1>2 DEF LowestFree

\* A call that is not told NULL gets a frame that was free.
LEMMA AllocIsFree ==
  ASSUME last \in Word, ~OutOfFrames
  PROVE  Alloc \in Frame \ marked
<1> DEFINE found == {k \in Word : ~Full(Probe(k))}
<1>1. found # {} /\ found \subseteq Nat
  BY ProbeReaches, ConstantFacts DEF OutOfFrames
<1>2. PICK k \in found : \A j \in found : k <= j
  BY <1>1, Least
<1>3. k \in Word /\ ~Full(Probe(k)) /\ \A j \in 0 .. k - 1 : Full(Probe(j))
  <2>1. k \in Nat /\ k < Words /\ k \in Word
    BY ConstantFacts DEF Word
  <2>2. \A j \in 0 .. k - 1 : j \in Word /\ j < k
    BY <2>1, ConstantFacts DEF Word
  <2>. QED  BY <1>2, <2>1, <2>2
<1>4. ~Full(AllocWord)
  BY <1>3 DEF AllocWord
<1>. QED  BY <1>4, LowestFreeIsFree DEF Alloc, Full, InWord

-----------------------------------------------------------------------------
\* Slots are told apart by their area and by the sign of their number.
LEMMA SlotFacts ==
  /\ Pml4 \in Slot /\ Hand \in Slot /\ Hand # Pml4 /\ Hand[1] \notin Area /\ Pml4[1] \notin Area
  /\ \A a \in Area : \A l \in Level :
       /\ Table(a, l) \in Slot /\ Table(a, l)[1] = a /\ Table(a, l) # Hand /\ Table(a, l) # Pml4
       /\ \A b \in Area : \A m \in Level : Table(a, l) = Table(b, m) => a = b /\ l = m
       /\ \A b \in Area : \A n \in Nat : Table(a, l) # Page(b, n)
  /\ \A a \in Area : \A n \in PageNumber(a) :
       /\ Page(a, n) \in Slot /\ Page(a, n)[1] = a /\ Page(a, n) # Hand /\ Page(a, n) # Pml4
       /\ \A b \in Area : \A m \in Nat : Page(a, n) = Page(b, m) => a = b /\ n = m
  /\ \A a \in Area : PageNumber(a) \subseteq Nat \ {0}
<1>1. \A a \in Area : PageNumber(a) \subseteq Nat \ {0}
  BY ConstantFacts DEF PageNumber, Area
<1>2. Level \subseteq Nat \ {0}
  BY ConstantFacts DEF Level
<1>3. /\ Pml4 \in Slot /\ Hand \in Slot /\ Hand # Pml4 /\ Hand[1] \notin Area /\ Pml4[1] \notin Area
  BY DEF Slot, Pml4, Hand, Area
<1>4. ASSUME NEW a \in Area, NEW l \in Level
      PROVE  /\ Table(a, l) \in Slot /\ Table(a, l)[1] = a /\ Table(a, l) # Hand /\ Table(a, l) # Pml4
             /\ \A b \in Area : \A m \in Level : Table(a, l) = Table(b, m) => a = b /\ l = m
             /\ \A b \in Area : \A n \in Nat : Table(a, l) # Page(b, n)
  <2>1. Table(a, l) \in Slot
    BY DEF Slot
  <2>2. \A m \in Nat \ {0} : -l = -m => l = m
    BY <1>2
  <2>3. \A n \in Nat : -l # n
    BY <1>2
  <2>. QED  BY <1>2, <2>1, <2>2, <2>3 DEF Table, Page, Hand, Pml4, Area
<1>5. ASSUME NEW a \in Area, NEW n \in PageNumber(a)
      PROVE  /\ Page(a, n) \in Slot /\ Page(a, n)[1] = a /\ Page(a, n) # Hand /\ Page(a, n) # Pml4
             /\ \A b \in Area : \A m \in Nat : Page(a, n) = Page(b, m) => a = b /\ n = m
  <2>1. Page(a, n) \in Slot
    BY DEF Slot
  <2>. QED  BY <1>1, <2>1 DEF Page, Hand, Pml4, Area
<1>. QED  BY <1>1, <1>3, <1>4, <1>5

\* The table made next is one that is missing.
LEMMA NextTableIsMissing ==
  ASSUME NEW t, NEW a \in Area, Missing(t, a) # {}
  PROVE  \E l \in Missing(t, a) : NextTable(t, a) = Table(a, l)
<1>1. Missing(t, a) \subseteq Nat
  BY ConstantFacts DEF Missing, Level
<1>2. \E l \in Missing(t, a) : \A k \in Missing(t, a) : l <= k
  BY <1>1, Least
<1>. QED  BY <1>2 DEF NextTable

\* A frame given to an address space for a page: it is the page, waits in hand,
\* or becomes a table; the last table lets the page in hand go to its place.
Given(t, page, f) == Place([t EXCEPT ![Goal(t, page)] = f], page)

LEMMA GivenCases ==
  ASSUME NEW t \in [Slot -> Frame \cup {NoFrame}], NEW a \in Area, NEW n \in PageNumber(a),
         NEW f \in Frame, t[Hand] # NoFrame => Missing(t, a) # {}
  PROVE  LET page == Page(a, n) u == Given(t, page, f) IN
    \/ t[Hand] = NoFrame /\ Missing(t, a) = {} /\ u = [t EXCEPT ![page] = f]
    \/ t[Hand] = NoFrame /\ Missing(t, a) # {} /\ u = [t EXCEPT ![Hand] = f]
    \/ \E l \in Level : /\ t[Hand] # NoFrame /\ t[Table(a, l)] = NoFrame
                        /\ Missing(t, a) \ {l} # {} /\ u = [t EXCEPT ![Table(a, l)] = f]
    \/ \E l \in Level : /\ t[Hand] # NoFrame /\ Missing(t, a) = {l}
                        /\ u = [t EXCEPT ![Table(a, l)] = f, ![page] = t[Hand], ![Hand] = NoFrame]
<1> DEFINE page == Page(a, n)
<1>0. page \in Slot /\ page[1] = a /\ page # Hand /\ Hand \in Slot /\ n \in Nat
  BY SlotFacts
<1>1. f # NoFrame
  BY ConstantFacts
<1>2. CASE t[Hand] = NoFrame
  <2> DEFINE t1 == [t EXCEPT ![Hand] = f]
  <2>1. Given(t, page, f) = Place(t1, page)
    BY <1>2 DEF Given, Goal
  <2>2. t1[Hand] = f
    BY <1>0
  <2>3. Missing(t1, a) = Missing(t, a)
    BY SlotFacts, Zenon DEF Missing
  <2>4. CASE Missing(t, a) = {}
    <3>1. Place(t1, page) = [t1 EXCEPT ![page] = f, ![Hand] = NoFrame]
      BY <1>0, <1>1, <2>2, <2>3, <2>4 DEF Place
    <3>2. [t1 EXCEPT ![page] = f, ![Hand] = NoFrame] = [t EXCEPT ![page] = f]
      BY <1>0, <1>2
    <3>. QED  BY <1>2, <2>1, <2>4, <3>1, <3>2
  <2>5. CASE Missing(t, a) # {}
    <3>1. Place(t1, page) = t1
      BY <1>0, <2>3, <2>5 DEF Place
    <3>. QED  BY <1>2, <2>1, <2>5, <3>1
  <2>. QED  BY <2>4, <2>5
<1>3. CASE t[Hand] # NoFrame
  <2>1. PICK l \in Missing(t, a) : NextTable(t, a) = Table(a, l)
    BY <1>3, NextTableIsMissing
  <2>2. l \in Level /\ t[Table(a, l)] = NoFrame
    BY <2>1 DEF Missing
  <2> DEFINE t1 == [t EXCEPT ![Table(a, l)] = f]
  <2>3. Given(t, page, f) = Place(t1, page)
    BY <1>0, <1>3, <2>1 DEF Given, Goal
  <2>4. t1[Hand] = t[Hand] /\ t1[Hand] # NoFrame
    BY <1>3, <2>2, SlotFacts
  <2>5. Missing(t1, a) = Missing(t, a) \ {l}
    <3>1. t1[Table(a, l)] = f
      BY <2>2, SlotFacts
    <3>2. \A k \in Level : k # l => t1[Table(a, k)] = t[Table(a, k)]
      BY <2>2, SlotFacts
    <3>. QED  BY <1>1, <2>2, <3>1, <3>2 DEF Missing
  <2>6. CASE Missing(t, a) \ {l} = {}
    <3>1. Place(t1, page) = [t1 EXCEPT ![page] = t1[Hand], ![Hand] = NoFrame]
      BY <1>0, <2>4, <2>5, <2>6 DEF Place
    <3>2. [t1 EXCEPT ![page] = t1[Hand], ![Hand] = NoFrame]
            = [t EXCEPT ![Table(a, l)] = f, ![page] = t[Hand], ![Hand] = NoFrame]
      BY <2>4
    <3>3. Missing(t, a) = {l}
      BY <2>1, <2>6
    <3>. QED  BY <1>3, <2>2, <2>3, <3>1, <3>2, <3>3
  <2>7. CASE Missing(t, a) \ {l} # {}
    <3>1. Place(t1, page) = t1
      BY <1>0, <2>5, <2>7 DEF Place
    <3>. QED  BY <1>3, <2>2, <2>3, <2>7, <3>1
  <2>. QED  BY <2>6, <2>7
<1>. QED  BY <1>2, <1>3

\* Of an address space t that was given frame g and is u now: what u holds was
\* there or is g, and nothing is held twice that was not.
Derived(u, t, g) ==
  /\ \A y \in Slot : u[y] \in Frame => u[y] = g \/ \E x \in Slot : t[x] = u[y]
  /\ \A y, z \in Slot : u[y] \in Frame /\ u[y] = u[z] /\ y # z =>
       \/ u[y] = g /\ \E x \in Slot : t[x] = g
       \/ \E v, w \in Slot : v # w /\ t[v] = u[y] /\ t[w] = u[y]

LEMMA SetSlot ==
  ASSUME NEW t, NEW u, NEW x \in Slot, NEW g, u[x] = g, \A y \in Slot : y # x => u[y] = t[y]
  PROVE  Derived(u, t, g)
  BY DEF Derived

LEMMA GivenFacts ==
  ASSUME NEW t \in [Slot -> Frame \cup {NoFrame}], NEW a \in Area, NEW n \in PageNumber(a),
         NEW f \in Frame, t[Hand] # NoFrame => Missing(t, a) # {}
  PROVE  LET page == Page(a, n) u == Given(t, page, f) IN
    /\ u \in [Slot -> Frame \cup {NoFrame}]
    /\ u[Hand] # NoFrame => Missing(u, a) # {} /\ u[page] = t[page]
    /\ u[Hand] = NoFrame => Missing(u, a) = {} /\ u[page] \in Frame
    /\ Missing(t, a) = {} => Missing(u, a) = {}
    /\ \A x \in Slot : x # page /\ x # Hand /\ (\A l \in Level : x # Table(a, l)) => u[x] = t[x]
    /\ Derived(u, t, f)
    /\ \E x \in Slot : u[x] = f
    /\ \A x \in Slot : t[x] \in Frame => \/ x = page /\ u[Hand] = NoFrame
                                         \/ \E y \in Slot : u[y] = t[x]
<1> DEFINE page == Page(a, n) u == Given(t, page, f)
<1>0. /\ page \in Slot /\ page[1] = a /\ page # Hand /\ Hand \in Slot /\ n \in Nat
      /\ \A l \in Level : Table(a, l) \in Slot /\ Table(a, l) # Hand /\ Table(a, l) # page
      /\ \A l, m \in Level : Table(a, l) = Table(a, m) => l = m
  BY SlotFacts
<1>1. f # NoFrame /\ NoFrame \notin Frame
  BY ConstantFacts
<1>a. CASE t[Hand] = NoFrame /\ Missing(t, a) = {} /\ u = [t EXCEPT ![page] = f]
  <2>1. Missing(u, a) = {} /\ u[page] = f /\ u[Hand] = NoFrame
    BY <1>0, <1>1, <1>a DEF Missing
  <2>2. Derived(u, t, f)
    <3>1. \A y \in Slot : y # page => u[y] = t[y]
      BY <1>a
    <3>. QED  BY <1>0, <2>1, <3>1, SetSlot
  <2>. QED  BY <1>0, <1>1, <1>a, <2>1, <2>2
<1>b. CASE t[Hand] = NoFrame /\ Missing(t, a) # {} /\ u = [t EXCEPT ![Hand] = f]
  <2>1. Missing(u, a) = Missing(t, a)
    BY <1>0, <1>b, Zenon DEF Missing
  <2>2. u[Hand] = f /\ \A x \in Slot : x # Hand => u[x] = t[x]
    BY <1>0, <1>b
  <2>3. Derived(u, t, f)
    BY <1>0, <2>2, SetSlot
  <2>. QED  BY <1>0, <1>1, <1>b, <2>1, <2>2, <2>3
<1>c. ASSUME NEW l \in Level, t[Hand] # NoFrame, t[Table(a, l)] = NoFrame,
             Missing(t, a) \ {l} # {}, u = [t EXCEPT ![Table(a, l)] = f]
      PROVE  /\ u \in [Slot -> Frame \cup {NoFrame}] /\ u[Hand] # NoFrame
             /\ Missing(u, a) # {} /\ u[page] = t[page] /\ Missing(t, a) # {}
             /\ \A x \in Slot : x # Table(a, l) => u[x] = t[x]
             /\ Derived(u, t, f) /\ u[Table(a, l)] = f
  <2>1. \A k \in Level : k # l => u[Table(a, k)] = t[Table(a, k)]
    BY <1>0, <1>c
  <2>2. PICK k \in Missing(t, a) : k # l
    BY <1>c
  <2>3. k \in Missing(u, a)
    BY <2>1, <2>2 DEF Missing
  <2>4. Derived(u, t, f)
    <3>1. u[Table(a, l)] = f /\ \A y \in Slot : y # Table(a, l) => u[y] = t[y]
      BY <1>0, <1>c
    <3>. QED  BY <1>0, <3>1, SetSlot
  <2>. QED  BY <1>0, <1>c, <2>2, <2>3, <2>4
<1>d. ASSUME NEW l \in Level, t[Hand] # NoFrame, Missing(t, a) = {l},
             u = [t EXCEPT ![Table(a, l)] = f, ![page] = t[Hand], ![Hand] = NoFrame]
      PROVE  /\ u \in [Slot -> Frame \cup {NoFrame}] /\ u[Hand] = NoFrame
             /\ Missing(u, a) = {} /\ u[page] = t[Hand] /\ t[Hand] \in Frame
             /\ \A x \in Slot : x # Table(a, l) /\ x # page /\ x # Hand => u[x] = t[x]
             /\ Derived(u, t, f) /\ u[Table(a, l)] = f /\ t[Table(a, l)] = NoFrame
  <2>1. /\ u[Table(a, l)] = f /\ u[page] = t[Hand] /\ u[Hand] = NoFrame
        /\ \A x \in Slot : x # Table(a, l) /\ x # page /\ x # Hand => u[x] = t[x]
    BY <1>0, <1>d
  <2>2. l \in Missing(t, a) /\ \A k \in Level : k # l => t[Table(a, k)] # NoFrame
    BY <1>d DEF Missing
  <2>3. \A k \in Level : k # l => u[Table(a, k)] = t[Table(a, k)]
    BY <1>0, <2>1
  <2>4. Missing(u, a) = {}
    BY <1>1, <2>1, <2>2, <2>3 DEF Missing
  <2>5. t[Hand] \in Frame /\ t[Table(a, l)] = NoFrame
    BY <1>0, <1>d, <2>2 DEF Missing
  <2>6. Derived(u, t, f)
    <3>1. ASSUME NEW y \in Slot, u[y] \in Frame
          PROVE  u[y] = f \/ \E x \in Slot : t[x] = u[y]
      BY <1>0, <1>1, <2>1, <3>1
    <3>2. ASSUME NEW y \in Slot, NEW z \in Slot, u[y] \in Frame, u[y] = u[z], y # z, u[y] # f
          PROVE  \E v, w \in Slot : v # w /\ t[v] = u[y] /\ t[w] = u[y]
      <4>1. y # Table(a, l) /\ z # Table(a, l) /\ y # Hand /\ z # Hand
        BY <1>1, <2>1, <3>2
      <4>2. CASE y = page
        BY <1>0, <2>1, <3>2, <4>1, <4>2
      <4>3. CASE z = page
        BY <1>0, <2>1, <3>2, <4>1, <4>3
      <4>4. CASE y # page /\ z # page
        BY <2>1, <3>2, <4>1, <4>4
      <4>. QED  BY <4>2, <4>3, <4>4
    <3>3. ASSUME NEW y \in Slot, NEW z \in Slot, u[y] = f, u[z] = f, y # z
          PROVE  \E x \in Slot : t[x] = f
      BY <1>0, <1>1, <2>1, <3>3
    <3>. QED  BY <3>1, <3>2, <3>3 DEF Derived
  <2>. QED  BY <1>0, <1>d, <2>1, <2>4, <2>5, <2>6
<1>2. \/ t[Hand] = NoFrame /\ Missing(t, a) = {} /\ u = [t EXCEPT ![page] = f]
      \/ t[Hand] = NoFrame /\ Missing(t, a) # {} /\ u = [t EXCEPT ![Hand] = f]
      \/ \E l \in Level : /\ t[Hand] # NoFrame /\ t[Table(a, l)] = NoFrame
                          /\ Missing(t, a) \ {l} # {} /\ u = [t EXCEPT ![Table(a, l)] = f]
      \/ \E l \in Level : /\ t[Hand] # NoFrame /\ Missing(t, a) = {l}
                          /\ u = [t EXCEPT ![Table(a, l)] = f, ![page] = t[Hand], ![Hand] = NoFrame]
  BY GivenCases
<1>3. CASE \E l \in Level : /\ t[Hand] # NoFrame /\ t[Table(a, l)] = NoFrame
                            /\ Missing(t, a) \ {l} # {} /\ u = [t EXCEPT ![Table(a, l)] = f]
  <2>1. PICK l \in Level : /\ t[Hand] # NoFrame /\ t[Table(a, l)] = NoFrame
                           /\ Missing(t, a) \ {l} # {} /\ u = [t EXCEPT ![Table(a, l)] = f]
    BY <1>3
  <2> HIDE DEF u
  <2>2. /\ u \in [Slot -> Frame \cup {NoFrame}] /\ u[Hand] # NoFrame
        /\ Missing(u, a) # {} /\ u[page] = t[page] /\ Missing(t, a) # {}
        /\ \A x \in Slot : x # Table(a, l) => u[x] = t[x]
        /\ Derived(u, t, f) /\ u[Table(a, l)] = f
    BY <1>c, <2>1
  <2>3. \A x \in Slot : t[x] \in Frame => \E y \in Slot : u[y] = t[x]
    BY <1>0, <1>1, <2>1, <2>2
  <2>4. \E x \in Slot : u[x] = f
    BY <1>0, <2>2
  <2>. QED  BY <1>0, <2>2, <2>3, <2>4 DEF u
<1>4. CASE \E l \in Level : /\ t[Hand] # NoFrame /\ Missing(t, a) = {l}
                            /\ u = [t EXCEPT ![Table(a, l)] = f, ![page] = t[Hand], ![Hand] = NoFrame]
  <2>1. PICK l \in Level : /\ t[Hand] # NoFrame /\ Missing(t, a) = {l}
                           /\ u = [t EXCEPT ![Table(a, l)] = f, ![page] = t[Hand], ![Hand] = NoFrame]
    BY <1>4
  <2> HIDE DEF u
  <2>2. /\ u \in [Slot -> Frame \cup {NoFrame}] /\ u[Hand] = NoFrame
        /\ Missing(u, a) = {} /\ u[page] = t[Hand] /\ t[Hand] \in Frame
        /\ \A x \in Slot : x # Table(a, l) /\ x # page /\ x # Hand => u[x] = t[x]
        /\ Derived(u, t, f) /\ u[Table(a, l)] = f /\ t[Table(a, l)] = NoFrame
    BY <1>d, <2>1
  <2>3. \A x \in Slot : t[x] \in Frame => x = page \/ \E y \in Slot : u[y] = t[x]
    BY <1>0, <1>1, <2>2
  <2>4. \E x \in Slot : u[x] = f
    BY <1>0, <2>2
  <2>5. Missing(t, a) # {}
    BY <2>1
  <2>. QED  BY <1>0, <2>2, <2>3, <2>4, <2>5 DEF u
<1>. QED  BY <1>a, <1>b, <1>2, <1>3, <1>4

\* What the loader asks for in turn: its PML4, two tables, then pages.
LEMMA TargetFacts ==
  /\ Final \in Nat /\ Start \in Nat /\ Start > 0 /\ Start <= Final
  /\ \A k \in 1 .. Final : /\ Target(k) \in Slot /\ Target(k) # Hand /\ Target(k)[1] # "heap"
                           /\ \A j \in 1 .. Final : Target(j) = Target(k) => j = k
  /\ \A k \in Start .. Final : \E a \in {"image", "stack"} : \E n \in PageNumber(a) :
                                 Target(k) = Page(a, n)
<1>0. /\ Levels \in Nat /\ Levels > 0 /\ ImagePages \in Nat /\ ImagePages > 0
      /\ StackPages \in Nat /\ StackPages > 0
  BY ConstantFacts
<1>1. Final \in Nat /\ Start \in Nat /\ Start > 0 /\ Start <= Final
  BY <1>0 DEF Final, Start
<1>2. /\ Target(1) = Pml4
      /\ \A k \in 2 .. Levels : Target(k) = Table("image", k - 1)
      /\ \A k \in Start .. Levels + ImagePages : Target(k) = Page("image", k - Levels)
      /\ \A k \in Levels + ImagePages + 1 .. Final : Target(k) = Page("stack", k - Levels - ImagePages)
  BY <1>0 DEF Target, Start, Final
<1>3. /\ \A k \in 2 .. Levels : k - 1 \in Level
      /\ \A k \in Start .. Levels + ImagePages : k - Levels \in PageNumber("image")
      /\ \A k \in Levels + ImagePages + 1 .. Final : k - Levels - ImagePages \in PageNumber("stack")
  BY <1>0 DEF Level, PageNumber, Start, Final
<1>4. "image" \in Area /\ "stack" \in Area
  BY DEF Area
<1>5. ASSUME NEW k \in 1 .. Final
      PROVE  /\ k \in Nat
             /\ \/ k = 1 \/ k \in 2 .. Levels \/ k \in Start .. Levels + ImagePages
                \/ k \in Levels + ImagePages + 1 .. Final
  BY <1>0 DEF Start, Final
<1>6. ASSUME NEW k \in 1 .. Final
      PROVE  Target(k) \in Slot /\ Target(k) # Hand /\ Target(k)[1] # "heap"
  <2>1. CASE k = 1
    BY <1>2, <2>1, SlotFacts DEF Pml4
  <2>2. CASE k \in 2 .. Levels
    BY <1>2, <1>3, <1>4, <2>2, SlotFacts
  <2>3. CASE k \in Start .. Levels + ImagePages
    BY <1>2, <1>3, <1>4, <2>3, SlotFacts
  <2>4. CASE k \in Levels + ImagePages + 1 .. Final
    BY <1>2, <1>3, <1>4, <2>4, SlotFacts
  <2>. QED  BY <1>5, <2>1, <2>2, <2>3, <2>4
<1>7. ASSUME NEW k \in 1 .. Final, NEW j \in 1 .. Final, Target(j) = Target(k)
      PROVE  j = k
  <2>0. j \in Nat /\ k \in Nat
    BY <1>5
  <2>1. CASE k = 1
    BY <1>2, <1>3, <1>4, <1>5, <1>7, <2>1, SlotFacts
  <2>2. CASE k \in 2 .. Levels
    <3>1. j = 1 \/ j \in 2 .. Levels
      BY <1>2, <1>3, <1>4, <1>5, <1>7, <2>2, SlotFacts
    <3>. QED  BY <1>0, <1>2, <1>3, <1>4, <1>7, <2>0, <2>2, <3>1, SlotFacts
  <2>3. CASE k \in Start .. Levels + ImagePages
    <3>1. k - Levels \in Nat /\ Target(k) = Page("image", k - Levels) /\ k - Levels \in PageNumber("image")
      BY <1>2, <1>3, <1>4, <2>3, SlotFacts
    <3>2. j \in Start .. Levels + ImagePages
      BY <1>2, <1>3, <1>4, <1>5, <1>7, <3>1, SlotFacts
    <3>3. j - Levels \in Nat /\ Target(j) = Page("image", j - Levels)
      BY <1>2, <1>3, <1>4, <3>2, SlotFacts
    <3>4. k - Levels = j - Levels
      BY <1>4, <1>7, <3>1, <3>3, SlotFacts
    <3>. QED  BY <1>0, <2>0, <3>4
  <2>4. CASE k \in Levels + ImagePages + 1 .. Final
    <3>1. /\ k - Levels - ImagePages \in Nat /\ Target(k) = Page("stack", k - Levels - ImagePages)
          /\ k - Levels - ImagePages \in PageNumber("stack")
      BY <1>2, <1>3, <1>4, <2>4, SlotFacts
    <3>2. j \in Levels + ImagePages + 1 .. Final
      BY <1>2, <1>3, <1>4, <1>5, <1>7, <3>1, SlotFacts
    <3>3. j - Levels - ImagePages \in Nat /\ Target(j) = Page("stack", j - Levels - ImagePages)
      BY <1>2, <1>3, <1>4, <3>2, SlotFacts
    <3>4. k - Levels - ImagePages = j - Levels - ImagePages
      BY <1>4, <1>7, <3>1, <3>3, SlotFacts
    <3>. QED  BY <1>0, <2>0, <3>4
  <2>. QED  BY <1>5, <2>1, <2>2, <2>3, <2>4
<1>8. ASSUME NEW k \in Start .. Final
      PROVE  \E a \in {"image", "stack"} : \E n \in PageNumber(a) : Target(k) = Page(a, n)
  <2>1. k \in Start .. Levels + ImagePages \/ k \in Levels + ImagePages + 1 .. Final
    BY <1>0 DEF Start, Final
  <2>. QED  BY <1>2, <1>3, <2>1
<1>. QED  BY <1>1, <1>6, <1>7, <1>8

\* What a failed load gives back, and that nothing else is left but the stack.
LEMMA UnloadedFacts ==
  /\ UnloadFinal \in Nat /\ UnloadFinal > 0
  /\ \A k \in 1 .. UnloadFinal : Unloaded(k) \in Slot /\ Unloaded(k) # Hand /\ Unloaded(k)[1] # "heap"
  /\ \A x \in Slot : \/ x = Hand \/ x[1] \in {"heap", "stack"}
                     \/ \E k \in 1 .. UnloadFinal : x = Unloaded(k)
<1>0. Levels \in Nat /\ Levels > 0 /\ ImagePages \in Nat /\ ImagePages > 0
  BY ConstantFacts
<1>1. UnloadFinal \in Nat /\ UnloadFinal > 0
  BY <1>0 DEF UnloadFinal
<1>2. /\ \A k \in 1 .. ImagePages : Unloaded(k) = Page("image", k)
      /\ \A k \in ImagePages + 1 .. ImagePages + Levels :
           Unloaded(k) = Table("image", ImagePages + Levels + 1 - k)
      /\ Unloaded(ImagePages + Levels + 1) = Table("stack", 1)
      /\ Unloaded(UnloadFinal) = Pml4
  BY <1>0 DEF Unloaded, UnloadFinal
<1>3. /\ PageNumber("image") = 1 .. ImagePages
      /\ \A k \in ImagePages + 1 .. ImagePages + Levels : ImagePages + Levels + 1 - k \in Level
      /\ 1 \in Level /\ "image" \in Area /\ "stack" \in Area
  BY <1>0 DEF Level, PageNumber, Area
<1>4. ASSUME NEW k \in 1 .. UnloadFinal
      PROVE  Unloaded(k) \in Slot /\ Unloaded(k) # Hand /\ Unloaded(k)[1] # "heap"
  <2>1. \/ k \in 1 .. ImagePages \/ k \in ImagePages + 1 .. ImagePages + Levels
        \/ k = ImagePages + Levels + 1 \/ k = UnloadFinal
    BY <1>0 DEF UnloadFinal
  <2>2. Pml4[1] # "heap"
    BY DEF Pml4
  <2>3. CASE k \in 1 .. ImagePages
    <3>1. Unloaded(k) = Page("image", k) /\ k \in PageNumber("image")
      BY <1>2, <1>3, <2>3
    <3>. QED  BY <1>3, <3>1, SlotFacts
  <2>4. CASE k \in ImagePages + 1 .. ImagePages + Levels
    BY <1>2, <1>3, <2>4, SlotFacts
  <2>5. CASE k = ImagePages + Levels + 1 \/ k = UnloadFinal
    BY <1>2, <1>3, <2>2, <2>5, SlotFacts
  <2>. QED  BY <2>1, <2>3, <2>4, <2>5
<1>5. ASSUME NEW x \in Slot, x # Hand, x[1] \notin {"heap", "stack"}
      PROVE  \E k \in 1 .. UnloadFinal : x = Unloaded(k)
  <2>1. \/ x = Pml4
        \/ \E l \in Level : x = Table("image", l)
        \/ \E n \in PageNumber("image") : x = Page("image", n)
    BY <1>5 DEF Slot, Area, Table, Page
  <2>2. ASSUME NEW l \in Level, x = Table("image", l)
        PROVE  \E k \in 1 .. UnloadFinal : x = Unloaded(k)
    <3>1. ImagePages + Levels + 1 - l \in ImagePages + 1 .. ImagePages + Levels
      BY <1>0 DEF Level
    <3>2. ImagePages + Levels + 1 - (ImagePages + Levels + 1 - l) = l
      BY <1>0 DEF Level
    <3>3. ImagePages + Levels + 1 - l \in 1 .. UnloadFinal
      BY <1>0, <3>1 DEF UnloadFinal
    <3>. QED  BY <1>2, <2>2, <3>1, <3>2, <3>3
  <2>3. ASSUME NEW n \in PageNumber("image"), x = Page("image", n)
        PROVE  \E k \in 1 .. UnloadFinal : x = Unloaded(k)
    BY <1>0, <1>2, <1>3, <2>3 DEF UnloadFinal
  <2>4. UnloadFinal \in 1 .. UnloadFinal
    BY <1>1
  <2>. QED  BY <1>2, <2>1, <2>2, <2>3, <2>4
<1>. QED  BY <1>1, <1>4, <1>5

\* What StoreWord makes of the loader's address space.
LEMMA GrantedFacts ==
  ASSUME TypeOK, Stages, Picked, Progress, pc = "store"
  PROVE  LET t == Mine u == Granted(t) IN
    /\ u \in [Slot -> Frame \cup {NoFrame}]
    /\ Derived(u, t, frame)
    /\ \E x \in Slot : u[x] = frame
    /\ \A x \in Slot : t[x] \in Frame => \E y \in Slot : u[y] = t[x]
    /\ \A x \in Slot : x[1] = "heap" => u[x] = t[x]
    /\ \A k \in at + 1 .. Final : u[Target(k)] = NoFrame
    /\ u[Hand] # NoFrame => /\ at >= Start /\ Missing(u, Target(at)[1]) # {}
                            /\ u[Target(at)] = NoFrame
<1> DEFINE t == Mine u == Granted(t)
<1>0. /\ t \in [Slot -> Frame \cup {NoFrame}] /\ frame \in Frame
      /\ at \in 1 .. Final /\ at \in Nat /\ NoFrame \notin Frame
      /\ \A k \in at .. Final : t[Target(k)] = NoFrame /\ k \in 1 .. Final
      /\ t[Target(at)] = NoFrame /\ Target(at) \in Slot
      /\ t[Hand] # NoFrame => at >= Start /\ Missing(t, Target(at)[1]) # {}
      /\ Hand \in Slot /\ Target(at) # Hand /\ Start \in Nat
  <2>1. loading \in Space /\ at \in 1 .. Final
    BY DEF Stages
  <2>2. at \in Nat /\ at \in at .. Final /\ \A k \in at .. Final : k \in 1 .. Final
    BY <2>1, TargetFacts
  <2>3. t \in [Slot -> Frame \cup {NoFrame}] /\ frame \in Frame
    BY <2>1 DEF TypeOK, Picked, Mine
  <2>4. /\ \A k \in at .. Final : t[Target(k)] = NoFrame
        /\ t[Hand] # NoFrame => at >= Start /\ Missing(t, Target(at)[1]) # {}
    BY DEF Progress
  <2>5. Target(at) \in Slot /\ Target(at) # Hand /\ Start \in Nat
    BY <2>1, TargetFacts
  <2>. QED  BY <2>1, <2>2, <2>3, <2>4, <2>5, ConstantFacts, SlotFacts
<1>1. CASE at < Start
  <2> DEFINE t1 == [t EXCEPT ![Target(at)] = frame]
  <2>1. t[Hand] = NoFrame
    BY <1>0, <1>1
  <2>2. u = Place(t1, Target(at))
    BY <1>1 DEF Granted
  <2>3. t1[Hand] = NoFrame
    BY <1>0, <2>1
  <2>4. u = t1
    BY <2>2, <2>3 DEF Place
  <2> HIDE DEF u
  <2>5. u[Target(at)] = frame /\ \A x \in Slot : x # Target(at) => u[x] = t[x]
    BY <1>0, <2>4
  <2>6. u \in [Slot -> Frame \cup {NoFrame}] /\ u[Hand] = NoFrame
    BY <1>0, <2>3, <2>4
  <2>7. Derived(u, t, frame)
    BY <1>0, <2>5, SetSlot
  <2>8. \A x \in Slot : x[1] = "heap" => u[x] = t[x]
    BY <1>0, <2>5, TargetFacts
  <2>9. \A k \in at + 1 .. Final : u[Target(k)] = NoFrame
    <3>1. \A k \in at + 1 .. Final : k \in at .. Final /\ k \in 1 .. Final /\ k # at
      BY <1>0, TargetFacts
    <3>. QED  BY <1>0, <2>5, <3>1, TargetFacts
  <2>. QED  BY <1>0, <2>5, <2>6, <2>7, <2>8, <2>9 DEF u
<1>2. CASE at >= Start
  <2>0. at \in Start .. Final
    BY <1>0, <1>2, TargetFacts
  <2>a. PICK a \in {"image", "stack"} : \E n \in PageNumber(a) : Target(at) = Page(a, n)
    BY <2>0, TargetFacts
  <2>1. PICK n \in PageNumber(a) : Target(at) = Page(a, n)
    BY <2>a
  <2>2. a \in Area /\ n \in Nat /\ Page(a, n)[1] = a /\ a # "heap"
    BY <2>1, SlotFacts DEF Area
  <2>3. u = Given(t, Page(a, n), frame)
    <3>1. ~ (at < Start)
      BY <1>0, <1>2
    <3>. QED  BY <2>1, <3>1 DEF Granted, Given
  <2> HIDE DEF u
  <2>4. /\ u \in [Slot -> Frame \cup {NoFrame}]
        /\ u[Hand] # NoFrame => Missing(u, a) # {} /\ u[Page(a, n)] = t[Page(a, n)]
        /\ \A x \in Slot : x # Page(a, n) /\ x # Hand /\ (\A l \in Level : x # Table(a, l)) => u[x] = t[x]
        /\ Derived(u, t, frame)
        /\ \E x \in Slot : u[x] = frame
        /\ \A x \in Slot : t[x] \in Frame => x = Page(a, n) \/ \E y \in Slot : u[y] = t[x]
    BY <1>0, <2>1, <2>2, <2>3, GivenFacts
  <2>5. \A x \in Slot : x[1] = "heap" => u[x] = t[x]
    <3>1. Hand[1] # "heap"
      BY DEF Hand
    <3>. QED  BY <2>2, <2>4, <3>1, SlotFacts
  <2>6. \A k \in at + 1 .. Final : u[Target(k)] = NoFrame
    <3>1. ASSUME NEW k \in at + 1 .. Final
          PROVE  u[Target(k)] = NoFrame
      <4>1. k \in at .. Final /\ k \in 1 .. Final /\ k # at /\ k \in Start .. Final
        BY <1>0, <1>2, TargetFacts
      <4>a. PICK b \in {"image", "stack"} : \E m \in PageNumber(b) : Target(k) = Page(b, m)
        BY <4>1, TargetFacts
      <4>2. PICK m \in PageNumber(b) : Target(k) = Page(b, m)
        BY <4>a
      <4>3. b \in Area /\ m \in Nat
        BY <4>2, SlotFacts DEF Area
      <4>4. \A l \in Level : Target(k) # Table(a, l)
        BY <2>2, <4>2, <4>3, SlotFacts
      <4>5. Target(k) \in Slot /\ Target(k) # Hand /\ Target(k) # Page(a, n)
        BY <1>0, <2>1, <4>1, TargetFacts
      <4>. QED  BY <1>0, <2>4, <4>1, <4>4, <4>5
    <3>. QED  BY <3>1
  <2>7. \A x \in Slot : t[x] \in Frame => \E y \in Slot : u[y] = t[x]
    BY <1>0, <2>1, <2>4
  <2>. QED  BY <1>0, <1>2, <2>1, <2>2, <2>4, <2>5, <2>6, <2>7 DEF u
<1>. QED  BY <1>0, <1>1, <1>2

\* What SbrkTakes makes of the caller's address space.
SbrkGot == Given(slots[caller], Page("heap", next), Alloc)

LEMMA SbrkFacts ==
  ASSUME TypeOK, Stages, Hands, caller # NoSpace, ~OutOfFrames
  PROVE  LET t == slots[caller] u == SbrkGot page == Page("heap", next) IN
    /\ caller \in Space /\ phase[caller] = "running" /\ t \in [Slot -> Frame \cup {NoFrame}]
    /\ Alloc \in Frame \ marked /\ page \in Slot
    /\ u \in [Slot -> Frame \cup {NoFrame}]
    /\ u[Hand] # NoFrame => Missing(u, "heap") # {} /\ u[page] = t[page]
    /\ u[Hand] = NoFrame => Missing(u, "heap") = {} /\ u[page] \in Frame
    /\ Missing(t, "heap") = {} => Missing(u, "heap") = {}
    /\ \A n \in PageNumber("heap") : n # next => u[Page("heap", n)] = t[Page("heap", n)]
    /\ Derived(u, t, Alloc)
    /\ \E x \in Slot : u[x] = Alloc
    /\ \A x \in Slot : t[x] \in Frame => \/ x = page /\ u[Hand] = NoFrame
                                         \/ \E y \in Slot : u[y] = t[x]
<1> DEFINE t == slots[caller] u == SbrkGot page == Page("heap", next)
<1>1. /\ caller \in Space /\ phase[caller] = "running" /\ t \in [Slot -> Frame \cup {NoFrame}]
      /\ next \in 1 .. HeapPages
  BY DEF TypeOK, Stages
<1>2. "heap" \in Area /\ next \in PageNumber("heap")
  BY <1>1 DEF Area, PageNumber
<1>3. Alloc \in Frame /\ Alloc \notin marked
  BY AllocIsFree DEF TypeOK
<1>4. t[Hand] # NoFrame => Missing(t, "heap") # {}
  BY <1>1 DEF Hands
<1>5. u = Given(t, page, Alloc)
  BY DEF SbrkGot
<1> HIDE DEF u
<1>6. /\ u \in [Slot -> Frame \cup {NoFrame}]
      /\ u[Hand] # NoFrame => Missing(u, "heap") # {} /\ u[page] = t[page]
      /\ u[Hand] = NoFrame => Missing(u, "heap") = {} /\ u[page] \in Frame
      /\ Missing(t, "heap") = {} => Missing(u, "heap") = {}
      /\ \A x \in Slot : x # page /\ x # Hand /\ (\A l \in Level : x # Table("heap", l)) => u[x] = t[x]
      /\ Derived(u, t, Alloc)
      /\ \E x \in Slot : u[x] = Alloc
      /\ \A x \in Slot : t[x] \in Frame => \/ x = page /\ u[Hand] = NoFrame
                                           \/ \E y \in Slot : u[y] = t[x]
  BY <1>1, <1>2, <1>3, <1>4, <1>5, GivenFacts
<1>7. \A n \in PageNumber("heap") : n # next => u[Page("heap", n)] = t[Page("heap", n)]
  <2>1. next \in Nat /\ PageNumber("heap") \subseteq Nat
    BY <1>1, <1>2, SlotFacts
  <2>. QED  BY <1>2, <1>6, <2>1, SlotFacts
<1>. QED  BY <1>1, <1>2, <1>3, <1>6, <1>7, SlotFacts DEF u

-----------------------------------------------------------------------------
\* The steps that touch frames; all others leave bitmap and address spaces.
Still == UNCHANGED <<slots, marked, last, kernel, raced, leaked>>

LEMMA Effects ==
  ASSUME [Next]_vars
  PROVE  \/ Still
         \/ StoreWord \/ NotMapped \/ UnloadClears \/ UnloadEnds \/ ProcessRefused
         \/ SbrkTakes \/ SbrkRefused \/ KernelTakes
  BY DEF Still, Next, Load, Program, vars, bitmap, programs, search, loader, call, history,
         LoadBegins, BadFile, ReadIndex, ReadWord, ReadAgain, LoadRefused, StackPageSkipped,
         LoadSucceeds, CopyFails, Panic, UnloadPasses, UnloadReads, Idle,
         SbrkBegins, SbrkShrinks, Exits

LEMMA InitAInv == Init => AInv
<1> SUFFICES ASSUME Init PROVE AInv
  OBVIOUS
<1>1. Empty \in [Slot -> Frame \cup {NoFrame}]
  BY DEF Empty
<1>2. TypeOK
  BY <1>1, ConstantFacts DEF Init, TypeOK
<1>3. Stages /\ Picked /\ KernelMarked /\ Progress /\ Searched
  BY ConstantFacts DEF Init, Stages, Picked, KernelMarked, Progress, Searched
<1>4. Unborn /\ Hands /\ CallHeap
  BY ConstantFacts, SlotFacts DEF Init, Unborn, Hands, CallHeap, Empty
<1>5. Exclusive /\ FramesAccounted /\ HeapMapped
  BY ConstantFacts DEF Init, Exclusive, FramesAccounted, HeapMapped, Owned, Empty
<1>. QED  BY <1>2, <1>3, <1>4, <1>5 DEF AInv

LEMMA FrameTypes ==
  ASSUME AInv, [Next]_vars
  PROVE  /\ marked' \subseteq Frame /\ last' \in Word
         /\ slots' \in [Space -> [Slot -> Frame \cup {NoFrame}]]
         /\ kernel' \subseteq Frame /\ raced' \subseteq Frame /\ leaked' \subseteq Frame
<1>0. TypeOK /\ Stages /\ Picked /\ Progress /\ Hands
  BY DEF AInv
<1>1. CASE Still
  BY <1>0, <1>1 DEF Still, TypeOK
<1>2. CASE StoreWord
  <2>1. loading \in Space /\ Granted(Mine) \in [Slot -> Frame \cup {NoFrame}]
    BY <1>0, <1>2, GrantedFacts DEF StoreWord, Stages
  <2>2. slots' = [slots EXCEPT ![loading] = Granted(Mine)]
    BY <1>2 DEF StoreWord, Mine
  <2>. QED  BY <1>0, <1>2, <2>1, <2>2 DEF StoreWord, TypeOK, history
<1>3. CASE NotMapped
  <2>1. loading \in Space /\ Mine \in [Slot -> Frame \cup {NoFrame}] /\ Hand \in Slot
    BY <1>0, <1>3, SlotFacts DEF NotMapped, NoFrameLeft, Stages, TypeOK, Mine
  <2>2. Mine[Hand] \in Frame
    BY <1>3, <2>1 DEF NotMapped
  <2>. QED  BY <1>0, <1>3, <2>1, <2>2 DEF NotMapped, TypeOK, bitmap
<1>4. CASE UnloadClears
  BY <1>0, <1>4, WordOfFrame, ConstantFacts DEF UnloadClears, LastAfterFree, TypeOK, Picked, history
<1>5. CASE UnloadEnds \/ ProcessRefused
  <2>1. loading \in Space /\ Mine \in [Slot -> Frame \cup {NoFrame}]
    BY <1>0, <1>5 DEF UnloadEnds, ProcessRefused, Stages, TypeOK, Mine
  <2>2. Empty \in [Slot -> Frame \cup {NoFrame}]
    BY DEF Empty
  <2>. QED  BY <1>0, <1>5, <2>1, <2>2 DEF UnloadEnds, ProcessRefused, TypeOK, bitmap
<1>6. CASE SbrkTakes
  <2>1. /\ caller \in Space /\ SbrkGot \in [Slot -> Frame \cup {NoFrame}] /\ Alloc \in Frame
        /\ slots[caller] \in [Slot -> Frame \cup {NoFrame}] /\ Page("heap", next) \in Slot
    BY <1>0, <1>6, SbrkFacts DEF SbrkTakes
  <2>2. slots' = [slots EXCEPT ![caller] = SbrkGot] /\ Take(Alloc) /\ UNCHANGED kernel
    BY <1>6 DEF SbrkTakes, SbrkGot, Given
  <2>3. leaked' \in {leaked, leaked \cup {slots[caller][Page("heap", next)]}}
        /\ (leaked' # leaked => slots[caller][Page("heap", next)] # NoFrame)
    BY <1>6 DEF SbrkTakes
  <2>4. WordOf(Alloc) \in Word
    BY <2>1, WordOfFrame
  <2>. QED  BY <1>0, <2>1, <2>2, <2>3, <2>4 DEF Take, TypeOK
<1>7. CASE SbrkRefused
  <2>1. caller \in Space /\ slots[caller] \in [Slot -> Frame \cup {NoFrame}] /\ Hand \in Slot
    BY <1>0, <1>7, SlotFacts DEF SbrkRefused, TypeOK
  <2>2. CASE slots[caller][Hand] = NoFrame
    BY <1>0, <1>7, <2>2 DEF SbrkRefused, bitmap, TypeOK
  <2>3. CASE slots[caller][Hand] # NoFrame
    <3>1. slots[caller][Hand] \in Frame /\ WordOf(slots[caller][Hand]) \in Word
      BY <2>1, <2>3, WordOfFrame
    <3>2. LastAfterFree(slots[caller][Hand]) \in Word
      BY <1>0, <3>1 DEF LastAfterFree, TypeOK
    <3>. QED  BY <1>0, <1>7, <2>1, <2>3, <3>1, <3>2 DEF SbrkRefused, TypeOK
  <2>. QED  BY <2>2, <2>3
<1>8. CASE KernelTakes
  <2>1. Alloc \in Frame /\ WordOf(Alloc) \in Word
    BY <1>0, <1>8, AllocIsFree, WordOfFrame DEF KernelTakes, TypeOK
  <2>. QED  BY <1>0, <1>8, <2>1 DEF KernelTakes, Take, TypeOK
<1>. QED  BY <1>1, <1>2, <1>3, <1>4, <1>5, <1>6, <1>7, <1>8, Effects

LEMMA TypeStep == AInv /\ [Next]_vars => TypeOK'
<1> SUFFICES ASSUME AInv, [Next]_vars PROVE TypeOK'
  OBVIOUS
<1>0. TypeOK /\ Stages /\ Picked
  BY DEF AInv
<1>1. /\ marked' \subseteq Frame /\ last' \in Word
      /\ slots' \in [Space -> [Slot -> Frame \cup {NoFrame}]]
      /\ kernel' \subseteq Frame /\ raced' \subseteq Frame /\ leaked' \subseteq Frame
  BY FrameTypes
<1>2. /\ pc' \in {"idle", "index", "word", "mark", "store", "copy", "unload", "clear", "panic"}
      /\ loading' \in Space \cup {NoSpace} /\ at' \in Nat \ {0}
      /\ i' \in Word /\ index' \in Word /\ frame' \in Frame \cup {NoFrame} /\ word' \subseteq Frame
      /\ phase' \in [Space -> {"none", "loading", "running", "zombie"}]
  <2> USE <1>0 DEF TypeOK
  <2>1. CASE \E s \in Space : LoadBegins(s)
    BY <2>1, ConstantFacts DEF LoadBegins, Search, RestSearch
  <2>2. CASE BadFile \/ LoadRefused \/ CopyFails
    BY <2>2, ConstantFacts DEF BadFile, LoadRefused, CopyFails, GiveBack, RestSearch, programs
  <2>3. CASE ReadIndex
    BY <2>3, ProbeReaches, ConstantFacts DEF ReadIndex, programs
  <2>4. CASE ReadWord
    <3>1. i + 1 < Words => i + 1 \in Word
      BY ConstantFacts DEF Word
    <3>2. ~Full(index) => LowestFree(index, marked) \in Frame
      BY LowestFreeIsFree DEF Full, InWord
    <3>. QED  BY <2>4, <3>1, <3>2, ConstantFacts DEF ReadWord, programs
  <2>5. CASE ReadAgain
    BY <2>5 DEF ReadAgain, programs, InWord, Picked
  <2>6. CASE StoreWord \/ StackPageSkipped \/ NotMapped
    <3>1. at + 1 \in Nat \ {0}
      OBVIOUS
    <3>. QED  BY <2>6, <3>1, ConstantFacts
              DEF StoreWord, StackPageSkipped, NotMapped, Onward, Search, RestSearch, programs
  <2>7. CASE LoadSucceeds \/ ProcessRefused \/ UnloadEnds
    BY <2>7, ConstantFacts DEF LoadSucceeds, ProcessRefused, UnloadEnds, Idle, search
  <2>8. CASE Panic
    BY <2>8 DEF Panic, search, programs
  <2>9. CASE UnloadPasses
    BY <2>9 DEF UnloadPasses, search, programs
  <2>10. CASE UnloadReads
    <3>1. Mine[Unloaded(at)] \in Frame /\ loading \in Space
      <4>1. loading \in Space /\ at \in 1 .. UnloadFinal
        BY <2>10, UnloadedFacts DEF UnloadReads, Stages
      <4>. QED  BY <2>10, <4>1, UnloadedFacts DEF UnloadReads, Mine
    <3>. QED  BY <2>10, <3>1, WordOfFrame DEF UnloadReads, programs
  <2>11. CASE UnloadClears
    BY <2>11, ConstantFacts DEF UnloadClears, RestSearch, programs
  <2>12. CASE Program \/ KernelTakes \/ SbrkTakes \/ SbrkRefused \/ UNCHANGED vars
    BY <2>12 DEF Program, SbrkBegins, SbrkShrinks, Exits, KernelTakes, SbrkTakes, SbrkRefused,
                 vars, loader, search, programs
  <2>. QED  BY <2>1, <2>2, <2>3, <2>4, <2>5, <2>6, <2>7, <2>8, <2>9, <2>10, <2>11, <2>12
            DEF Next, Load
<1>3. /\ brk' \in [Space -> 0 .. HeapPages] /\ next' \in 0 .. HeapPages /\ upto' \in 0 .. HeapPages
      /\ caller' \in Space \cup {NoSpace} /\ heap' \in Nat
  <2> USE <1>0 DEF TypeOK
  <2>1. CASE Load
    BY <2>1 DEF Load, LoadBegins, BadFile, ReadIndex, ReadWord, ReadAgain, StoreWord, LoadRefused,
                StackPageSkipped, NotMapped, LoadSucceeds, CopyFails, ProcessRefused, Panic,
                UnloadPasses, UnloadReads, UnloadClears, UnloadEnds, programs, call, history,
                GiveBack, Onward, Search, Idle
  <2>2. CASE Program
    BY <2>2, ConstantFacts DEF Program, SbrkBegins, SbrkShrinks, Exits, Calls, programs, call, history
  <2>3. CASE KernelTakes
    BY <2>3 DEF KernelTakes, Take, programs, call
  <2>4. CASE SbrkTakes
    <3>1. caller \in Space /\ next \in 1 .. HeapPages /\ upto \in next .. HeapPages
      BY <2>4 DEF SbrkTakes, Stages
    <3>. QED  BY <2>4, <3>1, ConstantFacts DEF SbrkTakes, Take, Returns, call
  <2>5. CASE SbrkRefused
    BY <2>5, ConstantFacts DEF SbrkRefused, Returns, programs
  <2>6. CASE UNCHANGED vars
    BY <2>6 DEF vars, programs, call, history
  <2>. QED  BY <2>1, <2>2, <2>3, <2>4, <2>5, <2>6 DEF Next
<1>4. quiet' \in BOOLEAN
  <2>1. CASE Load
    BY <1>0, <2>1, Zenon
       DEF TypeOK, Load, LoadBegins, BadFile, ReadIndex, ReadWord, ReadAgain, StoreWord, LoadRefused,
           StackPageSkipped, NotMapped, LoadSucceeds, CopyFails, ProcessRefused, Panic,
           UnloadPasses, UnloadReads, UnloadClears, UnloadEnds, history, GiveBack, Onward, Search, Idle
  <2>2. CASE Program \/ UNCHANGED vars
    BY <1>0, <2>2, Zenon DEF TypeOK, Program, SbrkBegins, SbrkShrinks, Exits, vars, history
  <2>3. CASE KernelTakes \/ SbrkTakes \/ SbrkRefused
    BY <1>0, <2>3, Zenon DEF TypeOK, KernelTakes, SbrkTakes, SbrkRefused, Take
  <2>. QED  BY <2>1, <2>2, <2>3 DEF Next
<1>. QED  BY <1>1, <1>2, <1>3, <1>4 DEF TypeOK

LEMMA StagesStep == AInv /\ [Next]_vars => Stages'
<1> SUFFICES ASSUME AInv, [Next]_vars PROVE Stages'
  OBVIOUS
<1>0. TypeOK /\ Stages
  BY DEF AInv
<1> USE <1>0 DEF Stages
<1>1. CASE \E s \in Space : LoadBegins(s)
  BY <1>1, TargetFacts, ConstantFacts DEF LoadBegins, Search, TypeOK, call
<1>2. CASE BadFile \/ LoadRefused \/ CopyFails
  BY <1>2, UnloadedFacts DEF BadFile, LoadRefused, CopyFails, NoFrameLeft, GiveBack, programs, call
<1>3. CASE ReadIndex \/ ReadWord \/ ReadAgain \/ Panic
  BY <1>3 DEF ReadIndex, ReadWord, ReadAgain, Panic, programs, call
<1>4. CASE StoreWord \/ StackPageSkipped \/ NotMapped
  <2>1. pc \in {"store", "word"} /\ at \in 1 .. Final /\ at \in Nat /\ Final \in Nat
    BY <1>4, TargetFacts DEF StoreWord, StackPageSkipped, NotMapped, NoFrameLeft
  <2>2. ASSUME NEW k \in {at, at + 1}, Onward(k)
        PROVE  /\ pc' \in {"copy", "index"}
               /\ pc' = "index" => at' \in 1 .. Final
    BY <2>1, <2>2 DEF Onward, Search
  <2>3. Onward(at) \/ Onward(at + 1)
    BY <1>4 DEF StoreWord, StackPageSkipped, NotMapped
  <2>4. pc' \in {"copy", "index"} /\ (pc' = "index" => at' \in 1 .. Final)
    BY <2>2, <2>3
  <2>. QED  BY <1>4, <2>1, <2>4 DEF StoreWord, StackPageSkipped, NotMapped, programs, call
<1>5. CASE LoadSucceeds \/ ProcessRefused \/ UnloadEnds
  BY <1>5, ConstantFacts DEF LoadSucceeds, ProcessRefused, UnloadEnds, Idle, TypeOK, call, Running
<1>6. CASE UnloadPasses \/ UnloadReads \/ UnloadClears
  BY <1>6, UnloadedFacts DEF UnloadPasses, UnloadReads, UnloadClears, programs, call
<1>7. CASE \E s \in Space : SbrkBegins(s)
  BY <1>7, ConstantFacts DEF SbrkBegins, Calls, TypeOK, programs, loader
<1>8. CASE \E s \in Space : SbrkShrinks(s) \/ Exits(s)
  BY <1>8, ConstantFacts DEF SbrkShrinks, Exits, Calls, TypeOK, call, loader
<1>9. CASE KernelTakes \/ SbrkTakes \/ SbrkRefused
  BY <1>9, ConstantFacts DEF KernelTakes, SbrkTakes, SbrkRefused, Returns, TypeOK, programs, call, loader
<1>10. CASE UNCHANGED vars
  BY <1>10 DEF vars, programs, call, loader
<1>. QED  BY <1>1, <1>2, <1>3, <1>4, <1>5, <1>6, <1>7, <1>8, <1>9, <1>10 DEF Next, Load, Program

\* A call under way is not the loader's program, so the loader's slots stay.
LEMMA LoaderApart ==
  ASSUME Stages, caller \in Space, pc # "idle"
  PROVE  loading \in Space /\ loading # caller
  BY DEF Stages

LEMMA PickedStep == AInv /\ [Next]_vars => Picked'
<1> SUFFICES ASSUME AInv, [Next]_vars PROVE Picked'
  OBVIOUS
<1>0. TypeOK /\ Stages /\ Picked /\ Hands
  BY DEF AInv
<1>1. CASE ReadWord
  <2>1. pc' = "mark" => frame' \in InWord(index) \ marked /\ index' = index
    BY <1>1, LowestFreeIsFree DEF ReadWord, Full
  <2>2. pc' \in {"mark", "index"} /\ marked' = marked
    BY <1>1 DEF ReadWord, bitmap
  <2>. QED  BY <2>1, <2>2 DEF Picked, InWord
<1>2. CASE ReadAgain
  <2>1. pc = "mark" /\ frame \in Frame /\ index = WordOf(frame)
    BY <1>0, <1>2 DEF ReadAgain, Picked
  <2>2. /\ pc' = "store" /\ word' = (marked \cap InWord(index)) \cup {frame}
        /\ UNCHANGED <<marked, frame, index, raced, leaked>>
    BY <1>2 DEF ReadAgain, bitmap, history
  <2>. QED  BY <1>0, <2>1, <2>2 DEF Picked, InWord, TypeOK
<1>3. CASE UnloadReads
  <2>1. loading \in Space /\ at \in 1 .. UnloadFinal
    BY <1>0, <1>3, UnloadedFacts DEF UnloadReads, Stages
  <2>2. Mine[Unloaded(at)] \in Frame
    BY <1>0, <1>3, <2>1, UnloadedFacts DEF UnloadReads, Mine, TypeOK
  <2>3. /\ pc' = "clear" /\ frame' = Mine[Unloaded(at)] /\ index' = WordOf(frame')
        /\ word' = (marked \cap InWord(WordOf(frame'))) \ {frame'}
        /\ UNCHANGED <<marked, slots, loading, at, raced, leaked>>
    BY <1>3 DEF UnloadReads, bitmap, history
  <2>. QED  BY <1>0, <2>2, <2>3 DEF Picked, InWord, TypeOK, Mine
<1>4. CASE \/ \E s \in Space : LoadBegins(s)
           \/ BadFile \/ ReadIndex \/ StoreWord \/ LoadRefused \/ StackPageSkipped \/ NotMapped
           \/ LoadSucceeds \/ CopyFails \/ ProcessRefused \/ Panic \/ UnloadPasses \/ UnloadClears
           \/ UnloadEnds
  <2>1. pc' \notin {"mark", "store", "clear"}
    BY <1>4 DEF LoadBegins, BadFile, ReadIndex, StoreWord, LoadRefused, StackPageSkipped, NotMapped,
                LoadSucceeds, CopyFails, ProcessRefused, Panic, UnloadPasses, UnloadClears,
                UnloadEnds, GiveBack, Onward, Search, Idle
  <2>. QED  BY <2>1 DEF Picked
<1>5. CASE Program \/ UNCHANGED vars
  BY <1>0, <1>5 DEF Program, SbrkBegins, SbrkShrinks, Exits, vars, bitmap, loader, search, history, Picked
<1>6. ASSUME NEW f \in Frame \ marked, Take(f), UNCHANGED loader, leaked \subseteq leaked',
             pc = "clear" => slots'[loading] = slots[loading]
      PROVE  Picked'
  <2>1. UNCHANGED <<pc, loading, at, index, frame, word>>
    BY <1>6 DEF loader, search
  <2>2. marked' = marked \cup {f} /\ raced \subseteq raced'
    BY <1>6 DEF Take
  <2>3. pc = "mark" /\ f = frame => f \in raced'
    BY <1>6 DEF Take
  <2>4. pc \in {"store", "clear"} /\ WordOf(f) = WordOf(frame) => f \in raced'
    BY <1>6 DEF Take, Writing
  <2>. QED  BY <1>0, <1>6, <2>1, <2>2, <2>3, <2>4 DEF Picked
<1>7. CASE KernelTakes
  <2>1. Alloc \in Frame \ marked
    BY <1>0, <1>7, AllocIsFree DEF KernelTakes, TypeOK
  <2>. QED  BY <1>6, <1>7, <2>1 DEF KernelTakes
<1>8. CASE SbrkTakes
  <2>1. Alloc \in Frame \ marked /\ caller \in Space /\ slots' = [slots EXCEPT ![caller] = SbrkGot]
    BY <1>0, <1>8, SbrkFacts DEF SbrkTakes, SbrkGot, Given
  <2>2. pc = "clear" => slots'[loading] = slots[loading]
    BY <1>0, <2>1, LoaderApart DEF TypeOK
  <2>. QED  BY <1>6, <1>8, <2>1, <2>2 DEF SbrkTakes
<1>9. CASE SbrkRefused
  <2>1. UNCHANGED <<pc, loading, at, index, frame, word, raced>> /\ caller \in Space
    BY <1>0, <1>9 DEF SbrkRefused, loader, search, TypeOK
  <2>2. CASE slots[caller][Hand] = NoFrame
    BY <1>0, <1>9, <2>1, <2>2 DEF SbrkRefused, Picked, bitmap
  <2>3. CASE slots[caller][Hand] # NoFrame
    <3> DEFINE f == slots[caller][Hand]
    <3>1. /\ marked' = marked \ {f}
          /\ slots' = [slots EXCEPT ![caller][Hand] = NoFrame]
          /\ leaked' = IF Writing /\ f \in word THEN leaked \cup {f} ELSE leaked
      BY <1>9, <2>3 DEF SbrkRefused
    <3>2. pc = "clear" => slots'[loading] = slots[loading]
      BY <1>0, <2>1, <3>1, LoaderApart DEF TypeOK
    <3>3. pc \in {"store", "clear"} => word \subseteq marked' \cup leaked' \cup {frame}
      BY <1>0, <3>1 DEF Picked, Writing
    <3>. QED  BY <1>0, <2>1, <3>1, <3>2, <3>3 DEF Picked
  <2>. QED  BY <2>2, <2>3
<1>. QED  BY <1>1, <1>2, <1>3, <1>4, <1>5, <1>7, <1>8, <1>9 DEF Next, Load

LEMMA KernelMarkedStep == AInv /\ [Next]_vars => KernelMarked'
<1> SUFFICES ASSUME AInv, [Next]_vars PROVE KernelMarked'
  OBVIOUS
<1>0. TypeOK /\ Stages /\ Picked /\ KernelMarked /\ Exclusive
  BY DEF AInv
<1>1. CASE Still
  BY <1>0, <1>1 DEF Still, KernelMarked
<1>2. CASE StoreWord
  BY <1>0, <1>2 DEF StoreWord, KernelMarked, Picked, InWord, TypeOK
<1>3. CASE UnloadClears
  <2>1. frame \in kernel => frame \in raced
    <3>1. loading \in Space /\ Unloaded(at) \in Slot /\ slots[loading][Unloaded(at)] = frame
      BY <1>0, <1>3, UnloadedFacts DEF UnloadClears, Stages, Picked
    <3>. QED  BY <1>0, <1>3, <3>1, ConstantFacts DEF UnloadClears, Exclusive, Owned, Picked
  <2>. QED  BY <1>0, <1>3, <2>1 DEF UnloadClears, KernelMarked, Picked, InWord, TypeOK, history
<1>4. CASE SbrkRefused
  <2>1. caller \in Space /\ Hand \in Slot
    BY <1>0, <1>4, SlotFacts DEF SbrkRefused, TypeOK
  <2>2. slots[caller][Hand] # NoFrame /\ slots[caller][Hand] \in kernel => slots[caller][Hand] \in raced
    BY <1>0, <2>1 DEF Exclusive, Owned
  <2>3. CASE slots[caller][Hand] = NoFrame
    BY <1>0, <1>4, <2>3 DEF SbrkRefused, KernelMarked, bitmap
  <2>4. CASE slots[caller][Hand] # NoFrame
    BY <1>0, <1>4, <2>2, <2>4 DEF SbrkRefused, KernelMarked
  <2>. QED  BY <2>3, <2>4
<1>5. CASE KernelTakes \/ SbrkTakes
  BY <1>0, <1>5 DEF KernelTakes, SbrkTakes, Take, KernelMarked
<1>6. CASE NotMapped \/ UnloadEnds \/ ProcessRefused
  BY <1>0, <1>6 DEF NotMapped, UnloadEnds, ProcessRefused, KernelMarked, bitmap
<1>. QED  BY <1>1, <1>2, <1>3, <1>4, <1>5, <1>6, Effects

LEMMA ProgressStep == AInv /\ [Next]_vars => Progress'
<1> SUFFICES ASSUME AInv, [Next]_vars PROVE Progress'
  OBVIOUS
<1>0. TypeOK /\ Stages /\ Picked /\ Progress /\ Unborn
  BY DEF AInv
<1>1. ASSUME NEW s \in Space, LoadBegins(s)
      PROVE  Progress'
  <2>1. /\ slots' = slots /\ loading' = s /\ pc' = "index" /\ at' = 1
        /\ slots[s] = Empty
    BY <1>0, <1>1 DEF LoadBegins, Search, Unborn
  <2>2. Mine'[Hand] = NoFrame /\ \A k \in 1 .. Final : Mine'[Target(k)] = NoFrame
    BY <2>1, SlotFacts, TargetFacts DEF Mine, Empty
  <2>. QED  BY <2>1, <2>2 DEF Progress
<1>2. CASE BadFile \/ LoadRefused \/ CopyFails
  <2>1. Mine[Hand] = NoFrame /\ Mine' = Mine /\ pc' = "unload" /\ at' = 1
    BY <1>0, <1>2 DEF BadFile, LoadRefused, CopyFails, GiveBack, Progress, Mine
  <2>. QED  BY <2>1 DEF Progress
<1>3. CASE ReadIndex \/ ReadWord \/ ReadAgain \/ Panic \/ UnloadReads
  <2>1. /\ Mine' = Mine /\ at' = at
        /\ pc' \in {"index", "word", "mark", "store"} => pc \in {"index", "word", "mark", "store"}
        /\ pc' \in {"copy", "unload", "clear"} => pc' = "clear" /\ pc = "unload"
    BY <1>3 DEF ReadIndex, ReadWord, ReadAgain, Panic, UnloadReads, Mine
  <2>. QED  BY <1>0, <2>1 DEF Progress
<1>4. CASE StoreWord
  <2> DEFINE u == Granted(Mine)
  <2>1. /\ Mine' = u /\ at \in 1 .. Final /\ at \in Nat
        /\ Onward(IF u[Hand] = NoFrame THEN at + 1 ELSE at)
    BY <1>0, <1>4, TargetFacts DEF StoreWord, Mine, Stages, TypeOK
  <2>2. /\ \A k \in at + 1 .. Final : u[Target(k)] = NoFrame
        /\ u[Hand] # NoFrame => /\ at >= Start /\ Missing(u, Target(at)[1]) # {}
                                /\ u[Target(at)] = NoFrame
    BY <1>0, <1>4, GrantedFacts DEF StoreWord
  <2> HIDE DEF u
  <2>3. CASE u[Hand] = NoFrame
    BY <2>1, <2>2, <2>3 DEF Onward, Search, Progress
  <2>4. CASE u[Hand] # NoFrame
    <3>1. at' = at /\ pc' = "index"
      BY <2>1, <2>4, TargetFacts DEF Onward, Search
    <3>2. \A k \in at .. Final : k = at \/ k \in at + 1 .. Final
      BY <2>1, TargetFacts
    <3>3. \A k \in at .. Final : u[Target(k)] = NoFrame
      BY <2>2, <2>4, <3>2
    <3>4. at >= Start /\ Missing(u, Target(at)[1]) # {}
      BY <2>2, <2>4
    <3>. QED  BY <2>1, <3>1, <3>3, <3>4 DEF Progress
  <2>. QED  BY <2>3, <2>4
<1>5. CASE StackPageSkipped \/ NotMapped
  <2>1. /\ loading \in Space /\ at \in 1 .. Final /\ at \in Nat /\ Onward(at + 1)
        /\ \A k \in at .. Final : Mine[Target(k)] = NoFrame
    BY <1>0, <1>5, TargetFacts DEF StackPageSkipped, NotMapped, NoFrameLeft, Stages, Progress
  <2>2. Mine'[Hand] = NoFrame /\ \A x \in Slot : x # Hand => Mine'[x] = Mine[x]
    BY <1>0, <1>5, <2>1, SlotFacts DEF StackPageSkipped, NotMapped, Mine, TypeOK
  <2>3. \A k \in at + 1 .. Final : Mine'[Target(k)] = NoFrame
    <3>1. \A k \in at + 1 .. Final : k \in at .. Final /\ k \in 1 .. Final
      BY <2>1, TargetFacts
    <3>. QED  BY <2>1, <2>2, <3>1, TargetFacts
  <2>. QED  BY <2>1, <2>2, <2>3 DEF Onward, Search, Progress
<1>6. CASE LoadSucceeds \/ ProcessRefused \/ UnloadEnds
  <2>1. pc' = "idle"
    BY <1>6 DEF LoadSucceeds, ProcessRefused, UnloadEnds, Idle
  <2>. QED  BY <2>1 DEF Progress
<1>7. CASE UnloadPasses
  <2>1. /\ Mine' = Mine /\ pc = "unload" /\ pc' = "unload" /\ at' = at + 1 /\ at \in Nat
        /\ Mine[Unloaded(at)] = NoFrame
    BY <1>0, <1>7 DEF UnloadPasses, Mine, TypeOK
  <2>2. \A k \in 1 .. at' - 1 : k \in 1 .. at - 1 \/ k = at
    BY <2>1
  <2>. QED  BY <1>0, <2>1, <2>2 DEF Progress
<1>8. CASE UnloadClears
  <2>1. /\ loading \in Space /\ at \in 1 .. UnloadFinal /\ at \in Nat
        /\ pc = "clear" /\ pc' = "unload" /\ at' = at + 1
        /\ Mine' = [Mine EXCEPT ![Unloaded(at)] = NoFrame] /\ Mine \in [Slot -> Frame \cup {NoFrame}]
    BY <1>0, <1>8, UnloadedFacts DEF UnloadClears, Stages, Mine, TypeOK
  <2>2. /\ \A k \in 1 .. at' - 1 : k \in 1 .. at - 1 \/ k = at
        /\ \A k \in 1 .. at' - 1 : k \in 1 .. UnloadFinal
    BY <2>1, UnloadedFacts
  <2>3. Mine'[Hand] = NoFrame
    BY <1>0, <2>1, SlotFacts DEF Progress
  <2>4. \A k \in 1 .. at' - 1 : Mine'[Unloaded(k)] = NoFrame
    BY <1>0, <2>1, <2>2, UnloadedFacts DEF Progress
  <2>. QED  BY <2>1, <2>3, <2>4 DEF Progress
<1>9. CASE Program \/ KernelTakes \/ SbrkTakes \/ SbrkRefused \/ UNCHANGED vars
  <2>1. UNCHANGED <<pc, loading, at>>
    BY <1>9 DEF Program, SbrkBegins, SbrkShrinks, Exits, KernelTakes, SbrkTakes, SbrkRefused,
                vars, loader
  <2>2. pc # "idle" => Mine' = Mine
    <3>1. CASE Program \/ KernelTakes \/ UNCHANGED vars
      BY <3>1 DEF Program, SbrkBegins, SbrkShrinks, Exits, KernelTakes, vars, loader, Mine
    <3>2. CASE SbrkTakes \/ SbrkRefused
      <4>1. caller \in Space
        BY <1>0, <3>2 DEF SbrkTakes, SbrkRefused, TypeOK
      <4>2. \A s \in Space : s # caller => slots'[s] = slots[s]
        BY <1>0, <3>2, <4>1 DEF SbrkTakes, SbrkRefused, TypeOK
      <4>. QED  BY <1>0, <2>1, <4>1, <4>2, LoaderApart DEF Mine
    <3>. QED  BY <1>9, <3>1, <3>2
  <2>. QED  BY <1>0, <2>1, <2>2 DEF Progress
<1>. QED  BY <1>1, <1>2, <1>3, <1>4, <1>5, <1>6, <1>7, <1>8, <1>9 DEF Next, Load

\* Which address spaces a step changes: the loader's or the caller's.
LEMMA SlotsChange ==
  ASSUME TypeOK, Stages, [Next]_vars, NEW s \in Space, slots'[s] # slots[s]
  PROVE  \/ /\ s = loading /\ phase[s] = "loading" /\ caller = NoSpace /\ caller' = NoSpace
            /\ \/ StoreWord /\ phase'[s] = "loading"
               \/ (NotMapped \/ UnloadClears) /\ phase'[s] = "loading"
               \/ (UnloadEnds \/ ProcessRefused) /\ phase'[s] = "none" /\ slots'[s] = Empty
         \/ /\ s = caller /\ phase[s] = "running" /\ phase'[s] = "running"
            /\ SbrkTakes \/ SbrkRefused
<1>1. CASE StoreWord \/ NotMapped \/ UnloadClears
  BY <1>1 DEF StoreWord, NotMapped, UnloadClears, NoFrameLeft, programs, call, Stages, TypeOK, Running
<1>2. CASE UnloadEnds \/ ProcessRefused
  BY <1>2 DEF UnloadEnds, ProcessRefused, call, Stages, TypeOK, Running
<1>3. CASE SbrkTakes \/ SbrkRefused
  BY <1>3 DEF SbrkTakes, SbrkRefused, programs, Stages, TypeOK
<1>4. CASE KernelTakes \/ Still
  BY <1>4 DEF KernelTakes, Still
<1>. QED  BY <1>1, <1>2, <1>3, <1>4, Effects

LEMMA UnbornStep == AInv /\ [Next]_vars => Unborn'
<1> SUFFICES ASSUME AInv, [Next]_vars, NEW s \in Space
             PROVE  /\ phase'[s] = "none" => slots'[s] = Empty
                    /\ phase'[s] \in {"none", "loading"} =>
                         brk'[s] = 0 /\ \A x \in Slot : x[1] = "heap" => slots'[s][x] = NoFrame
  BY DEF Unborn
<1>0. TypeOK /\ Stages /\ Picked /\ Progress /\ Unborn
  BY DEF AInv
<1>e. Empty \in [Slot -> Frame \cup {NoFrame}] /\ \A x \in Slot : Empty[x] = NoFrame
  BY DEF Empty
<1>1. /\ phase'[s] \in {"none", "loading"} =>
           \/ phase[s] \in {"none", "loading"} /\ brk'[s] = brk[s]
      /\ phase'[s] = "none" => phase[s] = "none" \/ slots'[s] = Empty
  <2>1. CASE \E t \in Space : LoadBegins(t)
    BY <1>0, <2>1 DEF LoadBegins, TypeOK
  <2>2. CASE UnloadEnds \/ ProcessRefused \/ LoadSucceeds
    BY <1>0, <2>2 DEF UnloadEnds, ProcessRefused, LoadSucceeds, TypeOK, Stages
  <2>3. CASE Program
    BY <1>0, <2>3 DEF Program, SbrkBegins, SbrkShrinks, Exits, Calls, programs, TypeOK
  <2>4. CASE SbrkTakes
    BY <1>0, <2>4 DEF SbrkTakes, Returns, TypeOK, Stages
  <2>5. CASE \/ BadFile \/ ReadIndex \/ ReadWord \/ ReadAgain \/ StoreWord
             \/ LoadRefused \/ StackPageSkipped \/ NotMapped \/ CopyFails \/ Panic
             \/ UnloadPasses \/ UnloadReads \/ UnloadClears
             \/ KernelTakes \/ SbrkRefused \/ UNCHANGED vars
    <3>1. UNCHANGED programs
      BY <2>5 DEF BadFile, ReadIndex, ReadWord, ReadAgain, StoreWord, LoadRefused, StackPageSkipped,
                  NotMapped, CopyFails, Panic, UnloadPasses, UnloadReads, UnloadClears, KernelTakes,
                  SbrkRefused, vars
    <3>. QED  BY <3>1 DEF programs
  <2>. QED  BY <2>1, <2>2, <2>3, <2>4, <2>5 DEF Next, Load
<1>2. CASE slots'[s] = slots[s]
  BY <1>0, <1>1, <1>e, <1>2 DEF Unborn
<1>3. CASE slots'[s] # slots[s]
  <2>1. CASE StoreWord /\ s = loading /\ phase[s] = "loading" /\ phase'[s] = "loading"
    <3>1. slots'[s] = Granted(Mine) /\ Mine = slots[s]
      BY <1>0, <2>1 DEF StoreWord, TypeOK, Mine
    <3>2. \A x \in Slot : x[1] = "heap" => Granted(Mine)[x] = Mine[x]
      BY <1>0, <2>1, GrantedFacts DEF StoreWord
    <3>. QED  BY <1>0, <1>1, <2>1, <3>1, <3>2 DEF Unborn
  <2>2. CASE NotMapped /\ s = loading /\ phase[s] = "loading" /\ phase'[s] = "loading"
    <3>1. slots'[s] = [slots[s] EXCEPT ![Hand] = NoFrame]
      BY <1>0, <2>2 DEF NotMapped, TypeOK
    <3>2. \A x \in Slot : x[1] = "heap" => slots'[s][x] = slots[s][x]
      BY <1>0, <3>1 DEF Hand, TypeOK
    <3>. QED  BY <1>0, <1>1, <2>2, <3>2 DEF Unborn
  <2>3. CASE UnloadClears /\ s = loading /\ phase[s] = "loading" /\ phase'[s] = "loading"
    <3>1. slots'[s] = [slots[s] EXCEPT ![Unloaded(at)] = NoFrame] /\ at \in 1 .. UnloadFinal
      BY <1>0, <2>3, UnloadedFacts DEF UnloadClears, TypeOK, Stages
    <3>2. \A x \in Slot : x[1] = "heap" => slots'[s][x] = slots[s][x]
      BY <1>0, <3>1, UnloadedFacts DEF TypeOK
    <3>. QED  BY <1>0, <1>1, <2>3, <3>2 DEF Unborn
  <2>4. CASE phase'[s] = "none" /\ slots'[s] = Empty
    BY <1>0, <1>1, <1>e, <2>4 DEF Unborn
  <2>5. CASE phase'[s] = "running"
    BY <2>5
  <2>. QED  BY <1>0, <1>3, <2>1, <2>2, <2>3, <2>4, <2>5, SlotsChange
<1>. QED  BY <1>2, <1>3

LEMMA HandsStep == AInv /\ [Next]_vars => Hands'
<1> SUFFICES ASSUME AInv, [Next]_vars,
                    NEW s \in Space, phase'[s] = "running", slots'[s][Hand] # NoFrame
             PROVE  s = caller' /\ Missing(slots'[s], "heap") # {}
  BY DEF Hands
<1>0. TypeOK /\ Stages /\ Progress /\ Hands
  BY DEF AInv
<1>1. CASE SbrkTakes
  <2>1. slots' = [slots EXCEPT ![caller] = SbrkGot] /\ caller \in Space /\ phase' = phase
    BY <1>0, <1>1, SbrkFacts DEF SbrkTakes, SbrkGot, Given
  <2>2. SbrkGot[Hand] # NoFrame => Missing(SbrkGot, "heap") # {} /\ caller' = caller
    BY <1>0, <1>1, SbrkFacts DEF SbrkTakes, SbrkGot, Given, call
  <2>. QED  BY <1>0, <2>1, <2>2 DEF Hands, TypeOK
<1>2. CASE SbrkRefused
  <2>1. caller \in Space /\ phase' = phase /\ Hand \in Slot
    BY <1>0, <1>2, SlotFacts DEF SbrkRefused, TypeOK, programs
  <2>. QED  BY <1>0, <1>2, <2>1 DEF SbrkRefused, Hands, TypeOK
<1>3. CASE LoadSucceeds
  BY <1>0, <1>3 DEF LoadSucceeds, TypeOK, Stages, Progress, Hands, Mine, call
<1>4. CASE (Load /\ ~LoadSucceeds) \/ Program \/ KernelTakes \/ UNCHANGED vars
  <2>1. ~SbrkTakes /\ ~SbrkRefused => slots'[s] = slots[s]
    BY <1>0, SlotsChange
  <2>2. CASE SbrkTakes \/ SbrkRefused
    BY <1>1, <1>2, <2>2
  <2>3. phase[s] = "running"
    BY <1>0, <1>4 DEF TypeOK, Stages, Load, LoadBegins, BadFile, ReadIndex, ReadWord, ReadAgain, StoreWord,
           LoadRefused, StackPageSkipped, NotMapped, CopyFails, ProcessRefused, Panic, UnloadPasses,
           UnloadReads, UnloadClears, UnloadEnds, programs, Program, SbrkBegins, SbrkShrinks, Exits,
           KernelTakes, vars
  <2>4. ASSUME slots'[s] = slots[s] PROVE s = caller
    BY <1>0, <2>3, <2>4 DEF Hands
  <2>5. ASSUME s = caller PROVE caller' = caller
    BY <1>4, <2>5, ConstantFacts DEF Load, LoadBegins, BadFile, ReadIndex, ReadWord, ReadAgain, StoreWord,
           LoadRefused, StackPageSkipped, NotMapped, CopyFails, ProcessRefused, Panic, UnloadPasses,
           UnloadReads, UnloadClears, UnloadEnds, Program, SbrkBegins, SbrkShrinks, Exits, Calls,
           KernelTakes, vars, call
  <2>. QED  BY <1>0, <2>1, <2>2, <2>3, <2>4, <2>5 DEF Hands
<1>. QED  BY <1>1, <1>2, <1>3, <1>4 DEF Next

LEMMA CallHeapStep == AInv /\ [Next]_vars => CallHeap'
<1> SUFFICES ASSUME AInv, [Next]_vars, caller' \in Space, NEW n \in 1 .. next' - 1
             PROVE  /\ slots'[caller'][Page("heap", n)] # NoFrame
                    /\ Missing(slots'[caller'], "heap") = {}
  BY DEF CallHeap, Owned
<1>0. TypeOK /\ Stages /\ Hands /\ CallHeap /\ HeapMapped
  BY DEF AInv
<1>1. CASE \E s \in Space : SbrkBegins(s)
  <2>1. PICK s \in Space : SbrkBegins(s)
    BY <1>1
  <2>2. /\ phase[s] = "running" /\ caller' = s /\ next' = brk[s] + 1 /\ slots' = slots
        /\ brk[s] \in Nat
    BY <1>0, <2>1, ConstantFacts DEF SbrkBegins, Calls, TypeOK
  <2>3. n \in 1 .. brk[s]
    <3>1. next' - 1 = brk[s]
      BY <2>2
    <3>. QED  BY <3>1
  <2>. QED  BY <1>0, <2>2, <2>3 DEF HeapMapped, Owned
<1>2. CASE SbrkTakes
  <2> DEFINE t == slots[caller] u == SbrkGot
  <2>1. /\ caller \in Space /\ slots' = [slots EXCEPT ![caller] = u]
        /\ next \in 1 .. HeapPages /\ next \in Nat /\ HeapPages \in Nat
    BY <1>0, <1>2, SbrkFacts, ConstantFacts DEF SbrkTakes, SbrkGot, Given, Stages
  <2>2. /\ u[Hand] # NoFrame => u[Page("heap", next)] = t[Page("heap", next)]
        /\ u[Hand] = NoFrame => Missing(u, "heap") = {} /\ u[Page("heap", next)] \in Frame
        /\ Missing(t, "heap") = {} => Missing(u, "heap") = {}
        /\ \A m \in PageNumber("heap") : m # next => u[Page("heap", m)] = t[Page("heap", m)]
    BY <1>0, <1>2, SbrkFacts DEF SbrkTakes
  <2>3. /\ caller' = caller /\ slots'[caller'] = u
        /\ u[Hand] # NoFrame => next' = next
        /\ u[Hand] = NoFrame => next' = next + 1
    BY <1>0, <1>2, <2>1, ConstantFacts DEF SbrkTakes, SbrkGot, Given, Returns, call, TypeOK
  <2> HIDE DEF u
  <2>4. n \in 1 .. next - 1 \/ (n = next /\ u[Hand] = NoFrame)
    <3>1. CASE u[Hand] # NoFrame
      <4>1. next' = next
        BY <2>3, <3>1
      <4>2. n \in 1 .. next - 1
        BY <4>1
      <4>. QED  BY <4>2
    <3>2. CASE u[Hand] = NoFrame
      <4>1. next' - 1 = next
        BY <2>1, <2>3, <3>2
      <4>2. n \in 1 .. next
        BY <4>1
      <4>. QED  BY <2>1, <3>2, <4>2
    <3>. QED  BY <3>1, <3>2
  <2>5. n \in PageNumber("heap")
    BY <2>1, <2>4 DEF PageNumber
  <2>6. CASE n \in 1 .. next - 1
    <3>1. t[Page("heap", n)] # NoFrame /\ Missing(t, "heap") = {} /\ n # next
      BY <1>0, <2>1, <2>6 DEF CallHeap, Owned
    <3>. QED  BY <2>2, <2>3, <2>5, <3>1
  <2>7. CASE n = next /\ u[Hand] = NoFrame
    BY <2>2, <2>3, <2>7, ConstantFacts
  <2>. QED  BY <2>4, <2>6, <2>7
<1>3. CASE SbrkRefused
  BY <1>3, ConstantFacts DEF SbrkRefused, Returns
<1>4. CASE \/ Load \/ \E s \in Space : SbrkShrinks(s) \/ Exits(s)
           \/ KernelTakes \/ UNCHANGED vars
  <2>1. caller' = caller /\ next' = next
    BY <1>4 DEF Load, LoadBegins, BadFile, ReadIndex, ReadWord, ReadAgain, StoreWord,
           LoadRefused, StackPageSkipped, NotMapped, LoadSucceeds, CopyFails, ProcessRefused, Panic,
           UnloadPasses, UnloadReads, UnloadClears, UnloadEnds, SbrkShrinks, Exits,
           KernelTakes, vars, call
  <2>2. SbrkTakes \/ SbrkRefused \/ slots'[caller] = slots[caller]
    BY <1>0, <2>1, SlotsChange, ConstantFacts
  <2>3. CASE slots'[caller] = slots[caller]
    BY <1>0, <2>1, <2>3 DEF CallHeap, Owned
  <2>. QED  BY <1>2, <1>3, <2>2, <2>3
<1>. QED  BY <1>1, <1>2, <1>3, <1>4 DEF Next, Program


LEMMA SearchedStep == AInv /\ [Next]_vars => Searched'
<1> SUFFICES ASSUME AInv, [Next]_vars, quiet', pc' \in {"index", "word"}
             PROVE  /\ \A j \in 0 .. i' - 1 : Full(Probe(j))'
                    /\ pc' = "word" => index' = Probe(i)'
  BY DEF Searched
<1>0. TypeOK /\ Stages /\ Searched
  BY DEF AInv
<1>1. CASE ReadIndex
  <2>1. pc = "index" /\ quiet /\ i' = i /\ marked' = marked /\ last' = last /\ index' = Probe(i)
    BY <1>1 DEF ReadIndex, bitmap, history
  <2>. QED  BY <1>0, <2>1 DEF Searched, Full, Probe
<1>2. CASE ReadWord
  <2>1. /\ pc = "word" /\ quiet /\ marked' = marked /\ last' = last /\ pc' = "index"
        /\ Full(index) /\ i' = i + 1
    BY <1>2 DEF ReadWord, bitmap, history
  <2>2. index = Probe(i) /\ \A j \in 0 .. i - 1 : Full(Probe(j))
    BY <1>0, <2>1 DEF Searched
  <2>3. \A j \in 0 .. i' - 1 : j \in 0 .. i - 1 \/ j = i
    BY <1>0, <2>1, ConstantFacts DEF TypeOK
  <2>4. \A j \in 0 .. i' - 1 : Full(Probe(j))
    BY <2>1, <2>2, <2>3
  <2>. QED  BY <2>1, <2>4 DEF Full, Probe
<1>3. CASE pc' = "index" /\ i' = 0
  BY <1>3
<1>4. CASE UNCHANGED <<marked, last, pc, i, index, quiet>>
  BY <1>0, <1>4 DEF Searched, Full, Probe
<1>5. CASE (\E s \in Space : LoadBegins(s)) \/ StoreWord \/ StackPageSkipped \/ NotMapped
  <2>1. pc' = "index" /\ i' = 0
    BY <1>5 DEF LoadBegins, StoreWord, StackPageSkipped, NotMapped, Onward, Search, RestSearch
  <2>. QED  BY <1>3, <2>1
<1>6. CASE \/ BadFile \/ ReadAgain \/ LoadRefused \/ LoadSucceeds \/ CopyFails \/ ProcessRefused
           \/ Panic \/ UnloadPasses \/ UnloadReads \/ UnloadClears \/ UnloadEnds
  <2>1. pc' \notin {"index", "word"}
    BY <1>6 DEF BadFile, ReadAgain, LoadRefused, LoadSucceeds, CopyFails, ProcessRefused,
                Panic, UnloadPasses, UnloadReads, UnloadClears, UnloadEnds, GiveBack, Idle
  <2>. QED  BY <2>1
<1>7. CASE KernelTakes \/ SbrkTakes
  <2>1. quiet' = FALSE
    BY <1>7, Zenon DEF KernelTakes, SbrkTakes, Take
  <2>. QED  BY <2>1
<1>8. CASE SbrkRefused
  <2>1. UNCHANGED loader
    BY <1>8 DEF SbrkRefused
  <2>2. quiet' = FALSE \/ UNCHANGED <<bitmap, quiet>>
    BY <1>8, Zenon DEF SbrkRefused
  <2>. QED  BY <1>4, <2>1, <2>2 DEF loader, search, bitmap
<1>9. CASE Program \/ UNCHANGED vars
  <2>1. UNCHANGED <<marked, last, pc, i, index, quiet>>
    BY <1>9 DEF Program, SbrkBegins, SbrkShrinks, Exits, vars, bitmap, loader, search, history
  <2>. QED  BY <1>4, <2>1
<1>. QED  BY <1>1, <1>2, <1>5, <1>6, <1>7, <1>8, <1>9 DEF Next, Load

\* An address space gets a frame that was free, or one of the race.
LEMMA GiveExclusive ==
  ASSUME TypeOK, KernelMarked, Exclusive, slots' \in [Space -> [Slot -> Frame \cup {NoFrame}]],
         NEW o \in Space, NEW g \in Frame, Derived(slots'[o], slots[o], g),
         \A s \in Space : s # o => slots'[s] = slots[s],
         g \in marked => g \in raced', g \in marked' \/ g \in raced',
         raced \subseteq raced', marked \ raced' \subseteq marked', kernel' = kernel
  PROVE  Exclusive'
<1> SUFFICES ASSUME NEW s \in Space, NEW x \in Slot, NEW f, f = slots'[s][x],
                    f # NoFrame, f \notin raced'
             PROVE  /\ f \in marked' /\ f \notin kernel'
                    /\ \A t \in Space : \A y \in Slot : slots'[t][y] = f => t = s /\ y = x
  BY DEF Exclusive, Owned
<1>1. f \in Frame /\ f \notin raced /\ f # NoFrame
  OBVIOUS
<1>2. \A t \in Space : \A y \in Slot : slots[t][y] = f =>
        /\ f \in marked /\ f \notin kernel
        /\ \A v \in Space : \A w \in Slot : slots[v][w] = f => v = t /\ w = y
  BY <1>1 DEF Exclusive, Owned
<1>3. \A t \in Space : \A y \in Slot : slots'[t][y] = f => f = g \/ \E z \in Slot : slots[t][z] = f
  BY <1>1 DEF Derived
<1>4. \A y, z \in Slot : slots'[o][y] = f /\ slots'[o][z] = f /\ y # z =>
        \/ f = g /\ \E v \in Slot : slots[o][v] = f
        \/ \E v, w \in Slot : v # w /\ slots[o][v] = f /\ slots[o][w] = f
  BY <1>1 DEF Derived
<1>5. CASE f = g
  <2>1. f \notin marked /\ f \in marked'
    BY <1>5
  <2>2. \A t \in Space : \A y \in Slot : slots[t][y] # f
    BY <1>2, <2>1
  <2>3. \A t \in Space : \A y \in Slot : slots'[t][y] = f => t = o
    BY <2>2
  <2>4. \A y \in Slot : slots'[o][y] = f => y = x
    BY <1>4, <2>2, <2>3
  <2>5. f \notin kernel'
    BY <1>1, <2>1 DEF KernelMarked
  <2>. QED  BY <2>1, <2>3, <2>4, <2>5
<1>6. CASE f # g
  <2>1. PICK z \in Slot : slots[s][z] = f
    BY <1>3, <1>6
  <2>2. f \in marked' /\ f \notin kernel'
    BY <1>2, <2>1
  <2>3. \A t \in Space : \A y \in Slot : slots'[t][y] = f => t = s
    BY <1>2, <1>3, <1>6, <2>1
  <2>4. \A y \in Slot : slots'[s][y] = f => y = x
    <3>1. CASE s = o
      BY <1>2, <1>4, <1>6, <3>1
    <3>2. CASE s # o
      BY <1>2, <3>2
    <3>. QED  BY <3>1, <3>2
  <2>. QED  BY <2>2, <2>3, <2>4
<1>. QED  BY <1>5, <1>6

\* Slots are emptied, and the frames still held stay marked.
LEMMA DropExclusive ==
  ASSUME Exclusive, raced' = raced, kernel' = kernel,
         \A s \in Space : \A x \in Slot :
           slots'[s][x] # NoFrame /\ slots'[s][x] \notin raced =>
             slots'[s][x] = slots[s][x] /\ (slots[s][x] \in marked => slots[s][x] \in marked')
  PROVE  Exclusive'
<1> SUFFICES ASSUME NEW s \in Space, NEW x \in Slot, slots'[s][x] # NoFrame, slots'[s][x] \notin raced
             PROVE  /\ slots'[s][x] \in marked' /\ slots'[s][x] \notin kernel
                    /\ \A t \in Space : \A y \in Slot : slots'[t][y] = slots'[s][x] => t = s /\ y = x
  BY DEF Exclusive, Owned
<1>1. slots[s][x] # NoFrame /\ slots[s][x] \notin raced /\ slots'[s][x] = slots[s][x]
  OBVIOUS
<1>. QED  BY <1>1 DEF Exclusive, Owned


LEMMA ExclusiveStep == AInv /\ [Next]_vars => Exclusive'
<1> SUFFICES ASSUME AInv, [Next]_vars PROVE Exclusive'
  OBVIOUS
<1>0. /\ TypeOK /\ Stages /\ Picked /\ KernelMarked /\ Progress /\ Hands /\ Exclusive
      /\ slots' \in [Space -> [Slot -> Frame \cup {NoFrame}]] /\ NoFrame \notin Frame
  BY FrameTypes, ConstantFacts DEF AInv
<1>h. \A s \in Space : \A x \in Slot : slots[s][x] # NoFrame /\ slots[s][x] \notin raced =>
        /\ slots[s][x] \in marked
        /\ \A t \in Space : \A y \in Slot : slots[t][y] = slots[s][x] => t = s /\ y = x
  BY <1>0 DEF Exclusive, Owned
<1>1. CASE Still
  BY <1>0, <1>1 DEF Still, Exclusive, Owned
<1>2. CASE StoreWord
  <2>1. /\ loading \in Space /\ frame \in Frame /\ pc = "store"
        /\ slots' = [slots EXCEPT ![loading] = Granted(Mine)]
        /\ UNCHANGED <<raced, kernel>> /\ marked' = (marked \ InWord(index)) \cup word
    BY <1>0, <1>2 DEF StoreWord, Stages, Picked, Mine, history
  <2>2. slots'[loading] = Granted(Mine) /\ \A s \in Space : s # loading => slots'[s] = slots[s]
    BY <1>0, <2>1 DEF TypeOK
  <2>3. Derived(slots'[loading], slots[loading], frame)
    BY <1>0, <2>1, <2>2, GrantedFacts DEF Mine
  <2>4. /\ frame \in marked => frame \in raced
        /\ frame \in word /\ \A f \in marked : WordOf(f) = index => f \in raced \/ f \in word
    BY <1>0, <2>1 DEF Picked
  <2>5. marked \ raced' \subseteq marked' /\ frame \in marked'
    BY <2>1, <2>4 DEF InWord
  <2>. QED  BY <1>0, <2>1, <2>2, <2>3, <2>4, <2>5, GiveExclusive
<1>3. CASE SbrkTakes
  <2>1. /\ caller \in Space /\ slots' = [slots EXCEPT ![caller] = SbrkGot]
        /\ Alloc \in Frame /\ Alloc \notin marked /\ Derived(SbrkGot, slots[caller], Alloc)
    BY <1>0, <1>3, SbrkFacts DEF SbrkTakes, SbrkGot, Given
  <2>2. slots'[caller] = SbrkGot /\ \A s \in Space : s # caller => slots'[s] = slots[s]
    BY <1>0, <2>1 DEF TypeOK
  <2>3. marked' = marked \cup {Alloc} /\ kernel' = kernel /\ raced \subseteq raced'
    BY <1>3 DEF SbrkTakes, Take
  <2>. QED  BY <1>0, <2>1, <2>2, <2>3, GiveExclusive
<1>4. CASE NotMapped \/ UnloadEnds \/ ProcessRefused
  <2>1. /\ loading \in Space /\ UNCHANGED <<raced, kernel, marked>>
        /\ \/ slots' = [slots EXCEPT ![loading][Hand] = NoFrame]
           \/ slots' = [slots EXCEPT ![loading] = Empty]
    BY <1>0, <1>4 DEF NotMapped, NoFrameLeft, UnloadEnds, ProcessRefused, Stages, bitmap
  <2>2. \A s \in Space : \A x \in Slot : slots'[s][x] # NoFrame => slots'[s][x] = slots[s][x]
    BY <1>0, <2>1 DEF TypeOK, Empty
  <2>. QED  BY <1>0, <2>1, <2>2, DropExclusive
<1>5. CASE UnloadClears
  <2>1. /\ loading \in Space /\ UNCHANGED <<raced, kernel>>
        /\ marked' = (marked \ InWord(index)) \cup word
        /\ slots' = [slots EXCEPT ![loading][Unloaded(at)] = NoFrame]
        /\ Unloaded(at) \in Slot /\ slots[loading][Unloaded(at)] = frame
        /\ \A f \in marked : WordOf(f) = index => f \in raced \/ f \in word \/ f = frame
    BY <1>0, <1>5, UnloadedFacts DEF UnloadClears, Stages, Picked, history
  <2>2. ASSUME NEW s \in Space, NEW x \in Slot, slots'[s][x] # NoFrame, slots'[s][x] \notin raced
        PROVE  slots'[s][x] = slots[s][x] /\ (slots[s][x] \in marked => slots[s][x] \in marked')
    <3>1. slots'[s][x] = slots[s][x] /\ ~ (s = loading /\ x = Unloaded(at))
      BY <1>0, <2>1, <2>2 DEF TypeOK
    <3>2. slots[s][x] # frame
      BY <1>h, <2>1, <2>2, <3>1
    <3>. QED  BY <2>1, <2>2, <3>1, <3>2 DEF InWord
  <2>. QED  BY <1>0, <2>1, <2>2, DropExclusive
<1>6. CASE SbrkRefused
  <2>1. caller \in Space /\ Hand \in Slot /\ UNCHANGED <<raced, kernel>>
    BY <1>0, <1>6, SlotFacts DEF SbrkRefused, TypeOK
  <2>2. CASE slots[caller][Hand] = NoFrame
    BY <1>0, <1>6, <2>1, <2>2, DropExclusive DEF SbrkRefused, bitmap
  <2>3. CASE slots[caller][Hand] # NoFrame
    <3>1. /\ marked' = marked \ {slots[caller][Hand]}
          /\ slots' = [slots EXCEPT ![caller][Hand] = NoFrame]
      BY <1>6, <2>3 DEF SbrkRefused
    <3>2. ASSUME NEW s \in Space, NEW x \in Slot, slots'[s][x] # NoFrame, slots'[s][x] \notin raced
          PROVE  slots'[s][x] = slots[s][x] /\ (slots[s][x] \in marked => slots[s][x] \in marked')
      <4>1. slots'[s][x] = slots[s][x] /\ ~ (s = caller /\ x = Hand)
        BY <1>0, <2>1, <3>1, <3>2 DEF TypeOK
      <4>2. slots[s][x] # slots[caller][Hand]
        BY <1>h, <2>1, <3>2, <4>1
      <4>. QED  BY <3>1, <4>1, <4>2
    <3>. QED  BY <1>0, <2>1, <3>2, DropExclusive
  <2>. QED  BY <2>2, <2>3
<1>7. CASE KernelTakes
  <2>1. Alloc \in Frame \ marked
    BY <1>0, <1>7, AllocIsFree DEF KernelTakes, TypeOK
  <2>2. /\ slots' = slots /\ marked' = marked \cup {Alloc} /\ kernel' = kernel \cup {Alloc}
        /\ raced \subseteq raced'
    BY <1>7 DEF KernelTakes, Take
  <2>. QED  BY <1>0, <2>1, <2>2 DEF Exclusive, Owned
<1>. QED  BY <1>1, <1>2, <1>3, <1>4, <1>5, <1>6, <1>7, Effects


LEMMA AccountedStep == AInv /\ [Next]_vars => FramesAccounted'
<1> SUFFICES ASSUME AInv, [Next]_vars, NEW f \in marked' \ (kernel' \cup leaked')
             PROVE  \E s \in Space : \E x \in Slot : slots'[s][x] = f
  BY DEF FramesAccounted
<1>0. /\ TypeOK /\ Stages /\ Picked /\ Progress /\ Unborn /\ Hands /\ FramesAccounted
      /\ slots' \in [Space -> [Slot -> Frame \cup {NoFrame}]]
      /\ f \in Frame /\ f # NoFrame /\ marked \subseteq Frame
  BY FrameTypes, ConstantFacts DEF AInv, TypeOK
<1>1. ASSUME f \in marked, f \notin kernel, f \notin leaked
      PROVE  \E s \in Space : \E x \in Slot : slots[s][x] = f
  BY <1>0, <1>1 DEF FramesAccounted
<1>2. CASE Still
  BY <1>0, <1>2 DEF Still, FramesAccounted
<1>3. CASE StoreWord
  <2>1. /\ loading \in Space /\ pc = "store" /\ slots' = [slots EXCEPT ![loading] = Granted(Mine)]
        /\ UNCHANGED <<kernel, leaked>> /\ marked' = (marked \ InWord(index)) \cup word
        /\ word \subseteq marked \cup leaked \cup {frame}
    BY <1>0, <1>3 DEF StoreWord, Stages, Picked, Mine, history
  <2>2. slots'[loading] = Granted(Mine) /\ \A s \in Space : s # loading => slots'[s] = slots[s]
    BY <1>0, <2>1 DEF TypeOK
  <2>3. /\ \E x \in Slot : slots'[loading][x] = frame
        /\ \A x \in Slot : slots[loading][x] \in Frame => \E y \in Slot : slots'[loading][y] = slots[loading][x]
    BY <1>0, <2>1, <2>2, GrantedFacts DEF Mine
  <2>4. CASE f = frame
    BY <2>1, <2>3, <2>4
  <2>5. CASE f # frame
    <3>1. f \in marked /\ f \notin kernel /\ f \notin leaked
      BY <2>1, <2>5
    <3>. QED  BY <1>0, <1>1, <2>1, <2>2, <2>3, <3>1
  <2>. QED  BY <2>4, <2>5
<1>4. CASE NotMapped
  <2>1. /\ loading \in Space /\ UNCHANGED <<kernel, marked>> /\ leaked' = leaked \cup {slots[loading][Hand]}
        /\ slots' = [slots EXCEPT ![loading][Hand] = NoFrame]
    BY <1>0, <1>4 DEF NotMapped, NoFrameLeft, Stages, bitmap, Mine
  <2>2. PICK s \in Space : \E x \in Slot : slots[s][x] = f
    BY <1>1, <2>1
  <2>3. PICK x \in Slot : slots[s][x] = f
    BY <2>2
  <2>4. ~ (s = loading /\ x = Hand)
    BY <2>1, <2>3
  <2>5. slots'[s][x] = f
    BY <1>0, <2>1, <2>3, <2>4 DEF TypeOK
  <2>. QED  BY <2>5
<1>5. CASE UnloadClears
  <2>1. /\ loading \in Space /\ UNCHANGED <<kernel, leaked>>
        /\ marked' = (marked \ InWord(index)) \cup word
        /\ slots' = [slots EXCEPT ![loading][Unloaded(at)] = NoFrame]
        /\ slots[loading][Unloaded(at)] = frame
        /\ frame \in Frame /\ index = WordOf(frame) /\ frame \notin word
        /\ word \subseteq marked \cup leaked \cup {frame}
    BY <1>0, <1>5 DEF UnloadClears, Stages, Picked, history
  <2>2. f # frame /\ f \in marked /\ f \notin kernel /\ f \notin leaked
    BY <2>1 DEF InWord
  <2>3. PICK s \in Space : \E x \in Slot : slots[s][x] = f
    BY <1>1, <2>2
  <2>4. PICK x \in Slot : slots[s][x] = f
    BY <2>3
  <2>5. ~ (s = loading /\ x = Unloaded(at))
    BY <2>1, <2>2, <2>4
  <2>6. slots'[s][x] = f
    BY <1>0, <2>1, <2>4, <2>5 DEF TypeOK
  <2>. QED  BY <2>6
<1>6. CASE UnloadEnds \/ ProcessRefused
  <2>1. /\ loading \in Space /\ phase[loading] = "loading" /\ UNCHANGED <<kernel, marked>>
        /\ leaked \subseteq leaked' /\ slots' = [slots EXCEPT ![loading] = Empty]
    BY <1>0, <1>6 DEF UnloadEnds, ProcessRefused, Stages, bitmap
  <2>2. PICK s \in Space : \E x \in Slot : slots[s][x] = f
    BY <1>1, <2>1
  <2>3. PICK x \in Slot : slots[s][x] = f
    BY <2>2
  <2>4. CASE s # loading
    BY <1>0, <2>1, <2>3, <2>4 DEF TypeOK
  <2>5. CASE s = loading /\ ProcessRefused
    BY <1>0, <2>3, <2>5 DEF ProcessRefused, Mine
  <2>6. CASE s = loading /\ UnloadEnds
    <3>1. pc = "unload" /\ at > UnloadFinal /\ at \in Nat /\ UnloadFinal \in Nat
      BY <1>0, <2>6, UnloadedFacts DEF UnloadEnds, TypeOK
    <3>2. Mine[Hand] = NoFrame /\ \A k \in 1 .. at - 1 : Mine[Unloaded(k)] = NoFrame
      BY <1>0, <3>1 DEF Progress
    <3>3. \A k \in 1 .. UnloadFinal : k \in 1 .. at - 1
      BY <3>1
    <3>4. x[1] # "heap"
      BY <1>0, <2>1, <2>3, <2>6 DEF Unborn
    <3>5. x[1] = "stack"
      BY <1>0, <2>3, <2>6, <3>2, <3>3, <3>4, UnloadedFacts DEF Mine
    <3>6. f \in leaked'
      BY <1>0, <2>3, <2>6, <3>5 DEF UnloadEnds, Mine
    <3>. QED  BY <3>6
  <2>. QED  BY <1>6, <2>4, <2>5, <2>6
<1>7. CASE SbrkTakes
  <2> DEFINE t == slots[caller] u == SbrkGot page == Page("heap", next)
  <2>1. /\ caller \in Space /\ slots' = [slots EXCEPT ![caller] = u]
        /\ \E x \in Slot : u[x] = Alloc
        /\ \A x \in Slot : t[x] \in Frame => \/ x = page /\ u[Hand] = NoFrame
                                             \/ \E y \in Slot : u[y] = t[x]
    BY <1>0, <1>7, SbrkFacts DEF SbrkTakes, SbrkGot, Given
  <2>2. slots'[caller] = u /\ \A s \in Space : s # caller => slots'[s] = slots[s]
    BY <1>0, <2>1 DEF TypeOK
  <2>3. /\ marked' = marked \cup {Alloc} /\ kernel' = kernel /\ leaked \subseteq leaked'
        /\ u[Hand] = NoFrame /\ t[page] # NoFrame => t[page] \in leaked'
    BY <1>7 DEF SbrkTakes, Take, SbrkGot, Given
  <2> HIDE DEF u
  <2>4. CASE f = Alloc
    BY <2>1, <2>2, <2>4
  <2>5. CASE f # Alloc
    <3>1. PICK s \in Space : \E x \in Slot : slots[s][x] = f
      BY <1>1, <2>3, <2>5
    <3>2. PICK x \in Slot : slots[s][x] = f
      BY <3>1
    <3>3. CASE s # caller
      BY <2>2, <3>2, <3>3
    <3>4. CASE s = caller
      <4>1. ~ (x = page /\ u[Hand] = NoFrame)
        BY <1>0, <2>3, <3>2, <3>4
      <4>. QED  BY <1>0, <2>1, <2>2, <3>2, <3>4, <4>1
    <3>. QED  BY <3>3, <3>4
  <2>. QED  BY <2>4, <2>5
<1>8. CASE SbrkRefused
  <2>1. caller \in Space /\ Hand \in Slot /\ UNCHANGED kernel
    BY <1>0, <1>8, SlotFacts DEF SbrkRefused, TypeOK
  <2>2. CASE slots[caller][Hand] = NoFrame
    BY <1>0, <1>1, <1>8, <2>1, <2>2 DEF SbrkRefused, bitmap
  <2>3. CASE slots[caller][Hand] # NoFrame
    <3>1. /\ marked' = marked \ {slots[caller][Hand]} /\ leaked \subseteq leaked'
          /\ slots' = [slots EXCEPT ![caller][Hand] = NoFrame]
      BY <1>8, <2>3 DEF SbrkRefused
    <3>2. PICK s \in Space : \E x \in Slot : slots[s][x] = f
      BY <1>1, <2>1, <3>1
    <3>3. PICK x \in Slot : slots[s][x] = f
      BY <3>2
    <3>4. ~ (s = caller /\ x = Hand)
      BY <3>1, <3>3
    <3>5. slots'[s][x] = f
      BY <1>0, <2>1, <3>1, <3>3, <3>4 DEF TypeOK
    <3>. QED  BY <3>5
  <2>. QED  BY <2>2, <2>3
<1>9. CASE KernelTakes
  BY <1>1, <1>9 DEF KernelTakes, Take
<1>. QED  BY <1>2, <1>3, <1>4, <1>5, <1>6, <1>7, <1>8, <1>9, Effects

LEMMA HeapMappedStep == AInv /\ [Next]_vars => HeapMapped'
<1> SUFFICES ASSUME AInv, [Next]_vars, NEW s \in Space, phase'[s] = "running", NEW n \in 1 .. brk'[s]
             PROVE  slots'[s][Page("heap", n)] # NoFrame /\ Missing(slots'[s], "heap") = {}
  BY DEF HeapMapped, Owned
<1>0. TypeOK /\ Stages /\ Unborn /\ Hands /\ CallHeap /\ HeapMapped
  BY DEF AInv
<1>1. ASSUME n \in 1 .. brk[s], phase[s] = "running"
      PROVE  slots[s][Page("heap", n)] # NoFrame /\ Missing(slots[s], "heap") = {}
  BY <1>0, <1>1 DEF HeapMapped, Owned
<1>2. CASE SbrkTakes
  <2> DEFINE t == slots[caller] u == SbrkGot
  <2>1. /\ caller \in Space /\ slots' = [slots EXCEPT ![caller] = u]
        /\ next \in 1 .. HeapPages /\ next \in Nat /\ HeapPages \in Nat /\ upto \in next .. HeapPages
        /\ brk[s] \in 0 .. HeapPages /\ phase' = phase
    BY <1>0, <1>2, SbrkFacts, ConstantFacts DEF SbrkTakes, SbrkGot, Given, Stages, TypeOK
  <2>2. /\ u[Hand] # NoFrame => u[Page("heap", next)] = t[Page("heap", next)]
        /\ u[Hand] = NoFrame => Missing(u, "heap") = {} /\ u[Page("heap", next)] \in Frame
        /\ Missing(t, "heap") = {} => Missing(u, "heap") = {}
        /\ \A m \in PageNumber("heap") : m # next => u[Page("heap", m)] = t[Page("heap", m)]
    BY <1>0, <1>2, SbrkFacts DEF SbrkTakes
  <2>3. /\ slots'[caller] = u /\ \A r \in Space : r # caller => slots'[r] = slots[r]
        /\ brk' = brk \/ (u[Hand] = NoFrame /\ next = upto /\ brk' = [brk EXCEPT ![caller] = upto])
    <3>1. slots'[caller] = u /\ \A r \in Space : r # caller => slots'[r] = slots[r]
      BY <1>0, <2>1 DEF TypeOK
    <3>2. CASE u[Hand] # NoFrame \/ next < upto
      BY <1>2, <3>1, <3>2 DEF SbrkTakes, SbrkGot, Given
    <3>3. CASE u[Hand] = NoFrame /\ ~ (next < upto)
      <4>1. next = upto
        BY <2>1, <3>3
      <4>2. brk' = [brk EXCEPT ![caller] = upto]
        BY <1>2, <3>3 DEF SbrkTakes, SbrkGot, Given
      <4>. QED  BY <3>1, <3>3, <4>1, <4>2
    <3>. QED  BY <3>2, <3>3
  <2> HIDE DEF u
  <2>4. CASE s # caller
    <3>1. brk'[s] = brk[s]
      BY <1>0, <2>3, <2>4 DEF TypeOK
    <3>. QED  BY <1>1, <2>1, <2>3, <2>4, <3>1
  <2>5. CASE s = caller /\ brk' = brk
    <3>1. n \in PageNumber("heap") /\ n \in 1 .. brk[s]
      BY <2>1, <2>5 DEF PageNumber
    <3>. QED  BY <1>1, <2>1, <2>2, <2>3, <2>5, <3>1, ConstantFacts
  <2>6. CASE s = caller /\ u[Hand] = NoFrame /\ next = upto /\ brk' = [brk EXCEPT ![caller] = upto]
    <3>1. brk'[s] = next
      BY <1>0, <2>6 DEF TypeOK
    <3>2. n \in PageNumber("heap") /\ (n = next \/ n \in 1 .. next - 1)
      BY <2>1, <3>1 DEF PageNumber
    <3>3. CASE n = next
      BY <2>2, <2>3, <2>6, <3>3, ConstantFacts
    <3>4. CASE n \in 1 .. next - 1
      <4>1. t[Page("heap", n)] # NoFrame /\ n # next
        BY <1>0, <2>1, <3>4 DEF CallHeap, Owned
      <4>. QED  BY <2>2, <2>3, <2>6, <3>2, <4>1
    <3>. QED  BY <3>2, <3>3, <3>4
  <2>. QED  BY <2>3, <2>4, <2>5, <2>6
<1>3. CASE SbrkRefused
  <2>1. caller \in Space /\ Hand \in Slot /\ brk' = brk /\ phase' = phase
    BY <1>0, <1>3, SlotFacts DEF SbrkRefused, TypeOK, programs
  <2>2. \A r \in Space : \A x \in Slot : x # Hand => slots'[r][x] = slots[r][x]
    BY <1>0, <1>3, <2>1 DEF SbrkRefused, TypeOK
  <2>3. n \in PageNumber("heap") /\ "heap" \in Area
    BY <1>0, <2>1, ConstantFacts DEF PageNumber, Area, TypeOK
  <2>4. Missing(slots'[s], "heap") = Missing(slots[s], "heap")
    BY <2>2, <2>3, SlotFacts DEF Missing
  <2>. QED  BY <1>1, <2>1, <2>2, <2>3, <2>4, SlotFacts
<1>4. CASE LoadSucceeds
  <2>1. /\ slots' = slots /\ brk' = brk /\ loading \in Space /\ phase[loading] = "loading"
        /\ phase' = [phase EXCEPT ![loading] = "running"]
    BY <1>0, <1>4 DEF LoadSucceeds, Stages
  <2>2. CASE s = loading
    BY <1>0, <2>1, <2>2 DEF Unborn
  <2>3. CASE s # loading
    BY <1>0, <1>1, <2>1, <2>3 DEF TypeOK
  <2>. QED  BY <2>2, <2>3
<1>5. CASE (Load /\ ~LoadSucceeds) \/ Program \/ KernelTakes \/ UNCHANGED vars
  <2>1. phase[s] = "running"
    BY <1>0, <1>5 DEF TypeOK, Stages, Load, LoadBegins, BadFile, ReadIndex, ReadWord, ReadAgain, StoreWord,
           LoadRefused, StackPageSkipped, NotMapped, CopyFails, ProcessRefused, Panic, UnloadPasses,
           UnloadReads, UnloadClears, UnloadEnds, programs, Program, SbrkBegins, SbrkShrinks, Exits,
           KernelTakes, vars
  <2>2. n \in 1 .. brk[s]
    <3>1. CASE \E r \in Space : SbrkShrinks(r)
      <4>1. PICK r \in Space : SbrkShrinks(r)
        BY <3>1
      <4>2. PICK k \in 1 .. brk[r] : brk' = [brk EXCEPT ![r] = @ - k]
        BY <4>1 DEF SbrkShrinks
      <4>3. brk[r] \in Nat /\ k \in Nat /\ brk[s] \in Nat
        BY <1>0, <4>2, ConstantFacts DEF TypeOK
      <4>4. brk'[s] \in Nat /\ brk'[s] <= brk[s]
        BY <1>0, <4>2, <4>3 DEF TypeOK
      <4>. QED  BY <4>3, <4>4
    <3>2. CASE ~ \E r \in Space : SbrkShrinks(r)
      <4>1. brk' = brk
        BY <1>5, <3>2 DEF Load, LoadBegins, BadFile, ReadIndex, ReadWord, ReadAgain, StoreWord,
           LoadRefused, StackPageSkipped, NotMapped, CopyFails, ProcessRefused, Panic, UnloadPasses,
           UnloadReads, UnloadClears, UnloadEnds, programs, Program, SbrkBegins, Exits, KernelTakes, vars
      <4>. QED  BY <4>1
    <3>. QED  BY <3>1, <3>2
  <2>3. SbrkTakes \/ SbrkRefused \/ slots'[s] = slots[s]
    BY <1>0, <2>1, SlotsChange
  <2>4. CASE slots'[s] = slots[s]
    BY <1>1, <2>1, <2>2, <2>4
  <2>. QED  BY <1>2, <1>3, <2>3, <2>4
<1>. QED  BY <1>2, <1>3, <1>4, <1>5 DEF Next


-----------------------------------------------------------------------------
LEMMA StepAInv == AInv /\ [Next]_vars => AInv'
  BY TypeStep, StagesStep, PickedStep, KernelMarkedStep, ProgressStep, UnbornStep, HandsStep,
     CallHeapStep, SearchedStep, ExclusiveStep, AccountedStep, HeapMappedStep DEF AInv

\* Everything the invariant says holds in every state the system reaches.
THEOREM AddressSpacesInvariant == Spec => []AInv
  BY InitAInv, StepAInv, PTL DEF Spec

\* The bitmap, the slots, the loader's locals and the arguments of a call keep
\* their ranges (pmm.c, vmm.c, elf.c, SYS_SBRK).
THEOREM AddressSpacesTypeCorrect == Spec => []TypeOK
<1>1. AInv => TypeOK
  BY DEF AInv
<1>. QED  BY <1>1, AddressSpacesInvariant, PTL

\* A frame that no call took or gave under the loader's hands has one use, and
\* is marked (pmm_alloc_block, pmm_free_block, elf_unload_failed_pml4).
THEOREM FramesHaveOneUse == Spec => []Exclusive
<1>1. AInv => Exclusive
  BY DEF AInv
<1>. QED  BY <1>1, AddressSpacesInvariant, PTL

\* Every marked frame is the kernel's, a slot's, or one of those the code is
\* known to lose (vmm_map_page_to_pml4, elf_unload_failed_pml4, SYS_SBRK).
THEOREM NoOtherFrameIsLost == Spec => []FramesAccounted
<1>1. AInv => FramesAccounted
  BY DEF AInv
<1>. QED  BY <1>1, AddressSpacesInvariant, PTL

\* The pages below a running program's heap_end are mapped, whatever calls of
\* SYS_SBRK failed, shrank the heap or grew it again before.
THEOREM HeapIsMapped == Spec => []HeapMapped
<1>1. AInv => HeapMapped
  BY DEF AInv
<1>. QED  BY <1>1, AddressSpacesInvariant, PTL

\* A search of the loader that no call came into gives NULL only when every
\* frame is taken, wherever last_bit_index was (pmm_alloc_block).
THEOREM UndisturbedSearchIsComplete == Spec => []NullOnlyWhenFull
<1>1. ASSUME AInv, NoFrameLeft, quiet
      PROVE  marked = Frame
  <2>1. /\ TypeOK /\ pc = "word" /\ Full(index) /\ i + 1 = Words /\ index = Probe(i)
        /\ \A j \in 0 .. i - 1 : Full(Probe(j))
    BY <1>1 DEF AInv, NoFrameLeft, Searched
  <2>2. ASSUME NEW f \in Frame
        PROVE  f \in marked
    <3>1. PICK k \in Word : Probe(k) = WordOf(f)
      BY <2>1, <2>2, WordOfFrame, ProbeReaches DEF TypeOK
    <3>2. k = i \/ k \in 0 .. i - 1
      BY <2>1, <3>1, ConstantFacts DEF Word, TypeOK
    <3>3. Full(WordOf(f))
      BY <2>1, <3>1, <3>2
    <3>. QED  BY <2>2, <3>3 DEF Full, InWord
  <2>. QED  BY <2>1, <2>2 DEF TypeOK
<1>2. AInv => NullOnlyWhenFull
  BY <1>1 DEF NullOnlyWhenFull
<1>. QED  BY <1>2, AddressSpacesInvariant, PTL

=============================================================================
