----------------------------- MODULE HeapProofs -----------------------------
(***************************************************************************)
(* Heap for any sizes of blocks, headers, pages and limit, any alignment   *)
(* and any number of callers: its types, the tiling of the heap, that free *)
(* blocks are never neighbours, that the blocks lie in mapped memory, that *)
(* kmalloc and kfree implement Allocator, and that a kernel task leaves    *)
(* the heap with interrupts as they were.                                  *)
(*                                                                         *)
(* The argument: the list is a chain from 0 to the top in which every      *)
(* block ends where the next begins and no two overlap (Shape).  A split,  *)
(* a block at the top and a swallowed neighbour each keep that; kfree is   *)
(* a mark and at most two of the last kind.                                *)
(***************************************************************************)
EXTENDS Heap, BasicTheorems

End(bs, a) == a + Header + bs[a].size

\* The blocks bs, in list order, cover the heap up to t; l is the last.
Shape(bs, t, l) ==
  /\ bs \in [DOMAIN bs -> BlockHeader] /\ DOMAIN bs \subseteq Nat /\ t \in Nat
  /\ 0 \in DOMAIN bs /\ bs[0].prev = Nil
  /\ l \in DOMAIN bs /\ bs[l].next = Nil /\ End(bs, l) = t
  /\ \A a \in DOMAIN bs : a # l => /\ bs[a].next = End(bs, a) /\ bs[a].next \in DOMAIN bs
                                   /\ bs[bs[a].next].prev = a
  /\ \A b \in DOMAIN bs : b # 0 => /\ bs[b].prev \in DOMAIN bs
                                   /\ bs[bs[b].prev].next = b
  /\ \A a, b \in DOMAIN bs : a < b => End(bs, a) <= b
  /\ \A a \in DOMAIN bs : End(bs, a) <= t

\* Two free blocks are neighbours only where the first is one of these.
FreePairs(bs, exempt) ==
  \A a \in DOMAIN bs : bs[a].free /\ bs[a].next # Nil /\ bs[bs[a].next].free => a \in exempt

\* What callers have are blocks in use, large enough, one each.
Holders ==
  /\ \A h \in held : /\ h.at - Header \in DOMAIN block
                     /\ ~block[h.at - Header].free /\ h.size <= block[h.at - Header].size
  /\ \A h, g \in held : h.at = g.at => h = g

\* What a kernel task has read of RFLAGS is still so when it turns them off.
FlagsRead == \A t \in entering : register[t] <=> t \in on

HInv == /\ TypeOK /\ first = 0 /\ Shape(block, top, last) /\ FreePairs(block, {})
        /\ Holders /\ FlagsRead

-----------------------------------------------------------------------------
LEMMA HeapFacts ==
  /\ Sizes \subseteq Nat \ {0} /\ Header \in Nat /\ Header > 0 /\ Align \in Nat /\ Align > 0
  /\ Page \in Nat /\ Page > 0 /\ Page >= Header + Align /\ Limit \in Nat /\ Limit > Page
  /\ Nil = -1 /\ Nil \notin Nat
  BY HeapAssumption DEF HeapAssumption, Nil

\* A quotient and what it leaves.
LEMMA Bracket ==
  ASSUME NEW d \in Nat, NEW m \in Nat, m > 0
  PROVE  d \div m \in Nat /\ (d \div m) * m <= d /\ d < (d \div m + 1) * m
<1> DEFINE q == d \div m
<1>1. q \in Nat /\ m * q <= d /\ d < m * q + m
  OBVIOUS
<1>2. q * m = m * q /\ (q + 1) * m = m * q + m
  BY <1>1
<1>. QED  BY <1>1, <1>2

LEMMA RoundedFacts ==
  ASSUME NEW n \in Sizes
  PROVE  n \in Nat /\ n > 0 /\ Rounded(n) \in Nat /\ Rounded(n) >= n
<1>1. n \in Nat /\ n > 0 /\ n + Align - 1 \in Nat /\ Align \in Nat /\ Align > 0
  BY HeapFacts
<1> DEFINE q == (n + Align - 1) \div Align
<1>2. q \in Nat /\ q * Align <= n + Align - 1 /\ n + Align - 1 < (q + 1) * Align
  BY <1>1, Bracket
<1>3. (q + 1) * Align = q * Align + Align /\ q * Align \in Nat
  BY <1>1, <1>2
<1>4. q * Align >= n
  BY <1>1, <1>2, <1>3
<1>. QED  BY <1>1, <1>3, <1>4 DEF Rounded

\* A growth maps past the block that is asked for, at most a page too much;
\* one that fails maps less.
LEMMA PagesFacts ==
  ASSUME NEW need \in Nat, top \in Nat, mapped \in Nat, top < mapped
  PROVE  /\ Pages(need) \in Nat /\ top + need < mapped + Pages(need)
         /\ mapped + Pages(need) <= mapped \/ mapped + Pages(need) <= top + need + Page
         /\ \A k \in 0 .. Pages(need) \div Page - 1 :
              k * Page \in Nat /\ mapped + k * Page <= top + need
<1>0. Page \in Nat /\ Page > 0
  BY HeapFacts
<1>1. CASE top + need < mapped
  <2>1. Pages(need) = 0 /\ 0 \div Page = 0
    BY <1>0, <1>1 DEF Pages
  <2>2. \A k \in 0 .. Pages(need) \div Page - 1 : FALSE
    BY <2>1
  <2>. QED  BY <1>1, <2>1, <2>2
<1>2. CASE ~ (top + need < mapped)
  <2> DEFINE d == top + need - mapped  q == d \div Page
  <2>1. d \in Nat
    BY <1>2
  <2>2. q \in Nat /\ q * Page <= d /\ d < (q + 1) * Page
    BY <1>0, <2>1, Bracket
  <2>3. Pages(need) = (q + 1) * Page
    BY <1>2 DEF Pages
  <2> HIDE DEF q
  <2>4. (q + 1) * Page \in Nat /\ (q + 1) * Page = q * Page + Page /\ q * Page \in Nat
    BY <1>0, <2>2
  <2>5. Pages(need) \div Page = q + 1
    <3>1. ((q + 1) * Page) \div Page \in Nat
      BY <1>0, <2>4, Bracket
    <3> DEFINE r == ((q + 1) * Page) \div Page
    <3>2. r \in Nat /\ r * Page <= (q + 1) * Page /\ (q + 1) * Page < (r + 1) * Page
      BY <1>0, <2>4, Bracket
    <3> HIDE DEF r
    <3>3. ~ (r > q + 1)
      <4>1. SUFFICES ASSUME r > q + 1 PROVE FALSE
        OBVIOUS
      <4>2. PICK e \in Nat : r = q + 1 + e /\ e > 0
        BY <2>2, <3>2, <4>1
      <4>3. r * Page = (q + 1) * Page + e * Page /\ e * Page > 0
        BY <1>0, <2>2, <4>2
      <4>. QED  BY <1>0, <2>4, <3>2, <4>3
    <3>4. ~ (r < q + 1)
      <4>1. SUFFICES ASSUME r < q + 1 PROVE FALSE
        OBVIOUS
      <4>2. PICK e \in Nat : q + 1 = r + 1 + e
        BY <2>2, <3>2, <4>1
      <4>3. (q + 1) * Page = (r + 1) * Page + e * Page /\ e * Page >= 0 /\ (r + 1) * Page \in Nat
        BY <1>0, <3>2, <4>2
      <4>. QED  BY <1>0, <2>4, <3>2, <4>3
    <3>5. r = q + 1
      BY <2>2, <3>2, <3>3, <3>4
    <3>. QED  BY <2>3, <3>5 DEF r
  <2>6. ASSUME NEW k \in 0 .. Pages(need) \div Page - 1
        PROVE  k * Page \in Nat /\ k * Page <= q * Page
    <3>1. k \in Nat /\ k <= q
      BY <2>2, <2>5
    <3>2. PICK e \in Nat : q = k + e
      BY <2>2, <3>1
    <3>3. q * Page = k * Page + e * Page /\ k * Page \in Nat /\ e * Page \in Nat
      BY <1>0, <3>1, <3>2
    <3>. QED  BY <3>3
  <2>. QED  BY <1>0, <2>1, <2>2, <2>3, <2>4, <2>6
<1>. QED  BY <1>1, <1>2


-----------------------------------------------------------------------------
\* What follows from the shape: where blocks end, and which is the last.
LEMMA ShapeFacts ==
  ASSUME NEW bs, NEW t, NEW l, Shape(bs, t, l)
  PROVE  /\ \A a \in DOMAIN bs : /\ a \in Nat /\ bs[a] \in BlockHeader /\ End(bs, a) \in Nat
                                 /\ End(bs, a) > a /\ a < t
         /\ \A a \in DOMAIN bs : bs[a].next = Nil <=> a = l
         /\ \A a \in DOMAIN bs : bs[a].next # Nil => bs[a].next > a /\ bs[a].next \in Nat
         /\ \A a \in DOMAIN bs : a # 0 => bs[a].prev < a /\ bs[a].prev # Nil
<1>1. \A a \in DOMAIN bs : a \in Nat /\ bs[a] \in BlockHeader /\ bs[a].size \in Nat
  BY DEF Shape, BlockHeader
<1>2. \A a \in DOMAIN bs : End(bs, a) \in Nat /\ End(bs, a) > a
  BY <1>1, HeapFacts DEF End
<1>3. \A a \in DOMAIN bs : a < t
  BY <1>1, <1>2 DEF Shape
<1>4. \A a \in DOMAIN bs : a # l => bs[a].next = End(bs, a)
  BY DEF Shape
<1>5. l \in DOMAIN bs /\ bs[l].next = Nil
  BY DEF Shape
<1>6. \A a \in DOMAIN bs : a # 0 => bs[a].prev \in DOMAIN bs /\ bs[bs[a].prev].next = a
  BY DEF Shape
<1>7. \A a \in DOMAIN bs : bs[a].next = Nil <=> a = l
  BY <1>2, <1>4, <1>5, HeapFacts
<1>8. \A a \in DOMAIN bs : bs[a].next # Nil => bs[a].next > a /\ bs[a].next \in Nat
  BY <1>2, <1>4, <1>7
<1>9. \A a \in DOMAIN bs : a # 0 => bs[a].prev < a /\ bs[a].prev # Nil
  BY <1>1, <1>6, <1>8, HeapFacts
<1>. QED  BY <1>1, <1>2, <1>3, <1>7, <1>8, <1>9

\* The mark of a block is no part of the shape.
LEMMA MarkShape ==
  ASSUME NEW bs, NEW t, NEW l, Shape(bs, t, l), NEW a \in DOMAIN bs, NEW v \in BOOLEAN
  PROVE  LET cs == [bs EXCEPT ![a].free = v] IN
         /\ Shape(cs, t, l) /\ DOMAIN cs = DOMAIN bs /\ cs[a].free = v
         /\ \A x \in DOMAIN bs : /\ cs[x].size = bs[x].size /\ cs[x].next = bs[x].next
                                 /\ cs[x].prev = bs[x].prev /\ (x # a => cs[x] = bs[x])
<1> DEFINE cs == [bs EXCEPT ![a].free = v]
<1>1. bs \in [DOMAIN bs -> BlockHeader]
  BY DEF Shape
<1>2. /\ DOMAIN cs = DOMAIN bs /\ cs \in [DOMAIN cs -> BlockHeader] /\ cs[a].free = v
      /\ \A x \in DOMAIN bs : /\ cs[x].size = bs[x].size /\ cs[x].next = bs[x].next
                              /\ cs[x].prev = bs[x].prev /\ (x # a => cs[x] = bs[x])
  BY <1>1 DEF BlockHeader
<1> HIDE DEF cs
<1>3. \A x \in DOMAIN bs : End(cs, x) = End(bs, x)
  BY <1>2 DEF End
<1>4. Shape(cs, t, l)
  BY <1>2, <1>3 DEF Shape
<1>. QED  BY <1>2, <1>4 DEF cs

\* A block cut in two.
LEMMA SplitShape ==
  ASSUME Shape(block, top, last), NEW a \in DOMAIN block, NEW n \in Nat,
         block[a].size >= n + Header + Align, Split(a, n)
  PROVE  /\ Shape(block', top, last') /\ a \in DOMAIN block' /\ block'[a].size = n
         /\ block'[a].free = FALSE
         /\ \A x \in DOMAIN block : x # a =>
              x \in DOMAIN block' /\ block'[x].size = block[x].size /\ block'[x].free = block[x].free
         /\ block[a].free /\ FreePairs(block, {}) => FreePairs(block', {})
<1> DEFINE r == a + Header + n  b == block[a]
           new == [size |-> b.size - n - Header, free |-> TRUE, next |-> b.next, prev |-> a]
           cut == [size |-> n, free |-> FALSE, next |-> r, prev |-> b.prev]
<1>1. /\ block' = [x \in DOMAIN block \cup {r} |->
                     CASE x = a -> cut [] x = r -> new
                       [] x = b.next -> [block[x] EXCEPT !.prev = r]
                       [] OTHER -> block[x]]
      /\ last' = IF b.next = Nil THEN r ELSE last
  BY DEF Split
<1>2. /\ a \in Nat /\ b \in BlockHeader /\ b.size \in Nat /\ r \in Nat /\ r > a
      /\ b.size - n - Header \in Nat /\ r < End(block, a) /\ End(block, a) \in Nat
      /\ r + Header + (b.size - n - Header) = End(block, a) /\ a + Header + n = r
  BY ShapeFacts, HeapFacts DEF BlockHeader, End
<1>3. r \notin DOMAIN block
  <2>1. \A x \in DOMAIN block : x > a => End(block, a) <= x
    BY DEF Shape
  <2>. QED  BY <1>2, <2>1
<1>4. b.next # a /\ b.next # r /\ a # r
  <2>1. b.next = Nil \/ (b.next \in DOMAIN block /\ b.next > a)
    BY ShapeFacts DEF Shape
  <2>. QED  BY <1>2, <1>3, <2>1, HeapFacts
<1>5. DOMAIN block' = DOMAIN block \cup {r}
  BY <1>1
<1>6. block'[a] = cut /\ block'[r] = new
  BY <1>1, <1>4
<1>7. \A x \in DOMAIN block : x # a =>
        /\ block'[x].size = block[x].size /\ block'[x].free = block[x].free
        /\ block'[x].next = block[x].next /\ block'[x] \in BlockHeader
        /\ block'[x].prev = IF x = b.next THEN r ELSE block[x].prev
  <2>1. \A x \in DOMAIN block : x # a =>
          block'[x] = IF x = b.next THEN [block[x] EXCEPT !.prev = r] ELSE block[x]
    BY <1>1, <1>3
  <2>2. \A x \in DOMAIN block : block[x] \in BlockHeader
    BY ShapeFacts
  <2>3. ASSUME NEW x \in DOMAIN block, x # a, x = b.next
        PROVE  /\ block'[x].size = block[x].size /\ block'[x].free = block[x].free
               /\ block'[x].next = block[x].next /\ block'[x] \in BlockHeader
               /\ block'[x].prev = r
    <3>1. block'[x] = [block[x] EXCEPT !.prev = r] /\ r \in Nat
      BY <1>2, <2>1, <2>3
    <3> HIDE DEF r, b
    <3>. QED  BY <2>2, <3>1 DEF BlockHeader
  <2>. QED  BY <2>1, <2>2, <2>3
<1>8. cut \in BlockHeader /\ new \in BlockHeader
  BY <1>2 DEF BlockHeader
<1> HIDE DEF r, b, new, cut
<1>9. /\ cut.size = n /\ cut.free = FALSE /\ cut.next = r /\ cut.prev = b.prev
      /\ new.size = b.size - n - Header /\ new.free = TRUE /\ new.next = b.next /\ new.prev = a
      /\ b = block[a]
  BY DEF cut, new, b
<1>10. /\ \A x \in DOMAIN block : x # a => End(block', x) = End(block, x)
       /\ End(block', a) = r /\ End(block', r) = End(block, a)
  BY <1>2, <1>6, <1>7, <1>9 DEF End
<1>11. block' \in [DOMAIN block' -> BlockHeader] /\ DOMAIN block' \subseteq Nat
  <2>1. \A x \in DOMAIN block' : block'[x] \in BlockHeader
    BY <1>5, <1>6, <1>7, <1>8
  <2>2. block' = [x \in DOMAIN block' |-> block'[x]]
    BY <1>1
  <2>. QED  BY <1>2, <1>5, <2>1, <2>2 DEF Shape
<1>12. last' = IF a = last THEN r ELSE last
  BY <1>1, <1>9, ShapeFacts DEF b
<1>13. last' \in DOMAIN block' /\ block'[last'].next = Nil /\ End(block', last') = top
  BY <1>5, <1>6, <1>7, <1>9, <1>10, <1>12 DEF Shape
<1>14. 0 \in DOMAIN block' /\ block'[0].prev = Nil
  <2>1. b.next # 0
    BY <1>9, ShapeFacts, HeapFacts
  <2>. QED  BY <1>5, <1>6, <1>7, <1>9, <2>1 DEF Shape
<1>15. \A x \in DOMAIN block' : x # last' => /\ block'[x].next = End(block', x)
                                             /\ block'[x].next \in DOMAIN block'
                                             /\ block'[block'[x].next].prev = x
  <2>1. ASSUME NEW x \in DOMAIN block, x # a, x # last
        PROVE  /\ block'[x].next = End(block', x) /\ block'[x].next \in DOMAIN block'
               /\ block'[block'[x].next].prev = x
    <3>1. block[x].next = End(block, x) /\ block[x].next \in DOMAIN block /\ block[block[x].next].prev = x
      BY <2>1 DEF Shape
    <3>2. block[x].next # b.next
      BY <1>9, <2>1, <3>1, ShapeFacts DEF Shape
    <3>3. CASE block[x].next = a
      BY <1>5, <1>6, <1>7, <1>9, <1>10, <2>1, <3>1, <3>3
    <3>4. CASE block[x].next # a
      BY <1>5, <1>7, <1>10, <2>1, <3>1, <3>2, <3>4
    <3>. QED  BY <3>3, <3>4
  <2>2. a # last' /\ block'[a].next = End(block', a) /\ block'[a].next \in DOMAIN block' /\ block'[block'[a].next].prev = a
    BY <1>4, <1>5, <1>6, <1>9, <1>10, <1>12
  <2>3. ASSUME r # last'
        PROVE  /\ block'[r].next = End(block', r) /\ block'[r].next \in DOMAIN block'
               /\ block'[block'[r].next].prev = r
    <3>1. a # last
      BY <1>12, <2>3
    <3>2. b.next = End(block, a) /\ b.next \in DOMAIN block
      BY <1>9, <3>1 DEF Shape
    <3>. QED  BY <1>4, <1>5, <1>6, <1>7, <1>9, <1>10, <3>2
  <2>4. \A x \in DOMAIN block : x # a /\ x # last' => x # last
    BY <1>12
  <2>. QED  BY <1>5, <2>1, <2>2, <2>3, <2>4
<1>16. \A x \in DOMAIN block' : x # 0 => /\ block'[x].prev \in DOMAIN block'
                                         /\ block'[block'[x].prev].next = x
  <2>1. ASSUME NEW x \in DOMAIN block, x # 0, x # a
        PROVE  block'[x].prev \in DOMAIN block' /\ block'[block'[x].prev].next = x
    <3>1. block[x].prev \in DOMAIN block /\ block[block[x].prev].next = x
      BY <2>1 DEF Shape
    <3>2. CASE x = b.next
      BY <1>5, <1>6, <1>7, <1>9, <2>1, <3>2
    <3>3. CASE x # b.next
      <4>1. block[x].prev # a
        BY <1>9, <3>1, <3>3
      <4>. QED  BY <1>5, <1>7, <2>1, <3>1, <3>3, <4>1
    <3>. QED  BY <3>2, <3>3
  <2>2. ASSUME a # 0
        PROVE  block'[a].prev \in DOMAIN block' /\ block'[block'[a].prev].next = a
    <3>1. b.prev \in DOMAIN block /\ block[b.prev].next = a /\ b.prev # a
      BY <1>2, <1>9, <2>2, ShapeFacts DEF Shape
    <3>. QED  BY <1>5, <1>6, <1>7, <1>9, <3>1
  <2>3. block'[r].prev \in DOMAIN block' /\ block'[block'[r].prev].next = r
    BY <1>5, <1>6, <1>9
  <2>. QED  BY <1>5, <2>1, <2>2, <2>3
<1>17. \A x, y \in DOMAIN block' : x < y => End(block', x) <= y
  <2>1. \A x, y \in DOMAIN block : x < y => End(block, x) <= y
    BY DEF Shape
  <2>2. ASSUME NEW x \in DOMAIN block, NEW y \in DOMAIN block, x < y
        PROVE  End(block', x) <= y
    BY <1>2, <1>10, <2>1, <2>2, ShapeFacts
  <2>3. ASSUME NEW y \in DOMAIN block, r < y
        PROVE  End(block', r) <= y
    BY <1>2, <1>10, <2>1, <2>3, ShapeFacts
  <2>4. ASSUME NEW x \in DOMAIN block, x < r
        PROVE  End(block', x) <= r
    <3>1. CASE x = a
      BY <1>2, <1>10, <3>1
    <3>2. CASE x < a
      BY <1>2, <1>10, <2>1, <3>2, ShapeFacts
    <3>3. CASE x > a
      BY <1>2, <2>1, <2>4, <3>3, ShapeFacts
    <3>. QED  BY <1>2, <3>1, <3>2, <3>3, ShapeFacts
  <2>. QED  BY <1>2, <1>5, <2>2, <2>3, <2>4
<1>18. \A x \in DOMAIN block' : End(block', x) <= top
  BY <1>2, <1>5, <1>10, ShapeFacts DEF Shape
<1>19. Shape(block', top, last')
  BY <1>11, <1>13, <1>14, <1>15, <1>16, <1>17, <1>18 DEF Shape
<1>20. ASSUME block[a].free, FreePairs(block, {})
       PROVE  FreePairs(block', {})
  <2>1. ASSUME NEW x \in DOMAIN block', block'[x].free, block'[x].next # Nil,
               block'[block'[x].next].free
        PROVE  FALSE
    <3>1. x # a
      BY <1>6, <1>9, <2>1
    <3>2. CASE x = r
      <4>1. b.next # Nil /\ b.next \in DOMAIN block
        BY <1>6, <1>9, <2>1, <3>2, ShapeFacts DEF Shape
      <4>2. block[b.next].free
        BY <1>4, <1>6, <1>7, <1>9, <2>1, <3>2, <4>1
      <4>. QED  BY <1>9, <1>20, <4>1, <4>2 DEF FreePairs
    <3>3. CASE x \in DOMAIN block
      <4>1. block[x].free /\ block[x].next # Nil /\ block[x].next \in DOMAIN block
        BY <1>7, <2>1, <3>1, <3>3, ShapeFacts DEF Shape
      <4>2. block[x].next # a
        BY <1>6, <1>7, <1>9, <2>1, <3>1, <3>3
      <4>3. block[block[x].next].free
        BY <1>7, <2>1, <3>1, <3>3, <4>1, <4>2
      <4>. QED  BY <1>20, <3>3, <4>1, <4>3 DEF FreePairs
    <3>. QED  BY <1>5, <3>2, <3>3
  <2>. QED  BY <2>1 DEF FreePairs
<1>. QED  BY <1>5, <1>6, <1>7, <1>9, <1>19, <1>20


\* A block put behind the last one.
LEMMA AppendShape ==
  ASSUME Shape(block, top, last), NEW n \in Nat,
         block' = [x \in DOMAIN block \cup {top} |->
                     CASE x = top -> [size |-> n, free |-> FALSE, next |-> Nil, prev |-> last]
                       [] x = last -> [block[x] EXCEPT !.next = top]
                       [] OTHER -> block[x]],
         last' = top, top' = top + Header + n
  PROVE  /\ Shape(block', top', last') /\ DOMAIN block' = DOMAIN block \cup {top}
         /\ top \notin DOMAIN block /\ block'[top].size = n /\ block'[top].free = FALSE
         /\ \A x \in DOMAIN block : block'[x].size = block[x].size /\ block'[x].free = block[x].free
         /\ FreePairs(block, {}) => FreePairs(block', {})
<1> DEFINE new == [size |-> n, free |-> FALSE, next |-> Nil, prev |-> last]
<1>1. /\ top \in Nat /\ top \notin DOMAIN block /\ last \in DOMAIN block /\ last # top
      /\ last \in Nat /\ block[last].next = Nil
  BY ShapeFacts DEF Shape
<1>0. block' = [x \in DOMAIN block \cup {top} |->
                  CASE x = top -> new
                    [] x = last -> [block[x] EXCEPT !.next = top]
                    [] OTHER -> block[x]]
  OBVIOUS
<1>2. DOMAIN block' = DOMAIN block \cup {top} /\ block'[top] = new
  <2>1. DOMAIN block' = DOMAIN block \cup {top}
    BY <1>0
  <2>2. \A x \in DOMAIN block \cup {top} : x = top => block'[x] = new
    BY <1>0, <1>1
  <2>. QED  BY <2>1, <2>2
<1>3. new \in BlockHeader
  BY <1>1 DEF BlockHeader
<1>4. /\ block'[top].size = n /\ block'[top].free = FALSE /\ block'[top].next = Nil
      /\ block'[top].prev = last
  BY <1>2
<1> HIDE DEF new
<1>5. \A x \in DOMAIN block :
        /\ block'[x].size = block[x].size /\ block'[x].free = block[x].free
        /\ block'[x].prev = block[x].prev /\ block'[x] \in BlockHeader
        /\ block'[x].next = IF x = last THEN top ELSE block[x].next
  <2>1. \A x \in DOMAIN block : block[x] \in BlockHeader
    BY ShapeFacts
  <2>2. \A x \in DOMAIN block : block'[x] = IF x = last THEN [block[x] EXCEPT !.next = top] ELSE block[x]
    BY <1>1
  <2>. QED  BY <1>1, <2>1, <2>2 DEF BlockHeader
<1>6. /\ \A x \in DOMAIN block : End(block', x) = End(block, x)
      /\ End(block', top) = top' /\ top' \in Nat /\ top' > top
  BY <1>1, <1>4, <1>5, HeapFacts DEF End
<1>7. block' \in [DOMAIN block' -> BlockHeader] /\ DOMAIN block' \subseteq Nat
  <2>1. \A x \in DOMAIN block' : block'[x] \in BlockHeader
    BY <1>2, <1>3, <1>5
  <2>2. block' = [x \in DOMAIN block' |-> block'[x]]
    OBVIOUS
  <2>. QED  BY <1>1, <1>2, <2>1, <2>2 DEF Shape
<1>8. 0 \in DOMAIN block' /\ block'[0].prev = Nil
  BY <1>2, <1>5 DEF Shape
<1>9. \A x \in DOMAIN block' : x # top => /\ block'[x].next = End(block', x)
                                          /\ block'[x].next \in DOMAIN block'
                                          /\ block'[block'[x].next].prev = x
  <2>1. ASSUME NEW x \in DOMAIN block, x # last
        PROVE  /\ block'[x].next = End(block', x) /\ block'[x].next \in DOMAIN block'
               /\ block'[block'[x].next].prev = x
    <3>1. block[x].next = End(block, x) /\ block[x].next \in DOMAIN block /\ block[block[x].next].prev = x
      BY <2>1 DEF Shape
    <3>2. block'[x].next = block[x].next
      BY <1>5, <2>1
    <3>3. block'[block[x].next].prev = x
      BY <1>5, <3>1
    <3>. QED  BY <1>2, <1>6, <3>1, <3>2, <3>3
  <2>2. /\ block'[last].next = End(block', last) /\ block'[last].next \in DOMAIN block'
        /\ block'[block'[last].next].prev = last
    <3>1. End(block, last) = top
      BY DEF Shape
    <3>2. block'[last].next = top
      BY <1>1, <1>5
    <3>. QED  BY <1>1, <1>2, <1>4, <1>6, <3>1, <3>2
  <2>. QED  BY <1>2, <2>1, <2>2
<1>10. \A x \in DOMAIN block' : x # 0 => /\ block'[x].prev \in DOMAIN block'
                                         /\ block'[block'[x].prev].next = x
  <2>1. ASSUME NEW x \in DOMAIN block, x # 0
        PROVE  block'[x].prev \in DOMAIN block' /\ block'[block'[x].prev].next = x
    <3>1. block[x].prev \in DOMAIN block /\ block[block[x].prev].next = x
      BY <2>1 DEF Shape
    <3>2. block[x].prev # last
      BY <1>1, <2>1, <3>1, ShapeFacts, HeapFacts
    <3>. QED  BY <1>2, <1>5, <2>1, <3>1, <3>2
  <2>2. block'[top].prev \in DOMAIN block' /\ block'[block'[top].prev].next = top
    BY <1>1, <1>2, <1>4, <1>5
  <2>. QED  BY <1>2, <2>1, <2>2
<1>11. \A x, y \in DOMAIN block' : x < y => End(block', x) <= y
  <2>1. /\ \A x, y \in DOMAIN block : x < y => End(block, x) <= y
        /\ \A x \in DOMAIN block : End(block, x) <= top
    BY DEF Shape
  <2>2. \A x \in DOMAIN block : x \in Nat /\ x < top
    BY ShapeFacts
  <2>3. SUFFICES ASSUME NEW x \in DOMAIN block', NEW y \in DOMAIN block', x < y
                 PROVE  End(block', x) <= y
    OBVIOUS
  <2>4. x \in DOMAIN block
    BY <1>1, <1>2, <2>2, <2>3
  <2>. QED  BY <1>2, <1>6, <2>1, <2>3, <2>4
<1>12. \A x \in DOMAIN block' : End(block', x) <= top'
  BY <1>1, <1>2, <1>6, ShapeFacts DEF Shape
<1>13. Shape(block', top', last')
  BY <1>2, <1>4, <1>6, <1>7, <1>8, <1>9, <1>10, <1>11, <1>12 DEF Shape
<1>14. ASSUME FreePairs(block, {}) PROVE FreePairs(block', {})
  <2>1. ASSUME NEW x \in DOMAIN block', block'[x].free, block'[x].next # Nil,
               block'[block'[x].next].free
        PROVE  FALSE
    <3>1. x \in DOMAIN block /\ x # last
      BY <1>2, <1>4, <1>5, <2>1
    <3>2. block[x].next \in DOMAIN block /\ block[x].next # Nil
      BY <3>1, ShapeFacts DEF Shape
    <3>. QED  BY <1>5, <1>14, <2>1, <3>1, <3>2 DEF FreePairs
  <2>. QED  BY <2>1 DEF FreePairs
<1>. QED  BY <1>1, <1>2, <1>4, <1>5, <1>13, <1>14

\* A block that has swallowed the one behind it.
LEMMA SwallowShape ==
  ASSUME NEW bs, NEW t, NEW l, Shape(bs, t, l), NEW a \in DOMAIN bs, a # l,
         NEW b, b = bs[a].next, NEW m, m = IF l = b THEN a ELSE l,
         NEW cs, cs = Swallow(bs, a)
  PROVE  /\ Shape(cs, t, m)
         /\ DOMAIN cs = DOMAIN bs \ {b} /\ b \in DOMAIN bs /\ b > a
         /\ \A x \in DOMAIN cs : cs[x].free = bs[x].free
         /\ cs[a].next = bs[b].next /\ cs[a].prev = bs[a].prev
         /\ cs[a].size >= bs[a].size
         /\ \A x \in DOMAIN cs : x # a => /\ cs[x].size = bs[x].size /\ cs[x].free = bs[x].free
                                          /\ cs[x].next = bs[x].next
<1> DEFINE c == bs[b].next
           grown == [bs[a] EXCEPT !.size = @ + Header + bs[b].size, !.next = c]
<1>1. cs = [x \in DOMAIN bs \ {b} |->
              CASE x = a -> grown [] x = c -> [bs[x] EXCEPT !.prev = a] [] OTHER -> bs[x]]
  BY DEF Swallow
<1>2. /\ a \in Nat /\ b \in DOMAIN bs /\ b \in Nat /\ b > a /\ b = End(bs, a)
      /\ c = Nil \/ (c \in DOMAIN bs /\ c > b)
      /\ bs[a] \in BlockHeader /\ bs[b] \in BlockHeader /\ c # b
  <2>1. b \in DOMAIN bs /\ b = End(bs, a)
    BY DEF Shape
  <2>. QED  BY <2>1, ShapeFacts, HeapFacts DEF Shape
<1>3. /\ grown \in BlockHeader /\ grown.size = bs[a].size + Header + bs[b].size
      /\ grown.free = bs[a].free /\ grown.next = c /\ grown.prev = bs[a].prev
      /\ c \in Nat \cup {Nil}
  <2>1. c \in Nat \cup {Nil}
    BY <1>2 DEF BlockHeader
  <2>2. bs[a].size + Header + bs[b].size \in Nat
    BY <1>2, HeapFacts DEF BlockHeader
  <2>3. bs[a] \in BlockHeader
    BY <1>2
  <2> DEFINE s == bs[a].size + Header + bs[b].size
  <2>4. grown = [bs[a] EXCEPT !.size = s, !.next = c]
    BY <1>2 DEF BlockHeader
  <2> HIDE DEF c, s, grown
  <2>5. s \in Nat /\ s = bs[a].size + Header + bs[b].size
    BY <2>2 DEF s
  <2>6. grown.size = s /\ grown.free = bs[a].free /\ grown.next = c /\ grown.prev = bs[a].prev
    BY <2>3, <2>4 DEF BlockHeader
  <2>7. grown \in BlockHeader
    BY <2>1, <2>3, <2>4, <2>5 DEF BlockHeader
  <2>. QED  BY <2>1, <2>5, <2>6, <2>7
<1> HIDE DEF grown
<1>4. DOMAIN cs = DOMAIN bs \ {b} /\ cs[a] = grown /\ a \in DOMAIN cs
  <2>1. a # b /\ c # a
    BY <1>2, HeapFacts
  <2>2. DOMAIN cs = DOMAIN bs \ {b}
    BY <1>1
  <2>3. \A x \in DOMAIN bs \ {b} : x = a => cs[x] = grown
    BY <1>1, <2>1
  <2> HIDE DEF c
  <2>. QED  BY <2>1, <2>2, <2>3
<1>5. \A x \in DOMAIN cs : x # a =>
        /\ x \in DOMAIN bs /\ x # b
        /\ cs[x].size = bs[x].size /\ cs[x].free = bs[x].free /\ cs[x].next = bs[x].next
        /\ cs[x] \in BlockHeader /\ cs[x].prev = IF x = c THEN a ELSE bs[x].prev
  <2>1. \A x \in DOMAIN cs : x # a =>
          x \in DOMAIN bs /\ x # b /\ cs[x] = IF x = c THEN [bs[x] EXCEPT !.prev = a] ELSE bs[x]
    BY <1>1
  <2>2. \A x \in DOMAIN bs : bs[x] \in BlockHeader
    BY ShapeFacts
  <2> HIDE DEF c
  <2>. QED  BY <1>2, <2>1, <2>2 DEF BlockHeader
<1>6. cs \in [DOMAIN cs -> BlockHeader] /\ DOMAIN cs \subseteq Nat
  <2>1. \A x \in DOMAIN cs : cs[x] \in BlockHeader
    BY <1>3, <1>4, <1>5
  <2>2. cs = [x \in DOMAIN cs |-> cs[x]]
    BY <1>1
  <2>. QED  BY <1>4, <2>1, <2>2 DEF Shape
<1> HIDE DEF c
<1>7. c = bs[b].next /\ b = bs[a].next
  BY DEF c
<1>8. /\ \A x \in DOMAIN cs : x # a => End(cs, x) = End(bs, x)
      /\ End(cs, a) = End(bs, b)
  BY <1>2, <1>3, <1>4, <1>5, HeapFacts DEF End, BlockHeader
<1>9. m \in DOMAIN cs /\ cs[m].next = Nil /\ End(cs, m) = t
  BY <1>3, <1>4, <1>5, <1>7, <1>8 DEF Shape
<1>10. 0 \in DOMAIN cs /\ cs[0].prev = Nil
  <2>1. 0 # b /\ 0 # c
    BY <1>2, HeapFacts
  <2>. QED  BY <1>3, <1>4, <1>5, <2>1 DEF Shape
<1>11. \A x \in DOMAIN cs : x # m => /\ cs[x].next = End(cs, x) /\ cs[x].next \in DOMAIN cs
                                     /\ cs[cs[x].next].prev = x
  <2>1. ASSUME NEW x \in DOMAIN cs, x # m, x # a
        PROVE  cs[x].next = End(cs, x) /\ cs[x].next \in DOMAIN cs /\ cs[cs[x].next].prev = x
    <3>1. x \in DOMAIN bs /\ x # l /\ x # b
      BY <1>5, <2>1
    <3>2. bs[x].next = End(bs, x) /\ bs[x].next \in DOMAIN bs /\ bs[bs[x].next].prev = x
      BY <3>1 DEF Shape
    <3>3. bs[b].prev = a
      BY <1>7 DEF Shape
    <3>4. bs[x].next # b
      BY <2>1, <3>2, <3>3
    <3>5. bs[x].next # c
      <4>1. c \in DOMAIN bs => bs[c].prev = b
        BY <1>2, <1>7, ShapeFacts, HeapFacts DEF Shape
      <4>. QED  BY <3>1, <3>2, <4>1
    <3>. QED  BY <1>3, <1>4, <1>5, <1>8, <2>1, <3>2, <3>4, <3>5
  <2>2. ASSUME a # m
        PROVE  cs[a].next = End(cs, a) /\ cs[a].next \in DOMAIN cs /\ cs[cs[a].next].prev = a
    <3>1. b # l
      BY <2>2
    <3>2. c = End(bs, b) /\ c \in DOMAIN bs
      BY <1>2, <1>7, <3>1 DEF Shape
    <3>3. c # b /\ c # a
      BY <1>2, <3>2, HeapFacts
    <3>4. c \in DOMAIN cs /\ cs[c].prev = a
      BY <1>4, <1>5, <3>2, <3>3
    <3>. QED  BY <1>3, <1>4, <1>8, <3>2, <3>4
  <2>. QED  BY <2>1, <2>2
<1>12. \A x \in DOMAIN cs : x # 0 => cs[x].prev \in DOMAIN cs /\ cs[cs[x].prev].next = x
  <2>1. ASSUME NEW x \in DOMAIN cs, x # 0, x # a
        PROVE  cs[x].prev \in DOMAIN cs /\ cs[cs[x].prev].next = x
    <3>1. x \in DOMAIN bs /\ bs[x].prev \in DOMAIN bs /\ bs[bs[x].prev].next = x
      BY <1>5, <2>1 DEF Shape
    <3>2. CASE x = c
      BY <1>3, <1>4, <1>5, <2>1, <3>2
    <3>3. CASE x # c
      <4>1. bs[x].prev # b /\ bs[x].prev # a
        BY <1>5, <1>7, <2>1, <3>1, <3>3
      <4>. QED  BY <1>4, <1>5, <2>1, <3>1, <3>3, <4>1
    <3>. QED  BY <3>2, <3>3
  <2>2. ASSUME a # 0
        PROVE  cs[a].prev \in DOMAIN cs /\ cs[cs[a].prev].next = a
    <3>1. bs[a].prev \in DOMAIN bs /\ bs[bs[a].prev].next = a /\ bs[a].prev < a
      BY <2>2, ShapeFacts DEF Shape
    <3>2. bs[a].prev # b /\ bs[a].prev # a
      BY <1>2, <3>1, ShapeFacts
    <3>. QED  BY <1>3, <1>4, <1>5, <3>1, <3>2
  <2>. QED  BY <2>1, <2>2
<1>13. \A x, y \in DOMAIN cs : x < y => End(cs, x) <= y
  <2>1. \A x, y \in DOMAIN bs : x < y => End(bs, x) <= y
    BY DEF Shape
  <2>2. ASSUME NEW y \in DOMAIN cs, a < y
        PROVE  End(cs, a) <= y
    <3>1. y \in DOMAIN bs /\ y # b /\ y \in Nat
      BY <1>4, <1>6
    <3>2. b <= y
      BY <1>2, <2>1, <2>2, <3>1
    <3>3. b < y
      BY <1>2, <3>1, <3>2
    <3>. QED  BY <1>2, <1>8, <2>1, <3>1, <3>3
  <2>3. ASSUME NEW x \in DOMAIN cs, NEW y \in DOMAIN cs, x < y, x # a
        PROVE  End(cs, x) <= y
    BY <1>4, <1>8, <2>1, <2>3
  <2>. QED  BY <2>2, <2>3
<1>14. \A x \in DOMAIN cs : End(cs, x) <= t
  BY <1>2, <1>4, <1>8 DEF Shape
<1>15. Shape(cs, t, m)
  BY <1>6, <1>9, <1>10, <1>11, <1>12, <1>13, <1>14 DEF Shape
<1>16. cs[a].size >= bs[a].size
  <2>1. bs[a].size \in Nat /\ bs[b].size \in Nat
    BY <1>2 DEF BlockHeader
  <2>. QED  BY <1>3, <1>4, <2>1, HeapFacts
<1>. QED  BY <1>2, <1>3, <1>4, <1>5, <1>7, <1>15, <1>16 DEF c


\* A block joined with the one behind it where kfree joins them: adjacent free
\* blocks are always joined, and blocks in use stay as they are.
LEMMA MergedFacts ==
  ASSUME NEW bs, NEW t, NEW l, Shape(bs, t, l), NEW a \in DOMAIN bs \cup {Nil},
         NEW cs, cs = Merged(bs, a)
  PROVE  /\ \E m : Shape(cs, t, m) /\ (l \in DOMAIN cs => m = l)
         /\ DOMAIN cs \subseteq DOMAIN bs
         /\ \A x \in DOMAIN bs : ~ bs[x].free => /\ x \in DOMAIN cs /\ cs[x].size = bs[x].size
                                                 /\ ~ cs[x].free
         /\ a # Nil => a \in DOMAIN cs /\ cs[a].prev = bs[a].prev
         /\ \A S : /\ FreePairs(bs, S \cup {a})
                   /\ a # Nil /\ bs[a].next # Nil => bs[a].next \notin S
                   => FreePairs(cs, S)
<1>1. CASE ~ Joins(bs, a)
  <2>1. cs = bs
    BY <1>1 DEF Merged
  <2>2. ASSUME NEW S, FreePairs(bs, S \cup {a})
        PROVE  FreePairs(bs, S)
    <3>1. ASSUME NEW x \in DOMAIN bs, bs[x].free, bs[x].next # Nil, bs[bs[x].next].free, x \notin S
          PROVE  FALSE
      <4>1. x = a
        BY <2>2, <3>1 DEF FreePairs
      <4>2. bs[x].next = x + Header + bs[x].size
        BY <3>1, ShapeFacts DEF Shape, End
      <4>3. x # Nil
        BY <3>1, ShapeFacts, HeapFacts
      <4>. QED  BY <1>1, <3>1, <4>1, <4>2, <4>3 DEF Joins
    <3>. QED  BY <3>1 DEF FreePairs
  <2>3. \E m : Shape(bs, t, m) /\ (l \in DOMAIN bs => m = l)
    OBVIOUS
  <2>. QED  BY <2>1, <2>2, <2>3
<1>2. CASE Joins(bs, a)
  <2> DEFINE b == bs[a].next  m == IF l = b THEN a ELSE l
  <2>1. cs = Swallow(bs, a) /\ a \in DOMAIN bs /\ a # l /\ bs[a].free /\ bs[b].free /\ b # Nil
        /\ a # Nil /\ b = bs[a].next /\ m = IF l = b THEN a ELSE l
    BY <1>2, ShapeFacts DEF Merged, Joins
  <2> HIDE DEF b, m
  <2>2. /\ Shape(cs, t, m)
        /\ DOMAIN cs = DOMAIN bs \ {b} /\ b \in DOMAIN bs /\ b > a
        /\ cs[a].free = bs[a].free /\ cs[a].next = bs[b].next /\ cs[a].prev = bs[a].prev
        /\ \A x \in DOMAIN cs : x # a => /\ cs[x].size = bs[x].size /\ cs[x].free = bs[x].free
                                         /\ cs[x].next = bs[x].next
    <3>1. Shape(cs, t, m) /\ DOMAIN cs = DOMAIN bs \ {b} /\ b \in DOMAIN bs /\ b > a
      BY <2>1, SwallowShape
    <3>2. a \in DOMAIN cs /\ a # b
      BY <2>1, <3>1, ShapeFacts
    <3>3. /\ cs[a].free = bs[a].free /\ cs[a].next = bs[b].next
          /\ cs[a].prev = bs[a].prev
      <4>1. cs[a].next = bs[b].next
        BY <2>1, <3>1, <3>2, SwallowShape
      <4>2. cs[a].prev = bs[a].prev
        BY <2>1, <3>1, <3>2, SwallowShape
      <4>3. \A x \in DOMAIN cs : cs[x].free = bs[x].free
        BY <2>1, <3>1, <3>2, SwallowShape
      <4>. QED  BY <4>1, <3>2, <4>2, <4>3
    <3>4. \A x \in DOMAIN cs : x # a => /\ cs[x].size = bs[x].size /\ cs[x].free = bs[x].free
                                         /\ cs[x].next = bs[x].next
      BY <2>1, <3>1, <3>2, SwallowShape
    <3>. QED  BY <3>1, <3>2, <3>3, <3>4
  <2>3. a # b /\ a \in DOMAIN cs
    BY <2>1, <2>2, ShapeFacts
  <2>4. \A x \in DOMAIN bs : ~ bs[x].free => x \in DOMAIN cs /\ cs[x].size = bs[x].size /\ ~ cs[x].free
    BY <2>1, <2>2
  <2>5. \E k : Shape(cs, t, k) /\ (l \in DOMAIN cs => k = l)
    BY <2>2 DEF m
  <2>6. ASSUME NEW S, FreePairs(bs, S \cup {a}), b \notin S
        PROVE  FreePairs(cs, S)
    <3>1. ASSUME NEW x \in DOMAIN cs, cs[x].free, cs[x].next # Nil, cs[cs[x].next].free, x \notin S
          PROVE  FALSE
      <4>1. cs[x].next \in DOMAIN cs
        BY <2>2, <3>1, ShapeFacts DEF Shape
      <4>2. cs[x].next \in DOMAIN bs /\ bs[cs[x].next].free
        BY <2>1, <2>2, <3>1, <4>1
      <4>3. CASE x = a
        <5>1. b \in S \cup {a}
          BY <2>1, <2>2, <2>6, <3>1, <4>2, <4>3 DEF FreePairs
        <5>. QED  BY <2>3, <2>6, <5>1
      <4>4. CASE x # a
        <5>1. x \in DOMAIN bs /\ bs[x].free /\ bs[x].next = cs[x].next
          BY <2>2, <3>1, <4>4
        <5>. QED  BY <2>6, <3>1, <4>2, <4>4, <5>1 DEF FreePairs
      <4>. QED  BY <4>3, <4>4
    <3>. QED  BY <3>1 DEF FreePairs
  <2>. QED  BY <2>1, <2>2, <2>3, <2>4, <2>5, <2>6
<1>. QED  BY <1>1, <1>2

\* kfree keeps the shape, leaves no two free neighbours and touches nothing that
\* others have.
LEMMA FreeFacts ==
  ASSUME Shape(block, top, last), FreePairs(block, {}), NEW a \in DOMAIN block, Free(a)
  PROVE  /\ Shape(block', top, last') /\ FreePairs(block', {}) /\ DOMAIN block' \subseteq DOMAIN block
         /\ \A x \in DOMAIN block : x # a /\ ~ block[x].free =>
              x \in DOMAIN block' /\ block'[x].size = block[x].size /\ ~ block'[x].free
<1> DEFINE marked == [block EXCEPT ![a].free = TRUE]
           behind == Merged(marked, a)
           p == behind[a].prev
           done == Merged(behind, p)
<1>1. /\ Shape(marked, top, last) /\ DOMAIN marked = DOMAIN block
      /\ \A x \in DOMAIN block : /\ marked[x].size = block[x].size /\ marked[x].next = block[x].next
                                 /\ marked[x].prev = block[x].prev /\ (x # a => marked[x] = block[x])
  BY MarkShape
<1>2. /\ block' = done
      /\ last' = IF last \in DOMAIN done THEN last
                 ELSE CHOOSE x \in {y \in DOMAIN done : done[y].next = Nil} : TRUE
  BY DEF Free
<1> HIDE DEF marked
<1>3. FreePairs(marked, {a, block[a].prev})
  <2>1. ASSUME NEW x \in DOMAIN marked, marked[x].free, marked[x].next # Nil,
               marked[marked[x].next].free, x # a, x # block[a].prev
        PROVE  FALSE
    <3>1. x \in DOMAIN block /\ block[x].free /\ block[x].next # Nil /\ x # last
      BY <1>1, <2>1, ShapeFacts
    <3>2. block[x].next \in DOMAIN block /\ block[block[x].next].prev = x
      BY <3>1 DEF Shape
    <3>3. block[x].next # a /\ marked[x].next = block[x].next
      BY <1>1, <2>1, <3>1, <3>2
    <3>4. block[block[x].next].free
      BY <1>1, <2>1, <3>2, <3>3
    <3>. QED  BY <3>1, <3>4 DEF FreePairs
  <2>. QED  BY <2>1 DEF FreePairs
<1>4. /\ \E m : Shape(behind, top, m) /\ (last \in DOMAIN behind => m = last)
      /\ DOMAIN behind \subseteq DOMAIN marked
      /\ \A x \in DOMAIN marked : ~ marked[x].free =>
           x \in DOMAIN behind /\ behind[x].size = marked[x].size /\ ~ behind[x].free
      /\ a \in DOMAIN behind /\ behind[a].prev = marked[a].prev
      /\ FreePairs(behind, {block[a].prev})
  <2>1. a \in DOMAIN marked \cup {Nil} /\ a # Nil
    BY <1>1, ShapeFacts, HeapFacts
  <2>2. FreePairs(marked, {block[a].prev} \cup {a})
    <3>1. {a, block[a].prev} = {block[a].prev} \cup {a}
      OBVIOUS
    <3>. QED  BY <1>3, <3>1
  <2>3. marked[a].next # Nil => marked[a].next \notin {block[a].prev}
    <3>1. SUFFICES ASSUME block[a].next # Nil PROVE block[a].next # block[a].prev
      BY <1>1
    <3>2. a \in Nat /\ block[a].next \in Nat /\ block[a].next > a
      BY <3>1, ShapeFacts
    <3>3. CASE a = 0
      BY <3>1, <3>3 DEF Shape
    <3>4. CASE a # 0
      <4>1. block[a].prev \in DOMAIN block /\ block[a].prev < a
        BY <3>4, ShapeFacts DEF Shape
      <4>2. block[a].prev \in Nat
        BY <4>1, ShapeFacts
      <4>. QED  BY <3>2, <4>1, <4>2
    <3>. QED  BY <3>3, <3>4
  <2> DEFINE q == {block[a].prev}
  <2>4. FreePairs(marked, q \cup {a}) /\ (marked[a].next # Nil => marked[a].next \notin q)
    BY <2>2, <2>3
  <2>5. behind = Merged(marked, a)
    OBVIOUS
  <2> HIDE DEF behind, q
  <2>6. /\ \E m : Shape(behind, top, m) /\ (last \in DOMAIN behind => m = last)
        /\ DOMAIN behind \subseteq DOMAIN marked
        /\ \A x \in DOMAIN marked : ~ marked[x].free =>
             x \in DOMAIN behind /\ behind[x].size = marked[x].size /\ ~ behind[x].free
        /\ a \in DOMAIN behind /\ behind[a].prev = marked[a].prev
        /\ FreePairs(behind, q)
    BY <1>1, <2>1, <2>4, <2>5, MergedFacts
  <2>. QED  BY <2>6 DEF q
<1> HIDE DEF behind
<1>5. PICK m : Shape(behind, top, m) /\ (last \in DOMAIN behind => m = last)
  BY <1>4
<1>6. p = block[a].prev /\ p \in DOMAIN behind \cup {Nil}
  <2>1. p = block[a].prev
    BY <1>1, <1>4
  <2>2. p \in DOMAIN behind \cup {Nil}
    BY <1>4, <1>5 DEF Shape
  <2>. QED  BY <2>1, <2>2
<1>7. /\ \E k : Shape(done, top, k) /\ (m \in DOMAIN done => k = m)
      /\ DOMAIN done \subseteq DOMAIN behind
      /\ \A x \in DOMAIN behind : ~ behind[x].free =>
           x \in DOMAIN done /\ done[x].size = behind[x].size /\ ~ done[x].free
      /\ FreePairs(done, {})
  <2>1. FreePairs(behind, {} \cup {p})
    <3>1. {block[a].prev} = {} \cup {p}
      BY <1>6
    <3>. QED  BY <1>4, <3>1
  <2> HIDE DEF p
  <2>. QED  BY <1>5, <1>6, <2>1, MergedFacts
<1> HIDE DEF p, done
<1>8. PICK k : Shape(done, top, k) /\ (m \in DOMAIN done => k = m)
  BY <1>7
<1>9. last' = k
  <2>1. CASE last \in DOMAIN done
    BY <1>2, <1>5, <1>7, <1>8, <2>1
  <2>2. CASE last \notin DOMAIN done
    <3>1. {y \in DOMAIN done : done[y].next = Nil} = {k}
      BY <1>8, ShapeFacts DEF Shape
    <3>. QED  BY <1>2, <2>2, <3>1
  <2>. QED  BY <2>1, <2>2
<1>10. ASSUME NEW x \in DOMAIN block, x # a, ~ block[x].free
       PROVE  x \in DOMAIN done /\ done[x].size = block[x].size /\ ~ done[x].free
  BY <1>1, <1>4, <1>7, <1>10
<1>. QED  BY <1>1, <1>2, <1>4, <1>7, <1>8, <1>9, <1>10

-----------------------------------------------------------------------------
LEMMA InitHInv == Init => HInv
<1> SUFFICES ASSUME Init PROVE HInv
  OBVIOUS
<1> DEFINE b0 == [size |-> Page - Header, free |-> TRUE, next |-> Nil, prev |-> Nil]
<1>1. /\ DOMAIN block = {0} /\ block[0] = b0 /\ block \in [{0} -> {b0}]
      /\ first = 0 /\ last = 0 /\ top = Page /\ mapped = 2 * Page
      /\ saved = FALSE /\ on = KernelTask /\ register = [t \in KernelTask |-> FALSE]
      /\ entering = {} /\ held = {}
  BY DEF Init
<1>2. b0 \in BlockHeader
  BY HeapFacts DEF BlockHeader
<1>3. b0.size = Page - Header /\ b0.next = Nil /\ b0.prev = Nil
  OBVIOUS
<1> HIDE DEF b0
<1>4. block \in [DOMAIN block -> BlockHeader]
  BY <1>1, <1>2
<1>5. End(block, 0) = Page
  BY <1>1, <1>3, HeapFacts DEF End
<1>6. Shape(block, top, last)
  BY <1>1, <1>3, <1>4, <1>5, HeapFacts DEF Shape
<1>7. FreePairs(block, {})
  BY <1>1, <1>3 DEF FreePairs
<1>8. DOMAIN block \subseteq 0 .. top /\ top \in 0 .. Limit - 1 /\ mapped \in top + 1 .. Limit + Page
  BY <1>1, HeapFacts
<1>9. TypeOK
  BY <1>1, <1>4, <1>8 DEF TypeOK
<1>. QED  BY <1>1, <1>6, <1>7, <1>9 DEF HInv, Holders, FlagsRead

\* What a call of kmalloc that succeeds leaves: the block at a, big enough and in
\* use, was free or not there, and the blocks in use are as they were.
Gave(a, n) ==
  /\ Shape(block', top', last') /\ FreePairs(block', {})
  /\ a \in DOMAIN block' /\ block'[a].size >= n /\ ~ block'[a].free
  /\ \A x \in DOMAIN block : ~ block[x].free =>
       x # a /\ x \in DOMAIN block' /\ block'[x].size = block[x].size /\ ~ block'[x].free

\* The first fit, as it is or cut.
LEMMA TakeGives ==
  ASSUME HInv, NEW n \in Nat, Fitting(n) # {}, Take(FirstFit(n), n), top' = top
  PROVE  Gave(FirstFit(n), n) /\ UNCHANGED first
<1> DEFINE a == FirstFit(n)
<1>0. Shape(block, top, last) /\ FreePairs(block, {})
  BY DEF HInv
<1>1. a \in Fitting(n)
  <2>1. Fitting(n) \subseteq Nat
    BY <1>0 DEF Fitting, Shape
  <2>2. \E x \in Fitting(n) : \A y \in Fitting(n) : x <= y
    BY <2>1, Least
  <2>. QED  BY <2>2 DEF FirstFit
<1> HIDE DEF a
<1>2. a \in DOMAIN block /\ block[a].free /\ block[a].size >= n
  BY <1>1 DEF Fitting, Fits
<1>3. Take(a, n)
  BY DEF a
<1>4. CASE block[a].size >= n + Header + Align
  <2>1. Split(a, n)
    BY <1>3, <1>4 DEF Take
  <2>2. /\ Shape(block', top, last') /\ a \in DOMAIN block' /\ block'[a].size = n
        /\ block'[a].free = FALSE
        /\ \A x \in DOMAIN block : x # a =>
             x \in DOMAIN block' /\ block'[x].size = block[x].size /\ block'[x].free = block[x].free
        /\ FreePairs(block', {})
    BY <1>0, <1>2, <1>4, <2>1, SplitShape
  <2>3. UNCHANGED first
    BY <2>1 DEF Split
  <2>. QED  BY <1>2, <2>2, <2>3 DEF Gave, a
<1>5. CASE ~ (block[a].size >= n + Header + Align)
  <2>1. block' = [block EXCEPT ![a].free = FALSE] /\ last' = last /\ first' = first
    BY <1>3, <1>5 DEF Take, Whole
  <2>2. /\ Shape(block', top, last) /\ DOMAIN block' = DOMAIN block /\ block'[a].free = FALSE
        /\ \A x \in DOMAIN block : /\ block'[x].size = block[x].size /\ block'[x].next = block[x].next
                                   /\ block'[x].prev = block[x].prev /\ (x # a => block'[x] = block[x])
    BY <1>0, <1>2, <2>1, MarkShape
  <2>3. FreePairs(block', {})
    BY <1>0, <1>2, <2>2, ShapeFacts DEF FreePairs, Shape
  <2>. QED  BY <1>2, <2>1, <2>2, <2>3 DEF Gave, a
<1>. QED  BY <1>4, <1>5

\* A block at the top.
LEMMA AppendGives ==
  ASSUME HInv, NEW n \in Nat, Append(n)
  PROVE  Gave(top, n) /\ UNCHANGED first
<1>1. Shape(block, top, last) /\ FreePairs(block, {})
  BY DEF HInv
<1>2. /\ block' = [x \in DOMAIN block \cup {top} |->
                     CASE x = top -> [size |-> n, free |-> FALSE, next |-> Nil, prev |-> last]
                       [] x = last -> [block[x] EXCEPT !.next = top]
                       [] OTHER -> block[x]]
      /\ last' = top /\ top' = top + Header + n /\ first' = first
  BY DEF Append
<1>3. /\ Shape(block', top', last') /\ DOMAIN block' = DOMAIN block \cup {top}
      /\ top \notin DOMAIN block /\ block'[top].size = n /\ block'[top].free = FALSE
      /\ \A x \in DOMAIN block : block'[x].size = block[x].size /\ block'[x].free = block[x].free
      /\ FreePairs(block', {})
  BY <1>1, <1>2, AppendShape
<1>. QED  BY <1>2, <1>3 DEF Gave

\* Whoever is handed the block has it alone.
LEMMA HandHolds ==
  ASSUME HInv, NEW t \in Caller, NEW n \in Sizes, NEW a, NEW r \in Nat, r >= n,
         Gave(a, r), Hand(t, a, n), top' \in 0 .. Limit - 1
  PROVE  /\ Holders' /\ held' \subseteq [at : 0 .. Limit, size : Sizes, by : Caller]
         /\ \A h \in held : h.at # a + Header
<1> DEFINE new == [at |-> a + Header, size |-> n, by |-> t]
<1>1. held' = held \cup {new}
  BY DEF Hand
<1>2. /\ Shape(block', top', last') /\ a \in DOMAIN block' /\ block'[a].size >= r /\ ~ block'[a].free
      /\ \A x \in DOMAIN block : ~ block[x].free =>
           x # a /\ x \in DOMAIN block' /\ block'[x].size = block[x].size /\ ~ block'[x].free
  BY DEF Gave
<1>3. a \in Nat /\ block'[a].size \in Nat /\ a + Header \in 0 .. Limit /\ (a + Header) - Header = a
  <2>1. a \in Nat /\ block'[a] \in BlockHeader /\ End(block', a) <= top'
    BY <1>2, ShapeFacts DEF Shape
  <2>. QED  BY <2>1, HeapFacts DEF BlockHeader, End
<1>4. /\ new.at = a + Header /\ new.size = n /\ new.by = t
      /\ new \in [at : 0 .. Limit, size : Sizes, by : Caller]
  BY <1>3
<1> HIDE DEF new
<1>5. /\ held \subseteq [at : 0 .. Limit, size : Sizes, by : Caller]
      /\ \A h \in held : /\ h.at - Header \in DOMAIN block
                         /\ ~ block[h.at - Header].free /\ h.size <= block[h.at - Header].size
      /\ \A h, g \in held : h.at = g.at => h = g
  BY DEF HInv, TypeOK, Holders
<1>6. \A h \in held : h.at # a + Header
  BY <1>2, <1>3, <1>5
<1>7. ASSUME NEW h \in held'
      PROVE  /\ h.at - Header \in DOMAIN block'
             /\ ~ block'[h.at - Header].free /\ h.size <= block'[h.at - Header].size
  <2>1. CASE h \in held
    BY <1>2, <1>5, <2>1
  <2>2. CASE h = new
    BY <1>2, <1>3, <1>4, <2>2, HeapFacts
  <2>. QED  BY <1>1, <2>1, <2>2
<1>8. ASSUME NEW h \in held', NEW g \in held', h.at = g.at
      PROVE  h = g
  BY <1>1, <1>4, <1>5, <1>6, <1>8
<1>9. held' \subseteq [at : 0 .. Limit, size : Sizes, by : Caller]
  BY <1>1, <1>4, <1>5
<1>. QED  BY <1>6, <1>7, <1>8, <1>9 DEF Holders

\* The parts of the invariant that a call's body changes.
Heaps == /\ first = 0 /\ Shape(block, top, last) /\ FreePairs(block, {}) /\ Holders
         /\ top \in 0 .. Limit - 1 /\ mapped \in top + 1 .. Limit + Page
         /\ held \subseteq [at : 0 .. Limit, size : Sizes, by : Caller]

\* kmalloc: the bounds, the blocks and the holders.
LEMMA MallocStep ==
  ASSUME HInv, NEW t \in Caller, NEW n \in Sizes, Malloc(t, n)
  PROVE  Heaps'
<1> DEFINE r == Rounded(n)
<1>1. n \in Nat /\ r \in Nat /\ r >= n /\ Header + r \in Nat
  BY RoundedFacts, HeapFacts
<1> HIDE DEF r
<1>2. /\ first = 0 /\ Shape(block, top, last) /\ FreePairs(block, {}) /\ Holders
      /\ top \in 0 .. Limit - 1 /\ mapped \in top + 1 .. Limit + Page
      /\ held \subseteq [at : 0 .. Limit, size : Sizes, by : Caller]
      /\ top \in Nat /\ mapped \in Nat /\ top < mapped
  BY HeapFacts DEF HInv, TypeOK
<1>3. CASE /\ Fitting(r) # {} /\ Take(FirstFit(r), r) /\ Hand(t, FirstFit(r), n) /\ UNCHANGED bounds
  <2>1. top' = top /\ mapped' = mapped
    BY <1>3 DEF bounds
  <2>2. Gave(FirstFit(r), r) /\ first' = first
    BY <1>1, <1>3, <2>1, TakeGives
  <2>3. Holders' /\ held' \subseteq [at : 0 .. Limit, size : Sizes, by : Caller]
    BY <1>1, <1>2, <1>3, <2>1, <2>2, HandHolds
  <2>. QED  BY <1>2, <2>1, <2>2, <2>3 DEF Heaps, Gave
<1>4. CASE Append(r) /\ Hand(t, top, n)
  <2>1. Gave(top, r) /\ first' = first
    BY <1>1, <1>4, AppendGives
  <2>2. /\ top + (Header + r) < Limit /\ mapped' = mapped + Pages(Header + r)
        /\ top' = top + Header + r
    BY <1>4 DEF Append, Grows
  <2>3. /\ Pages(Header + r) \in Nat /\ top + (Header + r) < mapped + Pages(Header + r)
        /\ mapped + Pages(Header + r) <= mapped
           \/ mapped + Pages(Header + r) <= top + (Header + r) + Page
    BY <1>1, <1>2, PagesFacts
  <2>4. top' \in 0 .. Limit - 1 /\ mapped' \in top' + 1 .. Limit + Page
    BY <1>1, <1>2, <2>2, <2>3, HeapFacts
  <2>5. Holders' /\ held' \subseteq [at : 0 .. Limit, size : Sizes, by : Caller]
    BY <1>1, <1>4, <2>1, <2>4, HandHolds
  <2>. QED  BY <1>2, <2>1, <2>4, <2>5 DEF Heaps, Gave
<1>5. CASE CannotGrow(Header + r) /\ UNCHANGED <<list, top, held>>
  <2>1. /\ block' = block /\ first' = first /\ last' = last /\ top' = top /\ held' = held
    BY <1>5 DEF list
  <2>2. mapped' \in top + 1 .. Limit + Page
    <3>1. CASE mapped' = mapped
      BY <1>2, <3>1
    <3>2. CASE /\ top + (Header + r) < Limit
               /\ \E k \in 0 .. Pages(Header + r) \div Page - 1 : mapped' = mapped + k * Page
      <4>1. PICK k \in 0 .. Pages(Header + r) \div Page - 1 : mapped' = mapped + k * Page
        BY <3>2
      <4>2. k * Page \in Nat /\ mapped + k * Page <= top + (Header + r)
        BY <1>1, <1>2, PagesFacts
      <4>. QED  BY <1>1, <1>2, <3>2, <4>1, <4>2, HeapFacts
    <3>. QED  BY <1>5, <3>1, <3>2 DEF CannotGrow
  <2>3. Holders' <=> Holders
    BY <2>1 DEF Holders
  <2>. QED  BY <1>2, <2>1, <2>2, <2>3 DEF Heaps
<1>. QED  BY <1>3, <1>4, <1>5 DEF Malloc, r

\* kfree: what the others have stays theirs.
LEMMA FreeStep ==
  ASSUME HInv, NEW t \in Caller, GiveBack(t)
  PROVE  Heaps'
<1>1. PICK h \in held : h.by = t /\ held' = held \ {h} /\ Free(h.at - Header)
  BY DEF GiveBack
<1> DEFINE a == h.at - Header
<1>2. /\ first = 0 /\ Shape(block, top, last) /\ FreePairs(block, {})
      /\ top \in 0 .. Limit - 1 /\ mapped \in top + 1 .. Limit + Page
      /\ held \subseteq [at : 0 .. Limit, size : Sizes, by : Caller]
      /\ \A g \in held : /\ g.at - Header \in DOMAIN block
                         /\ ~ block[g.at - Header].free /\ g.size <= block[g.at - Header].size
      /\ \A g, k \in held : g.at = k.at => g = k
  BY DEF HInv, TypeOK, Holders
<1>3. first' = first /\ top' = top /\ mapped' = mapped
  BY <1>1 DEF Free, bounds
<1>4. a \in DOMAIN block /\ Free(a)
  BY <1>1, <1>2
<1>5. \A g \in held : g # h => g.at - Header # a
  <2>1. \A g \in held : g.at \in Int
    BY <1>2
  <2>. QED  BY <1>2, <2>1, HeapFacts
<1> HIDE DEF a
<1>6. /\ Shape(block', top, last') /\ FreePairs(block', {})
      /\ \A x \in DOMAIN block : x # a /\ ~ block[x].free =>
           x \in DOMAIN block' /\ block'[x].size = block[x].size /\ ~ block'[x].free
  BY <1>2, <1>4, FreeFacts
<1>7. Holders'
  <2>1. \A g \in held' : g \in held /\ g # h
    BY <1>1
  <2>. QED  BY <1>2, <1>5, <1>6, <2>1 DEF Holders
<1>. QED  BY <1>1, <1>2, <1>3, <1>6, <1>7 DEF Heaps

LEMMA BodyStep ==
  ASSUME HInv, NEW t \in Caller, Body(t)
  PROVE  Heaps'
  BY MallocStep, FreeStep DEF Body

LEMMA HeapsKept ==
  ASSUME HInv, UNCHANGED <<list, bounds, held>>
  PROVE  Heaps'
  BY DEF HInv, TypeOK, Heaps, Holders, Shape, End, FreePairs, list, bounds

\* The flags: a task reads whether interrupts are on, and nobody turns them on
\* or off before it does so itself.
Flags == /\ saved \in BOOLEAN /\ on \subseteq KernelTask /\ entering \subseteq KernelTask
         /\ register \in [KernelTask -> BOOLEAN] /\ FlagsRead

LEMMA HeapsAndFlags == Heaps /\ Flags => HInv
<1> SUFFICES ASSUME Heaps, Flags PROVE HInv
  OBVIOUS
<1>1. /\ DOMAIN block \subseteq 0 .. top /\ block \in [DOMAIN block -> BlockHeader]
      /\ 0 \in DOMAIN block /\ last \in DOMAIN block
  BY ShapeFacts DEF Heaps, Shape
<1>. QED  BY <1>1 DEF Heaps, Flags, HInv, TypeOK

LEMMA NextStep == HInv /\ [Next]_vars => HInv'
<1> SUFFICES ASSUME HInv, [Next]_vars PROVE Heaps' /\ Flags'
  BY HeapsAndFlags, PTL
<1>0. Flags
  BY DEF HInv, TypeOK, Flags
<1>1. ASSUME NEW t \in Caller, Call(t) PROVE Heaps' /\ Flags'
  <2>1. Heaps'
    BY <1>1, BodyStep, HeapsKept DEF Call
  <2>. QED  BY <1>0, <1>1, <2>1 DEF Call, Flags, FlagsRead
<1>2. ASSUME NEW t \in Caller, SaveFlags(t) PROVE Heaps' /\ Flags'
  <2>1. Heaps'
    BY <1>2, HeapsKept DEF SaveFlags
  <2>2. /\ t \in KernelTask /\ register' = [register EXCEPT ![t] = t \in on]
        /\ entering' = entering \cup {t} /\ on' = on /\ saved' = saved
    BY <1>2 DEF SaveFlags
  <2>3. register' \in [KernelTask -> BOOLEAN]
    BY <1>0, <2>2 DEF Flags
  <2>4. FlagsRead'
    <3>1. \A k \in entering : register[k] <=> k \in on
      BY <1>0 DEF Flags, FlagsRead
    <3>2. \A k \in KernelTask : register'[k] = IF k = t THEN t \in on ELSE register[k]
      BY <1>0, <2>2, Zenon DEF Flags
    <3>3. entering \subseteq KernelTask
      BY <1>0 DEF Flags
    <3>4. \A k \in entering' : k = t \/ (k # t /\ k \in entering)
      BY <2>2
    <3>. QED  BY <2>2, <3>1, <3>2, <3>3, <3>4, Zenon DEF FlagsRead
  <2>. QED  BY <1>0, <2>1, <2>2, <2>3, <2>4 DEF Flags
<1>3. ASSUME NEW t \in Caller, Locked(t) PROVE Heaps' /\ Flags'
  <2>1. Heaps'
    BY <1>3, BodyStep DEF Locked
  <2>2. \A k \in entering' : k \in entering /\ k # t
    BY <1>3 DEF Locked
  <2>. QED  BY <1>0, <1>3, <2>1, <2>2 DEF Locked, Flags, FlagsRead
<1>4. ASSUME NEW t \in Caller, Cli(t) PROVE Heaps' /\ Flags'
  <2>1. Heaps'
    BY <1>4, HeapsKept DEF Cli
  <2>. QED  BY <1>0, <1>4, <2>1 DEF Cli, Flags, FlagsRead
<1>5. ASSUME NEW t \in Caller, Sti(t) PROVE Heaps' /\ Flags'
  <2>1. Heaps'
    BY <1>5, HeapsKept DEF Sti
  <2>. QED  BY <1>0, <1>5, <2>1 DEF Sti, Flags, FlagsRead
<1>6. CASE UNCHANGED vars
  <2>1. Heaps'
    BY <1>6, HeapsKept DEF vars
  <2>. QED  BY <1>0, <1>6, <2>1 DEF vars, flags, Flags, FlagsRead
<1>. QED  BY <1>1, <1>2, <1>3, <1>4, <1>5, <1>6 DEF Next

-----------------------------------------------------------------------------
\* Everything the invariant says holds in every state.
THEOREM HeapInvariant == Spec => []HInv
  BY InitHInv, NextStep, PTL DEF Spec

\* The list, heap_atual, heap_mapeado_fim and the saved flags keep their types
\* and ranges (kmalloc.c).
THEOREM HeapTypeCorrect == Spec => []TypeOK
<1>1. HInv => TypeOK
  BY DEF HInv
<1>. QED  BY <1>1, HeapInvariant, PTL

\* The blocks cover the heap without a gap or an overlap, linked both ways, for
\* any sizes and any order of kmalloc and kfree.
THEOREM TheHeapIsTiled == Spec => []Tiled
<1>1. ASSUME HInv PROVE Tiled
  <2>1. first = 0 /\ Shape(block, top, last)
    BY <1>1 DEF HInv
  <2>2. block[first].prev = Nil
    BY <2>1 DEF Shape
  <2>3. ASSUME NEW a \in DOMAIN block
        PROVE  IF After(a) = top THEN a = last /\ block[a].next = Nil
               ELSE block[a].next = After(a) /\ After(a) \in DOMAIN block /\ block[After(a)].prev = a
    <3>1. After(a) = End(block, a)
      BY DEF After, End
    <3>2. CASE a = last
      BY <2>1, <3>1, <3>2 DEF Shape
    <3>3. CASE a # last
      <4>1. block[a].next = After(a) /\ block[a].next \in DOMAIN block /\ block[block[a].next].prev = a
        BY <2>1, <3>1, <3>3 DEF Shape
      <4>2. After(a) # top
        BY <2>1, <4>1, ShapeFacts DEF Shape
      <4>. QED  BY <4>1, <4>2
    <3>. QED  BY <3>2, <3>3
  <2>. QED  BY <2>1, <2>2, <2>3 DEF Tiled
<1>. QED  BY <1>1, HeapInvariant, PTL

\* kfree leaves no two free neighbours, and kmalloc makes none.
THEOREM FreeMemoryIsWhole == Spec => []NoFreeNeighbours
<1>1. HInv => NoFreeNeighbours
  BY DEF HInv, FreePairs, NoFreeNeighbours
<1>. QED  BY <1>1, HeapInvariant, PTL

\* Headers and payloads lie on mapped pages, below LIMITE_HEAP.
THEOREM BlocksAreMapped == Spec => []InMappedMemory
<1>1. ASSUME HInv PROVE InMappedMemory
  <2>1. Shape(block, top, last) /\ top \in 0 .. Limit - 1 /\ mapped \in top + 1 .. Limit + Page
    BY <1>1 DEF HInv, TypeOK
  <2>2. \A a \in DOMAIN block : After(a) = End(block, a) /\ End(block, a) \in Nat /\ End(block, a) <= top
    BY <2>1, ShapeFacts DEF Shape, After, End
  <2>. QED  BY <2>1, <2>2, HeapFacts DEF InMappedMemory
<1>. QED  BY <1>1, HeapInvariant, PTL

\* trava_adquirir and trava_liberar leave a kernel task's interrupts as they
\* were, though rflags_salvos is one place for everybody.
THEOREM InterruptsAreKept == Spec => InterruptsKept
<1>1. HInv /\ [Next]_vars => [\A t \in entering \ entering' : t \in on <=> t \in on']_vars
  <2> SUFFICES ASSUME HInv, Next, NEW t \in entering, t \notin entering' PROVE t \in on <=> t \in on'
    OBVIOUS
  <2>1. t \in Caller /\ Locked(t)
    <3>1. entering \subseteq KernelTask
      BY DEF HInv, TypeOK
    <3>2. ASSUME NEW c \in Caller, Call(c) \/ SaveFlags(c) \/ Locked(c) \/ Cli(c) \/ Sti(c)
          PROVE  Locked(t)
      BY <3>2 DEF Call, SaveFlags, Locked, Cli, Sti
    <3>. QED  BY <3>1, <3>2 DEF Next, Caller
  <2>2. saved' = register[t] /\ on' = IF saved' THEN on \cup {t} ELSE on \ {t}
    BY <2>1 DEF Locked
  <2>3. register[t] <=> t \in on
    BY DEF HInv, FlagsRead
  <2>. QED  BY <2>2, <2>3
<1>. QED  BY <1>1, HeapInvariant, PTL DEF Spec, InterruptsKept

-----------------------------------------------------------------------------
Piece(h) == [at |-> h.at, size |-> h.size]
Pieces == {Piece(h) : h \in held}

\* What is handed out is nobody else's, and below the limit.
LEMMA GaveIsGive ==
  ASSUME HInv, NEW t \in Caller, NEW n \in Sizes, NEW a, NEW r \in Nat, r >= n,
         Gave(a, r), Hand(t, a, n), top' \in 0 .. Limit - 1
  PROVE  A!Give
<1> DEFINE piece == [at |-> a + Header, size |-> n]
<1>1. /\ Shape(block', top', last') /\ a \in DOMAIN block' /\ block'[a].size >= r
      /\ \A x \in DOMAIN block : ~ block[x].free =>
           x # a /\ x \in DOMAIN block' /\ block'[x].size = block[x].size /\ ~ block'[x].free
  BY DEF Gave
<1>2. /\ \A x \in DOMAIN block' : x \in Nat /\ block'[x].size \in Nat
                                  /\ End(block', x) = x + Header + block'[x].size
                                  /\ End(block', x) <= top'
      /\ \A x, y \in DOMAIN block' : x < y => End(block', x) <= y
      /\ n \in Nat
  BY <1>1, ShapeFacts, HeapFacts DEF Shape, BlockHeader, End
<1>3. /\ \A h \in held : /\ h.at \in Int /\ h.size \in Nat /\ h.at - Header \in DOMAIN block
                         /\ ~ block[h.at - Header].free /\ h.size <= block[h.at - Header].size
  BY HeapFacts DEF HInv, TypeOK, Holders
<1>4. a + Header \in 0 .. Limit - 1 /\ a + Header + n <= Limit
  BY <1>1, <1>2, HeapFacts
<1>5. ASSUME NEW h \in held
      PROVE  (a + Header) .. (a + Header + n - 1) \cap h.at .. (h.at + h.size - 1) = {}
  <2> DEFINE b == h.at - Header
  <2>1. /\ b \in DOMAIN block' /\ b # a /\ h.at = b + Header /\ h.size <= block'[b].size
    BY <1>1, <1>3, HeapFacts
  <2>2. a \in Nat /\ b \in Nat /\ block'[a].size \in Nat /\ block'[b].size \in Nat /\ h.size \in Nat
    BY <1>1, <1>2, <1>3, <2>1
  <2> HIDE DEF b
  <2>3. a < b \/ b < a
    BY <2>1, <2>2
  <2>4. CASE a < b
    <3>1. a + Header + block'[a].size <= b
      BY <1>1, <1>2, <2>1, <2>4
    <3>. QED  BY <1>1, <1>2, <2>1, <2>2, <3>1, HeapFacts
  <2>5. CASE b < a
    <3>1. b + Header + block'[b].size <= a
      BY <1>1, <1>2, <2>1, <2>5
    <3>. QED  BY <1>1, <1>2, <2>1, <2>2, <3>1, HeapFacts
  <2>. QED  BY <2>3, <2>4, <2>5
<1>6. ASSUME NEW other \in Pieces
      PROVE  A!Bytes(piece) \cap A!Bytes(other) = {}
  <2>1. PICK h \in held : other = Piece(h)
    BY <1>6 DEF Pieces
  <2>2. A!Bytes(other) = h.at .. (h.at + h.size - 1)
    BY <2>1 DEF A!Bytes, Piece
  <2>3. A!Bytes(piece) = (a + Header) .. (a + Header + n - 1)
    BY DEF A!Bytes
  <2>. QED  BY <1>5, <2>2, <2>3
<1>7. Pieces' = Pieces \cup {piece}
  <2> DEFINE new == [at |-> a + Header, size |-> n, by |-> t]
  <2>1. held' = held \cup {new} /\ Piece(new) = piece
    BY DEF Hand, Piece
  <2> HIDE DEF new, piece
  <2>2. Pieces' = {Piece(h) : h \in held'} /\ Pieces = {Piece(h) : h \in held}
    BY DEF Pieces, Piece
  <2>3. {Piece(h) : h \in held \cup {new}} = {Piece(h) : h \in held} \cup {Piece(new)}
    BY Zenon
  <2>. QED  BY <2>1, <2>2, <2>3
<1> HIDE DEF piece
<1>8. piece = [at |-> a + Header, size |-> n]
  BY DEF piece
<1>. QED  BY <1>4, <1>6, <1>7, <1>8 DEF A!Give, Pieces, Piece

\* A call of kmalloc or kfree is a step of the allocator, or changes nothing
\* that callers have.
LEMMA BodyAllocates ==
  ASSUME HInv, NEW t \in Caller, Body(t), Heaps'
  PROVE  A!Next \/ Pieces' = Pieces
<1>1. ASSUME NEW n \in Sizes, Malloc(t, n)
      PROVE  A!Next \/ Pieces' = Pieces
  <2> DEFINE r == Rounded(n)
  <2>1. r \in Nat /\ r >= n /\ top' \in 0 .. Limit - 1
    BY RoundedFacts DEF Heaps
  <2> HIDE DEF r
  <2>2. CASE /\ Fitting(r) # {} /\ Take(FirstFit(r), r) /\ Hand(t, FirstFit(r), n) /\ UNCHANGED bounds
    <3>1. Gave(FirstFit(r), r)
      BY <2>1, <2>2, TakeGives DEF bounds
    <3>2. A!Give
      BY <2>1, <2>2, <3>1, GaveIsGive
    <3>. QED  BY <3>2 DEF A!Next
  <2>3. CASE Append(r) /\ Hand(t, top, n)
    <3>1. Gave(top, r)
      BY <2>1, <2>3, AppendGives
    <3>2. A!Give
      BY <2>1, <2>3, <3>1, GaveIsGive
    <3>. QED  BY <3>2 DEF A!Next
  <2>4. CASE held' = held
    BY <2>4 DEF Pieces
  <2>. QED  BY <1>1, <2>2, <2>3, <2>4 DEF Malloc, r
<1>2. ASSUME GiveBack(t)
      PROVE  A!TakeBack
  <2>1. PICK h \in held : held' = held \ {h}
    BY <1>2 DEF GiveBack
  <2>2. \A g, k \in held : g.at = k.at => g = k
    BY DEF HInv, Holders
  <2>3. \A g \in held : g # h => Piece(g) # Piece(h)
    BY <2>2 DEF Piece
  <2>4. Pieces' = Pieces \ {Piece(h)} /\ Piece(h) \in Pieces
    BY <2>1, <2>3 DEF Pieces
  <2>. QED  BY <2>4 DEF A!TakeBack, Pieces, Piece
<1>. QED  BY <1>1, <1>2 DEF Body, A!Next

\* kmalloc and kfree, under any interleaving of the callers, implement Allocator:
\* memory given out is nobody else's and stays its owner's until it gives it back.
THEOREM TheHeapAllocates == Spec => ImplementsAllocator
<1>1. Init => A!Init
  BY DEF Init, A!Init
<1>2. HInv /\ [Next]_vars => [A!Next]_{[at |-> h.at, size |-> h.size] : h \in held}
  <2> SUFFICES ASSUME HInv, [Next]_vars PROVE A!Next \/ Pieces' = Pieces
    BY DEF Pieces, Piece
  <2>1. ASSUME NEW t \in Caller, Body(t) PROVE A!Next \/ Pieces' = Pieces
    BY <2>1, BodyStep, BodyAllocates
  <2>2. CASE held' = held
    BY <2>2 DEF Pieces
  <2>3. ASSUME Next PROVE held' = held \/ \E t \in Caller : Body(t)
    BY <2>3 DEF Next, Call, SaveFlags, Locked, Cli, Sti
  <2>. QED  BY <2>1, <2>2, <2>3 DEF vars
<1>. QED  BY <1>1, <1>2, HeapInvariant, PTL DEF Spec, ImplementsAllocator, A!Spec

=============================================================================
