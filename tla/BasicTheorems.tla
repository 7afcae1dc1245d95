--------------------------- MODULE BasicTheorems ---------------------------
(***************************************************************************)
(* What the proofs of several components need: the searches of the code    *)
(* take the first that fits, so a first one exists; positions are divided  *)
(* into clusters; tables hold linked lists (Chains).                       *)
(***************************************************************************)
EXTENDS Chains, WellFoundedInduction, TLAPS

(******************************** numbers **********************************)
\* Every nonempty set of numbers has a least one.
LEMMA Least ==
  ASSUME NEW T, T \subseteq Nat, T # {}
  PROVE  \E x \in T : \A y \in T : x <= y
<1>1. \A a, b \in Nat : <<a, b>> \in OpToRel(<, Nat) <=> a < b
  BY DEF OpToRel
<1>2. \E R : IsWellFoundedOn(R, Nat) /\ \A a, b \in Nat : <<a, b>> \in R <=> a < b
  BY <1>1, NatLessThanWellFounded, Zenon
<1>3. PICK R : IsWellFoundedOn(R, Nat) /\ \A a, b \in Nat : <<a, b>> \in R <=> a < b
  BY <1>2
<1>4. IsWellFoundedOn(R, Nat)
  BY <1>3
<1>5. PICK x \in T : \A y \in T : ~ (<<y, x>> \in R)
  BY <1>4, WFMin, Zenon
<1>6. \A y \in T : ~ (y < x)
  BY <1>3, <1>5
<1>. QED  BY <1>6

\* A position is the whole clusters before it and what is left.
LEMMA Quotient ==
  ASSUME NEW a \in Nat, NEW u \in Nat, u > 0
  PROVE  /\ a \div u \in Nat /\ a % u \in 0 .. u - 1
         /\ a = (a \div u) * u + (a % u)
<1>1. a \div u \in Int
  OBVIOUS
<1>2. a \div u >= 0
  OBVIOUS
<1>3. a % u \in 0 .. u - 1
  OBVIOUS
<1>4. a = u * (a \div u) + (a % u)
  OBVIOUS
<1>. QED  BY <1>1, <1>2, <1>3, <1>4

\* Whole clusters add up.
LEMMA Product ==
  ASSUME NEW a \in Nat, NEW b \in Nat, NEW u \in Nat
  PROVE  a * u \in Nat /\ (a + 1) * u = a * u + u /\ (a <= b => a * u <= b * u)
<1>1. a * u \in Nat /\ (a + 1) * u = a * u + u
  OBVIOUS
<1>2. ASSUME a <= b PROVE a * u <= b * u
  <2>1. b - a \in Nat /\ b * u = a * u + (b - a) * u /\ (b - a) * u \in Nat
    BY <1>2
  <2>. QED  BY <1>1, <2>1
<1>. QED  BY <1>1, <1>2

\* The quotient and the remainder are the only numbers that fit.
LEMMA QuotientIs ==
  ASSUME NEW u \in Nat, u > 0, NEW k \in Nat, NEW r \in 0 .. u - 1, NEW a, a = k * u + r
  PROVE  a \in Nat /\ a \div u = k /\ a % u = r
<1> DEFINE d == a \div u
           e == a % u
<1>1. k * u \in Nat /\ a \in Nat
  BY Product
<1>2. d \in Nat /\ e \in 0 .. u - 1 /\ a = d * u + e
  BY <1>1, Quotient
<1>. HIDE DEF d, e
<1>3. /\ d * u \in Nat /\ (d + 1) * u = d * u + u /\ (k + 1) * u = k * u + u
      /\ (d + 1 <= k => (d + 1) * u <= k * u) /\ (k + 1 <= d => (k + 1) * u <= d * u)
  BY <1>2, Product
<1>4. d * u + e = k * u + r
  BY <1>2
<1>5. ~ (d + 1 <= k) /\ ~ (k + 1 <= d)
  <2> DEFINE x == d * u
             y == k * u
  <2>1. x \in Nat /\ y \in Nat /\ x + e = y + r /\ (d + 1 <= k => x + u <= y) /\ (k + 1 <= d => y + u <= x)
    BY <1>1, <1>3, <1>4
  <2>. HIDE DEF x, y
  <2>. QED  BY <1>2, <2>1
<1>6. d = k
  BY <1>2, <1>5
<1>7. e = r
  <2> DEFINE y == k * u
  <2>1. y \in Nat /\ y + e = y + r
    BY <1>1, <1>4, <1>6
  <2>. HIDE DEF y
  <2>. QED  BY <1>2, <2>1
<1>. QED  BY <1>1, <1>6, <1>7 DEF d, e

-----------------------------------------------------------------------------
(******************************** chains ***********************************)
\* A chain is made of indices, holds its head and is closed under "next".
LEMMA ChainBasics ==
  ASSUME NEW C, NEW f, NEW h \in C
  PROVE  /\ Chain(C, f, h) \subseteq C
         /\ h \in Chain(C, f, h)
         /\ \A x \in Chain(C, f, h) : f[x] \in C => f[x] \in Chain(C, f, h)
  BY DEF Chain, Closed

\* A chain is the least such set.
LEMMA ChainLeast ==
  ASSUME NEW C, NEW f, NEW h, NEW S \in SUBSET C,
         h \in S, \A x \in S : f[x] \in C => f[x] \in S
  PROVE  Chain(C, f, h) \subseteq S
  BY DEF Chain, Closed

\* The chain of a member is part of the chain.
LEMMA SubChain ==
  ASSUME NEW C, NEW f, NEW h \in C, NEW x \in Chain(C, f, h)
  PROVE  Chain(C, f, x) \subseteq Chain(C, f, h)
  BY ChainBasics, ChainLeast

\* A chain with no member whose entry changes is the same chain.
LEMMA ChainFrame ==
  ASSUME NEW C, NEW f, NEW g, NEW h \in C,
         \A x \in Chain(C, f, h) : g[x] = f[x]
  PROVE  Chain(C, g, h) = Chain(C, f, h)
<1>1. Chain(C, g, h) \subseteq Chain(C, f, h)
  BY ChainBasics, ChainLeast
<1>2. Chain(C, f, h) \subseteq Chain(C, g, h)
  <2>1. \A x \in Chain(C, g, h) : f[x] \in C => f[x] \in Chain(C, g, h)
    BY <1>1, ChainBasics
  <2>. QED  BY <2>1, ChainBasics, ChainLeast
<1>. QED  BY <1>1, <1>2

\* Writing a mark that is no index over an entry (freeing it, ending a chain
\* there) can only shorten chains.
LEMMA ChainCut ==
  ASSUME NEW C, NEW V, NEW f \in [C -> V], NEW h \in C, NEW y \in C, NEW v, v \notin C
  PROVE  Chain(C, [f EXCEPT ![y] = v], h) \subseteq Chain(C, f, h)
<1> DEFINE g == [f EXCEPT ![y] = v]
<1>1. \A x \in Chain(C, f, h) : g[x] \in C => g[x] \in Chain(C, f, h)
  BY ChainBasics
<1>. QED  BY <1>1, ChainBasics, ChainLeast

\* Linking y to an index z whose own entry is no index adds z at most.
LEMMA ChainLink ==
  ASSUME NEW C, NEW V, NEW f \in [C -> V], NEW h \in C, NEW y \in C, NEW z \in C,
         f[z] \notin C, y # z
  PROVE  Chain(C, [f EXCEPT ![y] = z], h) \subseteq Chain(C, f, h) \cup {z}
<1> DEFINE g == [f EXCEPT ![y] = z]
           S == Chain(C, f, h) \cup {z}
<1>1. S \in SUBSET C /\ h \in S
  BY ChainBasics
<1>2. \A x \in S : g[x] \in C => g[x] \in S
  BY ChainBasics
<1>3. Chain(C, g, h) \subseteq S
  <2>. HIDE DEF g, S
  <2>. QED  BY <1>1, <1>2, ChainLeast
<1>. QED  BY <1>3


\* Writing anything over an entry that is no index cannot shorten a chain.
LEMMA ChainGrow ==
  ASSUME NEW C, NEW V, NEW f \in [C -> V], NEW h \in C, NEW y \in C, NEW v, f[y] \notin C
  PROVE  Chain(C, f, h) \subseteq Chain(C, [f EXCEPT ![y] = v], h)
<1> DEFINE g == [f EXCEPT ![y] = v]
           S == Chain(C, g, h)
<1>1. S \in SUBSET C /\ h \in S /\ \A x \in S : g[x] \in C => g[x] \in S
  <2>. HIDE DEF g
  <2>. QED  BY ChainBasics
<1>2. \A x \in S : f[x] \in C => f[x] \in S
  <2>1. \A x \in C : f[x] \in C => g[x] = f[x]
    OBVIOUS
  <2>. HIDE DEF g, S
  <2>. QED  BY <1>1, <2>1
<1>3. Chain(C, f, h) \subseteq S
  <2>. HIDE DEF g, S
  <2>. QED  BY <1>1, <1>2, ChainLeast
<1>. QED  BY <1>3

\* A chain that loses its head's entry: all but the head is in what followed.
LEMMA ChainBehead ==
  ASSUME NEW C, NEW V, NEW f \in [C -> V], NEW h \in C, NEW v
  PROVE  \A x \in Chain(C, f, h) : x # h =>
           f[h] \in C /\ f[h] # h /\ x \in Chain(C, [f EXCEPT ![h] = v], f[h])
<1> DEFINE g == [f EXCEPT ![h] = v]
           S == {h} \cup (IF f[h] \in C /\ f[h] # h THEN Chain(C, g, f[h]) ELSE {})
<1>1. \A x \in C : x # h => g[x] = f[x]
  OBVIOUS
<1>2. S \in SUBSET C /\ h \in S /\ \A x \in S : f[x] \in C => f[x] \in S
  <2>1. CASE f[h] \in C /\ f[h] # h
    <3>1. /\ Chain(C, g, f[h]) \subseteq C /\ f[h] \in Chain(C, g, f[h])
          /\ \A x \in Chain(C, g, f[h]) : g[x] \in C => g[x] \in Chain(C, g, f[h])
      <4>. HIDE DEF g
      <4>. QED  BY <2>1, ChainBasics
    <3>. HIDE DEF g
    <3>. QED  BY <1>1, <2>1, <3>1
  <2>2. CASE ~(f[h] \in C /\ f[h] # h)
    BY <2>2
  <2>. QED  BY <2>1, <2>2
<1>3. Chain(C, f, h) \subseteq S
  <2>. HIDE DEF S
  <2>. QED  BY <1>2, ChainLeast
<1>. QED  BY <1>3


-----------------------------------------------------------------------------
(* Walks.  Induction on the steps is by the least step that differs.        *)
IsWalk(w, C, e, f, h, n) ==
  w = [j \in 0 .. n |-> IF j = 0 THEN h ELSE IF w[j - 1] \in C THEN f[w[j - 1]] ELSE e]

LEMMA WalkExists ==
  ASSUME NEW C, NEW e, NEW f, NEW h, NEW n \in Nat
  PROVE  \E w : IsWalk(w, C, e, f, h, n)
<1> DEFINE Bad == {i \in Nat : ~ \E w : IsWalk(w, C, e, f, h, i)}
<1>. SUFFICES ASSUME Bad # {} PROVE FALSE
  OBVIOUS
<1>1. PICK x \in Bad : \A y \in Bad : x <= y
  BY Least
<1>2. x # 0
  <2> DEFINE w == [j \in 0 .. 0 |-> h]
  <2>1. w = [j \in 0 .. 0 |-> IF j = 0 THEN h ELSE IF w[j - 1] \in C THEN f[w[j - 1]] ELSE e]
    OBVIOUS
  <2>2. IsWalk(w, C, e, f, h, 0)
    BY <2>1 DEF IsWalk
  <2>. QED  BY <1>1, <2>2
<1>3. x \in Nat /\ x - 1 \in Nat /\ x - 1 \notin Bad
  BY <1>1, <1>2
<1>4. PICK w : IsWalk(w, C, e, f, h, x - 1)
  BY <1>3
<1> DEFINE v == [j \in 0 .. x |-> IF j < x THEN w[j] ELSE IF w[x - 1] \in C THEN f[w[x - 1]] ELSE e]
<1>5. ASSUME NEW j \in 0 .. x
      PROVE  v[j] = IF j = 0 THEN h ELSE IF v[j - 1] \in C THEN f[v[j - 1]] ELSE e
  <2>1. \A i \in 0 .. x - 1 : w[i] = IF i = 0 THEN h ELSE IF w[i - 1] \in C THEN f[w[i - 1]] ELSE e
    BY <1>4, Zenon DEF IsWalk
  <2>2. \A i \in 0 .. x - 1 : v[i] = w[i]
    BY <1>3
  <2>3. CASE j = x
    <3>1. v[j] = IF w[x - 1] \in C THEN f[w[x - 1]] ELSE e
      BY <1>3, <2>3
    <3>2. v[j - 1] = w[x - 1]
      BY <1>2, <1>3, <2>2, <2>3
    <3>. HIDE DEF v
    <3>. QED  BY <1>2, <2>3, <3>1, <3>2
  <2>4. CASE j < x
    <3>. HIDE DEF v
    <3>1. j \in 0 .. x - 1 /\ (j # 0 => j - 1 \in 0 .. x - 1)
      BY <1>3, <2>4
    <3>2. v[j] = w[j] /\ (j # 0 => v[j - 1] = w[j - 1])
      BY <2>2, <3>1
    <3>. QED  BY <2>1, <3>1, <3>2
  <2>. QED  BY <1>3, <2>3, <2>4
<1>6. v = [j \in 0 .. x |-> IF j = 0 THEN h ELSE IF v[j - 1] \in C THEN f[v[j - 1]] ELSE e]
  <2>1. v = [j \in 0 .. x |-> v[j]]
    OBVIOUS
  <2>. HIDE DEF v
  <2>. QED  BY <1>5, <2>1
<1>7. IsWalk(v, C, e, f, h, x)
  <2>. HIDE DEF v
  <2>. QED  BY <1>6 DEF IsWalk
<1>. QED  BY <1>1, <1>7

LEMMA WalkUnique ==
  ASSUME NEW C, NEW e, NEW f, NEW h, NEW n \in Nat, NEW m \in Nat, n <= m, NEW w, NEW v,
         IsWalk(w, C, e, f, h, n), IsWalk(v, C, e, f, h, m)
  PROVE  \A j \in 0 .. n : w[j] = v[j]
<1> DEFINE Bad == {j \in 0 .. n : w[j] # v[j]}
<1>. SUFFICES ASSUME Bad # {} PROVE FALSE
  OBVIOUS
<1>1. PICK x \in Bad : \A y \in Bad : x <= y
  <2>1. Bad \subseteq Nat
    OBVIOUS
  <2>. HIDE DEF Bad
  <2>. QED  BY <2>1, Least
<1>2. w[x] = IF x = 0 THEN h ELSE IF w[x - 1] \in C THEN f[w[x - 1]] ELSE e
  BY <1>1, Zenon DEF IsWalk
<1>3. v[x] = IF x = 0 THEN h ELSE IF v[x - 1] \in C THEN f[v[x - 1]] ELSE e
  <2>1. x \in 0 .. m
    BY <1>1
  <2>. QED  BY <2>1, Zenon DEF IsWalk
<1>4. x # 0 => w[x - 1] = v[x - 1]
  <2>1. x # 0 => x - 1 \in 0 .. n /\ ~ (x <= x - 1)
    BY <1>1
  <2>. QED  BY <1>1, <2>1
<1>. QED  BY <1>1, <1>2, <1>3, <1>4

LEMMA WalkIs ==
  ASSUME NEW C, NEW e, NEW f, NEW h, NEW n \in Nat, NEW w, IsWalk(w, C, e, f, h, n)
  PROVE  Walk(C, e, f, h, n) = w[n]
<1> DEFINE g == CHOOSE v : IsWalk(v, C, e, f, h, n)
<1>1. IsWalk(g, C, e, f, h, n)
  OBVIOUS
<1>2. Walk(C, e, f, h, n) = g[n]
  BY DEF Walk, IsWalk
<1>. HIDE DEF g
<1>3. g[n] = w[n]
  BY <1>1, WalkUnique
<1>. QED  BY <1>2, <1>3

\* A walk begins at its head and follows the table.
LEMMA WalkZero ==
  ASSUME NEW C, NEW e, NEW f, NEW h
  PROVE  Walk(C, e, f, h, 0) = h
<1>1. PICK w : IsWalk(w, C, e, f, h, 0)
  BY WalkExists
<1>2. w[0] = h
  BY <1>1 DEF IsWalk
<1>. QED  BY <1>1, <1>2, WalkIs

LEMMA WalkNext ==
  ASSUME NEW C, NEW e, NEW f, NEW h, NEW n \in Nat
  PROVE  Walk(C, e, f, h, n + 1) =
           IF Walk(C, e, f, h, n) \in C THEN f[Walk(C, e, f, h, n)] ELSE e
<1>1. PICK w : IsWalk(w, C, e, f, h, n + 1)
  BY WalkExists
<1>2. PICK v : IsWalk(v, C, e, f, h, n)
  BY WalkExists
<1>3. w[n] = v[n]
  <2>1. \A j \in 0 .. n : v[j] = w[j]
    BY <1>1, <1>2, WalkUnique
  <2>. QED  BY <2>1
<1>4. w[n + 1] = IF w[n] \in C THEN f[w[n]] ELSE e
  <2>1. n + 1 \in 0 .. n + 1 /\ n + 1 # 0 /\ n + 1 - 1 = n
    OBVIOUS
  <2>2. w[n + 1] = IF n + 1 = 0 THEN h ELSE IF w[n + 1 - 1] \in C THEN f[w[n + 1 - 1]] ELSE e
    <3>1. \A j \in 0 .. n + 1 : w[j] = IF j = 0 THEN h ELSE IF w[j - 1] \in C THEN f[w[j - 1]] ELSE e
      BY <1>1, Zenon DEF IsWalk
    <3>. QED  BY <2>1, <3>1
  <2>. QED  BY <2>1, <2>2
<1>5. Walk(C, e, f, h, n + 1) = w[n + 1] /\ Walk(C, e, f, h, n) = v[n]
  BY <1>1, <1>2, WalkIs
<1>. QED  BY <1>3, <1>4, <1>5

\* A walk stays in the chain as long as it meets indices.
LEMMA WalkInChain ==
  ASSUME NEW C, NEW e, e \notin C, NEW f, NEW h \in C, NEW n \in Nat, Walk(C, e, f, h, n) \in C
  PROVE  Walk(C, e, f, h, n) \in Chain(C, f, h)
<1> DEFINE W(i) == Walk(C, e, f, h, i)
           Bad == {i \in Nat : W(i) \in C /\ W(i) \notin Chain(C, f, h)}
<1>. SUFFICES ASSUME Bad # {} PROVE FALSE
  OBVIOUS
<1>1. PICK x \in Bad : \A y \in Bad : x <= y
  <2>1. Bad \subseteq Nat
    OBVIOUS
  <2>. HIDE DEF Bad
  <2>. QED  BY <2>1, Least
<1>2. x # 0
  <2>1. W(0) = h /\ h \in Chain(C, f, h)
    BY WalkZero, ChainBasics
  <2>. QED  BY <1>1, <2>1
<1>3. x - 1 \in Nat /\ x - 1 \notin Bad /\ x - 1 + 1 = x
  BY <1>1, <1>2
<1>4. W(x - 1 + 1) = IF W(x - 1) \in C THEN f[W(x - 1)] ELSE e
  BY <1>3, WalkNext
<1>5. W(x) \in C /\ W(x) \notin Chain(C, f, h)
  BY <1>1
<1>. HIDE DEF W
<1>6. W(x - 1) \in C /\ W(x) = f[W(x - 1)]
  BY <1>3, <1>4, <1>5
<1>7. W(x - 1) \in Chain(C, f, h)
  BY <1>3, <1>6
<1>. QED  BY <1>5, <1>6, <1>7, ChainBasics

\* A walk from no index meets none.
LEMMA WalkNowhere ==
  ASSUME NEW C, NEW e, e \notin C, NEW f, NEW h, h \notin C, NEW n \in Nat
  PROVE  Walk(C, e, f, h, n) \notin C
<1> DEFINE Bad == {i \in Nat : Walk(C, e, f, h, i) \in C}
<1>. SUFFICES ASSUME Bad # {} PROVE FALSE
  OBVIOUS
<1>1. PICK x \in Bad : \A y \in Bad : x <= y
  BY Least
<1>2. x # 0 /\ x - 1 \in Nat /\ x - 1 \notin Bad /\ x - 1 + 1 = x
  BY <1>1, WalkZero
<1>3. Walk(C, e, f, h, x - 1 + 1) = e
  BY <1>2, WalkNext
<1>. QED  BY <1>1, <1>2, <1>3

\* Two tables that agree on the steps before the n-th make the same n-th step.
LEMMA WalkFrame ==
  ASSUME NEW C, NEW e, NEW f, NEW g, NEW h, NEW n \in Nat,
         \A i \in Nat : i < n /\ Walk(C, e, f, h, i) \in C =>
           g[Walk(C, e, f, h, i)] = f[Walk(C, e, f, h, i)]
  PROVE  Walk(C, e, g, h, n) = Walk(C, e, f, h, n)
<1> DEFINE W(i) == Walk(C, e, f, h, i)
           V(i) == Walk(C, e, g, h, i)
           Bad == {i \in 0 .. n : V(i) # W(i)}
<1>. SUFFICES ASSUME Bad # {} PROVE FALSE
  OBVIOUS
<1>1. PICK x \in Bad : \A y \in Bad : x <= y
  <2>1. Bad \subseteq Nat
    OBVIOUS
  <2>. HIDE DEF Bad
  <2>. QED  BY <2>1, Least
<1>2. V(0) = W(0)
  BY WalkZero
<1>3. \A i \in Nat : /\ W(i + 1) = IF W(i) \in C THEN f[W(i)] ELSE e
                     /\ V(i + 1) = IF V(i) \in C THEN g[V(i)] ELSE e
  BY WalkNext
<1>4. \A i \in 0 .. n - 1 : W(i) \in C => g[W(i)] = f[W(i)]
  OBVIOUS
<1>. HIDE DEF W, V
<1>5. x # 0 /\ x \in 0 .. n /\ V(x) # W(x)
  BY <1>1, <1>2
<1>6. x - 1 \in 0 .. n - 1 /\ x - 1 \in Nat /\ x - 1 + 1 = x /\ x - 1 \notin Bad
  BY <1>1, <1>5
<1>7. V(x - 1) = W(x - 1)
  BY <1>6
<1>. QED  BY <1>3, <1>4, <1>5, <1>6, <1>7

\* A walk of an unchanged chain is unchanged.
LEMMA WalkSameChain ==
  ASSUME NEW C, NEW e, e \notin C, NEW f, NEW g, NEW h, NEW n \in Nat,
         h \in C => \A x \in Chain(C, f, h) : g[x] = f[x]
  PROVE  Walk(C, e, g, h, n) = Walk(C, e, f, h, n)
<1>1. CASE h \in C
  <2>1. \A i \in Nat : i < n /\ Walk(C, e, f, h, i) \in C =>
             g[Walk(C, e, f, h, i)] = f[Walk(C, e, f, h, i)]
    BY <1>1, WalkInChain
  <2>. QED  BY <2>1, WalkFrame
<1>2. CASE h \notin C
  BY <1>2, WalkFrame, WalkNowhere
<1>. QED  BY <1>1, <1>2
=============================================================================
