-------------------------- MODULE Fat32InPlaceProofs --------------------------
(***************************************************************************)
(* What Fat32InPlace keeps, proved for every volume, directory, payload,   *)
(* offset and set of faults, as long as no power fails during a call and   *)
(* no program appends to a file without a cluster.  With either the driver *)
(* does break its disk: the first data of such a file goes to the root     *)
(* directory (run fat32_root), and a cluster that is linked and not sealed *)
(* yet when power fails is taken for a free one by the next call.          *)
(*                                                                         *)
(* The argument has two halves.  Between the calls in place the volume is  *)
(* as Fat32VolumeProofs describes it, so its invariant and its lemmas are  *)
(* used as they are.  During one, the call works on the live chain of its  *)
(* file: it holds the last cluster of the chain (Ends), it changes table   *)
(* entries only there, and only clusters and entries of its own file.      *)
(***************************************************************************)
EXTENDS Fat32InPlace, Fat32VolumeProofs, FiniteSetTheorems

\* What the proofs ask of the environment.
Steady == PowerFails = FALSE /\ EmptyAppends = FALSE

VolumePC == {"idle", "scan", "free", "rollback", "alloc", "fill", "seal", "slot",
             "extend", "link", "entry", "mkdir", "dots"}
AppendPC == {"append", "ap_more", "ap_seal", "ap_fill"}
WritePC == {"write_at", "at_walk", "at_link", "at_seal"}

\* Where step q of the walk from h by table f stands.
Met(f, h, q) == Walk(Cluster, EOC, f, h, q)

\* By table f, the walk from h meets m clusters and then the end.
Ends(f, h, m) == /\ \A q \in 0 .. m - 1 : Walk(Cluster, EOC, f, h, q) \in Cluster
                 /\ Walk(Cluster, EOC, f, h, m) \notin Cluster

\* The chain of h holds n units or more.
Long(f, h, n) == \E m \in Nat : Ends(f, h, m) /\ n <= m * UnitsPerCluster

\* Every entry's chain holds its size (an entry without a chain has size 0).
DirLong == \A k \in Used : Long(fat, dir[k].first, dir[k].size)

\* The chain a volume call is about to publish holds what the entry will say.
NewLong == pc \in {"slot", "extend", "link", "entry", "dots"} =>
             Long(fat, first_c, NewEntry.size)

\* Between calls, and during a call of the volume.
Volume == IInv /\ Ops /\ Laid /\ NewLong

\* The disk during a call in place: the one cluster that can be reached and is
\* still free is the one just linked.
Sound == /\ DiskOK /\ NoCrossLinks /\ UniqueNames /\ NoSlotBehindEnd
         /\ \A x \in Reachable : fat[x] = FREE => x = cur /\ pc \in {"ap_seal", "at_seal"}

\* The call's arguments and its entry.
Asking ==
  /\ req.op = IF pc \in AppendPC THEN "append" ELSE "write_at"
  /\ req.name \in Name /\ req.arg \in Seq(Unit) /\ req.arg # << >>
  /\ rest \in Seq(Unit) /\ Len(rest) <= Len(req.arg)
  /\ pos \in Nat /\ left \in Nat
  /\ pc \in {"append", "write_at"} => rest = req.arg /\ first_c = 0
  /\ pc = "append" => \A k \in Slots : Lookup(req.name, k) => dir[k].first # 0
  /\ pc \notin {"append", "write_at"} => slot \in Used /\ dir[slot].name = req.name

Written == Len(req.arg) - Len(rest)
LastAt(h, m, x) == Ends(fat, h, m) /\ Nth(h, m - 1) = x

\* Where an append stands: m clusters, the last of them in hand, and room for
\* all that was written.
Appending ==
  /\ pc \in AppendPC \ {"append"} => dir[slot].first # 0
  /\ pc = "ap_more" =>
       \E m \in Nat \ {0} : /\ LastAt(dir[slot].first, m, prev_c)
                            /\ dir[slot].size + Written <= m * UnitsPerCluster
  /\ pc \in {"ap_seal", "ap_fill"} =>
       \E m \in Nat \ {0} : /\ LastAt(dir[slot].first, m, cur)
                            /\ dir[slot].size + Written <= (m - 1) * UnitsPerCluster
  /\ pc = "ap_seal" => fat[cur] = FREE

\* The chain a write works on is the file's, or for a file without one a chain
\* of the call's own that nothing reaches yet.
OwnWrite ==
  pc \in WritePC \ {"write_at"} =>
    /\ first_c \in Cluster \cup {0}
    /\ dir[slot].first # 0 => first_c = dir[slot].first
    /\ dir[slot].first = 0 /\ first_c # 0 =>
         /\ ChainOf(first_c) \cap Reachable = {}
         /\ \A x \in ChainOf(first_c) : fat[x] = FREE => x = cur /\ pc = "at_seal"

\* Where a write stands: at cluster q of m, with the links still to follow to
\* the cluster of pos, or past the last unit.
Writing ==
  /\ pc = "at_walk" =>
       \/ first_c = 0 /\ c = 0 /\ rest # << >> /\ left = (pos \div UnitsPerCluster) + 1
       \/ \E m \in Nat \ {0} : \E q \in 0 .. m - 1 :
            /\ first_c # 0 /\ Ends(fat, first_c, m) /\ Nth(first_c, q) = c
            /\ rest # << >> => q + left = pos \div UnitsPerCluster
            /\ rest = << >> => left = 0 /\ pos <= (q + 1) * UnitsPerCluster
  /\ pc \in {"at_link", "at_seal"} => /\ first_c # 0 /\ cur \in Cluster /\ fat[cur] = FREE
                                      /\ rest # << >> /\ left > 0
  /\ pc = "at_link" => /\ cur \notin Reachable
                       /\ \E m \in Nat \ {0} : /\ LastAt(first_c, m, c)
                                               /\ m - 1 + left = pos \div UnitsPerCluster
  /\ pc = "at_seal" => \E m \in Nat \ {0} : /\ LastAt(first_c, m, cur)
                                            /\ m - 2 + left = pos \div UnitsPerCluster

InPlace == Sound /\ Asking /\ Appending /\ OwnWrite /\ Writing

PInv == /\ pc \in VolumePC \cup AppendPC \cup WritePC
        /\ pc \in VolumePC => Volume
        /\ pc \notin VolumePC => InPlace
        /\ DirLong

\* What an append shows of itself before it answers: nothing.
Hidden == pc \in AppendPC => View[req.name] = before

\* No call makes a folder, and every entry that is to be written is written.
FilesOnly == "mkdir" \notin Calls /\ "entry" \notin Faults

\* Unit i of the chain of h is v, by table f and cluster contents d.
Holds(f, d, h, i, v) ==
  LET x == Met(f, h, (i - 1) \div UnitsPerCluster)
  IN x \in Cluster /\ d[x][(i - 1) % UnitsPerCluster] = v

\* What a write has done so far: the units gone from rest are where they
\* belong, and all others of the file are as they were.
Progress ==
  /\ before = [i \in 1 .. dir[slot].size |-> before[i]]
  /\ Written <= pos /\ (first_c = 0 => Written = 0)
  /\ \A i \in 1 .. Len(rest) : rest[i] = req.arg[Written + i]
  /\ \A i \in 1 .. Written : Holds(fat, data, first_c, pos - Written + i, req.arg[i])
  /\ \A i \in 1 .. dir[slot].size :
       i <= pos - Written \/ i > pos => Holds(fat, data, first_c, i, before[i])

NoFolder == req.op # "mkdir" /\ \A k \in Used : ~dir[k].folder

Exact == /\ NoFolder
         /\ pc = "write_at" => View[req.name] = before
         /\ pc \in WritePC \ {"write_at"} => Progress

-----------------------------------------------------------------------------
(************************ walks that end ***********************************)
\* A walk follows the table; before its end it meets clusters only.
LEMMA EndsSteps ==
  ASSUME NEW f, NEW h, NEW m \in Nat, Ends(f, h, m)
  PROVE  /\ \A q \in 0 .. m - 1 : /\ Met(f, h, q) \in Cluster
                                  /\ Met(f, h, q + 1) = f[Met(f, h, q)]
         /\ Met(f, h, m) \notin Cluster
         /\ Met(f, h, 0) = h
<1>1. \A q \in Nat : Met(f, h, q + 1) = IF Met(f, h, q) \in Cluster THEN f[Met(f, h, q)] ELSE EOC
  BY WalkNext DEF Met
<1>2. \A q \in 0 .. m - 1 : q \in Nat
  OBVIOUS
<1>. QED  BY <1>1, <1>2, WalkZero DEF Ends, Met

\* Only the last cluster's entry is the end of the walk.
LEMMA EndsLast ==
  ASSUME NEW f, NEW h, NEW m \in Nat \ {0}, Ends(f, h, m)
  PROVE  /\ Met(f, h, m - 1) \in Cluster /\ f[Met(f, h, m - 1)] \notin Cluster
         /\ \A q \in 0 .. m - 1 : q # m - 1 => /\ f[Met(f, h, q)] \in Cluster
                                               /\ Met(f, h, q) # Met(f, h, m - 1)
<1>1. m \in Nat /\ m - 1 \in 0 .. m - 1 /\ m - 1 + 1 = m
  OBVIOUS
<1>2. \A q \in 0 .. m - 1 : q # m - 1 => q + 1 \in 0 .. m - 1
  OBVIOUS
<1>. QED  BY <1>1, <1>2, EndsSteps

\* A walk has one end.
LEMMA EndsOnce ==
  ASSUME NEW f, NEW h, NEW m \in Nat, NEW n \in Nat, Ends(f, h, m), Ends(f, h, n)
  PROVE  m = n
<1>1. CASE m < n
  <2>1. m \in 0 .. n - 1
    BY <1>1
  <2>. QED  BY <2>1 DEF Ends
<1>2. CASE n < m
  <2>1. n \in 0 .. m - 1
    BY <1>2
  <2>. QED  BY <2>1 DEF Ends
<1>. QED  BY <1>1, <1>2

\* Past its end a walk meets no cluster.
LEMMA EndsBeyond ==
  ASSUME NEW f, NEW h, NEW m \in Nat, Ends(f, h, m), NEW q \in Nat, Met(f, h, q) \in Cluster
  PROVE  q \in 0 .. m - 1
<1> DEFINE Bad == {i \in Nat : i >= m /\ Met(f, h, i) \in Cluster}
<1>. SUFFICES ASSUME Bad # {} PROVE FALSE
  OBVIOUS
<1>1. PICK x \in Bad : \A y \in Bad : x <= y
  <2>1. Bad \subseteq Nat
    OBVIOUS
  <2>. HIDE DEF Bad
  <2>. QED  BY <2>1, Least
<1>2. x # m
  BY <1>1 DEF Ends, Met
<1>3. x - 1 \in Nat /\ x - 1 >= m /\ x - 1 + 1 = x /\ x - 1 \notin Bad
  BY <1>1, <1>2
<1>4. Met(f, h, x - 1) \notin Cluster
  BY <1>3
<1>5. Met(f, h, x - 1 + 1) = EOC
  BY <1>3, <1>4, WalkNext DEF Met
<1>. QED  BY <1>1, <1>3, <1>5, ConstantFacts

\* Nothing ends at once but what is no cluster.
LEMMA EndsNone ==
  ASSUME NEW f, NEW h
  PROVE  /\ h \notin Cluster => Ends(f, h, 0)
         /\ \A m \in Nat : h \notin Cluster /\ Ends(f, h, m) => m = 0
         /\ \A m \in Nat : h \in Cluster /\ Ends(f, h, m) => m \in Nat \ {0}
<1>1. Met(f, h, 0) = h
  BY WalkZero DEF Met
<1>2. h \notin Cluster => Ends(f, h, 0)
  BY <1>1 DEF Ends, Met
<1>3. \A m \in Nat : m # 0 => 0 \in 0 .. m - 1
  OBVIOUS
<1>. QED  BY <1>1, <1>2, <1>3 DEF Ends, Met

\* Two steps before the end stand on two clusters.
LEMMA EndsDistinct ==
  ASSUME NEW f, NEW h, NEW m \in Nat, Ends(f, h, m),
         NEW i \in 0 .. m - 1, NEW j \in 0 .. m - 1, Met(f, h, i) = Met(f, h, j)
  PROVE  i = j
<1>1. ASSUME NEW s \in 0 .. m - 1, NEW t \in 0 .. m - 1, s < t, Met(f, h, s) = Met(f, h, t)
      PROVE  FALSE
  <2> DEFINE Bad == {d \in Nat : Met(f, h, s + d) # Met(f, h, t + d)}
  <2>1. m - t \in Bad
    <3>1. m - t \in Nat /\ t + (m - t) = m /\ s + (m - t) \in 0 .. m - 1
      BY <1>1
    <3>. QED  BY <3>1, EndsSteps
  <2>2. PICK x \in Bad : \A y \in Bad : x <= y
    <3>1. Bad \subseteq Nat /\ Bad # {}
      BY <2>1
    <3>. HIDE DEF Bad
    <3>. QED  BY <3>1, Least
  <2>3. x # 0
    BY <1>1, <2>2
  <2>4. x - 1 \in Nat /\ x - 1 \notin Bad
    BY <2>2, <2>3
  <2>5. Met(f, h, s + (x - 1)) = Met(f, h, t + (x - 1))
    BY <2>4
  <2>6. /\ s + (x - 1) \in Nat /\ s + (x - 1) + 1 = s + x
        /\ t + (x - 1) \in Nat /\ t + (x - 1) + 1 = t + x
    BY <2>2, <2>4
  <2>7. \A q \in Nat : Met(f, h, q + 1) = IF Met(f, h, q) \in Cluster THEN f[Met(f, h, q)] ELSE EOC
    BY WalkNext DEF Met
  <2>8. Met(f, h, s + x) = Met(f, h, t + x)
    BY <2>5, <2>6, <2>7
  <2>. QED  BY <2>2, <2>8
<1>. QED  BY <1>1

\* The clusters of a walk are the chain, no fewer.
LEMMA EndsCount ==
  ASSUME NEW f, NEW h \in Cluster, NEW m \in Nat, Ends(f, h, m)
  PROVE  /\ IsFiniteSet(Chain(Cluster, f, h))
         /\ m <= Cardinality(Chain(Cluster, f, h))
<1> DEFINE S == Chain(Cluster, f, h)
           w == [q \in 0 .. m - 1 |-> Met(f, h, q)]
<1>1. IsFiniteSet(S)
  <2>1. IsFiniteSet(Cluster)
    BY FS_Interval, VolumeAssumption DEF VolumeAssumption, Cluster
  <2>2. S \in SUBSET Cluster
    BY ChainBasics
  <2>. HIDE DEF S
  <2>. QED  BY <2>1, <2>2, FS_Subset
<1>2. w \in Injection(0 .. m - 1, S)
  <2>1. \A q \in 0 .. m - 1 : Met(f, h, q) \in S
    <3>. SUFFICES ASSUME NEW q \in 0 .. m - 1 PROVE Met(f, h, q) \in S
      OBVIOUS
    <3>1. q \in Nat /\ Walk(Cluster, EOC, f, h, q) \in Cluster
      BY DEF Ends
    <3>. QED  BY <3>1, ConstantFacts, WalkInChain DEF Met
  <2>2. \A i, j \in 0 .. m - 1 : Met(f, h, i) = Met(f, h, j) => i = j
    BY EndsDistinct
  <2>. HIDE DEF S
  <2>. QED  BY <2>1, <2>2 DEF Injection, IsInjective
<1>3. Cardinality(0 .. m - 1) = m
  BY FS_Interval
<1>4. Cardinality(0 .. m - 1) <= Cardinality(S)
  <2>. HIDE DEF S, w
  <2>. QED  BY <1>1, <1>2, FS_Injection
<1>. QED  BY <1>1, <1>3, <1>4

-----------------------------------------------------------------------------
(************************ what the call writes to the table ****************)
\* Up to its last cluster, a walk does not see what is written over an entry
\* that was the end of a chain.
LEMMA EndsPrefix ==
  ASSUME NEW f, NEW g, NEW h, NEW m \in Nat, Ends(f, h, m), NEW y, f[y] \notin Cluster,
         \A x \in Cluster : x # y => g[x] = f[x]
  PROVE  \A q \in 0 .. m - 1 : Met(g, h, q) = Met(f, h, q)
<1>. SUFFICES ASSUME NEW q \in 0 .. m - 1 PROVE Met(g, h, q) = Met(f, h, q)
  OBVIOUS
<1>1. ASSUME NEW i \in Nat, i < q, Walk(Cluster, EOC, f, h, i) \in Cluster
      PROVE  g[Walk(Cluster, EOC, f, h, i)] = f[Walk(Cluster, EOC, f, h, i)]
  <2>1. i \in 0 .. m - 1 /\ i + 1 \in 0 .. m - 1
    BY <1>1
  <2>2. f[Met(f, h, i)] \in Cluster
    BY <2>1, EndsSteps
  <2>. QED  BY <1>1, <2>2 DEF Met
<1>2. q \in Nat
  OBVIOUS
<1>. QED  BY <1>1, <1>2, WalkFrame DEF Met

\* Sealing a last cluster leaves every chain as long as it was.
LEMMA EndsMark ==
  ASSUME NEW f, NEW g, NEW h, NEW m \in Nat, Ends(f, h, m),
         NEW y \in Cluster, f[y] \notin Cluster, g[y] \notin Cluster,
         \A x \in Cluster : x # y => g[x] = f[x]
  PROVE  Ends(g, h, m) /\ \A q \in 0 .. m - 1 : Met(g, h, q) = Met(f, h, q)
<1>1. g[y] \notin Cluster /\ \A x \in Cluster : x # y => g[x] = f[x]
  OBVIOUS
<1>2. \A q \in 0 .. m - 1 : Met(g, h, q) = Met(f, h, q)
  BY EndsPrefix
<1>3. Met(g, h, m) \notin Cluster
  <2>1. CASE m = 0
    BY <2>1, WalkZero DEF Met, Ends
  <2>2. CASE m # 0
    <3>1. m - 1 \in 0 .. m - 1 /\ m - 1 \in Nat /\ m - 1 + 1 = m /\ m \in Nat \ {0}
      BY <2>2
    <3>2. Met(g, h, m - 1) \in Cluster /\ Met(g, h, m - 1) = Met(f, h, m - 1) /\ f[Met(f, h, m - 1)] \notin Cluster
      BY <1>2, <3>1, EndsLast
    <3>3. Met(g, h, m - 1 + 1) = IF Met(g, h, m - 1) \in Cluster THEN g[Met(g, h, m - 1)] ELSE EOC
      BY <3>1, WalkNext DEF Met
    <3>. QED  BY <1>1, <3>1, <3>2, <3>3
  <2>. QED  BY <2>1, <2>2
<1>4. Ends(g, h, m)
  BY <1>2, <1>3 DEF Ends, Met
<1>. QED  BY <1>2, <1>4

\* Linking a new cluster behind the last one makes the chain one longer.
LEMMA EndsGrow ==
  ASSUME NEW f, NEW g, NEW h, NEW m \in Nat \ {0}, Ends(f, h, m),
         NEW z \in Cluster, f[z] \notin Cluster, NEW y, y = Met(f, h, m - 1), z # y,
         g[y] = z, \A x \in Cluster : x # y => g[x] = f[x]
  PROVE  /\ Ends(g, h, m + 1) /\ Met(g, h, m) = z
         /\ \A q \in 0 .. m - 1 : Met(g, h, q) = Met(f, h, q)
<1>1. y \in Cluster /\ f[y] \notin Cluster
  BY EndsLast
<1>2. g[y] = z /\ g[z] \notin Cluster /\ \A x \in Cluster : x # y => g[x] = f[x]
  BY <1>1
<1>3. \A q \in 0 .. m - 1 : Met(g, h, q) = Met(f, h, q)
  BY <1>1, <1>2, EndsPrefix
<1>4. m - 1 \in 0 .. m - 1 /\ m - 1 \in Nat /\ m - 1 + 1 = m /\ m \in Nat
  OBVIOUS
<1>5. Met(g, h, m - 1) = y
  BY <1>3, <1>4
<1>6. Met(g, h, m) = z
  <2>1. Met(g, h, m - 1 + 1) = IF Met(g, h, m - 1) \in Cluster THEN g[Met(g, h, m - 1)] ELSE EOC
    BY <1>4, WalkNext DEF Met
  <2>. QED  BY <1>1, <1>2, <1>4, <1>5, <2>1
<1>7. Met(g, h, m + 1) \notin Cluster
  <2>1. Met(g, h, m + 1) = IF Met(g, h, m) \in Cluster THEN g[Met(g, h, m)] ELSE EOC
    BY <1>4, WalkNext DEF Met
  <2>. QED  BY <1>2, <1>6, <2>1
<1>8. Ends(g, h, m + 1)
  <2>1. ASSUME NEW q \in 0 .. m + 1 - 1 PROVE Met(g, h, q) \in Cluster
    <3>1. q = m \/ (q \in 0 .. m - 1 /\ Met(f, h, q) \in Cluster)
      BY DEF Ends, Met
    <3>. QED  BY <1>3, <1>6, <3>1
  <2>. QED  BY <1>7, <2>1 DEF Ends, Met
<1>. QED  BY <1>3, <1>6, <1>8

\* A chain whose entries stay is met as before.
LEMMA EndsSame ==
  ASSUME NEW f, NEW g, NEW h, h \in Cluster => \A x \in Chain(Cluster, f, h) : g[x] = f[x]
  PROVE  /\ \A q \in Nat : Met(g, h, q) = Met(f, h, q)
         /\ \A m \in Nat : Ends(f, h, m) => Ends(g, h, m)
         /\ \A n : Long(f, h, n) => Long(g, h, n)
<1>1. \A q \in Nat : Met(g, h, q) = Met(f, h, q)
  BY ConstantFacts, WalkSameChain DEF Met
<1>2. \A m \in Nat : m \in Nat /\ \A q \in 0 .. m - 1 : q \in Nat
  OBVIOUS
<1>3. \A m \in Nat : Ends(f, h, m) => Ends(g, h, m)
  BY <1>1, <1>2 DEF Ends, Met
<1>. QED  BY <1>1, <1>3 DEF Long

LEMMA LongMark ==
  ASSUME NEW V, NEW f \in [Cluster -> V], NEW h, NEW n, Long(f, h, n),
         NEW y \in Cluster, f[y] \notin Cluster, NEW v, v \notin Cluster
  PROVE  Long([f EXCEPT ![y] = v], h, n)
<1> DEFINE g == [f EXCEPT ![y] = v]
<1>1. g[y] \notin Cluster /\ \A x \in Cluster : x # y => g[x] = f[x]
  OBVIOUS
<1>. HIDE DEF g
<1>2. Long(g, h, n)
  BY <1>1, EndsMark DEF Long
<1>. QED  BY <1>2 DEF g

\* Linking a new cluster behind the end of some chain shortens none.
LEMMA LongGrow ==
  ASSUME NEW V, NEW f \in [Cluster -> V], NEW h, NEW n \in Nat, Long(f, h, n),
         NEW y \in Cluster, f[y] \notin Cluster, NEW z \in Cluster, f[z] \notin Cluster, z # y
  PROVE  Long([f EXCEPT ![y] = z], h, n)
<1> DEFINE g == [f EXCEPT ![y] = z]
<1>1. PICK m \in Nat : Ends(f, h, m) /\ n <= m * UnitsPerCluster
  BY DEF Long
<1>2. CASE m # 0 /\ Met(f, h, m - 1) = y
  <2>1. Ends(g, h, m + 1) /\ m + 1 \in Nat
    <3>1. m \in Nat \ {0} /\ m + 1 \in Nat
      BY <1>2
    <3>2. g[y] = z /\ \A x \in Cluster : x # y => g[x] = f[x]
      OBVIOUS
    <3>. HIDE DEF g
    <3>. QED  BY <1>1, <1>2, <3>1, <3>2, EndsGrow
  <2>2. m * UnitsPerCluster <= (m + 1) * UnitsPerCluster /\ m * UnitsPerCluster \in Nat
        /\ (m + 1) * UnitsPerCluster \in Nat
    BY ConstantFacts, Product
  <2>3. n <= (m + 1) * UnitsPerCluster
    <3> DEFINE p == m * UnitsPerCluster
               r == (m + 1) * UnitsPerCluster
    <3>1. n <= p /\ p <= r /\ p \in Nat /\ r \in Nat
      BY <1>1, <2>2
    <3>. HIDE DEF p, r
    <3>2. n <= r
      BY <3>1
    <3>. QED  BY <3>2 DEF r
  <2>. QED  BY <2>1, <2>3 DEF Long
<1>3. CASE ~(m # 0 /\ Met(f, h, m - 1) = y)
  <2>1. \A x \in Cluster : x # y => g[x] = f[x]
    OBVIOUS
  <2>2. \A q \in 0 .. m - 1 : Met(f, h, q) # y
    <3>1. \A q \in 0 .. m - 1 : q # m - 1 => f[Met(f, h, q)] \in Cluster
      <4>. SUFFICES ASSUME NEW q \in 0 .. m - 1, q # m - 1 PROVE f[Met(f, h, q)] \in Cluster
        OBVIOUS
      <4>1. m \in Nat \ {0}
        OBVIOUS
      <4>. QED  BY <1>1, <4>1, EndsLast
    <3>2. \A q \in 0 .. m - 1 : m # 0
      OBVIOUS
    <3>. QED  BY <1>3, <3>1, <3>2
  <2>. HIDE DEF g
  <2>3. ASSUME NEW q \in 0 .. m PROVE Met(g, h, q) = Met(f, h, q)
    <3>1. \A i \in Nat : i < q => i \in 0 .. m - 1
      OBVIOUS
    <3>2. \A i \in Nat : i < q /\ Walk(Cluster, EOC, f, h, i) \in Cluster =>
            g[Walk(Cluster, EOC, f, h, i)] = f[Walk(Cluster, EOC, f, h, i)]
      BY <2>1, <2>2, <3>1 DEF Met
    <3>3. q \in Nat
      OBVIOUS
    <3>. QED  BY <3>2, <3>3, WalkFrame DEF Met
  <2>4. Ends(g, h, m)
    <3>1. m \in 0 .. m /\ \A q \in 0 .. m - 1 : q \in 0 .. m
      OBVIOUS
    <3>. QED  BY <1>1, <2>3, <3>1 DEF Ends, Met
  <2>5. Long(g, h, n)
    BY <1>1, <2>4 DEF Long
  <2>. QED  BY <2>5 DEF g
<1>. QED  BY <1>2, <1>3

\* Writing a mark over the end of a chain moves no cluster.
LEMMA MarkChains ==
  ASSUME DiskOK, NEW y \in Cluster, fat[y] \notin Cluster, NEW v \in {FREE, EOC},
         fat' = [fat EXCEPT ![y] = v]
  PROVE  /\ fat' \in [Cluster -> Cluster \cup {FREE, EOC}]
         /\ \A h \in Cluster : ChainOf(h)' = ChainOf(h)
<1>1. fat \in [Cluster -> Cluster \cup {FREE, EOC}] /\ v \notin Cluster
  BY ConstantFacts DEF DiskOK, FREE
<1>2. ASSUME NEW h \in Cluster
      PROVE  Chain(Cluster, [fat EXCEPT ![y] = v], h) = Chain(Cluster, fat, h)
  <2>1. Chain(Cluster, [fat EXCEPT ![y] = v], h) \subseteq Chain(Cluster, fat, h)
    BY <1>1, ChainCut
  <2>2. Chain(Cluster, fat, h) \subseteq Chain(Cluster, [fat EXCEPT ![y] = v], h)
    BY <1>1, ChainGrow
  <2>. QED  BY <2>1, <2>2
<1>. QED  BY <1>1, <1>2 DEF ChainOf

LEMMA MarkSound ==
  ASSUME DiskOK, NoCrossLinks, NEW y \in Cluster, fat[y] \notin Cluster, NEW v \in {FREE, EOC},
         fat' = [fat EXCEPT ![y] = v], dir' = dir
  PROVE  NoCrossLinks' /\ Reachable' = Reachable
<1>1. Heads' = Heads /\ Owners' = Owners
  BY DEF Heads, Owners, Used, Slots
<1>2. \A h \in Heads : ChainOf(h)' = ChainOf(h)
  BY HeadType, MarkChains
<1>3. Root \in Heads /\ \A k \in Owners : dir[k].first \in Heads
  BY DEF Heads
<1>. QED  BY <1>1, <1>2, <1>3 DEF NoCrossLinks, Reachable

\* Linking a cluster to the end of a chain adds it to that chain.
LEMMA GrowChains ==
  ASSUME DiskOK, NEW y \in Cluster, fat[y] \notin Cluster, NEW z \in Cluster, fat[z] \notin Cluster,
         z # y, fat' = [fat EXCEPT ![y] = z]
  PROVE  /\ fat' \in [Cluster -> Cluster \cup {FREE, EOC}]
         /\ \A h \in Cluster : /\ ChainOf(h)' \subseteq ChainOf(h) \cup {z}
                               /\ y \notin ChainOf(h) => ChainOf(h)' = ChainOf(h)
<1>1. fat \in [Cluster -> Cluster \cup {FREE, EOC}]
  BY DEF DiskOK
<1>2. ASSUME NEW h \in Cluster
      PROVE  Chain(Cluster, [fat EXCEPT ![y] = z], h) \subseteq Chain(Cluster, fat, h) \cup {z}
  BY <1>1, <1>2, ChainLink
<1>3. ASSUME NEW h \in Cluster, y \notin Chain(Cluster, fat, h)
      PROVE  Chain(Cluster, fat', h) = Chain(Cluster, fat, h)
  <2>1. \A x \in Chain(Cluster, fat, h) : fat'[x] = fat[x]
    BY <1>1, <1>3, ChainBasics
  <2>. QED  BY <2>1, ChainFrame
<1>. QED  BY <1>1, <1>2, <1>3 DEF ChainOf

LEMMA GrowSound ==
  ASSUME DiskOK, NoCrossLinks, NEW y \in Cluster, fat[y] \notin Cluster,
         NEW z \in Cluster, fat[z] \notin Cluster, z # y, z \notin Reachable,
         y \notin ChainOf(Root) \/ y \notin Reachable,
         fat' = [fat EXCEPT ![y] = z], dir' = dir
  PROVE  /\ NoCrossLinks' /\ Reachable' \subseteq Reachable \cup {z}
         /\ y \notin Reachable => Reachable' = Reachable
<1>1. Heads' = Heads /\ Owners' = Owners
  BY DEF Heads, Owners, Used, Slots
<1>2. \A h \in Heads : /\ ChainOf(h)' \subseteq ChainOf(h) \cup {z}
                       /\ y \notin ChainOf(h) => ChainOf(h)' = ChainOf(h)
                       /\ z \notin ChainOf(h)
  BY HeadType, HeadChain, GrowChains
<1>3. Root \in Heads /\ \A k \in Owners : dir[k].first \in Heads
  BY DEF Heads
<1>4. \A h \in Heads : z \in ChainOf(h)' => y \in ChainOf(h)
  BY <1>2
<1>5. y \notin ChainOf(Root)
  BY <1>3, HeadChain
<1>6. NoCrossLinks'
  <2>1. ASSUME NEW j \in Owners, NEW k \in Owners, j # k,
               NEW x \in ChainOf(dir[j].first)', x \in ChainOf(dir[k].first)'
        PROVE  FALSE
    <3>1. CASE x = z
      BY <1>3, <1>4, <2>1, <3>1 DEF NoCrossLinks
    <3>2. CASE x # z
      BY <1>2, <1>3, <2>1, <3>2 DEF NoCrossLinks
    <3>. QED  BY <3>1, <3>2
  <2>2. ASSUME NEW k \in Owners, NEW x \in ChainOf(dir[k].first)', x \in ChainOf(Root)'
        PROVE  FALSE
    <3>1. ChainOf(Root)' = ChainOf(Root)
      BY <1>2, <1>3, <1>5
    <3>2. x \in ChainOf(dir[k].first)
      BY <1>2, <1>3, <2>2, <3>1
    <3>. QED  BY <2>2, <3>1, <3>2 DEF NoCrossLinks
  <2>. QED  BY <1>1, <2>1, <2>2 DEF NoCrossLinks
<1>7. Reachable' \subseteq Reachable \cup {z}
  BY <1>1, <1>2 DEF Reachable
<1>8. y \notin Reachable => Reachable' = Reachable
  BY <1>1, <1>2 DEF Reachable
<1>. QED  BY <1>6, <1>7, <1>8

-----------------------------------------------------------------------------
(************************ between the calls in place ***********************)
\* An entry of the directory was there before, or is the one being published.
LEMMA DirChanges ==
  ASSUME IInv, [Next]_vars, NEW k \in Used'
  PROVE  \/ /\ k \in Used /\ dir'[k].folder = dir[k].folder
            /\ dir'[k].first = dir[k].first /\ dir'[k].size = dir[k].size
         \/ dir'[k] = NewEntry /\ pc \in {"slot", "entry"} /\ fat' = fat
<1>0. /\ dir \in Seq(Slot) /\ DEL \notin Name /\ END \notin Name /\ Len(dir) \in Nat
      /\ k \in 1 .. Len(dir') /\ dir'[k].name \in Name
  BY NameAssumption DEF IInv, TypeOK, DiskOK, NameAssumption, Used, Slots
<1>1. CASE dir' = dir
  BY <1>1 DEF Used, Slots
<1>2. CASE MarkDeleted
  <2>1. PICK j \in Slots : dir' = [dir EXCEPT ![j] = DeletedSlot]
    BY <1>2 DEF MarkDeleted
  <2>2. DeletedSlot.name = DEL
    BY DEF DeletedSlot, EmptySlot
  <2>. QED  BY <1>0, <2>1, <2>2 DEF Used, Slots
<1>3. CASE TakeSlot
  <2>1. PICK j \in Slots : dir' = [dir EXCEPT ![j] = NewEntry]
    BY <1>3 DEF TakeSlot
  <2>. QED  BY <1>0, <1>3, <2>1 DEF Used, Slots, TakeSlot
<1>4. CASE FirstEntry
  BY <1>0, <1>4 DEF Used, Slots, FirstEntry
<1>5. CASE LinkExtension
  <2>1. dir' = [i \in 1 .. Len(dir) + SlotsPerCluster |-> IF i <= Len(dir) THEN dir[i] ELSE EmptySlot]
    BY <1>5 DEF LinkExtension
  <2>2. EmptySlot.name = END
    BY DEF EmptySlot
  <2>3. Len(dir') = Len(dir) + SlotsPerCluster
    BY <1>0, <2>1, ConstantFacts
  <2>4. k \in 1 .. Len(dir) + SlotsPerCluster
    BY <1>0, <2>3
  <2>5. k <= Len(dir) /\ dir'[k] = dir[k]
    BY <1>0, <2>1, <2>2, <2>4
  <2>6. k \in 1 .. Len(dir)
    BY <1>0, <2>4, <2>5, ConstantFacts
  <2>. QED  BY <1>0, <2>5, <2>6 DEF Used, Slots
<1>6. ASSUME NEW old \in Name, NEW new \in Name, Rename(old, new)
      PROVE  /\ k \in Used /\ dir'[k].folder = dir[k].folder
             /\ dir'[k].first = dir[k].first /\ dir'[k].size = dir[k].size
  <2>1. CASE dir' = dir
    BY <2>1 DEF Used, Slots
  <2>2. ASSUME NEW j \in Slots, Lookup(old, j), dir' = [dir EXCEPT ![j].name = new]
        PROVE  /\ k \in Used /\ dir'[k].folder = dir[k].folder
               /\ dir'[k].first = dir[k].first /\ dir'[k].size = dir[k].size
    <3>1. Len(dir') = Len(dir) /\ k \in Slots
      BY <1>0, <2>2 DEF Slots
    <3>2. dir[k] \in Slot
      BY <1>0, <3>1 DEF Slots
    <3>3. k # j => dir'[k] = dir[k]
      BY <1>0, <2>2, <3>1 DEF Slots
    <3>4. k = j => /\ dir'[k].folder = dir[k].folder /\ dir[k].name = old
                   /\ dir'[k].first = dir[k].first /\ dir'[k].size = dir[k].size
      BY <1>0, <2>2, <3>1, <3>2 DEF Slots, Slot, Lookup
    <3>. QED  BY <1>0, <3>1, <3>3, <3>4 DEF Used
  <2>. QED  BY <1>6, <2>1, <2>2 DEF Rename
<1>7. CASE UNCHANGED dir
  BY <1>1, <1>7
<1>. QED
  BY <1>1, <1>2, <1>3, <1>4, <1>5, <1>6 DEF Next, Issue, Step, WriteFile, DeleteFile, CreateDir,
     Enter, disk, vars, NothingToDelete, FreeNext, ChainFreed, Allocate, DiskFull, RollBack, Fill,
     FillFails, Seal, DataWritten, FindRoom, NoRoom, SealExtension, MkdirRefused, MkdirTakes,
     MkdirDots, PowerLoss

LEMMA DirLongStep ==
  ASSUME IInv, [Next]_vars, NewLong, DirLong
  PROVE  DirLong'
<1>. SUFFICES ASSUME NEW k \in Used' PROVE Long(fat', dir'[k].first, dir'[k].size)
  BY DEF DirLong
<1>1. CASE k \in Used /\ dir'[k].first = dir[k].first /\ dir'[k].size = dir[k].size
  <2> DEFINE h == dir[k].first
  <2>1. KeepsFiles
    BY FilesKept
  <2>2. h \in Cluster => \A x \in Chain(Cluster, fat, h) : fat'[x] = fat[x]
    BY <1>1, <2>1, ConstantFacts DEF KeepsFiles, Owners, ChainOf
  <2>3. Long(fat, h, dir[k].size)
    BY <1>1 DEF DirLong
  <2>. HIDE DEF h
  <2>4. Long(fat', h, dir[k].size)
    BY <2>2, <2>3, EndsSame
  <2>. QED  BY <1>1, <2>4 DEF h
<1>2. CASE dir'[k] = NewEntry /\ pc \in {"slot", "entry"} /\ fat' = fat
  <2>1. NewEntry.first = first_c
    BY DEF NewEntry, FileSlot, FolderSlot
  <2>. QED  BY <1>2, <2>1 DEF NewLong
<1>. QED  BY <1>1, <1>2, DirChanges

LEMMA NewSize ==
  /\ NewEntry.size = IF req.op = "mkdir" THEN 0 ELSE Len(req.arg)
  /\ NewEntry'.size = IF req'.op = "mkdir" THEN 0 ELSE Len(req'.arg)
  BY DEF NewEntry, FileSlot, FolderSlot

\* All the data is out: the clusters that hold it are the chain.
LEMMA NewLongWritten ==
  ASSUME IInv, Ops, Laid, DataWritten
  PROVE  Long(fat, first_c, Len(req.arg))
<1>1. PICK m \in Nat : LaidOut(m)
  BY DEF Laid, DataWritten
<1>2. pc = "alloc" /\ rest = << >> /\ Len(req.arg) \in Nat /\ UnitsPerCluster \in Nat
  BY RequestFacts DEF DataWritten
<1>3. Len(req.arg) <= m * UnitsPerCluster
  <2> DEFINE n == Len(req.arg)
             p == m * UnitsPerCluster
  <2>1. n \in Nat /\ p \in Nat
    BY <1>2, Product
  <2>2. 0 = IF p < n THEN n - p ELSE 0
    BY <1>1, <1>2 DEF LaidOut
  <2>. HIDE DEF n, p
  <2>3. n <= p
    BY <2>1, <2>2
  <2>. QED  BY <2>3 DEF n, p
<1>4. \A q \in 0 .. m - 1 : Walk(Cluster, EOC, fat, first_c, q) \in Cluster
  <2>1. \A q \in 0 .. m - 1 : q \in Nat /\ q < m
    OBVIOUS
  <2>. QED  BY <1>1, <2>1 DEF LaidOut, At
<1>5. Walk(Cluster, EOC, fat, first_c, m) \notin Cluster
  <2>1. CASE m = 0
    <3>1. first_c = 0
      BY <1>1, <1>2, <2>1 DEF LaidOut
    <3>. QED  BY <2>1, <3>1, ConstantFacts, WalkZero
  <2>2. CASE m # 0
    <3>1. m - 1 \in 0 .. m - 1 /\ m - 1 \in Nat /\ m - 1 + 1 = m
      BY <2>2
    <3>2. At(m - 1) \in Cluster /\ fat[At(m - 1)] = EOC
      BY <1>1, <1>2, <1>4, <2>2, <3>1 DEF LaidOut, At
    <3>3. At(m - 1 + 1) = IF At(m - 1) \in Cluster THEN fat[At(m - 1)] ELSE EOC
      BY <3>1, WalkNext DEF At
    <3>. QED  BY <3>1, <3>2, <3>3, ConstantFacts DEF At
  <2>. QED  BY <2>1, <2>2
<1>. QED  BY <1>3, <1>4, <1>5 DEF Long, Ends

LEMMA NewLongStays ==
  ASSUME IInv, NewLong, pc \in {"slot", "extend", "link", "dots"}, UNCHANGED <<req, first_c>>,
         NEW y, first_c # 0 => y \notin ChainOf(first_c),
         \A x \in Cluster : x # y => fat'[x] = fat[x]
  PROVE  NewLong'
<1>1. Long(fat, first_c, NewEntry.size)
  BY DEF NewLong
<1>2. first_c \in Cluster => \A x \in Chain(Cluster, fat, first_c) : fat'[x] = fat[x]
  BY ConstantFacts, ChainBasics DEF ChainOf
<1>3. Long(fat', first_c, NewEntry.size)
  BY <1>1, <1>2, EndsSame
<1>. QED  BY <1>3, NewSize DEF NewLong

LEMMA NewLongStep ==
  ASSUME IInv, Ops, Laid, NewLong, [Next]_vars
  PROVE  NewLong'
<1>0. fat \in [Cluster -> Cluster \cup {FREE, EOC}] /\ OwnChain /\ first_c \in Cluster \cup {0}
  BY DEF IInv, TypeOK, DiskOK
<1>1. CASE pc' \notin {"slot", "extend", "link", "entry", "dots"}
  BY <1>1 DEF NewLong
<1>2. CASE DataWritten
  <2>1. UNCHANGED <<fat, first_c, req>> /\ req.op = "write"
    BY <1>2 DEF DataWritten, disk, locals, Ops
  <2>2. Long(fat', first_c', NewEntry'.size)
    BY <1>2, <2>1, NewLongWritten, NewSize
  <2>. QED  BY <2>2 DEF NewLong
<1>3. CASE MkdirTakes
  <2>1. PICK x \in Cluster : first_c' = x /\ fat' = [fat EXCEPT ![x] = EOC]
    BY <1>3 DEF MkdirTakes
  <2>2. req'.op = "mkdir"
    BY <1>3 DEF MkdirTakes, Ops
  <2>3. Ends(fat', x, 1)
    <3>1. Met(fat', x, 0) = x /\ Met(fat', x, 0 + 1) = IF Met(fat', x, 0) \in Cluster THEN fat'[Met(fat', x, 0)] ELSE EOC
      BY WalkZero, WalkNext DEF Met
    <3>2. Met(fat', x, 1) = EOC
      BY <1>0, <2>1, <3>1
    <3>. QED  BY <3>1, <3>2, ConstantFacts DEF Ends, Met
  <2>4. NewEntry'.size = 0 /\ 0 <= 1 * UnitsPerCluster
    BY <2>2, NewSize, ConstantFacts
  <2>. QED  BY <2>1, <2>3, <2>4 DEF NewLong, Long
<1>4. CASE FindRoom /\ pc' = "extend"
  <2>1. pc = "slot" /\ UNCHANGED <<fat, req, first_c>>
    BY <1>4 DEF FindRoom, Return
  <2>. QED  BY <2>1, NewSize DEF NewLong
<1>5. CASE SealExtension
  <2>1. pc = "extend" /\ fat' = [fat EXCEPT ![cur] = EOC] /\ UNCHANGED <<req, first_c>>
    BY <1>5 DEF SealExtension, locals
  <2>2. first_c # 0 => cur \notin ChainOf(first_c)
    BY <1>0, <2>1 DEF OwnChain, Building
  <2>. QED  BY <1>0, <2>1, <2>2, NewLongStays
<1>6. CASE LinkExtension
  <2>1. PICK last \in Chain(Cluster, fat, Root) : fat' = [fat EXCEPT ![last] = cur]
    BY <1>6 DEF LinkExtension
  <2>2. pc = "link" /\ UNCHANGED <<req, first_c>>
    BY <1>6 DEF LinkExtension, locals
  <2>3. last \in Reachable
    BY <2>1, HeadChain DEF ChainOf, Heads, IInv, TypeOK
  <2>4. first_c # 0 => last \notin ChainOf(first_c)
    BY <1>0, <2>2, <2>3 DEF OwnChain, Building
  <2>. QED  BY <1>0, <2>1, <2>2, <2>4, NewLongStays
<1>7. CASE MkdirDots /\ pc' = "slot"
  <2>1. pc = "dots" /\ UNCHANGED <<fat, req, first_c>>
    BY <1>7 DEF MkdirDots, locals, Return
  <2>. QED  BY <2>1, NewSize DEF NewLong
<1>8. CASE UNCHANGED vars
  BY <1>8, NewSize DEF NewLong, vars, disk, locals
<1>9. CASE Issue
  <2>1. \/ pc' \notin {"slot", "extend", "link", "entry", "dots"}
        \/ pc = "idle" /\ pc' = pc
    BY <1>9 DEF Issue, WriteFile, DeleteFile, CreateDir, Enter, Rename
  <2>. QED  BY <1>1, <2>1
<1>10. CASE FindRoom \/ MkdirDots
  BY <1>1, <1>4, <1>7, <1>10 DEF FindRoom, MkdirDots, Return
<1>11. CASE MarkDeleted \/ NothingToDelete \/ FreeNext \/ ChainFreed \/ Allocate \/ DiskFull \/ Fill
            \/ FillFails \/ Seal \/ TakeSlot \/ NoRoom \/ FirstEntry
            \/ MkdirRefused \/ PowerLoss
  <2>1. pc' \notin {"slot", "extend", "link", "entry", "dots"}
    BY <1>11 DEF MarkDeleted, NothingToDelete, FreeNext, ChainFreed, Allocate, DiskFull, Fill,
       FillFails, Seal, TakeSlot, NoRoom, FirstEntry, MkdirRefused, PowerLoss,
       RollBack, Return
  <2>. QED  BY <1>1, <2>1
<1>. QED  BY <1>2, <1>3, <1>5, <1>6, <1>8, <1>9, <1>10, <1>11 DEF Next, Step

\* A step of the volume, from a state between its calls or during one.
LEMMA VolumeKeeps ==
  ASSUME Volume, DirLong, [Next]_vars
  PROVE  Volume' /\ DirLong'
<1>1. IInv'
  BY IInvStep DEF Volume
<1>2. Ops' /\ Laid'
  BY <1>1, OpsStep, LaidStep DEF Volume
<1>3. NewLong' /\ DirLong'
  BY NewLongStep, DirLongStep DEF Volume
<1>. QED  BY <1>1, <1>2, <1>3 DEF Volume

-----------------------------------------------------------------------------
(************************ buffers ******************************************)
\* What is left of s after n units.
LEMMA AfterFacts ==
  ASSUME NEW s \in Seq(Unit), NEW n \in Nat
  PROVE  /\ After(s, n) \in Seq(Unit)
         /\ Len(After(s, n)) = IF n >= Len(s) THEN 0 ELSE Len(s) - n
         /\ \A i \in 1 .. Len(After(s, n)) : After(s, n)[i] = s[n + i]
<1>1. CASE n >= Len(s)
  <2>1. After(s, n) = << >>
    BY <1>1 DEF After
  <2>. QED  BY <1>1, <2>1
<1>2. CASE ~(n >= Len(s))
  <2>1. After(s, n) = SubSeq(s, n + 1, Len(s))
    BY <1>2 DEF After
  <2>2. n + 1 \in 1 .. Len(s) + 1 /\ Len(s) \in Nat
    BY <1>2
  <2>3. Len(SubSeq(s, n + 1, Len(s))) = Len(s) - n
    BY <2>2
  <2>4. \A i \in 1 .. Len(s) - n : SubSeq(s, n + 1, Len(s))[i] = s[n + i]
    BY <2>2
  <2>. QED  BY <1>2, <2>1, <2>3, <2>4, AfterType
<1>. QED  BY <1>1, <1>2

\* A buffer stays a buffer when data is laid over it.
LEMMA OverType ==
  ASSUME NEW u \in Buffer, NEW p \in Nat, NEW s \in Seq(Unit)
  PROVE  Over(u, p, s) \in Buffer
<1>1. DOMAIN u = 0 .. UnitsPerCluster - 1 /\ \A i \in DOMAIN u : u[i] \in Unit \cup {Zero}
  BY DEF Buffer
<1>2. \A i \in 0 .. UnitsPerCluster - 1 : i >= p /\ i < p + Len(s) => s[i - p + 1] \in Unit
  <2>. SUFFICES ASSUME NEW i \in 0 .. UnitsPerCluster - 1, i >= p, i < p + Len(s)
                PROVE  s[i - p + 1] \in Unit
    OBVIOUS
  <2>1. i - p + 1 \in 1 .. Len(s)
    BY ConstantFacts
  <2>. QED  BY <2>1
<1>. QED  BY <1>1, <1>2 DEF Over, Buffer

\* A last cluster that is not full, by the size, ends within the chain.
LEMMA TailRoom ==
  ASSUME NEW n \in Nat, NEW m \in Nat \ {0}, n <= m * UnitsPerCluster,
         n % UnitsPerCluster # 0 \/ n = 0
  PROVE  n + (UnitsPerCluster - (n % UnitsPerCluster)) <= m * UnitsPerCluster
<1> DEFINE U == UnitsPerCluster
           q == n \div U
           r == n % U
<1>1. U \in Nat /\ U > 0
  BY ConstantFacts
<1>2. q \in Nat /\ r \in 0 .. U - 1 /\ n = q * U + r
  BY <1>1, Quotient
<1>3. r # 0 \/ (r = 0 /\ q = 0)
  <2>1. CASE n = 0
    <3>1. q = 0 /\ r = 0
      BY <1>1, <2>1
    <3>. QED  BY <3>1
  <2>. QED  BY <2>1
<1>. HIDE DEF q, r, U
<1>4. q + 1 \in Nat /\ m \in Nat /\ q * U \in Nat /\ m * U \in Nat /\ (q + 1) * U = q * U + U
      /\ (m <= q => m * U <= q * U) /\ (q + 1 <= m => (q + 1) * U <= m * U)
  BY <1>1, <1>2, Product
<1>5. q + 1 <= m
  <2>1. CASE r # 0
    BY <1>1, <1>2, <1>4, <2>1 DEF U
  <2>2. CASE q = 0
    BY <2>2
  <2>. QED  BY <1>3, <2>1, <2>2
<1>6. n + (U - r) = (q + 1) * U
  BY <1>1, <1>2, <1>4
<1>7. n + (U - r) <= m * U
  BY <1>4, <1>5, <1>6
<1>. QED  BY <1>7 DEF U, r

\* The last cluster of a chain is the one the walk meets last.
LEMMA LastIs ==
  ASSUME NEW h \in Cluster, NEW m \in Nat \ {0}, Ends(fat, h, m)
  PROVE  LastOf(h) = Met(fat, h, m - 1) /\ LastOf(h) \in ChainOf(h)
<1> DEFINE S == {Met(fat, h, q) : q \in 0 .. m - 1}
           last == Met(fat, h, m - 1)
<1>1. m \in Nat /\ m - 1 \in 0 .. m - 1 /\ 0 \in 0 .. m - 1 /\ m - 1 \in Nat
  OBVIOUS
<1>2. last \in Cluster /\ fat[last] \notin Cluster
  BY EndsLast
<1>3. last \in Chain(Cluster, fat, h)
  BY <1>1, <1>2, ConstantFacts, WalkInChain DEF Met
<1>4. Chain(Cluster, fat, h) \subseteq S
  <2>1. h \in S
    BY <1>1, EndsSteps
  <2>2. S \in SUBSET Cluster
    BY <1>1, EndsSteps
  <2>3. \A x \in S : fat[x] \in Cluster => fat[x] \in S
    <3>. SUFFICES ASSUME NEW q \in 0 .. m - 1, fat[Met(fat, h, q)] \in Cluster
                  PROVE  fat[Met(fat, h, q)] \in S
      OBVIOUS
    <3>1. q # m - 1
      BY <1>2
    <3>2. q + 1 \in 0 .. m - 1
      BY <3>1
    <3>3. Met(fat, h, q + 1) = fat[Met(fat, h, q)]
      BY <1>1, EndsSteps
    <3>. QED  BY <3>2, <3>3
  <2>. HIDE DEF S
  <2>. QED  BY <2>1, <2>2, <2>3, ChainLeast
<1>5. \A x \in Chain(Cluster, fat, h) : fat[x] \notin Cluster => x = last
  <2>1. \A q \in 0 .. m - 1 : fat[Met(fat, h, q)] \notin Cluster => q = m - 1
    BY EndsLast
  <2>. QED  BY <1>4, <2>1
<1>. HIDE DEF last
<1>6. LastOf(h) = last
  BY <1>2, <1>3, <1>5 DEF LastOf
<1>. QED  BY <1>3, <1>6 DEF last, ChainOf

-----------------------------------------------------------------------------
(************************ the steps of a call in place *********************)
\* The disk when a call in place begins and when it returns.
Whole == /\ DiskOK /\ NoCrossLinks /\ UniqueNames /\ NoSlotBehindEnd
         /\ \A x \in Reachable : fat[x] # FREE

\* What the other components of the state say when the disk stays.
LEMMA SameWhole ==
  ASSUME fat' = fat, dir' = dir
  PROVE  /\ Reachable' = Reachable /\ Used' = Used /\ Slots' = Slots
         /\ \A h : ChainOf(h)' = ChainOf(h)
         /\ DirLong => DirLong'
         /\ Whole /\ data' \in [Cluster -> Buffer] => Whole'
<1>1. /\ Reachable' = Reachable /\ Used' = Used /\ Slots' = Slots
      /\ \A h : ChainOf(h)' = ChainOf(h)
      /\ NoCrossLinks => NoCrossLinks'
      /\ UniqueNames => UniqueNames' /\ (NoSlotBehindEnd => NoSlotBehindEnd')
  BY SameDisk
<1>2. DirLong => DirLong'
  BY <1>1 DEF DirLong
<1>3. Whole /\ data' \in [Cluster -> Buffer] => Whole'
  BY <1>1 DEF Whole, DiskOK
<1>. QED  BY <1>1, <1>2, <1>3

LEMMA VolumeWhole ==
  ASSUME IInv
  PROVE  Whole
<1>1. \A x \in Reachable : fat[x] # FREE
  BY DEF IInv, ReachableAllocated, Reachable
<1>. QED  BY <1>1 DEF IInv, TypeOK, Whole

LEMMA SoundWhole ==
  ASSUME Sound, pc \notin {"ap_seal", "at_seal"}
  PROVE  Whole
  BY DEF Sound, Whole

\* A call that returns leaves the volume to the next one.
LEMMA InPlaceReturned ==
  ASSUME Whole', DirLong',
         NEW st \in {"SUCCESS", "NOT_FOUND", "DISK_FULL", "ERROR_WRITE", "ERROR_READ"},
         InPlaceReturn(st)
  PROVE  PInv'
<1>1. /\ pc' = "idle" /\ req' = NoRequest /\ rest' = << >> /\ status' = st
      /\ first_c' = 0 /\ prev_c' = 0 /\ cur' = 0 /\ c' = 0
  BY DEF InPlaceReturn, Return, Fresh
<1>2. TypeOK'
  BY <1>1, NothingType DEF TypeOK, Whole, FREE
<1>3. ReachableAllocated'
  BY DEF Whole, ReachableAllocated, Reachable
<1>4. IInv'
  BY <1>1, <1>2, <1>3, Returned DEF IInv, Whole
<1>5. Ops' /\ Laid' /\ NewLong'
  BY <1>1 DEF Ops, Laid, NewLong
<1>. QED  BY <1>1, <1>4, <1>5 DEF PInv, Volume, VolumePC

LEMMA GiveUp ==
  ASSUME PInv, pc \in AppendPC \cup WritePC, pc \notin {"ap_seal", "at_seal"}, UNCHANGED disk,
         NEW st \in {"SUCCESS", "NOT_FOUND", "DISK_FULL", "ERROR_WRITE", "ERROR_READ"},
         InPlaceReturn(st)
  PROVE  PInv'
<1>1. Whole /\ DirLong
  BY SoundWhole DEF PInv, InPlace, VolumePC, AppendPC, WritePC
<1>2. fat' = fat /\ dir' = dir /\ data' = data
  BY DEF disk
<1>3. Whole' /\ DirLong'
  BY <1>1, <1>2, SameWhole DEF Whole, DiskOK
<1>. QED  BY <1>3, InPlaceReturned

LEMMA EnterInPlaceStep ==
  ASSUME PInv, Steady, NEW op \in {"append", "write_at"}, NEW n \in Name, NEW s \in Payload,
         NEW off \in Nat, EnterInPlace(op, n, s, off)
  PROVE  PInv'
<1>1. /\ pc = "idle" /\ pc' = op /\ req' = [op |-> op, name |-> n, arg |-> s] /\ rest' = s
      /\ first_c' = 0 /\ pos' = off /\ left' = 0 /\ UNCHANGED disk
  BY DEF EnterInPlace, Enter
<1>2. fat' = fat /\ dir' = dir /\ data' = data
  BY <1>1 DEF disk
<1>3. Whole' /\ DirLong'
  <2>1. Whole /\ DirLong
    BY <1>1, VolumeWhole DEF PInv, Volume, VolumePC
  <2>. QED  BY <1>2, <2>1, SameWhole DEF Whole, DiskOK
<1>4. Sound'
  BY <1>3 DEF Whole, Sound
<1>5. s \in Seq(Unit) /\ s # << >> /\ Len(s) \in Nat
  BY VolumeAssumption DEF VolumeAssumption, EnterInPlace, Asked
<1>6. Asking'
  <2>1. op = "append" => \A k \in Slots : Lookup(n, k) => dir[k].first # 0
    BY DEF EnterInPlace, Asked, Steady
  <2>2. Slots' = Slots /\ \A k : Lookup(n, k)' = Lookup(n, k)
    BY <1>2 DEF Slots, Lookup
  <2>. QED  BY <1>1, <1>2, <1>5, <2>1, <2>2 DEF Asking, AppendPC
<1>7. Appending' /\ OwnWrite' /\ Writing'
  BY <1>1 DEF Appending, OwnWrite, Writing, AppendPC, WritePC
<1>. QED  BY <1>1, <1>3, <1>4, <1>6, <1>7 DEF PInv, InPlace, VolumePC, AppendPC, WritePC

(**************************** fat32_append_file ****************************)
\* The slot a lookup finds is used, has the name, and is in its range.
LEMMA FoundSlot ==
  ASSUME DiskOK, req.name \in Name, NEW k \in Slots, Lookup(req.name, k)
  PROVE  /\ k \in Used /\ dir[k].name = req.name /\ dir[k] \in Slot
         /\ dir[k].first \in Cluster \cup {0} /\ dir[k].size \in Nat
<1>1. dir[k] \in Slot
  BY DEF DiskOK, Slots
<1>. QED  BY <1>1 DEF Lookup, Used, Slot

LEMMA UsedSlot ==
  ASSUME DiskOK, NEW k \in Used
  PROVE  /\ k \in Slots /\ dir[k] \in Slot
         /\ dir[k].first \in Cluster \cup {0} /\ dir[k].size \in Nat
<1>1. k \in Slots /\ dir[k] \in Slot
  BY DEF DiskOK, Slots, Used
<1>. QED  BY <1>1 DEF Slot

\* The file found has a chain, its size fits it, and the walk to its end stops
\* at the last cluster; what is left to write is what does not fit there.
LEMMA AppendTailFacts ==
  ASSUME PInv, AppendTail
  PROVE  \E k \in Slots : \E m \in Nat \ {0} :
           LET h == dir[k].first
               last == Met(fat, h, m - 1)
               off == dir[k].size % UnitsPerCluster
               partial == off # 0 \/ dir[k].size = 0
           IN /\ slot' = k /\ k \in Used /\ dir[k].name = req.name /\ h \in Cluster
              /\ Ends(fat, h, m) /\ dir[k].size \in Nat /\ dir[k].size <= m * UnitsPerCluster
              /\ prev_c' = last /\ last \in ChainOf(h) /\ last \in Cluster
              /\ rest' = IF partial THEN After(req.arg, UnitsPerCluster - off) ELSE req.arg
              /\ \/ partial /\ data' = [data EXCEPT ![last] = Over(@, off, req.arg)]
                 \/ data' = data
              /\ dir' = dir
<1>1. PICK k \in Slots :
        /\ Lookup(req.name, k) /\ slot' = k
        /\ LET off == dir[k].size % UnitsPerCluster
               partial == off # 0 \/ dir[k].size = 0
               last == LastOf(dir[k].first)
           IN /\ rest' = IF partial THEN After(req.arg, UnitsPerCluster - off) ELSE req.arg
              /\ IF dir[k].first = 0
                 THEN /\ prev_c' = 0 /\ data' = data
                      /\ dir' = [dir EXCEPT ![1] = [EmptySlot EXCEPT !.name = JUNK]]
                 ELSE /\ prev_c' = last /\ dir' = dir
                      /\ \/ partial /\ data' = [data EXCEPT ![last] = Over(@, off, req.arg)]
                         \/ (~partial \/ "disk" \in Faults) /\ data' = data
  BY DEF AppendTail
<1>2. pc = "append" /\ Sound /\ Asking /\ DirLong
  BY DEF AppendTail, PInv, InPlace, VolumePC
<1>3. dir[k].first # 0
  BY <1>1, <1>2 DEF Asking
<1>4. /\ k \in Used /\ dir[k].name = req.name /\ dir[k].first \in Cluster /\ dir[k].size \in Nat
  BY <1>1, <1>2, <1>3, FoundSlot DEF Sound, Asking
<1>5. PICK m \in Nat : Ends(fat, dir[k].first, m) /\ dir[k].size <= m * UnitsPerCluster
  BY <1>2, <1>4 DEF DirLong, Long
<1>6. m \in Nat \ {0}
  BY <1>4, <1>5, EndsNone
<1>7. /\ LastOf(dir[k].first) = Met(fat, dir[k].first, m - 1)
      /\ LastOf(dir[k].first) \in ChainOf(dir[k].first)
      /\ LastOf(dir[k].first) \in Cluster
  BY <1>4, <1>5, <1>6, LastIs, EndsLast
<1>. QED  BY <1>1, <1>3, <1>4, <1>5, <1>6, <1>7

LEMMA AppendTailStep == ASSUME PInv, AppendTail PROVE PInv'
<1>1. PICK k \in Slots, m \in Nat \ {0} :
        /\ slot' = k /\ k \in Used /\ dir[k].name = req.name /\ dir[k].first \in Cluster
        /\ Ends(fat, dir[k].first, m) /\ dir[k].size \in Nat /\ dir[k].size <= m * UnitsPerCluster
        /\ prev_c' = Met(fat, dir[k].first, m - 1) /\ prev_c' \in Cluster
        /\ LET off == dir[k].size % UnitsPerCluster
               partial == off # 0 \/ dir[k].size = 0
           IN /\ rest' = IF partial THEN After(req.arg, UnitsPerCluster - off) ELSE req.arg
              /\ \/ data' = [data EXCEPT ![prev_c'] = Over(@, off, req.arg)]
                 \/ data' = data
        /\ dir' = dir
  BY AppendTailFacts
<1>2. pc = "append" /\ pc' = "ap_more" /\ UNCHANGED <<fat, req, first_c, pos, left>>
  BY DEF AppendTail
<1>3. Sound /\ Asking /\ DirLong
  BY <1>2 DEF PInv, InPlace, VolumePC
<1> DEFINE U == UnitsPerCluster
           n == dir[k].size
           off == n % U
           arg == req.arg
<1>4. /\ U \in Nat /\ U > 0 /\ off \in 0 .. U - 1 /\ arg \in Seq(Unit) /\ Len(arg) \in Nat
      /\ U - off \in Nat
  <2>1. U \in Nat /\ U > 0 /\ off \in 0 .. U - 1
    BY <1>1, ConstantFacts, Quotient
  <2>2. arg \in Seq(Unit) /\ Len(arg) \in Nat
    BY <1>3 DEF Asking
  <2>. HIDE DEF U, off
  <2>. QED  BY <2>1, <2>2
<1>5. data' \in [Cluster -> Buffer]
  <2>1. data \in [Cluster -> Buffer] /\ data[prev_c'] \in Buffer /\ off \in Nat
    BY <1>1, <1>3, <1>4 DEF Sound, DiskOK
  <2>2. Over(data[prev_c'], off, arg) \in Buffer
    BY <1>4, <2>1, OverType
  <2>3. data' = [data EXCEPT ![prev_c'] = Over(data[prev_c'], off, arg)] \/ data' = data
    BY <1>1
  <2>. HIDE DEF off, arg
  <2>. QED  BY <2>1, <2>2, <2>3
<1>6. /\ rest' \in Seq(Unit) /\ Len(rest') \in Nat /\ Len(rest') <= Len(arg)
      /\ n + (Len(arg) - Len(rest')) <= m * U
  <2>1. CASE off # 0 \/ n = 0
    <3>1. rest' = After(arg, U - off)
      BY <1>1, <2>1
    <3>2. /\ rest' \in Seq(Unit)
          /\ Len(rest') = IF U - off >= Len(arg) THEN 0 ELSE Len(arg) - (U - off)
      BY <1>4, <3>1, AfterFacts
    <3>3. n + (U - off) <= m * U /\ m * U \in Nat /\ n \in Nat
      BY <1>1, <1>4, <2>1, TailRoom, Product
    <3> DEFINE p == m * U
               d == U - off
               l == Len(arg)
               r == Len(rest')
    <3>4. n + d <= p /\ p \in Nat /\ n \in Nat /\ d \in Nat /\ l \in Nat
          /\ r = IF d >= l THEN 0 ELSE l - d
      BY <1>4, <3>2, <3>3
    <3>. HIDE DEF p, d, l, r, n
    <3>5. r \in Nat /\ r <= l /\ n + (l - r) <= p
      BY <3>4
    <3>. QED  BY <3>2, <3>5 DEF p, l, r
  <2>2. CASE ~(off # 0 \/ n = 0)
    <3>1. rest' = arg
      BY <1>1, <2>2
    <3> DEFINE l == Len(arg)
               p == m * U
    <3>2. n \in Nat /\ n <= p /\ l \in Nat
      BY <1>1, <1>4
    <3>. HIDE DEF n, l, p
    <3>3. n + (l - l) <= p /\ l <= l
      BY <3>2
    <3>. QED  BY <1>4, <3>1, <3>2, <3>3 DEF l, p
  <2>. QED  BY <2>1, <2>2
<1>7. /\ Reachable' = Reachable /\ Used' = Used /\ DirLong' /\ Whole'
  BY <1>1, <1>2, <1>3, <1>5, SameWhole, SoundWhole
<1>8. Sound'
  BY <1>7 DEF Whole, Sound
<1>9. Asking'
  BY <1>1, <1>2, <1>3, <1>6, <1>7 DEF Asking, AppendPC
<1>10. Appending'
  <2>1. LastAt(dir[k].first, m, prev_c)'
    BY <1>1, <1>2 DEF LastAt, Nth, Met
  <2>2. dir'[slot'].size + Written' <= m * UnitsPerCluster
    BY <1>1, <1>2, <1>6 DEF Written
  <2>3. dir'[slot'].first # 0
    BY <1>1, ConstantFacts
  <2>. QED  BY <1>1, <1>2, <2>1, <2>2, <2>3 DEF Appending
<1>11. OwnWrite' /\ Writing'
  BY <1>2 DEF OwnWrite, Writing, WritePC
<1>. QED  BY <1>2, <1>7, <1>8, <1>9, <1>10, <1>11 DEF PInv, InPlace, VolumePC, AppendPC

\* No entry's chain gets too short by what the calls write to the table.
LEMMA DirLongMark ==
  ASSUME DiskOK, DirLong, NEW y \in Cluster, fat[y] \notin Cluster, NEW v \in {FREE, EOC},
         fat' = [fat EXCEPT ![y] = v], dir' = dir
  PROVE  DirLong'
<1>1. fat \in [Cluster -> Cluster \cup {FREE, EOC}] /\ v \notin Cluster
  BY ConstantFacts DEF DiskOK, FREE
<1>2. ASSUME NEW k \in Used PROVE Long(fat', dir[k].first, dir[k].size)
  BY <1>1, LongMark DEF DirLong
<1>. QED  BY <1>2, SameDirectory DEF DirLong

LEMMA DirLongGrow ==
  ASSUME DiskOK, DirLong, NEW y \in Cluster, fat[y] \notin Cluster,
         NEW z \in Cluster, fat[z] \notin Cluster, z # y,
         fat' = [fat EXCEPT ![y] = z], dir' = dir
  PROVE  DirLong'
<1>1. fat \in [Cluster -> Cluster \cup {FREE, EOC}]
  BY DEF DiskOK
<1>2. ASSUME NEW k \in Used PROVE Long(fat', dir[k].first, dir[k].size)
  BY <1>1, UsedSlot, LongGrow DEF DirLong
<1>. QED  BY <1>2, SameDirectory DEF DirLong

\* What an entry in hand says of its chain: it is reachable and no one else's.
LEMMA LiveChain ==
  ASSUME DiskOK, NoCrossLinks, NEW k \in Used, dir[k].first # 0, NEW x \in ChainOf(dir[k].first)
  PROVE  k \in Owners /\ dir[k].first \in Cluster /\ x \in Cluster /\ x \in Reachable /\ x \notin ChainOf(Root)
<1>1. k \in Owners /\ dir[k].first \in Heads
  BY DEF Owners, Heads
<1>. QED  BY <1>1, HeadType, HeadChain DEF NoCrossLinks

\* The clusters a walk meets are in the chain.
LEMMA MetInChain ==
  ASSUME NEW h, NEW m \in Nat, Ends(fat, h, m), NEW q \in 0 .. m - 1
  PROVE  h \in Cluster /\ Met(fat, h, q) \in ChainOf(h) /\ Met(fat, h, q) \in Cluster
<1>1. q \in Nat /\ Met(fat, h, q) \in Cluster
  BY DEF Ends, Met
<1>2. h \in Cluster
  <2>1. 0 \in 0 .. m - 1
    OBVIOUS
  <2>. QED  BY <2>1, EndsSteps
<1>. QED  BY <1>1, <1>2, ConstantFacts, WalkInChain DEF Met, ChainOf

LEMMA AppendLinkStep == ASSUME PInv, AppendLink PROVE PInv'
<1>1. PICK x \in Cluster : FirstFree(x) /\ cur' = x /\ fat' = [fat EXCEPT ![prev_c] = x]
  BY DEF AppendLink
<1>2. /\ pc = "ap_more" /\ pc' = "ap_seal"
      /\ UNCHANGED <<data, dir, req, rest, first_c, slot, pos, left>>
  BY DEF AppendLink, more
<1>3. Sound /\ Asking /\ Appending /\ DirLong
  BY <1>2 DEF PInv, InPlace, VolumePC
<1> DEFINE h == dir[slot].first
<1>4. PICK m \in Nat \ {0} : /\ LastAt(h, m, prev_c)
                             /\ dir[slot].size + Written <= m * UnitsPerCluster
  BY <1>2, <1>3 DEF Appending
<1>5. slot \in Used /\ h # 0
  BY <1>2, <1>3 DEF Asking, Appending, AppendPC
<1>6. Ends(fat, h, m) /\ prev_c = Met(fat, h, m - 1) /\ m \in Nat /\ m - 1 \in 0 .. m - 1
  BY <1>4 DEF LastAt, Nth, Met
<1>7. /\ prev_c \in ChainOf(h) /\ prev_c \in Cluster /\ fat[prev_c] \notin Cluster
      /\ prev_c \in Reachable /\ prev_c \notin ChainOf(Root)
  <2>1. prev_c \in ChainOf(h) /\ fat[prev_c] \notin Cluster
    BY <1>6, MetInChain, EndsLast
  <2>. QED  BY <1>3, <1>5, <2>1, LiveChain DEF Sound
<1>8. fat[x] = FREE /\ x \notin Reachable /\ fat[x] \notin Cluster /\ x # prev_c
  <2>1. fat[x] = FREE
    BY <1>1 DEF FirstFree, FreeClusters
  <2>2. x \notin Reachable
    BY <1>2, <1>3, <2>1 DEF Sound
  <2>. QED  BY <1>7, <2>1, <2>2, ConstantFacts DEF FREE
<1>9. DiskOK /\ NoCrossLinks /\ fat \in [Cluster -> Cluster \cup {FREE, EOC}]
  BY <1>3 DEF Sound, DiskOK
<1>10. NoCrossLinks' /\ Reachable' \subseteq Reachable \cup {x}
  BY <1>1, <1>2, <1>7, <1>8, <1>9, GrowSound
<1>11. DirLong' /\ DiskOK'
  <2>1. DirLong'
    BY <1>1, <1>2, <1>3, <1>7, <1>8, <1>9, DirLongGrow
  <2>. QED  BY <1>1, <1>2, <1>9, <2>1 DEF DiskOK
<1>12. Sound'
  <2>1. \A y \in Reachable' : fat'[y] = FREE => y = x
    <3>. SUFFICES ASSUME NEW y \in Reachable', fat'[y] = FREE, y # x PROVE FALSE
      OBVIOUS
    <3>1. y \in Reachable /\ fat[y] # FREE
      BY <1>2, <1>3, <1>10 DEF Sound
    <3>2. fat'[y] = fat[y] \/ fat'[y] = x
      BY <1>1, <1>7, <1>9
    <3>. QED  BY <3>1, <3>2, ConstantFacts DEF FREE
  <2>. QED  BY <1>1, <1>2, <1>3, <1>10, <1>11, <2>1, SameDirectory DEF Sound
<1>13. Asking'
  BY <1>2, <1>3, SameDirectory DEF Asking, AppendPC
<1>14. Appending'
  <2>1. Ends(fat', h, m + 1) /\ Met(fat', h, m) = x
    <3>1. fat'[prev_c] = x /\ \A y \in Cluster : y # prev_c => fat'[y] = fat[y]
      BY <1>1, <1>7, <1>9
    <3>. QED  BY <1>6, <1>8, <3>1, EndsGrow
  <2>2. m + 1 \in Nat \ {0} /\ m + 1 - 1 = m
    OBVIOUS
  <2>3. LastAt(dir[slot].first, m + 1, cur)'
    BY <1>1, <1>2, <2>1, <2>2 DEF LastAt, Nth, Met
  <2>4. dir'[slot'].size + Written' <= (m + 1 - 1) * UnitsPerCluster
    BY <1>2, <1>4, <2>2 DEF Written
  <2>5. fat'[cur'] = FREE
    BY <1>1, <1>8, <1>9, <1>7
  <2>. QED  BY <1>2, <1>5, <2>2, <2>3, <2>4, <2>5 DEF Appending, AppendPC
<1>15. OwnWrite' /\ Writing'
  BY <1>2 DEF OwnWrite, Writing, WritePC
<1>. QED  BY <1>2, <1>11, <1>12, <1>13, <1>14, <1>15 DEF PInv, InPlace, VolumePC, AppendPC

LEMMA AppendSealStep == ASSUME PInv, AppendSeal PROVE PInv'
<1>1. /\ pc = "ap_seal" /\ pc' = "ap_fill" /\ fat' = [fat EXCEPT ![cur] = EOC]
      /\ UNCHANGED <<data, dir, req, rest, first_c, cur, slot, pos, left>>
  BY DEF AppendSeal, more, locals
<1>2. Sound /\ Asking /\ Appending /\ DirLong
  BY <1>1 DEF PInv, InPlace, VolumePC
<1> DEFINE h == dir[slot].first
<1>3. PICK m \in Nat \ {0} : /\ LastAt(h, m, cur)
                             /\ dir[slot].size + Written <= (m - 1) * UnitsPerCluster
  BY <1>1, <1>2 DEF Appending
<1>4. Ends(fat, h, m) /\ cur = Met(fat, h, m - 1) /\ m \in Nat /\ m - 1 \in 0 .. m - 1
  BY <1>3 DEF LastAt, Nth, Met
<1>5. cur \in Cluster /\ fat[cur] \notin Cluster /\ EOC \in {FREE, EOC}
  BY <1>4, EndsLast
<1>6. DiskOK /\ NoCrossLinks /\ fat \in [Cluster -> Cluster \cup {FREE, EOC}]
  BY <1>2 DEF Sound, DiskOK
<1>7. NoCrossLinks' /\ Reachable' = Reachable
  BY <1>1, <1>5, <1>6, MarkSound
<1>8. DirLong' /\ DiskOK'
  <2>1. DirLong'
    BY <1>1, <1>2, <1>5, <1>6, DirLongMark
  <2>2. fat' \in [Cluster -> Cluster \cup {FREE, EOC}]
    BY <1>1, <1>5, <1>6, MarkChains
  <2>. QED  BY <1>1, <1>6, <2>1, <2>2 DEF DiskOK
<1>9. fat'[cur] = EOC /\ \A y \in Cluster : y # cur => fat'[y] = fat[y]
  BY <1>1, <1>5, <1>6
<1>10. Sound'
  <2>1. \A y \in Reachable : fat'[y] # FREE
    <3>. SUFFICES ASSUME NEW y \in Reachable, y # cur PROVE fat'[y] # FREE
      BY <1>9, ConstantFacts
    <3>1. y \in Cluster
      BY <1>6, HeadChain DEF Reachable
    <3>. QED  BY <1>2, <1>9, <3>1 DEF Sound
  <2>. QED  BY <1>1, <1>2, <1>7, <1>8, <2>1, SameDirectory DEF Sound
<1>11. Asking'
  BY <1>1, <1>2, SameDirectory DEF Asking, AppendPC
<1>12. Appending'
  <2>1. Ends(fat', h, m) /\ Met(fat', h, m - 1) = cur
    <3>1. fat'[cur] \notin Cluster
      BY <1>9, ConstantFacts
    <3>. HIDE DEF h
    <3>2. Ends(fat', h, m) /\ \A q \in 0 .. m - 1 : Met(fat', h, q) = Met(fat, h, q)
      BY <1>4, <1>5, <1>9, <3>1, EndsMark
    <3>. QED  BY <1>4, <3>2
  <2>2. LastAt(dir[slot].first, m, cur)'
    BY <1>1, <2>1 DEF LastAt, Nth, Met
  <2>3. dir'[slot'].size + Written' <= (m - 1) * UnitsPerCluster
    BY <1>1, <1>3 DEF Written
  <2>. QED  BY <1>1, <1>2, <2>2, <2>3 DEF Appending, AppendPC
<1>13. OwnWrite' /\ Writing'
  BY <1>1 DEF OwnWrite, Writing, WritePC
<1>. QED  BY <1>1, <1>8, <1>10, <1>11, <1>12, <1>13 DEF PInv, InPlace, VolumePC, AppendPC

LEMMA AppendFillStep == ASSUME PInv, AppendFill PROVE PInv'
<1>1. /\ pc = "ap_fill" /\ pc' = "ap_more" /\ rest' = After(rest, UnitsPerCluster) /\ prev_c' = cur
      /\ data' = [data EXCEPT ![cur] = Filled(rest)] \/ data' = data
      /\ UNCHANGED <<fat, dir, req, first_c, cur, slot, pos, left>>
  BY DEF AppendFill, more
<1>2. Sound /\ Asking /\ Appending /\ DirLong
  BY <1>1 DEF PInv, InPlace, VolumePC
<1>3. PICK m \in Nat \ {0} : /\ LastAt(dir[slot].first, m, cur)
                             /\ dir[slot].size + Written <= (m - 1) * UnitsPerCluster
  BY <1>1, <1>2 DEF Appending
<1>4. rest \in Seq(Unit) /\ UnitsPerCluster \in Nat /\ dir[slot].size \in Nat
      /\ Len(rest) \in Nat /\ Len(req.arg) \in Nat /\ Len(rest) <= Len(req.arg)
  BY <1>1, <1>2, UsedSlot, ConstantFacts DEF Asking, Sound
<1>5. /\ rest' \in Seq(Unit)
      /\ Len(rest') = IF UnitsPerCluster >= Len(rest) THEN 0 ELSE Len(rest) - UnitsPerCluster
  BY <1>1, <1>4, AfterFacts
<1>6. data' \in [Cluster -> Buffer]
  <2>1. Filled(rest) \in Buffer /\ data \in [Cluster -> Buffer]
    BY <1>2, <1>4, FilledType DEF Sound, DiskOK
  <2>. QED  BY <1>1, <2>1
<1>7. Reachable' = Reachable /\ Used' = Used /\ DirLong' /\ Whole'
  BY <1>1, <1>2, <1>6, SameWhole, SoundWhole
<1>8. Sound'
  BY <1>7 DEF Whole, Sound
<1>9. dir[slot].size + (Len(req.arg) - Len(rest')) <= m * UnitsPerCluster /\ Len(rest') <= Len(req.arg)
  <2> DEFINE U == UnitsPerCluster
             p == (m - 1) * U
             n == dir[slot].size
             l == Len(req.arg)
             r == Len(rest)
             s == Len(rest')
  <2>1. m - 1 \in Nat /\ m - 1 + 1 = m
    OBVIOUS
  <2>2. p \in Nat /\ m * U = p + U
    BY <1>4, <2>1, Product
  <2>3. n + (l - r) <= p
    BY <1>3 DEF Written
  <2>4. n \in Nat /\ l \in Nat /\ r \in Nat /\ r <= l /\ U \in Nat /\ s = IF U >= r THEN 0 ELSE r - U
    BY <1>4, <1>5
  <2>. HIDE DEF p, n, l, r, s, U
  <2>5. n + (l - s) <= p + U /\ s <= l
    BY <2>2, <2>3, <2>4
  <2>. QED  BY <2>2, <2>5 DEF n, l, s, U
<1>10. Asking'
  BY <1>1, <1>2, <1>5, <1>7, <1>9 DEF Asking, AppendPC
<1>11. Appending'
  <2>1. LastAt(dir[slot].first, m, prev_c)'
    BY <1>1, <1>3 DEF LastAt, Nth
  <2>2. dir'[slot'].size + Written' <= m * UnitsPerCluster
    BY <1>1, <1>9 DEF Written
  <2>. QED  BY <1>1, <1>2, <2>1, <2>2 DEF Appending, AppendPC
<1>12. OwnWrite' /\ Writing'
  BY <1>1 DEF OwnWrite, Writing, WritePC
<1>. QED  BY <1>1, <1>7, <1>8, <1>10, <1>11, <1>12 DEF PInv, InPlace, VolumePC, AppendPC

\* The entry of the file gets a size its chain holds, and its chain if it had
\* none.
LEMMA EntryUpdate ==
  ASSUME Whole, DirLong, NEW k \in Used, NEW n \in Nat, NEW h \in Cluster, Long(fat, h, n),
         \/ h = dir[k].first
         \/ /\ dir[k].first = 0 /\ ChainOf(h) \cap Reachable = {}
            /\ \A x \in ChainOf(h) : fat[x] # FREE,
         fat' = fat, data' = data,
         NEW e \in Slot, e.name = dir[k].name, e.size = n, e.first = h,
         dir' = [dir EXCEPT ![k] = e]
  PROVE  Whole' /\ DirLong'
<1>0. DiskOK
  BY DEF Whole
<1>1. k \in Slots /\ dir[k] \in Slot
  BY <1>0, UsedSlot
<1>2. e \in Slot /\ e.name = dir[k].name /\ e.size = n /\ e.first = h
  OBVIOUS
<1>4. /\ Slots' = Slots /\ dir'[k] = e /\ \A j \in Slots : j # k => dir'[j] = dir[j]
      /\ DiskOK'
  <2>1. dir \in Seq(Slot) /\ k \in 1 .. Len(dir)
    BY <1>0, <1>1 DEF DiskOK, Slots
  <2>2. /\ dir' \in Seq(Slot) /\ Len(dir') = Len(dir)
        /\ dir'[k] = e /\ \A j \in 1 .. Len(dir) : j # k => dir'[j] = dir[j]
    BY <2>1
  <2>. QED  BY <1>0, <2>2 DEF DiskOK, Slots
<1>5. \A j \in Slots : dir'[j].name = dir[j].name
  BY <1>2, <1>4
<1>6. Used' = Used /\ Used \subseteq Slots
  BY <1>4, <1>5 DEF Used
<1>7. UniqueNames' /\ NoSlotBehindEnd'
  <2>1. UniqueNames'
    BY <1>5, <1>6 DEF Whole, UniqueNames
  <2>2. \A i \in Used : \A j \in 1 .. i - 1 : j \in Slots
    BY <1>0, <1>6 DEF Slots, DiskOK
  <2>3. NoSlotBehindEnd'
    BY <1>5, <1>6, <2>2 DEF Whole, NoSlotBehindEnd
  <2>. QED  BY <2>1, <2>3
<1>8. \A x : ChainOf(x)' = ChainOf(x)
  BY DEF ChainOf
<1>9. Owners' = Owners \cup {k} /\ \A j \in Owners : j # k => dir'[j] = dir[j]
  BY <1>2, <1>4, <1>6, ConstantFacts DEF Owners
<1>10. Owners \subseteq Used /\ k \in Owners => dir[k].first = h
  BY ConstantFacts DEF Owners
<1>11. NoCrossLinks' /\ \A x \in Reachable' : fat'[x] # FREE
  <2>1. CASE h = dir[k].first
    <3>1. Owners' = Owners /\ \A j \in Owners : dir'[j].first = dir[j].first
      BY <1>2, <1>4, <1>9, <2>1, ConstantFacts DEF Owners
    <3>2. Heads' = Heads
      BY <3>1 DEF Heads
    <3>3. Reachable' = Reachable
      BY <1>8, <3>2 DEF Reachable
    <3>4. NoCrossLinks'
      BY <1>8, <3>1 DEF Whole, NoCrossLinks
    <3>. QED  BY <3>3, <3>4 DEF Whole
  <2>2. CASE /\ dir[k].first = 0 /\ ChainOf(h) \cap Reachable = {}
             /\ \A x \in ChainOf(h) : fat[x] # FREE
    <3>1. k \notin Owners
      BY <2>2 DEF Owners
    <3>2. Heads' = Heads \cup {h}
      BY <1>2, <1>4, <1>9, <3>1 DEF Heads
    <3>3. Reachable' = Reachable \cup ChainOf(h)
      BY <1>8, <3>2 DEF Reachable
    <3>4. /\ Root \in Heads /\ \A j \in Owners : dir[j].first \in Heads
          /\ \A g \in Heads : ChainOf(g) \subseteq Reachable
      BY DEF Heads, Reachable
    <3>5. \A j \in Owners' : \/ j = k /\ dir'[j].first = h
                             \/ j \in Owners /\ j # k /\ dir'[j].first = dir[j].first
      BY <1>2, <1>4, <1>9, <3>1
    <3>6. NoCrossLinks'
      BY <1>8, <2>2, <3>4, <3>5 DEF Whole, NoCrossLinks
    <3>. QED  BY <2>2, <3>3, <3>6 DEF Whole
  <2>. QED  BY <2>1, <2>2
<1>12. DirLong'
  BY <1>2, <1>4, <1>6 DEF DirLong
<1>. QED  BY <1>4, <1>7, <1>11, <1>12 DEF Whole

LEMMA AppendSizeStep == ASSUME PInv, AppendSize PROVE PInv'
<1> DEFINE n == dir[slot].size + Len(req.arg)
           h == dir[slot].first
<1>1. /\ pc = "ap_more" /\ rest = << >> /\ dir' = [dir EXCEPT ![slot].size = @ + Len(req.arg)]
      /\ fat' = fat /\ data' = data /\ InPlaceReturn("SUCCESS")
  BY DEF AppendSize
<1>2. Sound /\ Asking /\ Appending /\ DirLong /\ Whole
  BY <1>1, SoundWhole DEF PInv, InPlace, VolumePC
<1>3. slot \in Used /\ h # 0
  BY <1>1, <1>2 DEF Asking, Appending, AppendPC
<1>4. h \in Cluster /\ dir[slot].size \in Nat /\ Len(req.arg) \in Nat /\ slot \in Slots
      /\ dir[slot] \in Slot
  BY <1>2, <1>3, UsedSlot DEF Sound, Asking
<1>5. n \in Nat /\ Long(fat, h, n)
  <2>1. PICK m \in Nat \ {0} : /\ LastAt(h, m, prev_c)
                               /\ dir[slot].size + Written <= m * UnitsPerCluster
    BY <1>1, <1>2 DEF Appending
  <2>2. Written = Len(req.arg)
    BY <1>1, <1>4 DEF Written
  <2>. QED  BY <1>4, <2>1, <2>2 DEF LastAt, Long
<1> DEFINE e == [dir[slot] EXCEPT !.size = n]
<1>6. e \in Slot /\ e.name = dir[slot].name /\ e.size = n /\ e.first = h /\ dir' = [dir EXCEPT ![slot] = e]
  BY <1>1, <1>4, <1>5 DEF Slot
<1>7. Whole' /\ DirLong'
  <2>1. Whole /\ DirLong /\ slot \in Used /\ n \in Nat /\ h \in Cluster /\ Long(fat, h, n)
    BY <1>2, <1>3, <1>4, <1>5
  <2>2. h = dir[slot].first /\ fat' = fat /\ data' = data
    BY <1>1
  <2>. HIDE DEF n, h, e
  <2>. QED  BY <1>6, <2>1, <2>2, EntryUpdate
<1>. QED  BY <1>1, <1>7, InPlaceReturned

(*********************** fat32_write_file_at_offset ************************)
\* What one cluster takes of what is left to write: up to its end, or all.
LEMMA ChunkFacts ==
  ASSUME NEW p \in Nat, NEW l \in Nat, l > 0
  PROVE  LET U == UnitsPerCluster
             q == p \div U
             off == p % U
             chunk == Smaller(l, U - off)
         IN /\ q \in Nat /\ off \in 0 .. U - 1 /\ p = q * U + off
            /\ chunk \in Nat /\ chunk > 0 /\ chunk <= l /\ chunk <= U - off
            /\ p + chunk \in Nat /\ p + chunk <= (q + 1) * U
            /\ chunk < l => chunk = U - off /\ (p + chunk) \div U = q + 1
<1> DEFINE U == UnitsPerCluster
           q == p \div U
           off == p % U
           chunk == Smaller(l, U - off)
<1>1. U \in Nat /\ U > 0
  BY ConstantFacts
<1>2. q \in Nat /\ off \in 0 .. U - 1 /\ p = q * U + off
  BY <1>1, Quotient
<1>. HIDE DEF q, off, U
<1>3. /\ chunk \in Nat /\ chunk > 0 /\ chunk <= l /\ chunk <= U - off
      /\ chunk < l => chunk = U - off
  BY <1>1, <1>2 DEF Smaller
<1>. HIDE DEF chunk
<1>4. q * U \in Nat /\ (q + 1) * U = q * U + U /\ q + 1 \in Nat
  BY <1>1, <1>2, Product
<1>5. p + chunk \in Nat /\ p + chunk <= (q + 1) * U
  <2> DEFINE x == q * U
  <2>1. x \in Nat /\ p = x + off
    BY <1>2, <1>4
  <2>. HIDE DEF x
  <2>2. p + chunk <= x + U
    BY <1>1, <1>2, <1>3, <2>1
  <2>. QED  BY <1>3, <1>4, <2>2 DEF x
<1>6. ASSUME chunk < l PROVE (p + chunk) \div U = q + 1
  <2> DEFINE x == q * U
             y == (q + 1) * U
  <2>1. x \in Nat /\ p = x + off /\ y = x + U
    BY <1>2, <1>4
  <2>. HIDE DEF x, y
  <2>2. p + chunk = y + 0 /\ 0 \in 0 .. U - 1
    BY <1>1, <1>2, <1>3, <1>6, <2>1
  <2>3. p + chunk = (q + 1) * U + 0
    BY <2>2 DEF y
  <2>. QED  BY <1>1, <1>4, <2>2, <2>3, QuotientIs
<1>. QED  BY <1>2, <1>3, <1>5, <1>6 DEF U, q, off, chunk

\* The cluster a write stands at belongs to the chain it works on.
LEMMA WriteCursor ==
  ASSUME InPlace, pc = "at_walk", c # 0
  PROVE  \E m \in Nat \ {0} : \E q \in 0 .. m - 1 :
           /\ first_c \in Cluster /\ Ends(fat, first_c, m) /\ Met(fat, first_c, q) = c /\ q \in Nat
           /\ c \in Cluster /\ c \in ChainOf(first_c)
           /\ rest # << >> => q + left = pos \div UnitsPerCluster
           /\ rest = << >> => left = 0 /\ pos <= (q + 1) * UnitsPerCluster
<1>0. PICK m \in Nat \ {0} : \E q \in 0 .. m - 1 :
        /\ first_c # 0 /\ Ends(fat, first_c, m) /\ Nth(first_c, q) = c
        /\ rest # << >> => q + left = pos \div UnitsPerCluster
        /\ rest = << >> => left = 0 /\ pos <= (q + 1) * UnitsPerCluster
  BY DEF InPlace, Writing
<1>1. PICK q \in 0 .. m - 1 :
        /\ first_c # 0 /\ Ends(fat, first_c, m) /\ Nth(first_c, q) = c
        /\ rest # << >> => q + left = pos \div UnitsPerCluster
        /\ rest = << >> => left = 0 /\ pos <= (q + 1) * UnitsPerCluster
  BY <1>0
<1>2. Met(fat, first_c, q) = c /\ m \in Nat /\ q \in Nat
  BY <1>1 DEF Nth, Met
<1>3. first_c \in Cluster /\ c \in ChainOf(first_c) /\ c \in Cluster
  BY <1>1, <1>2, MetInChain
<1>. QED  BY <1>1, <1>2, <1>3

\* Every cluster of that chain is the file's own or no one's.
LEMMA WriteChain ==
  ASSUME InPlace, pc \in {"at_walk", "at_link", "at_seal"}, first_c # 0, NEW x \in ChainOf(first_c)
  PROVE  /\ slot \in Used /\ first_c \in Cluster /\ x \in Cluster
         /\ x \notin ChainOf(Root)
         /\ \/ dir[slot].first = first_c /\ x \in Reachable
            \/ dir[slot].first = 0 /\ x \notin Reachable
         /\ fat[x] = FREE => x = cur /\ pc = "at_seal"
<1>1. /\ DiskOK /\ NoCrossLinks /\ slot \in Used
      /\ first_c \in Cluster
      /\ dir[slot].first # 0 => first_c = dir[slot].first
      /\ dir[slot].first = 0 => /\ ChainOf(first_c) \cap Reachable = {}
                                /\ fat[x] = FREE => x = cur /\ pc = "at_seal"
      /\ \A y \in Reachable : fat[y] = FREE => y = cur /\ pc \in {"ap_seal", "at_seal"}
  BY DEF InPlace, Sound, Asking, OwnWrite, WritePC
<1>2. x \in Cluster
  BY <1>1, ChainBasics DEF ChainOf
<1>3. CASE dir[slot].first # 0
  BY <1>1, <1>2, <1>3, LiveChain
<1>4. CASE dir[slot].first = 0
  <2>1. ChainOf(Root) \subseteq Reachable
    BY DEF Reachable, Heads
  <2>. QED  BY <1>1, <1>2, <1>4, <2>1
<1>. QED  BY <1>3, <1>4

LEMMA AtFindStep == ASSUME PInv, AtFind PROVE PInv'
<1>1. PICK k \in Slots : /\ Lookup(req.name, k) /\ slot' = k
                         /\ first_c' = dir[k].first /\ c' = dir[k].first
                         /\ left' = (pos \div UnitsPerCluster) + (IF dir[k].first = 0 THEN 1 ELSE 0)
  BY DEF AtFind
<1>2. /\ pc = "write_at" /\ pc' = "at_walk" /\ fat' = fat /\ dir' = dir /\ data' = data
      /\ UNCHANGED <<req, rest, cur, pos>>
  BY DEF AtFind, disk
<1>3. Sound /\ Asking /\ DirLong /\ Whole
  BY <1>2, SoundWhole DEF PInv, InPlace, VolumePC
<1>4. /\ k \in Used /\ dir[k].name = req.name
      /\ dir[k].first \in Cluster \cup {0} /\ dir[k].size \in Nat
  BY <1>1, <1>3, FoundSlot DEF Sound, Asking
<1>5. Whole' /\ DirLong' /\ Used' = Used /\ data' \in [Cluster -> Buffer]
  <2>1. data' \in [Cluster -> Buffer]
    BY <1>2, <1>3 DEF Sound, DiskOK
  <2>. QED  BY <1>2, <1>3, <2>1, SameWhole
<1>6. pos \in Nat /\ pos \div UnitsPerCluster \in Nat /\ rest # << >>
  <2>1. pos \in Nat /\ rest # << >>
    BY <1>2, <1>3 DEF Asking
  <2>. QED  BY <2>1, ConstantFacts, Quotient
<1>7. Sound'
  BY <1>5 DEF Whole, Sound
<1>8. Asking'
  <2>1. left' \in Nat
    BY <1>1, <1>6
  <2>. QED  BY <1>1, <1>2, <1>3, <1>4, <1>5, <2>1 DEF Asking, AppendPC
<1>9. OwnWrite'
  BY <1>1, <1>2, <1>4 DEF OwnWrite, WritePC
<1>10. Writing'
  <2>1. CASE dir[k].first = 0
    BY <1>1, <1>2, <1>6, <2>1 DEF Writing
  <2>2. CASE dir[k].first # 0
    <3>1. PICK m \in Nat : Ends(fat, dir[k].first, m)
      BY <1>3, <1>4 DEF DirLong, Long
    <3>2. m \in Nat \ {0} /\ 0 \in 0 .. m - 1
      <4>1. dir[k].first \in Cluster
        BY <1>4, <2>2
      <4>2. m # 0
        BY <3>1, <4>1, EndsNone
      <4>. QED  BY <4>2
    <3>3. Nth(first_c, 0)' = c'
      BY <1>1, WalkZero DEF Nth
    <3>4. 0 + left' = pos' \div UnitsPerCluster
      BY <1>1, <1>2, <1>6, <2>2
    <3>. QED  BY <1>1, <1>2, <1>6, <2>2, <3>1, <3>2, <3>3, <3>4 DEF Writing
  <2>. QED  BY <2>1, <2>2
<1>11. Appending'
  BY <1>2 DEF Appending, AppendPC
<1>. QED  BY <1>2, <1>5, <1>7, <1>8, <1>9, <1>10, <1>11 DEF PInv, InPlace, VolumePC, WritePC

LEMMA AtFollowStep == ASSUME PInv, AtFollow PROVE PInv'
<1>1. /\ pc = "at_walk" /\ left > 0 /\ c \in Cluster /\ fat[c] \in Cluster
      /\ c' = fat[c] /\ left' = left - 1 /\ pc' = pc
      /\ fat' = fat /\ dir' = dir /\ data' = data
      /\ UNCHANGED <<req, rest, first_c, cur, slot, pos>>
  BY DEF AtFollow, disk
<1>2. InPlace /\ Sound /\ Asking /\ OwnWrite /\ DirLong /\ Whole
  BY <1>1, SoundWhole DEF PInv, InPlace, VolumePC
<1>0. PICK m \in Nat \ {0} : \E q \in 0 .. m - 1 :
        /\ first_c \in Cluster /\ Ends(fat, first_c, m) /\ Met(fat, first_c, q) = c
        /\ rest # << >> => q + left = pos \div UnitsPerCluster
        /\ rest = << >> => left = 0
  BY <1>1, <1>2, ConstantFacts, WriteCursor
<1>3. PICK q \in 0 .. m - 1 :
        /\ first_c \in Cluster /\ Ends(fat, first_c, m) /\ Met(fat, first_c, q) = c
        /\ rest # << >> => q + left = pos \div UnitsPerCluster
        /\ rest = << >> => left = 0
  BY <1>0
<1>4. Whole' /\ DirLong' /\ Used' = Used /\ Reachable' = Reachable /\ \A h : ChainOf(h)' = ChainOf(h)
  <2>1. data' \in [Cluster -> Buffer]
    BY <1>1, <1>2 DEF Sound, DiskOK
  <2>. QED  BY <1>1, <1>2, <2>1, SameWhole
<1>5. Sound'
  BY <1>4 DEF Whole, Sound
<1>6. left \in Nat /\ left' \in Nat /\ rest # << >> /\ pos \in Nat
  BY <1>1, <1>2, <1>3 DEF Asking
<1>7. Asking'
  BY <1>1, <1>2, <1>4, <1>6 DEF Asking, AppendPC
<1>8. OwnWrite'
  BY <1>1, <1>2, <1>4 DEF OwnWrite, WritePC
<1>9. Writing'
  <2>1. m \in Nat /\ q \in Nat
    OBVIOUS
  <2>2. q # m - 1
    BY <1>1, <1>3, EndsLast
  <2>3. q + 1 \in 0 .. m - 1
    BY <2>2
  <2>4. Met(fat, first_c, q + 1) = fat[c]
    BY <1>3, <2>1, EndsSteps
  <2>5. Nth(first_c, q + 1)' = c'
    BY <1>1, <2>4 DEF Nth, Met
  <2>6. q + 1 + left' = pos' \div UnitsPerCluster
    BY <1>1, <1>3, <1>6, <2>1
  <2>7. first_c' # 0 /\ Ends(fat', first_c', m) /\ rest' # << >>
    BY <1>1, <1>3, <1>6, ConstantFacts
  <2>. QED  BY <1>1, <2>3, <2>5, <2>6, <2>7 DEF Writing
<1>10. Appending'
  BY <1>1 DEF Appending, AppendPC
<1>. QED  BY <1>1, <1>4, <1>5, <1>7, <1>8, <1>9, <1>10 DEF PInv, InPlace, VolumePC, WritePC

\* A write that has found no cluster yet.
LEMMA WriteStart ==
  ASSUME InPlace, pc = "at_walk", c = 0
  PROVE  /\ first_c = 0 /\ rest # << >> /\ left = (pos \div UnitsPerCluster) + 1
         /\ dir[slot].first = 0
<1>1. ASSUME NEW m \in Nat \ {0}, NEW q \in 0 .. m - 1, Ends(fat, first_c, m), Nth(first_c, q) = c
      PROVE  FALSE
  <2>1. Met(fat, first_c, q) \in Cluster /\ m \in Nat
    BY <1>1 DEF Ends, Met
  <2>. QED  BY <1>1, <2>1, ConstantFacts DEF Nth, Met
<1>2. first_c = 0 /\ rest # << >> /\ left = (pos \div UnitsPerCluster) + 1
  BY <1>1 DEF InPlace, Writing
<1>. QED  BY <1>2 DEF InPlace, OwnWrite, WritePC

\* A free cluster is a chain of its own.
LEMMA AloneChain ==
  ASSUME NEW x \in Cluster, fat[x] \notin Cluster
  PROVE  ChainOf(x) = {x} /\ Ends(fat, x, 1) /\ Nth(x, 0) = x
<1>1. Chain(Cluster, fat, x) \subseteq {x}
  <2>1. {x} \in SUBSET Cluster /\ x \in {x} /\ \A y \in {x} : fat[y] \in Cluster => fat[y] \in {x}
    OBVIOUS
  <2>. QED  BY <2>1, ChainLeast
<1>2. x \in Chain(Cluster, fat, x)
  BY ChainBasics
<1>3. Met(fat, x, 0) = x
  BY WalkZero DEF Met
<1>4. Met(fat, x, 0 + 1) = IF Met(fat, x, 0) \in Cluster THEN fat[Met(fat, x, 0)] ELSE EOC
  BY WalkNext DEF Met
<1>5. Met(fat, x, 1) \notin Cluster
  BY <1>3, <1>4
<1>. QED  BY <1>1, <1>2, <1>3, <1>5 DEF ChainOf, Ends, Met, Nth

LEMMA AtExtendStep == ASSUME PInv, AtExtend PROVE PInv'
<1>1. PICK x \in Cluster : /\ FirstFree(x) /\ cur' = x
                           /\ data' = [data EXCEPT ![x] = Zeroed] \/ data' = data
                           /\ first_c' = IF c = 0 THEN x ELSE first_c
  BY DEF AtExtend
<1>2. /\ pc = "at_walk" /\ left > 0 /\ fat' = fat /\ dir' = dir
      /\ c \in Cluster => fat[c] \notin Cluster
      /\ pc' = IF c = 0 THEN "at_seal" ELSE "at_link"
      /\ UNCHANGED <<req, rest, c, slot, pos, left>>
  BY DEF AtExtend, more
<1>3. InPlace /\ Sound /\ Asking /\ OwnWrite /\ DirLong /\ Whole
  BY <1>2, SoundWhole DEF PInv, InPlace, VolumePC
<1>4. fat[x] = FREE /\ x \notin Reachable /\ fat[x] \notin Cluster
  <2>1. fat[x] = FREE
    BY <1>1 DEF FirstFree, FreeClusters
  <2>. QED  BY <1>3, <2>1, ConstantFacts DEF Whole, FREE
<1>5. data' \in [Cluster -> Buffer]
  <2>1. Zeroed \in Buffer /\ data \in [Cluster -> Buffer]
    <3>1. << >> \in Seq(Unit)
      OBVIOUS
    <3>. QED  BY <1>3, <3>1, FilledType DEF Sound, DiskOK, Zeroed
  <2>. QED  BY <1>1, <2>1
<1>6. Whole' /\ DirLong' /\ Used' = Used /\ Reachable' = Reachable /\ \A h : ChainOf(h)' = ChainOf(h)
  BY <1>2, <1>3, <1>5, SameWhole
<1>7. Sound'
  BY <1>6 DEF Whole, Sound
<1>8. Asking'
  BY <1>2, <1>3, <1>6 DEF Asking, AppendPC
<1>9. CASE c = 0
  <2>1. /\ first_c' = x /\ pc' = "at_seal" /\ rest # << >> /\ dir[slot].first = 0
        /\ left = (pos \div UnitsPerCluster) + 1
    BY <1>1, <1>2, <1>3, <1>9, WriteStart
  <2>2. ChainOf(x) = {x} /\ LastAt(x, 1, x)
    BY <1>4, AloneChain DEF LastAt
  <2>3. OwnWrite'
    BY <1>1, <1>2, <1>4, <1>6, <2>1, <2>2 DEF OwnWrite, WritePC
  <2>4. Writing'
    <3>1. LastAt(first_c, 1, cur)'
      BY <1>1, <1>2, <2>1, <2>2 DEF LastAt, Nth
    <3>2. pos \div UnitsPerCluster \in Nat
      BY <1>3, ConstantFacts, Quotient DEF Asking
    <3>3. 1 - 2 + left' = pos' \div UnitsPerCluster
      BY <1>2, <2>1, <3>2
    <3>. QED  BY <1>1, <1>2, <1>4, <2>1, <3>1, <3>3, ConstantFacts DEF Writing
  <2>5. Appending'
    BY <2>1 DEF Appending, AppendPC
  <2>. QED  BY <1>6, <1>7, <1>8, <2>1, <2>3, <2>4, <2>5 DEF PInv, InPlace, VolumePC, WritePC
<1>10. CASE c # 0
  <2>0. PICK m \in Nat \ {0} : \E q \in 0 .. m - 1 :
          /\ first_c \in Cluster /\ Ends(fat, first_c, m) /\ Met(fat, first_c, q) = c
          /\ c \in Cluster
          /\ rest # << >> => q + left = pos \div UnitsPerCluster
          /\ rest = << >> => left = 0
    BY <1>2, <1>3, <1>10, WriteCursor
  <2>1. PICK q \in 0 .. m - 1 :
          /\ first_c \in Cluster /\ Ends(fat, first_c, m) /\ Met(fat, first_c, q) = c
          /\ c \in Cluster
          /\ rest # << >> => q + left = pos \div UnitsPerCluster
          /\ rest = << >> => left = 0
    BY <2>0
  <2>2. first_c' = first_c /\ pc' = "at_link" /\ rest # << >>
    BY <1>1, <1>2, <1>10, <2>1
  <2>3. q = m - 1
    BY <1>2, <2>1, EndsLast
  <2>4. OwnWrite'
    BY <1>2, <1>3, <1>6, <2>2 DEF OwnWrite, WritePC
  <2>5. Writing'
    <3>1. LastAt(first_c, m, c)'
      BY <1>2, <2>1, <2>2, <2>3 DEF LastAt, Nth, Met
    <3>2. m - 1 + left' = pos' \div UnitsPerCluster
      BY <1>2, <2>1, <2>2, <2>3
    <3>3. first_c' # 0
      BY <2>1, <2>2, ConstantFacts
    <3>. QED  BY <1>1, <1>2, <1>4, <1>6, <2>2, <3>1, <3>2, <3>3 DEF Writing
  <2>6. Appending'
    BY <2>2 DEF Appending, AppendPC
  <2>. QED  BY <1>6, <1>7, <1>8, <2>2, <2>4, <2>5, <2>6 DEF PInv, InPlace, VolumePC, WritePC
<1>. QED  BY <1>9, <1>10

LEMMA AtLinkStep == ASSUME PInv, AtLink PROVE PInv'
<1>1. /\ pc = "at_link" /\ pc' = "at_seal" /\ fat' = [fat EXCEPT ![c] = cur]
      /\ UNCHANGED <<data, dir, req, rest, first_c, cur, c, slot, pos, left>>
  BY DEF AtLink, more, locals
<1>2. InPlace /\ Sound /\ Asking /\ OwnWrite /\ Writing /\ DirLong /\ Whole
  BY <1>1, SoundWhole DEF PInv, InPlace, VolumePC
<1>3. /\ first_c # 0 /\ cur \in Cluster /\ fat[cur] = FREE /\ rest # << >> /\ left > 0
      /\ cur \notin Reachable
  BY <1>1, <1>2 DEF Writing
<1>4. PICK m \in Nat \ {0} : /\ LastAt(first_c, m, c)
                             /\ m - 1 + left = pos \div UnitsPerCluster
  BY <1>1, <1>2 DEF Writing
<1>5. Ends(fat, first_c, m) /\ c = Met(fat, first_c, m - 1) /\ m \in Nat /\ m - 1 \in 0 .. m - 1
  BY <1>4 DEF LastAt, Nth, Met
<1>6. c \in ChainOf(first_c) /\ fat[c] \notin Cluster /\ first_c \in Cluster
  BY <1>5, MetInChain, EndsLast
<1>7. /\ c \in Cluster /\ c \notin ChainOf(Root) /\ c # cur
      /\ dir[slot].first = 0 => c \notin Reachable
  BY <1>1, <1>2, <1>3, <1>6, WriteChain
<1>8. DiskOK /\ NoCrossLinks /\ fat \in [Cluster -> Cluster \cup {FREE, EOC}] /\ fat[cur] \notin Cluster
  BY <1>2, <1>3, ConstantFacts DEF Sound, DiskOK, FREE
<1>9. /\ NoCrossLinks' /\ Reachable' \subseteq Reachable \cup {cur}
      /\ c \notin Reachable => Reachable' = Reachable
  BY <1>1, <1>3, <1>6, <1>7, <1>8, GrowSound
<1>10. /\ DirLong' /\ DiskOK'
       /\ ChainOf(first_c)' \subseteq ChainOf(first_c) \cup {cur}
  <2>1. DirLong'
    BY <1>1, <1>2, <1>3, <1>6, <1>7, <1>8, DirLongGrow
  <2>2. /\ fat' \in [Cluster -> Cluster \cup {FREE, EOC}]
        /\ Chain(Cluster, fat', first_c) \subseteq Chain(Cluster, fat, first_c) \cup {cur}
    BY <1>1, <1>3, <1>6, <1>7, <1>8, GrowChains DEF ChainOf
  <2>. QED  BY <1>1, <1>8, <2>1, <2>2 DEF DiskOK, ChainOf
<1>11. fat'[c] = cur /\ cur # FREE /\ \A y \in Cluster : y # c => fat'[y] = fat[y]
  BY <1>1, <1>3, <1>7, <1>8, ConstantFacts DEF FREE
<1>12. Sound'
  <2>1. \A y \in Reachable' : fat'[y] = FREE => y = cur
    <3>. SUFFICES ASSUME NEW y \in Reachable', fat'[y] = FREE, y # cur PROVE FALSE
      OBVIOUS
    <3>1. y \in Reachable /\ fat[y] # FREE
      BY <1>2, <1>9 DEF Whole
    <3>2. fat'[y] = fat[y] \/ fat'[y] = cur
      BY <1>1, <1>7, <1>8
    <3>. QED  BY <1>11, <3>1, <3>2
  <2>. QED  BY <1>1, <1>2, <1>9, <1>10, <2>1, SameDirectory DEF Sound
<1>13. Asking'
  BY <1>1, <1>2, SameDirectory DEF Asking, AppendPC
<1>14. OwnWrite'
  <2>1. ASSUME dir[slot].first = 0
        PROVE  /\ ChainOf(first_c)' \cap Reachable' = {}
               /\ \A y \in ChainOf(first_c)' : fat'[y] = FREE => y = cur
    <3>1. ChainOf(first_c) \cap Reachable = {} /\ \A y \in ChainOf(first_c) : fat[y] # FREE
      BY <1>1, <1>2, <1>3, <2>1 DEF OwnWrite, WritePC
    <3>2. \A y \in ChainOf(first_c) : fat'[y] = fat[y] \/ fat'[y] = cur
      BY <1>1, <1>7, <1>8
    <3>. QED  BY <1>3, <1>7, <1>9, <1>10, <1>11, <2>1, <3>1, <3>2
  <2>2. dir[slot].first # 0 => first_c = dir[slot].first
    BY <1>1, <1>2 DEF OwnWrite, WritePC
  <2>4. (ChainOf(first_c))' = Chain(Cluster, fat', first_c) /\ first_c' = first_c
    BY <1>1 DEF ChainOf
  <2>. QED  BY <1>1, <1>6, <2>1, <2>2, <2>4 DEF OwnWrite, ChainOf
<1>15. Writing'
  <2>1. Ends(fat', first_c, m + 1) /\ Met(fat', first_c, m) = cur
    <3>1. fat'[c] = cur /\ cur \in Cluster /\ cur # c /\ fat[cur] \notin Cluster
          /\ \A y \in Cluster : y # c => fat'[y] = fat[y]
      BY <1>3, <1>7, <1>8, <1>11
    <3>. QED  BY <1>5, <3>1, EndsGrow
  <2>2. m + 1 \in Nat \ {0} /\ m + 1 - 1 = m
    OBVIOUS
  <2>3. LastAt(first_c, m + 1, cur)'
    BY <1>1, <2>1, <2>2 DEF LastAt, Nth, Met
  <2>4. left \in Nat /\ pos \div UnitsPerCluster \in Nat
    BY <1>2, ConstantFacts, Quotient DEF Asking
  <2>5. m + 1 - 2 + left' = pos' \div UnitsPerCluster
    BY <1>1, <1>4, <2>4
  <2>6. fat'[cur'] = FREE
    BY <1>1, <1>3, <1>7, <1>11
  <2>. QED  BY <1>1, <1>3, <2>2, <2>3, <2>5, <2>6 DEF Writing
<1>16. Appending'
  BY <1>1 DEF Appending, AppendPC
<1>. QED  BY <1>1, <1>10, <1>12, <1>13, <1>14, <1>15, <1>16 DEF PInv, InPlace, VolumePC, WritePC

LEMMA AtSealStep == ASSUME PInv, AtSeal PROVE PInv'
<1>1. /\ pc = "at_seal" /\ pc' = "at_walk" /\ fat' = [fat EXCEPT ![cur] = EOC]
      /\ c' = cur /\ left' = left - 1
      /\ UNCHANGED <<data, dir, req, rest, first_c, cur, slot, pos>>
  BY DEF AtSeal
<1>2. InPlace /\ Sound /\ Asking /\ OwnWrite /\ Writing /\ DirLong
  BY <1>1 DEF PInv, InPlace, VolumePC
<1>3. /\ first_c # 0 /\ cur \in Cluster /\ rest # << >> /\ left > 0
  BY <1>1, <1>2 DEF Writing
<1>4. PICK m \in Nat \ {0} : /\ LastAt(first_c, m, cur)
                             /\ m - 2 + left = pos \div UnitsPerCluster
  BY <1>1, <1>2 DEF Writing
<1>5. Ends(fat, first_c, m) /\ cur = Met(fat, first_c, m - 1) /\ m \in Nat /\ m - 1 \in 0 .. m - 1
  BY <1>4 DEF LastAt, Nth, Met
<1>6. fat[cur] \notin Cluster /\ first_c \in Cluster /\ EOC \in {FREE, EOC}
  BY <1>5, MetInChain, EndsLast
<1>7. DiskOK /\ NoCrossLinks /\ fat \in [Cluster -> Cluster \cup {FREE, EOC}]
  BY <1>2 DEF Sound, DiskOK
<1>8. NoCrossLinks' /\ Reachable' = Reachable
  BY <1>1, <1>3, <1>6, <1>7, MarkSound
<1>9. DirLong' /\ DiskOK' /\ Chain(Cluster, fat', first_c) = ChainOf(first_c)
  <2>1. DirLong'
    BY <1>1, <1>2, <1>3, <1>6, <1>7, DirLongMark
  <2>2. /\ fat' \in [Cluster -> Cluster \cup {FREE, EOC}]
        /\ Chain(Cluster, fat', first_c) = Chain(Cluster, fat, first_c)
    BY <1>1, <1>3, <1>6, <1>7, MarkChains DEF ChainOf
  <2>. QED  BY <1>1, <1>7, <2>1, <2>2 DEF DiskOK, ChainOf
<1>10. fat'[cur] = EOC /\ \A y \in Cluster : y # cur => fat'[y] = fat[y]
  BY <1>1, <1>3, <1>7
<1>11. Sound'
  <2>1. \A y \in Reachable : fat'[y] # FREE
    <3>. SUFFICES ASSUME NEW y \in Reachable, y # cur PROVE fat'[y] # FREE
      BY <1>10, ConstantFacts
    <3>1. y \in Cluster
      BY <1>7, HeadChain DEF Reachable
    <3>. QED  BY <1>2, <1>10, <3>1 DEF Sound
  <2>. QED  BY <1>1, <1>2, <1>8, <1>9, <2>1, SameDirectory DEF Sound
<1>12. left' \in Nat
  BY <1>1, <1>2, <1>3 DEF Asking
<1>13. Asking'
  BY <1>1, <1>2, <1>12, SameDirectory DEF Asking, AppendPC
<1>14. OwnWrite'
  <2>1. ASSUME dir[slot].first = 0
        PROVE  /\ ChainOf(first_c) \cap Reachable' = {}
               /\ \A y \in ChainOf(first_c) : fat'[y] # FREE
    <3>1. /\ ChainOf(first_c) \cap Reachable = {}
          /\ \A y \in ChainOf(first_c) : fat[y] = FREE => y = cur
      BY <1>1, <1>2, <1>3, <2>1 DEF OwnWrite, WritePC
    <3>2. ChainOf(first_c) \subseteq Cluster
      BY <1>6, ChainBasics DEF ChainOf
    <3>. QED  BY <1>8, <1>10, <3>1, <3>2, ConstantFacts
  <2>2. dir[slot].first # 0 => first_c = dir[slot].first
    BY <1>1, <1>2 DEF OwnWrite, WritePC
  <2>. QED  BY <1>1, <1>6, <1>9, <2>1, <2>2 DEF OwnWrite, ChainOf
<1>15. Writing'
  <2>1. Ends(fat', first_c, m) /\ Met(fat', first_c, m - 1) = cur
    <3>1. fat'[cur] \notin Cluster
      BY <1>10, ConstantFacts
    <3>2. Ends(fat', first_c, m) /\ \A q \in 0 .. m - 1 : Met(fat', first_c, q) = Met(fat, first_c, q)
      BY <1>3, <1>5, <1>6, <1>10, <3>1, EndsMark
    <3>. QED  BY <1>5, <3>2
  <2>2. Nth(first_c, m - 1)' = c'
    BY <1>1, <2>1 DEF Nth, Met
  <2>3. left \in Nat /\ pos \div UnitsPerCluster \in Nat
    <3>1. left \in Nat /\ pos \in Nat
      BY <1>2 DEF Asking
    <3>2. UnitsPerCluster \in Nat /\ UnitsPerCluster > 0
      BY ConstantFacts
    <3>. QED  BY <3>1, <3>2, Quotient
  <2>4. m - 1 + left' = pos' \div UnitsPerCluster
    BY <1>1, <1>4, <2>3
  <2>. QED  BY <1>1, <1>3, <1>5, <2>1, <2>2, <2>4 DEF Writing
<1>16. Appending'
  BY <1>1 DEF Appending, AppendPC
<1>. QED  BY <1>1, <1>9, <1>11, <1>13, <1>14, <1>15, <1>16 DEF PInv, InPlace, VolumePC, WritePC

\* What one write to a cluster does, in the terms of its walk.
LEMMA AtWriteFacts ==
  ASSUME InPlace, AtWrite
  PROVE  LET off == pos % UnitsPerCluster
             chunk == Smaller(Len(rest), UnitsPerCluster - off)
             q == pos \div UnitsPerCluster
         IN /\ first_c \in Cluster /\ c \in ChainOf(first_c) /\ c \in Cluster /\ c = Met(fat, first_c, q)
            /\ \E m \in Nat \ {0} : q \in 0 .. m - 1 /\ Ends(fat, first_c, m)
            /\ off \in 0 .. UnitsPerCluster - 1 /\ q \in Nat /\ pos = q * UnitsPerCluster + off
            /\ chunk \in Nat /\ chunk > 0 /\ chunk <= Len(rest) /\ chunk <= UnitsPerCluster - off
            /\ data' = [data EXCEPT ![c] = Over(data[c], off, rest)]
            /\ rest' = After(rest, chunk) /\ rest' \in Seq(Unit) /\ Len(rest') = Len(rest) - chunk
            /\ pos' = pos + chunk /\ pos' \in Nat /\ pos' <= (q + 1) * UnitsPerCluster
            /\ left' = IF rest' = << >> THEN 0 ELSE 1
            /\ rest' # << >> => /\ pos' \div UnitsPerCluster = q + 1
                                /\ chunk = UnitsPerCluster - off
            /\ rest' = << >> => chunk = Len(rest)
<1> DEFINE U == UnitsPerCluster
           off == pos % U
           chunk == Smaller(Len(rest), U - off)
           q == pos \div U
<1>1. /\ pc = "at_walk" /\ left = 0 /\ rest # << >> /\ pos \in Nat /\ rest \in Seq(Unit)
      /\ data' = [data EXCEPT ![c] = Over(data[c], off, rest)]
      /\ rest' = After(rest, chunk) /\ pos' = pos + chunk
      /\ left' = IF After(rest, chunk) = << >> THEN 0 ELSE 1
  BY DEF AtWrite, InPlace, Asking
<1>2. c # 0
  <2>1. pos \div U \in Nat
    BY <1>1, ConstantFacts, Quotient
  <2>. QED  BY <1>1, <2>1, WriteStart
<1>3. PICK m \in Nat \ {0} : \E i \in 0 .. m - 1 :
        /\ first_c \in Cluster /\ Ends(fat, first_c, m) /\ Met(fat, first_c, i) = c /\ i \in Nat
        /\ c \in Cluster /\ c \in ChainOf(first_c)
        /\ rest # << >> => i + left = pos \div UnitsPerCluster
  BY <1>1, <1>2, WriteCursor
<1>4. PICK i \in 0 .. m - 1 :
        /\ first_c \in Cluster /\ Ends(fat, first_c, m) /\ Met(fat, first_c, i) = c /\ i \in Nat
        /\ c \in Cluster /\ c \in ChainOf(first_c)
        /\ rest # << >> => i + left = pos \div UnitsPerCluster
  BY <1>3
<1>5. i = q
  BY <1>1, <1>4
<1>6. Len(rest) \in Nat /\ Len(rest) > 0
  BY <1>1
<1>7. /\ q \in Nat /\ off \in 0 .. U - 1 /\ pos = q * U + off
      /\ chunk \in Nat /\ chunk > 0 /\ chunk <= Len(rest) /\ chunk <= U - off
      /\ pos + chunk \in Nat /\ pos + chunk <= (q + 1) * U
      /\ chunk < Len(rest) => chunk = U - off /\ (pos + chunk) \div U = q + 1
  BY <1>1, <1>6, ChunkFacts
<1>. HIDE DEF off, chunk, q
<1>8. /\ rest' \in Seq(Unit)
      /\ Len(rest') = IF chunk >= Len(rest) THEN 0 ELSE Len(rest) - chunk
  BY <1>1, <1>7, AfterFacts
<1>9. /\ Len(rest') = Len(rest) - chunk
      /\ rest' # << >> => chunk < Len(rest)
      /\ rest' = << >> => chunk = Len(rest)
  BY <1>6, <1>7, <1>8
<1>10. /\ rest' # << >> => pos' \div U = q + 1 /\ chunk = U - off
       /\ pos' \in Nat /\ pos' <= (q + 1) * U
       /\ left' = IF rest' = << >> THEN 0 ELSE 1
  BY <1>1, <1>7, <1>9
<1>. QED  BY <1>1, <1>4, <1>5, <1>7, <1>8, <1>9, <1>10 DEF off, chunk, q

LEMMA AtWriteStep == ASSUME PInv, AtWrite PROVE PInv'
<1> DEFINE off == pos % UnitsPerCluster
           chunk == Smaller(Len(rest), UnitsPerCluster - off)
<1>0. PICK q : q = pos \div UnitsPerCluster
  OBVIOUS
<1>1. /\ pc = "at_walk" /\ pc' = pc /\ fat' = fat /\ dir' = dir
      /\ UNCHANGED <<req, first_c, cur, c, slot>>
  BY DEF AtWrite
<1>2. InPlace /\ Sound /\ Asking /\ OwnWrite /\ DirLong /\ Whole
  BY <1>1, SoundWhole DEF PInv, InPlace, VolumePC
<1>3. /\ first_c \in Cluster /\ c \in Cluster /\ c = Met(fat, first_c, q)
      /\ \E m \in Nat \ {0} : q \in 0 .. m - 1 /\ Ends(fat, first_c, m)
      /\ off \in 0 .. UnitsPerCluster - 1 /\ q \in Nat
      /\ chunk \in Nat /\ chunk > 0 /\ chunk <= Len(rest)
      /\ data' = [data EXCEPT ![c] = Over(data[c], off, rest)]
      /\ rest' \in Seq(Unit) /\ Len(rest') = Len(rest) - chunk
      /\ pos' \in Nat /\ pos' <= (q + 1) * UnitsPerCluster
      /\ left' = IF rest' = << >> THEN 0 ELSE 1
      /\ rest' # << >> => pos' \div UnitsPerCluster = q + 1
  BY <1>0, <1>2, AtWriteFacts
<1>. HIDE DEF chunk, off
<1>4. data' \in [Cluster -> Buffer]
  <2>1. data \in [Cluster -> Buffer] /\ data[c] \in Buffer /\ off \in Nat /\ rest \in Seq(Unit)
    BY <1>2, <1>3, ConstantFacts DEF Sound, DiskOK, Asking
  <2>2. Over(data[c], off, rest) \in Buffer
    BY <2>1, OverType
  <2>. QED  BY <1>3, <2>1, <2>2
<1>5. Whole' /\ DirLong' /\ Used' = Used /\ Reachable' = Reachable /\ \A h : ChainOf(h)' = ChainOf(h)
  BY <1>1, <1>2, <1>4, SameWhole
<1>6. Sound'
  BY <1>5 DEF Whole, Sound
<1>7. Asking'
  <2>1. left' \in Nat
    BY <1>3
  <2>2. Len(rest') <= Len(req.arg)
    <3>1. Len(rest) \in Nat /\ Len(req.arg) \in Nat /\ Len(rest) <= Len(req.arg)
      BY <1>2 DEF Asking
    <3>. QED  BY <1>3, <3>1
  <2>. QED  BY <1>1, <1>2, <1>3, <1>5, <2>1, <2>2 DEF Asking, AppendPC
<1>8. OwnWrite'
  BY <1>1, <1>2, <1>5 DEF OwnWrite, WritePC
<1>9. Writing'
  <2>1. PICK m \in Nat \ {0} : q \in 0 .. m - 1 /\ Ends(fat, first_c, m)
    BY <1>3
  <2>2. Nth(first_c, q)' = c' /\ Ends(fat', first_c', m) /\ first_c' # 0
    BY <1>1, <1>3, <2>1, ConstantFacts DEF Nth, Met
  <2>3. rest' # << >> => q + left' = pos' \div UnitsPerCluster
    BY <1>3
  <2>4. rest' = << >> => left' = 0 /\ pos' <= (q + 1) * UnitsPerCluster
    BY <1>3
  <2>. QED  BY <1>1, <2>1, <2>2, <2>3, <2>4 DEF Writing
<1>10. Appending'
  BY <1>1 DEF Appending, AppendPC
<1>. QED  BY <1>1, <1>5, <1>6, <1>7, <1>8, <1>9, <1>10 DEF PInv, InPlace, VolumePC, WritePC

LEMMA AtEntryStep == ASSUME PInv, AtEntry PROVE PInv'
<1>1. /\ pc = "at_walk" /\ left = 0 /\ rest = << >> /\ fat' = fat /\ data' = data
      /\ InPlaceReturn("SUCCESS")
      /\ \/ dir' = [dir EXCEPT ![slot].size = Larger(@, pos), ![slot].first = first_c]
         \/ dir' = dir
  BY DEF AtEntry
<1>2. CASE dir' = dir
  BY <1>1, <1>2, GiveUp DEF disk, WritePC
<1>3. CASE dir' = [dir EXCEPT ![slot].size = Larger(@, pos), ![slot].first = first_c]
  <2>1. InPlace /\ Sound /\ Asking /\ OwnWrite /\ DirLong /\ Whole
    BY <1>1, SoundWhole DEF PInv, InPlace, VolumePC
  <2>2. /\ slot \in Used /\ slot \in Slots /\ dir[slot] \in Slot
        /\ dir[slot].size \in Nat /\ pos \in Nat
    BY <1>1, <2>1, UsedSlot DEF Asking, AppendPC, Sound
  <2>3. c # 0
    BY <1>1, <2>1, WriteStart
  <2>4. PICK m \in Nat \ {0} : \E q \in 0 .. m - 1 :
          /\ first_c \in Cluster /\ Ends(fat, first_c, m) /\ q \in Nat
          /\ c \in ChainOf(first_c)
          /\ rest = << >> => left = 0 /\ pos <= (q + 1) * UnitsPerCluster
    BY <1>1, <2>1, <2>3, WriteCursor
  <2>5. PICK q \in 0 .. m - 1 :
          /\ first_c \in Cluster /\ Ends(fat, first_c, m) /\ q \in Nat
          /\ pos <= (q + 1) * UnitsPerCluster
    BY <1>1, <2>4
  <2> DEFINE n == Larger(dir[slot].size, pos)
             e == [dir[slot] EXCEPT !.size = n, !.first = first_c]
  <2>6. n \in Nat /\ (n = dir[slot].size \/ n = pos) /\ (dir[slot].size = 0 => n = pos)
    BY <2>2 DEF Larger
  <2>7. Long(fat, first_c, pos)
    <3>1. q + 1 \in Nat /\ m \in Nat /\ q + 1 <= m
      BY <2>5
    <3>2. (q + 1) * UnitsPerCluster <= m * UnitsPerCluster /\ m * UnitsPerCluster \in Nat
          /\ (q + 1) * UnitsPerCluster \in Nat
      BY <3>1, ConstantFacts, Product
    <3> DEFINE r == (q + 1) * UnitsPerCluster
               s == m * UnitsPerCluster
    <3>3. pos <= r /\ r <= s /\ r \in Nat /\ s \in Nat
      BY <2>5, <3>2
    <3>. HIDE DEF r, s
    <3>4. pos <= s
      BY <2>2, <3>3
    <3>. QED  BY <2>5, <3>1, <3>4 DEF Long, s
  <2>8. Long(fat, first_c, n)
    <3>1. CASE dir[slot].first # 0
      <4>1. first_c = dir[slot].first
        BY <1>1, <2>1, <3>1 DEF OwnWrite, WritePC
      <4>2. Long(fat, first_c, dir[slot].size)
        BY <2>1, <2>2, <4>1 DEF DirLong
      <4>. QED  BY <2>6, <2>7, <4>2
    <3>2. CASE dir[slot].first = 0
      <4>1. PICK i \in Nat : Ends(fat, dir[slot].first, i) /\ dir[slot].size <= i * UnitsPerCluster
        BY <2>1, <2>2 DEF DirLong, Long
      <4>2. i = 0
        BY <3>2, <4>1, ConstantFacts, EndsNone
      <4>3. dir[slot].size = 0
        BY <2>2, <4>1, <4>2, ConstantFacts
      <4>. QED  BY <2>6, <2>7, <4>3
    <3>. QED  BY <3>1, <3>2
  <2>9. \/ first_c = dir[slot].first
        \/ /\ dir[slot].first = 0 /\ ChainOf(first_c) \cap Reachable = {}
           /\ \A x \in ChainOf(first_c) : fat[x] # FREE
    BY <1>1, <2>1, <2>5, ConstantFacts DEF OwnWrite, WritePC
  <2>10. e \in Slot /\ e.name = dir[slot].name /\ e.size = n /\ e.first = first_c
         /\ dir' = [dir EXCEPT ![slot] = e]
    <3>1. first_c \in Cluster \cup {0}
      BY <2>5
    <3>2. e \in Slot /\ e.name = dir[slot].name /\ e.size = n /\ e.first = first_c
      BY <2>2, <2>6, <3>1 DEF Slot
    <3>3. dir' = [dir EXCEPT ![slot] = e]
      BY <1>3
    <3>. QED  BY <3>2, <3>3
  <2>. HIDE DEF n, e
  <2>11. Whole' /\ DirLong'
    BY <1>1, <2>1, <2>2, <2>5, <2>6, <2>8, <2>9, <2>10, EntryUpdate
  <2>. QED  BY <1>1, <2>11, InPlaceReturned
<1>. QED  BY <1>1, <1>2, <1>3

-----------------------------------------------------------------------------
(************************ every step ***************************************)
\* A step that leaves everything as it is.
LEMMA PInvStutter == ASSUME PInv, UNCHANGED allVars PROVE PInv'
<1>1. /\ fat' = fat /\ dir' = dir /\ data' = data /\ pc' = pc /\ UNCHANGED vars
      /\ UNCHANGED <<req, rest, first_c, prev_c, cur, c, slot, pos, left>>
  BY DEF allVars, vars, disk, locals, more
<1>2. CASE pc \in VolumePC
  BY <1>1, <1>2, VolumeKeeps DEF PInv
<1>3. CASE pc \notin VolumePC
  <2>1. InPlace /\ DirLong
    BY <1>3 DEF PInv
  <2>2. /\ Reachable' = Reachable /\ Used' = Used /\ Slots' = Slots /\ DirLong'
        /\ NoCrossLinks' /\ UniqueNames' /\ NoSlotBehindEnd'
        /\ \A h : ChainOf(h)' = ChainOf(h)
    BY <1>1, <2>1, SameDisk, SameWhole DEF InPlace, Sound
  <2>3. Sound' /\ Asking'
    BY <1>1, <2>1, <2>2 DEF InPlace, Sound, DiskOK, Asking, Lookup
  <2>4. Appending'
    BY <1>1, <2>1 DEF InPlace, Appending, LastAt, Nth, Written
  <2>5. OwnWrite' /\ Writing'
    BY <1>1, <2>1, <2>2 DEF InPlace, OwnWrite, Writing, LastAt, Nth
  <2>. QED  BY <1>1, <1>3, <2>1, <2>2, <2>3, <2>4, <2>5 DEF PInv, InPlace
<1>. QED  BY <1>2, <1>3

\* A call of the volume takes a step only when one of its own is in progress.
LEMMA VolumeCalls == ASSUME Steady, Next PROVE pc \in VolumePC
  BY DEF Steady, Next, Issue, Step, WriteFile, DeleteFile, CreateDir, Enter, Rename, MarkDeleted,
     NothingToDelete, FreeNext, ChainFreed, Allocate, DiskFull, Fill, FillFails, Seal, DataWritten,
     TakeSlot, FindRoom, NoRoom, SealExtension, LinkExtension, FirstEntry, MkdirRefused, MkdirTakes,
     MkdirDots, PowerLoss, VolumePC

LEMMA VolumeStepStep == ASSUME PInv, Steady, VolumeStep PROVE PInv' /\ Volume /\ Volume'
<1>1. pc \in VolumePC /\ Next
  BY VolumeCalls DEF VolumeStep
<1>2. Volume /\ DirLong
  BY <1>1 DEF PInv
<1>3. Volume' /\ DirLong'
  BY <1>1, <1>2, VolumeKeeps
<1>4. pc' \in VolumePC
  BY <1>3 DEF Volume, IInv, TypeOK, VolumePC
<1>. QED  BY <1>2, <1>3, <1>4 DEF PInv

\* Both calls give up.
LEMMA GiveUpStep ==
  ASSUME PInv, NoSuchFile \/ NoBuffer \/ AppendFull \/ AtFull \/ AtWriteFails
  PROVE  PInv' /\ UNCHANGED disk
<1>1. /\ pc \in {"append", "write_at", "at_walk", "ap_more"} /\ UNCHANGED disk
      /\ \E st \in {"SUCCESS", "NOT_FOUND", "DISK_FULL", "ERROR_WRITE", "ERROR_READ"} :
           InPlaceReturn(st)
  BY DEF NoSuchFile, NoBuffer, AppendFull, AtFull, AtWriteFails
<1>2. pc \in AppendPC \cup WritePC /\ pc \notin {"ap_seal", "at_seal"}
  BY <1>1 DEF AppendPC, WritePC
<1>. QED  BY <1>1, <1>2, GiveUp

LEMMA IssueStep == ASSUME PInv, Steady, InPlaceIssue PROVE PInv'
<1>1. PICK n \in Name, s \in Payload :
        \/ AppendFile(n, s)
        \/ \E off \in 0 .. MaxOffset : WriteAt(n, s, off)
  BY DEF InPlaceIssue
<1>2. CASE AppendFile(n, s)
  BY <1>2, EnterInPlaceStep DEF AppendFile
<1>3. ASSUME NEW off \in 0 .. MaxOffset, WriteAt(n, s, off) PROVE PInv'
  <2>1. off \in Nat
    BY InPlaceAssumption DEF InPlaceAssumption
  <2>. QED  BY <1>3, <2>1, EnterInPlaceStep DEF WriteAt
<1>. QED  BY <1>1, <1>2, <1>3

LEMMA PInvStep == Steady /\ PInv /\ [InPlaceNext]_allVars => PInv'
<1>. SUFFICES ASSUME Steady, PInv, [InPlaceNext]_allVars PROVE PInv'
  OBVIOUS
<1>1. CASE InPlaceIssue
  BY <1>1, IssueStep
<1>2. CASE VolumeStep
  BY <1>2, VolumeStepStep
<1>3. CASE NoSuchFile \/ NoBuffer \/ AppendFull \/ AtFull \/ AtWriteFails
  BY <1>3, GiveUpStep
<1>4. CASE AppendTail \/ AppendLink \/ AppendSeal \/ AppendFill \/ AppendSize
  BY <1>4, AppendTailStep, AppendLinkStep, AppendSealStep, AppendFillStep, AppendSizeStep
<1>5. CASE AtFind \/ AtFollow \/ AtExtend \/ AtLink \/ AtSeal \/ AtWrite \/ AtEntry
  BY <1>5, AtFindStep, AtFollowStep, AtExtendStep, AtLinkStep, AtSealStep, AtWriteStep, AtEntryStep
<1>6. CASE UNCHANGED allVars
  BY <1>6, PInvStutter
<1>. QED  BY <1>1, <1>2, <1>3, <1>4, <1>5, <1>6 DEF InPlaceNext, InPlaceStep

LEMMA PInvInit == InPlaceInit => PInv
<1>. SUFFICES ASSUME InPlaceInit PROVE PInv
  OBVIOUS
<1>1. Init /\ pc = "idle"
  BY DEF InPlaceInit, Init
<1>2. IInv
  BY <1>1, IInvInit
<1>3. Ops /\ Laid /\ NewLong
  BY <1>1 DEF Ops, Laid, NewLong
<1>4. DirLong
  <2>1. Used = {}
    BY <1>1, ConstantFacts, NameAssumption DEF Init, Used, Slots, EmptySlot, NameAssumption
  <2>. QED  BY <2>1 DEF DirLong
<1>. QED  BY <1>1, <1>2, <1>3, <1>4 DEF PInv, Volume, VolumePC

\* The disk is sound at every step, whichever call is in progress.
LEMMA PInvSound ==
  ASSUME PInv
  PROVE  DiskOK /\ NoCrossLinks /\ UniqueNames /\ NoSlotBehindEnd
  BY DEF PInv, Volume, IInv, TypeOK, InPlace, Sound

\* A chain that holds n units has the clusters for them.
LEMMA PInvCovered ==
  ASSUME PInv
  PROVE  SizeCovered
<1>. SUFFICES ASSUME NEW k \in Owners
              PROVE  dir[k].size <= UnitsPerCluster * Cardinality(Chain(Cluster, fat, dir[k].first))
  BY DEF SizeCovered
<1>1. DiskOK /\ DirLong
  BY PInvSound DEF PInv
<1>2. k \in Used /\ dir[k].first \in Cluster /\ dir[k].size \in Nat
  BY <1>1, UsedSlot DEF Owners
<1>3. PICK m \in Nat : Ends(fat, dir[k].first, m) /\ dir[k].size <= m * UnitsPerCluster
  BY <1>1, <1>2 DEF DirLong, Long
<1> DEFINE N == Cardinality(Chain(Cluster, fat, dir[k].first))
           n == dir[k].size
           U == UnitsPerCluster
<1>4. N \in Nat /\ m <= N
  BY <1>2, <1>3, EndsCount, FS_CardinalityType
<1>. HIDE DEF N
<1>5. U \in Nat /\ m * U \in Nat /\ N * U \in Nat /\ m * U <= N * U /\ N * U = U * N
  BY <1>4, ConstantFacts, Product
<1> DEFINE p == m * U
           r == U * N
<1>6. n \in Nat /\ n <= p /\ p \in Nat /\ r \in Nat /\ p <= r
  BY <1>2, <1>3, <1>5
<1>. HIDE DEF n, p, r
<1>7. n <= r
  BY <1>6
<1>. QED  BY <1>7 DEF n, r, N

\* The invariant of the calls in place: between them what the volume's calls
\* keep, during one what Sound, Asking, Appending, OwnWrite and Writing say.
THEOREM InPlaceInvariance == Steady /\ InPlaceSpec => []PInv
<1>1. Steady => Steady'
  BY DEF Steady
<1>. QED  BY <1>1, PInvInit, PInvStep, PTL DEF InPlaceSpec

\* No cluster belongs to two files, or to a file and the directory, although
\* fat32_append_file and fat32_write_file_at_offset link clusters into chains
\* that can be reached, and give up half-way.
THEOREM NoCrossLinksInPlace == Steady /\ InPlaceSpec => []NoCrossLinks
<1>1. PInv => NoCrossLinks
  BY PInvSound
<1>. QED  BY <1>1, InPlaceInvariance, PTL

\* Names stay unique, slots stay before the end mark and the disk stays in its
\* range: the two calls change no slot but the one they found.
THEOREM DirectoryInPlace == Steady /\ InPlaceSpec => [](DiskOK /\ UniqueNames /\ NoSlotBehindEnd)
<1>1. PInv => DiskOK /\ UniqueNames /\ NoSlotBehindEnd
  BY PInvSound
<1>. QED  BY <1>1, InPlaceInvariance, PTL

\* A reader who follows as many links as the size speaks of stays in the chain:
\* appends and writes raise the size only after the clusters are linked, and
\* what fails in between leaves a chain too long, never too short.
THEOREM SizeCoveredTheorem == Steady /\ InPlaceSpec => []SizeCovered
<1>1. PInv => SizeCovered
  BY PInvCovered
<1>. QED  BY <1>1, InPlaceInvariance, PTL


-----------------------------------------------------------------------------
(************************ what the other names hold ************************)
LEMMA PInvView == PInv => ViewSound
  BY PInvSound, LegibleView DEF Legible

LEMMA PInvViewNext == PInv' => ViewSound'
  BY PInvView, PTL

LEMMA SameView == ASSUME UNCHANGED disk PROVE View' = View
  BY DEF disk, View, Exists, Lookup, Slots, ReadBack, Nth

\* The step writes no slot and no cluster but those of slot k's file, and
\* clusters that nothing reaches.
TouchesOnly(k) ==
  /\ Used' = Used /\ dir'[k].name = dir[k].name
  /\ \A j \in Used \ {k} : dir'[j] = dir[j]
  /\ \E y : /\ \A x \in Cluster : x # y => fat'[x] = fat[x] /\ data'[x] = data[x]
            /\ y \in Reachable => dir[k].first # 0 /\ y \in ChainOf(dir[k].first)

LEMMA OthersKept ==
  ASSUME PInv, PInv', NEW k \in Used, TouchesOnly(k)
  PROVE  \A n \in Name \ {dir[k].name} : View'[n] = View[n]
<1>. SUFFICES ASSUME NEW n \in Name, n # dir[k].name PROVE View'[n] = View[n]
  OBVIOUS
<1>1. ViewSound /\ ViewSound' /\ DiskOK /\ NoCrossLinks
  BY PInvView, PInvViewNext, PInvSound
<1>2. \A j \in Used : j # k => dir'[j] = dir[j]
  BY DEF TouchesOnly
<1>3. Used' = Used /\ dir'[k].name = dir[k].name
  BY DEF TouchesOnly
<1>4. CASE \A j \in Used : dir[j].name # n
  <2>1. \A j \in Used' : dir'[j].name # n
    BY <1>2, <1>3, <1>4
  <2>. QED  BY <1>1, <1>4, <2>1 DEF ViewSound
<1>5. ASSUME NEW j \in Used, dir[j].name = n PROVE View'[n] = View[n]
  <2>1. j # k /\ dir'[j] = dir[j] /\ j \in Used'
    BY <1>2, <1>3, <1>5
  <2>2. dir[j].first \in Cluster \cup {0} /\ dir[j].size \in Nat
    BY <1>1, UsedSlot
  <2>3. PICK y : /\ \A x \in Cluster : x # y => fat'[x] = fat[x] /\ data'[x] = data[x]
                 /\ y \in Reachable => dir[k].first # 0 /\ y \in ChainOf(dir[k].first)
    BY DEF TouchesOnly
  <2>4. dir[j].first \in Cluster =>
          \A x \in Chain(Cluster, fat, dir[j].first) : fat'[x] = fat[x] /\ data'[x] = data[x]
    <3>. SUFFICES ASSUME dir[j].first \in Cluster, NEW x \in ChainOf(dir[j].first)
                  PROVE  fat'[x] = fat[x] /\ data'[x] = data[x]
      BY DEF ChainOf
    <3>1. j \in Owners /\ x \in Cluster /\ x \in Reachable
      BY <1>1, ConstantFacts, LiveChain
    <3>2. dir[k].first # 0 => x \notin ChainOf(dir[k].first)
      BY <1>1, <2>1, <3>1 DEF Owners, NoCrossLinks
    <3>3. x # y
      BY <2>3, <3>1, <3>2
    <3>. QED  BY <2>3, <3>1, <3>3
  <2>5. Contents(fat', data', dir[j].first, dir[j].size) = Contents(fat, data, dir[j].first, dir[j].size)
    BY <2>2, <2>4, SameContents
  <2>6. Value(j)' = Value(j)
    BY <2>1, <2>5 DEF Value
  <2>7. View[n] = Value(j) /\ View'[n] = Value(j)'
    BY <1>1, <1>5, <2>1 DEF ViewSound
  <2>. QED  BY <2>6, <2>7
<1>. QED  BY <1>4, <1>5

\* A step that leaves the directory and writes one cluster, or its entry.
LEMMA TouchesCluster ==
  ASSUME DiskOK, dir' = dir, NEW k, NEW y \in Cluster,
         fat' = fat \/ \E v : fat' = [fat EXCEPT ![y] = v],
         data' = data \/ \E v : data' = [data EXCEPT ![y] = v],
         y \in Reachable => dir[k].first # 0 /\ y \in ChainOf(dir[k].first)
  PROVE  TouchesOnly(k)
<1>1. \A x \in Cluster : x # y => fat'[x] = fat[x] /\ data'[x] = data[x]
  BY DEF DiskOK
<1>. QED  BY <1>1, SameDirectory DEF TouchesOnly

\* One that writes the slot.
LEMMA TouchesSlot ==
  ASSUME DiskOK, fat' = fat, data' = data, NEW k \in Used, NEW e, e.name = dir[k].name,
         dir' = [dir EXCEPT ![k] = e]
  PROVE  TouchesOnly(k)
<1>1. /\ Slots' = Slots /\ dir'[k].name = dir[k].name /\ \A j \in Slots : j # k => dir'[j] = dir[j]
  <2>1. DOMAIN dir = 1 .. Len(dir) /\ k \in 1 .. Len(dir)
    BY DEF DiskOK, Used, Slots
  <2>2. DOMAIN dir' = 1 .. Len(dir) /\ Len(dir') = Len(dir)
        /\ dir'[k] = e /\ \A j \in 1 .. Len(dir) : j # k => dir'[j] = dir[j]
    BY <2>1 DEF DiskOK
  <2>. QED  BY <2>2 DEF Slots
<1>2. \A j \in Slots : dir'[j].name = dir[j].name
  BY <1>1
<1>3. Used' = Used /\ Used \subseteq Slots
  BY <1>1, <1>2 DEF Used
<1>4. 0 \notin Reachable
  <2>1. Reachable \subseteq Cluster
    BY HeadChain DEF Reachable
  <2>. QED  BY <2>1, ConstantFacts
<1>. QED  BY <1>1, <1>3, <1>4 DEF TouchesOnly

\* The file a call in place works on.
OwnFile(k) == k \in Used /\ dir[k].name = req.name

LEMMA AppendTouches ==
  ASSUME PInv, AppendTail \/ AppendLink \/ AppendSeal \/ AppendFill \/ AppendSize
  PROVE  \E k : OwnFile(k) /\ TouchesOnly(k)
<1>0. PInv /\ pc \in AppendPC /\ Sound /\ Asking /\ Appending /\ DiskOK /\ NoCrossLinks
  BY PInvSound DEF AppendTail, AppendLink, AppendSeal, AppendFill, AppendSize, PInv, InPlace,
     VolumePC, AppendPC
<1>1. CASE AppendTail
  <2>1. PICK k \in Slots, m \in Nat \ {0} :
          /\ k \in Used /\ dir[k].name = req.name /\ dir[k].first \in Cluster
          /\ LET last == Met(fat, dir[k].first, m - 1)
                 off == dir[k].size % UnitsPerCluster
             IN /\ last \in ChainOf(dir[k].first) /\ last \in Cluster
                /\ \/ data' = [data EXCEPT ![last] = Over(@, off, req.arg)]
                   \/ data' = data
          /\ dir' = dir
    BY <1>1, <1>0, AppendTailFacts
  <2>2. fat' = fat
    BY <1>1 DEF AppendTail
  <2>3. TouchesOnly(k)
    BY <1>0, <2>1, <2>2, ConstantFacts, TouchesCluster
  <2>. QED  BY <2>1, <2>3 DEF OwnFile
<1>2. ASSUME pc \in {"ap_more", "ap_seal", "ap_fill"}, rest # << >> \/ pc # "ap_more"
      PROVE  LET y == IF pc = "ap_more" THEN prev_c ELSE cur
             IN slot \in Used /\ dir[slot].first # 0 /\ y \in Cluster /\ y \in ChainOf(dir[slot].first)
  <2> DEFINE y == IF pc = "ap_more" THEN prev_c ELSE cur
  <2>1. slot \in Used /\ dir[slot].first # 0
    BY <1>0, <1>2 DEF Asking, Appending, AppendPC
  <2>2. PICK m \in Nat \ {0} : LastAt(dir[slot].first, m, y)
    BY <1>0, <1>2 DEF Appending
  <2>3. m \in Nat /\ m - 1 \in 0 .. m - 1 /\ Ends(fat, dir[slot].first, m) /\ y = Met(fat, dir[slot].first, m - 1)
    BY <2>2 DEF LastAt, Nth, Met
  <2>. QED  BY <2>1, <2>3, MetInChain
<1>3. CASE AppendLink \/ AppendSeal \/ AppendFill
  <2>1. /\ pc \in {"ap_more", "ap_seal", "ap_fill"} /\ (rest # << >> \/ pc # "ap_more")
        /\ dir' = dir
    BY <1>3 DEF AppendLink, AppendSeal, AppendFill
  <2> DEFINE y == IF pc = "ap_more" THEN prev_c ELSE cur
  <2>2. slot \in Used /\ dir[slot].first # 0 /\ y \in Cluster /\ y \in ChainOf(dir[slot].first)
    BY <1>2, <2>1
  <2>3. fat' = fat \/ \E v : fat' = [fat EXCEPT ![y] = v]
    BY <1>3 DEF AppendLink, AppendSeal, AppendFill
  <2>4. data' = data \/ \E v : data' = [data EXCEPT ![y] = v]
    BY <1>3 DEF AppendLink, AppendSeal, AppendFill
  <2>5. dir[slot].name = req.name
    BY <1>0, <2>1 DEF Asking
  <2>. HIDE DEF y
  <2>6. TouchesOnly(slot)
    BY <1>0, <2>1, <2>2, <2>3, <2>4, TouchesCluster
  <2>. QED  BY <2>2, <2>5, <2>6 DEF OwnFile
<1>4. CASE AppendSize
  <2>1. /\ pc = "ap_more" /\ dir' = [dir EXCEPT ![slot].size = @ + Len(req.arg)]
        /\ fat' = fat /\ data' = data
    BY <1>4 DEF AppendSize
  <2> DEFINE e == [dir[slot] EXCEPT !.size = @ + Len(req.arg)]
  <2>2. slot \in Used /\ dir[slot].name = req.name /\ dir[slot] \in Slot
    BY <1>0, <2>1, UsedSlot DEF Asking, AppendPC
  <2>3. e.name = dir[slot].name /\ dir' = [dir EXCEPT ![slot] = e]
    BY <2>1, <2>2 DEF Slot
  <2>. HIDE DEF e
  <2>4. TouchesOnly(slot)
    BY <1>0, <2>1, <2>2, <2>3, TouchesSlot
  <2>. QED  BY <2>2, <2>4 DEF OwnFile
<1>. QED  BY <1>1, <1>3, <1>4

LEMMA WriteTouches ==
  ASSUME PInv, AtExtend \/ AtLink \/ AtSeal \/ AtWrite \/ AtEntry
  PROVE  UNCHANGED disk \/ \E k : OwnFile(k) /\ TouchesOnly(k)
<1>0. /\ pc \in WritePC \ {"write_at"} /\ InPlace /\ Sound /\ Asking /\ Writing /\ DiskOK
      /\ slot \in Used /\ dir[slot].name = req.name /\ dir[slot] \in Slot
  <2>1. pc \in WritePC \ {"write_at"}
    BY DEF AtExtend, AtLink, AtSeal, AtWrite, AtEntry, WritePC
  <2>2. InPlace /\ Sound /\ Asking /\ Writing /\ DiskOK
    BY <2>1, PInvSound DEF PInv, InPlace, VolumePC, WritePC
  <2>. QED  BY <2>1, <2>2, UsedSlot DEF Asking, AppendPC, WritePC
<1>1. ASSUME first_c # 0, NEW y \in ChainOf(first_c)
      PROVE  y \in Cluster /\ (y \in Reachable => dir[slot].first # 0 /\ y \in ChainOf(dir[slot].first))
  BY <1>0, <1>1, WriteChain DEF WritePC
<1>2. CASE AtExtend
  <2>1. PICK x \in Cluster : FirstFree(x) /\ (data' = [data EXCEPT ![x] = Zeroed] \/ data' = data)
    BY <1>2 DEF AtExtend
  <2>2. pc = "at_walk" /\ fat' = fat /\ dir' = dir
    BY <1>2 DEF AtExtend
  <2>3. x \notin Reachable
    BY <1>0, <2>1, <2>2 DEF Sound, FirstFree, FreeClusters
  <2>4. TouchesOnly(slot)
    BY <1>0, <2>1, <2>2, <2>3, TouchesCluster
  <2>. QED  BY <1>0, <2>4 DEF OwnFile
<1>3. CASE AtLink \/ AtSeal
  <2> DEFINE y == IF pc = "at_link" THEN c ELSE cur
  <2>1. pc \in {"at_link", "at_seal"} /\ dir' = dir /\ data' = data /\ \E v : fat' = [fat EXCEPT ![y] = v]
    BY <1>3 DEF AtLink, AtSeal
  <2>2. first_c # 0 /\ \E m \in Nat \ {0} : LastAt(first_c, m, y)
    BY <1>0, <2>1 DEF Writing
  <2>3. PICK m \in Nat \ {0} : LastAt(first_c, m, y)
    BY <2>2
  <2>4. m \in Nat /\ m - 1 \in 0 .. m - 1 /\ Ends(fat, first_c, m) /\ y = Met(fat, first_c, m - 1)
    BY <2>3 DEF LastAt, Nth, Met
  <2>. HIDE DEF y
  <2>5. y \in ChainOf(first_c)
    BY <2>4, MetInChain
  <2>6. y \in Cluster /\ (y \in Reachable => dir[slot].first # 0 /\ y \in ChainOf(dir[slot].first))
    BY <1>1, <2>2, <2>5
  <2>7. TouchesOnly(slot)
    BY <1>0, <2>1, <2>6, TouchesCluster
  <2>. QED  BY <1>0, <2>7 DEF OwnFile
<1>4. CASE AtWrite
  <2>1. fat' = fat /\ dir' = dir
    BY <1>4 DEF AtWrite
  <2>2. /\ first_c \in Cluster /\ c \in ChainOf(first_c)
        /\ \E v : data' = [data EXCEPT ![c] = v]
    BY <1>0, <1>4, AtWriteFacts
  <2>3. c \in Cluster /\ (c \in Reachable => dir[slot].first # 0 /\ c \in ChainOf(dir[slot].first))
    BY <1>1, <2>2, ConstantFacts
  <2>4. TouchesOnly(slot)
    BY <1>0, <2>1, <2>2, <2>3, TouchesCluster
  <2>. QED  BY <1>0, <2>4 DEF OwnFile
<1>5. CASE AtEntry
  <2>1. /\ fat' = fat /\ data' = data
        /\ \/ dir' = [dir EXCEPT ![slot].size = Larger(@, pos), ![slot].first = first_c]
           \/ dir' = dir
    BY <1>5 DEF AtEntry
  <2>2. CASE dir' = dir
    BY <2>1, <2>2 DEF disk
  <2>3. CASE dir' = [dir EXCEPT ![slot].size = Larger(@, pos), ![slot].first = first_c]
    <3> DEFINE e == [dir[slot] EXCEPT !.size = Larger(@, pos), !.first = first_c]
    <3>1. e.name = dir[slot].name
      BY <1>0 DEF Slot
    <3>2. dir' = [dir EXCEPT ![slot] = e]
      BY <2>3
    <3>. HIDE DEF e
    <3>3. TouchesOnly(slot)
      BY <1>0, <2>1, <3>1, <3>2, TouchesSlot
    <3>. QED  BY <1>0, <3>3 DEF OwnFile
  <2>. QED  BY <2>1, <2>2, <2>3
<1>. QED  BY <1>2, <1>3, <1>4, <1>5

LEMMA StepTouches ==
  ASSUME PInv, InPlaceStep
  PROVE  UNCHANGED disk \/ \E k : OwnFile(k) /\ TouchesOnly(k)
<1>1. CASE NoSuchFile \/ NoBuffer \/ AppendFull \/ AtFull \/ AtWriteFails \/ AtFind \/ AtFollow
  BY <1>1, GiveUpStep DEF AtFind, AtFollow
<1>. QED  BY <1>1, AppendTouches, WriteTouches DEF InPlaceStep

LEMMA OthersStep ==
  ASSUME PInv, PInv', Steady, [InPlaceNext]_allVars, req.op \in {"append", "write_at"}
  PROVE  \A n \in Name \ {req.name} : View'[n] = View[n]
<1>1. pc \notin VolumePC
  BY DEF PInv, Volume, IInv, TypeOK, Request
<1>2. CASE UNCHANGED disk
  BY <1>2, SameView
<1>3. CASE InPlaceStep
  <2>1. ASSUME NEW k, OwnFile(k), TouchesOnly(k) PROVE \A n \in Name \ {req.name} : View'[n] = View[n]
    BY <2>1, OthersKept DEF OwnFile
  <2>. QED  BY <1>2, <1>3, <2>1, StepTouches
<1>4. ~VolumeStep
  BY <1>1, VolumeCalls DEF VolumeStep
<1>5. InPlaceIssue => UNCHANGED disk
  BY DEF InPlaceIssue, AppendFile, WriteAt, EnterInPlace, Enter
<1>6. UNCHANGED allVars => UNCHANGED disk
  BY DEF allVars, vars
<1>. QED  BY <1>2, <1>3, <1>4, <1>5, <1>6 DEF InPlaceNext

\* While a file is appended to or written into, every other name holds what it
\* held, step by step: the clusters the call fills are the file's own or no
\* one's, and entry_idx leads back to its own slot.
THEOREM OthersUntouchedTheorem == Steady /\ InPlaceSpec => OthersUntouched
<1>1. Steady => Steady'
  BY DEF Steady
<1>2. Steady /\ PInv /\ PInv' /\ [InPlaceNext]_allVars =>
        [req.op \in {"append", "write_at"} =>
           \A n \in Name \ {req.name} : View'[n] = View[n]]_allVars
  BY OthersStep
<1>. QED  BY <1>1, <1>2, InPlaceInvariance, PTL DEF InPlaceSpec, OthersUntouched


-----------------------------------------------------------------------------
(************************ what an append shows before it answers ***********)
\* Where unit i of a file is: in a cluster of its chain.
LEMMA IndexIn ==
  ASSUME NEW n \in Nat, NEW m \in Nat, n <= m * UnitsPerCluster, NEW i \in 1 .. n
  PROVE  LET q == (i - 1) \div UnitsPerCluster
             r == (i - 1) % UnitsPerCluster
         IN /\ q \in 0 .. m - 1 /\ q \in Nat
            /\ r \in 0 .. UnitsPerCluster - 1 /\ i - 1 = q * UnitsPerCluster + r
<1> DEFINE U == UnitsPerCluster
           q == (i - 1) \div U
           r == (i - 1) % U
<1>1. U \in Nat /\ U > 0 /\ i - 1 \in Nat /\ i - 1 < n
  BY ConstantFacts
<1>2. q \in Nat /\ r \in 0 .. U - 1 /\ i - 1 = q * U + r
  BY <1>1, Quotient
<1>. HIDE DEF q, r, U
<1>3. q * U \in Nat /\ m * U \in Nat /\ (m <= q => m * U <= q * U)
  BY <1>1, <1>2, Product
<1> DEFINE x == q * U
           y == m * U
<1>4. n <= y /\ x \in Nat /\ y \in Nat /\ (m <= q => y <= x) /\ i - 1 = x + r
  BY <1>2, <1>3 DEF U
<1>. HIDE DEF x, y
<1>5. ~(m <= q)
  BY <1>1, <1>2, <1>4
<1>. QED  BY <1>2, <1>5 DEF q, r, U

\* Before the end of a file whose last cluster is not full, nothing lies behind
\* its end in that cluster.
LEMMA BeforeTail ==
  ASSUME NEW n \in Nat, NEW m \in Nat \ {0}, n <= m * UnitsPerCluster,
         n % UnitsPerCluster # 0 \/ n = 0, NEW i \in 1 .. n,
         (i - 1) \div UnitsPerCluster = m - 1
  PROVE  (i - 1) % UnitsPerCluster < n % UnitsPerCluster
<1> DEFINE U == UnitsPerCluster
           q == m - 1
           r == (i - 1) % U
           a == n \div U
           off == n % U
<1>1. U \in Nat /\ U > 0 /\ i - 1 \in Nat /\ i - 1 < n /\ q \in Nat /\ q + 1 = m /\ m \in Nat /\ n # 0
  BY ConstantFacts
<1>2. r \in 0 .. U - 1 /\ i - 1 = q * U + r
  BY <1>1, Quotient
<1>3. a \in Nat /\ off \in 0 .. U - 1 /\ off # 0 /\ n = a * U + off
  BY <1>1, Quotient
<1>. HIDE DEF q, r, U, a, off
<1>4. /\ q * U \in Nat /\ a * U \in Nat /\ m * U = q * U + U /\ (a + 1) * U = a * U + U
      /\ (a + 1 <= q => (a + 1) * U <= q * U) /\ (m <= a => m * U <= a * U)
      /\ (a + 1) * U \in Nat /\ m * U \in Nat
  BY <1>1, <1>3, Product
<1> DEFINE x == q * U
           y == a * U
<1>5. /\ x \in Nat /\ y \in Nat /\ (a + 1 <= q => y + U <= x) /\ (m <= a => x + U <= y)
      /\ n <= x + U /\ i - 1 = x + r /\ n = y + off
  BY <1>2, <1>3, <1>4 DEF U
<1>6. a = q => x = y
  OBVIOUS
<1>. HIDE DEF x, y
<1>7. ~(a + 1 <= q) /\ ~(m <= a)
  BY <1>1, <1>2, <1>3, <1>5
<1>8. a = q
  BY <1>1, <1>3, <1>7
<1>9. r < off
  BY <1>1, <1>2, <1>3, <1>5, <1>6, <1>8
<1>. QED  BY <1>9 DEF r, off, U

\* The file reads as before when its walk and the units it holds stay.
LEMMA ReadStays ==
  ASSUME PInv, PInv', dir' = dir, NEW k, OwnFile(k), NEW m \in Nat,
         Ends(fat, dir[k].first, m), dir[k].size <= m * UnitsPerCluster,
         \A q \in 0 .. m - 1 : Met(fat', dir[k].first, q) = Met(fat, dir[k].first, q),
         \A i \in 1 .. dir[k].size :
           LET x == Met(fat, dir[k].first, (i - 1) \div UnitsPerCluster)
               r == (i - 1) % UnitsPerCluster
           IN data'[x][r] = data[x][r]
  PROVE  View'[req.name] = View[req.name]
<1> DEFINE h == dir[k].first
           n == dir[k].size
<1>1. ViewSound /\ ViewSound' /\ DiskOK /\ k \in Used /\ k \in Used' /\ dir[k].name = req.name
  BY PInvView, PInvViewNext, PInvSound, SameDirectory DEF OwnFile
<1>2. n \in Nat
  BY <1>1, UsedSlot
<1>3. ASSUME NEW i \in 1 .. n
      PROVE  LET q == (i - 1) \div UnitsPerCluster
                 r == (i - 1) % UnitsPerCluster
             IN (IF Met(fat', h, q) \in Cluster THEN data'[Met(fat', h, q)][r] ELSE "unread")
                  = (IF Met(fat, h, q) \in Cluster THEN data[Met(fat, h, q)][r] ELSE "unread")
  <2>1. (i - 1) \div UnitsPerCluster \in 0 .. m - 1
    BY <1>2, <1>3, IndexIn
  <2>. QED  BY <1>3, <2>1
<1>. HIDE DEF h, n
<1>4. Contents(fat', data', h, n) = Contents(fat, data, h, n)
  BY <1>3 DEF Contents, Met
<1>5. Value(k)' = Value(k)
  BY <1>4 DEF Value, h, n
<1>6. View[req.name] = Value(k) /\ View'[dir'[k].name] = Value(k)'
  BY <1>1 DEF ViewSound
<1>. QED  BY <1>1, <1>5, <1>6

LEMMA TailHides == ASSUME PInv, PInv', AppendTail PROVE View'[req.name] = View[req.name]
<1>1. PICK k \in Slots, m \in Nat \ {0} :
        LET h == dir[k].first
            last == Met(fat, h, m - 1)
            off == dir[k].size % UnitsPerCluster
            partial == off # 0 \/ dir[k].size = 0
        IN /\ k \in Used /\ dir[k].name = req.name /\ h \in Cluster
           /\ Ends(fat, h, m) /\ dir[k].size \in Nat /\ dir[k].size <= m * UnitsPerCluster
           /\ last \in Cluster
           /\ \/ partial /\ data' = [data EXCEPT ![last] = Over(@, off, req.arg)]
              \/ data' = data
           /\ dir' = dir
  BY AppendTailFacts
<1>2. fat' = fat /\ DiskOK
  BY PInvSound DEF AppendTail
<1> DEFINE h == dir[k].first
           n == dir[k].size
           last == Met(fat, h, m - 1)
           off == n % UnitsPerCluster
<1>3. ASSUME NEW i \in 1 .. n
      PROVE  LET x == Met(fat, h, (i - 1) \div UnitsPerCluster)
                 r == (i - 1) % UnitsPerCluster
             IN data'[x][r] = data[x][r]
  <2> DEFINE q == (i - 1) \div UnitsPerCluster
             r == (i - 1) % UnitsPerCluster
             x == Met(fat, h, q)
  <2>1. q \in 0 .. m - 1 /\ r \in 0 .. UnitsPerCluster - 1 /\ m \in Nat /\ m - 1 \in 0 .. m - 1
    BY <1>1, <1>3, IndexIn
  <2>2. x \in Cluster /\ data \in [Cluster -> Buffer]
    BY <1>1, <1>2, <2>1 DEF Ends, Met, DiskOK
  <2>3. CASE data' = data
    BY <2>3
  <2>4. CASE (off # 0 \/ n = 0) /\ data' = [data EXCEPT ![last] = Over(@, off, req.arg)]
    <3>1. CASE q # m - 1
      <4>1. x # last
        BY <1>1, <2>1, <3>1, EndsDistinct
      <4>. HIDE DEF x, last
      <4>2. data'[x] = data[x]
        BY <2>2, <2>4, <4>1
      <4>. QED  BY <4>2 DEF x
    <3>2. CASE q = m - 1
      <4>1. r < off
        BY <1>1, <1>3, <2>4, <3>2, BeforeTail
      <4>2. x = last /\ data'[x] = Over(data[x], off, req.arg)
        BY <2>2, <2>4, <3>2
      <4>3. data[x] \in Buffer
        BY <2>2
      <4>4. off \in 0 .. UnitsPerCluster - 1
        BY <1>1, ConstantFacts, Quotient
      <4>. HIDE DEF x, r, off
      <4>5. Over(data[x], off, req.arg)[r] = data[x][r]
        BY <2>1, <4>1, <4>3, <4>4, ConstantFacts DEF Over, Buffer
      <4>. QED  BY <4>2, <4>5 DEF x, r
    <3>. QED  BY <3>1, <3>2
  <2>. QED  BY <1>1, <2>3, <2>4
<1>4. \A q \in 0 .. m - 1 : Met(fat', h, q) = Met(fat, h, q)
  BY <1>2
<1>5. OwnFile(k) /\ m \in Nat /\ Ends(fat, h, m) /\ n <= m * UnitsPerCluster /\ dir' = dir
  BY <1>1 DEF OwnFile
<1>. QED  BY <1>3, <1>4, <1>5, ReadStays

LEMMA AppendHides ==
  ASSUME PInv, PInv', AppendLink \/ AppendSeal \/ AppendFill
  PROVE  View'[req.name] = View[req.name]
<1>0. /\ pc \in {"ap_more", "ap_seal", "ap_fill"} /\ dir' = dir
      /\ Sound /\ Asking /\ Appending /\ DiskOK
  BY PInvSound DEF AppendLink, AppendSeal, AppendFill, PInv, InPlace, VolumePC
<1> DEFINE h == dir[slot].first
           n == dir[slot].size
<1>1. OwnFile(slot) /\ n \in Nat
  BY <1>0, UsedSlot DEF Asking, AppendPC, OwnFile
<1>2. Written \in Nat
  <2>1. Len(rest) \in Nat /\ Len(req.arg) \in Nat /\ Len(rest) <= Len(req.arg)
    BY <1>0 DEF Asking
  <2>. QED  BY <2>1 DEF Written
<1>3. CASE AppendLink
  <2>1. PICK x \in Cluster : FirstFree(x) /\ fat' = [fat EXCEPT ![prev_c] = x]
    BY <1>3 DEF AppendLink
  <2>2. pc = "ap_more" /\ data' = data
    BY <1>3 DEF AppendLink
  <2>3. PICK m \in Nat \ {0} : /\ LastAt(h, m, prev_c)
                               /\ n + Written <= m * UnitsPerCluster
    BY <1>0, <2>2 DEF Appending
  <2>4. Ends(fat, h, m) /\ prev_c = Met(fat, h, m - 1) /\ m \in Nat
    BY <2>3 DEF LastAt, Nth, Met
  <2>5. fat[prev_c] \notin Cluster /\ prev_c \in Cluster
    BY <2>4, EndsLast
  <2>6. \A y \in Cluster : y # prev_c => fat'[y] = fat[y]
    BY <1>0, <2>1 DEF DiskOK
  <2>7. \A q \in 0 .. m - 1 : Met(fat', h, q) = Met(fat, h, q)
    BY <2>4, <2>5, <2>6, EndsPrefix
  <2>8. n <= m * UnitsPerCluster
    <3> DEFINE p == m * UnitsPerCluster
    <3>1. p \in Nat
      BY <2>4, ConstantFacts, Product
    <3>2. n + Written <= p
      BY <2>3
    <3>. HIDE DEF n, p
    <3>3. n <= p
      BY <1>1, <1>2, <3>1, <3>2
    <3>. QED  BY <3>3 DEF p
  <2>. QED  BY <1>0, <1>1, <2>2, <2>4, <2>7, <2>8, ReadStays
<1>4. CASE AppendSeal \/ AppendFill
  <2>1. pc \in {"ap_seal", "ap_fill"}
    BY <1>4 DEF AppendSeal, AppendFill
  <2>2. PICK m \in Nat \ {0} : /\ LastAt(h, m, cur)
                               /\ n + Written <= (m - 1) * UnitsPerCluster
    BY <1>0, <2>1 DEF Appending
  <2>3. Ends(fat, h, m) /\ cur = Met(fat, h, m - 1) /\ m \in Nat /\ m - 1 \in Nat /\ m - 1 \in 0 .. m - 1
    BY <2>2 DEF LastAt, Nth, Met
  <2>4. cur \in Cluster /\ fat[cur] \notin Cluster
    BY <2>3, EndsLast
  <2>5. n <= (m - 1) * UnitsPerCluster /\ n <= m * UnitsPerCluster
    <3> DEFINE p == (m - 1) * UnitsPerCluster
               r == m * UnitsPerCluster
    <3>1. p \in Nat /\ r \in Nat /\ p <= r
      BY <2>3, ConstantFacts, Product
    <3>2. n + Written <= p
      BY <2>2
    <3>. HIDE DEF n, p, r
    <3>3. n <= p /\ n <= r
      BY <1>1, <1>2, <3>1, <3>2
    <3>. QED  BY <3>3 DEF p, r
  <2>6. \A q \in 0 .. m - 1 : Met(fat', h, q) = Met(fat, h, q)
    <3>1. \A y \in Cluster : y # cur => fat'[y] = fat[y]
      BY <1>0, <1>4 DEF AppendSeal, AppendFill, DiskOK
    <3>. QED  BY <2>3, <2>4, <3>1, EndsPrefix
  <2>7. ASSUME NEW i \in 1 .. n
        PROVE  LET x == Met(fat, h, (i - 1) \div UnitsPerCluster)
               IN data'[x] = data[x]
    <3> DEFINE q == (i - 1) \div UnitsPerCluster
    <3>1. q \in 0 .. m - 1 - 1
      BY <1>1, <2>3, <2>5, <2>7, IndexIn
    <3>2. q \in 0 .. m - 1 /\ q # m - 1
      BY <2>3, <3>1
    <3>. HIDE DEF q
    <3>3. Met(fat, h, q) # cur /\ Met(fat, h, q) \in Cluster
      BY <2>3, <3>2, EndsLast, EndsSteps
    <3>4. data'[Met(fat, h, q)] = data[Met(fat, h, q)]
      BY <1>0, <1>4, <3>3 DEF AppendSeal, AppendFill, DiskOK
    <3>. QED  BY <3>4 DEF q
  <2>. QED  BY <1>0, <1>1, <2>3, <2>5, <2>6, <2>7, ReadStays
<1>. QED  BY <1>3, <1>4

\* What an append does to the view of its file until it answers "SUCCESS".
LEMMA HiddenSteps ==
  ASSUME PInv, PInv', Steady, [InPlaceNext]_allVars, pc \in AppendPC,
         pc' \in AppendPC \/ status' # "SUCCESS"
  PROVE  View'[req.name] = View[req.name]
<1>1. CASE AppendTail \/ AppendLink \/ AppendSeal \/ AppendFill
  BY <1>1, TailHides, AppendHides
<1>2. CASE UNCHANGED disk
  BY <1>2, SameView
<1>3. CASE NoSuchFile \/ NoBuffer \/ AppendFull \/ AtFull \/ AtWriteFails
  BY <1>2, <1>3, GiveUpStep
<1>4. ~AppendSize
  BY DEF AppendSize, InPlaceReturn, Return, AppendPC
<1>5. ~VolumeStep /\ ~InPlaceIssue
  BY VolumeCalls DEF VolumeStep, VolumePC, AppendPC, InPlaceIssue, AppendFile, WriteAt,
     EnterInPlace, Enter
<1>6. ~(AtFind \/ AtFollow \/ AtExtend \/ AtLink \/ AtSeal \/ AtWrite \/ AtEntry)
  BY DEF AppendPC, AtFind, AtFollow, AtExtend, AtLink, AtSeal, AtWrite, AtEntry
<1>7. UNCHANGED allVars => UNCHANGED disk
  BY DEF allVars, vars
<1>. QED  BY <1>1, <1>2, <1>3, <1>4, <1>5, <1>6, <1>7 DEF InPlaceNext, InPlaceStep

LEMMA HiddenStep ==
  ASSUME PInv, PInv', Steady, [InPlaceNext]_allVars, Hidden
  PROVE  Hidden'
<1>. SUFFICES ASSUME pc' \in AppendPC PROVE View'[req'.name] = before'
  BY DEF Hidden
<1>1. CASE pc \in AppendPC
  <2>1. View'[req.name] = View[req.name]
    BY <1>1, HiddenSteps
  <2>2. req' = req /\ before' = before
    <3>1. ~VolumeStep /\ ~InPlaceIssue
      BY <1>1, VolumeCalls DEF VolumeStep, VolumePC, AppendPC, InPlaceIssue, AppendFile, WriteAt,
         EnterInPlace, Enter
    <3>2. pc' # "idle"
      BY DEF AppendPC
    <3>. QED
      BY <1>1, <3>1, <3>2 DEF InPlaceNext, InPlaceStep, NoSuchFile, NoBuffer, AppendTail, AppendLink,
         AppendFull, AppendSeal, AppendFill, AppendSize, AtFind, AtFollow, AtExtend, AtFull, AtLink,
         AtSeal, AtWrite, AtWriteFails, AtEntry, InPlaceReturn, Return, allVars, vars, locals, AppendPC
  <2>. QED  BY <1>1, <2>1, <2>2 DEF Hidden
<1>2. CASE pc \notin AppendPC
  <2>1. ~VolumeStep
    <3>1. VolumeStep => pc' \in VolumePC
      <4>. SUFFICES ASSUME VolumeStep PROVE pc' \in VolumePC
        OBVIOUS
      <4>1. Volume'
        BY VolumeStepStep
      <4>. QED  BY <4>1 DEF Volume, IInv, TypeOK, VolumePC
    <3>. QED  BY <3>1 DEF AppendPC, VolumePC
  <2>2. ~InPlaceStep
    BY <1>2 DEF InPlaceStep, NoSuchFile, NoBuffer, AppendTail, AppendLink,
       AppendFull, AppendSeal, AppendFill, AppendSize, AtFind, AtFollow, AtExtend, AtFull, AtLink,
       AtSeal, AtWrite, AtWriteFails, AtEntry, InPlaceReturn, Return, AppendPC
  <2>3. ~(UNCHANGED allVars)
    BY <1>2 DEF allVars, vars
  <2>4. InPlaceIssue
    BY <2>1, <2>2, <2>3 DEF InPlaceNext
  <2>5. UNCHANGED disk /\ before' = View[req'.name]
    BY <2>4 DEF InPlaceIssue, AppendFile, WriteAt, EnterInPlace, Enter
  <2>. QED  BY <2>5, SameView
<1>. QED  BY <1>1, <1>2

LEMMA HiddenAnswer ==
  ASSUME PInv, PInv', Steady, [InPlaceNext]_allVars, Hidden,
         NEW st \in {"DISK_FULL", "ERROR_WRITE", "NOT_FOUND"}, Answers("append", st)
  PROVE  View'[req.name] = before
<1>1. req.op = "append" /\ pc # "idle" /\ status' = st /\ status' # "SUCCESS"
  BY DEF Answers
<1>2. pc \notin VolumePC
  BY <1>1 DEF PInv, Volume, IInv, TypeOK, Request
<1>3. pc \in AppendPC
  <2>1. Asking
    BY <1>2 DEF PInv, InPlace
  <2>. QED  BY <1>1, <2>1 DEF Asking
<1>4. View'[req.name] = View[req.name]
  BY <1>1, <1>3, HiddenSteps
<1>. QED  BY <1>3, <1>4 DEF Hidden

\* An append that fails leaves the file as it was: the tail it filled lies
\* behind the file's end, the clusters it linked behind the last one a reader
\* follows to.
THEOREM FailedAppendHidesTheorem == Steady /\ InPlaceSpec => FailedAppendHides
<1>1. Steady => Steady'
  BY DEF Steady
<1>2. InPlaceInit => Hidden
  BY DEF InPlaceInit, Init, Hidden, AppendPC
<1>3. Steady /\ PInv /\ PInv' /\ Hidden /\ [InPlaceNext]_allVars => Hidden'
  BY HiddenStep
<1>4. Steady /\ PInv /\ PInv' /\ Hidden /\ [InPlaceNext]_allVars =>
        [\A st \in {"DISK_FULL", "ERROR_WRITE", "NOT_FOUND"} :
           Answers("append", st) => View'[req.name] = before]_allVars
  BY HiddenAnswer
<1>. QED  BY <1>1, <1>2, <1>3, <1>4, InPlaceInvariance, PTL DEF InPlaceSpec, FailedAppendHides

-----------------------------------------------------------------------------
(************************ what a write does to its file ********************)
\* A unit of a chain stays when the walk and the unit's cluster do.
LEMMA HoldsStays ==
  ASSUME NEW f, NEW g, NEW d, NEW b, NEW h, NEW m \in Nat, Ends(f, h, m),
         \A q \in 0 .. m - 1 : Met(g, h, q) = Met(f, h, q),
         NEW i \in Nat \ {0}, NEW v, Holds(f, d, h, i, v),
         \A q \in 0 .. m - 1 : \A r \in 0 .. UnitsPerCluster - 1 :
           i - 1 = q * UnitsPerCluster + r => b[Met(f, h, q)][r] = d[Met(f, h, q)][r]
  PROVE  Holds(g, b, h, i, v)
<1> DEFINE q == (i - 1) \div UnitsPerCluster
           r == (i - 1) % UnitsPerCluster
<1>1. q \in Nat /\ r \in 0 .. UnitsPerCluster - 1 /\ i - 1 = q * UnitsPerCluster + r
  <2>1. i - 1 \in Nat /\ UnitsPerCluster \in Nat /\ UnitsPerCluster > 0
    BY ConstantFacts
  <2>. QED  BY <2>1, Quotient
<1>2. Met(f, h, q) \in Cluster /\ d[Met(f, h, q)][r] = v
  BY DEF Holds
<1>. HIDE DEF q, r
<1>3. q \in 0 .. m - 1
  BY <1>1, <1>2, EndsBeyond
<1>4. Met(g, h, q) \in Cluster /\ b[Met(g, h, q)][r] = v
  BY <1>1, <1>2, <1>3
<1>. QED  BY <1>4 DEF Holds, q, r

\* Nothing holds a unit where there is no chain.
LEMMA HoldsNothing ==
  ASSUME NEW f, NEW d, NEW i \in Nat \ {0}, NEW v
  PROVE  ~Holds(f, d, 0, i, v)
<1>1. (i - 1) \div UnitsPerCluster \in Nat
  BY ConstantFacts, Quotient
<1>2. Ends(f, 0, 0)
  BY ConstantFacts, EndsNone
<1>3. \A q \in 0 .. 0 - 1 : FALSE
  OBVIOUS
<1>. QED  BY <1>1, <1>2, <1>3, EndsBeyond DEF Holds

\* The numbers of a write in progress.
LEMMA ProgressTypes ==
  ASSUME InPlace, pc \in WritePC
  PROVE  /\ pos \in Nat /\ Written \in Nat /\ Len(rest) \in Nat /\ Len(req.arg) \in Nat
         /\ rest \in Seq(Unit) /\ DiskOK
         /\ pc # "write_at" => slot \in Used /\ dir[slot].name = req.name /\ dir[slot].size \in Nat
<1>1. /\ Asking /\ DiskOK
      /\ pos \in Nat /\ rest \in Seq(Unit) /\ req.arg \in Seq(Unit) /\ Len(rest) <= Len(req.arg)
  BY DEF InPlace, Sound, Asking
<1>2. Len(rest) \in Nat /\ Len(req.arg) \in Nat
  BY <1>1
<1>3. Written \in Nat
  BY <1>1, <1>2 DEF Written
<1>4. pc # "write_at" => slot \in Used /\ dir[slot].name = req.name
  BY <1>1 DEF Asking, WritePC, AppendPC
<1>. QED  BY <1>1, <1>2, <1>3, <1>4, UsedSlot

\* A step that moves the cursor or the table leaves the write as far as it was,
\* when it leaves the units of the chain.
LEMMA ProgressStays ==
  ASSUME InPlace, pc \in WritePC \ {"write_at"}, Progress,
         UNCHANGED <<dir, req, rest, slot, pos, before>>,
         first_c' = 0 => first_c = 0,
         \A i \in Nat \ {0} : \A v : Holds(fat, data, first_c, i, v) => Holds(fat', data', first_c', i, v)
  PROVE  Progress'
<1>1. /\ pos \in Nat /\ Written \in Nat /\ Written <= pos /\ dir[slot].size \in Nat
  BY ProgressTypes DEF Progress
<1>2. \A i \in 1 .. Written : pos - Written + i \in Nat \ {0}
  BY <1>1
<1>3. \A i \in 1 .. dir[slot].size : i \in Nat \ {0}
  BY <1>1
<1>4. Written' = Written
  BY DEF Written
<1>5. \A i \in 1 .. Written : Holds(fat', data', first_c', pos - Written + i, req.arg[i])
  BY <1>2 DEF Progress
<1>6. \A i \in 1 .. dir[slot].size :
        i <= pos - Written \/ i > pos => Holds(fat', data', first_c', i, before[i])
  BY <1>3 DEF Progress
<1>. QED  BY <1>4, <1>5, <1>6 DEF Progress

LEMMA AtFindProgress ==
  ASSUME PInv, AtFind, Exact
  PROVE  Progress'
<1>1. PICK k \in Slots : Lookup(req.name, k) /\ slot' = k /\ first_c' = dir[k].first
  BY DEF AtFind
<1>2. /\ pc = "write_at" /\ fat' = fat /\ dir' = dir /\ data' = data
      /\ UNCHANGED <<req, rest, pos, before>>
  BY DEF AtFind, disk
<1>3. InPlace /\ Asking /\ DirLong /\ DiskOK /\ View[req.name] = before
  BY <1>2, PInvSound DEF PInv, InPlace, VolumePC, Exact
<1> DEFINE h == dir[k].first
           n == dir[k].size
<1>4. /\ k \in Used /\ dir[k].name = req.name /\ n \in Nat /\ ~dir[k].folder
  BY <1>1, <1>3, FoundSlot DEF Asking, Exact, NoFolder
<1>5. before = Contents(fat, data, h, n)
  BY <1>3, <1>4, PInvView DEF ViewSound, Value
<1>6. PICK m \in Nat : Ends(fat, h, m) /\ n <= m * UnitsPerCluster
  BY <1>3, <1>4 DEF DirLong, Long
<1>7. ASSUME NEW i \in 1 .. n PROVE Holds(fat, data, h, i, before[i])
  <2> DEFINE q == (i - 1) \div UnitsPerCluster
             r == (i - 1) % UnitsPerCluster
  <2>1. q \in 0 .. m - 1
    BY <1>4, <1>6, <1>7, IndexIn
  <2>2. before[i] = IF Met(fat, h, q) \in Cluster THEN data[Met(fat, h, q)][r] ELSE "unread"
    BY <1>5, <1>7 DEF Contents, Met
  <2>. HIDE DEF q, r
  <2>3. Met(fat, h, q) \in Cluster
    BY <1>6, <2>1, EndsSteps
  <2>. QED  BY <2>2, <2>3 DEF Holds, q, r
<1>8. before = [i \in 1 .. n |-> before[i]]
  BY <1>5 DEF Contents
<1>9. /\ rest = req.arg /\ Written = 0 /\ Written' = 0 /\ pos \in Nat /\ Len(rest) \in Nat
  BY <1>2, <1>3 DEF Asking, Written
<1>. HIDE DEF n, h
<1>10. \A i \in 1 .. Len(rest) : rest[i] = req.arg[0 + i]
  BY <1>9
<1>. QED  BY <1>1, <1>2, <1>7, <1>8, <1>9, <1>10 DEF Progress, n, h

\* While the table stays and only clusters outside the chain are written.
LEMMA ChainUnits ==
  ASSUME NEW h, NEW m \in Nat, Ends(fat, h, m),
         \A q \in 0 .. m - 1 : Met(fat', h, q) = Met(fat, h, q),
         \A q \in 0 .. m - 1 : data'[Met(fat, h, q)] = data[Met(fat, h, q)],
         NEW i \in Nat \ {0}, NEW v, Holds(fat, data, h, i, v)
  PROVE  Holds(fat', data', h, i, v)
  BY HoldsStays

LEMMA AtFollowProgress ==
  ASSUME PInv, AtFollow, Exact
  PROVE  Progress'
<1>1. /\ pc = "at_walk" /\ fat' = fat /\ data' = data
      /\ UNCHANGED <<dir, req, rest, first_c, slot, pos, before>>
  BY DEF AtFollow, disk
<1>2. InPlace /\ pc \in WritePC \ {"write_at"} /\ Progress
  BY <1>1 DEF PInv, VolumePC, WritePC, Exact
<1>. QED  BY <1>1, <1>2, ProgressStays

LEMMA AtExtendProgress ==
  ASSUME PInv, AtExtend, Exact
  PROVE  Progress'
<1>1. PICK x \in Cluster : /\ FirstFree(x)
                           /\ data' = [data EXCEPT ![x] = Zeroed] \/ data' = data
                           /\ first_c' = IF c = 0 THEN x ELSE first_c
  BY DEF AtExtend
<1>2. /\ pc = "at_walk" /\ fat' = fat
      /\ UNCHANGED <<dir, req, rest, slot, pos, before>>
  BY DEF AtExtend, more
<1>3. InPlace /\ pc \in WritePC \ {"write_at"} /\ Progress /\ DiskOK
  BY <1>2, PInvSound DEF PInv, VolumePC, WritePC, Exact
<1>4. CASE c = 0
  <2>1. first_c = 0
    BY <1>2, <1>3, <1>4, WriteStart
  <2>2. \A i \in Nat \ {0} : \A v : ~Holds(fat, data, first_c, i, v)
    BY <2>1, HoldsNothing
  <2>. QED  BY <1>2, <1>3, <2>1, <2>2, ProgressStays
<1>5. CASE c # 0
  <2>1. PICK m \in Nat \ {0} : first_c \in Cluster /\ Ends(fat, first_c, m)
    BY <1>2, <1>3, <1>5, WriteCursor
  <2>2. first_c # 0 /\ first_c' = first_c /\ m \in Nat
    BY <1>1, <1>5, <2>1, ConstantFacts
  <2>3. ASSUME NEW q \in 0 .. m - 1
        PROVE  data'[Met(fat, first_c, q)] = data[Met(fat, first_c, q)]
    <3>1. Met(fat, first_c, q) \in ChainOf(first_c) /\ Met(fat, first_c, q) \in Cluster
      BY <2>1, <2>2, MetInChain
    <3>2. fat[Met(fat, first_c, q)] # FREE
      BY <1>2, <1>3, <2>2, <3>1, WriteChain
    <3>3. Met(fat, first_c, q) # x
      BY <1>1, <3>2 DEF FirstFree, FreeClusters
    <3>. QED  BY <1>1, <1>3, <3>1, <3>3 DEF DiskOK
  <2>4. \A i \in Nat \ {0} : \A v :
          Holds(fat, data, first_c, i, v) => Holds(fat', data', first_c', i, v)
    <3>. SUFFICES ASSUME NEW i \in Nat \ {0}, NEW v, Holds(fat, data, first_c, i, v)
                  PROVE  Holds(fat', data', first_c', i, v)
      OBVIOUS
    <3>1. \A q \in 0 .. m - 1 : Met(fat', first_c, q) = Met(fat, first_c, q)
      BY <1>2
    <3>2. Holds(fat', data', first_c, i, v)
      BY <2>1, <2>2, <2>3, <3>1, ChainUnits
    <3>. QED  BY <2>2, <3>2
  <2>. QED  BY <1>2, <1>3, <2>2, <2>4, ProgressStays
<1>. QED  BY <1>4, <1>5

LEMMA AtTableProgress ==
  ASSUME PInv, AtLink \/ AtSeal, Exact
  PROVE  Progress'
<1> DEFINE y == IF pc = "at_link" THEN c ELSE cur
<1>1. /\ pc \in {"at_link", "at_seal"} /\ data' = data /\ \E v : fat' = [fat EXCEPT ![y] = v]
      /\ UNCHANGED <<dir, req, rest, first_c, slot, pos, before>>
  BY DEF AtLink, AtSeal, more, locals
<1>2. InPlace /\ pc \in WritePC \ {"write_at"} /\ Progress /\ DiskOK
  BY <1>1, PInvSound DEF PInv, VolumePC, WritePC, Exact
<1>3. first_c # 0 /\ \E m \in Nat \ {0} : LastAt(first_c, m, y)
  BY <1>1, <1>2 DEF InPlace, Writing
<1>4. PICK m \in Nat \ {0} : LastAt(first_c, m, y)
  BY <1>3
<1>5. m \in Nat /\ Ends(fat, first_c, m) /\ y = Met(fat, first_c, m - 1)
  BY <1>4 DEF LastAt, Nth, Met
<1>. HIDE DEF y
<1>6. fat[y] \notin Cluster /\ \A x \in Cluster : x # y => fat'[x] = fat[x]
  BY <1>1, <1>2, <1>5, EndsLast DEF DiskOK
<1>7. \A q \in 0 .. m - 1 : Met(fat', first_c, q) = Met(fat, first_c, q)
  <2>1. m \in Nat /\ Ends(fat, first_c, m)
    BY <1>5
  <2>2. fat[y] \notin Cluster
    BY <1>6
  <2>3. \A x \in Cluster : x # y => fat'[x] = fat[x]
    BY <1>6
  <2>. QED  BY <2>1, <2>2, <2>3, EndsPrefix
<1>8. \A i \in Nat \ {0} : \A v :
        Holds(fat, data, first_c, i, v) => Holds(fat', data', first_c', i, v)
  <2>. SUFFICES ASSUME NEW i \in Nat \ {0}, NEW v, Holds(fat, data, first_c, i, v)
                PROVE  Holds(fat', data', first_c', i, v)
    OBVIOUS
  <2>1. \A q \in 0 .. m - 1 : data'[Met(fat, first_c, q)] = data[Met(fat, first_c, q)]
    BY <1>1
  <2>2. Holds(fat', data', first_c, i, v)
    BY <1>5, <1>7, <2>1, ChainUnits
  <2>. QED  BY <1>1, <2>2
<1>. QED  BY <1>1, <1>2, <1>3, <1>8, ProgressStays

\* Writing one cluster brings the units that go there to where they belong and
\* leaves all others.
LEMMA AtWriteProgress ==
  ASSUME PInv, AtWrite, Exact
  PROVE  Progress'
<1> DEFINE U == UnitsPerCluster
<1>1. /\ pc = "at_walk" /\ fat' = fat /\ UNCHANGED <<dir, req, first_c, slot, before>>
  BY DEF AtWrite
<1>2. InPlace /\ pc \in WritePC \ {"write_at"} /\ Progress /\ DiskOK
  BY <1>1, PInvSound DEF PInv, VolumePC, WritePC, Exact
<1>3. /\ pos \in Nat /\ Written \in Nat /\ Len(rest) \in Nat /\ Len(req.arg) \in Nat
      /\ rest \in Seq(Unit) /\ dir[slot].size \in Nat /\ Written <= pos
  BY <1>2, ProgressTypes DEF Progress
<1>4. PICK off \in 0 .. U - 1, q \in Nat, n \in Nat, m \in Nat \ {0} :
        /\ first_c \in Cluster /\ c \in Cluster /\ c = Met(fat, first_c, q)
        /\ q \in 0 .. m - 1 /\ Ends(fat, first_c, m)
        /\ pos = q * U + off
        /\ n > 0 /\ n <= Len(rest) /\ n <= U - off
        /\ data' = [data EXCEPT ![c] = Over(data[c], off, rest)]
        /\ rest' = After(rest, n) /\ Len(rest') = Len(rest) - n /\ pos' = pos + n
        /\ rest' # << >> => n = U - off
        /\ rest' = << >> => n = Len(rest)
  BY <1>2, AtWriteFacts
<1>. HIDE DEF U
<1>5. /\ data'[c] = Over(data[c], off, rest)
      /\ \A x \in Cluster : x # c => data'[x] = data[x]
      /\ DOMAIN data[c] = 0 .. U - 1
  BY <1>2, <1>4 DEF DiskOK, Buffer, U
<1>6. q * U \in Nat /\ U \in Nat /\ U > 0
  BY ConstantFacts, Product DEF U
<1>7. ASSUME NEW i \in Nat \ {0}, NEW v, Holds(fat, data, first_c, i, v), i <= pos \/ i > pos'
      PROVE  Holds(fat', data', first_c', i, v)
  <2>1. ASSUME NEW p \in 0 .. m - 1, NEW r \in 0 .. U - 1, i - 1 = p * U + r
        PROVE  data'[Met(fat, first_c, p)][r] = data[Met(fat, first_c, p)][r]
    <3>1. Met(fat, first_c, p) \in Cluster
      BY <1>4, <2>1, EndsSteps
    <3>2. CASE Met(fat, first_c, p) # c
      BY <1>5, <3>1, <3>2
    <3>3. CASE Met(fat, first_c, p) = c
      <4>1. p = q
        BY <1>4, <2>1, <3>3, EndsDistinct
      <4> DEFINE a == q * U
      <4>2. i - 1 = a + r /\ pos = a + off /\ a \in Nat
        BY <1>4, <1>6, <2>1, <4>1
      <4>. HIDE DEF a
      <4>3. ~(r >= off /\ r < off + n)
        <5>1. pos' = pos + n /\ off \in Nat /\ r \in Nat /\ n \in Nat
          BY <1>4, <1>6, <2>1
        <5>. QED  BY <1>7, <4>2, <5>1
      <4>4. ~(r >= off /\ r < off + Len(rest))
        <5>1. n = U - off \/ n = Len(rest)
          BY <1>4
        <5>. QED  BY <1>6, <2>1, <4>3, <5>1
      <4>5. Over(data[c], off, rest)[r] = data[c][r]
        BY <1>5, <4>4 DEF Over
      <4>. QED  BY <1>5, <3>3, <4>5
    <3>. QED  BY <3>2, <3>3
  <2>2. m \in Nat /\ Ends(fat, first_c, m)
    BY <1>4
  <2>3. Holds(fat, data', first_c, i, v)
    BY <1>7, <2>1, <2>2, HoldsStays DEF U
  <2>. QED  BY <1>1, <2>3
<1>8. ASSUME NEW j \in 1 .. n
      PROVE  Holds(fat', data', first_c', pos + j, rest[j])
  <2> DEFINE a == pos + j - 1
             r == off + j - 1
  <2>1. r \in 0 .. U - 1 /\ a = q * U + r /\ r >= off /\ r < off + Len(rest) /\ r - off + 1 = j
    BY <1>3, <1>4, <1>6
  <2>. HIDE DEF a, r
  <2>2. a \div U = q /\ a % U = r
    BY <1>6, <2>1, QuotientIs
  <2>3. data'[c][r] = rest[j]
    BY <1>5, <2>1 DEF Over
  <2>. QED  BY <1>1, <1>4, <2>2, <2>3 DEF Holds, a, U
<1>9. Written' = Written + n
  BY <1>1, <1>3, <1>4 DEF Written
<1>10. Written' <= pos' /\ first_c' # 0
  BY <1>1, <1>3, <1>4, <1>9, ConstantFacts
<1>11. ASSUME NEW i \in 1 .. Len(rest')
       PROVE  rest'[i] = req'.arg[Written' + i]
  <2>1. rest'[i] = rest[n + i]
    BY <1>3, <1>4, <1>11, AfterFacts
  <2>2. n + i \in 1 .. Len(rest) /\ Written + (n + i) = Written' + i
    BY <1>3, <1>4, <1>9, <1>11
  <2>3. rest[n + i] = req.arg[Written + (n + i)]
    BY <1>2, <2>2 DEF Progress
  <2>. QED  BY <1>1, <2>1, <2>2, <2>3
<1>12. ASSUME NEW i \in 1 .. Written'
       PROVE  Holds(fat', data', first_c', pos' - Written' + i, req'.arg[i])
  <2>1. pos' - Written' + i = pos - Written + i
    BY <1>3, <1>4, <1>9
  <2>2. CASE i <= Written
    <3>1. i \in 1 .. Written /\ pos - Written + i \in Nat \ {0} /\ pos - Written + i <= pos
      BY <1>3, <1>9, <1>12, <2>2
    <3>2. Holds(fat, data, first_c, pos - Written + i, req.arg[i])
      BY <1>2, <3>1 DEF Progress
    <3>. QED  BY <1>1, <1>7, <2>1, <3>1, <3>2
  <2>3. CASE ~(i <= Written)
    <3>1. PICK j \in 1 .. n : j = i - Written /\ pos - Written + i = pos + j /\ Written + j = i
      BY <1>3, <1>4, <1>9, <1>12, <2>3
    <3>2. j \in 1 .. Len(rest)
      BY <1>3, <1>4
    <3>3. rest[j] = req.arg[Written + j]
      BY <1>2, <3>2 DEF Progress
    <3>. QED  BY <1>1, <1>8, <2>1, <3>1, <3>3
  <2>. QED  BY <2>2, <2>3
<1>13. ASSUME NEW i \in 1 .. dir'[slot'].size, i <= pos' - Written' \/ i > pos'
       PROVE  Holds(fat', data', first_c', i, before'[i])
  <2>1. /\ i \in 1 .. dir[slot].size /\ i \in Nat \ {0}
        /\ i <= pos - Written \/ i > pos
        /\ i <= pos \/ i > pos'
    <3>1. /\ i \in 1 .. dir[slot].size /\ dir[slot].size \in Nat
          /\ i <= pos' - Written' \/ i > pos'
      BY <1>1, <1>3, <1>13
    <3>2. /\ pos \in Nat /\ Written \in Nat /\ n \in Nat /\ n > 0
          /\ pos' = pos + n /\ Written' = Written + n
      BY <1>3, <1>4, <1>9
    <3>. QED  BY <3>1, <3>2
  <2>2. Holds(fat, data, first_c, i, before[i])
    BY <1>2, <2>1 DEF Progress
  <2>. QED  BY <1>1, <1>7, <2>1, <2>2
<1>14. before' = [i \in 1 .. dir'[slot'].size |-> before'[i]]
  BY <1>1, <1>2 DEF Progress
<1>. QED  BY <1>10, <1>11, <1>12, <1>13, <1>14 DEF Progress

\* Without "mkdir" among the calls no call makes a folder.
LEMMA NoMkdirCalled ==
  ASSUME FilesOnly, req.op # "mkdir", [InPlaceNext]_allVars
  PROVE  req'.op # "mkdir"
<1>1. CASE InPlaceIssue
  BY <1>1 DEF InPlaceIssue, AppendFile, WriteAt, EnterInPlace, Enter
<1>2. CASE InPlaceStep
  BY <1>2 DEF InPlaceStep, NoSuchFile, NoBuffer, AppendTail, AppendLink, AppendFull, AppendSeal,
     AppendFill, AppendSize, AtFind, AtFollow, AtExtend, AtFull, AtLink, AtSeal, AtWrite,
     AtWriteFails, AtEntry, InPlaceReturn, Return, NoRequest, locals
<1>3. CASE VolumeStep
  <2>1. CASE Issue
    <3>1. ASSUME NEW n \in Name, NEW s \in Payload, WriteFile(n, s) PROVE req'.op # "mkdir"
      BY <3>1 DEF WriteFile, Enter
    <3>2. ASSUME NEW n \in Name, DeleteFile(n) PROVE req'.op # "mkdir"
      BY <3>2 DEF DeleteFile, Enter
    <3>3. ASSUME NEW n \in Name, CreateDir(n) PROVE req'.op # "mkdir"
      BY <3>3 DEF CreateDir, Enter, FilesOnly
    <3>4. ASSUME NEW old \in Name, NEW new \in Name, Rename(old, new) PROVE req'.op # "mkdir"
      BY <3>4 DEF Rename, locals
    <3>. QED  BY <2>1, <3>1, <3>2, <3>3, <3>4 DEF Issue
  <2>2. CASE Step
    BY <2>2 DEF Step, MarkDeleted, NothingToDelete, FreeNext, ChainFreed, Allocate, DiskFull,
       Fill, FillFails, Seal, DataWritten, TakeSlot, FindRoom, NoRoom, SealExtension,
       LinkExtension, FirstEntry, MkdirRefused, MkdirTakes, MkdirDots, RollBack, Return,
       NoRequest, locals
  <2>3. CASE PowerLoss
    BY <2>3 DEF PowerLoss, Return, NoRequest
  <2>. QED  BY <1>3, <2>1, <2>2, <2>3 DEF VolumeStep, Next
<1>4. CASE UNCHANGED allVars
  BY <1>4 DEF allVars, vars, locals
<1>. QED  BY <1>1, <1>2, <1>3, <1>4 DEF InPlaceNext

\* A call in place changes one entry at most, in its size and its cluster.
LEMMA EntryKind ==
  ASSUME PInv, InPlaceIssue \/ InPlaceStep, NEW k \in Used'
  PROVE  k \in Used /\ dir'[k].folder = dir[k].folder
<1>1. CASE dir' = dir
  BY <1>1 DEF Used, Slots
<1>2. CASE AppendTail
  BY <1>1, <1>2, AppendTailFacts
<1>3. CASE AppendSize \/ AtEntry
  <2>1. Sound /\ Asking /\ slot \in Used
    BY <1>3 DEF AppendSize, AtEntry, PInv, InPlace, VolumePC, Asking
  <2>2. dir \in Seq(Slot) /\ slot \in 1 .. Len(dir) /\ dir[slot] \in Slot
    BY <2>1, UsedSlot DEF Sound, DiskOK, Slots
  <2>3. CASE dir' # dir
    <3>1. PICK n, h : dir' = [dir EXCEPT ![slot] = [dir[slot] EXCEPT !.size = n, !.first = h]]
      <4>1. CASE AppendSize
        <5>1. dir' = [dir EXCEPT ![slot] = [dir[slot] EXCEPT !.size = dir[slot].size + Len(req.arg)]]
          BY <4>1 DEF AppendSize
        <5>2. [dir[slot] EXCEPT !.size = dir[slot].size + Len(req.arg)]
                = [dir[slot] EXCEPT !.size = dir[slot].size + Len(req.arg), !.first = dir[slot].first]
          BY <2>2 DEF Slot
        <5>. QED  BY <5>1, <5>2
      <4>2. CASE AtEntry
        BY <2>3, <4>2 DEF AtEntry
      <4>. QED  BY <1>3, <4>1, <4>2
    <3> DEFINE e == [dir[slot] EXCEPT !.size = n, !.first = h]
    <3>2. e.folder = dir[slot].folder /\ e.name = dir[slot].name
      BY <2>2 DEF Slot
    <3>3. dir' = [dir EXCEPT ![slot] = e]
      BY <3>1
    <3>. HIDE DEF e
    <3>4. /\ Len(dir') = Len(dir) /\ dir'[slot] = e
          /\ \A j \in 1 .. Len(dir) : j # slot => dir'[j] = dir[j]
      BY <2>2, <3>3
    <3>. QED  BY <3>2, <3>4 DEF Used, Slots
  <2>. QED  BY <1>1, <2>3
<1>4. CASE ~(AppendTail \/ AppendSize \/ AtEntry)
  <2>1. dir' = dir
    BY <1>4 DEF InPlaceIssue, AppendFile, WriteAt, EnterInPlace, Enter, disk, InPlaceStep,
       NoSuchFile, NoBuffer, AppendLink, AppendFull, AppendSeal, AppendFill, AtFind, AtFollow,
       AtExtend, AtFull, AtLink, AtSeal, AtWrite, AtWriteFails
  <2>. QED  BY <1>1, <2>1
<1>. QED  BY <1>2, <1>3, <1>4

LEMMA NoFolderStep ==
  ASSUME PInv, Steady, FilesOnly, NoFolder, [InPlaceNext]_allVars
  PROVE  NoFolder'
<1>1. req'.op # "mkdir" /\ req.op # "mkdir"
  BY NoMkdirCalled DEF NoFolder
<1>2. ASSUME NEW k \in Used' PROVE ~dir'[k].folder
  <2>1. CASE VolumeStep
    <3>1. IInv /\ [Next]_vars
      BY <2>1, VolumeStepStep DEF VolumeStep, Volume
    <3>2. ~NewEntry.folder
      BY <1>1 DEF NewEntry, FileSlot
    <3>3. \/ k \in Used /\ dir'[k].folder = dir[k].folder
          \/ dir'[k] = NewEntry
      BY <1>2, <3>1, DirChanges
    <3>. QED  BY <3>2, <3>3 DEF NoFolder
  <2>2. CASE InPlaceIssue \/ InPlaceStep
    BY <1>2, <2>2, EntryKind DEF NoFolder
  <2>3. CASE UNCHANGED allVars
    BY <1>2, <2>3 DEF allVars, vars, disk, NoFolder, Used, Slots
  <2>. QED  BY <2>1, <2>2, <2>3 DEF InPlaceNext
<1>. QED  BY <1>1, <1>2 DEF NoFolder

LEMMA ExactInit == InPlaceInit => Exact
<1>. SUFFICES ASSUME InPlaceInit PROVE Exact
  OBVIOUS
<1>1. Used = {}
  BY ConstantFacts, NameAssumption DEF InPlaceInit, Init, Used, Slots, EmptySlot, NameAssumption
<1>. QED  BY <1>1 DEF InPlaceInit, Init, NoRequest, Exact, NoFolder, WritePC

LEMMA ExactStep ==
  ASSUME PInv, PInv', Steady, FilesOnly, Exact, [InPlaceNext]_allVars
  PROVE  Exact'
<1>1. NoFolder'
  BY NoFolderStep DEF Exact
<1>2. CASE AtFind \/ AtFollow \/ AtExtend \/ AtLink \/ AtSeal \/ AtWrite
  <2>1. Progress'
    BY <1>2, AtFindProgress, AtFollowProgress, AtExtendProgress, AtTableProgress, AtWriteProgress
  <2>2. pc' # "write_at"
    BY <1>2 DEF AtFind, AtFollow, AtExtend, AtLink, AtSeal, AtWrite
  <2>. QED  BY <1>1, <2>1, <2>2 DEF Exact
<1>3. CASE InPlaceIssue
  <2>1. pc' \in {"append", "write_at"} /\ UNCHANGED disk /\ before' = View[req'.name]
    BY <1>3 DEF InPlaceIssue, AppendFile, WriteAt, EnterInPlace, Enter
  <2>2. View' = View
    BY <2>1, SameView
  <2>. QED  BY <1>1, <2>1, <2>2 DEF Exact, WritePC
<1>4. CASE VolumeStep
  <2>1. pc' \in VolumePC
    BY <1>4, VolumeStepStep DEF Volume, IInv, TypeOK, VolumePC
  <2>. QED  BY <1>1, <2>1 DEF Exact, VolumePC, WritePC
<1>5. CASE \/ NoSuchFile \/ NoBuffer \/ AppendTail \/ AppendLink \/ AppendFull \/ AppendSeal
           \/ AppendFill \/ AppendSize \/ AtFull \/ AtWriteFails \/ AtEntry
  <2>1. pc' \notin WritePC
    BY <1>5 DEF NoSuchFile, NoBuffer, AppendTail, AppendLink, AppendFull, AppendSeal, AppendFill,
       AppendSize, AtFull, AtWriteFails, AtEntry, InPlaceReturn, Return, WritePC
  <2>. QED  BY <1>1, <2>1 DEF Exact, WritePC
<1>6. CASE UNCHANGED allVars
  <2>1. View' = View
    BY <1>6, SameView DEF allVars, vars
  <2>2. UNCHANGED <<fat, data, dir, pc, req, rest, first_c, slot, pos, before>>
    BY <1>6 DEF allVars, vars, disk, locals, more
  <2>3. Progress => Progress'
    BY <2>2 DEF Progress, Written, Holds, Met
  <2>. QED  BY <1>1, <2>1, <2>2, <2>3 DEF Exact
<1>. QED  BY <1>2, <1>3, <1>4, <1>5, <1>6 DEF InPlaceNext, InPlaceStep

\* The last step of a write that succeeds: the entry of the file gets its size
\* and its chain.
LEMMA EntryWritten ==
  ASSUME PInv, Steady, FilesOnly, [InPlaceNext]_allVars, Answers("write_at", "SUCCESS")
  PROVE  /\ AtEntry /\ pc = "at_walk" /\ rest = << >> /\ UNCHANGED <<fat, data>>
         /\ dir' = [dir EXCEPT ![slot].size = Larger(@, pos), ![slot].first = first_c]
<1>1. req.op = "write_at" /\ pc # "idle" /\ pc' = "idle" /\ status' = "SUCCESS"
  BY DEF Answers
<1>2. pc \notin VolumePC
  BY <1>1 DEF PInv, Volume, IInv, TypeOK, Request
<1>3. pc \in WritePC
  <2>1. Asking /\ pc \in AppendPC \cup WritePC
    BY <1>2 DEF PInv, InPlace
  <2>. QED  BY <1>1, <2>1 DEF Asking
<1>4. ~VolumeStep /\ ~InPlaceIssue
  BY <1>2, <1>1, VolumeCalls DEF VolumeStep, InPlaceIssue, AppendFile, WriteAt, EnterInPlace, Enter
<1>5. pc' # pc
  BY <1>1
<1>6. AtEntry
  BY <1>1, <1>3, <1>4, <1>5 DEF InPlaceNext, InPlaceStep, NoSuchFile, NoBuffer, AppendTail, AppendLink,
     AppendFull, AppendSeal, AppendFill, AppendSize, AtFind, AtFollow, AtExtend, AtFull, AtLink,
     AtSeal, AtWrite, AtWriteFails, InPlaceReturn, Return, allVars, vars, WritePC
<1>. QED  BY <1>6 DEF AtEntry, FilesOnly

\* A function on 1 .. n is a sequence of n.
LEMMA LenIs ==
  ASSUME NEW n \in Nat, NEW s, s = [i \in 1 .. n |-> s[i]]
  PROVE  Len(s) = n
<1>1. DOMAIN s = 1 .. n
  BY Zenon
<1>2. s \in Seq({s[i] : i \in 1 .. n})
  BY <1>1
<1>. QED  BY <1>1, <1>2

\* What the answer of a write that succeeds shows.
LEMMA ExactAnswer ==
  ASSUME PInv, PInv', Steady, FilesOnly, Exact, [InPlaceNext]_allVars,
         Answers("write_at", "SUCCESS")
  PROVE  LET new == View'[req.name]
             off == pos - Len(req.arg)
         IN /\ Len(new) = Larger(Len(before), pos)
            /\ \A i \in 1 .. Len(new) :
                 IF i > off /\ i <= pos THEN new[i] = req.arg[i - off]
                 ELSE i <= Len(before) => new[i] = before[i]
<1> DEFINE n == dir[slot].size
           t == Larger(n, pos)
           new == View'[req.name]
           off == pos - Len(req.arg)
<1>1. /\ pc = "at_walk" /\ rest = << >> /\ fat' = fat /\ data' = data
      /\ dir' = [dir EXCEPT ![slot].size = Larger(@, pos), ![slot].first = first_c]
  BY EntryWritten
<1>2. InPlace /\ pc \in WritePC \ {"write_at"} /\ Progress /\ NoFolder
  BY <1>1 DEF PInv, VolumePC, WritePC, Exact
<1>3. /\ pos \in Nat /\ Len(req.arg) \in Nat /\ DiskOK
      /\ slot \in Used /\ dir[slot].name = req.name /\ n \in Nat
      /\ Written = Len(req.arg) /\ off \in Nat /\ off + Len(req.arg) = pos
  <2>1. /\ pos \in Nat /\ Written \in Nat /\ Len(rest) \in Nat /\ Len(req.arg) \in Nat /\ DiskOK
        /\ slot \in Used /\ dir[slot].name = req.name /\ n \in Nat /\ Written <= pos
    BY <1>2, ProgressTypes DEF Progress
  <2>2. Written = Len(req.arg)
    BY <1>1, <2>1 DEF Written
  <2>. QED  BY <2>1, <2>2
<1>4. Len(before) = n
  BY <1>2, <1>3, LenIs DEF Progress
<1>5. t \in Nat /\ (t = n \/ t = pos) /\ n <= t /\ pos <= t
  BY <1>3 DEF Larger
<1>6. new = Contents(fat, data, first_c, t)
  <2>0. PICK k : k = slot
    OBVIOUS
  <2>1. dir \in Seq(Slot) /\ k \in 1 .. Len(dir) /\ dir[k] \in Slot /\ ~dir[k].folder
    BY <1>2, <1>3, <2>0, UsedSlot DEF DiskOK, Slots, NoFolder
  <2>2. /\ Len(dir') = Len(dir) /\ dir'[k].name = req.name
        /\ ~dir'[k].folder /\ dir'[k].first = first_c /\ dir'[k].size = t
    BY <1>1, <1>3, <2>0, <2>1 DEF Slot
  <2>3. k \in Used'
    BY <1>3, <2>0, <2>1, <2>2 DEF Used, Slots
  <2>4. ViewSound'
    BY PInvViewNext
  <2>5. View'[dir'[k].name] = Value(k)'
    BY <2>3, <2>4 DEF ViewSound
  <2>. HIDE DEF t
  <2>6. Value(k)' = Contents(fat', data', first_c, t)
    BY <2>2 DEF Value
  <2>. QED  BY <1>1, <2>2, <2>5, <2>6
<1>. HIDE DEF new, t, n
<1>7. Len(new) = t
  <2>1. new = [i \in 1 .. t |-> new[i]]
    BY <1>6 DEF Contents
  <2>. QED  BY <1>5, <2>1, LenIs
<1>8. ASSUME NEW i \in 1 .. t, NEW v, Holds(fat, data, first_c, i, v)
      PROVE  new[i] = v
  BY <1>6, <1>8 DEF Contents, Holds, Met
<1>9. ASSUME NEW i \in 1 .. t, i > off, i <= pos
      PROVE  new[i] = req.arg[i - off]
  <2>1. i - off \in 1 .. Written /\ pos - Written + (i - off) = i
    <3>1. /\ i \in Nat /\ off \in Nat /\ pos \in Nat /\ Written \in Nat /\ off = pos - Written
          /\ i > off /\ i <= pos
      BY <1>3, <1>5, <1>9
    <3>. HIDE DEF off
    <3>. QED  BY <3>1
  <2>2. Holds(fat, data, first_c, pos - Written + (i - off), req.arg[i - off])
    BY <1>2, <2>1 DEF Progress
  <2>. QED  BY <1>8, <1>9, <2>1, <2>2
<1>10. ASSUME NEW i \in 1 .. t, ~(i > off /\ i <= pos), i <= n
       PROVE  new[i] = before[i]
  <2>1. i \in 1 .. n /\ (i <= pos - Written \/ i > pos)
    BY <1>3, <1>5, <1>10
  <2>2. Holds(fat, data, first_c, i, before[i])
    BY <1>2, <2>1 DEF Progress, n
  <2>. QED  BY <1>8, <1>10, <2>2
<1>. QED  BY <1>4, <1>7, <1>9, <1>10 DEF t, n, new

\* A random write that succeeds leaves the file with the units it was asked for
\* at their place, with all others as they were, and as long as the farther of
\* its old end and the last unit written, over as many clusters as that takes
\* and whatever failed calls left behind its end.
THEOREM WriteAtExactTheorem == Steady /\ FilesOnly /\ InPlaceSpec => WriteAtExact
<1>1. Steady /\ FilesOnly => Steady' /\ FilesOnly'
  BY DEF Steady, FilesOnly
<1>2. Steady /\ FilesOnly /\ PInv /\ PInv' /\ Exact /\ [InPlaceNext]_allVars => Exact'
  BY ExactStep
<1>3. Steady /\ FilesOnly /\ PInv /\ PInv' /\ Exact /\ [InPlaceNext]_allVars =>
        [Answers("write_at", "SUCCESS") =>
           LET new == View'[req.name]
               off == pos - Len(req.arg)
           IN /\ Len(new) = Larger(Len(before), pos)
              /\ \A i \in 1 .. Len(new) :
                   IF i > off /\ i <= pos THEN new[i] = req.arg[i - off]
                   ELSE i <= Len(before) => new[i] = before[i]]_allVars
  BY ExactAnswer
<1>. QED  BY <1>1, <1>2, <1>3, ExactInit, InPlaceInvariance, PTL DEF InPlaceSpec, WriteAtExact
=============================================================================
