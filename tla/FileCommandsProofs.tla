------------------------- MODULE FileCommandsProofs -------------------------
(***************************************************************************)
(* The commands of FileCommands do what they answer, for any programs,     *)
(* spellings, lengths and slices, and any calls that fail.                 *)
(*                                                                         *)
(* The argument: as long as no other program writes to a copy's files, the *)
(* destination holds the first off units of the source as it was at the    *)
(* beginning, and buf the next ones.  When source and destination are two  *)
(* spellings of one name, the first slice has cut the source to its own    *)
(* length: a second one cannot be read, so such a copy is right (one slice)*)
(* or fails.                                                               *)
(***************************************************************************)
EXTENDS FileCommands, SequenceTheorems, TLAPS

Value == Unit \cup {Garbage}
Ops == {"kernel_copy", "copy", "touch", "write", "delete"}
Job == [op : Ops \cup {"none"},
        pc : {"idle", "guard", "read", "put", "check", "clean", "stat", "do", "look"},
        src : Spelling \cup {"none"}, dst : Spelling \cup {"none"}, arg : Seq(Value),
        size : Nat, off : Nat, first : BOOLEAN, buf : Seq(Value),
        rc : {"OK", "READ", "WRITE", "APPEND", "VERIFY"}]

Types == /\ store \in [Name -> Seq(Value) \cup {Absent}]
         /\ job \in [Proc -> Job]
         /\ DOMAIN answer = Proc
         /\ start \in [Proc -> Seq(Value) \cup {Absent}]
         /\ touched \subseteq Proc

\* Which points of a command belong to which command.
Points(p) ==
  /\ job[p].op = "none" <=> job[p].pc = "idle"
  /\ job[p].op # "none" => job[p].dst \in Spelling
  /\ job[p].op \in Copies => /\ job[p].src \in Spelling
                             /\ job[p].pc \in {"guard", "read", "put", "check", "clean"}
  /\ job[p].op \notin Copies => job[p].pc \in {"idle", "stat", "do", "look"}
  /\ job[p].pc = "clean" => job[p].rc # "OK"

\* The k units of s are the ones of f behind the first j.
Part(s, f, j, k) == /\ s \in Seq(Value) /\ Len(s) = k /\ j + k <= Len(f)
                    /\ \A i \in 1 .. k : s[i] = f[j + i]

\* What a copy that nobody disturbs has read and written.
Copied(p) ==
  LET f == start[p]
  IN /\ f \in Seq(Value) /\ f # Absent /\ job[p].size = Len(f) /\ job[p].off <= Len(f)
     /\ job[p].first \/ Src(p) # Dst(p) => store[Src(p)] = f
     /\ IF job[p].first THEN job[p].off = 0 ELSE Part(store[Dst(p)], f, 0, job[p].off)
     /\ job[p].pc = "read" => job[p].off < Len(f)
     /\ job[p].pc = "put" => /\ job[p].first \/ Src(p) # Dst(p)
                             /\ Part(job[p].buf, f, job[p].off, Smaller(Chunk, Len(f) - job[p].off))
     /\ job[p].pc = "check" => job[p].off = Len(f) /\ ~job[p].first

CopySound(p) ==
  p \notin touched =>
    /\ job[p].pc = "guard" => /\ store[Src(p)] = start[p]
                              /\ job[p].first /\ job[p].off = 0 /\ job[p].buf = << >>
    /\ job[p].pc \in {"read", "put", "check"} => Copied(p)

\* A touch that looked and found nothing still has nothing there.
TouchSound(p) ==
  p \notin touched /\ job[p].op = "touch" /\ job[p].pc = "do" => store[Dst(p)] = Absent

Sound(p) == Points(p) /\ CopySound(p) /\ TouchSound(p)

CInv == Types /\ \A p \in Proc : Sound(p)

-----------------------------------------------------------------------------
LEMMA Constants ==
  /\ Short \in [Spelling -> Name] /\ Chunk \in Nat \ {0} /\ Content \subseteq Seq(Value)
  /\ << >> \in Seq(Value)
  /\ \A p \in Proc : Commands[p] \subseteq Ops
<1>1. Seq(Unit) \subseteq Seq(Value)
  BY SeqMonotonic DEF Value
<1>2. << >> \in Seq(Value)
  BY EmptySeq
<1>. QED  BY <1>1, <1>2, CommandsAssumption DEF CommandsAssumption, Ops

\* A step of q is q's: it changes q's job, q's start, and what one name holds,
\* which touches the other programs whose files are there.
LEMMA StepShape ==
  ASSUME NEW q \in Proc, Issue(q) \/ Run(q)
  PROVE  /\ \E r : job' = [job EXCEPT ![q] = r]
         /\ start' = start \/ \E f : start' = [start EXCEPT ![q] = f]
         /\ \/ store' = store /\ (touched' = touched \/ touched' = touched \ {q})
            \/ \E n, v : Put(q, n, v)
<1> DEFINE Mine == /\ \E r : job' = [job EXCEPT ![q] = r]
                   /\ start' = start \/ \E f : start' = [start EXCEPT ![q] = f]
           Files1 == \/ store' = store /\ (touched' = touched \/ touched' = touched \ {q})
                     \/ \E n, v : Put(q, n, v)
<1>1. ASSUME NEW op, NEW src, NEW dst, NEW s, Begin(q, op, src, dst, s) PROVE Mine /\ Files1
  BY <1>1, Zenon DEF Begin, Go
<1>2. ASSUME NEW r, Go(q, r) PROVE \E x : job' = [job EXCEPT ![q] = x]
  BY <1>2 DEF Go
<1>3. ASSUME NEW rc, Answer(q, rc) PROVE Mine
  BY <1>3, Zenon DEF Answer
<1>4. ASSUME NEW rc, Abandon(q, rc) PROVE \E x : job' = [job EXCEPT ![q] = x]
  BY <1>2, <1>4 DEF Abandon
<1>5. Advance(q) => \E x : job' = [job EXCEPT ![q] = x]
  BY <1>2 DEF Advance
<1>6. Keep => Files1
  BY DEF Keep
<1>7. ASSUME NEW n, NEW v, Put(q, n, v) PROVE Files1
  BY <1>7
<1>8. ASSUME Refuse(q) \/ Accept(q) \/ Check(q) \/ Look(q) PROVE Mine /\ Files1
  BY <1>2, <1>3, <1>4, <1>6, <1>8, Zenon DEF Refuse, Accept, Check, Look
<1>9. ASSUME ReadSlice(q) PROVE Mine /\ Files1
  BY <1>2, <1>4, <1>6, <1>9, Zenon DEF ReadSlice
<1>10. ASSUME PutFirst(q) \/ PutNext(q) PROVE Mine /\ Files1
  BY <1>4, <1>5, <1>6, <1>7, <1>10, Zenon DEF PutFirst, PutNext
<1>11. ASSUME Clean(q) \/ Stat(q) PROVE Mine /\ Files1
  BY <1>2, <1>3, <1>6, <1>7, <1>11, Zenon DEF Clean, Stat
<1>12. ASSUME Do(q) PROVE Mine /\ Files1
  BY <1>2, <1>3, <1>6, <1>7, <1>12, Zenon DEF Do
<1>. QED  BY <1>1, <1>8, <1>9, <1>10, <1>11, <1>12 DEF Issue, Run

\* What a step of q leaves of another program's command: all of it, and its
\* files, unless the program counts as touched.
LEMMA OthersKeep ==
  ASSUME Types, NEW q \in Proc, Issue(q) \/ Run(q), NEW p \in Proc \ {q}
  PROVE  /\ job'[p] = job[p] /\ start'[p] = start[p]
         /\ p \notin touched' => p \notin touched /\ \A n \in Files(p) \cap Name : store'[n] = store[n]
<1>1. job'[p] = job[p] /\ start'[p] = start[p]
  BY StepShape DEF Types
<1>2. ASSUME NEW n, NEW v, Put(q, n, v)
      PROVE  p \notin touched' => p \notin touched /\ \A m \in Files(p) \cap Name : store'[m] = store[m]
  BY <1>2 DEF Put, Types
<1>. QED  BY <1>1, <1>2, StepShape

\* So another program's command stays sound.
LEMMA OthersSound ==
  ASSUME Types, NEW q \in Proc, Issue(q) \/ Run(q), NEW p \in Proc \ {q}, Sound(p)
  PROVE  Sound(p)'
<1>1. /\ job'[p] = job[p] /\ start'[p] = start[p]
      /\ p \notin touched' => p \notin touched /\ \A n \in Files(p) \cap Name : store'[n] = store[n]
  BY OthersKeep
<1>2. Points(p)'
  BY <1>1 DEF Sound, Points
<1>3. job[p].dst \in Spelling => Dst(p) \in Files(p) \cap Name
  BY Constants DEF Dst, Files
<1>4. job[p].src \in Spelling => Src(p) \in Files(p) \cap Name
  BY Constants DEF Src, Files
<1>5. Src(p)' = Src(p) /\ Dst(p)' = Dst(p)
  BY <1>1 DEF Src, Dst
<1>6. CopySound(p)'
  <2>1. SUFFICES ASSUME p \notin touched', job[p].pc \in {"guard", "read", "put", "check"}
                 PROVE  /\ job[p].pc = "guard" => /\ store'[Src(p)] = start[p]
                                                  /\ job[p].first /\ job[p].off = 0 /\ job[p].buf = << >>
                        /\ job[p].pc \in {"read", "put", "check"} => Copied(p)'
    BY <1>1, <1>5 DEF CopySound
  <2>2. job[p].op \in Copies
    BY <2>1 DEF Sound, Points
  <2>3. store'[Src(p)] = store[Src(p)] /\ store'[Dst(p)] = store[Dst(p)] /\ p \notin touched
    BY <1>1, <1>3, <1>4, <2>1, <2>2 DEF Sound, Points, Copies
  <2>. QED  BY <1>1, <1>5, <2>1, <2>3 DEF Sound, CopySound, Copied, Part
<1>7. TouchSound(p)'
  BY <1>1, <1>3, <1>5 DEF Sound, Points, TouchSound
<1>. QED  BY <1>2, <1>6, <1>7 DEF Sound

-----------------------------------------------------------------------------
LEMMA JobFacts ==
  ASSUME Types, NEW q \in Proc
  PROVE  /\ job[q] \in Job /\ job[q].off \in Nat /\ job[q].size \in Nat
         /\ job[q].buf \in Seq(Value) /\ job[q].arg \in Seq(Value) /\ job[q].first \in BOOLEAN
         /\ start[q] \in Seq(Value) \cup {Absent}
         /\ job[q].dst \in Spelling => Dst(q) \in Name
         /\ job[q].src \in Spelling => Src(q) \in Name
         /\ \A n \in Name : store[n] # Absent => store[n] \in Seq(Value) /\ Len(store[n]) \in Nat
<1>1. job[q] \in Job
  BY DEF Types
<1>2. /\ job[q].off \in Nat /\ job[q].size \in Nat
      /\ job[q].buf \in Seq(Value) /\ job[q].arg \in Seq(Value) /\ job[q].first \in BOOLEAN
  BY <1>1 DEF Job
<1>3. \A n \in Name : store[n] # Absent => store[n] \in Seq(Value) /\ Len(store[n]) \in Nat
  BY DEF Types
<1>. QED  BY <1>1, <1>2, <1>3, Constants DEF Types, Dst, Src

\* Between commands there is nothing to be sound about.
LEMMA IdleSound ==
  ASSUME Types, NEW q \in Proc, job' = [job EXCEPT ![q] = Idle]
  PROVE  Sound(q)' /\ job' \in [Proc -> Job]
<1>1. Idle \in Job
  BY Constants DEF Idle, Job
<1>2. job'[q] = Idle /\ job' \in [Proc -> Job]
  BY <1>1 DEF Types
<1>3. /\ Idle.op = "none" /\ Idle.pc = "idle"
  BY DEF Idle
<1>. QED  BY <1>2, <1>3 DEF Sound, Points, CopySound, TouchSound, Copies

LEMMA AnswerSound ==
  ASSUME Types, NEW q \in Proc, NEW rc, Answer(q, rc),
         store' \in [Name -> Seq(Value) \cup {Absent}], touched' \subseteq Proc
  PROVE  Types' /\ Sound(q)'
<1>1. Sound(q)' /\ job' \in [Proc -> Job]
  BY IdleSound DEF Answer
<1>2. start' \in [Proc -> Seq(Value) \cup {Absent}] /\ DOMAIN answer' = Proc
  BY DEF Answer, Types
<1>. QED  BY <1>1, <1>2 DEF Types

LEMMA PutFacts ==
  ASSUME Types, NEW q \in Proc, NEW n \in Name, NEW v \in Seq(Value) \cup {Absent}, Put(q, n, v)
  PROVE  /\ store' \in [Name -> Seq(Value) \cup {Absent}] /\ touched' \subseteq Proc
         /\ store'[n] = v /\ \A m \in Name \ {n} : store'[m] = store[m]
         /\ q \in touched' <=> q \in touched
BY DEF Types, Put

LEMMA KeepFacts ==
  ASSUME Types, Keep
  PROVE  store' \in [Name -> Seq(Value) \cup {Absent}] /\ touched' \subseteq Proc
BY DEF Types, Keep

\* A step that moves q's command on.
LEMMA GoTypes ==
  ASSUME Types, NEW q \in Proc, NEW r \in Job, Go(q, r),
         store' \in [Name -> Seq(Value) \cup {Absent}], touched' \subseteq Proc,
         start' \in [Proc -> Seq(Value) \cup {Absent}], DOMAIN answer' = Proc
  PROVE  Types' /\ job'[q] = r
BY DEF Types, Go

LEMMA BeginSound ==
  ASSUME Types, NEW q \in Proc, Issue(q)
  PROVE  Types' /\ Sound(q)'
<1>1. PICK op \in Ops, src \in Spelling \cup {"none"}, dst \in Spelling, s \in Seq(Value) :
        Begin(q, op, src, dst, s) /\ (op \in Copies => src \in Spelling)
  <2>1. PICK dst \in Spelling :
          \/ \E op \in Copies, src \in Spelling : Begin(q, op, src, dst, << >>)
          \/ \E op \in {"touch", "delete"} : Begin(q, op, "none", dst, << >>)
          \/ \E s \in Content : Begin(q, "write", "none", dst, s)
    BY DEF Issue
  <2>2. CASE \E op \in Copies, src \in Spelling : Begin(q, op, src, dst, << >>)
    <3>1. Copies \subseteq Ops
      BY DEF Copies, Ops
    <3>. QED  BY <2>2, <3>1, Constants
  <2>3. CASE \E op \in {"touch", "delete"} : Begin(q, op, "none", dst, << >>)
    <3>1. {"touch", "delete"} \subseteq Ops \ Copies
      BY DEF Copies, Ops
    <3>. QED  BY <2>3, <3>1, Constants
  <2>4. CASE \E s \in Content : Begin(q, "write", "none", dst, s)
    <3>1. "write" \in Ops \ Copies
      BY DEF Copies, Ops
    <3>. QED  BY <2>4, <3>1, Constants
  <2>. QED  BY <2>1, <2>2, <2>3, <2>4
<1> DEFINE r == [Idle EXCEPT !.op = op, !.src = src, !.dst = dst, !.arg = s,
                             !.pc = IF op \in Copies THEN "guard" ELSE "stat"]
<1>2. /\ r.op = op /\ r.src = src /\ r.dst = dst /\ r.pc = (IF op \in Copies THEN "guard" ELSE "stat")
      /\ r.first = TRUE /\ r.off = 0 /\ r.buf = << >> /\ r.rc = "OK" /\ r \in Job
  BY Constants DEF Idle, Job
<1>3. Go(q, r) /\ store' = store /\ touched' = touched \ {q} /\ DOMAIN answer' = Proc
      /\ start' = [start EXCEPT ![q] = IF op \in Copies THEN store[Short[src]] ELSE Absent]
  BY <1>1 DEF Begin, Types
<1>4. start' \in [Proc -> Seq(Value) \cup {Absent}]
      /\ start'[q] = IF op \in Copies THEN store[Short[src]] ELSE Absent
  BY <1>1, <1>3, Constants DEF Types
<1> HIDE DEF r
<1>5. Types' /\ job'[q] = r
  BY <1>2, <1>3, <1>4, GoTypes DEF Types
<1>. QED  BY <1>1, <1>2, <1>3, <1>4, <1>5 DEF Sound, Points, CopySound, TouchSound, Ops, Copies, Src

LEMMA AcceptSound ==
  ASSUME Types, NEW q \in Proc, Sound(q), Accept(q)
  PROVE  Types' /\ Sound(q)'
<1> DEFINE f == store[Src(q)]
           r == [job[q] EXCEPT !.size = Len(f), !.pc = IF f = << >> THEN "put" ELSE "read"]
<1>1. /\ job[q].pc = "guard" /\ job[q].op \in Copies /\ job[q].src \in Spelling /\ job[q].dst \in Spelling
      /\ f # Absent /\ Go(q, r) /\ Keep /\ UNCHANGED <<answer, start>>
  BY DEF Accept, Sound, Points, Found, Src, Copies
<1>2. f \in Seq(Value) /\ Len(f) \in Nat /\ (f # << >> => Len(f) > 0) /\ (f = << >> => Len(f) = 0)
  BY <1>1, JobFacts, EmptySeq
<1>3. /\ r.op = job[q].op /\ r.src = job[q].src /\ r.dst = job[q].dst /\ r.size = Len(f)
      /\ r.pc = (IF f = << >> THEN "put" ELSE "read") /\ r.off = job[q].off /\ r.buf = job[q].buf
      /\ r.first = job[q].first /\ r.rc = job[q].rc /\ r \in Job
  BY <1>2, JobFacts DEF Job
<1> HIDE DEF r
<1>4. Types' /\ job'[q] = r
  BY <1>1, <1>3, KeepFacts, GoTypes DEF Types
<1>5. Src(q)' = Src(q) /\ Dst(q)' = Dst(q) /\ store' = store /\ touched' = touched /\ start' = start
  BY <1>1, <1>3, <1>4 DEF Src, Dst, Keep
<1>6. Points(q)' /\ TouchSound(q)'
  BY <1>1, <1>3, <1>4 DEF Points, TouchSound, Copies
<1>7. CopySound(q)'
  <2>1. SUFFICES ASSUME q \notin touched PROVE Copied(q)'
    BY <1>3, <1>4, <1>5 DEF CopySound
  <2>2. start[q] = f /\ job[q].first /\ job[q].off = 0 /\ job[q].buf = << >>
    BY <1>1, <2>1 DEF Sound, CopySound
  <2>3. r.off = 0 /\ r.first /\ r.size = Len(f) /\ r.pc # "check"
        /\ (r.pc = "read" => r.off < Len(f))
    BY <1>2, <1>3, <2>2
  <2>4. r.pc = "put" => Part(r.buf, f, r.off, Smaller(Chunk, Len(f) - r.off))
    <3>1. SUFFICES ASSUME f = << >>
                   PROVE  Part(<< >>, f, 0, Smaller(Chunk, Len(f) - 0))
      BY <1>3, <2>2
    <3>2. Smaller(Chunk, Len(f) - 0) = 0
      BY <1>2, <3>1, Constants DEF Smaller
    <3>. QED  BY <1>2, <3>1, <3>2, EmptySeq DEF Part
  <2>. HIDE DEF f
  <2>5. /\ job'[q] = r /\ start'[q] = f /\ store'[Src(q)'] = f
    BY <1>4, <1>5, <2>2 DEF f
  <2>. QED  BY <1>1, <1>2, <2>3, <2>4, <2>5 DEF Copied
<1>. QED  BY <1>4, <1>6, <1>7 DEF Sound

LEMMA WholePart ==
  ASSUME NEW f \in Seq(Value), NEW s, Part(s, f, 0, Len(f))
  PROVE  s = f
<1>1. s \in Seq(Value) /\ Len(s) = Len(f) /\ Len(f) \in Nat /\ \A i \in 1 .. Len(f) : s[i] = f[0 + i]
  BY DEF Part
<1>2. \A i \in 1 .. Len(s) : s[i] = f[i]
  BY <1>1
<1>. QED  BY <1>1, <1>2, SeqEqual

LEMMA NextPart ==
  ASSUME NEW f \in Seq(Value), NEW k \in Nat, NEW n \in Nat, NEW s, NEW b,
         Part(s, f, 0, k), Part(b, f, k, n)
  PROVE  Part(s \o b, f, 0, k + n)
<1>1. /\ s \in Seq(Value) /\ Len(s) = k /\ b \in Seq(Value) /\ Len(b) = n /\ k + n <= Len(f)
      /\ \A i \in 1 .. k : s[i] = f[0 + i]
      /\ \A i \in 1 .. n : b[i] = f[k + i]
  BY DEF Part
<1>2. /\ s \o b \in Seq(Value) /\ Len(s \o b) = k + n
      /\ \A i \in 1 .. k + n : (s \o b)[i] = IF i <= k THEN s[i] ELSE b[i - k]
  BY <1>1, ConcatProperties
<1>3. ASSUME NEW i \in 1 .. k + n PROVE (s \o b)[i] = f[0 + i]
  <2>1. CASE i <= k
    BY <1>1, <1>2, <2>1
  <2>2. CASE i > k
    <3>1. i - k \in 1 .. n /\ k + (i - k) = i
      BY <2>2
    <3>. QED  BY <1>1, <1>2, <2>2, <3>1
  <2>3. i <= k \/ i > k
    OBVIOUS
  <2>. QED  BY <2>1, <2>2, <2>3, Zenon
<1>. QED  BY <1>1, <1>2, <1>3 DEF Part

\* Abandoning a copy is sound wherever it was.
LEMMA AbandonSound ==
  ASSUME Types, NEW q \in Proc, Sound(q), job[q].op \in Copies,
         NEW rc \in {"READ", "WRITE", "APPEND", "VERIFY"}, Abandon(q, rc),
         store' \in [Name -> Seq(Value) \cup {Absent}], touched' \subseteq Proc,
         UNCHANGED <<answer, start>>
  PROVE  Types' /\ Sound(q)'
<1> DEFINE r == [job[q] EXCEPT !.pc = "clean", !.rc = rc]
<1>1. /\ r.op = job[q].op /\ r.src = job[q].src /\ r.dst = job[q].dst /\ r.pc = "clean"
      /\ r.rc = rc /\ r \in Job
  BY JobFacts DEF Job
<1>2. Go(q, r)
  BY DEF Abandon
<1> HIDE DEF r
<1>3. Types' /\ job'[q] = r
  BY <1>1, <1>2, GoTypes DEF Types
<1>. QED  BY <1>1, <1>3 DEF Sound, Points, CopySound, TouchSound, Copies

\* The slice that is read is the next part of the file, when the file is still
\* as it was.
LEMMA SliceFacts ==
  ASSUME Types, NEW q \in Proc, job[q].src \in Spelling, Readable(q), job[q].off < job[q].size
  PROVE  /\ Slice(q) \in Seq(Value)
         /\ \A f : store[Src(q)] = f /\ job[q].size = Len(f) =>
              Part(Slice(q), f, job[q].off, Smaller(Chunk, Len(f) - job[q].off))
<1> DEFINE g == store[Src(q)]
           n == Smaller(Chunk, job[q].size - job[q].off)
           e(i) == IF job[q].off + i <= Len(g) THEN g[job[q].off + i]
                   ELSE IF i <= Len(job[q].buf) THEN job[q].buf[i] ELSE Garbage
<1>1. g \in Seq(Value) /\ Len(g) \in Nat /\ job[q].off \in Nat /\ job[q].size \in Nat
      /\ job[q].buf \in Seq(Value) /\ Len(job[q].buf) \in Nat
  BY JobFacts DEF Readable
<1>2. n \in Nat /\ job[q].off + n <= job[q].size
  BY <1>1, Constants DEF Smaller
<1>3. Slice(q) = [i \in 1 .. n |-> e(i)]
  BY DEF Slice
<1>4. ASSUME NEW i \in 1 .. n PROVE e(i) \in Value
  <2>1. CASE job[q].off + i <= Len(g)
    <3>1. job[q].off + i \in 1 .. Len(g)
      BY <1>1, <1>2, <2>1
    <3>. QED  BY <1>1, <2>1, <3>1, ElementOfSeq
  <2>2. CASE ~(job[q].off + i <= Len(g)) /\ i <= Len(job[q].buf)
    <3>1. i \in 1 .. Len(job[q].buf)
      BY <1>1, <1>2, <2>2
    <3>. QED  BY <1>1, <2>2, <3>1, ElementOfSeq
  <2>3. CASE ~(job[q].off + i <= Len(g)) /\ ~(i <= Len(job[q].buf))
    BY <2>3 DEF Value
  <2>. QED  BY <2>1, <2>2, <2>3
<1>5. Slice(q) \in [1 .. n -> Value]
  BY <1>3, <1>4
<1>6. Slice(q) \in Seq(Value)
  BY <1>2, <1>5, SeqDef
<1>7. Len(Slice(q)) = n
  BY <1>2, <1>5, <1>6, LenProperties
<1>8. ASSUME NEW f, g = f, job[q].size = Len(f)
      PROVE  Part(Slice(q), f, job[q].off, Smaller(Chunk, Len(f) - job[q].off))
  <2>1. \A i \in 1 .. n : job[q].off + i <= Len(g)
    BY <1>1, <1>2, <1>8
  <2>2. \A i \in 1 .. n : Slice(q)[i] = f[job[q].off + i]
    BY <1>3, <1>8, <2>1
  <2>. QED  BY <1>2, <1>6, <1>7, <1>8, <2>2 DEF Part
<1>. QED  BY <1>6, <1>8

LEMMA ReadSound ==
  ASSUME Types, NEW q \in Proc, Sound(q), ReadSlice(q)
  PROVE  Types' /\ Sound(q)'
<1>1. /\ job[q].pc = "read" /\ job[q].op \in Copies /\ job[q].src \in Spelling /\ job[q].dst \in Spelling
      /\ job[q].off < job[q].size /\ Keep /\ UNCHANGED <<answer, start>>
  BY DEF ReadSlice, Sound, Points, Copies
<1>2. CASE Abandon(q, "READ")
  BY <1>1, <1>2, KeepFacts, AbandonSound
<1>3. CASE Readable(q) /\ Go(q, [job[q] EXCEPT !.pc = "put", !.buf = Slice(q)])
  <2> DEFINE r == [job[q] EXCEPT !.pc = "put", !.buf = Slice(q)]
  <2>1. Slice(q) \in Seq(Value)
    BY <1>1, <1>3, SliceFacts
  <2>2. /\ r.op = job[q].op /\ r.src = job[q].src /\ r.dst = job[q].dst /\ r.size = job[q].size
        /\ r.pc = "put" /\ r.off = job[q].off /\ r.buf = Slice(q)
        /\ r.first = job[q].first /\ r.rc = job[q].rc /\ r \in Job
    BY <2>1, JobFacts DEF Job
  <2> HIDE DEF r
  <2>3. Types' /\ job'[q] = r
    BY <1>1, <1>3, <2>2, KeepFacts, GoTypes DEF Types, r
  <2>4. Src(q)' = Src(q) /\ Dst(q)' = Dst(q) /\ store' = store /\ touched' = touched /\ start' = start
    BY <1>1, <2>2, <2>3 DEF Src, Dst, Keep
  <2>5. Points(q)' /\ TouchSound(q)'
    BY <1>1, <2>2, <2>3 DEF Points, TouchSound, Copies
  <2>6. CopySound(q)'
    <3>1. SUFFICES ASSUME q \notin touched PROVE Copied(q)'
      BY <2>2, <2>3, <2>4 DEF CopySound
    <3>2. Copied(q)
      BY <1>1, <3>1 DEF Sound, CopySound
    <3>3. job[q].first \/ Src(q) # Dst(q)
      BY <1>1, <1>3, <3>2, JobFacts DEF Copied, Readable, Part
    <3>4. store[Src(q)] = start[q] /\ job[q].size = Len(start[q])
      BY <3>2, <3>3 DEF Copied
    <3>5. Part(Slice(q), start[q], job[q].off, Smaller(Chunk, Len(start[q]) - job[q].off))
      BY <1>1, <1>3, <3>4, SliceFacts
    <3>. QED  BY <2>2, <2>3, <2>4, <3>2, <3>3, <3>5 DEF Copied
  <2>. QED  BY <2>3, <2>5, <2>6 DEF Sound
<1>. QED  BY <1>2, <1>3 DEF ReadSlice

\* A slice is on the disk: what Advance leaves, when the destination holds the
\* file so far.
LEMMA AdvanceSound ==
  ASSUME Types, NEW q \in Proc, Sound(q), job[q].pc = "put", job[q].op \in Copies,
         Advance(q), NEW v \in Seq(Value), Put(q, Dst(q), v), UNCHANGED <<answer, start>>,
         q \notin touched => Part(v, start[q], 0, job[q].off + Len(job[q].buf))
  PROVE  Types' /\ Sound(q)'
<1> DEFINE m == job[q].off + Len(job[q].buf)
           r == [job[q] EXCEPT !.pc = IF m < job[q].size THEN "read" ELSE "check",
                               !.off = m, !.first = FALSE]
<1>1. job[q].src \in Spelling /\ job[q].dst \in Spelling /\ Src(q) \in Name /\ Dst(q) \in Name
  BY JobFacts DEF Sound, Points, Copies
<1>2. m \in Nat
  BY JobFacts
<1>3. /\ r.op = job[q].op /\ r.src = job[q].src /\ r.dst = job[q].dst /\ r.size = job[q].size
      /\ r.pc = (IF m < job[q].size THEN "read" ELSE "check") /\ r.off = m /\ r.buf = job[q].buf
      /\ r.first = FALSE /\ r.rc = job[q].rc /\ r \in Job /\ Go(q, r)
  BY <1>2, JobFacts DEF Job, Advance
<1> HIDE DEF r
<1>4. /\ store' \in [Name -> Seq(Value) \cup {Absent}] /\ touched' \subseteq Proc
      /\ store'[Dst(q)] = v /\ \A n \in Name \ {Dst(q)} : store'[n] = store[n]
      /\ q \in touched' <=> q \in touched
  BY <1>1, PutFacts
<1>5. Types' /\ job'[q] = r
  BY <1>3, <1>4, GoTypes DEF Types
<1>6. Src(q)' = Src(q) /\ Dst(q)' = Dst(q) /\ start' = start
  BY <1>3, <1>5 DEF Src, Dst
<1>7. Points(q)' /\ TouchSound(q)'
  BY <1>1, <1>3, <1>5 DEF Points, TouchSound, Copies
<1>8. CopySound(q)'
  <2>1. SUFFICES ASSUME q \notin touched PROVE Copied(q)'
    BY <1>3, <1>4, <1>5 DEF CopySound
  <2>2. Copied(q)
    BY <2>1 DEF Sound, CopySound
  <2>3. Part(v, start[q], 0, m) /\ m <= Len(start[q]) /\ job[q].size = Len(start[q])
        /\ start[q] \in Seq(Value) /\ start[q] # Absent
    BY <2>1, <2>2 DEF Copied, Part
  <2>4. Src(q) # Dst(q) => store'[Src(q)] = start[q]
    BY <1>1, <1>4, <2>2 DEF Copied
  <2>. QED  BY <1>2, <1>3, <1>4, <1>5, <1>6, <2>3, <2>4 DEF Copied
<1>. QED  BY <1>5, <1>7, <1>8 DEF Sound

LEMMA PutFirstSound ==
  ASSUME Types, NEW q \in Proc, Sound(q), PutFirst(q)
  PROVE  Types' /\ Sound(q)'
<1>1. /\ job[q].pc = "put" /\ job[q].first /\ job[q].op \in Copies /\ Dst(q) \in Name
      /\ UNCHANGED <<answer, start>> /\ job[q].buf \in Seq(Value)
  BY JobFacts DEF PutFirst, Sound, Points, Copies
<1>2. CASE Put(q, Dst(q), job[q].buf) /\ Advance(q)
  <2>1. ASSUME q \notin touched PROVE Part(job[q].buf, start[q], 0, job[q].off + Len(job[q].buf))
    <3>1. job[q].off = 0 /\ Part(job[q].buf, start[q], 0, Smaller(Chunk, Len(start[q]) - 0))
      BY <1>1, <2>1 DEF Sound, CopySound, Copied
    <3>2. Len(job[q].buf) \in Nat /\ Len(job[q].buf) = Smaller(Chunk, Len(start[q]) - 0)
      BY <1>1, <3>1, LenProperties DEF Part
    <3>. QED  BY <3>1, <3>2
  <2>. QED  BY <1>1, <1>2, <2>1, AdvanceSound
<1>3. CASE Put(q, Dst(q), Absent) /\ Abandon(q, "WRITE")
  BY <1>1, <1>3, PutFacts, AbandonSound
<1>. QED  BY <1>2, <1>3 DEF PutFirst

LEMMA PutNextSound ==
  ASSUME Types, NEW q \in Proc, Sound(q), PutNext(q)
  PROVE  Types' /\ Sound(q)'
<1>1. /\ job[q].pc = "put" /\ ~job[q].first /\ job[q].op \in Copies /\ Dst(q) \in Name
      /\ UNCHANGED <<answer, start>> /\ job[q].buf \in Seq(Value)
  BY JobFacts DEF PutNext, Sound, Points, Copies
<1>2. CASE store[Dst(q)] # Absent /\ Put(q, Dst(q), store[Dst(q)] \o job[q].buf) /\ Advance(q)
  <2>1. store[Dst(q)] \o job[q].buf \in Seq(Value)
    BY <1>1, <1>2, JobFacts, ConcatProperties
  <2>2. ASSUME q \notin touched
        PROVE  Part(store[Dst(q)] \o job[q].buf, start[q], 0, job[q].off + Len(job[q].buf))
    <3>1. /\ Part(store[Dst(q)], start[q], 0, job[q].off) /\ start[q] \in Seq(Value)
          /\ Part(job[q].buf, start[q], job[q].off, Smaller(Chunk, Len(start[q]) - job[q].off))
      BY <1>1, <2>2 DEF Sound, CopySound, Copied
    <3>2. /\ Len(job[q].buf) \in Nat /\ job[q].off \in Nat
          /\ Len(job[q].buf) = Smaller(Chunk, Len(start[q]) - job[q].off)
      BY <1>1, <3>1, LenProperties, JobFacts DEF Part
    <3>. QED  BY <3>1, <3>2, NextPart
  <2>. QED  BY <1>1, <1>2, <2>1, <2>2, AdvanceSound
<1>3. CASE Keep /\ Abandon(q, "APPEND")
  BY <1>1, <1>3, KeepFacts, AbandonSound
<1>. QED  BY <1>2, <1>3 DEF PutNext

LEMMA OtherSound ==
  ASSUME Types, NEW q \in Proc, Sound(q),
         Refuse(q) \/ Clean(q) \/ Check(q) \/ Look(q)
  PROVE  Types' /\ Sound(q)'
<1>1. ASSUME NEW rc, Answer(q, rc), Keep PROVE Types' /\ Sound(q)'
  BY <1>1, KeepFacts, AnswerSound
<1>2. CASE Refuse(q)
  BY <1>1, <1>2 DEF Refuse
<1>3. CASE Clean(q)
  <2>1. Dst(q) \in Name /\ Put(q, Dst(q), Absent) /\ Answer(q, job[q].rc)
    BY <1>3, JobFacts DEF Clean, Sound, Points
  <2>. QED  BY <2>1, PutFacts, AnswerSound
<1>4. CASE Check(q)
  <2>1. CASE Keep /\ Abandon(q, "VERIFY") /\ UNCHANGED <<answer, start>> /\ job[q].op = "copy"
    BY <2>1, KeepFacts, AbandonSound DEF Copies
  <2>. QED  BY <1>1, <1>4, <2>1 DEF Check
<1>5. CASE Look(q)
  BY <1>1, <1>5 DEF Look
<1>. QED  BY <1>2, <1>3, <1>4, <1>5

\* touch, write and delete moving on.
LEMMA MovedOn ==
  ASSUME Types, NEW q \in Proc, Sound(q), NEW pc \in {"do", "look"},
         job[q].op \notin Copies, job[q].op # "none", Go(q, [job[q] EXCEPT !.pc = pc]),
         UNCHANGED <<answer, start>>,
         store' \in [Name -> Seq(Value) \cup {Absent}], touched' \subseteq Proc,
         job[q].op = "touch" /\ pc = "do" => store'[Dst(q)] = Absent
  PROVE  Types' /\ Sound(q)'
<1> DEFINE r == [job[q] EXCEPT !.pc = pc]
<1>1. /\ r.op = job[q].op /\ r.src = job[q].src /\ r.dst = job[q].dst /\ r.pc = pc
      /\ r.rc = job[q].rc /\ r \in Job
  BY JobFacts DEF Job
<1>2. Types' /\ job'[q] = r
  BY <1>1, GoTypes DEF Types
<1> HIDE DEF r
<1>3. Dst(q)' = Dst(q)
  BY <1>1, <1>2 DEF Dst
<1>. QED  BY <1>1, <1>2, <1>3 DEF Sound, Points, CopySound, TouchSound, Copies

LEMMA StatSound ==
  ASSUME Types, NEW q \in Proc, Sound(q), Stat(q)
  PROVE  Types' /\ Sound(q)'
<1>1. job[q].pc = "stat" /\ Keep /\ job[q].op # "none" /\ job[q].op \notin Copies /\ job[q].dst \in Spelling
  BY DEF Stat, Sound, Points
<1>2. ASSUME NEW rc, Answer(q, rc) PROVE Types' /\ Sound(q)'
  BY <1>1, <1>2, KeepFacts, AnswerSound
<1>3. CASE /\ job[q].op = "touch" => ~Found(job[q].dst)
           /\ Go(q, [job[q] EXCEPT !.pc = "do"]) /\ UNCHANGED <<answer, start>>
  <2>1. job[q].op = "touch" => store'[Dst(q)] = Absent
    BY <1>1, <1>3 DEF Found, Dst, Keep
  <2>. QED  BY <1>1, <1>3, <2>1, KeepFacts, MovedOn
<1>. QED  BY <1>2, <1>3 DEF Stat

LEMMA DoSound ==
  ASSUME Types, NEW q \in Proc, Sound(q), Do(q)
  PROVE  Types' /\ Sound(q)'
<1>1. job[q].pc = "do" /\ job[q].op # "none" /\ job[q].op \notin Copies /\ Dst(q) \in Name
      /\ job[q].arg \in Seq(Value)
  BY JobFacts DEF Do, Sound, Points
<1>2. ASSUME NEW v \in Seq(Value) \cup {Absent}, Put(q, Dst(q), v),
             Go(q, [job[q] EXCEPT !.pc = "look"]), UNCHANGED <<answer, start>>
      PROVE  Types' /\ Sound(q)'
  BY <1>1, <1>2, PutFacts, MovedOn
<1>3. ASSUME NEW rc, Answer(q, rc), Keep \/ Put(q, Dst(q), Absent) PROVE Types' /\ Sound(q)'
  BY <1>1, <1>3, KeepFacts, PutFacts, AnswerSound
<1>. QED  BY <1>1, <1>2, <1>3 DEF Do

LEMMA OwnStep ==
  ASSUME Types, NEW q \in Proc, Sound(q), Issue(q) \/ Run(q)
  PROVE  Types' /\ Sound(q)'
BY BeginSound, AcceptSound, ReadSound, PutFirstSound, PutNextSound, OtherSound, StatSound, DoSound
   DEF Run

-----------------------------------------------------------------------------
LEMMA CInit == Init => CInv
<1> SUFFICES ASSUME Init PROVE CInv
  OBVIOUS
<1>1. Idle \in Job /\ Idle.op = "none" /\ Idle.pc = "idle"
  BY Constants DEF Idle, Job
<1>2. Types
  BY <1>1 DEF Init, Types
<1>3. \A p \in Proc : job[p] = Idle
  BY DEF Init
<1>. QED  BY <1>1, <1>2, <1>3 DEF CInv, Sound, Points, CopySound, TouchSound, Copies

LEMMA CStep == CInv /\ [Next]_vars => CInv'
<1> SUFFICES ASSUME CInv, [Next]_vars PROVE CInv'
  OBVIOUS
<1>1. CASE UNCHANGED vars
  BY <1>1 DEF vars, CInv, Types, Sound, Points, CopySound, Copied, TouchSound, Src, Dst
<1>2. ASSUME NEW q \in Proc, Issue(q) \/ Run(q) PROVE CInv'
  <2>1. Types' /\ Sound(q)'
    BY <1>2, OwnStep DEF CInv
  <2>2. \A p \in Proc \ {q} : Sound(p)'
    BY <1>2, OthersSound DEF CInv
  <2>. QED  BY <2>1, <2>2 DEF CInv
<1>. QED  BY <1>1, <1>2 DEF Next

\* A command ends in a step of its own, with an answer from one of five places.
LEMMA WhereItEnds ==
  ASSUME CInv, [Next]_vars, NEW p \in Proc, job[p].op \in Copies, job'[p].pc = "idle"
  PROVE  \/ Refuse(p) /\ answer'[p] = "REFUSED"
         \/ Clean(p) /\ answer'[p] = job[p].rc
         \/ Check(p) /\ Keep /\ answer'[p] = "OK"
            /\ Found(job[p].dst) /\ Len(store[Dst(p)]) = job[p].size
         \/ Check(p) /\ answer'[p] = "VERIFY"
            /\ ~(Found(job[p].dst) /\ Len(store[Dst(p)]) = job[p].size)
<1>1. Types /\ job[p].pc # "idle" /\ job[p].pc \in {"guard", "read", "put", "check", "clean"}
  BY DEF CInv, Sound, Points, Copies
<1>2. PICK q \in Proc : Issue(q) \/ Run(q)
  BY <1>1 DEF Next, vars
<1>3. q = p
  BY <1>1, <1>2, OthersKeep
<1>4. \A rc : Answer(p, rc) => answer'[p] = rc
  BY <1>1 DEF Answer, Types
<1>5. \A r : Go(p, r) => job'[p] = r
  BY <1>1 DEF Go, Types
<1>6. job[p] \in Job
  BY <1>1, JobFacts
<1>7. \A rc : ~Abandon(p, rc)
  BY <1>5, <1>6 DEF Abandon, Job
<1>8. ~Advance(p)
  BY <1>5, <1>6 DEF Advance, Job
<1>9. ~Issue(p)
  BY <1>1 DEF Issue, Begin
<1>10. ~Accept(p) /\ ~ReadSlice(p) /\ ~PutFirst(p) /\ ~PutNext(p)
  <2>1. ~Accept(p)
    BY <1>5, <1>6 DEF Accept, Job
  <2>2. ~ReadSlice(p)
    BY <1>5, <1>6, <1>7 DEF ReadSlice, Job
  <2>. QED  BY <1>7, <1>8, <2>1, <2>2 DEF PutFirst, PutNext
<1>11. ~Stat(p) /\ ~Do(p) /\ ~Look(p)
  BY <1>1 DEF Stat, Do, Look
<1>12. Refuse(p) => answer'[p] = "REFUSED"
  BY <1>4 DEF Refuse
<1>13. Clean(p) => answer'[p] = job[p].rc
  BY <1>4 DEF Clean
<1>14. Check(p) => \/ Keep /\ answer'[p] = "OK" /\ Found(job[p].dst) /\ Len(store[Dst(p)]) = job[p].size
                   \/ answer'[p] = "VERIFY" /\ ~(Found(job[p].dst) /\ Len(store[Dst(p)]) = job[p].size)
  BY <1>4, <1>7 DEF Check
<1>. QED  BY <1>2, <1>3, <1>9, <1>10, <1>11, <1>12, <1>13, <1>14 DEF Run

\* A copy that comes to its check undisturbed is a copy.
LEMMA AtCheck ==
  ASSUME CInv, NEW p \in Proc, job[p].pc = "check", p \notin touched
  PROVE  /\ store[Dst(p)] = start[p] /\ store[Src(p)] = start[p]
         /\ Found(job[p].dst) /\ Len(store[Dst(p)]) = job[p].size
<1>1. Copied(p)
  BY DEF CInv, Sound, CopySound
<1>2. /\ start[p] \in Seq(Value) /\ start[p] # Absent /\ job[p].size = Len(start[p])
      /\ Part(store[Dst(p)], start[p], 0, Len(start[p]))
      /\ Src(p) # Dst(p) => store[Src(p)] = start[p]
  BY <1>1 DEF Copied
<1>3. store[Dst(p)] = start[p]
  BY <1>2, WholePart
<1>. QED  BY <1>2, <1>3 DEF Found, Dst

\* A copy that answers OK is a copy, in any number of slices of any length, by
\* either core, unless another program wrote to its files meanwhile.
THEOREM CopiesAreExact == Spec => CopyExact
<1> DEFINE Exact == \A p \in Proc : Ends(p, Copies, "OK") /\ p \notin touched =>
                      LET f == start[p] IN store'[Dst(p)] = f /\ store'[Src(p)] = f
<1>1. CInv /\ [Next]_vars => Exact
  <2>1. SUFFICES ASSUME CInv, [Next]_vars, NEW p \in Proc, Ends(p, Copies, "OK"), p \notin touched
                 PROVE  store'[Dst(p)] = start[p] /\ store'[Src(p)] = start[p]
    OBVIOUS
  <2>2. job[p].op \in Copies /\ job'[p].pc = "idle" /\ answer'[p] = "OK"
    BY <2>1 DEF Ends
  <2>3. Clean(p) => job[p].rc # "OK"
    BY <2>1 DEF Clean, CInv, Sound, Points
  <2>4. Check(p) /\ Keep
    BY <2>1, <2>2, <2>3, WhereItEnds
  <2>5. job[p].pc = "check" /\ store' = store
    BY <2>4 DEF Check, Keep
  <2>. QED  BY <2>1, <2>5, AtCheck
<1>2. CInv /\ [Next]_vars => [Exact]_vars
  BY <1>1
<1>. QED  BY CInit, CStep, <1>2, PTL DEF Spec, CopyExact

\* A copy that fails after its first slice leaves nothing under the target's name.
THEOREM FailedCopiesLeaveNothing == Spec => NoPartialCopy
<1> DEFINE Nothing == \A p \in Proc : \A rc \in {"READ", "WRITE", "APPEND", "VERIFY"} :
                        Ends(p, Copies, rc) /\ ~job[p].first /\ p \notin touched
                          => store'[Dst(p)] = Absent
<1>1. CInv /\ [Next]_vars => Nothing
  <2>1. SUFFICES ASSUME CInv, [Next]_vars, NEW p \in Proc, NEW rc \in {"READ", "WRITE", "APPEND", "VERIFY"},
                        Ends(p, Copies, rc), p \notin touched
                 PROVE  store'[Dst(p)] = Absent
    OBVIOUS
  <2>2. job[p].op \in Copies /\ job'[p].pc = "idle" /\ answer'[p] \notin {"OK", "REFUSED"}
    BY <2>1 DEF Ends
  <2>3. Types /\ Dst(p) \in Name
    BY <2>1, <2>2, JobFacts DEF CInv, Sound, Points, Copies
  <2>4. ASSUME Check(p) PROVE Found(job[p].dst) /\ Len(store[Dst(p)]) = job[p].size
    BY <2>1, <2>4, AtCheck DEF Check
  <2>5. Clean(p)
    BY <2>1, <2>2, <2>4, WhereItEnds
  <2>. QED  BY <2>3, <2>5, PutFacts DEF Clean
<1>2. CInv /\ [Next]_vars => [Nothing]_vars
  BY <1>1
<1>. QED  BY CInit, CStep, <1>2, PTL DEF Spec, NoPartialCopy

\* touch truncates no file, when no other program is at it.
THEOREM TouchCreatesOnly == Spec => TouchTruncatesNothing
<1> DEFINE Creates == \A p \in Proc : job[p].op = "touch" /\ p \notin touched /\ store' # store
                                     /\ job'[p] # job[p] => store[Dst(p)] = Absent
<1>1. CInv /\ [Next]_vars => Creates
  <2>1. SUFFICES ASSUME CInv, [Next]_vars, NEW p \in Proc, job[p].op = "touch", p \notin touched,
                        store' # store, job'[p] # job[p]
                 PROVE  store[Dst(p)] = Absent
    OBVIOUS
  <2>2. PICK q \in Proc : Issue(q) \/ Run(q)
    BY <2>1 DEF Next, vars
  <2>3. q = p
    BY <2>1, <2>2, OthersKeep DEF CInv
  <2>4. job[p].pc \in {"stat", "do", "look"}
    BY <2>1 DEF CInv, Sound, Points, Copies
  <2>5. job[p].pc = "do"
    <3>1. ~Issue(p)
      BY <2>4 DEF Issue, Begin
    <3>2. ~Stat(p) /\ ~Look(p)
      BY <2>1 DEF Stat, Look, Keep
    <3>3. Run(p) => Stat(p) \/ Do(p) \/ Look(p)
      BY <2>4 DEF Run, Refuse, Accept, ReadSlice, PutFirst, PutNext, Clean, Check
    <3>. QED  BY <2>2, <2>3, <3>1, <3>2, <3>3 DEF Do
  <2>. QED  BY <2>1, <2>5 DEF CInv, Sound, TouchSound
<1>2. CInv /\ [Next]_vars => [Creates]_vars
  BY <1>1
<1>. QED  BY CInit, CStep, <1>2, PTL DEF Spec, TouchTruncatesNothing

=============================================================================
