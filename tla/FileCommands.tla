---------------------------- MODULE FileCommands ----------------------------
(***************************************************************************)
(* Commands made of several FAT32 calls: the kernel's fat32_copy_file and  *)
(* the "cores" of Runtime_Cmd (ccmd_copy, ccmd_touch, ccmd_write,          *)
(* ccmd_delete).  Several programs run them at once on one disk.           *)
(*                                                                         *)
(* A FAT32 call is atomic here, with the outcomes Fat32Volume and          *)
(* Fat32InPlace were checked to have (FileStore): a failed write leaves no *)
(* file, a failed append leaves it as it was.  Programs are preempted      *)
(* between the calls of a Runtime_Cmd command; the kernel's copy is one    *)
(* system call, run with interrupts off.                                   *)
(*                                                                         *)
(* Programs name files by spellings; fat32_to_83_filename takes several    *)
(* spellings to one name (upper case, 8 + 3 letters).                      *)
(***************************************************************************)
EXTENDS Integers, Sequences

CONSTANTS Proc,        \* programs
          Spelling,    \* file names as programs spell them
          Name,        \* names on the disk
          Short,       \* Spelling -> Name: fat32_to_83_filename
          Unit,        \* what a unit of a file may hold
          Content,     \* the files programs write
          Chunk,       \* the units a copy moves at a time
          MaxLen,      \* the longest file programs copy
          Commands,    \* the commands each program gives
          CallsFail,   \* TRUE when disk or memory may fail a call
          Absent, Garbage

ASSUME CommandsAssumption ==
  /\ Short \in [Spelling -> Name]
  /\ Content \subseteq Seq(Unit)
  /\ Chunk \in Nat \ {0} /\ MaxLen \in Nat /\ CallsFail \in BOOLEAN
  /\ Commands \in [Proc -> SUBSET {"kernel_copy", "copy", "touch", "write", "delete"}]

VARIABLES store,    \* what each name holds
          job,      \* each program's command and its C locals
          answer,   \* each program's last answer
          start,    \* the source when each copy began (for properties)
          touched   \* programs whose files another program changed since

vars == <<store, job, answer, start, touched>>

Idle == [op |-> "none", pc |-> "idle", src |-> "none", dst |-> "none", arg |-> << >>,
         size |-> 0, off |-> 0, first |-> TRUE, buf |-> << >>, rc |-> "OK"]

Copies == {"kernel_copy", "copy"}
Smaller(x, y) == IF x < y THEN x ELSE y

Init == /\ store = [n \in Name |-> Absent]
        /\ job = [p \in Proc |-> Idle]
        /\ answer = [p \in Proc |-> "none"]
        /\ start = [p \in Proc |-> Absent]
        /\ touched = {}

\* A copy in the kernel keeps the processor until it returns.
MayRun(p) == \A q \in Proc \ {p} : job[q].op # "kernel_copy"

Src(p) == Short[job[p].src]
Dst(p) == Short[job[p].dst]
Files(p) == {Short[s] : s \in {job[p].src, job[p].dst} \cap Spelling}

\* fat32_find_entry, in the current folder.
Found(s) == store[Short[s]] # Absent

Go(p, fields) == job' = [job EXCEPT ![p] = fields]
Answer(p, rc) == /\ job' = [job EXCEPT ![p] = Idle]
                 /\ answer' = [answer EXCEPT ![p] = rc]
                 /\ start' = [start EXCEPT ![p] = Absent]

\* p's call changes what name n holds.
Put(p, n, v) ==
  /\ store' = [store EXCEPT ![n] = v]
  /\ touched' = touched \cup {q \in Proc \ {p} : n \in Files(q)}
Keep == UNCHANGED <<store, touched>>

Begin(p, op, src, dst, s) ==
  /\ job[p].pc = "idle" /\ op \in Commands[p]
  /\ op \in Copies /\ store[Short[src]] # Absent => Len(store[Short[src]]) <= MaxLen
  /\ Go(p, [Idle EXCEPT !.op = op, !.src = src, !.dst = dst, !.arg = s,
                        !.pc = IF op \in Copies THEN "guard" ELSE "stat"])
  /\ start' = [start EXCEPT ![p] = IF op \in Copies THEN store[Short[src]] ELSE Absent]
  /\ touched' = touched \ {p}
  /\ answer' = [answer EXCEPT ![p] = "none"]
  /\ UNCHANGED store

(**************************** copies, slice by slice ***********************)
\* "origem == destino" is asked of the spellings.
Refuse(p) == /\ job[p].pc = "guard"
             /\ job[p].src = job[p].dst \/ ~Found(job[p].src) \/ CallsFail
             /\ Answer(p, "REFUSED")
             /\ Keep

Accept(p) == /\ job[p].pc = "guard"
             /\ job[p].src # job[p].dst /\ Found(job[p].src)
             /\ Go(p, [job[p] EXCEPT !.size = Len(store[Src(p)]),
                                     !.pc = IF store[Src(p)] = << >> THEN "put" ELSE "read"])
             /\ Keep /\ UNCHANGED <<answer, start>>

\* Both copies stop here and take the destination away.
Abandon(p, rc) == Go(p, [job[p] EXCEPT !.pc = "clean", !.rc = rc])

\* Mutant of Slice: each slice is read from the beginning.
SliceFromStart(p) == SubSeq(store[Src(p)], 1, Smaller(Chunk, job[p].size - job[p].off))

\* The next slice, as long as the file is still that long; what a shorter file
\* does not fill of the buffer keeps what it held.
Slice(p) ==
  LET f == store[Src(p)]
      n == Smaller(Chunk, job[p].size - job[p].off)
  IN [i \in 1 .. n |-> IF job[p].off + i <= Len(f) THEN f[job[p].off + i]
                       ELSE IF i <= Len(job[p].buf) THEN job[p].buf[i] ELSE Garbage]

\* What fat32_read_file_at_offset asks of the file.
Readable(p) == store[Src(p)] # Absent /\ job[p].off < Len(store[Src(p)])

\* Mutant of ReadSlice: a read that fails is tried again.
ReadSliceAgain(p) ==
  /\ job[p].pc = "read" /\ job[p].off < job[p].size
  /\ IF Readable(p) THEN Go(p, [job[p] EXCEPT !.pc = "put", !.buf = Slice(p)])
                    ELSE UNCHANGED job
  /\ Keep /\ UNCHANGED <<answer, start>>

ReadSlice(p) ==
  /\ job[p].pc = "read" /\ job[p].off < job[p].size
  /\ \/ Readable(p) /\ Go(p, [job[p] EXCEPT !.pc = "put", !.buf = Slice(p)])
     \/ (~Readable(p) \/ CallsFail) /\ Abandon(p, "READ")
  /\ Keep /\ UNCHANGED <<answer, start>>

\* The slice is on the disk: on to the next one, or to the end.
Advance(p) == LET n == job[p].off + Len(job[p].buf)
              IN Go(p, [job[p] EXCEPT !.pc = IF n < job[p].size THEN "read" ELSE "check",
                                      !.off = n, !.first = FALSE])

\* The first slice replaces the destination, fat32_write_file.
PutFirst(p) ==
  /\ job[p].pc = "put" /\ job[p].first
  /\ \/ Put(p, Dst(p), job[p].buf) /\ Advance(p)
     \/ CallsFail /\ Put(p, Dst(p), Absent) /\ Abandon(p, "WRITE")
  /\ UNCHANGED <<answer, start>>

\* The others extend it, fat32_append_file.
PutNext(p) ==
  /\ job[p].pc = "put" /\ ~job[p].first
  /\ \/ store[Dst(p)] # Absent
        /\ Put(p, Dst(p), store[Dst(p)] \o job[p].buf) /\ Advance(p)
     \/ (store[Dst(p)] = Absent \/ CallsFail) /\ Keep /\ Abandon(p, "APPEND")
  /\ UNCHANGED <<answer, start>>

\* Mutant of Clean: the error is returned with the destination left there.
CleanNothing(p) == /\ job[p].pc = "clean"
                   /\ Keep /\ Answer(p, job[p].rc)

Clean(p) == /\ job[p].pc = "clean"
            /\ Put(p, Dst(p), Absent) /\ Answer(p, job[p].rc)

\* "size of the destination == size of the source", as it was at the start;
\* ccmd_copy takes the destination away when it is not, fat32_copy_file not.
Check(p) ==
  /\ job[p].pc = "check"
  /\ IF Found(job[p].dst) /\ Len(store[Dst(p)]) = job[p].size
     THEN Keep /\ Answer(p, "OK")
     ELSE IF job[p].op = "copy"
     THEN Keep /\ Abandon(p, "VERIFY") /\ UNCHANGED <<answer, start>>
     ELSE Keep /\ Answer(p, "VERIFY")

(******************** touch, write and delete, verified ********************)
\* Mutant of Stat: touch does not look whether the file is there.
StatNothing(p) == /\ job[p].pc = "stat"
                  /\ Keep /\ UNCHANGED <<answer, start>>
                  /\ Go(p, [job[p] EXCEPT !.pc = "do"])

Stat(p) ==
  /\ job[p].pc = "stat"
  /\ \/ /\ job[p].op = "touch" /\ Found(job[p].dst)
        /\ Answer(p, "EXISTS")
     \/ /\ job[p].op = "delete" /\ ~Found(job[p].dst)
        /\ Answer(p, "NOTFOUND")
     \/ /\ job[p].op = "touch" => ~Found(job[p].dst)
        /\ job[p].op = "delete" => Found(job[p].dst)
        /\ Go(p, [job[p] EXCEPT !.pc = "do"]) /\ UNCHANGED <<answer, start>>
  /\ Keep

\* The call itself: fat32_write_file or fat32_delete_file.
Do(p) ==
  /\ job[p].pc = "do"
  /\ LET isWrite == job[p].op \in {"touch", "write"}
         done == Go(p, [job[p] EXCEPT !.pc = "look"]) /\ UNCHANGED <<answer, start>>
     IN \/ isWrite /\ Put(p, Dst(p), job[p].arg) /\ done
        \/ isWrite /\ CallsFail /\ Put(p, Dst(p), Absent) /\ Answer(p, "IO")
        \/ ~isWrite /\ store[Dst(p)] # Absent /\ Put(p, Dst(p), Absent) /\ done
        \/ ~isWrite /\ store[Dst(p)] = Absent /\ Keep /\ Answer(p, "IO")

\* The result is looked at before the command answers.
Look(p) ==
  /\ job[p].pc = "look"
  /\ LET good == IF job[p].op = "delete" THEN ~Found(job[p].dst)
                 ELSE Found(job[p].dst) /\ Len(store[Dst(p)]) = Len(job[p].arg)
     IN Answer(p, IF good THEN "OK" ELSE "VERIFY")
  /\ Keep

(******************************* the system ********************************)
Issue(p) == \E dst \in Spelling :
              \/ \E op \in Copies, src \in Spelling : Begin(p, op, src, dst, << >>)
              \/ \E op \in {"touch", "delete"} : Begin(p, op, "none", dst, << >>)
              \/ \E s \in Content : Begin(p, "write", "none", dst, s)

Run(p) == \/ Refuse(p) \/ Accept(p) \/ ReadSlice(p) \/ PutFirst(p) \/ PutNext(p)
          \/ Clean(p) \/ Check(p) \/ Stat(p) \/ Do(p) \/ Look(p)

Next == \E p \in Proc : MayRun(p) /\ (Issue(p) \/ Run(p))

Spec == Init /\ [][Next]_vars

\* Round robin: between two system calls of one program every other ready
\* program gets the processor, so one that may run again and again does run.
FairSpec == Spec /\ \A p \in Proc : SF_vars(MayRun(p) /\ Run(p))

(******************************** properties *******************************)
\* p's command, one of ops, answers rc in this step.
Ends(p, ops, rc) ==
  job[p].op \in ops /\ job'[p].pc = "idle" /\ answer'[p] = rc

\* A copy that answers OK is a copy: the destination holds what the source held
\* when it began and the source still does, in any number of slices ("copia em
\* fatias auto-verificada"), unless another program wrote to them meanwhile.
CopyExact ==
  [][\A p \in Proc : Ends(p, Copies, "OK") /\ p \notin touched =>
       LET f == start[p]
       IN store'[Dst(p)] = f /\ store'[Src(p)] = f]_vars

\* A copy that fails once it has begun to write leaves no destination: "Falha no
\* meio => destino parcial eh removido", at whichever slice it failed.
NoPartialCopy ==
  [][\A p \in Proc : \A rc \in {"READ", "WRITE", "APPEND", "VERIFY"} :
       Ends(p, Copies, rc) /\ ~job[p].first /\ p \notin touched
         => store'[Dst(p)] = Absent]_vars

\* "touch" writes an empty file over nothing: with no other program at its file,
\* no data is lost between its look at the disk and its write.
TouchTruncatesNothing ==
  [][\A p \in Proc : job[p].op = "touch" /\ p \notin touched /\ store' # store
                     /\ job'[p] # job[p] => store[Dst(p)] = Absent]_vars

\* Every command comes to an answer, whatever other programs do to its files
\* while it runs: the length a copy works through is fixed at its start.
CommandsEnd == \A p \in Proc : (job[p].pc # "idle") ~> (job[p].pc = "idle")

\* What the comment over fat32_copy_file says: "Guardas: origem==destino", a
\* file is never copied over itself. (Does not hold of the code, see copy_self.)
CopyKeepsSource ==
  [][\A p \in Proc : job[p].op \in Copies /\ job'[p].pc = "idle" /\ p \notin touched
       => store'[Src(p)] = start[p]]_vars
=============================================================================
