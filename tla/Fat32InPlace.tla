---------------------------- MODULE Fat32InPlace ----------------------------
(***************************************************************************)
(* The calls that change a file in place, on the volume of Fat32Volume and *)
(* among its calls: fat32_append_file and fat32_write_file_at_offset.      *)
(* Both work on the live chain of the file, so what a failure half-way     *)
(* leaves behind is there for the next call to find.                       *)
(***************************************************************************)
EXTENDS Fat32Refinement

CONSTANTS MaxOffset,      \* the largest offset a program writes at
          MaxSize,        \* the largest file programs build
          EmptyAppends    \* TRUE when programs append to files with no cluster

ASSUME InPlaceAssumption == MaxOffset \in Nat /\ MaxSize \in Nat /\ EmptyAppends \in BOOLEAN

VARIABLES slot,    \* the directory slot of the file (entry_lba, entry_idx)
          pos,     \* where in the file the next unit goes
          left,    \* links still to follow to the cluster of pos
          before   \* the file as it was when the call began (for properties)

more == <<slot, pos, left>>
allVars == <<vars, more, before>>

JUNK == "junk"     \* a slot overwritten by file data
ASSUME JunkAssumption == JUNK \notin Name \cup {END, DEL}

InPlaceInit == Init /\ slot = 0 /\ pos = 0 /\ left = 0 /\ before = << >>

Smaller(x, y) == IF x < y THEN x ELSE y
Larger(x, y) == IF x < y THEN y ELSE x

\* Buffer u with s laid over it from index p on.
Over(u, p, s) ==
  [i \in DOMAIN u |-> IF i >= p /\ i < p + Len(s) THEN s[i - p + 1] ELSE u[i]]

\* A program's request: its file stays within MaxSize, and it appends to a file
\* with no cluster only when EmptyAppends (then no more than one cluster).
Asked(op, n, s, off) ==
  /\ s # << >> /\ off + Len(s) <= MaxSize
  /\ \A k \in Slots :
       Lookup(n, k) /\ op = "append" =>
         /\ ~dir[k].folder /\ dir[k].size + Len(s) <= MaxSize
         /\ dir[k].first = 0 => EmptyAppends /\ Len(s) <= UnitsPerCluster

EnterInPlace(op, n, s, off) ==
  /\ Asked(op, n, s, off)
  /\ pos' = off /\ slot' = 0 /\ left' = 0 /\ before' = View[n]
  /\ Enter(op, n, s, op)

AppendFile(n, s) == EnterInPlace("append", n, s, 0)
WriteAt(n, s, off) == EnterInPlace("write_at", n, s, off)

InPlaceReturn(st) == Return(st) /\ slot' = 0 /\ pos' = 0 /\ left' = 0 /\ before' = << >>

\* Both calls give up here: the file is not there.
NoSuchFile == /\ pc \in {"append", "write_at"} /\ ~Exists(req.name)
              /\ InPlaceReturn("NOT_FOUND")
              /\ UNCHANGED disk

\* kmalloc returns NULL. Nothing that was done before is undone.
NoBuffer == /\ pc \in {"append", "at_walk"} /\ "kmalloc" \in Faults
            /\ pc = "append" => Exists(req.name)
            /\ pc = "at_walk" => left = 0 /\ rest # << >>
            /\ InPlaceReturn("ERROR_WRITE")
            /\ UNCHANGED disk

(**************************** fat32_append_file ****************************)
LastOf(h) == CHOOSE x \in Chain(Cluster, fat, h) : fat[x] \notin Cluster

\* The last cluster of the chain is found and, when the size says it is not
\* full, gets the first units; the result of the disk write is not looked at.
\* For a file without a cluster the walk ends at cluster 0, which
\* fat32_cluster_to_lba takes for the root directory's.
AppendTail ==
  /\ pc = "append"
  /\ \E k \in Slots :
       /\ Lookup(req.name, k)
       /\ slot' = k
       /\ LET off == dir[k].size % UnitsPerCluster
              partial == off # 0 \/ dir[k].size = 0
              last == LastOf(dir[k].first)
          IN /\ rest' = IF partial THEN After(req.arg, UnitsPerCluster - off) ELSE req.arg
             /\ IF dir[k].first = 0
                THEN /\ prev_c' = 0 /\ data' = data
                     /\ dir' = [dir EXCEPT ![1] = [EmptySlot EXCEPT !.name = JUNK]]
                ELSE /\ prev_c' = last /\ dir' = dir
                     /\ \/ partial /\ data' = [data EXCEPT ![last] = Over(@, off, req.arg)]
                        \/ (~partial \/ "disk" \in Faults) /\ data' = data
  /\ pc' = "ap_more"
  /\ UNCHANGED <<fat, req, first_c, cur, c, status, pos, left, before>>

\* A cluster is linked behind the last one before its own entry is sealed.
AppendLink == /\ pc = "ap_more" /\ rest # << >>
              /\ \E x \in Cluster : FirstFree(x) /\ cur' = x
                                    /\ fat' = [fat EXCEPT ![prev_c] = x]
              /\ pc' = "ap_seal"
              /\ UNCHANGED <<data, dir, req, rest, first_c, prev_c, c, status, more, before>>

\* Mutant of AppendFull: the loop ends and the size is raised all the same.
AppendFullIgnored == /\ pc = "ap_more" /\ rest # << >> /\ FreeClusters = {}
                     /\ rest' = << >>
                     /\ UNCHANGED <<disk, pc, req, first_c, prev_c, cur, c, status, more, before>>

\* Mutant of AppendFull: the size is raised by what was written so far.
AppendFullSized == /\ pc = "ap_more" /\ rest # << >> /\ FreeClusters = {}
                   /\ dir' = [dir EXCEPT ![slot].size = @ + Len(req.arg) - Len(rest)]
                   /\ InPlaceReturn("DISK_FULL")
                   /\ UNCHANGED <<fat, data>>

\* No cluster is left: those already linked stay linked.
AppendFull == /\ pc = "ap_more" /\ rest # << >> /\ FreeClusters = {}
              /\ InPlaceReturn("DISK_FULL")
              /\ UNCHANGED disk

\* Mutant of AppendSeal: the entry of the linked cluster stays free.
AppendSealNothing == /\ pc = "ap_seal"
                     /\ pc' = "ap_fill"
                     /\ UNCHANGED <<disk, locals, status, more, before>>

AppendSeal == /\ pc = "ap_seal"
              /\ fat' = [fat EXCEPT ![cur] = EOC]
              /\ pc' = "ap_fill"
              /\ UNCHANGED <<data, dir, locals, status, more, before>>

AppendFill == /\ pc = "ap_fill"
              /\ \/ data' = [data EXCEPT ![cur] = Filled(rest)]
                 \/ "disk" \in Faults /\ data' = data
              /\ rest' = After(rest, UnitsPerCluster)
              /\ prev_c' = cur
              /\ pc' = "ap_more"
              /\ UNCHANGED <<fat, dir, req, first_c, cur, c, status, more, before>>

\* Mutant of AppendSize: entry_idx is lost, the sector's first entry grows.
AppendSizeFirst == /\ pc = "ap_more" /\ rest = << >>
                   /\ dir' = [dir EXCEPT ![1].size = @ + Len(req.arg)]
                   /\ InPlaceReturn("SUCCESS")
                   /\ UNCHANGED <<fat, data>>

AppendSize == /\ pc = "ap_more" /\ rest = << >>
              /\ dir' = [dir EXCEPT ![slot].size = @ + Len(req.arg)]
              /\ InPlaceReturn("SUCCESS")
              /\ UNCHANGED <<fat, data>>

(*********************** fat32_write_file_at_offset ************************)
\* The entry is found; links are followed up to the cluster of pos.
AtFind == /\ pc = "write_at"
          /\ \E k \in Slots : /\ Lookup(req.name, k)
                              /\ slot' = k
                              /\ first_c' = dir[k].first /\ c' = dir[k].first
                              /\ left' = (pos \div UnitsPerCluster)
                                         + (IF dir[k].first = 0 THEN 1 ELSE 0)
          /\ pc' = "at_walk"
          /\ UNCHANGED <<disk, req, rest, prev_c, cur, status, pos, before>>

AtFollow == /\ pc = "at_walk" /\ left > 0
            /\ c \in Cluster /\ fat[c] \in Cluster
            /\ c' = fat[c] /\ left' = left - 1
            /\ UNCHANGED <<disk, pc, req, rest, first_c, prev_c, cur, status, slot, pos, before>>

\* The chain ends here: a free cluster is zeroed (or is not, when kmalloc or
\* the disk fails in fat32_zero_cluster), then linked, then sealed.
AtExtend == /\ pc = "at_walk" /\ left > 0
            /\ c \in Cluster => fat[c] \notin Cluster
            /\ \E x \in Cluster : /\ FirstFree(x)
                                  /\ cur' = x
                                  /\ \/ data' = [data EXCEPT ![x] = Zeroed]
                                     \/ MayFail /\ data' = data
                                  /\ first_c' = IF c = 0 THEN x ELSE first_c
            /\ pc' = IF c = 0 THEN "at_seal" ELSE "at_link"
            /\ UNCHANGED <<fat, dir, req, rest, prev_c, c, status, more, before>>

AtFull == /\ pc = "at_walk" /\ left > 0 /\ FreeClusters = {}
          /\ c \in Cluster => fat[c] \notin Cluster
          /\ InPlaceReturn("DISK_FULL")
          /\ UNCHANGED disk

AtLink == /\ pc = "at_link"
          /\ fat' = [fat EXCEPT ![c] = cur]
          /\ pc' = "at_seal"
          /\ UNCHANGED <<data, dir, locals, status, more, before>>

AtSeal == /\ pc = "at_seal"
          /\ fat' = [fat EXCEPT ![cur] = EOC]
          /\ c' = cur /\ left' = left - 1
          /\ pc' = "at_walk"
          /\ UNCHANGED <<data, dir, req, rest, first_c, prev_c, cur, status, slot, pos, before>>

\* Mutant of AtWrite: the cluster is written without being read first.
AtWriteBlind ==
  /\ pc = "at_walk" /\ left = 0 /\ rest # << >>
  /\ LET off == pos % UnitsPerCluster
         chunk == Smaller(Len(rest), UnitsPerCluster - off)
     IN /\ data' = [data EXCEPT ![c] = Over(Zeroed, off, rest)]
        /\ rest' = After(rest, chunk) /\ pos' = pos + chunk
        /\ left' = IF After(rest, chunk) = << >> THEN 0 ELSE 1
  /\ UNCHANGED <<fat, dir, pc, req, first_c, prev_c, cur, c, status, slot, before>>

\* One cluster is read, changed from pos on and written back.
AtWrite ==
  /\ pc = "at_walk" /\ left = 0 /\ rest # << >>
  /\ LET off == pos % UnitsPerCluster
         chunk == Smaller(Len(rest), UnitsPerCluster - off)
     IN /\ data' = [data EXCEPT ![c] = Over(@, off, rest)]
        /\ rest' = After(rest, chunk) /\ pos' = pos + chunk
        /\ left' = IF After(rest, chunk) = << >> THEN 0 ELSE 1
  /\ UNCHANGED <<fat, dir, pc, req, first_c, prev_c, cur, c, status, slot, before>>

AtWriteFails == /\ pc = "at_walk" /\ left = 0 /\ rest # << >> /\ "disk" \in Faults
                /\ \E st \in {"ERROR_READ", "ERROR_WRITE"} : InPlaceReturn(st)
                /\ UNCHANGED disk

\* Size and first cluster go to the entry; when its sector cannot be read or
\* written the call still answers SUCCESS.
AtEntry == /\ pc = "at_walk" /\ left = 0 /\ rest = << >>
           /\ \/ dir' = [dir EXCEPT ![slot].size = Larger(@, pos), ![slot].first = first_c]
              \/ "entry" \in Faults /\ dir' = dir
           /\ InPlaceReturn("SUCCESS")
           /\ UNCHANGED <<fat, data>>

(******************************** the system ********************************)
InPlaceIssue == \E n \in Name, s \in Payload :
                  \/ AppendFile(n, s)
                  \/ \E off \in 0 .. MaxOffset : WriteAt(n, s, off)

InPlaceStep == \/ NoSuchFile \/ NoBuffer
               \/ AppendTail \/ AppendLink \/ AppendFull \/ AppendSeal \/ AppendFill
               \/ AppendSize
               \/ AtFind \/ AtFollow \/ AtExtend \/ AtFull \/ AtLink \/ AtSeal
               \/ AtWrite \/ AtWriteFails \/ AtEntry

\* A call of Fat32Volume.
VolumeStep == Next /\ UNCHANGED <<more, before>>

InPlaceNext == InPlaceIssue \/ InPlaceStep \/ VolumeStep

InPlaceSpec == InPlaceInit /\ [][InPlaceNext]_allVars

(******************************** properties *******************************)
\* The call in progress returns status st.
Answers(op, st) == req.op = op /\ pc # "idle" /\ pc' = "idle" /\ status' = st

\* The chain of a file holds all the clusters its size speaks of: readers
\* follow that many links. Appends that fail may leave it longer, never shorter.
SizeCovered ==
  \A k \in Owners :
    dir[k].size <= UnitsPerCluster * Cardinality(Chain(Cluster, fat, dir[k].first))

\* A random write changes the units it was asked to change and no others of the
\* file: "SEM apagar o resto do conteudo", across clusters and when the file
\* grows, whatever failed appends left behind the end of the chain.
WriteAtExact ==
  [][Answers("write_at", "SUCCESS") =>
       LET new == View'[req.name]
           off == pos - Len(req.arg)
       IN /\ Len(new) = Larger(Len(before), pos)
          /\ \A i \in 1 .. Len(new) :
               IF i > off /\ i <= pos THEN new[i] = req.arg[i - off]
               ELSE i <= Len(before) => new[i] = before[i]]_allVars

\* An append that fails leaves the file as its callers knew it: no part of the
\* data shows, although clusters were linked and the tail was written.
FailedAppendHides ==
  [][\A st \in {"DISK_FULL", "ERROR_WRITE", "NOT_FOUND"} :
       Answers("append", st) => View'[req.name] = before]_allVars

\* No call in place changes what another name holds.
OthersUntouched ==
  [][req.op \in {"append", "write_at"} =>
       \A n \in Name \ {req.name} : View'[n] = View[n]]_allVars

\* What the comment over fat32_append_file says: the data goes to the end of
\* the existing file. (Does not hold of the code, see fat32_append_end.)
AppendAtEnd ==
  [][Answers("append", "SUCCESS") => View'[req.name] = before \o req.arg]_allVars

\* What README says of the root guard: no file's data ends up in the root
\* directory. (Does not hold of the code, see fat32_root.)
RootKept == \A k \in Slots : dir[k].name # JUNK
=============================================================================
