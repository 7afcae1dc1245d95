-------------------------- MODULE Fat32Refinement --------------------------
(***************************************************************************)
(* The files a caller of the FAT32 driver sees, read off the disk, and the *)
(* claim that Fat32Volume implements FileStore under that reading.         *)
(***************************************************************************)
EXTENDS Fat32Volume

CONSTANTS Absent, Folder

ASSUME ViewAssumption == Absent \notin Payload \cup {Folder}

\* The i-th cluster of a chain, EOC when it is shorter.
Nth(h, i) == Walk(Cluster, EOC, fat, h, i)

\* What fat32_read_file_at_offset copies out for the slot's file: the units of
\* its chain, up to the size the directory entry states.
ReadBack(k) ==
  [i \in 1 .. dir[k].size |->
     LET x == Nth(dir[k].first, (i - 1) \div UnitsPerCluster)
     IN IF x \in Cluster THEN data[x][(i - 1) % UnitsPerCluster] ELSE "unread"]

View == [n \in Name |->
           IF ~Exists(n) THEN Absent
           ELSE LET k == CHOOSE k \in Slots : Lookup(n, k)
                IN IF dir[k].folder THEN Folder ELSE ReadBack(k)]

\* The call in progress as the caller knows it: its answer is not out yet.
Called == IF pc = "idle" THEN [op |-> "none", name |-> Absent, arg |-> Absent]
          ELSE [req EXCEPT !.arg = IF req.op = "write" THEN req.arg ELSE Absent]
Answered == IF pc = "idle" THEN status ELSE "busy"

Files == INSTANCE FileStore
           WITH store <- View, Content <- Payload, req <- Called, status <- Answered

\* Seen through their contents, the driver's calls are the transitions of
\* FileStore: a call touches no file but its own, a file is there whole or not
\* at all, a success left exactly what was asked, and a failed write left
\* nothing, whichever clusters were reused in between.
ImplementsFileStore == Files!Spec
=============================================================================
