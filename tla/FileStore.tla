------------------------------ MODULE FileStore ------------------------------
(***************************************************************************)
(* What the FAT32 driver promises the callers of its "whole file" calls    *)
(* (fat32_write_file, fat32_delete_file, fat32_create_dir, fat32_rename),  *)
(* with no clusters, no table and no directory slots: a map from names to  *)
(* contents, changed only under the name of the call in progress.          *)
(*                                                                         *)
(* Every transition is atomic; a call is a request, at most one Remove, at *)
(* most one Put, and an answer.  Power may fail between any two of them.   *)
(* Fat32Volume is shown to implement this module.                          *)
(***************************************************************************)
CONSTANTS Name,      \* the names of one directory
          Content,   \* what a file can hold
          Absent,    \* the value of a name that is not in the directory
          Folder     \* the value of a name that is a sub-directory

NoRequest == [op |-> "none", name |-> Absent, arg |-> Absent]

VARIABLES store,   \* Name -> Content, Folder or Absent
          req,     \* the call in progress, or NoRequest
          status   \* the answer of the last call that returned

vars == <<store, req, status>>

Init == /\ store = [n \in Name |-> Absent]
        /\ req = NoRequest
        /\ status = "SUCCESS"

Begin == /\ req = NoRequest
         /\ \E n \in Name :
              \/ \E s \in Content : req' = [op |-> "write", name |-> n, arg |-> s]
              \/ \E op \in {"delete", "mkdir"} :
                   req' = [op |-> op, name |-> n, arg |-> Absent]
         /\ status' = "busy"
         /\ UNCHANGED store

Answer(st) == req' = NoRequest /\ status' = st

\* A write or a delete takes the old file out of the directory first.
Remove == /\ req.op \in {"write", "delete"}
          /\ store[req.name] # Absent
          /\ store' = [store EXCEPT ![req.name] = Absent]
          /\ UNCHANGED <<req, status>>

\* A write succeeds by putting exactly its argument under a name that is free.
Put == /\ req.op = "write"
       /\ store[req.name] = Absent
       /\ store' = [store EXCEPT ![req.name] = req.arg]
       /\ Answer("SUCCESS")

MakeFolder == /\ req.op = "mkdir"
              /\ store[req.name] = Absent
              /\ store' = [store EXCEPT ![req.name] = Folder]
              /\ Answer("SUCCESS")

\* A delete answers once the name is gone.
Deleted == /\ req.op = "delete"
           /\ store[req.name] = Absent
           /\ \E st \in {"SUCCESS", "NOT_FOUND"} : Answer(st)
           /\ UNCHANGED store

\* A write that fails leaves nothing under its name; a mkdir that fails
\* leaves the name as it was.
Fail == /\ \/ req.op = "write" /\ store[req.name] = Absent
           \/ req.op = "mkdir"
        /\ \E st \in {"NOT_FOUND", "DISK_FULL", "ERROR_WRITE"} : Answer(st)
        /\ UNCHANGED store

\* A rename is one transition: the file moves whole to a name that is free, or
\* nothing changes.
Rename == /\ req = NoRequest
          /\ \E old, new \in Name :
               \/ /\ store[old] # Absent /\ store[new] = Absent
                  /\ store' = [store EXCEPT ![new] = store[old], ![old] = Absent]
                  /\ status' = "SUCCESS"
               \/ /\ store' = store
                  /\ status' = "RENAME_REFUSED"
          /\ req' = req

\* Power fails: the call is forgotten, what is stored stays.
PowerLoss == req' = NoRequest /\ status' = "rebooted" /\ UNCHANGED store

Next == \/ Begin \/ Remove \/ Put \/ MakeFolder \/ Deleted \/ Fail
        \/ Rename \/ PowerLoss

Spec == Init /\ [][Next]_vars
=============================================================================
