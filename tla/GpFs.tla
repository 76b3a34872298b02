-------------------------------- MODULE GpFs --------------------------------
(***************************************************************************)
(* The GlobalPlatform file listener: the requests that QTEE sends for      *)
(* files of the data and persist partitions (listeners/libfsservice/gpfs). *)
(*                                                                         *)
(* A file is a sequence of blocks.  A request is served alone, because     *)
(* CListenerCBO dispatches one at a time (module ListenerCBO), but a       *)
(* transfer is many system calls: each may move fewer blocks than asked,   *)
(* each may fail, and power may go between any two of them.  What the      *)
(* storage keeps then is what was written with O_SYNC or followed by       *)
(* fsync.  The absolute name of a file always lies under DATA_PATH or      *)
(* PERSIST_PATH, which get_resolved_path never rewrites, so a name and a   *)
(* partition identify a file.                                              *)
(***************************************************************************)
EXTENDS Integers, Sequences, SequencesExt

CONSTANTS
    Files,          \* the (partition, name) pairs of a model
    MaxSize,        \* TZ_GPFS_FILE_SIZE in blocks: what one request can move
    MaxRequests,    \* bound on the requests of a behaviour
    Values          \* the contents of a written block

VARIABLES
    main,           \* the content of a file, or Absent
    bak,            \* the content of its ".bak", or Absent
    dirty,          \* the backup's content is not yet on the storage
    pc,
    req,            \* the request being served
    moved,          \* blocks copied or transferred so far
    old,            \* the content before the request (ghost)
    reply,          \* my_rsp->err, and the count when it is 0
    requests

vars == <<main, bak, dirty, pc, req, moved, old, reply, requests>>

Absent == <<-1>>
Hole == 0
NoRequest == [op |-> "none"]
NoReply == [err |-> "none", count |-> 0]
Contents == {Absent} \cup BoundedSeq(Values \cup {Hole}, 2 * MaxSize)

TypeOK ==
    /\ main \in [Files -> Contents] /\ bak \in [Files -> Contents]
    /\ dirty \in BOOLEAN
    /\ pc \in {"idle", "open", "backup", "copy", "sync", "seek", "transfer", "off"}
    /\ moved \in 0..2 * MaxSize
    /\ requests \in 0..MaxRequests

Init ==
    /\ main \in [Files -> {Absent, <<>>, [b \in 1..MaxSize |-> CHOOSE v \in Values : TRUE]}]
    /\ bak = [f \in Files |-> Absent]
    /\ dirty = FALSE /\ pc = "idle" /\ req = NoRequest /\ moved = 0
    /\ old = <<>> /\ reply = NoReply /\ requests = 0

-----------------------------------------------------------------------------
Reply(err, count) ==
    /\ reply' = [err |-> err, count |-> count]
    /\ pc' = "idle"
    /\ req' = NoRequest /\ moved' = 0 /\ old' = <<>>

Arrives == pc = "idle" /\ requests < MaxRequests /\ requests' = requests + 1

\* gpfile_read, gpfile_write: the command names the partition, count is
\* clipped to the buffer when the transfer starts.
Transfer(r) ==
    /\ Arrives
    /\ req' = r
    /\ pc' = "open" /\ moved' = 0 /\ old' = <<>> /\ reply' = NoReply
    /\ UNCHANGED <<main, bak, dirty>>

gpfile_read ==
    \E f \in Files, offset \in 0..MaxSize, count \in 0..MaxSize + 1 :
        Transfer([op |-> "read", file |-> f, offset |-> offset, count |-> count, backup |-> FALSE])

gpfile_write ==
    \E f \in Files, offset \in 0..MaxSize, count \in 0..MaxSize + 1, v \in Values, b \in BOOLEAN :
        Transfer([op |-> "write", file |-> f, offset |-> offset, count |-> count,
                  backup |-> b, value |-> v])

\* An empty name, a command the switch does not know, the version command.
NoFile ==
    /\ Arrives
    /\ \/ Reply("EINVAL", 0)
       \/ Reply("GPFS_ERROR_NO_CMD", 0)
       \/ Reply("ok", 0)
    /\ UNCHANGED <<main, bak, dirty>>

\* file_open: O_CREAT makes the directories and the file.
file_open ==
    /\ pc = "open"
    /\ \/ /\ Reply("errno", 0)
          /\ UNCHANGED <<main, bak, dirty>>
       \/ /\ req.op = "read" => main[req.file] # Absent
          /\ LET there == IF main[req.file] = Absent THEN <<>> ELSE main[req.file]
             IN  main' = [main EXCEPT ![req.file] = there] /\ old' = there
          /\ pc' = IF req.backup THEN "backup" ELSE "seek"
          /\ UNCHANGED <<bak, dirty, req, moved, reply>>
    /\ UNCHANGED requests

\* backup_file: nothing to do for an empty file; the ".bak" is opened with
\* O_TRUNC.
backup_file ==
    /\ pc = "backup"
    /\ \/ /\ Reply("errno", 0)
          /\ UNCHANGED <<main, bak, dirty>>
       \/ /\ main[req.file] = <<>>
          /\ pc' = "seek"
          /\ UNCHANGED <<main, bak, dirty, req, moved, old, reply>>
       \/ /\ main[req.file] # <<>>
          /\ bak' = [bak EXCEPT ![req.file] = <<>>]
          /\ dirty' = TRUE
          /\ pc' = "copy"
          /\ UNCHANGED <<main, req, moved, old, reply>>
    /\ UNCHANGED requests

\* One round of the copy: read some blocks, write them all to the backup.
Copy ==
    /\ pc = "copy"
    /\ \E k \in 1..Len(main[req.file]) - moved :
        /\ bak' = [bak EXCEPT ![req.file] = @ \o SubSeq(main[req.file], moved + 1, moved + k)]
        /\ moved' = moved + k
        /\ pc' = IF moved + k = Len(main[req.file]) THEN "sync" ELSE "copy"
    /\ UNCHANGED <<main, dirty, req, old, reply, requests>>

\* A read or write of the copy fails: EIO, after fsync and close.
CopyFails ==
    /\ pc = "copy"
    /\ dirty' = FALSE
    /\ Reply("EIO", 0)
    /\ UNCHANGED <<main, bak, requests>>

BackupSync_none ==
    /\ pc = "sync"
    /\ moved' = 0
    /\ pc' = "seek"
    /\ UNCHANGED <<main, bak, dirty, req, old, reply, requests>>

BackupSync ==
    /\ pc = "sync"
    /\ dirty' = FALSE
    /\ moved' = 0
    /\ pc' = "seek"
    /\ UNCHANGED <<main, bak, req, old, reply, requests>>

\* gpfile_readwrite_helper: lseek, then the count is clipped to the buffer.
Seek ==
    /\ pc = "seek"
    /\ \/ /\ Reply("errno", 0)
       \/ /\ pc' = "transfer"
          /\ req' = [req EXCEPT !.count = IF @ > MaxSize THEN MaxSize ELSE @]
          /\ UNCHANGED <<moved, old, reply>>
    /\ UNCHANGED <<main, bak, dirty, requests>>

\* The content after k more blocks were written at position at; lseek may
\* have left a hole.
Written(content, at, k) ==
    [b \in 1..(IF at + k > Len(content) THEN at + k ELSE Len(content)) |->
        IF b \in at + 1..at + k THEN req.value
        ELSE IF b <= Len(content) THEN content[b] ELSE Hole]

\* One round of perform_read_write.  At the end of the file read returns 0
\* and the loop goes round without having moved.
perform_read_write ==
    /\ pc = "transfer" /\ moved < req.count
    /\ LET at == req.offset + moved
           left == req.count - moved
           size == Len(main[req.file])
       IN  \/ /\ req.op = "read"
              /\ IF at >= size THEN moved' = moved
                 ELSE \E k \in 1..left : at + k <= size /\ moved' = moved + k
              /\ main' = main
           \/ /\ req.op = "write"
              /\ \E k \in 1..left :
                    /\ main' = [main EXCEPT ![req.file] = Written(@, at, k)]
                    /\ moved' = moved + k
    /\ UNCHANGED <<bak, dirty, pc, req, old, reply, requests>>

TransferFails ==
    /\ pc = "transfer" /\ moved < req.count
    /\ Reply("errno", 0)
    /\ UNCHANGED <<main, bak, dirty, requests>>

TransferDone ==
    /\ pc = "transfer" /\ moved = req.count
    /\ Reply("ok", moved)
    /\ UNCHANGED <<main, bak, dirty, requests>>

\* gpfile_remove: a directory is refused, a missing file is ENOENT.
gpfile_remove ==
    /\ Arrives
    /\ \E f \in Files :
        \/ /\ main[f] # Absent
           /\ main' = [main EXCEPT ![f] = Absent]
           /\ Reply("ok", 0)
        \/ Reply("errno", 0) /\ UNCHANGED main
    /\ UNCHANGED <<bak, dirty>>

\* gpfile_rename: the backup keeps its name.
gpfile_rename ==
    /\ Arrives
    /\ \E f, g \in Files :
        \/ /\ main[f] # Absent
           /\ main' = [main EXCEPT ![g] = main[f], ![f] = IF f = g THEN @ ELSE Absent]
           /\ Reply("ok", 0)
        \/ Reply("errno", 0) /\ UNCHANGED main
    /\ UNCHANGED <<bak, dirty>>

-----------------------------------------------------------------------------
\* The power goes: of an unsynced backup any prefix may have reached the
\* storage.
PowerFails ==
    /\ pc \notin {"idle", "off"}
    /\ pc' = "off"
    /\ dirty' = FALSE
    /\ IF dirty
       THEN \E k \in 0..Len(bak[req.file]) :
              bak' = [bak EXCEPT ![req.file] = SubSeq(@, 1, k)]
       ELSE bak' = bak
    /\ UNCHANGED <<main, req, moved, old, reply, requests>>

Restarts ==
    /\ pc = "off"
    /\ Reply("none", 0)
    /\ UNCHANGED <<main, bak, dirty, requests>>

Serve ==
    \/ file_open \/ backup_file \/ Copy \/ BackupSync
    \/ Seek \/ perform_read_write \/ TransferDone

Next ==
    \/ gpfile_read \/ gpfile_write \/ NoFile \/ gpfile_remove \/ gpfile_rename
    \/ Serve \/ CopyFails \/ TransferFails \/ PowerFails \/ Restarts

Spec == Init /\ [][Next]_vars

-----------------------------------------------------------------------------
\* A write that asks for a backup never has both copies in doubt: whenever
\* the file differs from what it held before the request, the ".bak" is
\* complete, equal to it and on the storage, and this stays so when the
\* power goes in the middle of the transfer.
BackupOrOriginal ==
    pc # "idle" /\ req.op = "write" /\ req.backup /\ old # <<>> =>
        \/ main[req.file] = old
        \/ bak[req.file] = old /\ ~dirty
=============================================================================
