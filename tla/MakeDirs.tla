------------------------------ MODULE MakeDirs ------------------------------
(***************************************************************************)
(* mkdir_h of the two file listeners: a file that is created, or a         *)
(* directory that is asked for, gets all its parent directories.  The file *)
(* listener (fs/fs.c) and the GlobalPlatform one (gpfs/gpfs.c) serve one   *)
(* request at a time each, but both run, and directories of both can lie   *)
(* on one path: between a test for a directory and its mkdir the other     *)
(* listener may have made it.                                              *)
(* A directory is the sequence of the names on its path; system calls      *)
(* fail as the file system says, or with another error.                    *)
(***************************************************************************)
EXTENDS Naturals, Sequences

CONSTANTS
  Paths,      \* directories asked for
  Ignored,    \* DATA_PATH and DATA_VENDOR_PATH, that dir_exists refuses to test
  MaxCalls,   \* bound on the requests of one listener
  MaxFaults   \* bound on other errors of mkdir

VARIABLES
  dirs,       \* the directories there are
  pc,         \* of each listener
  dir,        \* its p_dir
  slash,      \* p_dir ends in '/', as file_preopen leaves it
  at,         \* the length of the path up to cur_pos
  ret,        \* errcode of gpfs.c, ret_val of fs.c
  calls,
  faults

vars == <<dirs, pc, dir, slash, at, ret, calls, faults>>

Listeners == {"fs", "gpfs"}

Prefix(p, n) == SubSeq(p, 1, n)

Init ==
  /\ dirs = Ignored
  /\ pc = [l \in Listeners |-> "idle"]
  /\ dir = [l \in Listeners |-> <<>>]
  /\ slash = [l \in Listeners |-> TRUE]
  /\ at = [l \in Listeners |-> 0]
  /\ ret = [l \in Listeners |-> "0"]
  /\ calls = [l \in Listeners |-> 0]
  /\ faults = 0

dir_exists(d) == d \notin Ignored /\ d \in dirs

Goes(l, to) == pc' = [pc EXCEPT ![l] = to]

Start(l, p, s) ==
  /\ pc[l] = "idle" /\ calls[l] < MaxCalls
  /\ Goes(l, "whole")
  /\ dir' = [dir EXCEPT ![l] = p] /\ slash' = [slash EXCEPT ![l] = s]
  /\ at' = [at EXCEPT ![l] = 1] /\ ret' = [ret EXCEPT ![l] = "0"]
  /\ calls' = [calls EXCEPT ![l] = @ + 1]
  /\ UNCHANGED <<dirs, faults>>

(* A file is opened with O_CREAT: the path is cut after its last '/'.      *)
(* Without one there is nothing to make, and the open fails.               *)
file_preopen(l) == \E p \in Paths : p # <<>> /\ Start(l, p, TRUE)

(* The command that makes a directory takes the name as it is. *)
file_mkdir == \E p \in Paths : p # <<>> /\ Start("fs", p, FALSE)

(* mkdir_h: a directory that is there needs nothing. *)
TestWhole(l) ==
  /\ pc[l] = "whole"
  /\ Goes(l, IF dir_exists(dir[l]) THEN "done" ELSE "parent")
  /\ UNCHANGED <<dirs, dir, slash, at, ret, calls, faults>>

Last(l) == at[l] = Len(dir[l])

(* A name that '/' follows is tested before it is made. *)
TestParent(l) ==
  /\ pc[l] = "parent"
  /\ IF (~Last(l) \/ slash[l]) /\ dir_exists(Prefix(dir[l], at[l]))
     THEN /\ Goes(l, IF Last(l) THEN "done" ELSE "parent")
          /\ at' = [at EXCEPT ![l] = @ + 1]
     ELSE Goes(l, "make") /\ UNCHANGED at
  /\ UNCHANGED <<dirs, dir, slash, ret, calls, faults>>

(* What mkdir says; EEXIST is no error for the loop. *)
Errno(d) == IF d \in dirs THEN "EEXIST"
            ELSE IF Len(d) > 1 /\ Prefix(d, Len(d) - 1) \notin dirs THEN "ENOENT" ELSE "0"

ReturnAfter(l, errno) ==
  IF l = "gpfs" THEN (IF errno = "EEXIST" THEN "0" ELSE errno)
  ELSE IF errno = "0" THEN "0" ELSE "-1"

Made(l, errno) ==
  /\ ret' = [ret EXCEPT ![l] = ReturnAfter(l, errno)]
  /\ IF errno \in {"0", "EEXIST"}
     THEN /\ Goes(l, IF Last(l) THEN "done" ELSE "parent")
          /\ at' = [at EXCEPT ![l] = @ + 1]
     ELSE Goes(l, "done") /\ UNCHANGED at

mkdir_h(l) ==
  LET d == Prefix(dir[l], at[l])
  IN  /\ pc[l] = "make"
      /\ \/ /\ Made(l, Errno(d))
            /\ dirs' = IF Errno(d) = "0" THEN dirs \cup {d} ELSE dirs
            /\ UNCHANGED faults
         \/ /\ faults < MaxFaults /\ faults' = faults + 1
            /\ Made(l, "EIO")
            /\ UNCHANGED dirs
      /\ UNCHANGED <<dir, slash, calls>>

Replies(l) ==
  /\ pc[l] = "done" /\ Goes(l, "idle")
  /\ UNCHANGED <<dirs, dir, slash, at, ret, calls, faults>>

Next ==
  \/ file_mkdir
  \/ \E l \in Listeners : \/ file_preopen(l) \/ TestWhole(l) \/ TestParent(l)
                          \/ mkdir_h(l) \/ Replies(l)

Spec == Init /\ [][Next]_vars

-----------------------------------------------------------------------------

TypeOK ==
  /\ pc \in [Listeners -> {"idle", "whole", "parent", "make", "done"}]
  /\ ret \in [Listeners -> {"0", "-1", "EEXIST", "ENOENT", "EIO"}]
  /\ slash \in [Listeners -> BOOLEAN]
  /\ \A d \in dirs : \A n \in 1 .. Len(d) : Prefix(d, n) \in dirs

(* A GlobalPlatform file finds its directory, or the file system refused   *)
(* it: however the other listener makes the same directories meanwhile,    *)
(* mkdir_h of gpfs.c returns 0 exactly when the whole path is there.       *)
GpfsDirectoryMade ==
  pc["gpfs"] = "done" => /\ ret["gpfs"] = "0" => dir["gpfs"] \in dirs
                         /\ faults = 0 => ret["gpfs"] = "0"
=============================================================================
