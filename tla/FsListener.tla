----------------------------- MODULE FsListener -----------------------------
(***************************************************************************)
(* The file listener: the file and directory requests that QTEE sends to   *)
(* the supplicant (listeners/libfsservice/fs and cmn).                     *)
(*                                                                         *)
(* A path is a sequence of component names, <<>> the root.  The file       *)
(* system below the listener is external: a tree of directories and of     *)
(* names (hard links) of inodes; what the files contain no property tells  *)
(* apart.  Every system call may also fail with EIO.  Requests are served one at a time (ListenerCBO),   *)
(* so a handler is one step; error_number is the listener's only state     *)
(* from one request to the next besides descriptors and streams.           *)
(***************************************************************************)
EXTENDS Naturals, Sequences, FiniteSets, SequencesExt

CONSTANTS
    Names,          \* the absolute path names of requests
    Mounted,        \* the directories that exist when the listener starts
    Inodes, Fds, Streams,
    MaxDepth        \* bound on the depth of the tree

VARIABLES
    dirs,           \* the directories
    files,          \* the names of files: path -> inode
    fds,            \* descriptor -> inode, or Closed
    streams,        \* the open DIR streams
    error_number,
    last,           \* the last answer: ret, and the errno of the call that failed
    where           \* name -> the path that its last creation made (ghost)

disk == <<dirs, files>>
vars == <<dirs, files, fds, streams, error_number, last, where>>

None == <<"none">>
Closed == 0

\* The fixed paths of cmn.h and helper.c, shortened: DATA_PATH,
\* PERSIST_MOUNT_PATH, PERSIST_PATH, OLD_PERSIST_MOUNT_PATH,
\* LEGACY_PERSIST_PATH and the white list.
DATA_PATH == <<"tzstorage">>
PERSIST_MOUNT_PATH == <<"tee">>
PERSIST_PATH == <<"tee", "supplicant">>
OLD_PERSIST_MOUNT_PATH == <<"oldpersist">>
LEGACY_PERSIST_PATH == <<"persist", "data">>
gp_whitelist_paths == {<<"data", "qsee">>}

-----------------------------------------------------------------------------
(* Path resolution (helper.c).                                             *)

Below(p, q) == IsStrictPrefix(p, q)

\* check_dir_path: the directory part of the path exists.
check_dir_path(p) == Front(p) \in dirs

is_whitelist_path(p) == \E w \in gp_whitelist_paths : Below(w, p)

modify_path(p) == PERSIST_MOUNT_PATH \o SubSeq(p, Len(OLD_PERSIST_MOUNT_PATH) + 1, Len(p))

get_resolved_path(p) ==
    CASE check_dir_path(p) -> p
      [] ~check_dir_path(p) /\ is_whitelist_path(p) -> DATA_PATH \o p
      [] ~check_dir_path(p) /\ ~is_whitelist_path(p)
         /\ IsPrefix(OLD_PERSIST_MOUNT_PATH, p) -> modify_path(p)
      [] ~check_dir_path(p) /\ ~is_whitelist_path(p)
         /\ ~IsPrefix(OLD_PERSIST_MOUNT_PATH, p)
         /\ Below(LEGACY_PERSIST_PATH, p) -> PERSIST_PATH \o p
      [] OTHER -> p

Ancestors(p) == {SubSeq(p, 1, k) : k \in 0..Len(p)}

TypeOK ==
    /\ \A p \in dirs \cup DOMAIN files : Len(p) <= MaxDepth
    /\ dirs \cap DOMAIN files = {}
    /\ \A p \in (dirs \cup DOMAIN files) \ {<<>>} : Front(p) \in dirs
    /\ \A p \in DOMAIN files : files[p] \in Inodes
    /\ fds \in [Fds -> Inodes \cup {Closed}]
    /\ streams \subseteq Streams
    /\ last.ret \in {"ok", "fail", "unset", "unrecorded", "unsupported"}

Init ==
    /\ dirs = UNION {Ancestors(m) : m \in Mounted}
    /\ files = [p \in {} |-> 0]
    /\ fds = [d \in Fds |-> Closed]
    /\ streams = {}
    /\ error_number = "0"
    /\ last = [ret |-> "ok", cause |-> "0"]
    /\ where = [n \in Names |-> None]

-----------------------------------------------------------------------------
(* The file system (external) and how a handler answers.                   *)

IsFile(p) == p \in DOMAIN files
With(p, i) == [q \in DOMAIN files \cup {p} |-> IF q = p THEN i ELSE files[q]]
Without(gone) == [q \in DOMAIN files \ gone |-> files[q]]
Exists(p) == IsFile(p) \/ p \in dirs
Parent(p) == Front(p) \in dirs
\* The errno of a call on p that needs it to exist.
Missing(p) == IF \E q \in Ancestors(p) : q # p /\ IsFile(q) THEN "ENOTDIR" ELSE "ENOENT"

Answer(ret, cause) == last' = [ret |-> ret, cause |-> cause]
Ok == Answer("ok", "0") /\ UNCHANGED error_number
Fails_unrecorded(errno) == Answer("fail", errno) /\ UNCHANGED error_number
Fails(errno) == Answer("fail", errno) /\ error_number' = errno

\* A handler whose system call on no tree fails: nothing but the answer.
Failing(errnos) ==
    /\ \E e \in errnos \cup {"EIO"} : Fails(e)
    /\ UNCHANGED <<disk, fds, streams, where>>

Unnamed(i) ==
    /\ \A p \in DOMAIN files : files[p] # i
    /\ \A d \in Fds : fds[d] # i

Forget(gone) == [n \in Names |-> IF where[n] \in gone THEN None ELSE where[n]]

\* dir_exists: opendir; it records its failure in error_number whether or
\* not the request fails.
dir_exists(p) == p \in dirs

\* mkdir_h: makes the directories of p that are missing, from the root on,
\* and stops at the first that cannot be made.
Blocked(p) == \E q \in Ancestors(p) : IsFile(q)
Made(p) == dirs \cup {q \in Ancestors(p) : \A a \in Ancestors(q) : ~IsFile(a)}

-----------------------------------------------------------------------------
(* Requests that name a path.                                              *)

\* file_open with O_CREAT: file_preopen makes the directory part first.
\* file_creat, and openat with O_CREAT, do not.
Create(n, preopen) ==
    LET p == get_resolved_path(n)
        made == IF preopen THEN Made(Front(p)) ELSE dirs
    IN  \/ /\ preopen /\ Blocked(Front(p))
           /\ Fails("ENOTDIR")
           /\ dirs' = Made(Front(p))
           /\ UNCHANGED <<files, fds, streams, where>>
        \/ /\ Front(p) \in made /\ p \notin made
           /\ \E d \in Fds, i \in Inodes :
                /\ fds[d] = Closed
                /\ IF IsFile(p) THEN files[p] = i ELSE Unnamed(i)
                /\ files' = With(p, i)
                /\ fds' = [fds EXCEPT ![d] = i]
           /\ dirs' = made
           /\ where' = [where EXCEPT ![n] = p]
           /\ Answer("ok", "0")
           /\ error_number' = IF made # dirs THEN "ENOENT" ELSE error_number
           /\ UNCHANGED streams
        \/ /\ preopen => ~Blocked(Front(p))
           /\ \E e \in {"EIO"} \cup (IF p \in made THEN {"EISDIR"} ELSE {})
                       \cup (IF Front(p) \notin made THEN {Missing(p)} ELSE {}) : Fails(e)
           /\ dirs' = made
           /\ UNCHANGED <<files, fds, streams, where>>

file_open_creat(n) == Create(n, TRUE)
file_creat(n) == Create(n, FALSE)

\* file_open and file_openat without O_CREAT; the descriptor of openat is
\* ignored, the path being absolute.
file_open(n) ==
    LET p == get_resolved_path(n)
    IN  \/ /\ IsFile(p)
           /\ \E d \in Fds :
                /\ fds[d] = Closed
                /\ fds' = [fds EXCEPT ![d] = files[p]]
           /\ Ok
           /\ UNCHANGED <<disk, streams, where>>
        \/ Failing(IF Exists(p) THEN {} ELSE {Missing(p)})

\* file_unlink and file_unlinkat.
file_unlink(n) ==
    LET p == get_resolved_path(n)
    IN  \/ /\ IsFile(p)
           /\ files' = Without({p})
           /\ where' = Forget({p})
           /\ Ok
           /\ UNCHANGED <<dirs, fds, streams>>
        \/ Failing(IF IsFile(p) THEN {} ELSE IF p \in dirs THEN {"EISDIR"} ELSE {Missing(p)})

file_link(n, m) ==
    LET p == get_resolved_path(n)
        q == get_resolved_path(m)
    IN  \/ /\ IsFile(p) /\ Parent(q) /\ ~Exists(q)
           /\ files' = With(q, files[p])
           /\ where' = [where EXCEPT ![m] = q]
           /\ Ok
           /\ UNCHANGED <<dirs, fds, streams>>
        \/ Failing(IF ~Exists(p) THEN {Missing(p)}
                           ELSE IF Exists(q) THEN {"EEXIST"}
                           ELSE IF ~Parent(q) THEN {Missing(q)} ELSE {})

\* file_rename, of a file, or of a directory with all that is below it.
Moved(path, p, q) == IF IsPrefix(p, path) THEN q \o SubSeq(path, Len(p) + 1, Len(path)) ELSE path

file_rename(n, m) ==
    LET p == get_resolved_path(n)
        q == get_resolved_path(m)
        same == IsFile(p) /\ IsFile(q) /\ files[p] = files[q]
        below == {f \in dirs \cup DOMAIN files : IsPrefix(p, f)}
    IN  \/ /\ Exists(p) /\ Parent(q) /\ ~IsPrefix(p, q)
           /\ IF p \in dirs THEN ~Exists(q) ELSE q \notin dirs
           /\ \A f \in below : Len(Moved(f, p, q)) <= MaxDepth
           /\ dirs' = {Moved(d, p, q) : d \in dirs}
           /\ files' = IF same THEN files
                       ELSE [f \in {Moved(g, p, q) : g \in DOMAIN files} |->
                               files[IF IsPrefix(q, f) THEN Moved(f, q, p) ELSE f]]
           /\ where' = LET kept == Forget(IF same THEN {} ELSE below)
                       IN  IF IsFile(p) THEN [kept EXCEPT ![m] = q] ELSE kept
           /\ Ok
           /\ UNCHANGED <<fds, streams>>
        \/ Failing(IF ~Exists(p) THEN {Missing(p)} ELSE IF ~Parent(q) THEN {Missing(q)} ELSE {})

\* rmdir_h: everything below goes, then the directory.  What cannot be
\* removed stays, and makes the last rmdir fail.
rmdir_h(p) ==
    \/ /\ p \in dirs /\ p # <<>>
       /\ \E stuck \in {{}} \cup {{f} : f \in {f \in DOMAIN files : Below(p, f)}} :
            LET keeps(q) == \E f \in stuck : q \in Ancestors(f)
                gone == {f \in DOMAIN files : Below(p, f)} \ stuck
            IN  /\ dirs' = {q \in dirs : IsPrefix(p, q) => keeps(q)}
                /\ files' = Without(gone)
                /\ where' = Forget(gone)
                /\ IF stuck = {} THEN Ok ELSE Fails("ENOTEMPTY")
       /\ UNCHANGED <<fds, streams>>
    \/ Failing(IF p \in dirs THEN {} ELSE IF IsFile(p) THEN {"ENOTDIR"} ELSE {Missing(p)})

file_rmdir(n) == rmdir_h(get_resolved_path(n))

\* file_remove: a directory like rmdir, anything else by unlink, whose
\* failure is not recorded: error_number is that of dir_exists.
file_remove(n) ==
    LET p == get_resolved_path(n)
        opendir == IF IsFile(p) THEN "ENOTDIR" ELSE Missing(p)
    IN  \/ dir_exists(p) /\ rmdir_h(p)
        \/ /\ ~dir_exists(p) /\ IsFile(p)
           /\ files' = Without({p})
           /\ where' = Forget({p})
           /\ Answer("ok", "0") /\ error_number' = opendir
           /\ UNCHANGED <<dirs, fds, streams>>
        \/ /\ ~dir_exists(p)
           /\ Answer("unrecorded", IF IsFile(p) THEN "EIO" ELSE Missing(p))
           /\ error_number' = opendir
           /\ UNCHANGED <<disk, fds, streams, where>>

\* file_mkdir: mkdir_h.
file_mkdir(n) ==
    LET p == get_resolved_path(n)
    IN  /\ dirs' = Made(p)
        /\ IF Blocked(p) THEN Fails("ENOTDIR")
           ELSE /\ Answer("ok", "0")
                /\ error_number' = IF dir_exists(p) THEN error_number ELSE "ENOENT"
        /\ UNCHANGED <<files, fds, streams, where>>

\* file_lstat, file_testdir: no change but the answer.
file_lstat(n) ==
    LET p == get_resolved_path(n)
    IN  \/ Exists(p) /\ Ok /\ UNCHANGED <<disk, fds, streams, where>>
        \/ Failing(IF Exists(p) THEN {} ELSE {Missing(p)})

file_testdir(n) ==
    LET p == get_resolved_path(n)
    IN  \/ dir_exists(p) /\ Ok /\ UNCHANGED <<disk, fds, streams, where>>
        \/ ~dir_exists(p) /\ Failing({IF IsFile(p) THEN "ENOTDIR" ELSE Missing(p)})

-----------------------------------------------------------------------------
(* Requests on descriptors and streams.                                    *)

\* They leave the names alone.
OnFd(d) ==
    \/ /\ fds[d] # Closed
       /\ Ok
       /\ UNCHANGED <<disk, fds, streams, where>>
    \/ Failing(IF fds[d] = Closed THEN {"EBADF"} ELSE {})
file_read(d) == OnFd(d)
file_write(d) == OnFd(d)
file_lseek(d) == OnFd(d)
file_fstat(d) == OnFd(d)
file_fcntl(d) == OnFd(d)
file_sync(d) == OnFd(d)

file_close(d) ==
    \/ /\ fds[d] # Closed
       /\ fds' = [fds EXCEPT ![d] = Closed]
       /\ Ok
       /\ UNCHANGED <<disk, streams, where>>
    \/ Failing(IF fds[d] = Closed THEN {"EBADF"} ELSE {})

dir_open(n) ==
    LET p == get_resolved_path(n)
    IN  \/ /\ p \in dirs
           /\ \E s \in Streams \ streams : streams' = streams \cup {s}
           /\ Ok
           /\ UNCHANGED <<disk, fds, where>>
        \/ Failing(IF p \in dirs THEN {} ELSE IF IsFile(p) THEN {"ENOTDIR"} ELSE {Missing(p)})

\* dir_read: an entry, or d_ino 0 at the end; readdir's errors look like the
\* end too.
dir_read(s) ==
    /\ s \in streams
    /\ Ok
    /\ UNCHANGED <<disk, fds, streams, where>>

dir_close(s) ==
    /\ s \in streams
    /\ \/ Ok \/ Fails("EIO")
    /\ streams' = streams \ {s}
    /\ UNCHANGED <<disk, fds, where>>

-----------------------------------------------------------------------------
(* Requests on nothing.                                                    *)

Unmoved == UNCHANGED <<disk, fds, streams, where>>

\* Refused without a system call: error_number is left alone.
file_error == Answer("unsupported", "0") /\ UNCHANGED error_number /\ Unmoved
file_telldir == file_error

\* The free space of a partition (whose name may be too long), the end of
\* the service, the last error.
file_get_partition_free_size == (Ok \/ Fails("EIO") \/ Fails("EINVAL")) /\ Unmoved
file_end == Ok /\ Unmoved
file_get_errno == Ok /\ Unmoved

\* file_dir_chown_chmod: a command per level; on success my_rsp->ret is
\* never assigned and still holds bytes of the request.
file_dir_chown_chmod(n) ==
    /\ \/ Exists(n) /\ Answer("unset", "0") /\ UNCHANGED error_number
       \/ \E e \in {"EINVAL", "EIO"} : Fails(e)
    /\ UNCHANGED <<disk, fds, streams, where>>

\* smci_dispatch.
OnName(n) ==
    \/ file_open_creat(n) \/ file_creat(n) \/ file_open(n) \/ file_unlink(n)
    \/ file_rmdir(n) \/ file_remove(n) \/ file_mkdir(n)
    \/ file_lstat(n) \/ file_testdir(n) \/ dir_open(n) \/ file_dir_chown_chmod(n)

Next ==
    \/ \E n \in Names : OnName(n)
    \/ \E n, m \in Names : file_link(n, m) \/ file_rename(n, m)
    \/ \E d \in Fds :
        \/ file_read(d) \/ file_write(d) \/ file_lseek(d) \/ file_fstat(d)
        \/ file_fcntl(d) \/ file_sync(d) \/ file_close(d)
    \/ \E s \in Streams : dir_read(s) \/ dir_close(s)
    \/ file_error \/ file_telldir
    \/ file_get_partition_free_size \/ file_end \/ file_get_errno

Spec == Init /\ [][Next]_vars

-----------------------------------------------------------------------------
\* A file created, linked or renamed under a name is found again under that
\* name, whatever requests came between, until it is removed or renamed:
\* every handler resolves the name the same way.  The one exception is a
\* directory that has meanwhile been made where the name's own directory was
\* missing: it hides the file that was put under DATA_PATH or PERSIST_PATH.
FilesFoundAgain ==
    \A n \in Names : where[n] # None =>
        /\ IsFile(where[n])
        /\ get_resolved_path(n) = where[n] \/ (check_dir_path(n) /\ where[n] # n)

\* TZ_FS_MSG_CMD_FILE_GET_ERRNO after a request that failed returns the
\* errno of the call that failed it: a failing request leaves error_number
\* its own cause and not that of an earlier request.  file_remove is
\* excepted: its unlink does not record errno.
ErrnoIsOfLastFailure ==
    last.ret = "fail" => error_number = last.cause
=============================================================================
