-------------------------------- MODULE Rpmb --------------------------------
(***************************************************************************)
(* The RPMB listener: detection of the storage device and the             *)
(* authenticated reads and writes that QTEE asks for                       *)
(* (listeners/librpmbservice).                                             *)
(*                                                                         *)
(* Two threads: the one that runs init of the service, which detects the   *)
(* device after it has registered the listener, and the one that serves    *)
(* requests.  Frames are opaque: frame k of a request is <<"q", k>>, frame  *)
(* j of an answer to request frame k is <<"a", k, j>>.  Request and answer  *)
(* share the buffer of the listener; the answer's header is 4 bytes        *)
(* shorter, so answer frame j destroys request frame j and no other.       *)
(***************************************************************************)
EXTENDS Integers, Sequences, FiniteSets

CONSTANTS
    MaxFrames,      \* the largest request, in frames
    RelWrCounts,    \* a device's frames per command (bRPMB_ReadWriteSize)
    MaxRequests,
    MaxOpens        \* bound on the descriptors of a behaviour

Threads == {"startup", "dispatch"}
Drivers == <<"UFS", "eMMC">>

VARIABLES
    present,        \* the devices that the machine has
    rel_wr_count,
    g_init_done, g_active_ops,
    fd,             \* rpmb.fd: -1 or a descriptor
    isOpen,         \* descriptors that are open
    opens,          \* how many were ever opened
    pc,             \* per thread
    drv,            \* per thread: index of the driver that rpmb_init looks at
    req,            \* the request: operation, frames, frames per batch, driver
    buf,            \* the shared buffer, a function of slots
    cache,          \* req_buf_cached
    done,           \* frames transferred
    trans,          \* transactions done
    sent,           \* the frames that reached the device, in order (ghost)
    status,         \* of the last request
    requests

init == <<present, rel_wr_count>>
core == <<g_init_done, g_active_ops>>
devfd == <<fd, isOpen, opens>>
xfer == <<req, buf, cache, done, trans, sent, status, requests>>
vars == <<init, core, devfd, pc, drv, xfer>>

NoReq == [op |-> "none", frames |-> 0, batch |-> 0, ops |-> "NULL"]
Slots == 0..MaxFrames - 1
Garbage == <<"x">>

TypeOK ==
    /\ fd \in {-1} \cup 1..MaxOpens /\ isOpen \subseteq 1..MaxOpens
    /\ g_init_done \in BOOLEAN /\ g_active_ops \in {"NULL", "UFS", "eMMC"}
    /\ DOMAIN pc = Threads /\ drv \in [Threads -> 1..Len(Drivers) + 1]
    /\ done \in 0..MaxFrames

\* What the descriptors of the device say.
get_ufs_rpmb_parameters == rel_wr_count \in RelWrCounts

Init ==
    /\ present \in SUBSET {"UFS", "eMMC"} /\ get_ufs_rpmb_parameters
    /\ g_init_done = FALSE /\ g_active_ops = "NULL"
    /\ fd = 0 - 1 /\ isOpen = {} /\ opens = 0
    /\ pc = [t \in Threads |-> IF t = "startup" THEN "rpmb_init" ELSE "idle"]
    /\ drv = [t \in Threads |-> 1]
    /\ req = NoReq /\ buf = [s \in Slots |-> Garbage] /\ cache = <<>>
    /\ done = 0 /\ trans = 0 /\ sent = <<>> /\ status = 0 /\ requests = 0

Goto(t, where) == pc' = [pc EXCEPT ![t] = where]

-----------------------------------------------------------------------------
(* rpmb_init (rpmb.c), by either thread.                                   *)

Finished(t) == IF t = "startup" THEN "done" ELSE "answer"

rpmb_init(t) ==
    /\ pc[t] = "rpmb_init"
    /\ IF g_init_done THEN Goto(t, Finished(t)) ELSE Goto(t, "probe")
    /\ drv' = [drv EXCEPT ![t] = 1]
    /\ UNCHANGED <<init, core, devfd, xfer>>

rpmb_ufs_probe == "UFS" \in present
rpmb_emmc_probe == "eMMC" \in present

\* The drivers in order; the end of the table sets g_init_done.
Probe(t) ==
    /\ pc[t] = "probe"
    /\ \/ /\ drv[t] > Len(Drivers)
          /\ g_init_done' = TRUE
          /\ Goto(t, Finished(t))
          /\ UNCHANGED drv
       \/ /\ drv[t] <= Len(Drivers)
          /\ IF (IF Drivers[drv[t]] = "UFS" THEN rpmb_ufs_probe ELSE rpmb_emmc_probe)
             THEN Goto(t, "init") /\ UNCHANGED drv
             ELSE drv' = [drv EXCEPT ![t] = @ + 1] /\ UNCHANGED pc
          /\ UNCHANGED g_init_done
    /\ UNCHANGED <<init, g_active_ops, devfd, xfer>>

DriverFails(t) ==
    /\ pc[t] \in {"init", "sense"}
    /\ drv' = [drv EXCEPT ![t] = @ + 1]
    /\ Goto(t, "probe")
    /\ UNCHANGED <<init, core, devfd, xfer>>

NewFd == opens < MaxOpens /\ opens' = opens + 1 /\ fd' = opens + 1
         /\ isOpen' = isOpen \cup {opens + 1}

\* rpmb_ufs_init forgets the descriptor and reads the parameters of the
\* device over another one.
rpmb_ufs_init(t) ==
    /\ pc[t] = "init" /\ Drivers[drv[t]] = "UFS"
    /\ fd' = 0 - 1 /\ UNCHANGED <<isOpen, opens>>
    /\ Goto(t, "sense")
    /\ UNCHANGED <<init, core, drv, xfer>>

\* rpmb_emmc_init opens the device and leaves it open.
rpmb_emmc_init(t) ==
    /\ pc[t] = "init" /\ Drivers[drv[t]] = "eMMC"
    /\ NewFd
    /\ Goto(t, "active")
    /\ UNCHANGED <<init, core, drv, xfer>>

\* rpmb_bsg_dev_open and rpmb_bsg_dev_close
rpmb_bsg_dev_open == IF fd = 0 - 1 THEN NewFd ELSE UNCHANGED devfd

rpmb_bsg_dev_close == isOpen' = isOpen \ {fd} /\ fd' = 0 - 1 /\ UNCHANGED opens

\* rpmb_ufs_send_request_sense: open, ioctl, close.
RequestSense(t) ==
    /\ pc[t] = "sense"
    /\ rpmb_bsg_dev_open
    /\ Goto(t, "sensed")
    /\ UNCHANGED <<init, core, drv, xfer>>

SenseClosed(t) ==
    /\ pc[t] = "sensed"
    /\ rpmb_bsg_dev_close
    /\ \/ Goto(t, "active") /\ UNCHANGED drv
       \/ Goto(t, "probe") /\ drv' = [drv EXCEPT ![t] = @ + 1]
    /\ UNCHANGED <<init, core, xfer>>

\* The driver becomes the active one, and detection is over.
Activate(t) ==
    /\ pc[t] = "active"
    /\ g_active_ops' = Drivers[drv[t]]
    /\ g_init_done' = TRUE
    /\ Goto(t, Finished(t))
    /\ UNCHANGED <<init, devfd, drv, xfer>>

-----------------------------------------------------------------------------
(* smci_dispatch and the handlers (rpmb_service.c, rpmb_ufs.c, rpmb_emmc.c) *)

Arrives(op, frames, batch) ==
    /\ pc["dispatch"] = "idle" /\ requests < MaxRequests
    /\ requests' = requests + 1
    /\ req' = [op |-> op, frames |-> frames, batch |-> batch, ops |-> "NULL"]
    /\ buf' = [s \in Slots |-> <<"q", s>>]
    /\ cache' = <<>> /\ done' = 0 /\ trans' = 0 /\ sent' = <<>> /\ status' = 0

rpmb_handle_init ==
    /\ Arrives("init", 0, 0)
    /\ Goto("dispatch", "rpmb_init")
    /\ UNCHANGED <<init, core, devfd, drv>>

\* rpmb_handle_read and rpmb_handle_write.
rpmb_handle_rw ==
    /\ \E frames \in 1..MaxFrames :
        \/ Arrives("read", frames, 1)
        \/ \E batch \in 1..frames : Arrives("write", frames, batch)
    /\ Goto("dispatch", "open")
    /\ UNCHANGED <<init, core, devfd, drv>>

\* rpmb_handle_partition and an unknown command.
rpmb_handle_partition ==
    /\ Arrives("partition", 0, 0)
    /\ Goto("dispatch", "fail")
    /\ UNCHANGED <<init, core, devfd, drv>>

\* The UFS driver keeps the requests of a read of several transactions aside.
Transactions == (req.frames + rel_wr_count - 1) \div rel_wr_count


Cached == IF req.op = "read" /\ Transactions > 1
          THEN [k \in 1..Transactions |-> buf[k - 1]] ELSE <<>>

\* UFS takes batches that fit a command, eMMC batches that fill the request.
Accepts(ops) ==
    req.op = "write" => IF ops = "UFS" THEN req.batch <= rel_wr_count
                                       ELSE req.frames % req.batch = 0

\* No active driver: -1.  The UFS driver opens the device for each request.
Open ==
    /\ pc["dispatch"] = "open"
    /\ req' = [req EXCEPT !.ops = g_active_ops]
    /\ cache' = IF g_active_ops = "UFS" THEN Cached ELSE <<>>
    /\ IF g_active_ops = "UFS" THEN rpmb_bsg_dev_open ELSE UNCHANGED devfd
    /\ Goto("dispatch", IF g_active_ops # "NULL" /\ Accepts(g_active_ops)
                        THEN "transfer" ELSE "fail")
    /\ UNCHANGED <<init, core, drv, buf, done, trans, sent, status, requests>>

\* An ioctl on rpmb.fd can succeed; there are frames left for a transaction.
Works == fd \in isOpen
More == done + req.batch <= req.frames

Serving(ops, op) == pc["dispatch"] = "transfer" /\ req.ops = ops /\ req.op = op /\ More /\ Works

\* The request frame goes out, n frames come back.
Reads(frame, n) ==
    /\ sent' = Append(sent, frame)
    /\ buf' = [s \in Slots |-> IF s \in done..done + n - 1
                               THEN <<"a", frame[2], s - done>> ELSE buf[s]]
    /\ done' = done + n
    /\ trans' = trans + 1
    /\ UNCHANGED <<init, core, devfd, pc, drv, req, cache, status, requests>>

\* One round of rpmb_ufs_read: up to rel_wr_count frames.
rpmb_ufs_read ==
    /\ Serving("UFS", "read")
    /\ Reads(IF cache = <<>> THEN buf[trans] ELSE cache[trans + 1],
             IF req.frames - done <= rel_wr_count THEN req.frames - done ELSE rel_wr_count)

rpmb_emmc_read == Serving("eMMC", "read") /\ Reads(buf[0], req.frames)

\* One round of a write: a batch out, the result register asked for and read
\* back into the first slot.
WriteTransaction ==
    /\ sent' = sent \o [k \in 1..req.batch |-> buf[done + k - 1]]
    /\ buf' = [buf EXCEPT ![0] = <<"a", 0, 0>>]
    /\ done' = done + req.batch
    /\ trans' = trans + 1
    /\ UNCHANGED <<init, core, devfd, pc, drv, req, cache, status, requests>>

rpmb_ufs_write_with_timeout == Serving("UFS", "write") /\ WriteTransaction

rpmb_emmc_write == Serving("eMMC", "write") /\ WriteTransaction

\* An ioctl fails, or the result frame of an eMMC write tells of an error.
TransactionFails ==
    /\ pc["dispatch"] = "transfer" /\ More
    /\ Goto("dispatch", "fail")
    /\ UNCHANGED <<init, core, devfd, drv, xfer>>

TransferDone ==
    /\ pc["dispatch"] = "transfer" /\ ~More
    /\ Goto("dispatch", "answer")
    /\ UNCHANGED <<init, core, devfd, drv, xfer>>

\* The UFS driver closes the device after each request.
Answer ==
    /\ pc["dispatch"] \in {"answer", "fail"}
    /\ status' = IF pc["dispatch"] = "fail" \/ (req.op = "init" /\ g_active_ops = "NULL") THEN 0 - 1 ELSE 0
    /\ IF req.ops = "UFS" THEN rpmb_bsg_dev_close ELSE UNCHANGED devfd
    /\ Goto("dispatch", "idle")
    /\ UNCHANGED <<init, core, drv, req, buf, cache, done, trans, sent, requests>>

Startup(t) ==
    \/ rpmb_init(t) \/ Probe(t) \/ DriverFails(t) \/ rpmb_ufs_init(t) \/ rpmb_emmc_init(t)
    \/ RequestSense(t) \/ SenseClosed(t) \/ Activate(t)

Next ==
    \/ \E t \in Threads : Startup(t)
    \/ rpmb_handle_init \/ rpmb_handle_rw \/ rpmb_handle_partition
    \/ Open \/ rpmb_ufs_read \/ rpmb_emmc_read
    \/ rpmb_ufs_write_with_timeout \/ rpmb_emmc_write \/ TransactionFails
    \/ TransferDone \/ Answer

Spec == Init /\ [][Next]_vars

-----------------------------------------------------------------------------
=============================================================================
