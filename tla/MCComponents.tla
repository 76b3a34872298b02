---------------------------- MODULE MCComponents ----------------------------
(* Safety of the components that only ever answer a call, each with        *)
(* instances of its own: the subject of a behaviour, chosen at the start,  *)
(* is one of them, and v1, v2, ... are its variables. No component here    *)
(* shares state with another.                                              *)
EXTENDS SequencesExt

VARIABLES subject, v1, v2, v3, v4, v5, v6, v7, v8, v9, v10, v11, v12, v13, v14, v15, v16,
    v17, v18, v19

vars == <<subject, v1, v2, v3, v4, v5, v6, v7, v8, v9, v10, v11, v12, v13, v14, v15, v16,
        v17, v18, v19>>

(* Messages to marshal: every list of up to two objects and lists of three *)
(* memory objects, and every three buffers of sizes about the alignment.   *)
Obj(kind, rules, local) == [kind |-> kind, rules |-> rules, isLocal |-> local]
Memories == {Obj("fdw", 1, FALSE), Obj("fdwDep", 0, FALSE), Obj("msmem", 0, TRUE),
             Obj("msmem", 5, FALSE), Obj("msmemDep", 2, FALSE)}
Objects == {Obj(k, 0, FALSE) : k \in {"null", "msforwarder", "generic", "primordial"}} \cup Memories
ObjLists == UNION {[1..n -> Objects] : n \in 0..2} \cup [1..3 -> Memories]
BufSizes == UNION {[1..n -> {0, 1, 8, 60}] : n \in 0..3}
Messages ==
    [bufs : {<<3>>}, outs : {<<5>>}, objs : ObjLists]
    \cup [bufs : BufSizes, outs : {<<>>}, objs : {<<>>, <<Obj("fdw", 1, FALSE)>>}]
    \cup [bufs : {<<>>}, outs : BufSizes \cup {<<60, 60, 60, 60>>}, objs : {<<>>}]

(* Operations of a client: every parameter beside three that convert.      *)
Shms == {"small", "in", "both"}
ShmSize == [s \in Shms |-> IF s = "small" THEN "small" ELSE "large"]
ShmFlags == [s \in Shms |-> IF s = "in" THEN {"in"} ELSE {"in", "out"}]
P(t, ref, size) == [t |-> t, ref |-> ref, size |-> size]
Params ==
    {P("valin", "value", "small"), P("valout", "value", "small")}
    \cup {P(t, "temp", z) : t \in {"tempin", "tempout", "tempinout"}, z \in {"small", "large"}}
    \cup {P(t, s, ShmSize[s]) : t \in {"partin", "partout", "partinout", "whole"}, s \in Shms}
Ops ==
    {<<a, b>> : a \in Params,
                b \in {P("whole", "both", "large"), P("tempout", "temp", "large"), P("partout", "in", "large")}}
    \cup {<<P("partin", "both", "large"), P("valin", "value", "small"), P("partout", "both", "large")>>,
          <<P("tempout", "temp", "large"), P("tempin", "temp", "large"), P("tempinout", "temp", "large")>>}

(* Where a trusted application's image may be: as one file, split, split   *)
(* with a segment missing, for another class, with more than ten segments. *)
Split(class, phnum, have) == [kind |-> "split", class |-> class, phnum |-> phnum, have |-> have]
TaImages ==
    {[kind |-> "none", class |-> 0, phnum |-> 0, have |-> {}],
     [kind |-> "mbn", class |-> 64, phnum |-> 3, have |-> 0..2],
     Split(64, 3, 0..2), Split(64, 3, {0, 2}), Split(32, 3, 0..2), Split(64, 11, 0..10)}

(* The images offered to the pre-launcher: metadata in the hash segment of *)
(* an old image, in a section of a new one, missing or out of bounds.      *)
Seg(f, t, ok) == [flag |-> f, type |-> t, fits |-> ok]
Old == <<Seg("CODE", "LOAD", TRUE), Seg("MANIFEST", "NULL", TRUE), Seg("TPROCESS", "LOAD", TRUE)>>
New == <<Seg("CODE", "INTERP", TRUE), Seg("CODE", "RELRO", TRUE)>>
NewSecs == <<[name |-> ".text", fits |-> TRUE], [name |-> ".mink_metadata", fits |-> TRUE]>>
Img(segs, secs, ver) ==
    [magic |-> TRUE, headers |-> TRUE, segs |-> segs, secs |-> secs, name |-> "a", ver |-> ver,
     rot |-> "OEM_SIGNED", cid |-> "DL_OEM_SIGNED", neverUnload |-> FALSE]
Offered ==
    {Img(Old, <<>>, 1), Img(New, NewSecs, 2), Img(New, NewSecs, 3),
     [Img(New, NewSecs, 3) EXCEPT !.rot = "QTI_SIGNED"],
     [Img(New, NewSecs, 0) EXCEPT !.cid = "EMBEDDED"],
     [Img(New, NewSecs, 1) EXCEPT !.headers = FALSE], Img(New, <<>>, 1), Img(Tail(New), NewSecs, 1),
     Img(<<Seg("MANIFEST", "NULL", FALSE)>>, <<>>, 1)}

(* Service files: keys in both orders, repeated, unknown or missing, more  *)
(* than one service in a file.                                             *)
EmbeddedIds == <<[uid |-> 1, cid |-> 1], [uid |-> 2, cid |-> 2], [uid |-> 3, cid |-> 3],
                 [uid |-> 14, cid |-> 4], [uid |-> 15, cid |-> 5], [uid |-> 16, cid |-> 5]>>
Id(c) == <<"id", c>>
Auto(b) == <<"autostart", b>>
Scalar(n) == [kind |-> "scalar", name |-> n, pairs |-> <<>>]
Mapping(ps) == [kind |-> "mapping", name |-> "", pairs |-> ps]
Pairs ==
    {<<Id(c)>> : c \in {1, 3, 4, 5, 6, 7}} \cup {<<Id(c), Auto(1)>> : c \in {1, 3, 4, 5, 7}}
    \cup {<<Auto(1), Id(c)>> : c \in {4, 7}}
    \cup {<<Id(4), Auto(1), Auto(0)>>, <<<<"name", 0>>, Auto(0)>>}
ServiceFiles ==
    {<<Mapping(<<>>), Scalar("service"), Mapping(ps)>> : ps \in Pairs}
    \cup {<<Scalar("group"), Mapping(<<Id(4)>>)>>,
          <<Scalar("service"), Mapping(<<Id(4)>>), Mapping(<<Id(5)>>), Scalar("service"), Mapping(<<Id(1)>>)>>}

(* Metadata: ids with and without masks, empty names, values with escapes. *)
Digits == <<"0", "1", "2", "3", "4", "5", "6", "7", "8", "9", "a", "B", "C", "D", "E", "F">>
Hex(n) == IF n < 16 THEN <<Digits[n + 1]>> ELSE <<Digits[(n \div 16) + 1], Digits[(n % 16) + 1]>>
Written(list) ==
    FoldLeft(LAMBDA acc, s :
        acc \o (IF acc = <<>> THEN <<>> ELSE <<",">>) \o Hex(s.id)
            \o (IF s.mask = <<>> THEN <<>>
                ELSE <<":">> \o [i \in DOMAIN s.mask |-> Digits[s.mask[i] + 1]]), <<>>, list)
IdLists ==
    LET one == [id : {1, 16}, mask : {<<>>, <<10, 5>>, <<0, 8>>}]
    IN {<<a>> : a \in one} \cup {<<a, [id |-> 2, mask |-> <<5>>]>> : a \in one}
Plain(n, q, v) == [name |-> n, eq |-> q, value |-> v, ids |-> <<>>]
Entries ==
    {[name |-> <<c>>, eq |-> TRUE, value |-> Written(l), ids |-> l] : c \in {"p", "s"}, l \in IdLists}
    \cup {Plain(<<"n">>, TRUE, <<"1">>), Plain(<<"n">>, FALSE, <<>>), Plain(<<>>, TRUE, <<"2">>),
          Plain(<<"n">>, TRUE, <<"%", "4", "1", "=", "%", "4">>), Plain(<<>>, FALSE, <<>>),
          Plain(<<"U">>, TRUE, <<"t", "r", "u", "e">>), Plain(<<"d", "m", "n">>, TRUE, <<"=", "3">>)}

(* ELF images: tables with and without addends, of entries of every type,  *)
(* a machine that is not known, entries that are out of bounds.            *)
Dyn(tag, val) == [tag |-> tag, val |-> val]
Syms ==
    <<[name |-> 0, shndx |-> "UNDEF", bind |-> "LOCAL", type |-> "NOTYPE", value |-> 0],
      [name |-> 1, shndx |-> "SECTION", bind |-> "GLOBAL", type |-> "FUNC", value |-> 3],
      [name |-> 2, shndx |-> "ABS", bind |-> "GLOBAL", type |-> "OBJECT", value |-> 5],
      [name |-> 3, shndx |-> "UNDEF", bind |-> "WEAK", type |-> "NOTYPE", value |-> 0],
      [name |-> 4, shndx |-> "UNDEF", bind |-> "GLOBAL", type |-> "NOTYPE", value |-> 0]>>
Image(machine, rel, rela, plt, pltrel) ==
    [machine |-> machine,
     pht |-> <<[type |-> "LOAD", vaddr |-> 1, memsz |-> 90], [type |-> "DYNAMIC", vaddr |-> 10, memsz |-> 9]>>,
     mem |-> [p \in 1..4 |-> p],
     at |-> (10 :> <<Dyn("REL", 20), Dyn("RELSZ", 2 * Len(rel)), Dyn("RELENT", 2),
                     Dyn("RELA", 30), Dyn("RELASZ", 3 * Len(rela)), Dyn("RELAENT", 3),
                     Dyn("JMPREL", 40), Dyn("PLTREL", pltrel),
                     Dyn("PLTRELSZ", (IF pltrel = "RELA" THEN 3 ELSE 2) * Len(plt)),
                     Dyn("STRTAB", 50), Dyn("STRSZ", 5), Dyn("HASH", 60), Dyn("SYMTAB", 70), Dyn("NEEDED", 2)>>)
            @@ (20 :> rel) @@ (30 :> rela) @@ (40 :> plt)
            @@ (50 :> <<"", "f", "o", "w", "u">>) @@ (60 :> <<1, 5, 1, 0, 2, 3, 4, 0>>) @@ (70 :> Syms)]
Relocs(p) ==
    {[place |-> p, type |-> k[1], sym |-> k[2], addend |-> p + 1] :
        k \in {<<"RELATIVE", 0>>, <<"ABS", 2>>, <<"ABS", 3>>, <<"GLOB_DAT", 1>>, <<"JUMP_SLOT", 4>>}}
OneAt(p) == {<<e>> : e \in Relocs(p)}
BadReloc(place, type, sym) ==
    Image("ARM", <<[place |-> place, type |-> type, sym |-> sym, addend |-> 0]>>, <<>>, <<>>, "REL")
ElfImages ==
    {Image("AARCH64", r, a, p, IF a = <<>> THEN "REL" ELSE "RELA") :
        r \in {<<>>} \cup OneAt(1), a \in {<<>>} \cup OneAt(2),
        p \in {<<>>} \cup {<<e, [place |-> 4, type |-> "JUMP_SLOT", sym |-> 4, addend |-> 5]>> : e \in Relocs(3)}}
    \cup {Image("X86_64", <<>>, <<>>, <<>>, "REL"), BadReloc(99, "ABS", 2), BadReloc(1, "COPY", 2),
          BadReloc(1, "ABS", 9)}

-----------------------------------------------------------------------------
(* Three invocations, nested two deep, one wake-up without a signal.       *)
In == INSTANCE Invocations WITH
    bDone <- v1, qlInvokes <- v2, inv <- v3, thread <- v4, bComplete <- v5, result <- v6,
    handler <- v7, tls <- v8, reader <- v9, spurious <- v10, A <- "A", B <- "B",
    Invs <- {"i1", "i2", "i3"}, NONE <- "none", CLOSED <- "closed", MaxDepth <- 2,
    MaxSpurious <- 1

-----------------------------------------------------------------------------
(* Peers on two nodes, two of them with the same port.                     *)
Ip == INSTANCE MinkIPCService WITH
    ipc <- v1, me <- v2, sessions <- v3, received <- v4, lpc <- v5, lmsg <- v6,
    target <- v7, app <- v8, Threads <- {"main", "other"}, Main <- "main",
    Peers <- {[node |-> 0, port |-> 1], [node |-> 0, port |-> 2], [node |-> 1, port |-> 1]},
    MaxSessions <- 3, MaxMsgs <- 2

-----------------------------------------------------------------------------
(* The sizes are those of the code, divided so that messages outgrow their *)
(* buffer.                                                                 *)
Ma == INSTANCE Marshalling WITH
    conn <- v1, version <- v2, bufs <- v3, outs <- v4, objs <- v5, pc <- v6, i <- v7,
    wire <- v8, in <- v9, Align <- 8, Prealloc <- 104, MaxMsg <- 240, MaxArgs <- 20,
    MaxFds <- 2, ChunkBase <- 2, Messages <- Messages

-----------------------------------------------------------------------------
(* Two memories, two senders, a table of two.                              *)
Mo == INSTANCE MemoryObjects WITH
    held <- v1, wmps <- v2, table <- v3, send <- v4, share <- v5, net <- v6, closes <- v7,
    ms <- v8, connected <- v9, ub <- v10, Mems <- {"m1", "m2"}, Senders <- {"s1", "s2"},
    NumSlots <- 2, MPs <- {"p1", "p2"}, NumWmps <- 2, NumMSMems <- 2

-----------------------------------------------------------------------------
(* One user of two descriptors, who lends one memory object.               *)
Mm == INSTANCE MinkMem WITH
    inited <- v1, monitor <- v2, mapInfoList <- v3, fdw <- v4, space <- v5, fds <- v6,
    appVa <- v7, objs <- v8, wmp <- v9, Users <- {"u"}, MaxFdw <- 2, Vas <- {"va1", "va2"},
    MaxObjs <- 1, MaxLent <- 1, Rules <- {"keepSelf", "removeSelf", "mixed"}

-----------------------------------------------------------------------------
(* Two users of one descriptor.                                            *)
Mn == INSTANCE MinkMem WITH
    inited <- v1, monitor <- v2, mapInfoList <- v3, fdw <- v4, space <- v5, fds <- v6,
    appVa <- v7, objs <- v8, wmp <- v9, Users <- {"u", "v"}, MaxFdw <- 1, Vas <- {"va1"},
    MaxObjs <- 1, MaxLent <- 1, Rules <- {"keepSelf", "removeSelf"}

-----------------------------------------------------------------------------
(* Two sockets, five descriptors, every call failing at times.             *)
Sf == INSTANCE SocketFds WITH
    kind <- v1, table <- v2, wrong <- v3, pc <- v4, sockFd <- v5, auxPipe <- v6,
    newSock <- v7, sock <- v8, fails <- v9, others <- v10, NumFds <- 5,
    Sockets <- {"s1", "s2"},
    Failures <- {"socket", "bind", "listen", "connect", "session", "late", "opener"},
    MaxFails <- 1, MaxOthers <- 2

-----------------------------------------------------------------------------
(* Two threads, two codes, one event.                                      *)
Cw == INSTANCE CWait WITH
    list <- v1, item <- v2, pc <- v3, rv <- v4, events_out <- v5, Threads <- {"t1", "t2"},
    Codes <- {1, 2}, Events <- {"e1"}, Msecs <- {500}, INFINITE <- 100000,
    Nsecs <- {500000000, 700000000}, MaxQueued <- 1

-----------------------------------------------------------------------------
(* Two threads, one code, two events.                                      *)
Cx == INSTANCE CWait WITH
    list <- v1, item <- v2, pc <- v3, rv <- v4, events_out <- v5, Threads <- {"t1", "t2"},
    Codes <- {1}, Events <- {"e1", "e2"}, Msecs <- {500}, INFINITE <- 100000,
    Nsecs <- {500000000}, MaxQueued <- 1

-----------------------------------------------------------------------------
(* The operations above.                                                   *)
Te == INSTANCE TeeClient WITH
    ctx <- v1, sess <- v2, mem <- v3, call <- v4, lost <- v5, crashed <- v6, Shms <- Shms,
    ShmSize <- ShmSize, ShmFlags <- ShmFlags, Ops <- Ops

-----------------------------------------------------------------------------
(* Four processes on both kinds of connection.                             *)
Cr == INSTANCE Credentials WITH
    obj <- v1, held <- v2, conn <- v3, Ids <- {1, 2, 3, 4}, ConnTypes <- {"UNIX", "VSOCK"},
    ProcInputs <- {{"n", "dmn"}, {"dmn", "long"}}, MaxHeld <- 3

-----------------------------------------------------------------------------
(* Two callers of a listener, while its library and another start and      *)
(* stop.                                                                   *)
Li == INSTANCE ListenerCBO WITH
    pc <- v1, calls <- v2, busy <- v3, mutex <- v4, queue <- v5, signalled <- v6,
    shared <- v7, dangling <- v8, stuck <- v9, registered <- v10, held <- v11, qtee <- v12,
    mngr <- v13, Callers <- {"c1", "c2"}, Services <- {"s1", "s2"}, Listener <- "s1",
    MaxCalls <- 1

-----------------------------------------------------------------------------
(* An accept thread, a retry and a failure.                                *)
Tz == INSTANCE TZCom WITH
    mLocObjTab <- v1, refs <- v2, known <- v3, memRegions <- v4, memKnown <- v5,
    mems <- v6, worker <- v7, readers <- v8, writer <- v9, serverFd <- v10, ready <- v11,
    descs <- v12, client <- v13, calls <- v14, faults <- v15, Workers <- {"w1"},
    MaxSlots <- 2, MaxCalls <- 1, MaxRefs <- 3, MaxTries <- 1, MaxMems <- 1, MaxFaults <- 1

-----------------------------------------------------------------------------
(* A table of one handle; packets and answers that do not arrive.          *)
Tf == INSTANCE TunnelInvoke WITH
    mtx <- v1, ctr <- v2, ot <- v3, tif <- v4, stack <- v5, calls <- v6, faults <- v7,
    Threads <- {"t"}, Callers <- {"client"}, Objs <- {"a", "b"}, ObjsLen <- 1,
    Faults <- {"unreachable", "replyLost"}, MaxCalls <- 3, MaxDepth <- 5, MaxFaults <- 1

-----------------------------------------------------------------------------
(* Two files of up to two blocks, two requests, power lost at any point.   *)
Gp == INSTANCE GpFs WITH
    main <- v1, bak <- v2, dirty <- v3, pc <- v4, req <- v5, moved <- v6, old <- v7,
    reply <- v8, requests <- v9, Files <- {"f", "g"}, MaxSize <- 2, MaxRequests <- 2,
    Values <- {1}

-----------------------------------------------------------------------------
(* Names on both partitions, one of which is mounted.                      *)
Fs == INSTANCE FsListener WITH
    dirs <- v1, files <- v2, fds <- v3, streams <- v4, error_number <- v5, last <- v6,
    where <- v7, Names <- {<<"data", "qsee", "a">>, <<"persist", "data", "x">>},
    Mounted <- {<<"tee">>}, Inodes <- {1, 2}, Fds <- {3}, Streams <- {9}, MaxDepth <- 5

-----------------------------------------------------------------------------
(* A name that may be a file or the directory of the other.                *)
Ft == INSTANCE FsListener WITH
    dirs <- v1, files <- v2, fds <- v3, streams <- v4, error_number <- v5, last <- v6,
    where <- v7, Names <- {<<"data">>, <<"data", "b">>}, Mounted <- {<<"tee">>},
    Inodes <- {1, 2}, Fds <- {3}, Streams <- {9}, MaxDepth <- 5

-----------------------------------------------------------------------------
(* Three directories below /data/vendor, two of them on one path.          *)
Md == INSTANCE MakeDirs WITH
    dirs <- v1, pc <- v2, dir <- v3, slash <- v4, at <- v5, ret <- v6, calls <- v7,
    faults <- v8,
    Paths <- {<<"data", "vendor", "a">>, <<"data", "vendor", "a", "b">>, <<"data", "vendor", "c">>},
    Ignored <- {<<"data">>, <<"data", "vendor">>}, MaxCalls <- 2, MaxFaults <- 1

-----------------------------------------------------------------------------
(* Four frames written one or two at a time.                               *)
Rp == INSTANCE Rpmb WITH
    present <- v1, rel_wr_count <- v2, g_init_done <- v3, g_active_ops <- v4, fd <- v5,
    isOpen <- v6, opens <- v7, pc <- v8, drv <- v9, req <- v10, buf <- v11, cache <- v12,
    done <- v13, trans <- v14, sent <- v15, status <- v16, requests <- v17, MaxFrames <- 4,
    RelWrCounts <- {1, 2}, MaxRequests <- 2, MaxOpens <- 4

-----------------------------------------------------------------------------
(* Two locations, each with any of the images.                             *)
Ta == INSTANCE TaAutoLoad WITH
    at <- v1, hlos <- v2, paths <- v3, pc <- v4, loc <- v5, seg <- v6, image <- v7,
    buf <- v8, allocatorInit <- v9, mBufferStatus <- v10, bufs <- v11, given <- v12,
    lost <- v13, made <- v14, requests <- v15, Locations <- 2, Images <- TaImages,
    MaxRequests <- 2, MaxBufs <- 4

-----------------------------------------------------------------------------
(* Two clients and two threads, a cache of two clients.                    *)
Ce == INSTANCE ClientEnvs WITH
    env <- v1, session <- v2, owner <- v3, credMap <- v4, global <- v5, held <- v6,
    objs <- v7, pc <- v8, arg <- v9, Threads <- {"t1", "t2"}, Clients <- {"c1", "c2"},
    Envs <- {"e1", "e2", "e3"}, MaxClients <- 2, PerClient <- 3, SystemQuota <- 4,
    MaxObjs <- 1, MaxHeld <- 2

-----------------------------------------------------------------------------
(* Set up and taken down again and again, every step failing at times.     *)
Ts == INSTANCE TunnelService WITH
    pc <- v1, gSessionID <- v2, session <- v3, gTi <- v4, refs <- v5, peer <- v6,
    portal <- v7, gClientEnvTunnel <- v8, opened <- v9, MaxOpened <- 3

-----------------------------------------------------------------------------
(* One object; the failures that undo what they leave.                     *)
Tc == INSTANCE TouchControl WITH
    asked <- v1, owner <- v2, open <- v3, controlFd <- v4, pc <- v5, retry <- v6,
    fails <- v7, Objects <- {"o"}, Retry <- 5,
    Failures <- {"open", "first write", "release"}, MaxFails <- 2

-----------------------------------------------------------------------------
(* Two workers and two modems, two failures anywhere.                      *)
Hd == INSTANCE HlosDaemon WITH
    pc <- v1, hub <- v2, refs <- v3, held <- v4, service <- v5, retry <- v6, next <- v7,
    loadedApps <- v8, init_success <- v9, up <- v10, call <- v11, objects <- v12,
    modemRefs <- v13, past <- v14, calls <- v15, fails <- v16, Threads <- {"t", "u"},
    Modems <- {"m", "n"}, Apps <- 2, Embedded <- 1, Clients <- 2, Retries <- 2,
    MaxCalls <- 2, MaxFails <- 2, NULL <- "none"

-----------------------------------------------------------------------------
(* Two users of one remote service, the connection lost once.              *)
Hub == INSTANCE MinkHub WITH
    refs <- v1, isValid <- v2, readers <- v3, sessionList <- v4, session <- v5,
    mutex <- v6, isDone <- v7, remoteConn <- v8, closeNotifier <- v9, freed <- v10,
    sock <- v11, watched <- v12, worker <- v13, smutex <- v14, pc <- v15, retry <- v16,
    uid <- v17, ret <- v18, calls <- v19, Users <- {"u1", "u2"}, Uids <- {"i1"},
    MaxConns <- 2, MaxCalls <- 1

-----------------------------------------------------------------------------
(* Two pools on one heap.                                                  *)
Ms == INSTANCE MemoryService WITH
    available <- v1, heapLock <- v2, pool <- v3, buf <- v4, wakeRefs <- v5, wakeLock <- v6,
    awake <- v7, act <- v8, faults <- v9, Threads <- {"t", "u"}, NumHeaps <- 1,
    Pools <- {"p", "q"}, Buffers <- {"a", "b"}, PoolSize <- 3, Sizes <- {1, 2},
    MaxFaults <- 1

-----------------------------------------------------------------------------
(* A downloadable process and the embedded one, one fault.                 *)
Pr == INSTANCE ProcessLoading WITH
    proc <- v1, tm <- v2, pending <- v3, act <- v4, gLock <- v5, procLock <- v6,
    loadLock <- v7, embLock <- v8, restarts <- v9, faults <- v10, off <- v11,
    Clients <- {"c"}, Openers <- {"o"}, AutoStart <- FALSE, MaxLaunches <- 3, NumPids <- 4,
    MaxFaults <- 1, MAX_RELOAD_ATTEMPTS <- 1, MAX_RETRY_ATTEMPTS <- 3

-----------------------------------------------------------------------------
(* Daemons that die twice.                                                 *)
Vm == INSTANCE VmDaemons WITH
    starting <- v1, started <- v2, pid <- v3, pPid <- v4, zombies <- v5, sock <- v6,
    event <- v7, pc <- v8, retry <- v9, isReconnect <- v10, conn <- v11, notifier <- v12,
    closed <- v13, loader <- v14, served <- v15, faults <- v16, Servers <- <<"unix">>,
    MaxFaults <- 2, LOCAL_SERVER_RETRY_TIME <- 2

-----------------------------------------------------------------------------
(* One launch at a time, memory that runs out.                             *)
Pl == INSTANCE PreLauncher WITH
    up <- v1, gLock <- v2, pc <- v3, image <- v4, found <- v5, stored <- v6,
    launched <- v7, launches <- v8, crashes <- v9, Threads <- {"t"}, Images <- Offered,
    MaxLaunches <- 2, MaxCrashes <- 1, HeapMayFail <- TRUE

-----------------------------------------------------------------------------
(* The QTVM, which reaches two hubs.                                       *)
Eh == INSTANCE ExampleHub WITH
    vm <- v1, phase <- v2, services <- v3, lock <- v4, remoteConn <- v5,
    remoteConnNum <- v6, mutex <- v7, alive <- v8, pc <- v9, id <- v10, slot <- v11,
    hub <- v12, conn <- v13, ret <- v14, made <- v15, downs <- v16, regs <- v17,
    Clients <- {"c"}, Visitors <- {}, Slots <- 1, Uids <- {1, 2}, RemoteUids <- {2},
    Vms <- {"QTVM"}, MaxDowns <- 1, MaxRegs <- 1

-----------------------------------------------------------------------------
(* Up to three of the service files.                                       *)
Sc == INSTANCE ServiceCenter WITH
    types <- v1, gServiceList <- v2, gAutoStartServiceCount <- v3, read <- v4,
    embeddedProcessIDList <- EmbeddedIds, embeddedProcessList <- {1, 2, 4, 5},
    DL_BASE <- 3, EMBEDDED_BASE <- 4, CID_ENUM_MAX <- 7, Files <- ServiceFiles,
    MaxFiles <- 3

-----------------------------------------------------------------------------
(* Up to two of the entries.                                               *)
Me == INSTANCE Metadata WITH
    entries <- v1, text <- v2, scan <- v3, ids <- v4, me <- v5, seen <- v6, phase <- v7,
    Entries <- Entries, MaxEntries <- 2, Domains <- {"oem", "qti"}, MaxName <- 3,
    Expand <- 10

-----------------------------------------------------------------------------
(* Every image; the loader answers with either of two addresses.           *)
El == INSTANCE ElfImage WITH
    image <- v1, mem <- v2, me <- v3, sym <- v4, status <- v5, resolved <- v6,
    answer <- v7, Images <- ElfImages, Base <- 16, Word <- 128,
    Answers <- {[value |-> 4, type |-> "FUNC"], [value |-> 7, type |-> "FUNC"]},
    Hash <- [n \in {"f", "o", "w", "u"} |-> 3]

-----------------------------------------------------------------------------
(* Five ids in groups of two.                                              *)
Is == INSTANCE IDSet WITH
    set <- v1, dup <- v2, members <- v3, copied <- v4, Ids <- {0, 2, 3, 4, 7}, Width <- 2,
    HeapFails <- {FALSE}

-----------------------------------------------------------------------------
(* Memory that runs out.                                                   *)
Ih == INSTANCE IDSet WITH
    set <- v1, dup <- v2, members <- v3, copied <- v4, Ids <- {0, 2, 4}, Width <- 2,
    HeapFails <- BOOLEAN

-----------------------------------------------------------------------------
(* Two lists and the nodes that move between them.                         *)
Ql == INSTANCE QList WITH
    pNext <- v1, pPrev <- v2, list <- v3, loop <- v4, Nodes <- {"a", "b", "c", "d"},
    Heads <- {"g", "h"}, Null <- "null"

-----------------------------------------------------------------------------
(* What a component does not use stays as it is.                           *)
Idle19 == v19 = 0
Idle18 == v18 = 0 /\ Idle19
Idle17 == v17 = 0 /\ Idle18
Idle16 == v16 = 0 /\ Idle17
Idle15 == v15 = 0 /\ Idle16
Idle14 == v14 = 0 /\ Idle15
Idle13 == v13 = 0 /\ Idle14
Idle12 == v12 = 0 /\ Idle13
Idle11 == v11 = 0 /\ Idle12
Idle10 == v10 = 0 /\ Idle11
Idle9 == v9 = 0 /\ Idle10
Idle8 == v8 = 0 /\ Idle9
Idle7 == v7 = 0 /\ Idle8
Idle6 == v6 = 0 /\ Idle7
Idle5 == v5 = 0 /\ Idle6
Idle4 == v4 = 0 /\ Idle5
Rest19 == UNCHANGED v19
Rest18 == UNCHANGED v18 /\ Rest19
Rest17 == UNCHANGED v17 /\ Rest18
Rest16 == UNCHANGED v16 /\ Rest17
Rest15 == UNCHANGED v15 /\ Rest16
Rest14 == UNCHANGED v14 /\ Rest15
Rest13 == UNCHANGED v13 /\ Rest14
Rest12 == UNCHANGED v12 /\ Rest13
Rest11 == UNCHANGED v11 /\ Rest12
Rest10 == UNCHANGED v10 /\ Rest11
Rest9 == UNCHANGED v9 /\ Rest10
Rest8 == UNCHANGED v8 /\ Rest9
Rest7 == UNCHANGED v7 /\ Rest8
Rest6 == UNCHANGED v6 /\ Rest7
Rest5 == UNCHANGED v5 /\ Rest6
Rest4 == UNCHANGED v4 /\ Rest5

Init ==
    \/ subject = "Invocations" /\ In!Init /\ Idle11
    \/ subject = "MinkIPCService" /\ Ip!Init /\ Idle9
    \/ subject = "Marshalling" /\ Ma!Init /\ Idle10
    \/ subject = "MemoryObjects" /\ Mo!Init /\ Idle11
    \/ subject = "MinkMem" /\ Mm!Init /\ Idle10
    \/ subject = "MinkMem2" /\ Mn!Init /\ Idle10
    \/ subject = "SocketFds" /\ Sf!Init /\ Idle11
    \/ subject = "CWait" /\ Cw!Init /\ Idle6
    \/ subject = "CWait2" /\ Cx!Init /\ Idle6
    \/ subject = "TeeClient" /\ Te!Init /\ Idle7
    \/ subject = "Credentials" /\ Cr!Init /\ Idle4
    \/ subject = "ListenerCBO" /\ Li!Init /\ Idle14
    \/ subject = "TZCom" /\ Tz!Init /\ Idle16
    \/ subject = "TunnelInvoke" /\ Tf!Init /\ Idle8
    \/ subject = "GpFs" /\ Gp!Init /\ Idle10
    \/ subject = "FsListener" /\ Fs!Init /\ Idle8
    \/ subject = "FsListener2" /\ Ft!Init /\ Idle8
    \/ subject = "MakeDirs" /\ Md!Init /\ Idle9
    \/ subject = "Rpmb" /\ Rp!Init /\ Idle18
    \/ subject = "TaAutoLoad" /\ Ta!Init /\ Idle16
    \/ subject = "ClientEnvs" /\ Ce!Init /\ Idle10
    \/ subject = "TunnelService" /\ Ts!Init /\ Idle10
    \/ subject = "TouchControl" /\ Tc!Init /\ Idle8
    \/ subject = "HlosDaemon" /\ Hd!Init /\ Idle17
    \/ subject = "MinkHub" /\ Hub!Init
    \/ subject = "MemoryService" /\ Ms!Init /\ Idle10
    \/ subject = "ProcessLoading" /\ Pr!Init /\ Idle12
    \/ subject = "VmDaemons" /\ Vm!Init /\ Idle17
    \/ subject = "PreLauncher" /\ Pl!Init /\ Idle10
    \/ subject = "ExampleHub" /\ Eh!Init /\ Idle18
    \/ subject = "ServiceCenter" /\ Sc!Init /\ Idle5
    \/ subject = "Metadata" /\ Me!Init /\ Idle8
    \/ subject = "ElfImage" /\ El!Init /\ Idle8
    \/ subject = "IDSet" /\ Is!Init /\ Idle5
    \/ subject = "IDSet2" /\ Ih!Init /\ Idle5
    \/ subject = "QList" /\ Ql!Init /\ Idle5

Next ==
    /\ UNCHANGED subject
    /\ \/ subject = "Invocations" /\ In!Next /\ Rest11
       \/ subject = "MinkIPCService" /\ Ip!Next /\ Rest9
       \/ subject = "Marshalling" /\ Ma!Next /\ Rest10
       \/ subject = "MemoryObjects" /\ Mo!Next /\ Rest11
       \/ subject = "MinkMem" /\ Mm!Next /\ Rest10
       \/ subject = "MinkMem2" /\ Mn!Next /\ Rest10
       \/ subject = "SocketFds" /\ Sf!Next /\ Rest11
       \/ subject = "CWait" /\ Cw!Next /\ Rest6
       \/ subject = "CWait2" /\ Cx!Next /\ Rest6
       \/ subject = "TeeClient" /\ Te!Next /\ Rest7
       \/ subject = "Credentials" /\ Cr!Next /\ Rest4
       \/ subject = "ListenerCBO" /\ Li!Next /\ Rest14
       \/ subject = "TZCom" /\ Tz!Next /\ Rest16
       \/ subject = "TunnelInvoke" /\ Tf!Next /\ Rest8
       \/ subject = "GpFs" /\ Gp!Next /\ Rest10
       \/ subject = "FsListener" /\ Fs!Next /\ Rest8
       \/ subject = "FsListener2" /\ Ft!Next /\ Rest8
       \/ subject = "MakeDirs" /\ Md!Next /\ Rest9
       \/ subject = "Rpmb" /\ Rp!Next /\ Rest18
       \/ subject = "TaAutoLoad" /\ Ta!Next /\ Rest16
       \/ subject = "ClientEnvs" /\ Ce!Next /\ Rest10
       \/ subject = "TunnelService" /\ Ts!Next /\ Rest10
       \/ subject = "TouchControl" /\ Tc!Next /\ Rest8
       \/ subject = "HlosDaemon" /\ Hd!Next /\ Rest17
       \/ subject = "MinkHub" /\ Hub!Next
       \/ subject = "MemoryService" /\ Ms!Next /\ Rest10
       \/ subject = "ProcessLoading" /\ Pr!Next /\ Rest12
       \/ subject = "VmDaemons" /\ Vm!Next /\ Rest17
       \/ subject = "PreLauncher" /\ Pl!Next /\ Rest10
       \/ subject = "ExampleHub" /\ Eh!Next /\ Rest18
       \/ subject = "ServiceCenter" /\ Sc!Next /\ Rest5
       \/ subject = "Metadata" /\ Me!Next /\ Rest8
       \/ subject = "ElfImage" /\ El!Next /\ Rest8
       \/ subject = "IDSet" /\ Is!Next /\ Rest5
       \/ subject = "IDSet2" /\ Ih!Next /\ Rest5
       \/ subject = "QList" /\ Ql!Next /\ Rest5

Spec == Init /\ [][Next]_vars

-----------------------------------------------------------------------------
(* The variables of the subject have their types.                          *)
TypeOK ==
    CASE subject = "Invocations" -> In!TypeOK
      [] subject = "MinkIPCService" -> Ip!TypeOK
      [] subject = "Marshalling" -> Ma!TypeOK
      [] subject = "MemoryObjects" -> Mo!TypeOK
      [] subject = "MinkMem" -> Mm!TypeOK
      [] subject = "MinkMem2" -> Mn!TypeOK
      [] subject = "SocketFds" -> Sf!TypeOK
      [] subject = "CWait" -> Cw!TypeOK
      [] subject = "CWait2" -> Cx!TypeOK
      [] subject = "TeeClient" -> Te!TypeOK
      [] subject = "Credentials" -> Cr!TypeOK
      [] subject = "ListenerCBO" -> Li!TypeOK
      [] subject = "TZCom" -> Tz!TypeOK
      [] subject = "TunnelInvoke" -> Tf!TypeOK
      [] subject = "GpFs" -> Gp!TypeOK
      [] subject = "FsListener" -> Fs!TypeOK
      [] subject = "FsListener2" -> Ft!TypeOK
      [] subject = "MakeDirs" -> Md!TypeOK
      [] subject = "Rpmb" -> Rp!TypeOK
      [] subject = "TaAutoLoad" -> Ta!TypeOK
      [] subject = "ClientEnvs" -> Ce!TypeOK
      [] subject = "TunnelService" -> Ts!TypeOK
      [] subject = "TouchControl" -> Tc!TypeOK
      [] subject = "HlosDaemon" -> Hd!TypeOK
      [] subject = "MinkHub" -> Hub!TypeOK
      [] subject = "MemoryService" -> Ms!TypeOK
      [] subject = "ProcessLoading" -> Pr!TypeOK
      [] subject = "VmDaemons" -> Vm!TypeOK
      [] subject = "PreLauncher" -> Pl!TypeOK
      [] subject = "ExampleHub" -> Eh!TypeOK
      [] subject = "ServiceCenter" -> Sc!TypeOK
      [] subject = "Metadata" -> Me!TypeOK
      [] subject = "ElfImage" -> El!TypeOK
      [] subject = "IDSet" -> Is!TypeOK
      [] subject = "IDSet2" -> Ih!TypeOK
      [] subject = "QList" -> Ql!TypeOK

(* While an end is open a reply finds the invocation it answers, and an    *)
(* end that has closed leaves nobody waiting, also when threads nest calls *)
(* and wake up without a signal (minksocket.c recvInvocationSuccess,       *)
(* MinkSocket_close). In the tunnel there is one right to write a packet,  *)
(* also after an answer was lost or the table was full (TunnelInvoke.c).   *)
RepliesReachCallers ==
    /\ subject = "Invocations" => In!RepliesFindAnInvocation /\ In!ClosedEndWakesAll
    /\ subject = "TunnelInvoke" => Tf!OneAuthor

(* A datagram is handled in the session of its sender whatever sessions    *)
(* were closed and made since; a listener that ends leaves none alive;     *)
(* MinkIPC_stop is alone on the list when it cleans up (minkipc.c). The    *)
(* pointers of the lists that sessions and all else are kept in are the    *)
(* lists they stand for, and a loop that takes nodes out sees every node   *)
(* (qlist.h).                                                              *)
SessionsOfTheirPeers ==
    /\ subject = "MinkIPCService" =>
          /\ Ip!DatagramsFindTheirSession
          /\ Ip!VsockSingleConnection
          /\ Ip!StopAloneOnList
          /\ Ip!EndedListenerLeavesNoneAlive
    /\ subject = "QList" => Ql!ListsAreRings /\ Ql!LoopSeesAll





(* A wait with a code never sleeps beside a kept signal it accepts,        *)
(* reports only matching signals, and is refused only for a wake-up at     *)
(* exactly one second (CWait.c).                                           *)
WaitsTakeTheirSignals ==
    /\ subject = "CWait" =>
          /\ Cw!CodedWaitTakesKeptSignal
          /\ Cw!OnlyMatchingSignals
          /\ Cw!RefusedOnlyOnWholeSecond
    /\ subject = "CWait2" => Cx!CodedWaitTakesKeptSignal /\ Cx!OnlyMatchingSignals


(* The composite of credentials holds its parts, and asked for a property  *)
(* it answers with the outermost part that has it, by name and by index    *)
(* (LinkCred, osIndCredentials).                                           *)
CredentialsAnswer ==
    subject = "Credentials" => Cr!CredentialRefsExact /\ Cr!OuterAnswersFirst



(* The image handed to the secure world is whole and of one location, and  *)
(* nothing read for another is kept (CAutoLoad).                           *)
ImageOfOneLocation ==
    subject = "TaAutoLoad" => Ta!ImageOfOneLocation /\ Ta!NothingKept

(* A client gets the environment that is cached for it, and quotas count   *)
(* what is held (ClientEnvs).                                              *)
ClientsEnvIsCached ==
    subject = "ClientEnvs" => Ce!ClientsEnvIsCached /\ Ce!CountsExact


(* An open through the hub reaches the module that runs, its connection is *)
(* watched, and a session that is freed is not in use (MinkHub, the        *)
(* example hub).                                                           *)
OpensRunningModule ==
    /\ subject = "MinkHub" =>
          /\ Hub!OpensRunningModule
          /\ Hub!ConnectionWatched
          /\ Hub!UnusedWhenFreed
    /\ subject = "ExampleHub" => Eh!AnswersItsUid

(* A module belongs to the process it was loaded for, and a dead process   *)
(* serves nobody (CTProcessLoader.c, TProcess.c).                          *)
ModuleOfItsProcess ==
    subject = "ProcessLoading" =>
          /\ Pr!ModuleOfItsProcess
          /\ Pr!DeadServeNoMore
          /\ Pr!ListedIsServed


(* What the metadata of an image says is what is read from it: entries,    *)
(* lists of ids, and the domain of the loader (MetadataInfo, MDScan).      *)
MetadataRead ==
    subject = "Metadata" =>
          /\ Me!EntriesFound
          /\ Me!IdsListed
          /\ Me!DomainIsTheLoaders

=============================================================================
