----------------------------- MODULE TaAutoLoad -----------------------------
(***************************************************************************)
(* The TA loader: QTEE asks for the image of a trusted application by its  *)
(* UUID, and CRequestTABuffer_get looks for it in the search locations,    *)
(* reads it and answers with a memory object                               *)
(* (listeners/libtaautoload; the copy in the HLOS mink daemon differs in   *)
(* the buffer: a dma-buf descriptor in the place of QTEE's memory object). *)
(*                                                                         *)
(* An image is one .mbn file, or a header .b00 and one .bNN per further    *)
(* segment.  Bytes are abstracted to the segments; a buffer holds the set  *)
(* of segments copied into it.                                             *)
(***************************************************************************)
EXTENDS Integers, FiniteSets

CONSTANTS
    Locations,      \* searchLocations are 1..Locations
    Images,         \* what a location may have
    MaxRequests,
    MaxBufs         \* bound on the buffers of a behaviour

VARIABLES
    at,             \* what each location has
    hlos,           \* the daemon's copy runs
    paths,          \* searchLocations has this many; -1 without a CRequestTABuffer
    pc, loc, seg,   \* the request: step, location, next segment
    image,          \* imageBuffer: the segments read so far
    buf,            \* mMemBuffer: its buffer (0: none), memBuf, the segments in it
    allocatorInit,
    mBufferStatus,
    bufs,           \* references to each buffer (memory object or descriptor)
    given,          \* buffers handed to QTEE
    lost,           \* references nothing refers to any more (ghost)
    made,           \* buffers ever allocated
    requests

search == <<at, hlos, paths>>
reader == <<loc, seg, image>>
buffer == <<buf, allocatorInit, mBufferStatus, bufs, lost, made>>
vars == <<search, pc, reader, buffer, given, requests>>

NoBuf == [id |-> 0, mem |-> "null", has |-> {}, of |-> 0]

Init ==
    /\ at \in [1..Locations -> Images] /\ hlos \in BOOLEAN /\ paths = 0 - 1
    /\ pc = "idle" /\ loc = 1 /\ seg = 0 /\ image = {}
    /\ buf = NoBuf /\ allocatorInit = FALSE /\ mBufferStatus = "kErrImageNotFound"
    /\ bufs = [b \in 1..MaxBufs |-> 0] /\ given = {} /\ lost = {} /\ made = 0
    /\ requests = 0

TypeOK ==
    /\ paths \in (0 - 1)..Locations /\ loc \in 1..Locations + 1 /\ made \in 0..MaxBufs
    /\ bufs \in [1..MaxBufs -> 0..2] /\ given \cup lost \subseteq 1..MaxBufs
    /\ buf.mem \in {"null", "mapped", "MAP_FAILED"}
    /\ mBufferStatus \in {"kErrImageNotFound", "kErrBuffAllocateFailed", "kBuffAllocated", "kErrOk"}

-----------------------------------------------------------------------------
\* getCRequestTABuffer.  One location for each name in the device's compatible
\* string, none when it cannot be read; the daemon has those of its
\* configuration, and no object when that cannot be read.
searchLocations == {0, Locations}
ta_paths == {0 - 1, 0, Locations}

CRequestTABuffer_open ==
    /\ paths = 0 - 1 /\ requests = 0
    /\ paths' \in IF hlos THEN ta_paths ELSE searchLocations
    /\ UNCHANGED <<at, hlos, pc, reader, buffer, given, requests>>

\* A request of QTEE.  Without a location the reader has no buffer at all; the
\* daemon's MemoryBuffer leaves allocatorInit as it finds it.
CRequestTABuffer_get ==
    /\ pc = "idle" /\ paths >= 0 /\ requests < MaxRequests
    /\ requests' = requests + 1
    /\ pc' = IF paths = 0 THEN "idle" ELSE "search"
    /\ loc' = 1 /\ buf' = NoBuf /\ mBufferStatus' = "kErrImageNotFound"
    /\ allocatorInit' \in IF hlos THEN BOOLEAN ELSE {FALSE}
    /\ UNCHANGED <<search, seg, image, bufs, given, lost, made>>

Goes(from, to) == pc = from /\ pc' = to

\* The constructor of TAImageReader: the .mbn of a location before its .b00.
TAImageReader ==
    /\ Goes("search", IF loc > paths THEN "made"
                      ELSE CASE at[loc].kind = "mbn" -> "mbn"
                             [] at[loc].kind = "split" -> "b00"
                             [] at[loc].kind = "none" -> "next")
    /\ UNCHANGED <<search, reader, buffer, given, requests>>

NextLocation ==
    /\ Goes("next", "search") /\ loc' = loc + 1
    /\ UNCHANGED <<search, seg, image, buffer, given, requests>>

\* A file cannot be opened, or is not the image it should be.
FileFails ==
    /\ pc \in {"mbn", "b00", "segment"}
    /\ pc' = "next"
    /\ UNCHANGED <<search, reader, buffer, given, requests>>

\* getImageMbnFile: the file is read into the buffer once there is one.
getImageMbnFile ==
    /\ pc = "mbn"
    /\ image' = at[loc].have /\ pc' = "buffer"
    /\ UNCHANGED <<search, loc, seg, buffer, given, requests>>

\* The number of segments is read as that of a 64 bit header; in a 32 bit
\* one the first program header's offset, which is 0, has that place.
e_phnum(img) == IF img.class = 64 THEN img.phnum ELSE 0

ReadHeader ==
    /\ pc = "b00"
    /\ image' = {0} /\ seg' = 1 /\ pc' = "segment"
    /\ UNCHANGED <<search, loc, buffer, given, requests>>

ReadSegment_skips ==
    /\ pc = "segment" /\ seg < e_phnum(at[loc])
    /\ image' = IF seg \in at[loc].have THEN image \cup {seg} ELSE image
    /\ seg' = seg + 1
    /\ UNCHANGED <<search, pc, loc, buffer, given, requests>>

\* The files of the segments have one digit.
ReadSegment ==
    /\ pc = "segment" /\ seg < e_phnum(at[loc])
    /\ IF seg \in at[loc].have /\ seg <= 9
       THEN image' = image \cup {seg} /\ seg' = seg + 1 /\ UNCHANGED pc
       ELSE pc' = "next" /\ UNCHANGED <<image, seg>>
    /\ UNCHANGED <<search, loc, buffer, given, requests>>

ReadSplitBinsToBuf ==
    /\ pc = "segment" /\ seg >= e_phnum(at[loc])
    /\ pc' = "buffer"
    /\ UNCHANGED <<search, reader, buffer, given, requests>>

BufferFails ==
    /\ mBufferStatus' = "kErrBuffAllocateFailed" /\ pc' = "next"

DMAMemPoolGetBuff_keeps ==
    /\ pc = "buffer" /\ ~hlos /\ made < MaxBufs
    /\ made' = made + 1 /\ bufs' = [bufs EXCEPT ![made + 1] = 1]
    /\ allocatorInit' = TRUE
    /\ \/ /\ buf' = [buf EXCEPT !.id = made + 1, !.mem = "mapped"]
          /\ pc' = "copy" /\ UNCHANGED mBufferStatus
       \/ /\ buf' = buf /\ BufferFails
    /\ UNCHANGED <<search, reader, given, lost, requests>>

\* A memory object of QTEE, which is given up at once when its address cannot
\* be had.
DMAMemPoolGetBuff ==
    /\ pc = "buffer" /\ ~hlos /\ made < MaxBufs
    /\ \/ /\ made' = made + 1 /\ bufs' = [bufs EXCEPT ![made + 1] = 1]
          /\ buf' = [buf EXCEPT !.id = made + 1, !.mem = "mapped"]
          /\ allocatorInit' = TRUE /\ pc' = "copy" /\ UNCHANGED mBufferStatus
       \/ /\ buf' = [buf EXCEPT !.mem = "MAP_FAILED"] /\ BufferFails
          /\ UNCHANGED <<made, bufs, allocatorInit>>
    /\ UNCHANGED <<search, reader, given, lost, requests>>

\* In the daemon: the heap is mapped once per buffer.
DMAMemPoolInit ==
    /\ pc = "buffer" /\ hlos
    /\ \/ pc' = "alloc" /\ allocatorInit' = TRUE /\ UNCHANGED <<buf, mBufferStatus>>
       \/ /\ ~allocatorInit /\ BufferFails
          /\ buf' = [buf EXCEPT !.mem = "MAP_FAILED"] /\ UNCHANGED allocatorInit
    /\ UNCHANGED <<search, reader, bufs, given, lost, made, requests>>

\* A dma-buf is allocated and mapped; its descriptor, or the failure, takes the
\* place of the descriptor that an earlier location left.
DmabufHeapAlloc ==
    /\ pc = "alloc" /\ made < MaxBufs
    /\ lost' = lost \cup ({buf.id} \ {0})
    /\ \/ /\ buf' = [NoBuf EXCEPT !.mem = "MAP_FAILED"] /\ BufferFails
          /\ UNCHANGED <<made, bufs>>
       \/ /\ made' = made + 1 /\ bufs' = [bufs EXCEPT ![made + 1] = 1]
          /\ \E mem \in {"mapped", "MAP_FAILED"} :
                /\ buf' = [NoBuf EXCEPT !.id = made + 1, !.mem = mem]
                /\ IF mem = "mapped" THEN pc' = "sync" /\ UNCHANGED mBufferStatus
                   ELSE BufferFails
    /\ UNCHANGED <<search, reader, allocatorInit, given, requests>>

\* The CPU's access begins and ends with a sync of the daemon's buffer.
DMAMemPoolSync(from, to) ==
    /\ hlos /\ pc = from
    /\ \/ pc' = to /\ UNCHANGED mBufferStatus
       \/ BufferFails
    /\ UNCHANGED <<search, reader, buf, allocatorInit, bufs, given, lost, made, requests>>

\* The image is copied, or read, into the buffer.
createImageBuffer ==
    /\ Goes("copy", IF hlos THEN "synced" ELSE "found")
    /\ buf' = [buf EXCEPT !.has = image, !.of = loc]
    /\ UNCHANGED <<search, reader, allocatorInit, mBufferStatus, bufs, given, lost, made, requests>>

imageFound ==
    /\ Goes("found", "made") /\ mBufferStatus' = "kErrOk"
    /\ UNCHANGED <<search, reader, buf, allocatorInit, bufs, given, lost, made, requests>>

\* A reader without an image is deleted.
createTAImageReader ==
    /\ Goes("made", IF mBufferStatus = "kErrOk" THEN "deliver" ELSE "delete")
    /\ UNCHANGED <<search, reader, buffer, given, requests>>

\* The answer takes a reference of its own (Object_INIT; dup in the daemon),
\* and the reader is deleted with the one it had.
Deliver ==
    /\ Goes("deliver", "delete")
    /\ given' = given \cup {buf.id} /\ bufs' = [bufs EXCEPT ![buf.id] = @ + 1]
    /\ UNCHANGED <<search, reader, buf, allocatorInit, mBufferStatus, lost, made, requests>>

\* No descriptor to be had for dup; or none is closed that no FdWrapper could
\* be made for.
TZCom_getFdObject_fails ==
    /\ hlos /\ Goes("deliver", "delete")
    /\ \/ UNCHANGED <<bufs, lost>>
       \/ bufs' = [bufs EXCEPT ![buf.id] = @ + 1] /\ lost' = lost \cup {buf.id}
    /\ UNCHANGED <<search, reader, buf, allocatorInit, mBufferStatus, given, made, requests>>

DMAMemPoolReleaseBuff ==
    /\ ~hlos /\ Goes("delete", "idle")
    /\ bufs' = IF buf.id # 0 THEN [bufs EXCEPT ![buf.id] = @ - 1] ELSE bufs
    /\ buf' = NoBuf /\ allocatorInit' = FALSE
    /\ UNCHANGED <<search, reader, mBufferStatus, given, lost, made, requests>>

\* In the daemon the buffer is synced once more and unmapped, which may fail
\* or be left out; in each case its destructor closes the descriptor.
MemoryBuffer_delete_mapped ==
    /\ hlos /\ Goes("delete", "idle")
    /\ bufs' = IF buf.id # 0 /\ buf.mem = "mapped" THEN [bufs EXCEPT ![buf.id] = @ - 1] ELSE bufs
    /\ buf' = NoBuf /\ allocatorInit' = FALSE
    /\ UNCHANGED <<search, reader, mBufferStatus, given, lost, made, requests>>
MemoryBuffer_delete ==
    /\ hlos /\ Goes("delete", "idle")
    /\ bufs' = IF buf.id # 0 THEN [bufs EXCEPT ![buf.id] = @ - 1] ELSE bufs
    /\ buf' = NoBuf /\ allocatorInit' = FALSE
    /\ UNCHANGED <<search, reader, mBufferStatus, given, lost, made, requests>>

Next ==
    \/ CRequestTABuffer_open \/ CRequestTABuffer_get \/ TAImageReader \/ NextLocation
    \/ FileFails \/ getImageMbnFile \/ ReadHeader \/ ReadSegment \/ ReadSplitBinsToBuf
    \/ DMAMemPoolGetBuff \/ DMAMemPoolInit \/ DmabufHeapAlloc
    \/ DMAMemPoolSync("sync", "copy") \/ DMAMemPoolSync("synced", "found")
    \/ createImageBuffer \/ imageFound \/ createTAImageReader
    \/ Deliver \/ TZCom_getFdObject_fails \/ DMAMemPoolReleaseBuff \/ MemoryBuffer_delete

Spec == Init /\ [][Next]_vars

-----------------------------------------------------------------------------
\* A buffer that is handed out holds the image of one location: the .mbn, or
\* every segment that the 64 bit header of the split image names, with none
\* of another location that failed before.
ImageOfOneLocation ==
    pc = "delete" /\ buf.id \in given =>
        \/ at[buf.of].kind = "mbn" /\ buf.has = at[buf.of].have
        \/ at[buf.of].class = 64 /\ buf.has = 0..at[buf.of].phnum - 1
        \/ at[buf.of].class = 32

\* Between requests QTEE alone holds the buffers it was given, and nothing is
\* left of the others: each request, with all the locations that failed before
\* it succeeded or gave up, lets go of every buffer it made.  In the daemon the
\* only references left are of descriptors that it overwrote when it went on to
\* another location, or that it made for an answer it then could not give.
NothingKept ==
    /\ ~hlos => lost = {}
    /\ pc = "idle" => \A b \in 1..MaxBufs :
            bufs[b] = (IF b \in given THEN 1 ELSE 0) + (IF b \in lost THEN 1 ELSE 0)
=============================================================================
