----------------------------- MODULE PreLauncher -----------------------------
(***************************************************************************)
(* The pre-launcher daemon of the trusted VM: it authenticates a           *)
(* downloaded image, finds the metadata and the executable in it, refuses  *)
(* a version older than the one stored for its distinguished ID, and asks  *)
(* the root daemon to run it.  Several threads of its service launch at a  *)
(* time; the daemon can die between any two steps and start again.         *)
(* Sources: daemons/prelauncher/src/CTPreLauncher.c and Prelauncher.c,     *)
(* libcommon/src/ElfFile.c and inc/ElfFileXX.tmpl.h.                       *)
(*                                                                         *)
(* External: the verdict on a signature and what the signer wrote (root of *)
(* trust, version), the key-value store, and ITPPM_launch.                 *)
(***************************************************************************)
EXTENDS Naturals, Sequences, FiniteSets

CONSTANTS
    Threads,        \* threads of the daemon's service
    Images,         \* images offered
    MaxLaunches,    \* bound on launches
    MaxCrashes,     \* bound on deaths of the daemon
    HeapMayFail     \* the allocation of the DistId may fail

VARIABLES
    up,         \* the daemon serves
    gLock,      \* the thread that has gLock, or "none"
    pc,         \* where each thread is in CTPreLauncher_launch
    image,      \* the image it launches
    found,      \* where _parseElf has found the metadata
    stored,     \* the key-value store: the version of each name, 0 if none
    launched,   \* the version last launched of each name, 0 if none
    launches, crashes

vars == <<up, gLock, pc, image, found, stored, launched, launches, crashes>>

(* The distinguished ID of a downloaded image is its name in the OEM's     *)
(* domain.                                                                 *)
Names == {i.name : i \in Images}
SomeImage == CHOOSE i \in Images : TRUE

TypeOK ==
    /\ up \in BOOLEAN /\ gLock \in Threads \cup {"none"}
    /\ pc \in [Threads -> {"idle", "lock", "auth", "elf", "query", "store", "find", "launch"}]
    /\ image \in [Threads -> Images]
    /\ stored \in [Names -> Nat] /\ launched \in [Names -> Nat]

Init ==
    /\ up = FALSE /\ gLock = "none" /\ pc = [t \in Threads |-> "idle"]
    /\ image = [t \in Threads |-> SomeImage] /\ found = [t \in Threads |-> "none"]
    /\ stored = [n \in Names |-> 0] /\ launched = [n \in Names |-> 0]
    /\ launches = 0 /\ crashes = 0

-----------------------------------------------------------------------------
(* The ELF file: a sequence of segments [flag, type, fits] and one of      *)
(* sections [name, fits], where `fits` says that it lies in the buffer.    *)

FirstOf(seq, P(_)) ==
    LET match == {i \in DOMAIN seq : P(seq[i])}
    IN IF match = {} THEN 0 ELSE CHOOSE i \in match : \A j \in match : i <= j

(* The magic and the class, and headers of the right sizes that can be     *)
(* read from the source.                                                   *)
ElfFileXX_ctor(img) == img.headers
ElfFile_ctor(img) == img.magic /\ ElfFileXX_ctor(img)
_findSegmentIndexByFlag(img, flag) == FirstOf(img.segs, LAMBDA s : s.flag = flag)
_findSegmentIndexByType(img, type) == FirstOf(img.segs, LAMBDA s : s.type = type)
_findSegment(img, idx) == img.segs[idx].fits
_findSectionIndex(img, name) == FirstOf(img.secs, LAMBDA s : s.name = name)
_findManifestSection(img) ==
    LET idx == _findSectionIndex(img, ".mink_metadata") IN idx # 0 /\ img.secs[idx].fits

(* Where the metadata is: in a segment of the old SDK, in a section of the *)
(* new one, or nowhere.                                                    *)
FindMetadata(img) ==
    LET idx == _findSegmentIndexByFlag(img, "MANIFEST")
    IN IF ~ElfFile_ctor(img) THEN "none"
       ELSE IF idx # 0 THEN IF _findSegment(img, idx) THEN "segment" ELSE "none"
       ELSE IF _findManifestSection(img) THEN "section" ELSE "none"

(* Whether there is an executable: the marked segment, or the whole file   *)
(* if it has an interpreter and a relocation-read-only segment.            *)
FindExecutable(img, metadata) ==
    IF metadata = "segment"
    THEN LET idx == _findSegmentIndexByFlag(img, "TPROCESS") IN idx # 0 /\ _findSegment(img, idx)
    ELSE _findSegmentIndexByType(img, "INTERP") # 0 /\ _findSegmentIndexByType(img, "RELRO") # 0

-----------------------------------------------------------------------------
(* CTPreLauncher_launch.                                                   *)

Downloaded(t) == image[t].cid = "DL_OEM_SIGNED"
At(t, label) == pc[t] = label
Goto(t, label) == pc' = [pc EXCEPT ![t] = label]

(* Every exit frees the DistId and unlocks.                                *)
Return_keeps(t) == /\ Goto(t, "idle") /\ found' = [found EXCEPT ![t] = "none"]
                   /\ gLock' = IF At(t, "store") THEN gLock ELSE "none"
Return(t) == /\ Goto(t, "idle") /\ found' = [found EXCEPT ![t] = "none"]
             /\ gLock' = "none"

Launch(t) ==
    /\ up /\ At(t, "idle") /\ launches < MaxLaunches /\ launches' = launches + 1
    /\ \E i \in Images : image' = [image EXCEPT ![t] = i]
    /\ Goto(t, "lock")
    /\ UNCHANGED <<up, gLock, found, stored, launched, crashes>>

(* With no memory for the DistId the exit unlocks a mutex that this thread *)
(* has not locked.                                                         *)
NoDistId(t) ==
    /\ At(t, "lock") /\ HeapMayFail /\ Return(t)
    /\ UNCHANGED <<up, image, stored, launched, launches, crashes>>
Lock_none(t) ==
    /\ At(t, "lock") /\ gLock' = t /\ Goto(t, "auth")
    /\ UNCHANGED <<up, image, found, stored, launched, launches, crashes>>
Lock(t) ==
    /\ At(t, "lock") /\ gLock = "none" /\ gLock' = t /\ Goto(t, "auth")
    /\ UNCHANGED <<up, image, found, stored, launched, launches, crashes>>

(* _authTP, for downloaded images: the signature is right and the OEM's    *)
(* alone; any of its services may be missing.                              *)
_authTP(t) ==
    /\ At(t, "auth")
    /\ \/ /\ Downloaded(t) => image[t].rot = "OEM_SIGNED"
          /\ Goto(t, "elf") /\ UNCHANGED <<found, gLock>>
       \/ Downloaded(t) /\ Return(t)
    /\ UNCHANGED <<up, image, stored, launched, launches, crashes>>

(* _parseElf up to the distinguished ID; then, for downloaded images, the  *)
(* rollback check.                                                         *)
_parseElf(t) ==
    /\ At(t, "elf")
    /\ LET metadata == FindMetadata(image[t])
       IN IF metadata = "none" THEN Return(t)
          ELSE /\ found' = [found EXCEPT ![t] = metadata]
               /\ Goto(t, IF Downloaded(t) THEN "query" ELSE "find") /\ UNCHANGED gLock
    /\ UNCHANGED <<up, image, stored, launched, launches, crashes>>

(* _antiRollBack reads the stored version, if there is one (the store may  *)
(* fail), and refuses an older image, ...                                  *)
QueryVersion(t) ==
    LET ver == stored[image[t].name]
    IN /\ At(t, "query")
       /\ \/ /\ image[t].ver >= ver
             /\ Goto(t, IF image[t].ver > ver THEN "store" ELSE "find")
             /\ UNCHANGED <<gLock, found>>
          \/ Return(t)
       /\ UNCHANGED <<up, image, stored, launched, launches, crashes>>

(* ... and stores a newer one before the image runs.                       *)
StoreVersion(t) ==
    /\ At(t, "store")
    /\ \/ /\ stored' = [stored EXCEPT ![image[t].name] = image[t].ver]
          /\ Goto(t, "find") /\ UNCHANGED <<gLock, found>>
       \/ Return(t) /\ UNCHANGED stored
    /\ UNCHANGED <<up, image, launched, launches, crashes>>

(* The rest of _parseElf, and the check that an embedded image stays.      *)
FindProgram(t) ==
    /\ At(t, "find")
    /\ IF /\ FindExecutable(image[t], found[t])
          /\ Downloaded(t) \/ image[t].neverUnload
       THEN Goto(t, "launch") /\ UNCHANGED <<gLock, found>>
       ELSE Return(t)
    /\ UNCHANGED <<up, image, stored, launched, launches, crashes>>

ITPPM_launch(t) ==
    /\ At(t, "launch") /\ Return(t)
    /\ \/ /\ Downloaded(t) /\ launched' = [launched EXCEPT ![image[t].name] = image[t].ver]
       \/ UNCHANGED launched
    /\ UNCHANGED <<up, image, stored, launches, crashes>>

(* main: the daemon has reached the root daemon and opened its socket.     *)
Start ==
    /\ ~up /\ up' = TRUE
    /\ UNCHANGED <<gLock, pc, image, found, stored, launched, launches, crashes>>

(* The daemon dies, and the root daemon starts it again; the store stays.  *)
Crash ==
    /\ up /\ up' = FALSE /\ crashes < MaxCrashes /\ crashes' = crashes + 1
    /\ gLock' = "none" /\ pc' = [t \in Threads |-> "idle"] /\ found' = [t \in Threads |-> "none"]
    /\ UNCHANGED <<image, stored, launched, launches>>

Step(t) ==
    \/ NoDistId(t) \/ Lock(t) \/ _authTP(t) \/ _parseElf(t) \/ QueryVersion(t) \/ StoreVersion(t)
    \/ FindProgram(t) \/ ITPPM_launch(t)
Next == Start \/ Crash \/ \E t \in Threads : Launch(t) \/ Step(t)

Spec == Init /\ [][Next]_vars
Fairness == \A t \in Threads : WF_vars(Step(t))

-----------------------------------------------------------------------------
(* No downloaded image runs after a newer version of it has run, whatever  *)
(* the threads do between the check and the launch and wherever the daemon *)
(* dies: the version is stored before the launch, and gLock keeps other    *)
(* launches out from the query on.                                         *)
NoRollback == [][\A n \in Names : launched'[n] >= launched[n]]_vars

(* What keeps it: a thread past Lock has gLock, a version is launched only *)
(* once it is stored, and what a thread is about to store is newer, and to *)
(* launch no older, than what is stored for its name.                      *)
Past == {"auth", "elf", "query", "store", "find", "launch"}
VersionsOrdered ==
    /\ pc \in [Threads -> {"idle", "lock"} \cup Past]
    /\ image \in [Threads -> Images]
    /\ stored \in [Names -> Nat] /\ launched \in [Names -> Nat]
    /\ \A t \in Threads : pc[t] \in Past => gLock = t
    /\ \A n \in Names : launched[n] <= stored[n]
    /\ \A t \in Threads : pc[t] = "store" => image[t].ver > stored[image[t].name]
    /\ \A t \in Threads : pc[t] \in {"find", "launch"} /\ Downloaded(t) =>
           image[t].ver = stored[image[t].name]

(* Every launch returns: no exit keeps gLock.                              *)
LaunchReturns == \A t \in Threads : pc[t] # "idle" ~> pc[t] = "idle"
=============================================================================
