---------------------------- MODULE ServiceCenter ----------------------------
(***************************************************************************)
(* The service center of the trusted VM: what the root and the mink daemon *)
(* know of the services that the configuration files describe, and the     *)
(* program that a launch runs.  Sources (mink_platform/QTVM):              *)
(* libs/libservicecenter/src/ServiceCenter.c, libs/libsandbox/src/         *)
(* libcontainer.c, daemons/mink/inc/EmbeddedProcessIDs.h.                  *)
(*                                                                         *)
(* A mapping node of a file is the sequence of its <<tag, value>> pairs.   *)
(* External: the YAML parser, and the table of the programs' paths.        *)
(***************************************************************************)
EXTENDS Naturals, Sequences, FiniteSets, SequencesExt

CONSTANTS
    embeddedProcessIDList,  \* sequence of [uid, cid]
    embeddedProcessList,    \* cids that have a path
    DL_BASE, EMBEDDED_BASE, CID_ENUM_MAX,
    Files,                  \* configuration files: sequences of YAML nodes
    MaxFiles                \* bound on files read

VARIABLES
    types,                  \* the types of services this daemon asks for
    gServiceList,
    gAutoStartServiceCount,
    read                    \* files read

vars == <<types, gServiceList, gAutoStartServiceCount, read>>

AllTypes == {"EMBEDDED_DAEMON", "EMBEDDED_SERVICE", "DOWNLOADABLE_SERVICE"}
NoPath == 0

TypeOK ==
    /\ types \subseteq AllTypes /\ gAutoStartServiceCount \in Nat /\ read \in 0..MaxFiles
    /\ \A i \in DOMAIN gServiceList :
          gServiceList[i].type \in AllTypes /\ gServiceList[i].autoStart \in BOOLEAN

(* LoadProfiles asks for every type, the mink daemon for services.         *)
Init ==
    /\ types \in {AllTypes, {"EMBEDDED_SERVICE"}}
    /\ gServiceList = <<>> /\ gAutoStartServiceCount = 0 /\ read = 0

-----------------------------------------------------------------------------
_constructServiceInfo == [type |-> "EMBEDDED_DAEMON", cid |-> 0, uid |-> 0, autoStart |-> FALSE, path |-> NoPath]

_getServiceType(cid) ==
    CASE cid < DL_BASE -> "EMBEDDED_DAEMON"
      [] cid >= DL_BASE /\ cid < EMBEDDED_BASE -> "DOWNLOADABLE_SERVICE"
      [] cid >= EMBEDDED_BASE /\ cid < CID_ENUM_MAX -> "EMBEDDED_SERVICE"
      [] OTHER -> "invalid"

(* The first entry with this cid; uid 0 if there is none.                  *)
UidOf(cid) ==
    LET match == {i \in DOMAIN embeddedProcessIDList : embeddedProcessIDList[i].cid = cid}
    IN IF match = {} THEN 0
       ELSE embeddedProcessIDList[CHOOSE i \in match : \A j \in match : i <= j].uid

_parseServiceInfo_last(info, cid) ==
    LET uids == {embeddedProcessIDList[i].uid : i \in {k \in DOMAIN embeddedProcessIDList : embeddedProcessIDList[k].cid = cid}}
    IN [info EXCEPT !.cid = cid, !.type = _getServiceType(cid),
                    !.uid = IF uids = {} THEN 0 ELSE CHOOSE u \in uids : \A v \in uids : v <= u,
                    !.path = IF cid \in embeddedProcessList THEN cid ELSE NoPath]
(* A cid without a program is no error: it keeps an empty path.            *)
_parseServiceInfo(info, cid) ==
    [info EXCEPT !.cid = cid, !.type = _getServiceType(cid), !.uid = UidOf(cid),
                 !.path = IF cid \in embeddedProcessList THEN cid ELSE NoPath]

(* One pair of a service: an "id" out of range ends the parse; "autostart" *)
(* is counted as it is read.                                               *)
ParsePair(st, pair) ==
    CASE st.failed -> st
      [] pair[1] = "id" /\ ~st.failed ->
            [st EXCEPT !.info = IF _getServiceType(pair[2]) = "invalid" THEN @
                                ELSE _parseServiceInfo(@, pair[2]),
                       !.failed = (_getServiceType(pair[2]) = "invalid")]
      [] pair[1] = "autostart" /\ ~st.failed ->
            [st EXCEPT !.info.autoStart = (pair[2] = 1), !.count = @ + pair[2]]
      [] OTHER -> st

(* _parseServiceConfiguration: a service that parses and has one of the    *)
(* types asked for is appended.                                            *)
Parsed(service) ==
    FoldLeft(ParsePair, [info |-> _constructServiceInfo, count |-> 0, failed |-> FALSE], service)
Taken(st) == ~st.failed /\ st.info.type \in types
_parseServiceConfiguration(center, service) ==
    LET st == Parsed(service)
    IN [list |-> IF Taken(st) THEN Append(center.list, st.info) ELSE center.list,
        count |-> center.count + st.count]

(* _parseConfigureFile walks the nodes of a file: a mapping is a service   *)
(* if the last scalar since the mapping before it is "service".            *)
ParseNode(walk, node) ==
    IF node.kind = "scalar" THEN [walk EXCEPT !.lastScalar = node.name]
    ELSE [center |-> IF walk.lastScalar = "service"
                     THEN _parseServiceConfiguration(walk.center, node.pairs) ELSE walk.center,
          lastScalar |-> "NULL"]
_parseConfigureFile(center, file) ==
    FoldLeft(ParseNode, [center |-> center, lastScalar |-> "NULL"], file).center

(* ServiceCenter_loadServiceProfiles reads the files of the directory.     *)
ServiceCenter_loadServiceProfiles ==
    /\ read < MaxFiles /\ read' = read + 1
    /\ \E file \in Files :
          LET center == _parseConfigureFile([list |-> gServiceList, count |-> gAutoStartServiceCount], file)
          IN gServiceList' = center.list /\ gAutoStartServiceCount' = center.count
    /\ UNCHANGED types

(* ServiceCenter_destory empties the list and keeps the count.             *)
ServiceCenter_destory ==
    /\ gServiceList # <<>> /\ gServiceList' = <<>>
    /\ UNCHANGED <<types, gAutoStartServiceCount, read>>

Next == ServiceCenter_loadServiceProfiles \/ ServiceCenter_destory
Spec == Init /\ [][Next]_vars

-----------------------------------------------------------------------------
(* The uids that ServiceCenter_getAutoStartServiceList writes; it reports  *)
(* gAutoStartServiceCount of them, in an array of that size.               *)
AutoStartList ==
    LET auto == SelectSeq(gServiceList, LAMBDA s : s.autoStart)
    IN IF gAutoStartServiceCount = 0 THEN <<>> ELSE [i \in DOMAIN auto |-> auto[i].uid]

(* ServiceCenter_findService: the first with this uid, 0 if there is none. *)
ServiceCenter_findService(uid) ==
    LET match == {i \in DOMAIN gServiceList : gServiceList[i].uid = uid}
    IN IF match = {} THEN 0 ELSE CHOOSE i \in match : \A j \in match : i <= j

(* ServiceCenter_getServiceAttribute.                                      *)
ServiceCenter_getServiceAttribute(idx, attr) ==
    LET info == gServiceList[idx]
    IN CASE attr = "TYPE" -> info.type [] attr = "PATH" -> info.path [] attr = "AUTO_START" -> info.autoStart

(* LaunchProcess: the program the child runs (CID_ENUM_MAX stands for the  *)
(* file that the caller has opened), or none.                              *)
LaunchProcess(cid) ==
    LET known == \E i \in DOMAIN embeddedProcessIDList : embeddedProcessIDList[i].cid = cid
        idx == IF known THEN ServiceCenter_findService(UidOf(cid)) ELSE 0
    IN IF idx = 0 THEN NoPath
       ELSE IF ServiceCenter_getServiceAttribute(idx, "TYPE") = "DOWNLOADABLE_SERVICE" THEN CID_ENUM_MAX
       ELSE ServiceCenter_getServiceAttribute(idx, "PATH")

-----------------------------------------------------------------------------
(* The auto-start list fits the array that CTAutoStartManager_startService *)
(* allocates for the count, whatever the files hold and whatever types the *)
(* daemon asked for.                                                       *)
AutoStartFits == Len(AutoStartList) <= gAutoStartServiceCount

=============================================================================
