---------------------------- MODULE Credentials ----------------------------
(***************************************************************************)
(* The ICredentials objects of libmink: the process and environment        *)
(* credentials of osIndCredentials.c and their wrapper, the link           *)
(* credentials a MinkSocket derives from its peer (LinkCredentials.c), the *)
(* adapters that hand them to a module when a peer opens a service         *)
(* (CredentialsAdapter.c, minksocket.c), xtzdCredentials.c and the two     *)
(* VMCredentials.                                                          *)
(*                                                                         *)
(* A value is abstracted to the object that supplied it, a buffer to how   *)
(* its size compares with the value's.  "Foreign" is a credential          *)
(* implemented elsewhere (a forwarder to another hub): it answers any name *)
(* it is asked.                                                            *)
(***************************************************************************)
EXTENDS Integers, FiniteSets, FiniteSetsExt, Functions

CONSTANTS Ids,        \* objects that can be allocated
          ConnTypes,  \* socket types: "UNIX", "VSOCK", ...
          ProcInputs, \* optional inputs a process credential is made with
          MaxHeld     \* bound: references the users hold between them

VARIABLES obj,      \* the heap: each id's credential, or Free
          held,     \* references held by users (hubs, modules, clients)
          conn      \* the connection: socket type, linkCredentials, adapter

vars == <<obj, held, conn>>

NULL == 0
ProcNames == {"n", "apid", "ahsh", "adbg", "aver", "ccrd", "did", "dn", "dmn",
              "uid", "pid", "secl", "perm"}
EnvNames == {"os", "eid", "edid", "ehsh", "edmn", "edn", "ever"}
LinkNames == {"lloc", "ltype", "eloc", "link"}
Names == ProcNames \cup EnvNames \cup LinkNames \cup
         {"vm", "luid", "lpid", "lvmuuid", "callerId"}
Fits == {"small", "exact", "large"}

(* osIndCredentials.c's table from index to key: the entry of indDistID    *)
(* is not the key the lookups know.                                        *)
indToEKeyChar == <<"n", "apid", "ahsh", "adbg", "aver", "ccrd", "cdid", "dn",
                   "dmn", "uid", "pid", "secl", "perm", "os", "eid", "edid",
                   "ehsh", "edmn", "edn", "ever">>
endOfIndex == 20
lastProcCredIndex == 12
firstEnvCredIndex == 13

Free == [kind |-> "free", refs |-> 0, flags |-> {}, a |-> NULL, b |-> NULL]
Live(o) == o # NULL /\ obj[o].kind # "free"
HeldInAll == SumFunction(held)
Unused == {o \in Ids : obj[o].kind = "free"}

New(kind, flags, a, b) ==
    [kind |-> kind, refs |-> 1, flags |-> flags, a |-> a, b |-> b]

(* Object_retain of each part given to a constructor (Object_INIT).        *)
Retained(h, parts) == [o \in Ids |->
    [h[o] EXCEPT !.refs = @ + Cardinality({i \in 1..2 : parts[i] = o})]]

---------------------------------------------------------------------------
(* _retain and _release of each kind.  The last release destroys the       *)
(* object, which releases what it wraps.                                   *)
RECURSIVE Released(_, _)
Released(h, o) ==
    IF o = NULL THEN h
    ELSE IF h[o].refs > 1 THEN [h EXCEPT ![o].refs = @ - 1]
    ELSE Released(Released([h EXCEPT ![o] = Free], h[o].a), h[o].b)

retain(o) ==
    /\ held[o] > 0 /\ HeldInAll < MaxHeld
    /\ obj' = [obj EXCEPT ![o].refs = @ + 1]
    /\ held' = [held EXCEPT ![o] = @ + 1]
    /\ UNCHANGED conn

release(o) ==
    /\ held[o] > 0
    /\ obj' = Released(obj, o)
    /\ held' = [held EXCEPT ![o] = @ - 1]
    /\ UNCHANGED conn

(* A constructor that hands its new object to the caller.                  *)
Constructs(kind, flags, a, b) ==
    /\ Unused # {} /\ HeldInAll < MaxHeld
    /\ LET o == Min(Unused)
       IN /\ obj' = [Retained(obj, <<a, b>>) EXCEPT ![o] = New(kind, flags, a, b)]
          /\ held' = [held EXCEPT ![o] = 1]
    /\ UNCHANGED conn

---------------------------------------------------------------------------
(* osIndCredentials.c.  The generated names: uuids of uid and pid, and the *)
(* distinguished name and id of domain and uuid.                           *)
_generate_uuid == {"apid", "pid", "uid"}
_generateDistinguishedName(flags, domain, uuid, dn) ==
    IF {domain, uuid} \subseteq flags /\ dn \notin flags THEN {dn} ELSE {}
_generateDistinguishedId(dn, did) == IF dn = {} THEN {} ELSE {did}

(* `given` holds the optional inputs ("n", "ahsh", "ccrd"); a missing      *)
(* domain, or a CBOR blob above the limit ("long"), fails the constructor  *)
(* and everything allocated so far is freed.                               *)
OSIndCredentials_newProcessCred(given) ==
    /\ "dmn" \in given /\ "long" \notin given
    /\ LET set == given \cup {"perm", "adbg", "aver", "secl"} \cup _generate_uuid
           dn == _generateDistinguishedName(set, "dmn", "apid", "dn")
       IN Constructs("process", set \cup dn \cup _generateDistinguishedId(dn, "did"),
                     NULL, NULL)

(* newLAVendor passes a fixed domain and no hash or CBOR; newLASystem      *)
(* passes everything on.                                                   *)
OSIndCredentials_newLAVendor(given) ==
    OSIndCredentials_newProcessCred((given \cap {"n"}) \cup {"dmn"})
OSIndCredentials_newLASystem(given) == OSIndCredentials_newProcessCred(given)

(* The flag of "os" is set whether or not an osID was given.               *)
OSIndCredentials_newEnvCred(hash) ==
    LET set == {"os", "eid", "edmn", "ever"} \cup hash
        dn == _generateDistinguishedName(set, "edmn", "eid", "edn")
    IN Constructs("env", set \cup dn \cup _generateDistinguishedId(dn, "edid"),
                  NULL, NULL)

OSIndCredentials_WrapCredentials(p, e) ==
    /\ p # NULL => held[p] > 0 /\ obj[p].kind \in {"process", "foreign"}
    /\ e # NULL => held[e] > 0 /\ obj[e].kind = "env"
    /\ Constructs("osind", {}, p, e)

VMCredentials_open == Constructs("vm", {"vm"}, NULL, NULL)

---------------------------------------------------------------------------
(* getValueByName of each kind: what object o answers to name n for a      *)
(* buffer of relative size f, as <<return code, supplying object>>.        *)
Answer(ret, from) == [ret |-> ret, from |-> from]
NOT_FOUND == Answer("NOT_FOUND", NULL)
Found(o, ok, size) == IF ok THEN Answer("OK", o) ELSE Answer(size, NULL)

ProcessCred_getValueByName(o, n, f) ==
    IF n \in obj[o].flags \cap ProcNames
    THEN Found(o, f # "small", "VALUE_SIZE") ELSE NOT_FOUND

EnvCred_getValueByName(o, n, f) ==
    LET key == IF n = "vm" THEN "eid" ELSE n
    IN IF key \in obj[o].flags \cap EnvNames
       THEN Found(o, f # "small", "VALUE_SIZE") ELSE NOT_FOUND

VMCredentials_getValueByName(o, n, f) ==
    IF n = "vm" THEN Found(o, f # "small", "VALUE_SIZE") ELSE NOT_FOUND

queryLocAndType(o, n, f) ==
    IF n \in {"lloc", "ltype"} THEN Found(o, f = "exact", "VALUE_SIZE")
    ELSE NOT_FOUND

(* The names kept for old callers.  For a remote link "callerId" is asked  *)
(* of the hub credential that follows the link in a composite, under a     *)
(* name whose length counts the terminator, so that hubs do not know it.   *)
LinkCredLegacy_getValueByName(o, n, f) ==
    CASE n \in {"eloc", "link"} -> Found(o, f = "exact", "VALUE_SIZE")
      [] n = "callerId" /\ obj[o].kind = "link" ->
            Found(o, f = "exact", "VALUE_SIZE")
      [] OTHER -> NOT_FOUND

LinkCommon(o, n, f) ==
    LET legacy == LinkCredLegacy_getValueByName(o, n, f)
    IN IF legacy # NOT_FOUND THEN legacy ELSE queryLocAndType(o, n, f)

LinkCred_getValueByName(o, n, f) ==
    LET own == LinkCommon(o, n, f)
    IN IF own # NOT_FOUND THEN own
       ELSE IF n \in {"luid", "lpid"} THEN Found(o, f = "exact", "VALUE_SIZE")
       ELSE NOT_FOUND

LinkCredRemote_getValueByName(o, n, f) ==
    LET own == LinkCommon(o, n, f)
    IN IF own # NOT_FOUND THEN own
       ELSE IF n = "lvmuuid" THEN Found(o, f # "small", "VALUE_SIZE")
       ELSE NOT_FOUND

XtzdCredentials_getValueByName(o, n, f) ==
    IF n = "callerId" THEN Found(o, f = "exact", "SIZE_IN") ELSE NOT_FOUND

(* What is asked of a credential is asked of what it wraps: the            *)
(* environment before the process, the link before the hub.                *)
RECURSIVE getValueByName(_, _, _)
OSIndCredentials_getValueByName(o, n, f) ==
    LET env == IF obj[o].b = NULL THEN NOT_FOUND
               ELSE getValueByName(obj[o].b, n, f)
    IN IF env # NOT_FOUND \/ obj[o].a = NULL THEN env
       ELSE getValueByName(obj[o].a, n, f)
\* As if the hub were asked before the link.
LinkCredComposite_getValueByName_hubFirst(o, n, f) ==
    LET hub == IF obj[o].b = NULL THEN NOT_FOUND
               ELSE getValueByName(obj[o].b, n, f)
    IN IF hub # NOT_FOUND THEN hub ELSE LinkCommon(o, n, f)
LinkCredComposite_getValueByName(o, n, f) ==
    LET own == LinkCommon(o, n, f)
    IN IF own # NOT_FOUND THEN own
       ELSE IF n = "lvmuuid" THEN Found(o, f # "small", "SIZE_IN")
       ELSE IF obj[o].b = NULL THEN NOT_FOUND
       ELSE getValueByName(obj[o].b, n, f)
getValueByName(o, n, f) ==
    CASE obj[o].kind = "process" -> ProcessCred_getValueByName(o, n, f)
      [] obj[o].kind = "env" -> EnvCred_getValueByName(o, n, f)
      [] obj[o].kind = "osind" -> OSIndCredentials_getValueByName(o, n, f)
      [] obj[o].kind = "vm" -> VMCredentials_getValueByName(o, n, f)
      [] obj[o].kind = "link" -> LinkCred_getValueByName(o, n, f)
      [] obj[o].kind = "linkRemote" -> LinkCredRemote_getValueByName(o, n, f)
      [] obj[o].kind = "composite" -> LinkCredComposite_getValueByName(o, n, f)
      [] obj[o].kind = "xtzd" -> XtzdCredentials_getValueByName(o, n, f)
      [] OTHER -> Found(o, TRUE, "")

(* A plain remote link has no hub credential behind it to ask for          *)
(* "callerId"; modules only meet it inside a composite.                    *)
Credentials == {o \in Ids : Live(o) /\ obj[o].kind \notin {"local", "remote"}}

(* getPropertyByIndex of the three kinds that have one: the key of the     *)
(* index, looked up by name in a buffer taken to be large.                 *)
ProcessCred_getPropertyByIndex(o, i) ==
    IF i \notin 0..lastProcCredIndex THEN NOT_FOUND
    ELSE ProcessCred_getValueByName(o, indToEKeyChar[i + 1], "large")
EnvCred_getPropertyByIndex(o, i) ==
    IF i \notin firstEnvCredIndex..(endOfIndex - 1) THEN NOT_FOUND
    ELSE EnvCred_getValueByName(o, indToEKeyChar[i + 1], "large")
OSIndCredentials_getPropertyByIndex(o, i) ==
    IF i \notin 0..(endOfIndex - 1) THEN NOT_FOUND
    ELSE OSIndCredentials_getValueByName(o, indToEKeyChar[i + 1], "large")
getPropertyByIndex(o, i) ==
    CASE obj[o].kind = "process" -> ProcessCred_getPropertyByIndex(o, i)
      [] obj[o].kind = "env" -> EnvCred_getPropertyByIndex(o, i)
      [] obj[o].kind = "osind" -> OSIndCredentials_getPropertyByIndex(o, i)
      [] OTHER -> NOT_FOUND

---------------------------------------------------------------------------
(* A connection accepted for a module: minksocket.c makes the link         *)
(* credential of the peer, then the adapter, and puts the adapter in the   *)
(* object table.  An illegal vmuuid fails LinkCredRemote_new.              *)
NoConn == [type |-> "none", link |-> NULL, adapter |-> NULL]
LinkCred_new == New("link", LinkNames \cup {"luid", "lpid"}, NULL, NULL)
LinkCredRemote_new == New("linkRemote", LinkNames \cup {"lvmuuid"}, NULL, NULL)

MinkSocket_initCredentials(type) ==
    /\ conn = NoConn /\ Unused # {}
    /\ LET o == Min(Unused)
       IN /\ obj' = [obj EXCEPT ![o] = IF type = "UNIX" THEN LinkCred_new
                                       ELSE LinkCredRemote_new]
          /\ conn' = [conn EXCEPT !.type = type, !.link = o]
    /\ UNCHANGED held

LocalCredAdapter_new(link) == New("local", {}, NULL, link)
RemoteCredAdapter_new(link) == New("remote", {}, NULL, link)

(* credAdapter and the table's first slot each hold a reference.           *)
MinkSocket_initObjectTable ==
    /\ conn.link # NULL /\ conn.adapter = NULL /\ Unused # {}
    /\ LET o == Min(Unused)
           adapter == IF conn.type = "UNIX" THEN LocalCredAdapter_new(conn.link)
                      ELSE RemoteCredAdapter_new(conn.link)
       IN /\ obj' = [Retained(obj, <<NULL, conn.link>>) EXCEPT
                        ![o] = [adapter EXCEPT !.refs = 2]]
          /\ conn' = [conn EXCEPT !.adapter = o]
    /\ UNCHANGED held

(* Its cleanup when the adapter or its slot cannot be had.                 *)
InitObjectTableFails ==
    /\ conn.link # NULL /\ conn.adapter = NULL
    /\ obj' = Released(obj, conn.link)
    /\ conn' = NoConn
    /\ UNCHANGED held

(* The connection is deleted: its table, adapter and link credential go.   *)
Close ==
    /\ conn.adapter # NULL
    /\ obj' = Released(Released(Released(obj, conn.adapter), conn.adapter),
                       conn.link)
    /\ conn' = NoConn
    /\ UNCHANGED held

(* The peer opens a service.  The module keeps the credential it is given, *)
(* or drops it with the call.                                              *)
LocalCredAdapter_open(keeps) ==
    /\ conn.adapter # NULL /\ conn.type = "UNIX" /\ HeldInAll < MaxHeld
    /\ obj' = IF keeps THEN [obj EXCEPT ![conn.link].refs = @ + 1] ELSE obj
    /\ held' = IF keeps THEN [held EXCEPT ![conn.link] = @ + 1] ELSE held
    /\ UNCHANGED conn

(* A remote peer passes its hub's credential along, or none: the composite *)
(* copies the link and retains the hub's.                                  *)
\* As if the hub's credential were stored without a reference of its own.
LinkCredComposite_new_unretained(o, hub) ==
    [obj EXCEPT ![o] = New("composite", obj[conn.link].flags, NULL, hub)]

LinkCredComposite_new(o, hub) ==
    [Retained(obj, <<NULL, hub>>) EXCEPT
        ![o] = New("composite", obj[conn.link].flags, NULL, hub)]

RemoteCredAdapter_open(hub, keeps) ==
    /\ conn.adapter # NULL /\ conn.type # "UNIX" /\ Unused # {}
    /\ HeldInAll < MaxHeld
    /\ hub # NULL => hub \in Credentials /\ held[hub] > 0
    /\ LET o == Min(Unused)
           made == LinkCredComposite_new(o, hub)
       IN /\ obj' = IF keeps THEN made ELSE Released(made, o)
          /\ held' = IF keeps THEN [held EXCEPT ![o] = 1] ELSE held
    /\ UNCHANGED conn

(* The module wraps the credential for a callback service, which needs the *)
(* peer's process id.                                                      *)
XtzdCredentials_newFromCBO(l) ==
    /\ held[l] > 0 /\ l \in Credentials
    /\ getValueByName(l, "lpid", "exact").ret = "OK"
    /\ Constructs("xtzd", {"callerId"}, NULL, l)

(* A credential of another hub arrives as a forwarder.                     *)
Foreign == Constructs("foreign", Names, NULL, NULL)

---------------------------------------------------------------------------
Init ==
    /\ obj = [o \in Ids |-> Free]
    /\ held = [o \in Ids |-> 0]
    /\ conn = NoConn

Next ==
    \/ \E given \in ProcInputs : \/ OSIndCredentials_newLAVendor(given)
                                 \/ OSIndCredentials_newLASystem(given)
    \/ \E hash \in SUBSET {"ehsh"} : OSIndCredentials_newEnvCred(hash)
    \/ \E p, e \in Credentials \cup {NULL} :
          OSIndCredentials_WrapCredentials(p, e)
    \/ VMCredentials_open \/ Foreign
    \/ \E type \in ConnTypes : MinkSocket_initCredentials(type)
    \/ MinkSocket_initObjectTable \/ InitObjectTableFails \/ Close
    \/ \E keeps \in BOOLEAN : LocalCredAdapter_open(keeps)
    \/ \E hub \in Ids \cup {NULL}, keeps \in BOOLEAN :
          RemoteCredAdapter_open(hub, keeps)
    \/ \E o \in Ids : \/ XtzdCredentials_newFromCBO(o)
                      \/ retain(o) \/ release(o)

Spec == Init /\ [][Next]_vars

---------------------------------------------------------------------------
TypeOK ==
    /\ \A o \in Ids : /\ obj[o].refs \in Nat /\ held[o] \in 0..MaxHeld
                      /\ obj[o].flags \subseteq Names
                      /\ {obj[o].a, obj[o].b} \subseteq Ids \cup {NULL}

(* Every credential is referenced exactly by its users, by the live        *)
(* wrappers around it, by the connection that made it and by the object    *)
(* table: a wrapper never outlives what it answers from, and none leaks,   *)
(* whatever the order in which peers, modules and the connection let go.   *)
CredentialRefsExact ==
    \A o \in Ids :
        obj[o].refs = held[o]
            + Cardinality({w \in Ids : obj[w].a = o})
            + Cardinality({w \in Ids : obj[w].b = o})
            + (IF conn.link = o THEN 1 ELSE 0)
            + (IF conn.adapter = o THEN 2 ELSE 0)

(* What a module learns of the connection (location, type, VM) is the      *)
(* connection's own, whatever credential the peer passes along; and an     *)
(* environment's properties are its own, whatever it is wrapped with.      *)
OuterAnswersFirst ==
    \A o \in Credentials, f \in Fits :
        /\ obj[o].kind \in {"link", "linkRemote", "composite"} =>
              \A n \in obj[o].flags :
                  getValueByName(o, n, f).from \in {o, NULL}
        /\ obj[o].kind = "osind" /\ obj[o].b # NULL =>
              \A n \in obj[obj[o].b].flags :
                  getValueByName(o, n, f) = getValueByName(obj[o].b, n, f)
        /\ obj[o].kind = "osind" =>
              \A part \in {obj[o].a, obj[o].b} \ {NULL}, i \in 0..(endOfIndex - 1) :
                  getPropertyByIndex(part, i).ret = "OK" =>
                      getPropertyByIndex(o, i) = getPropertyByIndex(part, i)

====
