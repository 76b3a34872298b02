--------------------------- MODULE TunnelService ---------------------------
(* The service that opens the tunnel to the secure world: a session with   *)
(* the tunnel manager, a local endpoint, the peer endpoint and the client  *)
(* environment reached through it (TunnelInvokeService.c).  Setting it up  *)
(* takes eight steps; whichever fails, what was done before is undone by   *)
(* the function that takes the tunnel down.                                *)
(*                                                                         *)
(* The comment of the take-down says "Pre req: Release all objects opened  *)
(* through tunnel's clientEnv"; the users of this model keep to it.        *)
EXTENDS Naturals, FiniteSets

CONSTANTS MaxOpened     \* objects users hold at once (a bound of the model)

VARIABLES
    pc,                 \* the next step of init or deinit, or "down", "up", "failed"
    gSessionID,         \* the session's number is set
    session,            \* the secure world has the session open
    gTi,                \* the global points at the endpoint
    refs,               \* references to the local endpoint, 0 when it is freed
    peer,               \* who here holds the peer: init's variable, the endpoint
    portal,             \* the peer holds the local endpoint's portal
    gClientEnvTunnel,   \* the global holds the tunnelled client environment
    opened              \* objects users opened or took through it

vars == <<pc, gSessionID, session, gTi, refs, peer, portal, gClientEnvTunnel, opened>>

Init ==
    /\ pc = "down" /\ gSessionID = FALSE /\ session = FALSE /\ gTi = FALSE
    /\ refs = 0 /\ peer = {} /\ portal = FALSE /\ gClientEnvTunnel = FALSE /\ opened = 0

(* External: the secure world deletes its endpoint with the last reference *)
(* to it, and drops the portal it was given.                               *)
PeerHeldBy(holders) ==
    /\ peer' = holders
    /\ portal' = (portal /\ holders # {})

Dropped(holders) == IF portal /\ holders = {} THEN 1 ELSE 0

(* The end of init: its variables are released, and on failure the tunnel  *)
(* is taken down, starting with the client environment.                    *)
Bail ==
    /\ pc' = "d_getMgr"
    /\ PeerHeldBy(peer \ {"init"})
    /\ refs' = refs - Dropped(peer \ {"init"}) - (IF gClientEnvTunnel THEN 1 ELSE 0)
    /\ gClientEnvTunnel' = FALSE
    /\ UNCHANGED <<gSessionID, session, gTi, opened>>

TunnelInvokeService_init ==
    /\ pc = "down" /\ pc' = "newSession"
    /\ UNCHANGED <<gSessionID, session, gTi, refs, peer, portal, gClientEnvTunnel, opened>>

(* The client environment, the manager, the session: nothing is set before *)
(* the third of them succeeds.                                             *)
newSession ==
    /\ pc = "newSession"
    /\ \/ Bail
       \/ /\ pc' = "TI_new" /\ gSessionID' = TRUE /\ session' = TRUE
          /\ UNCHANGED <<gTi, refs, peer, portal, gClientEnvTunnel, opened>>

(* The peer service is opened, then the endpoint is made.                  *)
TI_new ==
    /\ pc = "TI_new"
    /\ \/ Bail
       \/ /\ pc' = "getPeer" /\ gTi' = TRUE /\ refs' = 1
          /\ UNCHANGED <<gSessionID, session, peer, portal, gClientEnvTunnel, opened>>

TI_setPeer ==
    /\ pc = "getPeer"
    /\ \/ Bail
       \/ /\ pc' = "register" /\ PeerHeldBy({"init", "ti"})
          /\ UNCHANGED <<gSessionID, session, gTi, refs, gClientEnvTunnel, opened>>

(* The portal is lent for the call and kept by the peer when it succeeds.  *)
TI_registerForCallbacks ==
    /\ pc = "register"
    /\ \/ Bail
       \/ /\ pc' = "newRemote" /\ portal' = TRUE /\ refs' = refs + 1
          /\ UNCHANGED <<gSessionID, session, gTi, peer, gClientEnvTunnel, opened>>

(* A forwarder retains its endpoint.                                       *)
TI_newRemoteObject ==
    /\ pc = "newRemote"
    /\ \/ Bail
       \/ /\ pc' = "up" /\ gClientEnvTunnel' = TRUE /\ PeerHeldBy(peer \ {"init"})
          /\ refs' = refs + 1 - Dropped(peer \ {"init"})
          /\ UNCHANGED <<gSessionID, session, gTi, opened>>

(* Every object opened through the tunnel is a forwarder; a reference to   *)
(* the environment itself is one more reference to its forwarder.          *)
TunnelInvokeService_open ==
    /\ pc = "up" /\ opened < MaxOpened
    /\ opened' = opened + 1 /\ refs' = refs + 1
    /\ UNCHANGED <<pc, gSessionID, session, gTi, peer, portal, gClientEnvTunnel>>

TIF_release ==
    /\ opened > 0
    /\ opened' = opened - 1 /\ refs' = refs - 1
    /\ UNCHANGED <<pc, gSessionID, session, gTi, peer, portal, gClientEnvTunnel>>

(* Again after a failure: "Upon failure, Tunnel Invoke Service may no      *)
(* longer be usable", so nothing but another deinit follows one.           *)
TunnelInvokeService_deinit ==
    /\ pc \in {"up", "failed"} /\ opened = 0
    /\ Bail

(* The manager is opened again and asked to end the session; each may      *)
(* fail, and deinit stops there.                                           *)
endSession ==
    /\ pc = "d_getMgr"
    /\ \/ pc' = "failed" /\ UNCHANGED <<gSessionID, session>>
       \/ pc' = "d_release" /\ gSessionID' = FALSE /\ session' = (session /\ ~gSessionID)
    /\ UNCHANGED <<gTi, refs, peer, portal, gClientEnvTunnel, opened>>

(* TI_releasePeer and TI_release.                                          *)
ReleaseEndpoint_notPeer ==
    /\ pc = "d_release" /\ pc' = "down" /\ gTi' = FALSE
    /\ refs' = IF gTi THEN refs - 1 ELSE refs
    /\ UNCHANGED <<gSessionID, session, peer, portal, gClientEnvTunnel, opened>>

ReleaseEndpoint ==
    /\ pc = "d_release" /\ pc' = "down" /\ gTi' = FALSE
    /\ PeerHeldBy(IF gTi THEN peer \ {"ti"} ELSE peer)
    /\ refs' = IF gTi THEN refs - Dropped(peer \ {"ti"}) - 1 ELSE refs
    /\ UNCHANGED <<gSessionID, session, gClientEnvTunnel, opened>>

Next ==
    \/ TunnelInvokeService_init \/ newSession \/ TI_new \/ TI_setPeer
    \/ TI_registerForCallbacks \/ TI_newRemoteObject
    \/ TunnelInvokeService_open \/ TIF_release
    \/ TunnelInvokeService_deinit \/ endSession \/ ReleaseEndpoint

Spec == Init /\ [][Next]_vars

TypeOK ==
    /\ pc \in {"down", "up", "failed", "newSession", "TI_new", "getPeer", "register",
               "newRemote", "d_getMgr", "d_release"}
    /\ gSessionID \in BOOLEAN /\ session \in BOOLEAN /\ gTi \in BOOLEAN
    /\ refs \in Nat /\ peer \subseteq {"init", "ti"}
    /\ portal \in BOOLEAN /\ gClientEnvTunnel \in BOOLEAN /\ opened \in 0 .. MaxOpened

(* Whichever step of TunnelInvokeService_init fails, and however often the *)
(* tunnel is set up and taken down, once it is down no session is left     *)
(* open in the secure world, the peer is released and the local endpoint   *)
(* has been freed, the reference its peer held included; and while it is   *)
(* up the client environment has an endpoint with a session behind it.     *)
DownMeansNothingLeft ==
    /\ pc = "down" => ~session /\ peer = {} /\ refs = 0
    /\ gClientEnvTunnel => session /\ gSessionID /\ gTi /\ "ti" \in peer /\ refs > opened
=============================================================================
