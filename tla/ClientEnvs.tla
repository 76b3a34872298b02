----------------------------- MODULE ClientEnvs -----------------------------
(***************************************************************************)
(* The client environments that the HLOS mink daemon hands to its clients: *)
(* CRegister_getClientEnv with the cache of CredentialsManager, the        *)
(* wrappers of EnvWrapper.cpp that count the QTEE objects of a client and  *)
(* of the system, and the Custom opener with its hub session that each     *)
(* environment stands for.                                                 *)
(*                                                                         *)
(* Threads of the IPC pool serve the clients.  An object that QTEE returns *)
(* is wrapped and has one holder, so objs counts them per environment.     *)
(***************************************************************************)
EXTENDS Naturals, FiniteSets, FiniteSetsExt

CONSTANTS
    Threads, Clients, Envs,
    MaxClients,     \* _maxSystemClients
    PerClient,      \* maxQTEEObjectLimit
    SystemQuota,    \* maxSystemObjectLimit
    MaxObjs,        \* bounds on the objects of an environment and on the
    MaxHeld         \* references to it that clients hold at a time

None == "none"

VARIABLES
    env,        \* per EnvWrapper: refs, qteeObjectCount, whether it exists
    session,    \* per EnvWrapper: the session of its Custom opener
    owner,      \* per EnvWrapper: the client it was made for
    credMap,    \* _credMap: client -> environment or None
    global,     \* globalQTEEObjectCountLimit
    held,       \* per environment: references that clients hold
    objs,       \* per environment: wrapped objects that clients hold
    pc, arg     \* per thread: where it is, its client and environment

vars == <<env, session, owner, credMap, global, held, objs, pc, arg>>

NoArg == [c |-> None, e |-> None]

TypeOK ==
    /\ env \in [Envs -> [refs : Nat, count : Nat, is : {"unused", "live", "deleted"}]]
    /\ session \in [Envs -> {"none", "open", "destroyed", "destroyed twice"}]
    /\ owner \in [Envs -> Clients \cup {None}]
    /\ credMap \in [Clients -> Envs \cup {None}]
    /\ global \in Nat /\ held \in [Envs -> Nat] /\ objs \in [Envs -> Nat]
    /\ arg \in [Threads -> [c : Clients \cup {None}, e : Envs \cup {None}]]

Init ==
    /\ env = [e \in Envs |-> [refs |-> 0, count |-> 0, is |-> "unused"]]
    /\ session = [e \in Envs |-> "none"]
    /\ owner = [e \in Envs |-> None]
    /\ credMap = [c \in Clients |-> None]
    /\ global = 1
    /\ held = [e \in Envs |-> 0] /\ objs = [e \in Envs |-> 0]
    /\ pc = [t \in Threads |-> "idle"] /\ arg = [t \in Threads |-> NoArg]

Goto(t, where, c, e) ==
    /\ pc' = [pc EXCEPT ![t] = where]
    /\ arg' = [arg EXCEPT ![t] = [c |-> c, e |-> e]]

Return(t) == Goto(t, "idle", None, None)

-----------------------------------------------------------------------------
(* EnvObjWrapper_release of environments, given as a function of their     *)
(* new states, since cleanEnvs releases several                            *)

Less(n, k) == IF n > k THEN n - k ELSE 0

\* The last reference gone: the counts go down, the Custom opener is
\* released and destroys its session, and the wrapper is deleted when it has
\* no objects left.
Released(e) ==
    LET n == env[e].refs - 1
        left == Less(env[e].count, 1)
    IN  IF n > 0 THEN [env[e] EXCEPT !.refs = n]
        ELSE [refs |-> 0, count |-> left, is |-> IF left = 0 THEN "deleted" ELSE "live"]

Destroyed(e) == IF session[e] = "open" THEN "destroyed" ELSE "destroyed twice"

ReleaseEnvs(S) ==
    LET last == {e \in S : env[e].refs = 1}
    IN  /\ env' = [e \in Envs |-> IF e \in S THEN Released(e) ELSE env[e]]
        /\ session' = [e \in Envs |-> IF e \in last THEN Destroyed(e) ELSE session[e]]
        /\ global' = Less(global, Cardinality(last))

-----------------------------------------------------------------------------
(* CRegister_getClientEnv                                                  *)

\* CredentialsManager::get: a known client gets its environment again.
get(t, c) ==
    /\ pc[t] = "idle" /\ \A e \in Envs : held[e] < MaxHeld
    /\ IF credMap[c] # None
       THEN /\ env' = [env EXCEPT ![credMap[c]].refs = @ + 1]
            /\ Goto(t, "clean", c, credMap[c])
       ELSE Goto(t, "clean", c, None) /\ UNCHANGED env
    /\ UNCHANGED <<session, owner, credMap, global, held, objs>>

Unused_refsOnly == {c \in Clients : credMap[c] # None /\ env[credMap[c]].refs <= 1}

\* cleanEnvs: the map gives up the environments that only it still holds.
Unused == {c \in Clients : /\ credMap[c] # None
                           /\ env[credMap[c]].refs <= 1 /\ env[credMap[c]].count <= 1}

cleanEnvs(t) ==
    /\ pc[t] = "clean"
    /\ ReleaseEnvs({credMap[c] : c \in Unused})
    /\ credMap' = [c \in Clients |-> IF c \in Unused THEN None ELSE credMap[c]]
    /\ IF arg[t].e # None
       THEN /\ held' = [held EXCEPT ![arg[t].e] = @ + 1]
            /\ Return(t)
       ELSE Goto(t, "check", arg[t].c, None) /\ UNCHANGED held
    /\ UNCHANGED <<owner, objs>>

\* The number of clients is read without the lock.
maxSystemClientConnected == Cardinality({c \in Clients : credMap[c] # None}) >= MaxClients

EnvWrapper_open == [refs |-> 1, count |-> 1, is |-> "live"]
Custom_newClient(e, c) ==
    /\ session' = [session EXCEPT ![e] = "open"]
    /\ owner' = [owner EXCEPT ![e] = c]

\* New credentials, a session, a Custom opener and, in add, its wrapper;
\* or the limit is reached, or one of them fails and the session is destroyed.
NewEnv(t) ==
    /\ pc[t] = "check"
    /\ \/ maxSystemClientConnected /\ Return(t) /\ UNCHANGED <<env, session, owner>>
       \/ /\ ~maxSystemClientConnected
          /\ \E e \in Envs :
                /\ env[e].is = "unused"
                /\ env' = [env EXCEPT ![e] = EnvWrapper_open]
                /\ Custom_newClient(e, arg[t].c)
                /\ Goto(t, "add", arg[t].c, e)
       \/ /\ ~maxSystemClientConnected
          /\ Return(t) /\ UNCHANGED <<env, session, owner>>
    /\ UNCHANGED <<credMap, global, held, objs>>

add_replaces(t) ==
    /\ pc[t] = "add"
    /\ credMap' = [credMap EXCEPT ![arg[t].c] = arg[t].e]
    /\ env' = [env EXCEPT ![arg[t].e].refs = @ + 1]
    /\ held' = [held EXCEPT ![arg[t].e] = @ + 1]
    /\ Return(t)
    /\ UNCHANGED <<session, global, owner, objs>>

\* CredentialsManager::add under the lock: the first of two threads wins, the
\* other deletes its pair and takes the winner's wrapper.
add(t) ==
    /\ pc[t] = "add"
    /\ LET c == arg[t].c
           mine == arg[t].e
           old == credMap[c]
       IN  \/ /\ old = None
              /\ credMap' = [credMap EXCEPT ![c] = mine]
              /\ env' = [env EXCEPT ![mine].refs = @ + 1]
              /\ held' = [held EXCEPT ![mine] = @ + 1]
              /\ UNCHANGED <<session, global>>
           \/ /\ old # None
              /\ env' = [env EXCEPT ![old].refs = @ + 1, ![mine] = Released(mine)]
              /\ session' = [session EXCEPT ![mine] = Destroyed(mine)]
              /\ global' = Less(global, 1)
              /\ held' = [held EXCEPT ![old] = @ + 1]
              /\ UNCHANGED credMap
    /\ Return(t)
    /\ UNCHANGED <<owner, objs>>

-----------------------------------------------------------------------------
(* EnvObjWrapper_invoke on an environment or an object of it               *)

systemObjQuotaReached == SystemQuota <= global
objLimitReached(e) == PerClient <= env[e].count

\* The limits are looked at before the call.
ObjWrapper_Invoke(t, e) ==
    /\ pc[t] = "idle" /\ held[e] + objs[e] > 0 /\ objs[e] < MaxObjs
    /\ ~systemObjQuotaReached /\ ~objLimitReached(e)
    /\ Goto(t, "invoke", None, e)
    /\ UNCHANGED <<env, session, owner, credMap, global, held, objs>>

\* The object that QTEE returns is wrapped; or the call fails.
ObjWrapper_new(t) ==
    /\ pc[t] = "invoke"
    /\ LET e == arg[t].e
       IN  \/ /\ env' = [env EXCEPT ![e].count = @ + 1]
              /\ global' = global + 1
              /\ objs' = [objs EXCEPT ![e] = @ + 1]
           \/ UNCHANGED <<env, global, objs>>
    /\ Return(t)
    /\ UNCHANGED <<session, owner, credMap, held>>

\* The client keeps what it invokes while the call runs.
InUse(e) == \E t \in Threads : pc[t] = "invoke" /\ arg[t].e = e

ReleaseEnv(t, e) ==
    /\ pc[t] = "idle" /\ held[e] > 0 /\ (InUse(e) => held[e] + objs[e] > 1)
    /\ held' = [held EXCEPT ![e] = @ - 1]
    /\ ReleaseEnvs({e})
    /\ UNCHANGED <<owner, credMap, objs, pc, arg>>

\* EnvObjWrapper_release of an object.
ReleaseObj(t, e) ==
    /\ pc[t] = "idle" /\ objs[e] > 0 /\ (InUse(e) => held[e] + objs[e] > 1)
    /\ objs' = [objs EXCEPT ![e] = @ - 1]
    /\ global' = Less(global, 1)
    /\ env' = [env EXCEPT ![e].count = Less(@, 1)]
    /\ UNCHANGED <<session, owner, credMap, held, pc, arg>>

Next ==
    \E t \in Threads :
        \/ \E c \in Clients : get(t, c)
        \/ cleanEnvs(t) \/ NewEnv(t) \/ add(t)
        \/ \E e \in Envs : ObjWrapper_Invoke(t, e) \/ ReleaseEnv(t, e) \/ ReleaseObj(t, e)
        \/ ObjWrapper_new(t)

Spec == Init /\ [][Next]_vars

-----------------------------------------------------------------------------
\* An environment that a client holds, or that has an object or a call of a
\* client, exists and is the cached one of its client: the count that limits
\* the client therefore covers all of its objects, however the requests of
\* the client, the clean-up of the cache and the releases interleave.
ClientsEnvIsCached ==
    \A e \in Envs :
        held[e] + objs[e] > 0 =>
            env[e].is = "live" /\ session[e] = "open" /\ credMap[owner[e]] = e

\* qteeObjectCount of a cached environment is one more than its objects, and
\* its references are those of the map, of the clients and of a request that
\* is about to return it.
CountsExact ==
    \A c \in Clients : credMap[c] # None =>
        LET e == credMap[c]
        IN  /\ env[e].count = 1 + objs[e]
            /\ env[e].refs = 1 + held[e]
                  + Cardinality({t \in Threads : pc[t] = "clean" /\ arg[t].e = e})
=============================================================================
