------------------------ MODULE HandleExchangeProofs ------------------------
(* The inductive invariant of HandleExchange, for any objects, forwarders, *)
(* calls and handles, and the proof that every step keeps it; the safety   *)
(* properties and the refinement of ObjectCalls follow from it.            *)
EXTENDS HandleExchange, FiniteSetTheorems, TLAPS

(* A slot has at most one holder, an occupied one has one, and the holder  *)
(* stands for the object of its side that is in the slot.                  *)
HeldOnce ==
    \A s \in Sides, h \in Handles :
        /\ \A f, g \in Fwds : FwdHolds(f, s, h) /\ FwdHolds(g, s, h) => f = g
        /\ \A c, d \in Calls : RequestHolds(c, s, h) /\ RequestHolds(d, s, h) => c = d
        /\ \A c, d \in Calls : ReplyHolds(c, s, h) /\ ReplyHolds(d, s, h) => c = d
        /\ \A f \in Fwds, c \in Calls :
              FwdHolds(f, s, h) => ~RequestHolds(c, s, h) /\ ~ReplyHolds(c, s, h)
        /\ \A c, d \in Calls : RequestHolds(c, s, h) => ~ReplyHolds(d, s, h)

HeldIfTaken ==
    \A s \in Sides, h \in Handles :
        table[s][h] # NULL =>
            \/ \E f \in Fwds : FwdHolds(f, s, h)
            \/ \E c \in Calls : RequestHolds(c, s, h) \/ ReplyHolds(c, s, h)

HeldIsThere ==
    \A s \in Sides, h \in Handles :
        /\ table[s][h] \in Local(s) \cup {NULL}
        /\ \A f \in Fwds : FwdHolds(f, s, h) => table[s][h] = fwd[f].obj /\ fwd[f].obj # NULL
        /\ \A c \in Calls :
            /\ RequestHolds(c, s, h) => table[s][h] = req[c].arg.obj /\ req[c].arg.obj # NULL
            /\ ReplyHolds(c, s, h) => table[s][h] = reply[c].obj /\ reply[c].obj # NULL

(* A caller keeps what its call needs while it waits: the forwarder that   *)
(* the request names stays alive, and so does the one it passes.           *)
Kept(c) ==
    /\ call[c].target \in Fwds /\ app[call[c].target] > 0
    /\ Live(call[c].target, call[c].from)
    /\ pc[c] \in {"request", "in"} =>
          req[c].handle = fwd[call[c].target].handle /\ req[c].obj = fwd[call[c].target].obj
    /\ pc[c] = "request" /\ req[c].arg.kind = "receiver" =>
          /\ call[c].arg \in Fwds /\ req[c].arg.handle = fwd[call[c].arg].handle
          /\ req[c].arg.obj = fwd[call[c].arg].obj
    /\ call[c].arg \in Fwds => app[call[c].arg] > 0 /\ Live(call[c].arg, call[c].from)

CallerKeeps == \A c \in Calls : waiting[c] => Kept(c)

(* The callee's arguments, by where the call is.                           *)
HasArgs(c) ==
    /\ pc[c] = "in" => Meant(got[c]) = req[c].arg.obj
    /\ got[c] # NULL => pc[c] \in {"in", "ran", "failed"}
    /\ out[c] # NULL => pc[c] \in {"ran", "send", "sent"}
    /\ pc[c] = "request" /\ req[c].arg.kind = "null" => req[c].arg.obj = NULL

CalleeKeeps == \A c \in Calls : HasArgs(c)

(* A caller waits for one thing at a time.                                 *)
Served ==
    \A c \in Calls :
        /\ waiting[c] <=> pc[c] \notin {"none", "sent"} \/ reply[c] # NoReply
        /\ pc[c] \notin {"none", "sent"} => reply[c] = NoReply

IInv ==
    /\ TypeOK /\ HeldOnce /\ HeldIfTaken /\ HeldIsThere
    /\ CallerKeeps /\ CalleeKeeps /\ Served /\ ForwarderRefsExact

-----------------------------------------------------------------------------
(* The two sides, their objects and the null object.                       *)
LEMMA SideFacts ==
    /\ \A s \in Sides : Peer(s) \in Sides /\ Peer(Peer(s)) = s /\ Peer(s) # s
    /\ \A s \in Sides : Local(s) \subseteq Objs /\ Local(s) \cap Local(Peer(s)) = {}
    /\ \A s, t \in Sides : Peer(s) = Peer(t) => s = t
    /\ NULL \notin Objs /\ NULL \notin Fwds /\ Objs \cap Fwds = {}
    /\ Server \in Sides /\ FirstHandle \in Handles
    /\ NoReply.kind = "none" /\ Fails.kind = "error"
    /\ NullArg \in Wire /\ Fails \notin Wire /\ NoReply \notin Wire /\ Fails # NoReply
    /\ \A w \in Wire : w.kind \in Kinds /\ w.handle \in Handles /\ w.obj \in Objs \cup {NULL}
<1>1. FirstHandle \in Handles
  BY ExchangeAssumption, Zenon
<1>2. /\ NoReply.kind = "none" /\ Fails.kind = "error"
      /\ NullArg \in Wire /\ Fails \notin Wire /\ NoReply \notin Wire /\ Fails # NoReply
      /\ \A w \in Wire : w.kind \in Kinds /\ w.handle \in Handles /\ w.obj \in Objs \cup {NULL}
  BY <1>1, Zenon DEF NullArg, Wire, Kinds, Fails, NoReply
<1> QED
  BY <1>1, <1>2, ExchangeAssumption DEF Sides, Peer, Local, Objs

(* How many calls have the value f.                                        *)
Having(g, f) == Cardinality({d \in Calls : g[d] = f})

(* The two sides alone.                                                    *)
LEMMA PeerFacts ==
    /\ \A s \in Sides : Peer(s) \in Sides /\ Peer(Peer(s)) = s /\ Peer(s) # s
    /\ \A s, t \in Sides : Peer(s) = Peer(t) => s = t
BY SideFacts, Zenon

(* A call that has the value counts.                                       *)
LEMMA CountPositive ==
    ASSUME NEW g, NEW f
    PROVE  Having(g, f) \in Nat /\ \A c \in Calls : g[c] = f => Having(g, f) > 0
<1> DEFINE A == {d \in Calls : g[d] = f}
<1>1. IsFiniteSet(A)
  BY ExchangeAssumption, FS_Subset, Zenon
<1>2. Cardinality(A) \in Nat
  BY <1>1, FS_CardinalityType, Zenon
<1>3. \A c \in Calls : g[c] = f => Cardinality(A) > 0
  BY <1>1, <1>2, FS_EmptySet
<1> QED
  BY <1>2, <1>3, Zenon DEF Having

(* g2 is g except perhaps for c.                                           *)
ChangedAt(g, g2, c) == \A d \in Calls : d # c => g2[d] = g[d]

(* How a change at c changes the number of calls with the value f.         *)
LEMMA CountChanges ==
    ASSUME NEW g, NEW g2, NEW c \in Calls, NEW f, ChangedAt(g, g2, c)
    PROVE  /\ (g[c] = f <=> g2[c] = f) => Having(g2, f) = Having(g, f)
           /\ g[c] # f /\ g2[c] = f => Having(g2, f) = Having(g, f) + 1
           /\ g[c] = f /\ g2[c] # f => Having(g2, f) = Having(g, f) - 1
<1> DEFINE A == {d \in Calls : g[d] = f}
           B == {d \in Calls : g2[d] = f}
<1>1. IsFiniteSet(A) /\ IsFiniteSet(B)
  BY ExchangeAssumption, FS_Subset, Zenon
<1>2. Cardinality(A) \in Nat /\ Cardinality(B) \in Nat
  BY <1>1, FS_CardinalityType, Zenon
<1> USE DEF ChangedAt
<1>4. (g[c] = f <=> g2[c] = f) => B = A
  BY Zenon
<1>5. g[c] # f /\ g2[c] = f => Cardinality(B) = Cardinality(A) + 1
  <2> SUFFICES ASSUME g[c] # f, g2[c] = f PROVE Cardinality(B) = Cardinality(A) + 1
    BY Zenon
  <2>1. B = A \cup {c} /\ c \notin A
    BY Zenon
  <2> QED
    BY <1>1, <2>1, FS_AddElement, Zenon
<1>6. g[c] = f /\ g2[c] # f => Cardinality(B) = Cardinality(A) - 1
  <2> SUFFICES ASSUME g[c] = f, g2[c] # f PROVE Cardinality(B) = Cardinality(A) - 1
    BY Zenon
  <2>1. B = A \ {c} /\ c \in A
    OBVIOUS
  <2> QED
    BY <1>1, <2>1, FS_RemoveElement, Zenon
<1> QED
  BY <1>4, <1>5, <1>6, Zenon DEF Having

(* MarshalOut of side s: the slots change only by one that was free and    *)
(* that the wire now names.                                                *)
LEMMA MarshalOutFacts ==
    ASSUME TypeOK, NEW s \in Sides, NEW a, NEW w \in Wire, MarshalOut(s, a, w)
    PROVE  /\ table' \in [Sides -> [Handles -> Objs \cup {NULL}]]
           /\ w.kind # "sender" => table' = table
           /\ w.kind = "sender" =>
                /\ table[s][w.handle] = NULL /\ table'[s][w.handle] = w.obj
                /\ w.obj = a /\ a \in Local(s)
                /\ \A t \in Sides, h \in Handles :
                      t # s \/ h # w.handle => table'[t][h] = table[t][h]
           /\ w.kind = "receiver" => a \in Fwds /\ w.handle = fwd[a].handle /\ w.obj = fwd[a].obj
           /\ w.kind = "null" => a = NULL /\ w.obj = NULL
<1>1. w.handle \in Handles /\ Local(s) \subseteq Objs /\ NULL \notin Objs /\ NULL \notin Fwds /\ Objs \cap Fwds = {}
  BY SideFacts, Zenon
<1>2. CASE a = NULL /\ w = NullArg /\ UNCHANGED table
  BY <1>2, Zenon DEF NullArg, TypeOK
<1>3. CASE /\ a \in Fwds
           /\ w = [kind |-> "receiver", handle |-> fwd[a].handle, obj |-> fwd[a].obj]
           /\ UNCHANGED table
  BY <1>3, Zenon DEF TypeOK
<1>4. CASE /\ a \in Local(s)
           /\ w.kind = "sender" /\ w.obj = a /\ FirstFree(s, w.handle)
           /\ table' = [table EXCEPT ![s][w.handle] = a]
  BY <1>1, <1>4, Zenon DEF TypeOK, FirstFree
<1> QED
  BY <1>2, <1>3, <1>4, Zenon DEF MarshalOut

(* Nobody's hold on a slot changes.                                        *)
SameHolders ==
    /\ table' = table
    /\ \A g \in Fwds : fwd'[g].obj = fwd[g].obj
    /\ \A s \in Sides, h \in Handles :
        /\ \A g \in Fwds : FwdHolds(g, s, h)' <=> FwdHolds(g, s, h)
        /\ \A d \in Calls :
            /\ RequestHolds(d, s, h)' <=> RequestHolds(d, s, h)
            /\ ReplyHolds(d, s, h)' <=> ReplyHolds(d, s, h)
            /\ RequestHolds(d, s, h) => req'[d] = req[d]
            /\ ReplyHolds(d, s, h) => reply'[d] = reply[d]

(* A step that changes no slot and no holder keeps what is said of them.   *)
LEMMA SameKeeps ==
    ASSUME IInv, SameHolders
    PROVE  HeldOnce' /\ HeldIfTaken' /\ HeldIsThere'
<1>1. HeldOnce' /\ HeldIfTaken'
  BY DEF SameHolders, IInv, HeldOnce, HeldIfTaken
<1>2. HeldIsThere'
  <2> SUFFICES ASSUME NEW s \in Sides, NEW h \in Handles
               PROVE  /\ table'[s][h] \in Local(s) \cup {NULL}
                      /\ \A g \in Fwds : FwdHolds(g, s, h)' => table'[s][h] = fwd'[g].obj /\ fwd'[g].obj # NULL
                      /\ \A d \in Calls :
                           /\ RequestHolds(d, s, h)' => table'[s][h] = req'[d].arg.obj /\ req'[d].arg.obj # NULL
                           /\ ReplyHolds(d, s, h)' => table'[s][h] = reply'[d].obj /\ reply'[d].obj # NULL
    BY Zenon DEF HeldIsThere
  <2> QED
    BY DEF SameHolders, IInv, HeldIsThere
<1> QED
  BY <1>1, <1>2, Zenon

(* A message of call c grants the free slot k of side p to the object o.   *)
Grants(c, p, k, o) ==
    /\ table[p][k] = NULL /\ table'[p][k] = o /\ o \in Local(p)
    /\ RequestHolds(c, p, k)' <=> ~ReplyHolds(c, p, k)'
    /\ RequestHolds(c, p, k)' => req'[c].arg.obj = o
    /\ ReplyHolds(c, p, k)' => reply'[c].obj = o
    /\ \A s \in Sides, h \in Handles :
        /\ s # p \/ h # k => table'[s][h] = table[s][h] /\ ~RequestHolds(c, s, h)' /\ ~ReplyHolds(c, s, h)'
        /\ ~RequestHolds(c, s, h) /\ ~ReplyHolds(c, s, h)
        /\ \A g \in Fwds : FwdHolds(g, s, h)' <=> FwdHolds(g, s, h)
        /\ \A d \in Calls : d # c => /\ RequestHolds(d, s, h)' <=> RequestHolds(d, s, h)
                                     /\ ReplyHolds(d, s, h)' <=> ReplyHolds(d, s, h)
    /\ fwd' = fwd
    /\ \A d \in Calls : d # c => req'[d] = req[d] /\ reply'[d] = reply[d]

(* A slot that MarshalOut fills for the message that carries its handle    *)
(* gets one holder.                                                        *)
LEMMA GrantKeeps ==
    ASSUME IInv, NEW c \in Calls, NEW p \in Sides, NEW k \in Handles, NEW o, Grants(c, p, k, o)
    PROVE  HeldOnce' /\ HeldIfTaken' /\ HeldIsThere'
<1>0. Local(p) \subseteq Objs /\ NULL \notin Objs
  BY SideFacts, Zenon
<1>1. /\ \A g \in Fwds : ~FwdHolds(g, p, k)
      /\ \A d \in Calls : ~RequestHolds(d, p, k) /\ ~ReplyHolds(d, p, k)
  BY Zenon DEF IInv, HeldIsThere, Grants
<1>2. HeldOnce'
  <2> SUFFICES ASSUME NEW s \in Sides, NEW h \in Handles
               PROVE  /\ \A f, g \in Fwds : FwdHolds(f, s, h)' /\ FwdHolds(g, s, h)' => f = g
                      /\ \A b, d \in Calls : RequestHolds(b, s, h)' /\ RequestHolds(d, s, h)' => b = d
                      /\ \A b, d \in Calls : ReplyHolds(b, s, h)' /\ ReplyHolds(d, s, h)' => b = d
                      /\ \A f \in Fwds, d \in Calls :
                            FwdHolds(f, s, h)' => ~RequestHolds(d, s, h)' /\ ~ReplyHolds(d, s, h)'
                      /\ \A b, d \in Calls : RequestHolds(b, s, h)' => ~ReplyHolds(d, s, h)'
    BY Zenon DEF HeldOnce
  <2>1. CASE s = p /\ h = k
    BY <2>1, <1>1, Zenon DEF Grants
  <2>2. CASE s # p \/ h # k
    BY <2>2 DEF Grants, IInv, HeldOnce
  <2> QED
    BY <2>1, <2>2, Zenon
<1>3. HeldIfTaken'
  BY DEF Grants, IInv, HeldIfTaken
<1>4. HeldIsThere'
  <2> SUFFICES ASSUME NEW s \in Sides, NEW h \in Handles
               PROVE  /\ table'[s][h] \in Local(s) \cup {NULL}
                      /\ \A g \in Fwds : FwdHolds(g, s, h)' => table'[s][h] = fwd'[g].obj /\ fwd'[g].obj # NULL
                      /\ \A d \in Calls :
                           /\ RequestHolds(d, s, h)' => table'[s][h] = req'[d].arg.obj /\ req'[d].arg.obj # NULL
                           /\ ReplyHolds(d, s, h)' => table'[s][h] = reply'[d].obj /\ reply'[d].obj # NULL
    BY Zenon DEF HeldIsThere
  <2>1. CASE s = p /\ h = k
    BY <2>1, <1>0, <1>1, Zenon DEF Grants
  <2>2. CASE s # p \/ h # k
    BY <2>2 DEF Grants, IInv, HeldIsThere
  <2> QED
    BY <2>1, <2>2, Zenon
<1> QED
  BY <1>2, <1>3, <1>4, Zenon

(* A forwarder stands for what it did.                                     *)
SameFwd(f) ==
    /\ fwd'[f].st = fwd[f].st /\ fwd'[f].side = fwd[f].side
    /\ fwd'[f].handle = fwd[f].handle /\ fwd'[f].obj = fwd[f].obj

(* A call that goes on waiting, with the forwarders it needs as they were. *)
LEMMA KeptStays ==
    ASSUME CallerKeeps, NEW d \in Calls, waiting[d], call'[d] = call[d],
           pc'[d] \in {"request", "in"} => pc[d] \in {"request", "in"} /\ req'[d] = req[d],
           pc'[d] = "request" => pc[d] = "request",
           \A f \in Fwds : Borrowed(f) /\ fwd[f].st = "live" /\ app[f] > 0 => SameFwd(f) /\ app'[f] > 0
    PROVE  Kept(d)'
<1>1. Kept(d)
  BY Zenon DEF CallerKeeps
<1>2. \A f \in Fwds : f = call[d].target \/ f = call[d].arg => SameFwd(f) /\ app'[f] > 0
  BY <1>1, Zenon DEF Kept, Live, Borrowed
<1> QED
  BY <1>1, <1>2 DEF Kept, Live, SameFwd

(* A callee whose arguments are what they were.                            *)
LEMMA ArgsStay ==
    ASSUME CalleeKeeps, NEW d \in Calls, pc'[d] = pc[d], got'[d] = got[d], out'[d] = out[d],
           req'[d] = req[d], Meant(got[d])' = Meant(got[d])
    PROVE  HasArgs(d)'
<1>1. HasArgs(d)
  BY Zenon DEF CalleeKeeps, HasArgs
<1> QED
  BY <1>1, Zenon DEF HasArgs

(* MinkSocket_invoke: the caller registers its call and sends the request. *)
LEMMA InvokeKeeps ==
    ASSUME IInv, NEW c \in Calls, NEW f \in Fwds, NEW a \in Args, Invoke(c, f, a)
    PROVE  IInv'
<1> DEFINE s == fwd[f].side
<1>0. TypeOK /\ s \in Sides /\ fwd[f].handle \in Handles /\ fwd[f].obj \in Objs \cup {NULL}
  BY Zenon DEF IInv, TypeOK
<1>1. PICK w \in Wire :
        /\ MarshalOut(s, a, w)
        /\ req' = [req EXCEPT ![c] = [handle |-> fwd[f].handle, obj |-> fwd[f].obj, arg |-> w]]
  BY Zenon DEF Invoke
<1>2. /\ ~waiting[c] /\ pc[c] = "none" /\ fwd[f].st = "live" /\ app[f] > 0 /\ a \in Passable(s)
      /\ call' = [call EXCEPT ![c] = [from |-> s, target |-> f, arg |-> a]]
      /\ waiting' = [waiting EXCEPT ![c] = TRUE]
      /\ pc' = [pc EXCEPT ![c] = "request"]
      /\ UNCHANGED <<fwd, refs, app, got, out, reply>>
  BY Zenon DEF Invoke
<1>3. /\ table' \in [Sides -> [Handles -> Objs \cup {NULL}]]
      /\ w.kind # "sender" => table' = table
      /\ w.kind = "sender" =>
           /\ table[s][w.handle] = NULL /\ table'[s][w.handle] = w.obj
           /\ w.obj = a /\ a \in Local(s)
           /\ \A t \in Sides, h \in Handles : t # s \/ h # w.handle => table'[t][h] = table[t][h]
      /\ w.kind = "receiver" => a \in Fwds /\ w.handle = fwd[a].handle /\ w.obj = fwd[a].obj
      /\ w.kind = "null" => a = NULL /\ w.obj = NULL
  BY <1>0, <1>1, MarshalOutFacts
<1>4. TypeOK'
  BY <1>0, <1>1, <1>2, <1>3, Zenon DEF TypeOK
<1>5. /\ \A d \in Calls : d # c => call'[d] = call[d] /\ waiting'[d] = waiting[d] /\ pc'[d] = pc[d] /\ req'[d] = req[d]
      /\ call'[c].from = s /\ call'[c].target = f /\ call'[c].arg = a
      /\ waiting'[c] /\ pc'[c] = "request"
      /\ req'[c].handle = fwd[f].handle /\ req'[c].obj = fwd[f].obj /\ req'[c].arg = w
      /\ reply[c] = NoReply /\ reply[c].kind # "sender"
  BY <1>0, <1>1, <1>2 DEF IInv, TypeOK, Served, NoReply
<1>6. ASSUME NEW t \in Sides, NEW h \in Handles
      PROVE  /\ \A g \in Fwds : FwdHolds(g, t, h)' <=> FwdHolds(g, t, h)
             /\ \A d \in Calls : ReplyHolds(d, t, h)' <=> ReplyHolds(d, t, h)
             /\ \A d \in Calls : d # c => (RequestHolds(d, t, h)' <=> RequestHolds(d, t, h))
             /\ ~RequestHolds(c, t, h) /\ ~ReplyHolds(c, t, h)
             /\ RequestHolds(c, t, h)' <=> w.kind = "sender" /\ t = s /\ h = w.handle
  BY <1>2, <1>5, Zenon DEF FwdHolds, ReplyHolds, RequestHolds, Callee
<1>7. w.handle \in Handles /\ Local(s) \subseteq Objs
  BY <1>0, SideFacts, Zenon
<1>8. HeldOnce' /\ HeldIfTaken' /\ HeldIsThere'
  <2>1. CASE w.kind = "sender"
    <3>1. PICK p \in Sides, k \in Handles : p = s /\ k = w.handle
      BY <1>0, <1>7, Zenon
    <3>2. /\ RequestHolds(c, p, k)' /\ ~ReplyHolds(c, p, k)' /\ req'[c].arg.obj = a
          /\ table[p][k] = NULL /\ table'[p][k] = a /\ a \in Local(p)
      BY <2>1, <3>1, <1>3, <1>5, <1>6, Zenon
    <3>3. \A t \in Sides, h \in Handles : t # p \/ h # k =>
             table'[t][h] = table[t][h] /\ ~RequestHolds(c, t, h)' /\ ~ReplyHolds(c, t, h)'
      BY <2>1, <3>1, <1>3, <1>6, Zenon
    <3>4. fwd' = fwd /\ \A d \in Calls : d # c => req'[d] = req[d] /\ reply'[d] = reply[d]
      BY <1>2, <1>5, Zenon
    <3>5. Grants(c, p, k, a)
      BY <3>2, <3>3, <3>4, <1>6, Zenon DEF Grants
    <3> QED
      BY <3>5, GrantKeeps, Zenon
  <2>2. CASE w.kind # "sender"
    <3>1. SameHolders
      BY <2>2, <1>2, <1>3, <1>5, <1>6, Zenon DEF SameHolders
    <3> QED
      BY <3>1, SameKeeps, Zenon
  <2> QED
    BY <2>1, <2>2, Zenon
<1>12. CallerKeeps'
  <2>1. a \in Fwds => app[a] > 0 /\ Live(a, s)
    BY <1>0, <1>2, SideFacts, Zenon DEF Passable
  <2>2. fwd' = fwd /\ app' = app /\ fwd[f].st = "live" /\ app[f] > 0
    BY <1>2, Zenon
  <2>3. Kept(c)'
    BY <1>3, <1>5, <2>1, <2>2, Zenon DEF Kept, Live
  <2>4. CallerKeeps
    BY Zenon DEF IInv
  <2> QED
    BY <1>5, <2>2, <2>3, <2>4, KeptStays, Zenon DEF CallerKeeps, SameFwd
<1>13. CalleeKeeps'
  <2>1. CalleeKeeps /\ pc[c] = "none"
    BY <1>2, Zenon DEF IInv
  <2>2. got' = got /\ out' = out /\ fwd' = fwd
    BY <1>2, Zenon
  <2>3. HasArgs(c)'
    BY <1>3, <1>5, <2>1, <2>2, Zenon DEF CalleeKeeps, HasArgs
  <2> QED
    BY <1>5, <2>1, <2>2, <2>3, ArgsStay, Zenon DEF CalleeKeeps, Meant
<1>14. Served'
  BY <1>2, <1>5, Zenon DEF IInv, Served
<1>15. ForwarderRefsExact'
  <2>1. ForwarderRefsExact /\ UNCHANGED <<fwd, refs, app, got, out>>
    BY <1>2, Zenon DEF IInv
  <2> QED
    BY <2>1, Zenon DEF ForwarderRefsExact
<1> QED
  BY <1>4, <1>8, <1>12, <1>13, <1>14, <1>15, Zenon DEF IInv

(* The object in a slot is the one that its holder stands for.             *)
LEMMA HeldObjects ==
    ASSUME IInv, NEW s \in Sides, NEW h \in Handles
    PROVE  /\ table[s][h] \in Local(s) \cup {NULL}
           /\ \A f \in Fwds : FwdHolds(f, s, h) =>
                table[s][h] = fwd[f].obj /\ fwd[f].obj # NULL /\ fwd[f].obj \in Local(s)
           /\ \A c \in Calls :
                /\ RequestHolds(c, s, h) =>
                      table[s][h] = req[c].arg.obj /\ req[c].arg.obj # NULL /\ req[c].arg.obj \in Local(s)
                /\ ReplyHolds(c, s, h) =>
                      table[s][h] = reply[c].obj /\ reply[c].obj # NULL /\ reply[c].obj \in Local(s)
<1>1. /\ table[s][h] \in Local(s) \cup {NULL}
      /\ \A f \in Fwds : FwdHolds(f, s, h) => table[s][h] = fwd[f].obj /\ fwd[f].obj # NULL
      /\ \A c \in Calls :
            /\ RequestHolds(c, s, h) => table[s][h] = req[c].arg.obj /\ req[c].arg.obj # NULL
            /\ ReplyHolds(c, s, h) => table[s][h] = reply[c].obj /\ reply[c].obj # NULL
  BY Zenon DEF IInv, HeldIsThere
<1> QED
  BY <1>1, Zenon

(* While a call waits, the slots that its request names hold the objects   *)
(* that its caller meant.                                                  *)
LEMMA Reaches ==
    ASSUME IInv, NEW c \in Calls
    PROVE  /\ pc[c] \in {"request", "in"} =>
                table[Callee(c)][req[c].handle] = req[c].obj /\ req[c].obj # NULL
           /\ pc[c] = "request" /\ req[c].arg.kind = "receiver" =>
                table[Callee(c)][req[c].arg.handle] = req[c].arg.obj /\ req[c].arg.obj # NULL
<1>1. /\ call[c].from \in Sides /\ Callee(c) \in Sides /\ Peer(Callee(c)) = call[c].from
      /\ req[c].handle \in Handles /\ req[c].arg \in Wire /\ req[c].arg.handle \in Handles
  BY SideFacts, Zenon DEF IInv, TypeOK, Callee
<1>2. ASSUME pc[c] \in {"request", "in"}
      PROVE  table[Callee(c)][req[c].handle] = req[c].obj /\ req[c].obj # NULL
  <2>1. /\ call[c].target \in Fwds /\ Live(call[c].target, call[c].from)
        /\ req[c].handle = fwd[call[c].target].handle /\ req[c].obj = fwd[call[c].target].obj
    BY <1>2, Zenon DEF IInv, Served, CallerKeeps, Kept
  <2>2. FwdHolds(call[c].target, Callee(c), req[c].handle)
    BY <1>1, <2>1, Zenon DEF FwdHolds, Live
  <2> QED
    BY <1>1, <2>1, <2>2, HeldObjects
<1>3. ASSUME pc[c] = "request", req[c].arg.kind = "receiver"
      PROVE  table[Callee(c)][req[c].arg.handle] = req[c].arg.obj /\ req[c].arg.obj # NULL
  <2>1. /\ call[c].arg \in Fwds /\ Live(call[c].arg, call[c].from)
        /\ req[c].arg.handle = fwd[call[c].arg].handle /\ req[c].arg.obj = fwd[call[c].arg].obj
    BY <1>3, Zenon DEF IInv, Served, CallerKeeps, Kept
  <2>2. FwdHolds(call[c].arg, Callee(c), req[c].arg.handle)
    BY <1>1, <2>1, Zenon DEF FwdHolds, Live
  <2> QED
    BY <1>1, <2>1, <2>2, HeldObjects
<1> QED
  BY <1>2, <1>3, Zenon

(* ForwarderRefsExact with the counts as numbers.                          *)
LEMMA RefsCounted ==
    ASSUME IInv, NEW f \in Fwds
    PROVE  /\ refs[f] = app[f] + Having(got, f) + Having(out, f)
           /\ fwd[f].st = "live" <=> refs[f] > 0
           /\ Having(got, f) \in Nat /\ Having(out, f) \in Nat
           /\ refs[f] \in Nat /\ app[f] \in Nat
<1>1. refs[f] = app[f] + Having(got, f) + Having(out, f) /\ (fwd[f].st = "live" <=> refs[f] > 0)
  BY Zenon DEF IInv, ForwarderRefsExact, Having
<1>2. refs[f] \in Nat /\ app[f] \in Nat
  BY Zenon DEF IInv, TypeOK
<1> QED
  BY <1>1, <1>2, CountPositive, Zenon

(* A forwarder that does not live has no references and no users.          *)
LEMMA NotLive ==
    ASSUME IInv, NEW f \in Fwds
    PROVE  /\ refs[f] \in Nat /\ app[f] \in Nat
           /\ fwd[f].st = "live" <=> refs[f] > 0
           /\ fwd[f].st # "live" =>
                 refs[f] = 0 /\ app[f] = 0 /\ \A d \in Calls : got[d] # f /\ out[d] # f
           /\ \A d \in Calls : got[d] = f \/ out[d] = f => refs[f] > app[f]
           /\ \A d \in Calls : got[d] = f /\ out[d] = f => refs[f] > app[f] + 1
           /\ app[f] > 0 => refs[f] > 0
           /\ refs[f] >= app[f]
<1>1. /\ \A d \in Calls : got[d] = f => Having(got, f) > 0
      /\ \A d \in Calls : out[d] = f => Having(out, f) > 0
  BY CountPositive, Zenon
<1> QED
  BY <1>1, RefsCounted

(* MinkSocket_recvInvocationRequest of an input that needs no forwarder.   *)
LEMMA RecvRequestKeeps ==
    ASSUME IInv, NEW c \in Calls, RecvRequest(c), req[c].arg.kind # "sender"
    PROVE  IInv'
<1> DEFINE t == Callee(c)
           w == req[c].arg
<1>0. /\ TypeOK /\ t \in Sides /\ w \in Wire /\ w.handle \in Handles /\ w.kind \in Kinds
      /\ pc[c] = "request" /\ UNCHANGED <<table, app, call, waiting, out, reply>>
  BY SideFacts, Zenon DEF IInv, TypeOK, Callee, RecvRequest
<1>1. ~MarshalInFails(t, w)
  BY <1>0, Reaches, Zenon DEF MarshalInFails
<1>2. PICK a \in Args :
        /\ MarshalIn(t, w, a) /\ got' = [got EXCEPT ![c] = a]
        /\ pc' = [pc EXCEPT ![c] = "in"] /\ UNCHANGED req
  BY <1>1, Zenon DEF RecvRequest
<1>3. /\ UNCHANGED <<fwd, refs>> /\ a \notin Fwds /\ a = w.obj
      /\ w.kind = "null" => a = NULL
  <2>1. CASE w.kind = "null"
    BY <2>1, <1>0, <1>2, SideFacts, Zenon DEF MarshalIn, IInv, CalleeKeeps, HasArgs
  <2>2. CASE w.kind = "receiver"
    <3>1. table[t][w.handle] = w.obj /\ table[t][w.handle] \in Objs
      BY <2>2, <1>0, Reaches DEF TypeOK
    <3> QED
      BY <2>2, <3>1, <1>2, SideFacts, Zenon DEF MarshalIn
  <2> QED
    BY <2>1, <2>2, <1>0, Zenon DEF Kinds
<1>4. TypeOK'
  BY <1>0, <1>2, <1>3, Zenon DEF TypeOK
<1>5. /\ \A d \in Calls : d # c => pc'[d] = pc[d] /\ got'[d] = got[d]
      /\ pc'[c] = "in" /\ got'[c] = a /\ got[c] = NULL
  BY <1>0, <1>2, Zenon DEF IInv, TypeOK, CalleeKeeps, HasArgs
<1>6. SameHolders
  BY <1>0, <1>2, <1>3, <1>5 DEF SameHolders, FwdHolds, ReplyHolds, RequestHolds, Callee
<1>7. HeldOnce' /\ HeldIfTaken' /\ HeldIsThere'
  BY <1>6, SameKeeps, Zenon
<1>8. CallerKeeps'
  <2>1. CallerKeeps /\ fwd' = fwd /\ app' = app /\ req' = req /\ call' = call /\ waiting' = waiting
    BY <1>0, <1>2, <1>3, Zenon DEF IInv
  <2> QED
    BY <1>0, <1>5, <2>1, KeptStays, Zenon DEF CallerKeeps, SameFwd
<1>9. CalleeKeeps'
  <2>1. CalleeKeeps /\ fwd' = fwd /\ req' = req /\ out' = out
    BY <1>0, <1>2, <1>3, Zenon DEF IInv
  <2>2. HasArgs(c)'
    BY <1>0, <1>3, <1>5, <2>1, Zenon DEF CalleeKeeps, HasArgs, Meant
  <2> QED
    BY <1>5, <2>1, <2>2, ArgsStay, Zenon DEF CalleeKeeps, Meant
<1>10. Served'
  BY <1>0, <1>5, Zenon DEF IInv, Served
<1>11. ForwarderRefsExact'
  <2> SUFFICES ASSUME NEW f \in Fwds
               PROVE  Cardinality({d \in Calls : got'[d] = f}) = Cardinality({d \in Calls : got[d] = f})
    BY <1>0, <1>3, Zenon DEF IInv, ForwarderRefsExact
  <2>1. \A d \in Calls : got'[d] = f <=> got[d] = f
    BY <1>3, <1>5, SideFacts, Zenon
  <2> QED
    BY <2>1, Zenon
<1> QED
  BY <1>4, <1>7, <1>8, <1>9, <1>10, <1>11, Zenon DEF IInv

(* The slots when a new forwarder a takes over from the message of call c, *)
(* that carried the handle of slot k of side p: nobody else is concerned.  *)
TakesOver(a, c, p, k) ==
    /\ table' = table
    /\ FwdHolds(a, p, k)' /\ (RequestHolds(c, p, k) \/ ReplyHolds(c, p, k))
    /\ fwd'[a].obj = table[p][k]
    /\ \A s \in Sides, h \in Handles :
        /\ ~FwdHolds(a, s, h) /\ ~RequestHolds(c, s, h)' /\ ~ReplyHolds(c, s, h)'
        /\ s # p \/ h # k => /\ ~FwdHolds(a, s, h)' 
                             /\ ~RequestHolds(c, s, h) /\ ~ReplyHolds(c, s, h)
        /\ \A g \in Fwds : g # a => (FwdHolds(g, s, h)' <=> FwdHolds(g, s, h))
        /\ \A d \in Calls : d # c => /\ RequestHolds(d, s, h)' <=> RequestHolds(d, s, h)
                                     /\ ReplyHolds(d, s, h)' <=> ReplyHolds(d, s, h)
    /\ \A g \in Fwds : g # a => fwd'[g] = fwd[g]
    /\ \A d \in Calls : d # c => req'[d] = req[d] /\ reply'[d] = reply[d]

(* When a forwarder is made from a message it takes the message's place as *)
(* the holder of the slot.                                                 *)
LEMMA TakeOverKeeps ==
    ASSUME IInv, NEW a \in Fwds, NEW c \in Calls, NEW p \in Sides, NEW k \in Handles,
           TakesOver(a, c, p, k)
    PROVE  HeldOnce' /\ HeldIfTaken' /\ HeldIsThere'
<1>1. HeldOnce'
  <2> SUFFICES ASSUME NEW s \in Sides, NEW h \in Handles
               PROVE  /\ \A f, g \in Fwds : FwdHolds(f, s, h)' /\ FwdHolds(g, s, h)' => f = g
                      /\ \A b, d \in Calls : RequestHolds(b, s, h)' /\ RequestHolds(d, s, h)' => b = d
                      /\ \A b, d \in Calls : ReplyHolds(b, s, h)' /\ ReplyHolds(d, s, h)' => b = d
                      /\ \A f \in Fwds, d \in Calls :
                            FwdHolds(f, s, h)' => ~RequestHolds(d, s, h)' /\ ~ReplyHolds(d, s, h)'
                      /\ \A b, d \in Calls : RequestHolds(b, s, h)' => ~ReplyHolds(d, s, h)'
    BY Zenon DEF HeldOnce
  <2> QED
    BY DEF TakesOver, IInv, HeldOnce
<1>2. HeldIfTaken'
  BY Zenon DEF TakesOver, IInv, HeldIfTaken
<1>3. HeldIsThere'
  <2> SUFFICES ASSUME NEW s \in Sides, NEW h \in Handles
               PROVE  /\ table'[s][h] \in Local(s) \cup {NULL}
                      /\ \A g \in Fwds : FwdHolds(g, s, h)' => table'[s][h] = fwd'[g].obj /\ fwd'[g].obj # NULL
                      /\ \A d \in Calls :
                           /\ RequestHolds(d, s, h)' => table'[s][h] = req'[d].arg.obj /\ req'[d].arg.obj # NULL
                           /\ ReplyHolds(d, s, h)' => table'[s][h] = reply'[d].obj /\ reply'[d].obj # NULL
    BY Zenon DEF HeldIsThere
  <2> QED
    BY DEF TakesOver, IInv, HeldIsThere
<1> QED
  BY <1>1, <1>2, <1>3, Zenon

(* MinkSocket_recvInvocationRequest when the argument is an object of the  *)
(* caller: a forwarder is made for it.                                     *)
LEMMA RecvRequestForwards ==
    ASSUME IInv, NEW c \in Calls, RecvRequest(c), req[c].arg.kind = "sender"
    PROVE  IInv'
<1> DEFINE t == Callee(c)
           w == req[c].arg
           p == call[c].from
<1>0. /\ TypeOK /\ t \in Sides /\ w \in Wire /\ w.handle \in Handles /\ w.obj \in Objs \cup {NULL}
      /\ p \in Sides /\ Peer(t) = p /\ t = Peer(p)
      /\ pc[c] = "request" /\ UNCHANGED <<table, app, call, waiting, out, reply>>
  BY SideFacts, Zenon DEF IInv, TypeOK, Callee, RecvRequest
<1>1. ~MarshalInFails(t, w)
  BY Zenon DEF MarshalInFails
<1>2. PICK a \in Fwds :
        /\ fwd[a].st = "none"
        /\ fwd' = [fwd EXCEPT ![a] = Forwarder("live", t, w.handle, w.obj)]
        /\ refs' = [refs EXCEPT ![a] = 1]
        /\ got' = [got EXCEPT ![c] = a]
        /\ pc' = [pc EXCEPT ![c] = "in"] /\ UNCHANGED req
  BY <1>1, Zenon DEF RecvRequest, MarshalIn
<1>4. TypeOK'
  BY <1>0, <1>2, Zenon DEF TypeOK, Forwarder, Args
<1>5. /\ \A d \in Calls : d # c => pc'[d] = pc[d] /\ got'[d] = got[d]
      /\ pc'[c] = "in" /\ got'[c] = a /\ got[c] = NULL /\ reply[c] = NoReply
      /\ \A g \in Fwds : g # a => fwd'[g] = fwd[g] /\ refs'[g] = refs[g]
      /\ fwd'[a].st = "live" /\ fwd'[a].side = t /\ fwd'[a].handle = w.handle /\ fwd'[a].obj = w.obj
      /\ refs'[a] = 1
  <2>1. got[c] = NULL /\ reply[c] = NoReply
    BY <1>0, Zenon DEF IInv, CalleeKeeps, HasArgs, Served
  <2>2. /\ \A d \in Calls : d # c => pc'[d] = pc[d] /\ got'[d] = got[d]
        /\ pc'[c] = "in" /\ got'[c] = a
        /\ \A g \in Fwds : g # a => fwd'[g] = fwd[g] /\ refs'[g] = refs[g]
        /\ fwd'[a] = Forwarder("live", t, w.handle, w.obj) /\ refs'[a] = 1
    BY <1>0, <1>2, Zenon DEF TypeOK
  <2>3. /\ fwd'[a].st = "live" /\ fwd'[a].side = t
        /\ fwd'[a].handle = w.handle /\ fwd'[a].obj = w.obj
    BY <2>2 DEF Forwarder
  <2> QED
    BY <2>1, <2>2, <2>3, Zenon
<1>6. refs[a] = 0 /\ app[a] = 0 /\ \A d \in Calls : got[d] # a /\ out[d] # a
  BY <1>2, NotLive, Zenon
<1>7. TakesOver(a, c, p, w.handle)
  <2>1. RequestHolds(c, p, w.handle) /\ FwdHolds(a, p, w.handle)'
    <3>1. pc[c] = "request" /\ t = Peer(p) /\ UNCHANGED <<call, req>>
      BY <1>0, <1>2, Zenon
    <3>2. fwd'[a].st = "live" /\ fwd'[a].side = t /\ fwd'[a].handle = w.handle
      BY <1>5, Zenon
    <3>3. RequestHolds(c, p, w.handle)
      BY <3>1, Zenon DEF RequestHolds
    <3>4. FwdHolds(a, p, w.handle)'
      BY <3>1, <3>2, Zenon DEF FwdHolds
    <3> QED
      BY <3>3, <3>4, Zenon
  <2>2. table[p][w.handle] = w.obj
    BY <1>0, <2>1, HeldObjects, Zenon
  <2>3. ASSUME NEW s \in Sides, NEW h \in Handles
        PROVE /\ ~FwdHolds(a, s, h) /\ ~RequestHolds(c, s, h)' /\ ~ReplyHolds(c, s, h)'
              /\ s # p \/ h # w.handle => /\ ~FwdHolds(a, s, h)' 
                                          /\ ~RequestHolds(c, s, h) /\ ~ReplyHolds(c, s, h)
              /\ \A g \in Fwds : g # a => (FwdHolds(g, s, h)' <=> FwdHolds(g, s, h))
              /\ \A d \in Calls : d # c => /\ RequestHolds(d, s, h)' <=> RequestHolds(d, s, h)
                                           /\ ReplyHolds(d, s, h)' <=> ReplyHolds(d, s, h)
    <3>1. /\ UNCHANGED <<call, req, reply>> /\ pc[c] = "request" /\ fwd[a].st = "none"
          /\ p \in Sides /\ t = Peer(p) /\ reply[c].kind = "none"
      <4>1. /\ UNCHANGED <<call, reply>> /\ pc[c] = "request" /\ p \in Sides /\ t = Peer(p)
        BY <1>0, Zenon
      <4>2. reply[c] = NoReply
        BY <1>5, Zenon
      <4> QED
        BY <1>2, <4>1, <4>2 DEF NoReply
    <3> QED
      BY <1>5, <3>1, PeerFacts DEF FwdHolds, RequestHolds, ReplyHolds, Callee
  <2> QED
    BY <1>0, <1>2, <1>5, <2>1, <2>2, <2>3, Zenon DEF TakesOver
<1>8. HeldOnce' /\ HeldIfTaken' /\ HeldIsThere'
  BY <1>0, <1>7, TakeOverKeeps, Zenon
<1>9. CallerKeeps'
  <2>2. CallerKeeps /\ app' = app /\ req' = req /\ call' = call /\ waiting' = waiting /\ fwd[a].st = "none"
    BY <1>0, <1>2, Zenon DEF IInv
  <2> HIDE DEF t, w, p
  <2> QED
    BY <1>0, <1>5, <2>2, KeptStays, Zenon DEF CallerKeeps, SameFwd
<1>10. CalleeKeeps'
  <2>1. \A d \in Calls : d # c => Meant(got[d])' = Meant(got[d])
    BY <1>5, <1>6, Zenon DEF Meant
  <2>2. Meant(got[c])' = w.obj
    BY <1>5, Zenon DEF Meant
  <2> QED
    <3>1. CalleeKeeps /\ req' = req /\ out' = out
      BY <1>0, <1>2, Zenon DEF IInv
    <3>2. HasArgs(c)'
      BY <1>0, <1>5, <2>2, <3>1, Zenon DEF CalleeKeeps, HasArgs
    <3> QED
      BY <1>5, <2>1, <3>1, <3>2, ArgsStay, Zenon DEF CalleeKeeps
<1>11. Served'
  BY <1>0, <1>5, Zenon DEF IInv, Served
<1>12. ForwarderRefsExact'
  <2> SUFFICES ASSUME NEW f \in Fwds
               PROVE  /\ refs'[f] = app[f] + Having(got', f) + Having(out, f)
                      /\ fwd'[f].st = "live" <=> refs'[f] > 0
    BY <1>0, Zenon DEF ForwarderRefsExact, Having
  <2>1. /\ refs[f] = app[f] + Having(got, f) + Having(out, f) /\ (fwd[f].st = "live" <=> refs[f] > 0)
        /\ Having(got, f) \in Nat /\ Having(out, f) \in Nat /\ app[f] \in Nat
    BY RefsCounted, Zenon
  <2>2. got[c] # f /\ (got'[c] = f <=> f = a) /\ ChangedAt(got, got', c)
    BY <1>5, SideFacts, Zenon DEF ChangedAt
  <2>3. Having(got', f) = IF f = a THEN Having(got, f) + 1 ELSE Having(got, f)
    BY <2>2, CountChanges
  <2>4. CASE f = a
    <3>1. refs[f] = 0 /\ app[f] = 0 /\ refs'[f] = 1 /\ fwd'[f].st = "live"
      BY <2>4, <1>5, <1>6, Zenon
    <3>2. Having(got, f) = 0 /\ Having(out, f) = 0
      BY <3>1, <2>1
    <3>3. Having(got', f) = 1
      BY <2>3, <2>4, <3>2
    <3> QED
      BY <3>1, <3>2, <3>3
  <2>5. CASE f # a
    BY <1>5, <2>1, <2>3, <2>5, Zenon
  <2> QED
    BY <2>4, <2>5, Zenon
<1> QED
  BY <1>4, <1>8, <1>9, <1>10, <1>11, <1>12, Zenon DEF IInv

(* The target runs: it may keep its input and returns an object.           *)
LEMMA DispatchKeeps ==
    ASSUME IInv, NEW c \in Calls, NEW o \in Args, NEW keep \in BOOLEAN, Dispatch(c, o, keep)
    PROVE  IInv'
<1> DEFINE More(f) == IF f = got[c] /\ keep THEN 1 ELSE 0
           Out(f) == IF f = o THEN 1 ELSE 0
<1>0. /\ TypeOK /\ pc[c] = "in" /\ UNCHANGED <<table, fwd, call, waiting, got, reply>>
      /\ keep => got[c] \in Fwds
      /\ o \in Passable(Callee(c)) \cup {got[c]}
      /\ req' = [req EXCEPT ![c] = NoRequest]
      /\ app' = [f \in Fwds |-> app[f] + More(f)]
      /\ refs' = [f \in Fwds |-> refs[f] + More(f) + Out(f)]
      /\ out' = [out EXCEPT ![c] = o] /\ pc' = [pc EXCEPT ![c] = "ran"]
  BY Zenon DEF IInv, Dispatch
<1>1. NoRequest \in [handle : Handles, obj : Objs \cup {NULL}, arg : Wire]
  BY SideFacts, Zenon DEF NoRequest
<1>2. \A f \in Fwds : refs[f] \in Nat /\ app[f] \in Nat /\ More(f) \in {0, 1} /\ Out(f) \in {0, 1}
  BY <1>0, Zenon DEF TypeOK
<1>3. /\ \A f \in Fwds : app'[f] = app[f] + More(f) /\ refs'[f] = refs[f] + More(f) + Out(f)
      /\ app' \in [Fwds -> Nat] /\ refs' \in [Fwds -> Nat]
  <2> HIDE DEF More, Out
  <2> QED
    BY <1>0, <1>2
<1>4. TypeOK'
  BY <1>0, <1>1, <1>3, Zenon DEF TypeOK
<1>5. /\ \A d \in Calls : d # c => pc'[d] = pc[d] /\ out'[d] = out[d] /\ req'[d] = req[d]
      /\ pc'[c] = "ran" /\ out'[c] = o /\ out[c] = NULL
  BY <1>0, Zenon DEF IInv, TypeOK, CalleeKeeps, HasArgs
<1>6. SameHolders
  BY <1>0, <1>5 DEF SameHolders, FwdHolds, ReplyHolds, RequestHolds, Callee
<1>7. HeldOnce' /\ HeldIfTaken' /\ HeldIsThere'
  BY <1>6, SameKeeps, Zenon
<1>8. CallerKeeps'
  <2>1. \A f \in Fwds : app[f] > 0 => app'[f] > 0
    BY <1>2, <1>3
  <2> QED
    <3>1. CallerKeeps /\ fwd' = fwd /\ call' = call /\ waiting' = waiting
      BY <1>0, Zenon DEF IInv
    <3> QED
      BY <1>5, <2>1, <3>1, KeptStays, Zenon DEF CallerKeeps, SameFwd
<1>9. CalleeKeeps'
  <2>1. CalleeKeeps /\ pc[c] = "in" /\ fwd' = fwd /\ got' = got
    BY <1>0, Zenon DEF IInv
  <2>2. HasArgs(c)'
    BY <1>5, <2>1, Zenon DEF CalleeKeeps, HasArgs
  <2> QED
    BY <1>5, <2>1, <2>2, ArgsStay, Zenon DEF CalleeKeeps, Meant
<1>10. Served'
  BY <1>0, <1>5, Zenon DEF IInv, Served
<1>11. ForwarderRefsExact'
  <2> SUFFICES ASSUME NEW f \in Fwds
               PROVE  /\ refs'[f] = app'[f] + Having(got, f) + Having(out', f)
                      /\ fwd[f].st = "live" <=> refs'[f] > 0
    <3>1. UNCHANGED <<fwd, got>>
      BY <1>0, Zenon
    <3> QED
      BY <3>1, Zenon DEF ForwarderRefsExact, Having
  <2>1. out[c] # f /\ (out'[c] = f <=> f = o) /\ ChangedAt(out, out', c)
    BY <1>5, SideFacts, Zenon DEF ChangedAt
  <2>2. Having(out', f) = Having(out, f) + Out(f)
    <3>1. CASE f = o
      BY <3>1, <2>1, CountChanges
    <3>2. CASE f # o
      <4>1. Having(out', f) = Having(out, f)
        BY <3>2, <2>1, CountChanges
      <4> QED
        BY <3>2, <4>1, RefsCounted
    <3> QED
      BY <3>1, <3>2, Zenon
  <2>3. More(f) = 1 \/ Out(f) = 1 => refs[f] > 0
    <3>1. got[c] = f => refs[f] > 0
      BY NotLive, Zenon
    <3>2. f \in Passable(Callee(c)) => refs[f] > 0
      <4>1. Callee(c) \in Sides
        BY <1>0, SideFacts, Zenon DEF TypeOK, Callee
      <4> QED
        BY <4>1, SideFacts, NotLive, Zenon DEF Passable, Live
    <3> QED
      BY <1>0, <3>1, <3>2
  <2> HIDE DEF More, Out
  <2> QED
    BY <1>2, <1>3, <2>2, <2>3, RefsCounted
<1> QED
  BY <1>4, <1>7, <1>8, <1>9, <1>10, <1>11, Zenon DEF IInv

(* The invocation fails: the input is still to be released.                *)
LEMMA DispatchFailsKeeps ==
    ASSUME IInv, NEW c \in Calls, DispatchFails(c)
    PROVE  IInv'
<1>0. /\ TypeOK /\ pc[c] = "in" /\ UNCHANGED <<table, fwd, refs, app, call, waiting, got, out, reply>>
      /\ req' = [req EXCEPT ![c] = NoRequest] /\ pc' = [pc EXCEPT ![c] = "failed"]
  BY Zenon DEF IInv, DispatchFails
<1>1. TypeOK'
  <2>1. NoRequest \in [handle : Handles, obj : Objs \cup {NULL}, arg : Wire]
    BY SideFacts, Zenon DEF NoRequest
  <2> QED
    BY <1>0, <2>1, Zenon DEF TypeOK
<1>2. /\ \A d \in Calls : d # c => pc'[d] = pc[d] /\ req'[d] = req[d]
      /\ pc'[c] = "failed" /\ out[c] = NULL
  BY <1>0, Zenon DEF IInv, TypeOK, CalleeKeeps, HasArgs
<1>3. SameHolders
  BY <1>0, <1>2 DEF SameHolders, FwdHolds, ReplyHolds, RequestHolds, Callee
<1>4. HeldOnce' /\ HeldIfTaken' /\ HeldIsThere'
  BY <1>3, SameKeeps, Zenon
<1>5. CallerKeeps'
  <2>1. CallerKeeps /\ fwd' = fwd /\ app' = app /\ call' = call /\ waiting' = waiting
    BY <1>0, Zenon DEF IInv
  <2> QED
    BY <1>2, <2>1, KeptStays, Zenon DEF CallerKeeps, SameFwd
<1>6. CalleeKeeps'
  <2>1. CalleeKeeps /\ pc[c] = "in" /\ fwd' = fwd /\ got' = got /\ out' = out
    BY <1>0, Zenon DEF IInv
  <2>2. HasArgs(c)'
    BY <1>2, <2>1, Zenon DEF CalleeKeeps, HasArgs
  <2> QED
    BY <1>2, <2>1, <2>2, ArgsStay, Zenon DEF CalleeKeeps, Meant
<1>7. Served'
  BY <1>0, <1>2, Zenon DEF IInv, Served
<1>8. ForwarderRefsExact'
  BY <1>0, Zenon DEF IInv, ForwarderRefsExact
<1> QED
  BY <1>1, <1>4, <1>5, <1>6, <1>7, <1>8, Zenon DEF IInv

(* Object_release of a reference that is there: only the count and, with   *)
(* the last, the state of the forwarder change.                            *)
LEMMA ReleaseFacts ==
    ASSUME IInv, NEW a, Release(a), a \in Fwds => refs[a] > 0
    PROVE  /\ fwd' \in [Fwds -> [st : {"none", "live", "closing"}, side : Sides,
                                 handle : Handles, obj : Objs \cup {NULL}]]
           /\ refs' \in [Fwds -> Nat]
           /\ \A f \in Fwds :
                /\ refs'[f] = IF f = a THEN refs[f] - 1 ELSE refs[f]
                /\ fwd'[f].side = fwd[f].side /\ fwd'[f].handle = fwd[f].handle
                /\ fwd'[f].obj = fwd[f].obj
                /\ fwd'[f].st # fwd[f].st => f = a /\ refs[f] = 1 /\ fwd'[f].st = "closing"
                /\ fwd'[f].st = "none" <=> fwd[f].st = "none"
                /\ fwd'[f].st = "live" <=> refs'[f] > 0
<1>1. \A f \in Fwds : refs[f] \in Nat /\ (fwd[f].st = "live" <=> refs[f] > 0)
  BY RefsCounted, Zenon
<1>2. TypeOK
  BY Zenon DEF IInv
<1>3. CASE a \in Fwds
  <2>1. /\ refs' = [refs EXCEPT ![a] = @ - 1]
        /\ fwd' = IF refs[a] = 1 THEN [fwd EXCEPT ![a].st = "closing"] ELSE fwd
    BY <1>3, Zenon DEF Release
  <2>2. /\ refs' \in [Fwds -> Nat]
        /\ \A f \in Fwds : refs'[f] = IF f = a THEN refs[f] - 1 ELSE refs[f]
    BY <1>1, <1>2, <1>3, <2>1 DEF TypeOK
  <2>3. CASE refs[a] = 1
    <3>1. fwd' = [fwd EXCEPT ![a].st = "closing"]
      BY <2>1, <2>3, Zenon
    <3>2. /\ fwd' \in [Fwds -> [st : {"none", "live", "closing"}, side : Sides,
                                handle : Handles, obj : Objs \cup {NULL}]]
          /\ \A f \in Fwds : f # a => fwd'[f] = fwd[f]
          /\ fwd'[a].side = fwd[a].side /\ fwd'[a].handle = fwd[a].handle
          /\ fwd'[a].obj = fwd[a].obj /\ fwd'[a].st = "closing"
      BY <1>2, <1>3, <3>1, Zenon DEF TypeOK
    <3> QED
      BY <1>1, <1>3, <2>2, <2>3, <3>2
  <2>4. CASE refs[a] # 1
    BY <1>1, <1>2, <1>3, <2>1, <2>2, <2>4 DEF TypeOK
  <2> QED
    BY <2>3, <2>4, Zenon
<1>4. CASE a \notin Fwds
  BY <1>1, <1>2, <1>4, Zenon DEF Release, TypeOK
<1> QED
  BY <1>3, <1>4, Zenon

(* What a release leaves as it was: no slot changes hands, arguments mean  *)
(* the same, and callers that keep their references have them.             *)
LEMMA ReleaseKeeps ==
    ASSUME IInv, NEW a, Release(a), a \in Fwds => refs[a] > 0, UNCHANGED <<table, call, req, waiting, reply>>,
           \A d \in Calls : pc'[d] = "request" <=> pc[d] = "request",
           \A d \in Calls : pc'[d] \in {"request", "in"} => pc[d] \in {"request", "in"},
           \A f \in Fwds : app'[f] = app[f] \/ (f = a /\ app'[f] = app[f] - 1 /\ app'[f] > 0)
                           \/ (app'[f] = 0 /\ ~Borrowed(f)),
           a \in Fwds => refs[a] > app'[a]
    PROVE  /\ HeldOnce' /\ HeldIfTaken' /\ HeldIsThere' /\ CallerKeeps'
           /\ \A b \in Args : Meant(b)' = Meant(b)
<1> USE ReleaseFacts
<1>1. SameHolders
  BY DEF SameHolders, FwdHolds, RequestHolds, ReplyHolds, Callee
<1>2. \A b \in Args : Meant(b)' = Meant(b)
  BY Zenon DEF Meant
<1>3. CallerKeeps'
  <2>1. \A f \in Fwds : Borrowed(f) /\ app[f] > 0 => app'[f] > 0 /\ fwd'[f].st = fwd[f].st
    <3> SUFFICES ASSUME NEW f \in Fwds, Borrowed(f), app[f] > 0 PROVE app'[f] > 0 /\ fwd'[f].st = fwd[f].st
      BY Zenon
    <3>1. app'[f] > 0 /\ app[f] \in Nat /\ refs[f] \in Nat
      BY RefsCounted, Zenon
    <3>2. f = a => refs[f] # 1
      BY <3>1 
    <3> QED
      BY <3>1, <3>2
  <2>2. CallerKeeps /\ call' = call /\ req' = req /\ waiting' = waiting
    BY Zenon DEF IInv
  <2> QED
    BY <2>1, <2>2, KeptStays DEF CallerKeeps, SameFwd
<1> QED
  BY <1>1, <1>2, <1>3, SameKeeps, Zenon

(* MarshalIn_calleeRelease.                                                *)
LEMMA ReleaseInputKeeps ==
    ASSUME IInv, NEW c \in Calls, ReleaseInput(c)
    PROVE  IInv'
<1>0. /\ TypeOK /\ pc[c] \in {"ran", "failed"} /\ Release(got[c])
      /\ got' = [got EXCEPT ![c] = NULL]
      /\ pc' = [pc EXCEPT ![c] = IF @ = "ran" THEN "send" ELSE "error"]
      /\ UNCHANGED <<table, app, call, req, waiting, out, reply>>
  BY Zenon DEF IInv, ReleaseInput
<1>1. PICK a \in Args : a = got[c]
  BY <1>0, Zenon DEF TypeOK
<1>2. Release(a) /\ (a \in Fwds => refs[a] > app[a] /\ refs[a] > 0)
  BY <1>0, <1>1, NotLive, Zenon
<1>3. /\ \A d \in Calls : d # c => pc'[d] = pc[d] /\ got'[d] = got[d]
      /\ pc'[c] = (IF pc[c] = "ran" THEN "send" ELSE "error") /\ got'[c] = NULL
  BY <1>0, Zenon DEF TypeOK
<1>4. TypeOK'
  <2>1. got' \in [Calls -> Args] /\ pc' \in [Calls -> {"none", "request", "in", "ran", "send", "sent", "failed", "error"}]
    BY <1>0, Zenon DEF TypeOK, Args
  <2> QED
    BY <1>0, <1>2, <2>1, ReleaseFacts, Zenon DEF TypeOK
<1>5. /\ HeldOnce' /\ HeldIfTaken' /\ HeldIsThere' /\ CallerKeeps'
      /\ \A b \in Args : Meant(b)' = Meant(b)
  BY <1>0, <1>2, <1>3, ReleaseKeeps
<1>6. CalleeKeeps'
  <2>1. \A d \in Calls : d # c => Meant(got[d])' = Meant(got[d])
    BY <1>0, <1>3, <1>5, ReleaseFacts, <1>2 DEF Meant, TypeOK
  <2> QED
    BY <1>0, <1>3, <2>1 DEF IInv, CalleeKeeps, HasArgs
<1>7. Served'
  <2>1. Served /\ pc[c] \in {"ran", "failed"} /\ UNCHANGED <<waiting, reply>>
    BY <1>0, Zenon DEF IInv
  <2> QED
    BY <1>3, <2>1, Zenon DEF Served
<1>8. ForwarderRefsExact'
  <2>0. app' = app /\ out' = out /\ \A f \in Fwds : fwd'[f].st = "live" <=> refs'[f] > 0
    BY <1>0, <1>2, ReleaseFacts, Zenon
  <2> SUFFICES ASSUME NEW f \in Fwds
               PROVE  refs'[f] = app[f] + Having(got', f) + Having(out, f)
    BY <2>0, Zenon DEF ForwarderRefsExact, Having
  <2>1. got'[c] # f /\ (got[c] = f <=> f = a) /\ ChangedAt(got, got', c)
    BY <1>1, <1>3, SideFacts, Zenon DEF ChangedAt
  <2>2. refs'[f] = IF f = a THEN refs[f] - 1 ELSE refs[f]
    BY <1>2, ReleaseFacts
  <2>5. /\ refs[f] = app[f] + Having(got, f) + Having(out, f)
        /\ refs[f] \in Nat /\ app[f] \in Nat /\ Having(got, f) \in Nat /\ Having(out, f) \in Nat
    BY RefsCounted, Zenon
  <2>3. CASE f = a
    <3>1. Having(got', f) = Having(got, f) - 1
      BY <2>1, <2>3, CountChanges
    <3> QED
      BY <2>2, <2>3, <2>5, <3>1
  <2>4. CASE f # a
    <3>1. Having(got', f) = Having(got, f)
      BY <2>1, <2>4, CountChanges
    <3> QED
      BY <2>2, <2>4, <2>5, <3>1, Zenon
  <2> QED
    BY <2>3, <2>4, Zenon
<1> QED
  BY <1>4, <1>5, <1>6, <1>7, <1>8, Zenon DEF IInv

(* MarshalOut_calleeRelease.                                               *)
LEMMA ReleaseOutputKeeps ==
    ASSUME IInv, NEW c \in Calls, ReleaseOutput(c)
    PROVE  IInv'
<1>0. /\ TypeOK /\ pc[c] = "sent" /\ Release(out[c])
      /\ out' = [out EXCEPT ![c] = NULL]
      /\ pc' = [pc EXCEPT ![c] = "none"]
      /\ UNCHANGED <<table, app, call, req, waiting, got, reply>>
  BY Zenon DEF IInv, ReleaseOutput
<1>1. PICK a \in Args : a = out[c]
  BY <1>0, Zenon DEF TypeOK
<1>2. Release(a) /\ (a \in Fwds => refs[a] > app[a] /\ refs[a] > 0)
  BY <1>0, <1>1, NotLive, Zenon
<1>3. /\ \A d \in Calls : d # c => pc'[d] = pc[d] /\ out'[d] = out[d]
      /\ pc'[c] = "none" /\ out'[c] = NULL /\ got[c] = NULL
  BY <1>0, Zenon DEF IInv, TypeOK, CalleeKeeps, HasArgs
<1>4. TypeOK'
  <2>1. out' \in [Calls -> Args] /\ pc' \in [Calls -> {"none", "request", "in", "ran", "send", "sent", "failed", "error"}]
    BY <1>0, Zenon DEF TypeOK, Args
  <2> QED
    BY <1>0, <1>2, <2>1, ReleaseFacts, Zenon DEF TypeOK
<1>5. /\ HeldOnce' /\ HeldIfTaken' /\ HeldIsThere' /\ CallerKeeps'
      /\ \A b \in Args : Meant(b)' = Meant(b)
  BY <1>0, <1>2, <1>3, ReleaseKeeps, Zenon
<1>6. CalleeKeeps'
  <2>1. \A d \in Calls : Meant(got[d])' = Meant(got[d])
    BY <1>0, <1>2, ReleaseFacts, Zenon DEF Meant, TypeOK
  <2> QED
    BY <1>0, <1>3, <2>1, Zenon DEF IInv, CalleeKeeps, HasArgs
<1>7. Served'
  BY <1>0, <1>3, Zenon DEF IInv, Served
<1>8. ForwarderRefsExact'
  <2>0. app' = app /\ got' = got /\ \A f \in Fwds : fwd'[f].st = "live" <=> refs'[f] > 0
    BY <1>0, <1>2, ReleaseFacts, Zenon
  <2> SUFFICES ASSUME NEW f \in Fwds
               PROVE  refs'[f] = app[f] + Having(got, f) + Having(out', f)
    BY <2>0, Zenon DEF ForwarderRefsExact, Having
  <2>1. out'[c] # f /\ (out[c] = f <=> f = a) /\ ChangedAt(out, out', c)
    BY <1>1, <1>3, SideFacts, Zenon DEF ChangedAt
  <2>2. refs'[f] = IF f = a THEN refs[f] - 1 ELSE refs[f]
    BY <1>2, ReleaseFacts
  <2>5. /\ refs[f] = app[f] + Having(got, f) + Having(out, f)
        /\ refs[f] \in Nat /\ app[f] \in Nat /\ Having(got, f) \in Nat /\ Having(out, f) \in Nat
    BY RefsCounted
  <2>3. CASE f = a
    <3>1. Having(out', f) = Having(out, f) - 1
      BY <2>1, <2>3, CountChanges
    <3> QED
      BY <2>2, <2>3, <2>5, <3>1
  <2>4. CASE f # a
    <3>1. Having(out', f) = Having(out, f)
      BY <2>1, <2>4, CountChanges
    <3> QED
      BY <2>2, <2>4, <2>5, <3>1, Zenon
  <2> QED
    BY <2>3, <2>4, Zenon
<1> QED
  BY <1>4, <1>5, <1>6, <1>7, <1>8 DEF IInv

(* MinkSocket_sendInvokeSuccess.                                           *)
LEMMA SendSuccessKeeps ==
    ASSUME IInv, NEW c \in Calls, SendSuccess(c)
    PROVE  IInv'
<1> DEFINE s == Callee(c)
<1>0. /\ TypeOK /\ s \in Sides /\ pc[c] = "send" /\ pc' = [pc EXCEPT ![c] = "sent"]
      /\ UNCHANGED <<fwd, refs, app, call, req, waiting, got, out>>
  BY SideFacts, Zenon DEF IInv, SendSuccess, TypeOK, Callee
<1>1. PICK w \in Wire \cup {Fails} :
        /\ reply' = [reply EXCEPT ![c] = w]
        /\ w = Fails => table' = table
        /\ w # Fails => MarshalOut(s, out[c], w)
  BY SideFacts, Zenon DEF SendSuccess
<1>2. /\ table' \in [Sides -> [Handles -> Objs \cup {NULL}]]
      /\ w.kind # "sender" => table' = table
      /\ w.kind = "sender" =>
           /\ w \in Wire
           /\ table[s][w.handle] = NULL /\ table'[s][w.handle] = w.obj
           /\ w.obj = out[c] /\ out[c] \in Local(s)
           /\ \A t \in Sides, h \in Handles : t # s \/ h # w.handle => table'[t][h] = table[t][h]
  <2>1. CASE w = Fails
    BY <2>1, <1>0, <1>1, Zenon DEF TypeOK, Fails
  <2>2. CASE w # Fails
    BY <2>2, <1>0, <1>1, MarshalOutFacts
  <2> QED
    BY <2>1, <2>2, Zenon
<1>3. TypeOK'
  BY <1>0, <1>1, <1>2, Zenon DEF TypeOK
<1>4. /\ \A d \in Calls : d # c => pc'[d] = pc[d] /\ reply'[d] = reply[d]
      /\ pc'[c] = "sent" /\ reply'[c] = w /\ waiting[c] /\ reply[c] = NoReply /\ w # NoReply
      /\ reply[c].kind = "none"
  BY <1>0, <1>1, SideFacts, Zenon DEF IInv, TypeOK, Served
<1>5. ASSUME NEW t \in Sides, NEW h \in Handles
      PROVE  /\ \A g \in Fwds : FwdHolds(g, t, h)' <=> FwdHolds(g, t, h)
             /\ \A d \in Calls : RequestHolds(d, t, h)' <=> RequestHolds(d, t, h)
             /\ \A d \in Calls : d # c => (ReplyHolds(d, t, h)' <=> ReplyHolds(d, t, h))
             /\ ~RequestHolds(c, t, h) /\ ~ReplyHolds(c, t, h)
             /\ ReplyHolds(c, t, h)' <=> w.kind = "sender" /\ t = s /\ h = w.handle
  BY <1>0, <1>4, Zenon DEF FwdHolds, ReplyHolds, RequestHolds, Callee
<1>6. HeldOnce' /\ HeldIfTaken' /\ HeldIsThere'
  <2>1. CASE w.kind = "sender"
    <3>1. PICK p \in Sides, k \in Handles, o \in Args : p = s /\ k = w.handle /\ o = out[c]
      BY <2>1, <1>0, <1>2, SideFacts, Zenon DEF TypeOK
    <3>2. /\ ~RequestHolds(c, p, k)' /\ ReplyHolds(c, p, k)' /\ reply'[c].obj = o
          /\ table[p][k] = NULL /\ table'[p][k] = o /\ o \in Local(p) 
      BY <2>1, <3>1, <1>2, <1>4, <1>5, Zenon
    <3>3. \A t \in Sides, h \in Handles : t # p \/ h # k =>
             table'[t][h] = table[t][h] /\ ~RequestHolds(c, t, h)' /\ ~ReplyHolds(c, t, h)'
      BY <2>1, <3>1, <1>2, <1>5, Zenon
    <3>4. fwd' = fwd /\ \A d \in Calls : d # c => req'[d] = req[d] /\ reply'[d] = reply[d]
      BY <1>0, <1>4, Zenon
    <3>5. Grants(c, p, k, o)
      BY <3>2, <3>3, <3>4, <1>5, Zenon DEF Grants
    <3> QED
      BY <3>5, GrantKeeps, Zenon
  <2>2. CASE w.kind # "sender"
    <3>1. SameHolders
      BY <2>2, <1>0, <1>2, <1>4, <1>5, Zenon DEF SameHolders
    <3> QED
      BY <3>1, SameKeeps, Zenon
  <2> QED
    BY <2>1, <2>2, Zenon
<1>7. CallerKeeps'
  <2>1. CallerKeeps /\ fwd' = fwd /\ app' = app /\ req' = req /\ call' = call /\ waiting' = waiting
    BY <1>0, Zenon DEF IInv
  <2> QED
    BY <1>4, <2>1, KeptStays, Zenon DEF CallerKeeps, SameFwd
<1>8. CalleeKeeps'
  <2>1. CalleeKeeps /\ pc[c] = "send" /\ fwd' = fwd /\ req' = req /\ got' = got /\ out' = out
    BY <1>0, Zenon DEF IInv
  <2>2. HasArgs(c)'
    BY <1>4, <2>1, Zenon DEF CalleeKeeps, HasArgs, Meant
  <2> QED
    BY <1>4, <2>1, <2>2, ArgsStay, Zenon DEF CalleeKeeps, Meant
<1>9. Served'
  BY <1>0, <1>4, Zenon DEF IInv, Served
<1>10. ForwarderRefsExact'
  BY <1>0, Zenon DEF IInv, ForwarderRefsExact
<1> QED
  BY <1>3, <1>6, <1>7, <1>8, <1>9, <1>10, Zenon DEF IInv


(* MinkSocket_sendInvokeError.                                             *)
LEMMA SendErrorKeeps ==
    ASSUME IInv, NEW c \in Calls, SendError(c)
    PROVE  IInv'
<1>0. /\ TypeOK /\ pc[c] = "error" /\ pc' = [pc EXCEPT ![c] = "none"]
      /\ reply' = [reply EXCEPT ![c] = Fails]
      /\ UNCHANGED <<table, fwd, refs, app, call, req, waiting, got, out>>
  BY Zenon DEF IInv, SendError
<1>1. TypeOK'
  BY <1>0, Zenon DEF TypeOK
<1>2. /\ \A d \in Calls : d # c => pc'[d] = pc[d] /\ reply'[d] = reply[d]
      /\ pc'[c] = "none" /\ reply'[c] = Fails /\ Fails # NoReply /\ waiting[c]
      /\ reply[c].kind = "none" /\ Fails.kind = "error" /\ got[c] = NULL /\ out[c] = NULL
  <2>1. waiting[c] /\ reply[c] = NoReply /\ got[c] = NULL /\ out[c] = NULL
    BY <1>0, Zenon DEF IInv, Served, CalleeKeeps, HasArgs
  <2>2. /\ \A d \in Calls : d # c => pc'[d] = pc[d] /\ reply'[d] = reply[d]
        /\ pc'[c] = "none" /\ reply'[c] = Fails
    BY <1>0, Zenon DEF TypeOK
  <2> QED
    BY <2>1, <2>2, SideFacts, Zenon
<1>3. SameHolders
  <2>1. UNCHANGED <<table, fwd, call, req>> /\ pc[c] = "error"
    BY <1>0, Zenon
  <2> QED
    BY <1>2, <2>1 DEF SameHolders, FwdHolds, ReplyHolds, RequestHolds, Callee
<1>4. HeldOnce' /\ HeldIfTaken' /\ HeldIsThere'
  BY <1>3, SameKeeps, Zenon
<1>5. CallerKeeps'
  <2>1. CallerKeeps /\ fwd' = fwd /\ app' = app /\ req' = req /\ call' = call /\ waiting' = waiting
    BY <1>0, Zenon DEF IInv
  <2> QED
    BY <1>2, <2>1, KeptStays, Zenon DEF CallerKeeps, SameFwd
<1>6. CalleeKeeps'
  <2>1. CalleeKeeps /\ pc[c] = "error" /\ fwd' = fwd /\ req' = req /\ got' = got /\ out' = out
    BY <1>0, Zenon DEF IInv
  <2>2. HasArgs(c)'
    BY <1>2, <2>1, Zenon DEF CalleeKeeps, HasArgs, Meant
  <2> QED
    BY <1>2, <2>1, <2>2, ArgsStay, Zenon DEF CalleeKeeps, Meant
<1>7. Served'
  BY <1>0, <1>2, Zenon DEF IInv, Served
<1>8. ForwarderRefsExact'
  BY <1>0, Zenon DEF IInv, ForwarderRefsExact
<1> QED
  BY <1>1, <1>4, <1>5, <1>6, <1>7, <1>8, Zenon DEF IInv

(* MinkSocket_recvInvocationSuccess with an output that needs no forwarder,*)
(* and recvInvocationError.                                                *)
LEMMA RecvReplyKeeps ==
    ASSUME IInv, NEW c \in Calls, RecvReply(c), reply[c].kind # "sender"
    PROVE  IInv'
<1> DEFINE s == call[c].from
           w == reply[c]
<1>0. /\ TypeOK /\ s \in Sides /\ waiting[c] /\ w # NoReply /\ pc[c] \in {"none", "sent"}
      /\ reply' = [reply EXCEPT ![c] = NoReply]
      /\ waiting' = [waiting EXCEPT ![c] = FALSE]
      /\ call' = [call EXCEPT ![c] = NoCall]
      /\ UNCHANGED <<table, req, pc, got, out>>
  BY Zenon DEF IInv, RecvReply, TypeOK, Served
<1>1. UNCHANGED <<fwd, refs, app>>
  <2>1. CASE w = Fails \/ MarshalInFails(s, w)
    BY <2>1, Zenon DEF RecvReply
  <2>2. CASE ~(w = Fails \/ MarshalInFails(s, w))
    <3>1. PICK a \in Args : /\ MarshalIn(s, w, a)
                            /\ app' = IF a \in Fwds THEN [app EXCEPT ![a] = 1] ELSE app
      BY <2>2, Zenon DEF RecvReply
    <3>2. w \in Wire
      BY <1>0, <2>2, Zenon DEF TypeOK
    <3>3. w.kind = "receiver" => table[s][w.handle] \in Objs \cup {NULL}
      BY <1>0, <3>2, SideFacts DEF TypeOK
    <3> QED
      BY <3>1, <3>2, <3>3, SideFacts, Zenon DEF MarshalIn
  <2> QED
    BY <2>1, <2>2, Zenon
<1>2. TypeOK'
  <2>1. NoCall \in [from : Sides, target : Fwds \cup {NULL}, arg : Args]
    BY SideFacts, Zenon DEF NoCall, Args
  <2> QED
    BY <1>0, <1>1, <2>1, Zenon DEF TypeOK
<1>3. /\ \A d \in Calls : d # c => /\ reply'[d] = reply[d] /\ waiting'[d] = waiting[d]
                                   /\ call'[d] = call[d]
      /\ reply'[c] = NoReply /\ NoReply.kind = "none" /\ ~waiting'[c]
  BY <1>0, SideFacts, Zenon DEF TypeOK
<1>4. SameHolders
  BY <1>0, <1>1, <1>3 DEF SameHolders, FwdHolds, ReplyHolds, RequestHolds, Callee
<1>5. HeldOnce' /\ HeldIfTaken' /\ HeldIsThere'
  BY <1>4, SameKeeps, Zenon
<1>6. CallerKeeps'
  <2>1. CallerKeeps /\ fwd' = fwd /\ app' = app /\ req' = req /\ pc' = pc
    BY <1>0, <1>1, Zenon DEF IInv
  <2> QED
    BY <1>3, <2>1, KeptStays, Zenon DEF CallerKeeps, SameFwd
<1>7. CalleeKeeps'
  <2>1. CalleeKeeps /\ fwd' = fwd /\ req' = req /\ pc' = pc /\ got' = got /\ out' = out
    BY <1>0, <1>1, Zenon DEF IInv
  <2> QED
    BY <2>1, ArgsStay, Zenon DEF CalleeKeeps, Meant
<1>8. Served'
  BY <1>0, <1>3 DEF IInv, Served
<1>9. ForwarderRefsExact'
  BY <1>0, <1>1, Zenon DEF IInv, ForwarderRefsExact
<1> QED
  BY <1>2, <1>5, <1>6, <1>7, <1>8, <1>9, Zenon DEF IInv

(* The same with an output of the callee, for which a forwarder is made.   *)
LEMMA RecvReplyForwards ==
    ASSUME IInv, NEW c \in Calls, RecvReply(c), reply[c].kind = "sender"
    PROVE  IInv'
<1>0. /\ TypeOK /\ waiting[c] /\ reply[c] # NoReply /\ pc[c] \in {"none", "sent"}
      /\ reply' = [reply EXCEPT ![c] = NoReply]
      /\ waiting' = [waiting EXCEPT ![c] = FALSE]
      /\ call' = [call EXCEPT ![c] = NoCall]
      /\ UNCHANGED <<table, req, pc, got, out>>
  BY Zenon DEF IInv, RecvReply, TypeOK, Served
<1>1. reply[c] \in Wire /\ reply[c] # Fails /\ ~MarshalInFails(call[c].from, reply[c])
  BY <1>0, SideFacts, Zenon DEF TypeOK, MarshalInFails
<1>2. PICK w \in Wire, s \in Sides, p \in Sides : w = reply[c] /\ s = call[c].from /\ p = Callee(c)
  BY <1>0, <1>1, SideFacts, Zenon DEF TypeOK, Callee
<1>3. /\ Peer(p) = s /\ Peer(s) = p
      /\ w.kind = "sender" /\ w.handle \in Handles /\ w.obj \in Objs \cup {NULL}
  BY <1>2, SideFacts, Zenon DEF Callee
<1>4. PICK a \in Fwds :
        /\ fwd[a].st = "none"
        /\ fwd' = [fwd EXCEPT ![a] = Forwarder("live", s, w.handle, w.obj)]
        /\ refs' = [refs EXCEPT ![a] = 1]
        /\ app' = [app EXCEPT ![a] = 1]
  BY <1>1, <1>2, <1>3, Zenon DEF RecvReply, MarshalIn
<1>5. TypeOK'
  <2>1. NoCall \in [from : Sides, target : Fwds \cup {NULL}, arg : Args]
    BY SideFacts, Zenon DEF NoCall, Args
  <2> QED
    BY <1>0, <1>3, <1>4, <2>1, Zenon DEF TypeOK, Forwarder
<1>6. /\ \A d \in Calls : d # c => /\ reply'[d] = reply[d] /\ waiting'[d] = waiting[d]
                                   /\ call'[d] = call[d]
      /\ reply'[c] = NoReply /\ NoReply.kind = "none" /\ ~waiting'[c]
      /\ \A g \in Fwds : g # a => fwd'[g] = fwd[g] /\ refs'[g] = refs[g] /\ app'[g] = app[g]
      /\ fwd'[a].st = "live" /\ fwd'[a].side = s /\ fwd'[a].handle = w.handle /\ fwd'[a].obj = w.obj
      /\ refs'[a] = 1 /\ app'[a] = 1
  BY <1>0, <1>4, SideFacts, Zenon DEF TypeOK, Forwarder
<1>7. refs[a] = 0 /\ app[a] = 0 /\ \A d \in Calls : got[d] # a /\ out[d] # a
  BY <1>4, NotLive, Zenon
<1>8. HeldOnce' /\ HeldIfTaken' /\ HeldIsThere'
  <2>0. PICK k \in Handles : k = w.handle
    BY <1>3, Zenon
  <2>1. ReplyHolds(c, p, k) /\ FwdHolds(a, p, k)'
    BY <1>2, <1>3, <1>6, <2>0, Zenon DEF ReplyHolds, FwdHolds
  <2>2. table[p][k] = w.obj
    BY <1>2, <2>1, HeldObjects, Zenon
  <2>3. ASSUME NEW t \in Sides, NEW h \in Handles
        PROVE /\ ~FwdHolds(a, t, h) /\ ~RequestHolds(c, t, h)' /\ ~ReplyHolds(c, t, h)'
              /\ t # p \/ h # k => /\ ~FwdHolds(a, t, h)'
                                   /\ ~RequestHolds(c, t, h) /\ ~ReplyHolds(c, t, h)
              /\ \A g \in Fwds : g # a => (FwdHolds(g, t, h)' <=> FwdHolds(g, t, h))
              /\ \A d \in Calls : d # c => /\ RequestHolds(d, t, h)' <=> RequestHolds(d, t, h)
                                           /\ ReplyHolds(d, t, h)' <=> ReplyHolds(d, t, h)
    <3>1. /\ UNCHANGED <<req, pc>> /\ pc[c] # "request" /\ fwd[a].st = "none"
          /\ reply[c].kind = "sender" /\ reply[c].handle = k /\ Callee(c) = p
      BY <1>0, <1>2, <1>3, <1>4, <2>0, Zenon
    <3>2. fwd'[a].side = s /\ fwd'[a].handle = k /\ Peer(p) = s
      BY <1>3, <1>6, <2>0, Zenon
    <3> QED
      BY <1>6, <3>1, <3>2, PeerFacts DEF FwdHolds, RequestHolds, ReplyHolds, Callee
  <2>4. TakesOver(a, c, p, k)
    BY <1>0, <1>6, <2>1, <2>2, <2>3, Zenon DEF TakesOver
  <2> QED
    BY <2>4, TakeOverKeeps, Zenon
<1>9. CallerKeeps'
  <2>2. CallerKeeps /\ req' = req /\ pc' = pc /\ fwd[a].st = "none"
    BY <1>0, <1>4, Zenon DEF IInv
  <2> QED
    BY <1>6, <2>2, KeptStays, Zenon DEF CallerKeeps, SameFwd
<1>10. CalleeKeeps'
  <2>1. \A d \in Calls : Meant(got[d])' = Meant(got[d])
    BY <1>0, <1>6, <1>7, Zenon DEF Meant
  <2> QED
    <3>1. CalleeKeeps /\ req' = req /\ pc' = pc /\ got' = got /\ out' = out
      BY <1>0, Zenon DEF IInv
    <3> QED
      BY <2>1, <3>1, ArgsStay, Zenon DEF CalleeKeeps
<1>11. Served'
  BY <1>0, <1>6 DEF IInv, Served
<1>12. ForwarderRefsExact'
  <2> SUFFICES ASSUME NEW f \in Fwds
               PROVE  /\ refs'[f] = app'[f] + Having(got, f) + Having(out, f)
                      /\ fwd'[f].st = "live" <=> refs'[f] > 0
    BY <1>0, Zenon DEF ForwarderRefsExact, Having
  <2>1. CASE f = a
    <3>1. refs[f] = 0 /\ app[f] = 0 /\ refs'[f] = 1 /\ app'[f] = 1 /\ fwd'[f].st = "live"
      BY <2>1, <1>6, <1>7, Zenon
    <3>2. Having(got, f) = 0 /\ Having(out, f) = 0
      BY <3>1, RefsCounted
    <3> QED
      BY <3>1, <3>2
  <2>2. CASE f # a
    BY <2>2, <1>6, RefsCounted, Zenon
  <2> QED
    BY <2>1, <2>2, Zenon
<1> QED
  BY <1>5, <1>8, <1>9, <1>10, <1>11, <1>12, Zenon DEF IInv

(* MinkSocket_recvClose: the slot was that of the forwarder and of nothing *)
(* else.                                                                   *)
LEMMA RecvCloseKeeps ==
    ASSUME IInv, NEW f \in Fwds, RecvClose(f)
    PROVE  IInv'
<1>0. /\ TypeOK /\ fwd[f].st = "closing"
      /\ table' = [table EXCEPT ![Peer(fwd[f].side)][fwd[f].handle] = NULL]
      /\ fwd' = [fwd EXCEPT ![f] = NoForwarder]
      /\ UNCHANGED <<refs, app, call, req, waiting, pc, got, out, reply>>
  BY Zenon DEF IInv, RecvClose
<1>1. PICK p \in Sides, k \in Handles : p = Peer(fwd[f].side) /\ k = fwd[f].handle
  BY <1>0, SideFacts, Zenon DEF TypeOK
<1>2. fwd[f].side \in Sides /\ Peer(p) = fwd[f].side
  BY <1>0, <1>1, SideFacts, Zenon DEF TypeOK
<1>3. TypeOK'
  <2>1. NoForwarder \in [st : {"none", "live", "closing"}, side : Sides, handle : Handles, obj : Objs \cup {NULL}]
    BY SideFacts, Zenon DEF NoForwarder, Forwarder
  <2> QED
    BY <1>0, <1>1, <2>1, Zenon DEF TypeOK
<1>4. /\ table'[p][k] = NULL
      /\ \A s \in Sides, h \in Handles : s # p \/ h # k => table'[s][h] = table[s][h]
      /\ \A g \in Fwds : g # f => fwd'[g] = fwd[g]
      /\ fwd'[f].st = "none"
  BY <1>0, <1>1, Zenon DEF TypeOK, NoForwarder, Forwarder
<1>5. refs[f] = 0 /\ app[f] = 0 /\ \A d \in Calls : got[d] # f /\ out[d] # f
  BY <1>0, NotLive, Zenon
<1>6. FwdHolds(f, p, k)
  BY <1>0, <1>1, <1>2, Zenon DEF FwdHolds
<1>7. ASSUME NEW s \in Sides, NEW h \in Handles
      PROVE  /\ ~FwdHolds(f, s, h)' /\ (s # p \/ h # k => ~FwdHolds(f, s, h))
             /\ \A g \in Fwds : g # f => (FwdHolds(g, s, h)' <=> FwdHolds(g, s, h))
             /\ \A d \in Calls : /\ RequestHolds(d, s, h)' <=> RequestHolds(d, s, h)
                                 /\ ReplyHolds(d, s, h)' <=> ReplyHolds(d, s, h)
  <2>1. UNCHANGED <<call, req, pc, reply>>
    BY <1>0, Zenon
  <2> QED
    BY <2>1, <1>1, <1>2, <1>4, PeerFacts, Zenon DEF FwdHolds, RequestHolds, ReplyHolds, Callee
<1>8. /\ \A g \in Fwds : ~FwdHolds(g, p, k)'
      /\ \A d \in Calls : ~RequestHolds(d, p, k)' /\ ~ReplyHolds(d, p, k)'
  BY <1>6, <1>7, Zenon DEF IInv, HeldOnce
<1>9. HeldOnce'
  <2> SUFFICES ASSUME NEW s \in Sides, NEW h \in Handles
               PROVE  /\ \A e, g \in Fwds : FwdHolds(e, s, h)' /\ FwdHolds(g, s, h)' => e = g
                      /\ \A b, d \in Calls : RequestHolds(b, s, h)' /\ RequestHolds(d, s, h)' => b = d
                      /\ \A b, d \in Calls : ReplyHolds(b, s, h)' /\ ReplyHolds(d, s, h)' => b = d
                      /\ \A e \in Fwds, d \in Calls :
                            FwdHolds(e, s, h)' => ~RequestHolds(d, s, h)' /\ ~ReplyHolds(d, s, h)'
                      /\ \A b, d \in Calls : RequestHolds(b, s, h)' => ~ReplyHolds(d, s, h)'
    BY Zenon DEF HeldOnce
  <2> QED
    BY <1>7 DEF IInv, HeldOnce
<1>10. HeldIfTaken'
  BY <1>4, <1>7, Zenon DEF IInv, HeldIfTaken
<1>11. HeldIsThere'
  <2> SUFFICES ASSUME NEW s \in Sides, NEW h \in Handles
               PROVE  /\ table'[s][h] \in Local(s) \cup {NULL}
                      /\ \A g \in Fwds : FwdHolds(g, s, h)' => table'[s][h] = fwd'[g].obj /\ fwd'[g].obj # NULL
                      /\ \A d \in Calls :
                           /\ RequestHolds(d, s, h)' => table'[s][h] = req'[d].arg.obj /\ req'[d].arg.obj # NULL
                           /\ ReplyHolds(d, s, h)' => table'[s][h] = reply'[d].obj /\ reply'[d].obj # NULL
    BY Zenon DEF HeldIsThere
  <2>1. CASE s = p /\ h = k
    BY <2>1, <1>4, <1>8, Zenon
  <2>2. CASE s # p \/ h # k
    <3>1. /\ table[s][h] \in Local(s) \cup {NULL}
          /\ \A g \in Fwds : FwdHolds(g, s, h) => table[s][h] = fwd[g].obj /\ fwd[g].obj # NULL
          /\ \A d \in Calls :
               /\ RequestHolds(d, s, h) => table[s][h] = req[d].arg.obj /\ req[d].arg.obj # NULL
               /\ ReplyHolds(d, s, h) => table[s][h] = reply[d].obj /\ reply[d].obj # NULL
      BY Zenon DEF IInv, HeldIsThere
    <3>2. req' = req /\ reply' = reply /\ table'[s][h] = table[s][h]
      BY <2>2, <1>0, <1>4, Zenon
    <3> QED
      BY <3>1, <3>2, <1>4, <1>7, Zenon
  <2> QED
    BY <2>1, <2>2, Zenon
<1>12. CallerKeeps'
  <2>1. /\ CallerKeeps /\ fwd[f].st = "closing"
        /\ app' = app /\ call' = call /\ req' = req /\ waiting' = waiting /\ pc' = pc
    BY <1>0, Zenon DEF IInv
  <2> QED
    BY <1>4, <2>1, KeptStays, Zenon DEF CallerKeeps, SameFwd
<1>13. CalleeKeeps'
  <2>0. CalleeKeeps /\ req' = req /\ pc' = pc /\ got' = got /\ out' = out
    BY <1>0, Zenon DEF IInv
  <2>1. \A d \in Calls : Meant(got[d])' = Meant(got[d])
    BY <2>0, <1>4, <1>5, Zenon DEF Meant
  <2> QED
    BY <2>0, <2>1, ArgsStay, Zenon DEF CalleeKeeps
<1>14. Served'
  BY <1>0, Zenon DEF IInv, Served
<1>15. ForwarderRefsExact'
  <2>1. \A g \in Fwds : fwd'[g].st = "live" <=> refs[g] > 0
    BY <1>0, <1>4, <1>5, RefsCounted, Zenon
  <2> QED
    BY <1>0, <2>1, Zenon DEF IInv, ForwarderRefsExact
<1> QED
  BY <1>3, <1>9, <1>10, <1>11, <1>12, <1>13, <1>14, <1>15, Zenon DEF IInv

(* A user retains a forwarder it holds.                                    *)
LEMMA AppRetainKeeps ==
    ASSUME IInv, NEW f \in Fwds, AppRetain(f)
    PROVE  IInv'
<1>0. /\ TypeOK /\ app[f] > 0
      /\ app' = [app EXCEPT ![f] = @ + 1] /\ refs' = [refs EXCEPT ![f] = @ + 1]
      /\ UNCHANGED <<table, fwd, call, req, waiting, pc, got, out, reply>>
  BY ExchangeAssumption DEF IInv, AppRetain, TypeOK
<1>1. /\ TypeOK' /\ app'[f] = app[f] + 1 /\ refs'[f] = refs[f] + 1
      /\ \A g \in Fwds : g # f => app'[g] = app[g] /\ refs'[g] = refs[g]
  BY <1>0 DEF TypeOK
<1>2. SameHolders
  BY <1>0 DEF SameHolders, FwdHolds, ReplyHolds, RequestHolds, Callee
<1>3. HeldOnce' /\ HeldIfTaken' /\ HeldIsThere'
  BY <1>2, SameKeeps
<1>4. CallerKeeps'
  <2>1. \A g \in Fwds : app[g] > 0 => app'[g] > 0
    BY <1>0, <1>1 DEF TypeOK
  <2> QED
    BY <1>0, <2>1, Zenon DEF IInv, CallerKeeps, Kept, Live
<1>5. CalleeKeeps' /\ Served'
  BY <1>0, Zenon DEF IInv, CalleeKeeps, HasArgs, Served, Meant
<1>6. ForwarderRefsExact'
  <2> SUFFICES ASSUME NEW g \in Fwds
               PROVE  /\ refs'[g] = app'[g] + Having(got, g) + Having(out, g)
                      /\ fwd[g].st = "live" <=> refs'[g] > 0
    BY <1>0, Zenon DEF ForwarderRefsExact, Having
  <2>1. CASE g = f
    BY <2>1, <1>0, <1>1, RefsCounted
  <2>2. CASE g # f
    BY <2>2, <1>1, RefsCounted, Zenon
  <2> QED
    BY <2>1, <2>2, Zenon
<1> QED
  BY <1>1, <1>3, <1>4, <1>5, <1>6, Zenon DEF IInv

(* A user releases a forwarder that its calls do not need.                 *)
LEMMA AppReleaseKeeps ==
    ASSUME IInv, NEW f \in Fwds, AppRelease(f)
    PROVE  IInv'
<1>0. /\ TypeOK /\ (app[f] > 1 \/ (app[f] = 1 /\ ~Borrowed(f)))
      /\ app' = [app EXCEPT ![f] = @ - 1] /\ Release(f)
      /\ UNCHANGED <<table, call, req, waiting, pc, got, out, reply>>
  BY Zenon DEF IInv, AppRelease
<1>1. app[f] \in Nat /\ refs[f] \in Nat /\ refs[f] >= app[f] /\ app[f] > 0 /\ refs[f] > 0
  BY <1>0, NotLive DEF TypeOK
<1>2. /\ app' \in [Fwds -> Nat] /\ app'[f] = app[f] - 1
      /\ \A g \in Fwds : g # f => app'[g] = app[g]
  BY <1>0, <1>1 DEF TypeOK
<1>3. TypeOK'
  BY <1>0, <1>1, <1>2, ReleaseFacts, Zenon DEF TypeOK
<1>4. HeldOnce' /\ HeldIfTaken' /\ HeldIsThere' /\ CallerKeeps'
  <2>1. \A g \in Fwds : app'[g] = app[g] \/ (g = f /\ app'[g] = app[g] - 1 /\ app'[g] > 0)
                        \/ (app'[g] = 0 /\ ~Borrowed(g))
    BY <1>0, <1>1, <1>2
  <2>2. refs[f] > app'[f]
    BY <1>1, <1>2
  <2> QED
    BY <1>0, <1>1, <2>1, <2>2, ReleaseKeeps, Zenon
<1>5. CalleeKeeps' /\ Served'
  <2>1. \A d \in Calls : Meant(got[d])' = Meant(got[d])
    BY <1>0, <1>1, ReleaseFacts, Zenon DEF Meant, TypeOK
  <2> QED
    BY <1>0, <2>1, Zenon DEF IInv, CalleeKeeps, HasArgs, Served
<1>6. ForwarderRefsExact'
  <2>0. got' = got /\ out' = out /\ \A g \in Fwds : fwd'[g].st = "live" <=> refs'[g] > 0
    BY <1>0, <1>1, ReleaseFacts, Zenon
  <2> SUFFICES ASSUME NEW g \in Fwds
               PROVE  refs'[g] = app'[g] + Having(got, g) + Having(out, g)
    BY <2>0, Zenon DEF ForwarderRefsExact, Having
  <2>1. refs'[g] = IF g = f THEN refs[g] - 1 ELSE refs[g]
    BY <1>0, <1>1, ReleaseFacts
  <2>2. CASE g = f
    BY <2>1, <2>2, <1>2, RefsCounted
  <2>3. CASE g # f
    BY <2>1, <2>3, <1>2, RefsCounted, Zenon
  <2> QED
    BY <2>2, <2>3, Zenon
<1> QED
  BY <1>3, <1>4, <1>5, <1>6, Zenon DEF IInv

(* The established connection: the opener's slot is held by the client's   *)
(* forwarder.                                                              *)
LEMMA InitHolds == Init => IInv
<1> SUFFICES ASSUME Init PROVE IInv
  BY Zenon
<1>1. PICK f \in Fwds :
        /\ fwd = [g \in Fwds |-> IF g = f THEN Forwarder("live", Client, FirstHandle, Opener)
                                          ELSE NoForwarder]
        /\ refs = [g \in Fwds |-> IF g = f THEN 1 ELSE 0]
        /\ app = refs
  BY Zenon DEF Init
<1>2. /\ table = [s \in Sides |-> [h \in Handles |->
                    IF s = Server /\ h = FirstHandle THEN Opener ELSE NULL]]
      /\ call = [c \in Calls |-> NoCall] /\ req = [c \in Calls |-> NoRequest]
      /\ waiting = [c \in Calls |-> FALSE] /\ pc = [c \in Calls |-> "none"]
      /\ got = [c \in Calls |-> NULL] /\ out = [c \in Calls |-> NULL]
      /\ reply = [c \in Calls |-> NoReply]
  BY Zenon DEF Init
<1>3. /\ Opener \in ServerObjs /\ Opener \in Objs /\ Opener # NULL /\ NULL \notin Fwds
      /\ Server \in Sides /\ Client \in Sides /\ Server # Client /\ FirstHandle \in Handles
      /\ Peer(Server) = Client /\ Local(Server) = ServerObjs
  BY ExchangeAssumption, Zenon DEF Objs, Sides, Peer, Local
<1>4. TypeOK
  <2>1. NoRequest \in [handle : Handles, obj : Objs \cup {NULL}, arg : Wire]
    BY SideFacts, Zenon DEF NoRequest
  <2>2. NoCall \in [from : Sides, target : Fwds \cup {NULL}, arg : Args]
    BY SideFacts, Zenon DEF NoCall, Args
  <2>3. /\ NoForwarder \in [st : {"none", "live", "closing"}, side : Sides, handle : Handles, obj : Objs \cup {NULL}]
        /\ Forwarder("live", Client, FirstHandle, Opener) \in
             [st : {"none", "live", "closing"}, side : Sides, handle : Handles, obj : Objs \cup {NULL}]
    BY <1>3, Zenon DEF NoForwarder, Forwarder
  <2> QED
    BY <1>1, <1>2, <1>3, <2>1, <2>2, <2>3, Zenon DEF TypeOK, Args
<1>5. /\ \A g \in Fwds : g # f => fwd[g].st = "none" /\ refs[g] = 0
      /\ fwd[f].st = "live" /\ fwd[f].side = Client /\ fwd[f].handle = FirstHandle
      /\ fwd[f].obj = Opener /\ refs[f] = 1
  BY <1>1, Zenon DEF Forwarder, NoForwarder
<1>6. \A c \in Calls : ~waiting[c] /\ pc[c] = "none" /\ got[c] = NULL /\ out[c] = NULL
                       /\ reply[c] = NoReply /\ NoReply.kind = "none"
  BY <1>2, SideFacts, Zenon
<1>7. ASSUME NEW s \in Sides, NEW h \in Handles
      PROVE  /\ \A g \in Fwds : FwdHolds(g, s, h) <=> g = f /\ s = Server /\ h = FirstHandle
             /\ \A c \in Calls : ~RequestHolds(c, s, h) /\ ~ReplyHolds(c, s, h)
             /\ table[s][h] = IF s = Server /\ h = FirstHandle THEN Opener ELSE NULL
  BY <1>2, <1>3, <1>5, <1>6, Zenon DEF FwdHolds, RequestHolds, ReplyHolds, Sides, Peer
<1>8. HeldOnce /\ HeldIfTaken
  BY <1>7 DEF HeldOnce, HeldIfTaken
<1>9. HeldIsThere
  BY <1>3, <1>5, <1>7 DEF HeldIsThere
<1>10. CallerKeeps /\ CalleeKeeps /\ Served
  BY <1>6, Zenon DEF CallerKeeps, CalleeKeeps, HasArgs, Served
<1>11. ForwarderRefsExact
  <2> SUFFICES ASSUME NEW g \in Fwds
               PROVE  /\ {c \in Calls : got[c] = g} = {} /\ {c \in Calls : out[c] = g} = {}
                      /\ refs[g] = app[g] + 0 + 0 /\ (fwd[g].st = "live" <=> refs[g] > 0)
    BY FS_EmptySet, Zenon DEF ForwarderRefsExact
  <2>1. {c \in Calls : got[c] = g} = {} /\ {c \in Calls : out[c] = g} = {}
    BY <1>3, <1>6, Zenon
  <2>2. refs[g] = app[g] + 0 + 0 /\ (fwd[g].st = "live" <=> refs[g] > 0)
    BY <1>1, <1>5
  <2> QED
    BY <2>1, <2>2, Zenon
<1> QED
  BY <1>4, <1>8, <1>9, <1>10, <1>11, Zenon DEF IInv

(* Every step keeps the invariant.                                         *)
LEMMA StepKeeps == IInv /\ [Next]_vars => IInv'
<1> SUFFICES ASSUME IInv, [Next]_vars PROVE IInv'
  BY Zenon
<1>1. ASSUME NEW c \in Calls, NEW f \in Fwds, NEW a \in Args, Invoke(c, f, a) PROVE IInv'
  BY <1>1, InvokeKeeps, Zenon
<1>2. ASSUME NEW c \in Calls, Serve(c) PROVE IInv'
  <2>1. CASE RecvRequest(c)
    BY <2>1, RecvRequestKeeps, RecvRequestForwards, Zenon
  <2>2. CASE \E o \in Args, keep \in BOOLEAN : Dispatch(c, o, keep)
    BY <2>2, DispatchKeeps, Zenon
  <2>3. CASE DispatchFails(c)
    BY <2>3, DispatchFailsKeeps, Zenon
  <2>4. CASE ReleaseInput(c)
    BY <2>4, ReleaseInputKeeps
  <2>5. CASE SendSuccess(c)
    BY <2>5, SendSuccessKeeps
  <2>6. CASE ReleaseOutput(c)
    BY <2>6, ReleaseOutputKeeps
  <2>7. CASE SendError(c)
    BY <2>7, SendErrorKeeps
  <2>8. CASE RecvReply(c)
    BY <2>8, RecvReplyKeeps, RecvReplyForwards, Zenon
  <2> QED
    BY <1>2, <2>1, <2>2, <2>3, <2>4, <2>5, <2>6, <2>7, <2>8, Zenon DEF Serve
<1>3. ASSUME NEW f \in Fwds, RecvClose(f) \/ AppRetain(f) \/ AppRelease(f) PROVE IInv'
  BY <1>3, RecvCloseKeeps, AppRetainKeeps, AppReleaseKeeps, Zenon
<1>4. CASE UNCHANGED vars
  <2>1. SameHolders
    BY <1>4 DEF vars, SameHolders, FwdHolds, RequestHolds, ReplyHolds, Callee
  <2>2. HeldOnce' /\ HeldIfTaken' /\ HeldIsThere'
    BY <2>1, SameKeeps, Zenon
  <2>3. TypeOK' /\ Served'
    BY <1>4, Zenon DEF vars, IInv, TypeOK, Served
  <2>4. CallerKeeps'
    <3>1. CallerKeeps /\ UNCHANGED <<fwd, app, call, req, waiting, pc>>
      BY <1>4, Zenon DEF vars, IInv
    <3> QED
      BY <3>1, KeptStays, Zenon DEF CallerKeeps, SameFwd
  <2>5. CalleeKeeps'
    <3>1. CalleeKeeps /\ UNCHANGED <<fwd, req, pc, got, out>>
      BY <1>4, Zenon DEF vars, IInv
    <3> QED
      BY <3>1, ArgsStay, Zenon DEF CalleeKeeps, Meant
  <2>6. ForwarderRefsExact'
    BY <1>4, Zenon DEF vars, IInv, ForwarderRefsExact
  <2> QED
    BY <2>2, <2>3, <2>4, <2>5, <2>6, Zenon DEF IInv
<1> QED
  BY <1>1, <1>2, <1>3, <1>4, Zenon DEF Next

(* The holders of a slot are the forwarder or the message that has it.     *)
LEMMA SlotCounted ==
    ASSUME IInv, NEW s \in Sides, NEW h \in Handles
    PROVE  Cardinality(Holders(s, h)) = IF table[s][h] = NULL THEN 0 ELSE 1
<1>1. CASE table[s][h] = NULL
  <2>1. Holders(s, h) = {}
    BY <1>1, Zenon DEF IInv, HeldIsThere, Holders
  <2> QED
    BY <1>1, <2>1, FS_EmptySet, Zenon
<1>2. CASE table[s][h] # NULL
  <2>1. CASE \E f \in Fwds : FwdHolds(f, s, h)
    <3>1. PICK f \in Fwds : FwdHolds(f, s, h)
      BY <2>1, Zenon
    <3>2. /\ {g \in Fwds : FwdHolds(g, s, h)} = {f}
          /\ {c \in Calls : RequestHolds(c, s, h)} = {} /\ {c \in Calls : ReplyHolds(c, s, h)} = {}
      BY <3>1, Zenon DEF IInv, HeldOnce
    <3>3. Holders(s, h) = {<<"fwd", f>>}
      BY <3>2, Zenon DEF Holders
    <3> QED
      BY <1>2, <3>3, FS_Singleton, Zenon
  <2>2. CASE \E c \in Calls : RequestHolds(c, s, h)
    <3>1. PICK c \in Calls : RequestHolds(c, s, h)
      BY <2>2
    <3>2. /\ {g \in Fwds : FwdHolds(g, s, h)} = {}
          /\ {d \in Calls : RequestHolds(d, s, h)} = {c} /\ {d \in Calls : ReplyHolds(d, s, h)} = {}
      BY <3>1, Zenon DEF IInv, HeldOnce
    <3>3. Holders(s, h) = {<<"request", c>>}
      BY <3>2, Zenon DEF Holders
    <3> QED
      BY <1>2, <3>3, FS_Singleton, Zenon
  <2>3. CASE \E c \in Calls : ReplyHolds(c, s, h)
    <3>1. PICK c \in Calls : ReplyHolds(c, s, h)
      BY <2>3
    <3>2. /\ {g \in Fwds : FwdHolds(g, s, h)} = {}
          /\ {d \in Calls : RequestHolds(d, s, h)} = {} /\ {d \in Calls : ReplyHolds(d, s, h)} = {c}
      BY <3>1, Zenon DEF IInv, HeldOnce
    <3>3. Holders(s, h) = {<<"reply", c>>}
      BY <3>2, Zenon DEF Holders
    <3> QED
      BY <1>2, <3>3, FS_Singleton, Zenon
  <2> QED
    BY <1>2, <2>1, <2>2, <2>3, Zenon DEF IInv, HeldIfTaken
<1> QED
  BY <1>1, <1>2, Zenon

(* Whatever objects are passed, returned, kept, released and closed in     *)
(* both directions at once, handles mean what they were made for: every    *)
(* slot has exactly its one holder, forwarders and messages stand for the  *)
(* object in it, calls reach their target with their input, and counts are *)
(* exact (Marshalling.c, msforwarder.c, ObjectTable.c).                    *)
THEOREM HandlesAlwaysMeant == Spec => []HandlesMeant
<1>1. IInv => HandlesMeant
  <2> SUFFICES ASSUME IInv PROVE HandlesMeant
    BY Zenon
  <2>1. SlotsHeldOnce
    BY SlotCounted, Zenon DEF SlotsHeldOnce
  <2>2. HandlesMeanTheirObject
    BY Zenon DEF IInv, HeldIsThere, HandlesMeanTheirObject
  <2>3. CallsReachTheirTarget
    BY Reaches, Zenon DEF CallsReachTheirTarget, IInv, CalleeKeeps, HasArgs
  <2> QED
    BY <2>1, <2>2, <2>3, Zenon DEF HandlesMeant, IInv
<1> QED
  BY <1>1, InitHolds, StepKeeps, PTL DEF Spec

(* A caller waits exactly while its request, its handler or the answer is  *)
(* under way (MinkSocket_invoke, MinkSocket_recvInvocationRequest).        *)
THEOREM WaitingAlwaysServed == Spec => []WaitingIsServed
<1>1. IInv => WaitingIsServed
  BY Zenon DEF IInv, Served, WaitingIsServed
<1> QED
  BY <1>1, InitHolds, StepKeeps, PTL DEF Spec

-----------------------------------------------------------------------------
(* The refinement of ObjectCalls.  In a state that satisfies IInv a call   *)
(* means what its messages say it does, whatever is in the slots.          *)
Meaning(c) ==
    IF ~waiting[c] THEN [st |-> "idle", from |-> Server, obj |-> NULL, arg |-> NULL]
    ELSE IF pc[c] = "request"
         THEN [st |-> "sent", from |-> call[c].from, obj |-> req[c].obj, arg |-> req[c].arg.obj]
    ELSE IF pc[c] = "in"
         THEN [st |-> "running", from |-> call[c].from, obj |-> req[c].obj, arg |-> req[c].arg.obj]
    ELSE IF reply[c] = NoReply
         THEN [st |-> "done", from |-> call[c].from, obj |-> NULL, arg |-> NULL]
    ELSE [st |-> "replied", from |-> call[c].from, obj |-> NULL,
          arg |-> IF reply[c].kind = "sender" THEN reply[c].obj ELSE NULL]

(* The refinement mapping, which looks the objects up in the tables,       *)
(* agrees with what the messages say.                                      *)
LEMMA InvocationMeans == IInv => \A c \in Calls : Invs[c] = Meaning(c)
<1> SUFFICES ASSUME IInv, NEW c \in Calls PROVE Invocation(c) = Meaning(c)
  BY Zenon DEF Invs
<1>0. /\ call[c].from \in Sides /\ Callee(c) \in Sides /\ req[c].arg \in Wire /\ req[c].arg.handle \in Handles
      /\ Peer(call[c].from) = Callee(c)
  BY SideFacts, Zenon DEF IInv, TypeOK, Callee
<1>1. CASE ~waiting[c]
  <2>1. pc[c] # "request" /\ pc[c] # "in" /\ reply[c] = NoReply
    BY <1>1, Zenon DEF IInv, Served
  <2> QED
    BY <1>1, <2>1, Zenon DEF Invocation, Meaning
<1>2. CASE waiting[c] /\ pc[c] = "request"
  <2>1. reply[c] = NoReply /\ table[Callee(c)][req[c].handle] = req[c].obj
    BY <1>2, Reaches, Zenon DEF IInv, Served
  <2>2. WireObj(call[c].from, req[c].arg) = req[c].arg.obj
    <3>1. CASE req[c].arg.kind = "sender"
      <4>1. RequestHolds(c, call[c].from, req[c].arg.handle)
        BY <1>2, <3>1, Zenon DEF RequestHolds
      <4>2. table[call[c].from][req[c].arg.handle] = req[c].arg.obj
        BY <1>0, <4>1, HeldObjects
      <4> QED
        BY <3>1, <4>2, Zenon DEF WireObj
    <3>2. CASE req[c].arg.kind = "receiver"
      BY <1>0, <1>2, <3>2, Reaches, Zenon DEF WireObj
    <3>3. CASE req[c].arg.kind = "null"
      BY <1>2, <3>3, Zenon DEF WireObj, IInv, CalleeKeeps, HasArgs
    <3> QED
      BY <1>0, <3>1, <3>2, <3>3, SideFacts, Zenon DEF Kinds
  <2> QED
    BY <1>2, <2>1, <2>2, Zenon DEF Invocation, Meaning
<1>3. CASE waiting[c] /\ pc[c] = "in"
  <2>1. reply[c] = NoReply /\ table[Callee(c)][req[c].handle] = req[c].obj /\ Meant(got[c]) = req[c].arg.obj
    BY <1>3, Reaches, Zenon DEF IInv, Served, CalleeKeeps, HasArgs
  <2> QED
    BY <1>3, <2>1, Zenon DEF Invocation, Meaning
<1>4. CASE waiting[c] /\ pc[c] \notin {"request", "in"} /\ reply[c] = NoReply
  BY <1>4, Zenon DEF Invocation, Meaning
<1>5. CASE waiting[c] /\ pc[c] \notin {"request", "in"} /\ reply[c] # NoReply
  <2>1. reply[c].kind = "sender" => WireObj(Callee(c), reply[c]) = reply[c].obj
    <3> SUFFICES ASSUME reply[c].kind = "sender" PROVE WireObj(Callee(c), reply[c]) = reply[c].obj
      BY Zenon
    <3>1. ReplyHolds(c, Callee(c), reply[c].handle) /\ reply[c].handle \in Handles
      BY SideFacts, Zenon DEF ReplyHolds, IInv, TypeOK
    <3> QED
      BY <1>0, <3>1, Zenon DEF WireObj, IInv, HeldIsThere
  <2> QED
    BY <1>5, <2>1, Zenon DEF Invocation, Meaning
<1> QED
  BY <1>1, <1>2, <1>3, <1>4, <1>5, Zenon

(* The same after a step.                                                  *)
LEMMA MeansNext == IInv' => \A c \in Calls : Invs'[c] = Meaning(c)'
<1>1. (IInv => \A c \in Calls : Invs[c] = Meaning(c))'
  BY InvocationMeans, PTL
<1> QED
  BY <1>1, Zenon

(* What the invocations of ObjectCalls do when the calls other than c keep *)
(* their meaning.                                                          *)
LEMMA OnlyOne ==
    ASSUME IInv, IInv', NEW c \in Calls,
           \A d \in Calls : d # c => Meaning(d)' = Meaning(d)
    PROVE  /\ Invs' = [Invs EXCEPT ![c] = Meaning(c)'] /\ Invs[c] = Meaning(c)
           /\ Meaning(c)' = Meaning(c) => Invs' = Invs
<1>1. \A d \in Calls : Invs[d] = Meaning(d) /\ Invs'[d] = Meaning(d)'
  BY InvocationMeans, MeansNext, Zenon
<1>2. Invs = [d \in Calls |-> Invs[d]] /\ Invs' = [d \in Calls |-> Invs'[d]]
  BY Zenon DEF Invs
<1> QED
  BY <1>1, <1>2

(* A domain holds the objects for which it has a live forwarder.           *)
LEMMA CapsIs ==
    /\ Caps = [s \in Sides |-> Caps[s]]
    /\ \A s \in Sides : \A o : o \in Caps[s] <=> \E f \in Fwds : Live(f, s) /\ fwd[f].obj = o
  BY Zenon DEF Caps

(* The same after a step.                                                  *)
LEMMA CapsNext ==
    /\ Caps' = [s \in Sides |-> Caps'[s]]
    /\ \A s \in Sides : \A o : o \in Caps'[s] <=> \E f \in Fwds : Live(f, s)' /\ fwd'[f].obj = o
  BY Zenon DEF Caps

(* A release takes an object from a domain, or leaves it another forwarder *)
(* for it.                                                                 *)
LEMMA ReleaseDrops ==
    ASSUME IInv, NEW a, Release(a), a \in Fwds => refs[a] > 0
    PROVE  Caps' = Caps \/ \E s \in Sides : \E o \in Caps[s] : Caps' = [Caps EXCEPT ![s] = @ \ {o}]
<1>1. \A f \in Fwds : /\ fwd'[f].side = fwd[f].side /\ fwd'[f].obj = fwd[f].obj
                      /\ fwd'[f].st # fwd[f].st => f = a /\ fwd'[f].st = "closing"
  BY ReleaseFacts, Zenon
<1>2. CASE \A f \in Fwds : fwd'[f].st = fwd[f].st
  <2>1. \A s \in Sides : Caps'[s] = Caps[s]
    BY <1>1, <1>2, CapsIs, CapsNext DEF Live
  <2> QED
    BY <2>1, CapsIs, CapsNext, Zenon
<1>3. CASE \E f \in Fwds : fwd'[f].st # fwd[f].st
  <2>1. a \in Fwds /\ fwd'[a].st = "closing" /\ \A f \in Fwds : f # a => fwd'[f].st = fwd[f].st
    BY <1>1, <1>3, Zenon
  <2>2. fwd[a].st = "live" /\ fwd[a].side \in Sides
    BY <2>1, RefsCounted, Zenon DEF IInv, TypeOK
  <2>3. PICK t \in Sides : t = fwd[a].side
    BY <2>2, Zenon
  <2>4. PICK x : x = fwd[a].obj
    BY Zenon
  <2>5. x \in Caps[t]
    BY <2>1, <2>2, <2>3, <2>4, CapsIs, Zenon DEF Live
  <2>6. /\ \A s \in Sides : \A o : o \in Caps'[s] => o \in Caps[s]
        /\ \A s \in Sides : \A o : o \in Caps[s] /\ (s # t \/ o # x) => o \in Caps'[s]
    <3>1. ASSUME NEW s \in Sides, NEW o, o \in Caps'[s] PROVE o \in Caps[s]
      BY <3>1, <1>1, <2>1, <2>2, CapsIs, CapsNext DEF Live
    <3>2. ASSUME NEW s \in Sides, NEW o, o \in Caps[s], s # t \/ o # x PROVE o \in Caps'[s]
      BY <3>2, <1>1, <2>1, <2>2, <2>3, <2>4, CapsIs, CapsNext DEF Live
    <3> QED
      BY <3>1, <3>2, Zenon
  <2>7. CASE x \in Caps'[t]
    <3>1. \A s \in Sides : Caps'[s] = Caps[s]
      BY <2>6, <2>7, Zenon
    <3> QED
      BY <3>1, CapsIs, CapsNext, Zenon
  <2>8. CASE x \notin Caps'[t]
    <3>1. Caps'[t] = Caps[t] \ {x} /\ \A s \in Sides : s # t => Caps'[s] = Caps[s]
      BY <2>6, <2>8, Zenon
    <3>2. Caps' = [Caps EXCEPT ![t] = @ \ {x}]
      BY <3>1, CapsIs, CapsNext, Zenon
    <3> QED
      BY <2>5, <3>2, Zenon
  <2> QED
    BY <2>7, <2>8, Zenon
<1> QED
  BY <1>2, <1>3, Zenon

(* The names that ObjectCalls has for the same things.                     *)
LEMMA SameNames ==
    /\ OC!Sides = Sides
    /\ \A s \in Sides : OC!Own(s) = Local(s) /\ OC!Other(s) = Peer(s)
  BY Zenon DEF OC!Sides, Sides, OC!Own, Local, OC!Other, Peer

(* A forwarder made for an object gives it to the forwarder's domain.      *)
Forwards(a, t, h, x) ==
    fwd[a].st = "none" /\ fwd' = [fwd EXCEPT ![a] = Forwarder("live", t, h, x)]

(* The domain of a new forwarder gains its object and no other domain      *)
(* changes.                                                                *)
LEMMA ForwarderGains ==
    ASSUME TypeOK, NEW a \in Fwds, NEW t \in Sides, NEW h, NEW x, Forwards(a, t, h, x)
    PROVE  Caps' = [Caps EXCEPT ![t] = @ \cup {x}]
<1>0. fwd[a].st = "none"
  BY Zenon DEF Forwards
<1>1. /\ \A g \in Fwds : g # a => fwd'[g] = fwd[g]
      /\ fwd'[a].st = "live" /\ fwd'[a].side = t /\ fwd'[a].obj = x
  BY Zenon DEF TypeOK, Forwards, Forwarder
<1>2. ASSUME NEW s \in Sides, NEW o
      PROVE  o \in Caps'[s] <=> o \in Caps[s] \/ (s = t /\ o = x)
  <2>1. o \in Caps'[s] => o \in Caps[s] \/ (s = t /\ o = x)
    BY <1>1, CapsIs, CapsNext DEF Live
  <2>2. o \in Caps[s] => o \in Caps'[s]
    BY <1>0, <1>1, CapsIs, CapsNext DEF Live
  <2>3. s = t /\ o = x => o \in Caps'[s]
    BY <1>1, CapsNext, Zenon DEF Live
  <2> QED
    BY <2>1, <2>2, <2>3, Zenon
<1>3. \A s \in Sides : Caps'[s] = IF s = t THEN Caps[s] \cup {x} ELSE Caps[s]
  BY <1>2, Zenon
<1> QED
  BY <1>3, CapsIs, CapsNext, Zenon

(* An invocation that runs loses its object and argument, one that is      *)
(* answered gets the returned object for an argument.                      *)
ThatRan(I, c) == [I EXCEPT ![c].st = "done", ![c].obj = NULL, ![c].arg = NULL]
ThatReplied(I, c, r) == [I EXCEPT ![c].st = "replied", ![c].arg = r]
Invoked(st, from, o, a) == [st |-> st, from |-> from, obj |-> o, arg |-> a]
With(I, c, i) == [I EXCEPT ![c] = i]

(* The object of an invocation ran.                                        *)
LEMMA RanChanges ==
    ASSUME NEW S, NEW I \in [Calls -> S], NEW c \in Calls, NEW st, NEW from, NEW o, NEW a,
           I[c] = Invoked(st, from, o, a)
    PROVE  ThatRan(I, c) = With(I, c, Invoked("done", from, NULL, NULL))
<1> USE DEF ThatRan, Invoked, With
<1>1. ThatRan(I, c) = [I EXCEPT ![c] = [I[c] EXCEPT !.st = "done", !.obj = NULL, !.arg = NULL]]
  BY Zenon
<1>2. PICK i, j, k : i = I[c] /\ j = [i EXCEPT !.st = "done"] /\ k = [j EXCEPT !.obj = NULL]
  BY Zenon
<1>3. j = [st |-> "done", from |-> from, obj |-> o, arg |-> a]
  BY <1>2
<1>4. k = [st |-> "done", from |-> from, obj |-> NULL, arg |-> a]
  <2>1. k = [j EXCEPT !.obj = NULL]
    BY <1>2, Zenon
  <2> QED
    BY <1>3, <2>1, Zenon
<1>5. [k EXCEPT !.arg = NULL] = [st |-> "done", from |-> from, obj |-> NULL, arg |-> NULL]
  BY <1>4
<1> QED
  BY <1>1, <1>2, <1>5, Zenon

(* The object of an invocation answered.                                   *)
LEMMA RepliedChanges ==
    ASSUME NEW S, NEW I \in [Calls -> S], NEW c \in Calls, NEW st, NEW from, NEW o, NEW a, NEW r,
           I[c] = Invoked(st, from, o, a)
    PROVE  ThatReplied(I, c, r) = With(I, c, Invoked("replied", from, o, r))
<1> USE DEF ThatReplied, Invoked, With
<1>1. ThatReplied(I, c, r) = [I EXCEPT ![c] = [I[c] EXCEPT !.st = "replied", !.arg = r]]
  BY Zenon
<1>2. PICK i, j : i = I[c] /\ j = [i EXCEPT !.st = "replied"]
  BY Zenon
<1>3. j = [st |-> "replied", from |-> from, obj |-> o, arg |-> a]
  BY <1>2
<1>4. [j EXCEPT !.arg = r] = [st |-> "replied", from |-> from, obj |-> o, arg |-> r]
  BY <1>3
<1> QED
  BY <1>1, <1>2, <1>4, Zenon

(* A call that a step does not touch means what it meant.                  *)
LEMMA MeaningStays ==
    ASSUME NEW d, waiting'[d] = waiting[d], pc'[d] = pc[d], call'[d] = call[d],
           req'[d] = req[d], reply'[d] = reply[d]
    PROVE  Meaning(d)' = Meaning(d)
BY Zenon DEF Meaning

(* What an argument on the wire stands for.                                *)
LEMMA WireMeans ==
    ASSUME TypeOK, NEW s \in Sides, NEW a, NEW w \in Wire, MarshalOut(s, a, w)
    PROVE  /\ w.kind = "sender" => w.obj \in Local(s)
           /\ w.kind = "receiver" => a \in Fwds /\ w.obj = fwd[a].obj
           /\ w.kind = "null" => w.obj = NULL
           /\ w.kind \in {"null", "sender", "receiver"}
BY MarshalOutFacts, SideFacts DEF Kinds

(* The steps of the exchange, one by one, as steps of ObjectCalls.         *)
LEMMA InvokeCalls ==
    ASSUME IInv, IInv', NEW c \in Calls, NEW f \in Fwds, NEW a \in Args, Invoke(c, f, a)
    PROVE  OC!Next
<1>0. /\ TypeOK /\ fwd[f].side \in Sides /\ ~waiting[c] /\ pc[c] = "none"
      /\ fwd[f].st = "live" /\ a \in Passable(fwd[f].side)
      /\ call' = [call EXCEPT ![c] = [from |-> fwd[f].side, target |-> f, arg |-> a]]
      /\ waiting' = [waiting EXCEPT ![c] = TRUE]
      /\ pc' = [pc EXCEPT ![c] = "request"]
      /\ UNCHANGED <<fwd, refs, app, got, out, reply>>
  BY Zenon DEF IInv, TypeOK, Invoke
<1>1. PICK w \in Wire :
        /\ MarshalOut(fwd[f].side, a, w)
        /\ req' = [req EXCEPT ![c] = [handle |-> fwd[f].handle, obj |-> fwd[f].obj, arg |-> w]]
  BY Zenon DEF Invoke
<1>2. PICK s, o : s \in Sides /\ s = fwd[f].side /\ o = fwd[f].obj
  BY <1>0, Zenon
<1>3. o \in Caps[s] /\ Caps' = Caps
  <2>1. fwd' = fwd /\ Live(f, s)
    BY <1>0, <1>2, Zenon DEF Live
  <2> QED
    BY <1>2, <2>1, CapsIs DEF Live, Caps
<1>4. w.obj \in {NULL} \cup Local(s) \cup Caps[s]
  <2>0. TypeOK /\ MarshalOut(s, a, w) /\ a \in Passable(s)
    BY <1>0, <1>1, <1>2, Zenon
  <2>1. CASE w.kind = "receiver"
    <3>1. a \in Fwds /\ w.obj = fwd[a].obj
      BY <1>2, <2>0, <2>1, WireMeans, Zenon
    <3>2. Live(a, s)
      BY <1>2, <2>0, <3>1, SideFacts, Zenon DEF Passable
    <3> QED
      BY <1>2, <3>1, <3>2, CapsIs, Zenon
  <2>2. CASE w.kind # "receiver"
    BY <1>2, <2>0, <2>2, WireMeans, Zenon
  <2> QED
    BY <2>1, <2>2, Zenon
<1>5. /\ \A d \in Calls : d # c => Meaning(d)' = Meaning(d)
      /\ Meaning(c) = OC!Idle
      /\ Meaning(c)' = [st |-> "sent", from |-> s, obj |-> o, arg |-> w.obj]
  <2>1. \A d \in Calls : d # c =>
          /\ waiting'[d] = waiting[d] /\ pc'[d] = pc[d] /\ call'[d] = call[d]
          /\ req'[d] = req[d] /\ reply'[d] = reply[d]
    BY <1>0, <1>1, Zenon DEF TypeOK
  <2>2. /\ waiting'[c] /\ pc'[c] = "request" /\ call'[c].from = s
        /\ req'[c].obj = o /\ req'[c].arg = w /\ ~waiting[c]
    BY <1>0, <1>1, <1>2, Zenon DEF TypeOK
  <2>3. Meaning(c) = OC!Idle /\ Meaning(c)' = [st |-> "sent", from |-> s, obj |-> o, arg |-> w.obj]
    BY <2>2, Zenon DEF Meaning, OC!Idle
  <2> QED
    BY <2>1, <2>3, MeaningStays, Zenon
<1>6. OC!Call(c, s, o, w.obj)
  BY <1>3, <1>5, OnlyOne, Zenon DEF OC!Call
<1>7. s \in OC!Sides /\ o \in Caps[s] /\ w.obj \in {NULL} \cup OC!Own(s) \cup Caps[s]
  BY <1>2, <1>3, <1>4, SameNames, Zenon
<1> QED
  BY <1>6, <1>7, Zenon DEF OC!Next

(* The callee unmarshals the request: it gains the caller's object that    *)
(* was passed, and nothing when it was passed its own object or none.      *)
LEMMA RecvRequestArrives ==
    ASSUME IInv, IInv', NEW c \in Calls, RecvRequest(c)
    PROVE  OC!Next
<1>0. /\ TypeOK /\ Callee(c) \in Sides /\ req[c].arg \in Wire /\ call[c].from \in Sides
      /\ Peer(call[c].from) = Callee(c) /\ Peer(Callee(c)) = call[c].from
      /\ pc[c] = "request" /\ waiting[c] /\ UNCHANGED <<table, app, call, waiting, out, reply>>
  BY SideFacts, Zenon DEF IInv, TypeOK, Callee, RecvRequest, Served
<1>1. PICK t \in Sides, w \in Wire, p \in Sides : t = Callee(c) /\ w = req[c].arg /\ p = call[c].from
  BY <1>0, Zenon
<1>2. ~MarshalInFails(t, w)
  BY <1>0, <1>1, Reaches, Zenon DEF MarshalInFails
<1>3. PICK a \in Args :
        /\ MarshalIn(t, w, a) /\ got' = [got EXCEPT ![c] = a]
        /\ pc' = [pc EXCEPT ![c] = "in"] /\ UNCHANGED req
  BY <1>1, <1>2, Zenon DEF RecvRequest
<1>4. /\ \A d \in Calls : d # c => Meaning(d)' = Meaning(d)
      /\ Meaning(c) = [st |-> "sent", from |-> p, obj |-> req[c].obj, arg |-> w.obj]
      /\ Meaning(c)' = [st |-> "running", from |-> p, obj |-> req[c].obj, arg |-> w.obj]
  <2>1. /\ \A d \in Calls : d # c => pc'[d] = pc[d]
        /\ pc[c] = "request" /\ pc'[c] = "in" /\ UNCHANGED <<waiting, call, req, reply>> /\ waiting[c]
    BY <1>0, <1>3, Zenon DEF TypeOK
  <2> QED
    BY <1>1, <2>1, MeaningStays, Zenon DEF Meaning
<1>5. Caps' = IF w.obj \in Local(p) THEN [Caps EXCEPT ![t] = @ \cup {w.obj}] ELSE Caps
  <2>1. CASE w.kind = "sender"
    <3>1. RequestHolds(c, p, w.handle) /\ w.handle \in Handles
      BY <2>1, <1>0, <1>1, SideFacts, Zenon DEF RequestHolds
    <3>2. w.obj \in Local(p)
      BY <1>1, <3>1, HeldObjects, Zenon
    <3>3. /\ a \in Fwds /\ fwd[a].st = "none"
          /\ fwd' = [fwd EXCEPT ![a] = Forwarder("live", t, w.handle, w.obj)]
      BY <2>1, <1>3, Zenon DEF MarshalIn
    <3>4. PICK h, x : h = w.handle /\ x = w.obj
      BY Zenon
    <3>5. Caps' = [Caps EXCEPT ![t] = @ \cup {x}]
      <4>1. Forwards(a, t, h, x)
        BY <3>3, <3>4, Zenon DEF Forwards
      <4> QED
        BY <1>0, <3>3, <4>1, ForwarderGains
    <3> QED
      BY <3>2, <3>4, <3>5, Zenon
  <2>2. CASE w.kind = "null"
    <3>1. w.obj = NULL /\ fwd' = fwd
      BY <2>2, <1>0, <1>1, <1>3, Zenon DEF MarshalIn, IInv, CalleeKeeps, HasArgs
    <3> QED
      BY <3>1, SideFacts DEF Caps, Live
  <2>3. CASE w.kind = "receiver"
    <3>1. w.obj = table[t][w.handle] /\ w.obj # NULL /\ w.handle \in Handles /\ fwd' = fwd
      BY <2>3, <1>0, <1>1, <1>3, Reaches, SideFacts, Zenon DEF MarshalIn
    <3>2. w.obj \in Local(t)
      BY <3>1, HeldObjects, Zenon
    <3>3. w.obj \notin Local(p)
      BY <1>0, <1>1, <3>2, SideFacts, Zenon
    <3> QED
      BY <3>1, <3>3, Zenon DEF Caps, Live
  <2> QED
    BY <2>1, <2>2, <2>3, SideFacts, Zenon DEF Kinds
<1>6. OC!Other(p) = t /\ OC!Other(OC!Other(p)) = p /\ OC!Own(p) = Local(p)
  BY <1>0, <1>1, SameNames, Zenon
<1>7. OC!Gain(OC!Other(Invs[c].from), Invs[c].arg)
  <2>1. Invs[c].from = p /\ Invs[c].arg = w.obj
    BY <1>4, OnlyOne
  <2>2. OC!Gain(t, w.obj)
    BY <1>5, <1>6, Zenon DEF OC!Gain
  <2> QED
    BY <1>6, <2>1, <2>2, Zenon
<1>8. Invs' = [Invs EXCEPT ![c].st = "running"] /\ Invs[c].st = "sent"
  BY <1>4, OnlyOne
<1> QED
  BY <1>7, <1>8, Zenon DEF OC!Next, OC!Arrive

(* The object runs, and fails or succeeds.                                 *)
LEMMA DispatchRuns ==
    ASSUME IInv, IInv', NEW c \in Calls,
           (\E o \in Args, keep \in BOOLEAN : Dispatch(c, o, keep)) \/ DispatchFails(c)
    PROVE  OC!Next
<1>1. /\ TypeOK /\ pc[c] = "in" /\ waiting[c] /\ reply[c] = NoReply
      /\ UNCHANGED <<fwd, call, waiting, reply>>
      /\ req' = [req EXCEPT ![c] = NoRequest]
      /\ pc' = [pc EXCEPT ![c] = "ran"] \/ pc' = [pc EXCEPT ![c] = "failed"]
  BY Zenon DEF IInv, Served, Dispatch, DispatchFails
<1>2. /\ \A d \in Calls : d # c => Meaning(d)' = Meaning(d)
      /\ Meaning(c) = [st |-> "running", from |-> call[c].from, obj |-> req[c].obj, arg |-> req[c].arg.obj]
      /\ Meaning(c)' = [st |-> "done", from |-> call[c].from, obj |-> NULL, arg |-> NULL]
  <2>1. /\ \A d \in Calls : d # c => pc'[d] = pc[d] /\ req'[d] = req[d]
        /\ pc'[c] \in {"ran", "failed"}
    BY <1>1, Zenon DEF TypeOK
  <2>2. UNCHANGED <<waiting, call, reply>> /\ waiting[c] /\ reply[c] = NoReply /\ pc[c] = "in"
    BY <1>1, Zenon
  <2>3. /\ Meaning(c) = [st |-> "running", from |-> call[c].from, obj |-> req[c].obj, arg |-> req[c].arg.obj]
        /\ Meaning(c)' = [st |-> "done", from |-> call[c].from, obj |-> NULL, arg |-> NULL]
    BY <2>1, <2>2, Zenon DEF Meaning
  <2> QED
    BY <2>1, <2>2, <2>3, MeaningStays, Zenon
<1>3. Caps' = Caps
  BY <1>1, Zenon DEF Caps, Live
<1>4. /\ Invs[c].st = "running"
      /\ Invs' = [Invs EXCEPT ![c].st = "done", ![c].obj = NULL, ![c].arg = NULL]
  <2>1. Invs' = [Invs EXCEPT ![c] = Meaning(c)'] /\ Invs[c] = Meaning(c)
    BY <1>2, OnlyOne, Zenon
  <2>2. PICK S : Invs \in [Calls -> S]
    <3>1. Invs \in [Calls -> {Invocation(d) : d \in Calls}]
      BY Zenon DEF Invs
    <3> QED
      BY <3>1, Zenon
  <2>3. PICK p, o, a : p = call[c].from /\ o = req[c].obj /\ a = req[c].arg.obj
    BY Zenon
  <2>4. /\ Invs[c] = Invoked("running", p, o, a)
        /\ Invs' = With(Invs, c, Invoked("done", p, NULL, NULL))
    BY <1>2, <2>1, <2>3, Zenon DEF Invoked, With
  <2>5. Invs' = ThatRan(Invs, c)
    BY <2>2, <2>4, RanChanges, Zenon
  <2>6. Invs[c].st = "running"
    BY <2>4 DEF Invoked
  <2> QED
    BY <2>5, <2>6, Zenon DEF ThatRan
<1> QED
  BY <1>3, <1>4, Zenon DEF OC!Next, OC!Run

(* Steps that only release a reference.                                    *)
LEMMA ReleaseIsDrop ==
    ASSUME IInv, IInv', NEW a, Release(a), a \in Fwds => refs[a] > 0,
           \A d \in Calls : Meaning(d)' = Meaning(d)
    PROVE  [OC!Next]_(OC!vars)
<1>1. Invs' = Invs
  <2>1. \A d \in Calls : Invs'[d] = Invs[d]
    BY InvocationMeans, MeansNext, Zenon
  <2> QED
    BY <2>1, Zenon DEF Invs
<1>2. CASE Caps' = Caps
  BY <1>1, <1>2, Zenon DEF OC!vars
<1>3. CASE \E s \in Sides : \E o \in Caps[s] : Caps' = [Caps EXCEPT ![s] = @ \ {o}]
  BY <1>1, <1>3, SameNames, Zenon DEF OC!Next, OC!Drop
<1> QED
  BY <1>2, <1>3, ReleaseDrops, Zenon

(* The releases of the callee's thread and of the users of a forwarder.    *)
LEMMA ReleasesDrop ==
    ASSUME IInv, IInv',
           \/ \E c \in Calls : ReleaseInput(c) \/ ReleaseOutput(c)
           \/ \E f \in Fwds : AppRelease(f)
    PROVE  [OC!Next]_(OC!vars)
<1>1. ASSUME NEW c \in Calls, ReleaseInput(c) PROVE [OC!Next]_(OC!vars)
  <2>1. /\ TypeOK /\ pc[c] \in {"ran", "failed"} /\ Release(got[c]) /\ reply[c] = NoReply
        /\ pc' = [pc EXCEPT ![c] = IF @ = "ran" THEN "send" ELSE "error"]
        /\ UNCHANGED <<call, req, waiting, reply>>
    BY <1>1, Zenon DEF IInv, Served, ReleaseInput
  <2>2. \A d \in Calls : Meaning(d)' = Meaning(d)
    <3>1. /\ \A d \in Calls : d # c => pc'[d] = pc[d]
          /\ pc[c] \in {"ran", "failed"} /\ pc'[c] \in {"send", "error"}
      BY <2>1, Zenon DEF TypeOK
    <3>2. UNCHANGED <<call, req, waiting, reply>>
      BY <2>1, Zenon
    <3> QED
      BY <3>1, <3>2, MeaningStays DEF Meaning
  <2>3. PICK a : a = got[c]
    BY Zenon
  <2>4. Release(a) /\ (a \in Fwds => refs[a] > 0)
    BY <2>1, <2>3, NotLive, Zenon
  <2> QED
    BY <2>2, <2>4, ReleaseIsDrop, Zenon
<1>2. ASSUME NEW c \in Calls, ReleaseOutput(c) PROVE [OC!Next]_(OC!vars)
  <2>1. /\ TypeOK /\ pc[c] = "sent" /\ Release(out[c])
        /\ pc' = [pc EXCEPT ![c] = "none"]
        /\ UNCHANGED <<call, req, waiting, reply>>
    BY <1>2, Zenon DEF IInv, ReleaseOutput
  <2>2. \A d \in Calls : Meaning(d)' = Meaning(d)
    <3>1. (\A d \in Calls : d # c => pc'[d] = pc[d]) /\ pc[c] = "sent" /\ pc'[c] = "none"
      BY <2>1, Zenon DEF TypeOK
    <3>2. UNCHANGED <<call, req, waiting, reply>>
      BY <2>1, Zenon
    <3> QED
      BY <3>1, <3>2, MeaningStays, Zenon DEF Meaning
  <2>3. PICK a : a = out[c]
    OBVIOUS
  <2>4. Release(a) /\ (a \in Fwds => refs[a] > 0)
    BY <2>1, <2>3, NotLive, Zenon
  <2> QED
    BY <2>2, <2>4, ReleaseIsDrop
<1>3. ASSUME NEW f \in Fwds, AppRelease(f) PROVE [OC!Next]_(OC!vars)
  <2>1. /\ app[f] > 0 /\ Release(f)
        /\ UNCHANGED <<call, req, waiting, pc, reply>>
    BY <1>3 DEF AppRelease, IInv, TypeOK
  <2>2. \A d \in Calls : Meaning(d)' = Meaning(d)
    BY <2>1, MeaningStays, Zenon
  <2>3. refs[f] > 0
    BY <2>1, NotLive, Zenon
  <2> QED
    BY <2>1, <2>2, <2>3, ReleaseIsDrop, Zenon
<1> QED
  BY <1>1, <1>2, <1>3, Zenon

(* The answer, a success or an error.                                      *)
LEMMA SendsReply ==
    ASSUME IInv, IInv', NEW c \in Calls, SendSuccess(c) \/ SendError(c)
    PROVE  OC!Next
<1>0. /\ TypeOK /\ pc[c] \in {"send", "error"} /\ waiting[c] /\ reply[c] = NoReply
      /\ Callee(c) \in Sides /\ call[c].from \in Sides /\ Callee(c) = Peer(call[c].from)
      /\ UNCHANGED <<fwd, call, req, waiting>>
      /\ pc' = [pc EXCEPT ![c] = "sent"] \/ pc' = [pc EXCEPT ![c] = "none"]
  BY SideFacts, Zenon DEF IInv, TypeOK, Served, SendSuccess, SendError, Callee
<1>1. PICK w \in Wire \cup {Fails} :
        /\ reply' = [reply EXCEPT ![c] = w]
        /\ w # Fails => MarshalOut(Callee(c), out[c], w)
  BY Zenon DEF SendSuccess, SendError
<1>2. PICK r : r = IF w.kind = "sender" THEN w.obj ELSE NULL
  BY Zenon
<1>3. r \in {NULL} \cup Local(Callee(c))
  <2>1. CASE w = Fails
    BY <2>1, <1>2, SideFacts, Zenon
  <2>2. CASE w # Fails
    <3>1. TypeOK /\ Callee(c) \in Sides /\ w \in Wire /\ MarshalOut(Callee(c), out[c], w)
      BY <2>2, <1>0, <1>1, Zenon
    <3> QED
      BY <3>1, <1>2, WireMeans, Zenon
  <2> QED
    BY <2>1, <2>2, Zenon
<1>4. w # NoReply
  BY SideFacts, Zenon
<1>5. /\ \A d \in Calls : d # c => Meaning(d)' = Meaning(d)
      /\ Meaning(c) = [st |-> "done", from |-> call[c].from, obj |-> NULL, arg |-> NULL]
      /\ Meaning(c)' = [st |-> "replied", from |-> call[c].from, obj |-> NULL, arg |-> r]
  <2>1. /\ \A d \in Calls : d # c => pc'[d] = pc[d] /\ reply'[d] = reply[d]
        /\ pc'[c] \in {"sent", "none"} /\ reply'[c] = w
    BY <1>0, <1>1, Zenon DEF TypeOK
  <2>2. /\ UNCHANGED <<waiting, call, req>> /\ waiting[c] /\ reply[c] = NoReply
        /\ pc[c] \notin {"request", "in"}
    BY <1>0, Zenon
  <2>3. /\ Meaning(c) = [st |-> "done", from |-> call[c].from, obj |-> NULL, arg |-> NULL]
        /\ Meaning(c)' = [st |-> "replied", from |-> call[c].from, obj |-> NULL, arg |-> r]
    BY <2>1, <2>2, <1>2, <1>4, Zenon DEF Meaning
  <2> QED
    BY <2>1, <2>2, <2>3, MeaningStays, Zenon
<1>6. Caps' = Caps
  BY <1>0, Zenon DEF Caps, Live
<1>7. /\ Invs[c].st = "done" /\ Invs[c].from = call[c].from
      /\ Invs' = [Invs EXCEPT ![c].st = "replied", ![c].arg = r]
  <2>1. Invs' = [Invs EXCEPT ![c] = Meaning(c)'] /\ Invs[c] = Meaning(c)
    BY <1>5, OnlyOne, Zenon
  <2>2. PICK S : Invs \in [Calls -> S]
    <3>1. Invs \in [Calls -> {Invocation(d) : d \in Calls}]
      BY Zenon DEF Invs
    <3> QED
      BY <3>1, Zenon
  <2>3. PICK p : p = call[c].from
    BY Zenon
  <2>4. /\ Invs[c] = Invoked("done", p, NULL, NULL)
        /\ Invs' = With(Invs, c, Invoked("replied", p, NULL, r))
    BY <1>5, <2>1, <2>3, Zenon DEF Invoked, With
  <2>5. Invs' = ThatReplied(Invs, c, r)
    BY <2>2, <2>4, RepliedChanges
  <2>6. Invs[c].st = "done" /\ Invs[c].from = call[c].from
    BY <2>3, <2>4 DEF Invoked
  <2> QED
    BY <2>5, <2>6, Zenon DEF ThatReplied
<1>8. r \in {NULL} \cup OC!Own(OC!Other(Invs[c].from))
  BY <1>0, <1>3, <1>7, SameNames, Zenon
<1>9. OC!Reply(c, r)
  BY <1>6, <1>7, Zenon DEF OC!Reply
<1> QED
  BY <1>8, <1>9, Zenon DEF OC!Next

(* The caller unmarshals the answer: it gains the callee's object that was *)
(* returned, and nothing otherwise.                                        *)
LEMMA RecvReplyReturns ==
    ASSUME IInv, IInv', NEW c \in Calls, RecvReply(c)
    PROVE  OC!Next
<1>0. /\ TypeOK /\ call[c].from \in Sides /\ Callee(c) \in Sides
      /\ Peer(call[c].from) = Callee(c) /\ Peer(Callee(c)) = call[c].from
      /\ waiting[c] /\ reply[c] # NoReply /\ pc[c] \in {"none", "sent"}
      /\ reply' = [reply EXCEPT ![c] = NoReply]
      /\ waiting' = [waiting EXCEPT ![c] = FALSE]
      /\ call' = [call EXCEPT ![c] = NoCall]
      /\ UNCHANGED <<table, req, pc>>
  BY SideFacts, Zenon DEF IInv, RecvReply, TypeOK, Served, Callee
<1>1. PICK s, p, w : s \in Sides /\ p \in Sides /\ s = call[c].from /\ p = Callee(c) /\ w = reply[c]
  BY <1>0, Zenon
<1>2. PICK r : r = IF w.kind = "sender" THEN w.obj ELSE NULL
  BY Zenon
<1>3. /\ \A d \in Calls : d # c => Meaning(d)' = Meaning(d)
      /\ Meaning(c) = [st |-> "replied", from |-> s, obj |-> NULL, arg |-> r]
      /\ Meaning(c)' = OC!Idle
  <2>1. /\ \A d \in Calls : d # c => waiting'[d] = waiting[d] /\ call'[d] = call[d] /\ reply'[d] = reply[d]
        /\ ~waiting'[c]
    BY <1>0, Zenon DEF TypeOK
  <2>2. UNCHANGED <<pc, req>> /\ waiting[c] /\ w # NoReply /\ pc[c] \notin {"request", "in"}
    BY <1>0, <1>1, Zenon
  <2>3. Meaning(c) = [st |-> "replied", from |-> s, obj |-> NULL, arg |-> r] /\ Meaning(c)' = OC!Idle
    BY <2>1, <2>2, <1>1, <1>2, Zenon DEF Meaning, OC!Idle
  <2> QED
    BY <2>1, <2>2, <2>3, MeaningStays, Zenon
<1>4. Caps' = IF r \in Local(p) THEN [Caps EXCEPT ![s] = @ \cup {r}] ELSE Caps
  <2>1. CASE w.kind = "sender"
    <3>1. /\ w \in Wire /\ w # Fails /\ ~MarshalInFails(s, w) /\ w.handle \in Handles
          /\ ReplyHolds(c, p, w.handle) /\ r = w.obj
      BY <2>1, <1>0, <1>1, <1>2, SideFacts, Zenon DEF TypeOK, MarshalInFails, ReplyHolds
    <3>2. r \in Local(p)
      BY <1>1, <3>1, HeldObjects, Zenon
    <3>3. PICK a \in Fwds : /\ fwd[a].st = "none"
                            /\ fwd' = [fwd EXCEPT ![a] = Forwarder("live", s, w.handle, w.obj)]
      BY <1>1, <2>1, <3>1, Zenon DEF RecvReply, MarshalIn
    <3>4. PICK h : h = w.handle
      BY Zenon
    <3>5. Caps' = [Caps EXCEPT ![s] = @ \cup {r}]
      <4>1. Forwards(a, s, h, r)
        BY <3>1, <3>3, <3>4, Zenon DEF Forwards
      <4> QED
        BY <1>0, <1>1, <3>3, <4>1, ForwarderGains
    <3> QED
      BY <3>2, <3>5, Zenon
  <2>2. CASE w.kind # "sender"
    <3>1. fwd' = fwd
      <4>1. CASE w = Fails \/ MarshalInFails(s, w)
        BY <1>1, <4>1, Zenon DEF RecvReply
      <4>2. CASE ~(w = Fails \/ MarshalInFails(s, w))
        <5>1. PICK a \in Args : MarshalIn(s, w, a)
          BY <1>1, <4>2, Zenon DEF RecvReply
        <5>2. w \in Wire
          BY <1>0, <1>1, <4>2, Zenon DEF TypeOK
        <5>3. w.kind = "receiver" => table[s][w.handle] \in Objs \cup {NULL}
          BY <1>0, <1>1, <5>2, SideFacts DEF TypeOK
        <5> QED
          BY <2>2, <5>1, <5>2, <5>3, SideFacts, Zenon DEF MarshalIn
      <4> QED
        BY <4>1, <4>2, Zenon
    <3> QED
      BY <1>1, <1>2, <2>2, <3>1, SideFacts DEF Caps, Live
  <2> QED
    BY <2>1, <2>2, Zenon
<1>5. Invs[c].st = "replied" /\ Invs[c].from = s /\ Invs[c].arg = r /\ Invs' = [Invs EXCEPT ![c] = OC!Idle]
  BY <1>3, OnlyOne
<1>6. OC!Own(OC!Other(s)) = Local(p)
  BY <1>0, <1>1, SameNames, Zenon
<1>7. OC!Gain(s, r)
  BY <1>4, <1>6, Zenon DEF OC!Gain
<1> QED
  BY <1>5, <1>7, Zenon DEF OC!Next, OC!Return

(* Steps that ObjectCalls does not see.                                    *)
LEMMA HiddenSteps ==
    ASSUME IInv, IInv', (\E f \in Fwds : RecvClose(f) \/ AppRetain(f)) \/ UNCHANGED vars
    PROVE  UNCHANGED OC!vars
<1>1. UNCHANGED <<call, req, waiting, pc, reply>>
  BY Zenon DEF RecvClose, AppRetain, vars
<1>2. Invs' = Invs
  <2>1. \A d \in Calls : Meaning(d)' = Meaning(d)
    BY <1>1, MeaningStays, Zenon
  <2>2. \A d \in Calls : Invs'[d] = Invs[d]
    BY <2>1, InvocationMeans, MeansNext, Zenon
  <2> QED
    BY <2>2, Zenon DEF Invs
<1>3. Caps' = Caps
  <2>1. CASE fwd' = fwd
    BY <2>1, Zenon DEF Caps, Live
  <2>2. CASE \E f \in Fwds : RecvClose(f)
    <3>1. PICK f \in Fwds : fwd[f].st = "closing" /\ fwd' = [fwd EXCEPT ![f] = NoForwarder]
      BY <2>2, Zenon DEF RecvClose
    <3>2. /\ \A g \in Fwds : g # f => fwd'[g] = fwd[g]
          /\ fwd'[f].st = "none"
      BY <3>1, SideFacts, Zenon DEF IInv, TypeOK, NoForwarder, Forwarder
    <3>3. \A t \in Sides : \A o : o \in Caps'[t] <=> o \in Caps[t]
      BY <3>1, <3>2, CapsIs, CapsNext DEF Live
    <3>4. \A t \in Sides : Caps'[t] = Caps[t]
      BY <3>3, Zenon
    <3> QED
      BY <3>4, CapsIs, CapsNext, Zenon
  <2> QED
    BY <2>1, <2>2, Zenon DEF AppRetain, vars
<1> QED
  BY <1>2, <1>3, Zenon DEF OC!vars

(* The client starts with a capability for the opener, and no invocation   *)
(* is under way.                                                           *)
LEMMA InitMaps == Init => OC!Init
<1> SUFFICES ASSUME Init PROVE OC!Init
  BY Zenon
<1>1. IInv
  BY InitHolds, Zenon
<1>2. PICK f \in Fwds :
        fwd = [g \in Fwds |-> IF g = f THEN Forwarder("live", Client, FirstHandle, Opener) ELSE NoForwarder]
  BY Zenon DEF Init
<1>3. \A t \in Sides : \A o : o \in Caps[t] <=> t = Client /\ o = Opener
  BY <1>2, CapsIs, SideFacts DEF Live, Forwarder, NoForwarder
<1>4. \A t \in Sides : Caps[t] = IF t = Client THEN {Opener} ELSE {}
  BY <1>3, Zenon
<1>5. Caps = [t \in OC!Sides |-> IF t = Client THEN {Opener} ELSE {}]
  BY <1>4, CapsIs, SameNames, Zenon
<1>6. \A c \in Calls : Invs[c] = OC!Idle
  BY <1>1, InvocationMeans, Zenon DEF Init, Meaning, OC!Idle
<1>7. Invs = [c \in Calls |-> OC!Idle]
  BY <1>6, Zenon DEF Invs
<1> QED
  BY <1>5, <1>7, Zenon DEF OC!Init

(* Whatever the transport does with handles, tables, messages and          *)
(* reference counts, the two domains see what ObjectCalls promises: the    *)
(* object that runs is the one the caller holds, with the argument the     *)
(* caller passed, and a domain comes to hold only what it was passed.      *)
THEOREM ExchangeImplements == Spec => ImplementsObjectCalls
<1>1. Spec => []IInv
  BY InitHolds, StepKeeps, PTL DEF Spec
<1>2. IInv /\ IInv' /\ [Next]_vars => [OC!Next]_(OC!vars)
  <2> SUFFICES ASSUME IInv, IInv', [Next]_vars PROVE [OC!Next]_(OC!vars)
    BY Zenon
  <2>1. CASE \E c \in Calls, f \in Fwds, a \in Args : Invoke(c, f, a)
    BY <2>1, InvokeCalls, Zenon
  <2>2. ASSUME NEW c \in Calls, Serve(c) PROVE [OC!Next]_(OC!vars)
    BY <2>2, RecvRequestArrives, DispatchRuns, ReleasesDrop, SendsReply, RecvReplyReturns, Zenon DEF Serve
  <2>3. CASE \E f \in Fwds : AppRelease(f)
    BY <2>3, ReleasesDrop, Zenon
  <2>4. CASE (\E f \in Fwds : RecvClose(f) \/ AppRetain(f)) \/ UNCHANGED vars
    BY <2>4, HiddenSteps, Zenon
  <2> QED
    BY <2>1, <2>2, <2>3, <2>4, Zenon DEF Next
<1> QED
  BY <1>1, <1>2, InitMaps, PTL DEF Spec, ImplementsObjectCalls, OC!Spec
=============================================================================
