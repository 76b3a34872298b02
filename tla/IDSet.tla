------------------------------- MODULE IDSet -------------------------------
(***************************************************************************)
(* The set of identifiers behind a process's privileges and a session's    *)
(* services (QTVM's IDSet.h).  It is a list of nodes of two entries.  An   *)
(* entry covers a group of consecutive identifiers with one bit each, the  *)
(* entries are sorted by group, and an entry of group 0 is unused.  A new  *)
(* group goes to its place and pushes the entries behind it forward, into  *)
(* a new node when the last one is full.                                   *)
(* Here the list is the sequence of its entries, two per node, a mask is   *)
(* the set of its bits, and a group has Width identifiers instead of 32.   *)
(***************************************************************************)
EXTENDS Naturals, Sequences

CONSTANTS
  Ids,        \* identifiers
  Width,      \* identifiers of a group
  HeapFails   \* what an allocation may do: {FALSE}, or BOOLEAN when it may fail

VARIABLES
  set,        \* the entries of the list
  dup,        \* the entries of a duplicate made by IDSet_dup
  members,    \* the identifiers set and not cleared since
  copied      \* the members when the duplicate was made

vars == <<set, dup, members, copied>>

Unused == [group |-> 0, mask |-> {}]

NodeSize == 2

NewNode == [i \in 1 .. NodeSize |-> Unused]

IDSet_GROUP(id) == id - (id % Width) + Width - 1

IDSet_MASK(id) == {id % Width}

(* The entries are examined in order: those of smaller groups are passed.  *)
Place(s, group) ==
  LET stops == {i \in DOMAIN s : s[i].group = 0 \/ s[i].group >= group}
  IN  IF stops = {} THEN Len(s) + 1 ELSE CHOOSE i \in stops : \A j \in stops : i <= j

IDSet_test(s, id) ==
  LET i == Place(s, IDSet_GROUP(id))
  IN  /\ i \in DOMAIN s
      /\ s[i].group = IDSet_GROUP(id)
      /\ IDSet_MASK(id) \subseteq s[i].mask


Pushed(s, i, entry) ==
  LET end == CHOOSE j \in i .. Len(s) + 1 :
               /\ j = Len(s) + 1 \/ s[j].group = 0
               /\ \A k \in i .. j - 1 : s[k].group # 0
  IN  [j \in DOMAIN s |-> IF j = i THEN entry
                          ELSE IF j > i /\ j <= end THEN s[j - 1] ELSE s[j]]

Full(s, i) == \A j \in i .. Len(s) : s[j].group # 0

IDSet_testOrSet(s, id, noNode) ==
  LET i == Place(s, IDSet_GROUP(id))
      insert == [group |-> IDSet_GROUP(id), mask |-> IDSet_MASK(id)]
  IN  IF i \in DOMAIN s /\ s[i].group = insert.group
      THEN [s EXCEPT ![i].mask = @ \cup insert.mask]
      ELSE IF Full(s, i) /\ noNode
      THEN [j \in DOMAIN s |-> IF j = i THEN insert ELSE IF j > i THEN s[j - 1] ELSE s[j]]
      ELSE IF Full(s, i) THEN Pushed(s \o NewNode, i, insert)
      ELSE Pushed(s, i, insert)

(* What IDSet_set reports: an error when a node was needed and not had. *)
NeedsNode(s, id) ==
  LET i == Place(s, IDSet_GROUP(id))
  IN  Full(s, i) /\ ~(i \in DOMAIN s /\ s[i].group = IDSet_GROUP(id))

-----------------------------------------------------------------------------

Init ==
  /\ set = NewNode /\ dup = NewNode
  /\ members = {} /\ copied = {}

IDSet_set(id) ==
  /\ \E noNode \in HeapFails :
       /\ set' = IDSet_testOrSet(set, id, noNode)
       /\ members' = IF noNode /\ NeedsNode(set, id) THEN members ELSE members \cup {id}
  /\ UNCHANGED <<dup, copied>>

(* The bit is cleared; the entry stays, with an empty mask at the last. *)
IDSet_clear(id) ==
  /\ set' = [i \in DOMAIN set |->
               IF set[i].group = IDSet_GROUP(id)
               THEN [set[i] EXCEPT !.mask = @ \ IDSet_MASK(id)] ELSE set[i]]
  /\ members' = members \ {id}
  /\ UNCHANGED <<dup, copied>>

IDSet_empty ==
  /\ set' = NewNode
  /\ members' = {}
  /\ UNCHANGED <<dup, copied>>

(* Node by node; when one cannot be allocated the target is left alone. *)
IDSet_dup ==
  /\ \E fails \in HeapFails :
       IF fails /\ Len(set) > NodeSize THEN UNCHANGED <<dup, copied>>
       ELSE dup' = set /\ copied' = members
  /\ UNCHANGED <<set, members>>

Next ==
  \/ \E id \in Ids : IDSet_set(id) \/ IDSet_clear(id)
  \/ IDSet_empty \/ IDSet_dup

Spec == Init /\ [][Next]_vars

-----------------------------------------------------------------------------

Entry == [group : {0} \cup {IDSet_GROUP(id) : id \in Ids}, mask : SUBSET (0 .. Width - 1)]

TypeOK ==
  /\ \A s \in {set, dup} : Len(s) % NodeSize = 0 /\ \A i \in DOMAIN s : s[i] \in Entry
  /\ members \subseteq Ids /\ copied \subseteq Ids

(* IDSet_test answers for exactly the identifiers that were set and not    *)
(* cleared since, in the set and in its duplicate, however the insertions  *)
(* pushed the entries from node to node.                                   *)
TestIsMembership ==
  \A id \in Ids : /\ IDSet_test(set, id) <=> id \in members
                  /\ IDSet_test(dup, id) <=> id \in copied

=============================================================================
