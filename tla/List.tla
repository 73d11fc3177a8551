-------------------------------- MODULE List --------------------------------
(***************************************************************************)
(* The generic doubly linked list of src/librt/libos/ds/List.c: Headp,     *)
(* Tailp, Length and each node's Link and Prev, changed by ListCreateNode, *)
(* ListDestroyNode, ListInsert, ListAppend, ListPopFront, ListUnlinkNode,  *)
(* ListRemoveByNode and ListRemoveByKey.  A list created with LIST_SAFE    *)
(* takes List->Lock around each of these, so each locked section is one   *)
(* step; ListRemoveByKey is its lookup, its unlink and then, outside the   *)
(* lock, the clearing of the node's links and its destruction.  The nodes  *)
(* are memory the callers own: status records what a caller believes of   *)
(* each node, from what the calls it made returned.                        *)
(***************************************************************************)
EXTENDS Naturals, Sequences, SequencesExt

CONSTANTS
  Nodes,            \* node memory (ListCreateNode's dsalloc)
  Keys,             \* integer keys; a node's SortKey is its Key
  Callers,          \* threads calling ListRemoveByKey on the list
  NoNode,           \* NULL
  ReinsertUnlinked, \* whether callers hand a node ListUnlinkNode returned
                    \* to ListInsert of a sorted list
  Sequential        \* whether calls are made one at a time (one thread)

ASSUME /\ Keys \subseteq Nat /\ NoNode \notin Nodes
       /\ ReinsertUnlinked \in BOOLEAN /\ Sequential \in BOOLEAN

VARIABLES
  headp, tailp, length,  \* List->Headp, List->Tailp, List->Length
  link, prev,            \* Node->Link, Node->Prev
  key,                   \* Node->Key = Node->SortKey
  sorted,                \* List->Attributes & LIST_SORT_ONINSERT
  status,                \* "free", "held" (a caller's), "listed" or "taken"
  unlinked,              \* held nodes last returned by ListUnlinkNode
  pc, found,             \* each ListRemoveByKey caller and its Node
  live                   \* the List_t is allocated (not yet ListDestroy'd)

vars == <<headp, tailp, length, link, prev, key, sorted, status, unlinked,
          pc, found, live>>

\* dssortkey(KeyType, a, b) == 1 and !dsmatchkey(KeyType, a, b) for
\* integer keys.
SortKeyGreater(a, b) == a > b
MatchKey(a, b) == a = b

\* The foreach walk from Headp along Link, at most k nodes.
RECURSIVE Walk(_, _)
Walk(n, k) ==
  IF n = NoNode \/ k = 0 THEN <<>> ELSE <<n>> \o Walk(link[n], k - 1)

\* The walk, one node past what a well-formed list can hold.
Elements == Walk(headp, Cardinality(Nodes) + 1)

Init ==
  /\ headp = NoNode /\ tailp = NoNode /\ length = 0
  /\ link = [n \in Nodes |-> NoNode]
  /\ prev = [n \in Nodes |-> NoNode]
  /\ key \in [Nodes -> Keys]
  /\ sorted \in BOOLEAN
  /\ status = [n \in Nodes |-> "free"]
  /\ unlinked = {}
  /\ pc = [c \in Callers |-> "idle"]
  /\ found = [c \in Callers |-> NoNode]
  /\ live = TRUE

\* ListCreateNode: a zeroed node with its key.
ListCreateNode(n, k) ==
  /\ status[n] = "free"
  /\ status' = [status EXCEPT ![n] = "held"]
  /\ key' = [key EXCEPT ![n] = k]
  /\ link' = [link EXCEPT ![n] = NoNode]
  /\ prev' = [prev EXCEPT ![n] = NoNode]
  /\ UNCHANGED <<headp, tailp, length, sorted, unlinked, pc, found>>

\* ListDestroyNode of a node a caller holds.
ListDestroyNode(n) ==
  /\ status[n] = "held"
  /\ status' = [status EXCEPT ![n] = "free"]
  /\ unlinked' = unlinked \ {n}
  /\ UNCHANGED <<headp, tailp, length, link, prev, key, sorted, pc, found>>

\* A node a caller may pass to ListInsert.
Insertable(n) ==
  /\ status[n] = "held"
  /\ ReinsertUnlinked \/ ~sorted \/ n \notin unlinked

Handed(n) ==
  /\ status' = [status EXCEPT ![n] = "listed"]
  /\ unlinked' = unlinked \ {n}
  /\ length' = length + 1
  /\ UNCHANGED <<key, sorted, pc, found>>

Empty == headp = NoNode \/ tailp = NoNode

\* Where the sorted insertion stops: the first node, walking from Headp,
\* the new node's key is not greater than.
Spots(n) == {i \in 1 .. Len(Elements) :
               ~SortKeyGreater(key[n], key[Elements[i]])}

(***************************************************************************)
(* The four ways ListInsert links a node into a sorted list.  Neither the  *)
(* empty-list branch nor the new-head branch writes Node->Prev.            *)
(***************************************************************************)
SortedFirst(n) ==
  /\ headp' = n /\ tailp' = n
  /\ link' = [link EXCEPT ![n] = NoNode]
  /\ UNCHANGED prev

SortedBefore(n, l) ==
  IF prev[l] = NoNode
  THEN /\ link' = [link EXCEPT ![n] = l]
       /\ prev' = [prev EXCEPT ![l] = n]
       /\ headp' = n
       /\ UNCHANGED tailp
  ELSE /\ link' = [[link EXCEPT ![prev[l]] = n] EXCEPT ![n] = l]
       /\ prev' = [[prev EXCEPT ![n] = prev[l]] EXCEPT ![l] = n]
       /\ UNCHANGED <<headp, tailp>>

SortedLast(n) ==
  /\ link' = [[link EXCEPT ![tailp] = n] EXCEPT ![n] = NoNode]
  /\ prev' = [prev EXCEPT ![n] = tailp]
  /\ tailp' = n
  /\ UNCHANGED headp

\* Mutant: the old head's Prev is not pointed back at the new node.
PushFrontNoBackLink(n) ==
  /\ IF Empty
     THEN /\ headp' = n /\ tailp' = n
          /\ link' = [link EXCEPT ![n] = NoNode]
          /\ prev' = [prev EXCEPT ![n] = NoNode]
     ELSE /\ headp' = n /\ UNCHANGED tailp
          /\ link' = [link EXCEPT ![n] = headp]
          /\ prev' = [prev EXCEPT ![n] = NoNode]

\* ListInsert on an unsorted list: the node becomes the head.
PushFront(n) ==
  /\ IF Empty
     THEN /\ headp' = n /\ tailp' = n
          /\ link' = [link EXCEPT ![n] = NoNode]
          /\ prev' = [prev EXCEPT ![n] = NoNode]
     ELSE /\ headp' = n /\ UNCHANGED tailp
          /\ link' = [link EXCEPT ![n] = headp]
          /\ prev' = [[prev EXCEPT ![headp] = n] EXCEPT ![n] = NoNode]

\* ListInsert, whole, under the lock.
ListInsert(n) ==
  /\ Insertable(n)
  /\ Handed(n)
  /\ \/ sorted /\ Empty /\ SortedFirst(n)
     \/ sorted /\ ~Empty /\ Spots(n) # {}
        /\ SortedBefore(n, Elements[Min(Spots(n))])
     \/ sorted /\ ~Empty /\ Spots(n) = {} /\ SortedLast(n)
     \/ ~sorted /\ PushFront(n)

\* ListAppend: a sorted list redirects to ListInsert.
ListAppend(n) ==
  \/ sorted /\ ListInsert(n)
  \/ /\ ~sorted /\ Insertable(n) /\ Handed(n)
     /\ IF Empty
        THEN /\ headp' = n /\ tailp' = n
             /\ prev' = [prev EXCEPT ![n] = NoNode]
             /\ link' = [link EXCEPT ![n] = NoNode]
        ELSE /\ tailp' = n /\ UNCHANGED headp
             /\ link' = [[link EXCEPT ![tailp] = n] EXCEPT ![n] = NoNode]
             /\ prev' = [prev EXCEPT ![n] = tailp]

\* Mutant: Length decremented outside the Headp != NULL check.
ListPopFrontNoSanity ==
  \/ /\ headp = NoNode
     /\ length' = length - 1
     /\ UNCHANGED <<headp, tailp, link, prev, key, sorted, status, unlinked,
                    pc, found>>
  \/ /\ headp # NoNode
     /\ LET cur  == headp
            nxt  == link[cur]
            prv1 == IF nxt # NoNode THEN [prev EXCEPT ![nxt] = NoNode] ELSE prev
        IN /\ headp' = IF tailp = cur THEN NoNode ELSE nxt
           /\ tailp' = IF tailp = cur THEN NoNode ELSE tailp
           /\ link' = [link EXCEPT ![cur] = NoNode]
           /\ prev' = [prv1 EXCEPT ![cur] = NoNode]
           /\ length' = length - 1
           /\ status' = [status EXCEPT ![cur] = "held"]
     /\ UNCHANGED <<key, sorted, unlinked, pc, found>>

(***************************************************************************)
(* ListPopFront: the head leaves the list with its links cleared and is    *)
(* returned to the caller.  An empty list returns NULL and changes nothing.*)
(***************************************************************************)
ListPopFront ==
  /\ headp # NoNode
  /\ LET cur  == headp
         nxt  == link[cur]
         hd   == IF tailp = cur THEN NoNode ELSE nxt
         prv1 == IF nxt # NoNode THEN [prev EXCEPT ![nxt] = NoNode] ELSE prev
     IN /\ headp' = hd
        /\ tailp' = IF tailp = cur THEN NoNode ELSE tailp
        /\ link' = [link EXCEPT ![cur] = NoNode]
        /\ prev' = [prv1 EXCEPT ![cur] = NoNode]
        /\ length' = length - 1
        /\ status' = [status EXCEPT ![cur] = "held"]
  /\ UNCHANGED <<key, sorted, unlinked, pc, found>>

\* ListPopBack is a stub: it returns NULL and leaves the list alone.
ListPopBack == UNCHANGED vars

(***************************************************************************)
(* ListInsertAt: a sorted list redirects to ListInsert; on any other list  *)
(* the body is a TODO, so the node the caller handed in is not linked and  *)
(* stays the caller's.                                                     *)
(***************************************************************************)
ListInsertAt(n) ==
  \/ sorted /\ ListInsert(n)
  \/ ~sorted /\ status[n] = "held" /\ UNCHANGED vars

\* The nodes ListDestroy's ListPopFront loop takes off, in order: the walk
\* from Headp up to Tailp, where a pop of the tail sets Headp to NULL.
Drained ==
  LET t == {i \in 1 .. Len(Elements) : Elements[i] = tailp}
  IN IF t = {} THEN Elements ELSE SubSeq(Elements, 1, Min(t))

(***************************************************************************)
(* ListDestroy: pop every node and ListDestroyNode it, then free the list. *)
(* Each pop clears the node's links and the Prev of the node after it.    *)
(***************************************************************************)
ListDestroy ==
  LET gone == Range(Drained)
      after == {link[x] : x \in gone}
  IN /\ status' = [n \in Nodes |-> IF n \in gone THEN "free" ELSE status[n]]
     /\ headp' = NoNode /\ tailp' = NoNode
     /\ length' = length - Len(Drained)
     /\ link' = [n \in Nodes |-> IF n \in gone THEN NoNode ELSE link[n]]
     /\ prev' = [n \in Nodes |-> IF n \in gone \cup after THEN NoNode
                                  ELSE prev[n]]
     /\ unlinked' = unlinked \ gone
     /\ live' = FALSE
     /\ UNCHANGED <<key, sorted, pc, found>>

(***************************************************************************)
(* The locked part of ListUnlinkNode, as the list it leaves: the O(1)      *)
(* cases on Node->Prev and Node->Link, each checking Headp or Tailp only   *)
(* where the code does.  The node's own links are left as they were.      *)
(***************************************************************************)
Unlinked(n) ==
  LET p == prev[n]
      l == link[n]
      L == [headp |-> headp, tailp |-> tailp, length |-> length,
            link |-> link, prev |-> prev]
  IN CASE headp = NoNode -> L
       [] p = NoNode /\ l = NoNode /\ headp = n ->
            [L EXCEPT !.headp = NoNode, !.tailp = NoNode, !.length = @ - 1]
       [] p = NoNode /\ l # NoNode /\ headp = n ->
            [L EXCEPT !.headp = l, !.prev[l] = NoNode, !.length = @ - 1]
       [] p # NoNode /\ l = NoNode /\ tailp = n ->
            [L EXCEPT !.tailp = p, !.link[p] = NoNode, !.length = @ - 1]
       [] p # NoNode /\ l # NoNode ->
            [L EXCEPT !.link[p] = l, !.prev[l] = p, !.length = @ - 1]
       [] OTHER -> L

SetList(L) ==
  /\ headp' = L.headp /\ tailp' = L.tailp /\ length' = L.length
  /\ link' = L.link /\ prev' = L.prev

\* ListUnlinkNode by a caller that knows the node is listed.
ListUnlinkNode(n) ==
  /\ status[n] = "listed"
  /\ SetList(Unlinked(n))
  /\ status' = [status EXCEPT ![n] = "held"]
  /\ unlinked' = unlinked \cup {n}
  /\ UNCHANGED <<key, sorted, pc, found>>

\* ListRemoveByNode: ListUnlinkNode, then Node->Link and Node->Prev = NULL.
ListRemoveByNode(n) ==
  /\ status[n] = "listed"
  /\ LET L == Unlinked(n)
     IN SetList([L EXCEPT !.link[n] = NoNode, !.prev[n] = NoNode])
  /\ status' = [status EXCEPT ![n] = "held"]
  /\ UNCHANGED <<key, sorted, unlinked, pc, found>>

\* The first node, walking from Headp, whose Key matches: ListGetNodeByKey
\* with n = 0, NULL at once when Headp is NULL or Length is 0.
GetNodeByKey(k) ==
  LET at == {i \in 1 .. Len(Elements) : MatchKey(key[Elements[i]], k)}
  IN IF headp = NoNode \/ length = 0 \/ at = {} THEN NoNode
     ELSE Elements[Min(at)]

(***************************************************************************)
(* ListRemoveByKey(List, Key) of caller c, in the three steps the code     *)
(* takes: the lookup (one lock section), the unlink of the node found      *)
(* (another), then Node->Link = Node->Prev = NULL and ListDestroyNode      *)
(* without the lock.  A lookup that finds nothing returns 0 at once.       *)
(***************************************************************************)
RemoveByKeyLookup(c, k) ==
  /\ pc[c] = "idle"
  /\ GetNodeByKey(k) # NoNode
  /\ found' = [found EXCEPT ![c] = GetNodeByKey(k)]
  /\ pc' = [pc EXCEPT ![c] = "found"]
  /\ UNCHANGED <<headp, tailp, length, link, prev, key, sorted, status,
                 unlinked>>

RemoveByKeyUnlink(c) ==
  /\ pc[c] = "found"
  /\ SetList(Unlinked(found[c]))
  /\ status' = [status EXCEPT ![found[c]] =
                  IF @ = "listed" THEN "taken" ELSE @]
  /\ pc' = [pc EXCEPT ![c] = "unlinked"]
  /\ UNCHANGED <<key, sorted, unlinked, found>>

RemoveByKeyDestroy(c) ==
  /\ pc[c] = "unlinked"
  /\ link' = [link EXCEPT ![found[c]] = NoNode]
  /\ prev' = [prev EXCEPT ![found[c]] = NoNode]
  /\ status' = [status EXCEPT ![found[c]] = "free"]
  /\ unlinked' = unlinked \ {found[c]}
  /\ pc' = [pc EXCEPT ![c] = "idle"]
  /\ found' = [found EXCEPT ![c] = NoNode]
  /\ UNCHANGED <<headp, tailp, length, key, sorted>>

\* No ListRemoveByKey is half done: with one thread, the other calls wait.
Quiet == \A c \in Callers : pc[c] = "idle"

\* The start of a call on the list.  A single thread makes no other call
\* while its ListRemoveByKey is under way.
Call ==
  \/ \E n \in Nodes, k \in Keys : ListCreateNode(n, k)
  \/ \E n \in Nodes : ListDestroyNode(n)
  \/ \E n \in Nodes : ListInsert(n)
  \/ \E n \in Nodes : ListAppend(n)
  \/ \E n \in Nodes : ListInsertAt(n)
  \/ ListPopFront
  \/ ListPopBack
  \/ \E n \in Nodes : ListUnlinkNode(n)
  \/ \E n \in Nodes : ListRemoveByNode(n)
  \/ \E c \in Callers, k \in Keys : RemoveByKeyLookup(c, k)

\* Every call but ListDestroy leaves the List_t allocated; none is made on
\* a destroyed list.
Next ==
  \/ live /\ (Sequential => Quiet) /\ Call /\ UNCHANGED live
  \/ live /\ (Sequential => Quiet) /\ ListDestroy
  \/ \E c \in Callers : RemoveByKeyUnlink(c) /\ UNCHANGED live
  \/ \E c \in Callers : RemoveByKeyDestroy(c) /\ UNCHANGED live

Spec == Init /\ [][Next]_vars

-----------------------------------------------------------------------------

\* ListLength: List->Length, read under the lock.
ListLength == length

\* What the list holds, as ListAbstract sees it: the walk from Headp, and
\* the node of a ListRemoveByKey that has looked it up and not yet unlinked.
AL == INSTANCE ListAbstract
        WITH seq <- Elements, count <- ListLength,
             found <- [c \in Callers |-> IF pc[c] = "found" THEN found[c]
                                         ELSE NoNode]

TypeOK ==
  /\ headp \in Nodes \cup {NoNode} /\ tailp \in Nodes \cup {NoNode}
  /\ length \in 0 .. Cardinality(Nodes)
  /\ link \in [Nodes -> Nodes \cup {NoNode}]
  /\ prev \in [Nodes -> Nodes \cup {NoNode}]
  /\ key \in [Nodes -> Keys]
  /\ sorted \in BOOLEAN
  /\ status \in [Nodes -> {"free", "held", "listed", "taken"}]
  /\ unlinked \subseteq Nodes
  /\ pc \in [Callers -> {"idle", "found", "unlinked"}]
  /\ found \in [Callers -> Nodes \cup {NoNode}]
  /\ live \in BOOLEAN

(***************************************************************************)
(* Every behaviour of the linked list is one of the abstract list: the     *)
(* walk from Headp along Link is the sequence of nodes the calls put in,   *)
(* sorted on insertion when LIST_SORT_ONINSERT is set, Length is its       *)
(* length, and ListRemoveByKey removes the first node with the key.  It    *)
(* fails if an insertion, an unlink's O(1) cases or a stale Node->Prev     *)
(* leaves Headp, Tailp, Link, Prev and Length disagreeing.                 *)
(***************************************************************************)
ImplementsAbstractList == AL!ASpec

====
