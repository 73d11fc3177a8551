---------------------------- MODULE ListAbstract ----------------------------
(***************************************************************************)
(* What the generic list of src/librt/libos/ds/List.c promises its         *)
(* callers: an ordered sequence of distinct nodes, kept sorted by key when *)
(* the list was created with LIST_SORT_ONINSERT, whose length ListLength   *)
(* reports.  Each operation is one atomic step, as under List->Lock.       *)
(* ListRemoveByKey is two steps, a lookup and a removal of the node found, *)
(* as the code's two lock sections are.                                    *)
(***************************************************************************)
EXTENDS Naturals, Sequences, SequencesExt

CONSTANTS Nodes, Keys, Callers, NoNode

VARIABLES
  seq,     \* the nodes in list order
  count,   \* what ListLength returns
  key,     \* each node's Key (and SortKey)
  sorted,  \* LIST_SORT_ONINSERT
  found    \* the node each caller's ListRemoveByKey looked up

avars == <<seq, count, key, sorted, found>>

\* seq with node n inserted before the first node whose key is not smaller.
SortedInsert(s, n) ==
  LET before == {i \in 1 .. Len(s) : ~(key[n] > key[s[i]])}
  IN IF before = {} THEN Append(s, n)
     ELSE InsertAt(s, Min(before), n)

\* The first node of the list with key k, if any.
FirstWithKey(k) ==
  LET at == {i \in 1 .. Len(seq) : key[seq[i]] = k}
  IN IF at = {} THEN NoNode ELSE seq[Min(at)]

AInit ==
  /\ seq = <<>>
  /\ count = 0
  /\ key \in [Nodes -> Keys]
  /\ sorted \in BOOLEAN
  /\ found = [c \in Callers |-> NoNode]

ASetKey(n, k) ==
  /\ n \notin Range(seq)
  /\ key' = [key EXCEPT ![n] = k]
  /\ UNCHANGED <<seq, count, sorted, found>>

\* Insertion (ListInsert, and ListAppend, which a sorted list redirects).
AInsert(n, atBack) ==
  /\ n \notin Range(seq)
  /\ seq' = CASE sorted -> SortedInsert(seq, n)
              [] atBack -> Append(seq, n)
              [] OTHER  -> <<n>> \o seq
  /\ count' = count + 1
  /\ UNCHANGED <<key, sorted, found>>

APopFront ==
  /\ seq # <<>>
  /\ seq' = Tail(seq)
  /\ count' = count - 1
  /\ UNCHANGED <<key, sorted, found>>

\* Removal of a node: nothing happens when it is not on the list.
Drop(n) ==
  /\ seq' = SelectSeq(seq, LAMBDA x : x # n)
  /\ count' = count - (Len(seq) - Len(seq'))

ARemove(n) ==
  /\ Drop(n)
  /\ UNCHANGED <<key, sorted, found>>

AFind(c, k) ==
  /\ found' = [found EXCEPT ![c] = FirstWithKey(k)]
  /\ UNCHANGED <<seq, count, key, sorted>>

ARemoveFound(c) ==
  /\ Drop(found[c])
  /\ found' = [found EXCEPT ![c] = NoNode]
  /\ UNCHANGED <<key, sorted>>

\* The list is emptied and given up.
ADestroy ==
  /\ seq' = <<>>
  /\ count' = 0
  /\ UNCHANGED <<key, sorted, found>>

ANext ==
  \/ \E n \in Nodes, k \in Keys : ASetKey(n, k)
  \/ \E n \in Nodes, b \in BOOLEAN : AInsert(n, b)
  \/ APopFront
  \/ \E n \in Nodes : ARemove(n)
  \/ \E c \in Callers, k \in Keys : AFind(c, k)
  \/ \E c \in Callers : ARemoveFound(c)
  \/ ADestroy

ASpec == AInit /\ [][ANext]_avars

====
