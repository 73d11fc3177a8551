---------------------------- MODULE OhciPeriodic ----------------------------
(***************************************************************************)
(* The periodic (interrupt and isochronous) schedule of the OHCI driver,   *)
(* src/modules/Usb/Ohci/Ohci.c: the static interrupt tree OhciInitQueues   *)
(* builds behind the 32 HCCA InterruptTable slots, the insertion of a      *)
(* request's ED by OhciTransactionSend and its removal by                  *)
(* OhciTransactionDestroy.  Both mutate the tree under Ctrl->Lock with the *)
(* periodic list disabled, so each is one step.  Nodes are named by        *)
(* address: IntrTable entry k is node k + 1 (Ms16 at 0..15, Ms8 at 16..23,*)
(* Ms4 at 24..27, Ms2 at 28..29, Ms1 at 30); node 32 is the entry just     *)
(* past Ms1, and the EDs kmalloc hands out for periodic requests follow.   *)
(***************************************************************************)
EXTENDS Naturals, FiniteSets

CONSTANTS
  Requests,   \* periodic requests issued on this controller
  NumHeapEd,  \* addresses kmalloc may return for a periodic ED
  Intervals,  \* values of Request->Endpoint->Interval
  MaxSends    \* bound on the periodic transfers set up in a behaviour

ASSUME NumHeapEd \in Nat \ {0} /\ Intervals \subseteq Nat \ {0}
       /\ MaxSends \in Nat

Null   == 0                  \* a NextED of 0
Ms16(i) == 1 + i
Ms8(i)  == 17 + i
Ms4(i)  == 25 + i
Ms2(i)  == 29 + i
Ms1     == 31
Beyond  == 32                \* IntrTable + 31 entries: past Ms1
Static  == 1 .. 32
HeapEds == 33 .. 32 + NumHeapEd
Nodes   == Static \cup HeapEds
Slots   == 0 .. 31           \* HCCA->InterruptTable / Controller->ED32
Periods == {2, 4, 8, 16, 32} \* the rotating indices I2 .. I32

\* _Balance: the bottom-level entry behind InterruptTable[i] and [i + 16].
Balance == << 0, 8, 4, 12, 2, 10, 6, 14, 1, 9, 5, 13, 3, 11, 7, 15 >>

(***************************************************************************)
(* The links OhciInitQueues writes.  Entry i of a level points to entry    *)
(* i / 2 of the next one, as EdLevel + (i / 2) * sizeof(ED).  For the 2 ms *)
(* entries the code writes EdLevel + sizeof(ED), where EdLevel is already  *)
(* the Ms1 entry: they point one entry past it.  Ms1 ends the tree.  The   *)
(* entry past Ms1 is memory of the HCCA page OhciInitQueues never writes.  *)
(***************************************************************************)
TreeNext(n) ==
  CASE n \in 1 .. 16  -> Ms8((n - 1) \div 2)
    [] n \in 17 .. 24 -> Ms4((n - 17) \div 2)
    [] n \in 25 .. 28 -> Ms2((n - 25) \div 2)
    [] n \in 29 .. 30 -> Ms1 + 1
    [] OTHER          -> Null

(***************************************************************************)
(* The period loop of OhciTransactionSend and OhciTransactionDestroy:      *)
(* for (Period = 32; Period >= Interval && Period > 0;) Period >>= 1;      *)
(***************************************************************************)
RECURSIVE PeriodLoop(_, _)
PeriodLoop(p, interval) ==
  IF p >= interval /\ p > 0 THEN PeriodLoop(p \div 2, interval) ELSE p

Period(interval) == PeriodLoop(32, interval)

VARIABLES
  next,      \* NextED (and NextEDVirtual) of every node
  ed32,      \* Controller->ED32[i], mirrored in HCCA->InterruptTable[i]
  idx,       \* Controller->I2, I4, I8, I16, I32
  live,      \* periodic EDs allocated and not yet freed
  pc,        \* where each request is: "idle", "built" or "linked"
  edOf,      \* Request->Data
  interval,  \* Request->Endpoint->Interval
  sends      \* transfers set up so far, against MaxSends

vars == <<next, ed32, idx, live, pc, edOf, interval, sends>>

\* Following NextED links from n, at most k of them.
RECURSIVE ChainFrom(_, _)
ChainFrom(n, k) ==
  IF n = Null \/ k = 0 THEN {} ELSE {n} \cup ChainFrom(next[n], k - 1)

\* Every node the controller visits in some frame.
Reach == UNION {ChainFrom(ed32[f], Cardinality(Nodes)) : f \in Slots}

Init ==
  /\ \E garbage \in {Null, Ms1} :
       next = [n \in Nodes |-> IF n = Beyond THEN garbage ELSE TreeNext(n)]
  /\ ed32 = [f \in Slots |-> Ms16(Balance[(f % 16) + 1])]
  /\ idx = [p \in Periods |-> 0]
  /\ live = {}
  /\ pc = [r \in Requests |-> "idle"]
  /\ edOf = [r \in Requests |-> Null]
  /\ interval = [r \in Requests |-> CHOOSE i \in Intervals : TRUE]
  /\ sends = 0

(***************************************************************************)
(* OhciTransactionInit for an interrupt or isochronous request:            *)
(* OhciAllocateEp kmallocs a fresh, zeroed ED (any address not in use).    *)
(***************************************************************************)
TransactionInit(r, iv) ==
  /\ pc[r] = "idle"
  /\ sends < MaxSends
  /\ \E e \in HeapEds \ live :
       /\ live' = live \cup {e}
       /\ edOf' = [edOf EXCEPT ![r] = e]
       /\ next' = [next EXCEPT ![e] = Null]
  /\ interval' = [interval EXCEPT ![r] = iv]
  /\ pc' = [pc EXCEPT ![r] = "built"]
  /\ sends' = sends + 1
  /\ UNCHANGED <<ed32, idx>>

\* The entry OhciTransactionSend links the ED behind, by period.
InsertPoint(p) ==
  CASE p = 1  -> Ms1
    [] p = 2  -> Ms2(idx[2])
    [] p = 4  -> Ms4(idx[4])
    [] p = 8  -> Ms8(idx[8])
    [] p = 16 -> Ms16(idx[16])
    [] OTHER  -> ed32[idx[32]]

\* Mutant: the increments without their "if (Ctrl->I4 == 4) ... = 0" wrap.
RotatedNoWrap(p) ==
  IF p \in Periods \ {32} THEN [idx EXCEPT ![p] = @ + 1]
  ELSE IF p = 1 THEN idx
  ELSE [idx EXCEPT ![32] = @ + 1]

\* The rotating index the insertion advances (I32 for the 32 branch).
Rotated(p) ==
  IF p \in Periods \ {32} THEN [idx EXCEPT ![p] = (@ + 1) % p]
  ELSE IF p = 1 THEN idx
  ELSE [idx EXCEPT ![32] = (@ + 1) % 32]

(***************************************************************************)
(* OhciTransactionSend, periodic branch, under Ctrl->Lock with the         *)
(* periodic list disabled.  A period of 32 (and of 0, which the loop       *)
(* yields for an interval of 1) takes the else branch: the ED becomes the  *)
(* head of slot I32.  For every period other than 32 the "Sanity" block    *)
(* then links the ED behind IEd, which for a period of 0 is the old head   *)
(* of the slot the ED now heads.                                           *)
(***************************************************************************)
TransactionSend(r) ==
  /\ pc[r] = "built"
  /\ LET e   == edOf[r]
         p   == Period(interval[r])
         iEd == InsertPoint(p)
         big == p \notin {1, 2, 4, 8, 16}
     IN /\ next' = IF p = 32 THEN [next EXCEPT ![e] = iEd]
                   ELSE [next EXCEPT ![e] = next[iEd], ![iEd] = e]
        /\ ed32' = IF big THEN [ed32 EXCEPT ![idx[32]] = e] ELSE ed32
        /\ idx' = Rotated(p)
  /\ pc' = [pc EXCEPT ![r] = "linked"]
  /\ UNCHANGED <<live, edOf, interval, sends>>

\* The entry OhciTransactionDestroy starts its search from: index 0 of
\* the level, or ED32[0].
SearchStart(p) ==
  CASE p = 1  -> Ms1
    [] p = 2  -> Ms2(0)
    [] p = 4  -> Ms4(0)
    [] p = 8  -> Ms8(0)
    [] p = 16 -> Ms16(0)
    [] OTHER  -> ed32[0]

(***************************************************************************)
(* The search loop: walk NextEDVirtual from iEd until Ed, giving up at a   *)
(* NextED of 0.  The result is <<found, PrevIEd>>; found is Null when the  *)
(* ED is not on the chain.  k bounds the walk by the number of nodes.      *)
(***************************************************************************)
RECURSIVE Search(_, _, _, _)
Search(iEd, prev, e, k) ==
  IF iEd = e THEN <<e, prev>>
  ELSE IF next[iEd] = Null \/ k = 0 THEN <<Null, prev>>
  ELSE Search(next[iEd], iEd, e, k - 1)

\* Mutant: the skip written on the search start rather than on PrevIEd.
TransactionDestroyFromStart(r) ==
  /\ pc[r] = "linked"
  /\ LET e     == edOf[r]
         p     == Period(interval[r])
         found == Search(SearchStart(p), Null, e, Cardinality(Nodes))
     IN /\ next' = IF found[1] # Null /\ found[2] # Null
                   THEN [next EXCEPT ![SearchStart(p)] = next[e]] ELSE next
        /\ ed32' = IF found[1] # Null /\ found[2] = Null /\ p = 32
                   THEN [ed32 EXCEPT ![0] = next[e]] ELSE ed32
        /\ live' = live \ {e}
  /\ pc' = [pc EXCEPT ![r] = "idle"]
  /\ edOf' = [edOf EXCEPT ![r] = Null]
  /\ UNCHANGED <<idx, interval, sends>>

(***************************************************************************)
(* OhciTransactionDestroy, periodic branch: under the lock, with the list  *)
(* disabled, find the ED from the search start and make its predecessor    *)
(* (or ED32[0] and InterruptTable[0]) skip it; then, whether or not it was *)
(* found, kfree(Request->Data).                                            *)
(***************************************************************************)
TransactionDestroy(r) ==
  /\ pc[r] = "linked"
  /\ LET e     == edOf[r]
         p     == Period(interval[r])
         found == Search(SearchStart(p), Null, e, Cardinality(Nodes))
         prev  == found[2]
     IN /\ next' = IF found[1] # Null /\ prev # Null
                   THEN [next EXCEPT ![prev] = next[e]] ELSE next
        /\ ed32' = IF found[1] # Null /\ prev = Null /\ p = 32
                   THEN [ed32 EXCEPT ![0] = next[e]] ELSE ed32
        /\ live' = live \ {e}
  /\ pc' = [pc EXCEPT ![r] = "idle"]
  /\ edOf' = [edOf EXCEPT ![r] = Null]
  /\ UNCHANGED <<idx, interval, sends>>

Next ==
  \/ \E r \in Requests, iv \in Intervals : TransactionInit(r, iv)
  \/ \E r \in Requests : TransactionSend(r)
  \/ \E r \in Requests : TransactionDestroy(r)

Spec == Init /\ [][Next]_vars

-----------------------------------------------------------------------------

TypeOK ==
  /\ next \in [Nodes -> Nodes \cup {Null}]
  /\ ed32 \in [Slots -> Nodes]
  /\ idx \in {f \in [Periods -> 0 .. 31] : \A p \in Periods : f[p] < p}
  /\ live \subseteq HeapEds
  /\ pc \in [Requests -> {"idle", "built", "linked"}]
  /\ edOf \in [Requests -> HeapEds \cup {Null}]
  /\ interval \in [Requests -> Intervals]
  /\ sends \in 0 .. MaxSends

(***************************************************************************)
(* The controller's walk of a frame ends: no NextED chain of the periodic  *)
(* schedule returns to a node it left.  OhciTransactionSend links an ED    *)
(* behind its insertion point and OhciTransactionDestroy's search assumes  *)
(* the chain it walks ends in a NextED of 0; a loop would keep the         *)
(* controller and that search spinning.                                    *)
(***************************************************************************)
ScheduleAcyclic ==
  \A n \in Nodes : n \notin ChainFrom(next[n], Cardinality(Nodes))

(***************************************************************************)
(* OhciTransactionDestroy takes nothing off the schedule but the ED it     *)
(* tears down: every other node the controller visited in some frame it    *)
(* still visits afterwards.  A wrong PrevIEd, or a skip over more than one *)
(* link, would silently stop the polling of another device's endpoint.     *)
(***************************************************************************)
DestroyUnlinksOnlyItsEd ==
  [][\A r \in Requests :
       TransactionDestroy(r) => Reach \ {edOf[r]} \subseteq Reach']_vars

(***************************************************************************)
(* An ED the driver has kfree'd is not on the schedule: the controller     *)
(* never reads an ED from freed memory.  OhciTransactionDestroy frees      *)
(* Request->Data whether or not its search found and unlinked it.          *)
(***************************************************************************)
FreedEdUnreachable ==
  \A e \in HeapEds \ live : e \notin Reach

====
