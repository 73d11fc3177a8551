----------------------------- MODULE OhciAsync -----------------------------
(***************************************************************************)
(* The asynchronous (control and bulk) half of the OHCI transfer engine,   *)
(* src/modules/Usb/Ohci/Ohci.c.  Three kinds of actor share the            *)
(* controller state:                                                       *)
(*   - submitting threads: OhciTransactionInit, OhciTransactionSend (which *)
(*     parks the caller on its ED), the status loop after waking, and     *)
(*     OhciTransactionDestroy;                                             *)
(*   - the host controller, which serves the EDs reachable from            *)
(*     HcControlHeadED / HcBulkHeadED, retires their TDs onto its done     *)
(*     queue and writes that queue back to the HCCA;                       *)
(*   - OhciInterruptHandler with OhciProcessDoneQueue and                  *)
(*     OhciReloadControlBulk.                                              *)
(* A request's TD chain is abstracted to the number of its TDs the        *)
(* controller has not retired; a done-queue entry is named by the ED whose *)
(* TD it is (the handler matches it against every TD of every request, and *)
(* a TD belongs to one live request only) and by whether it is the last TD *)
(* of the chain, the only one without X86_OHCI_TRANSFER_BUF_NO_INTERRUPT.   *)
(***************************************************************************)
EXTENDS Naturals, Sequences, FiniteSets

CONSTANTS
  Submitters,  \* threads issuing USB requests on this controller
  NumEd,       \* X86_OHCI_POOL_NUM_ED
  MaxTds,      \* bound on the TDs of one request's chain
  Control,     \* ControlTransfer
  Bulk         \* BulkTransfer

ASSUME NumEd \in Nat \ {0} /\ MaxTds \in Nat \ {0}

Types == {Control, Bulk}
EDs   == 1..NumEd      \* Controller->EDPool, in the order the scan visits
NoEd  == 0             \* a NULL NextED / head pointer / queue

VARIABLES
  pc,         \* where each submitter is in its request
  edOf,       \* Request->Data: the pool ED of the submitter's request
  allocated,  \* EDs whose HcdFlags carry X86_OHCI_ED_ALLOCATED
  edType,     \* the transfer type in each ED's Flags
  nextEd,     \* each ED's NextED
  pending,    \* per ED, its TDs the controller has not retired yet
  hwHead,     \* HcControlHeadED / HcBulkHeadED
  queue,      \* TransactionQueueControl / TransactionQueueBulk
  waiting,    \* TransactionsWaitingControl / TransactionsWaitingBulk
  transList,  \* Controller->TransactionList: EDs of requests not yet completed
  hcDone,     \* the controller's internal done queue, newest TD first
  headDone    \* HCCA->HeadDone: the done queue written back, or <<>>

vars == <<pc, edOf, allocated, edType, nextEd, pending, hwHead, queue,
          waiting, transList, hcDone, headDone>>

-----------------------------------------------------------------------------
\* Following NextED links from e, at most n of them.
RECURSIVE ChainFrom(_, _)
ChainFrom(e, n) ==
  IF e = NoEd \/ n = 0 THEN {} ELSE {e} \cup ChainFrom(nextEd[e], n - 1)

\* The EDs the controller visits, or the wait queue holds, starting at e.
Listed(e) == ChainFrom(e, NumEd)

\* "Find tail": while (Ed->NextED) Ed = Ed->NextEDVirtual.
RECURSIVE TailFrom(_, _)
TailFrom(e, n) ==
  IF nextEd[e] = NoEd \/ n = 0 THEN e ELSE TailFrom(nextEd[e], n - 1)

\* The end of OhciReset: HCCA->HeadDone and both list heads 0, the control
\* and bulk lists enabled and the HEAD_DONE interrupt unmasked.
ResetState ==
  /\ hwHead    = [t \in Types |-> NoEd]
  /\ headDone  = <<>>

Init ==
  /\ ResetState
  /\ pc        = [s \in Submitters |-> "idle"]
  /\ edOf      = [s \in Submitters |-> NoEd]
  /\ allocated = {}
  /\ edType    = [e \in EDs |-> Control]
  /\ nextEd    = [e \in EDs |-> NoEd]
  /\ pending   = [e \in EDs |-> 0]
  /\ queue     = [t \in Types |-> NoEd]
  /\ waiting   = [t \in Types |-> 0]
  /\ transList = {}
  /\ hcDone    = <<>>

\* Mutant: the scan does not skip EDs already marked allocated.
FirstFreeIgnoresFlag == CHOOSE e \in EDs : \A f \in EDs : e <= f

\* OhciAllocateEp, under Controller->Lock: the first pool ED not allocated.
\* An exhausted pool is a kernel panic; the guard leaves that state out.
FirstFree == CHOOSE e \in EDs \ allocated : \A f \in EDs \ allocated : e <= f

\* OhciTransactionInit for a control or bulk request of type ty.
TransactionInit(s, ty) ==
  /\ pc[s] = "idle"
  /\ allocated # EDs
  /\ allocated' = allocated \cup {FirstFree}
  /\ edOf' = [edOf EXCEPT ![s] = FirstFree]
  /\ edType' = [edType EXCEPT ![FirstFree] = ty]
  /\ pc' = [pc EXCEPT ![s] = "built"]
  /\ UNCHANGED <<nextEd, pending, hwHead, queue, waiting, transList,
                 hcDone, headDone>>

(***************************************************************************)
(* OhciTransactionSend for a control or bulk request of n TDs.  The last  *)
(* TD's NO_INTERRUPT flag is cleared and OhciEpInit gives the ED the       *)
(* chain; under the lock the request joins TransactionList   *)
(* and SKIP is cleared.  With requests already waiting the ED goes to the  *)
(* tail of the software wait queue; otherwise it becomes the list head the *)
(* controller serves.  The caller then sleeps on its ED.                   *)
(***************************************************************************)
TransactionSend(s) ==
  LET e  == edOf[s]
      ty == edType[e]
  IN
  /\ pc[s] = "built"
  /\ \E n \in 1..MaxTds : pending' = [pending EXCEPT ![e] = n]
  /\ transList' = transList \cup {e}
  /\ IF waiting[ty] > 0
       THEN /\ IF queue[ty] = NoEd
                 THEN /\ queue' = [queue EXCEPT ![ty] = e]
                      /\ UNCHANGED nextEd
                 ELSE /\ nextEd' = [nextEd EXCEPT ![TailFrom(queue[ty], NumEd)] = e]
                      /\ UNCHANGED queue
            /\ UNCHANGED hwHead
       ELSE /\ hwHead' = [hwHead EXCEPT ![ty] = e]
            /\ UNCHANGED <<queue, nextEd>>
  /\ waiting' = [waiting EXCEPT ![ty] = @ + 1]
  /\ pc' = [pc EXCEPT ![s] = "sleeping"]
  /\ UNCHANGED <<edOf, allocated, edType, hcDone, headDone>>

\* After the wake-up: the condition-code loop and the copy of the data.
TransactionComplete(s) ==
  /\ pc[s] = "woken"
  /\ pc' = [pc EXCEPT ![s] = "completed"]
  /\ UNCHANGED <<edOf, allocated, edType, nextEd, pending, hwHead, queue,
                 waiting, transList, hcDone, headDone>>

(***************************************************************************)
(* OhciTransactionDestroy for control and bulk: the TDs and the ED are     *)
(* zeroed, which clears ALLOCATED (returning the ED to the pool), its      *)
(* NextED and its TD pointers.  No lock is taken and the ED is not         *)
(* unlinked from the controller's list or the wait queue.                  *)
(***************************************************************************)
\* Mutant: the ED is returned to the pool with its NextED left as it was.
TransactionDestroyKeepsNext(s) ==
  LET e == edOf[s] IN
  /\ pc[s] = "completed"
  /\ allocated' = allocated \ {e}
  /\ pending' = [pending EXCEPT ![e] = 0]
  /\ edType' = [edType EXCEPT ![e] = Control]
  /\ edOf' = [edOf EXCEPT ![s] = NoEd]
  /\ pc' = [pc EXCEPT ![s] = "idle"]
  /\ UNCHANGED <<nextEd, hwHead, queue, waiting, transList, hcDone, headDone>>

TransactionDestroy(s) ==
  LET e == edOf[s] IN
  /\ pc[s] = "completed"
  /\ allocated' = allocated \ {e}
  /\ nextEd' = [nextEd EXCEPT ![e] = NoEd]
  /\ pending' = [pending EXCEPT ![e] = 0]
  /\ edType' = [edType EXCEPT ![e] = Control]
  /\ edOf' = [edOf EXCEPT ![s] = NoEd]
  /\ pc' = [pc EXCEPT ![s] = "idle"]
  /\ UNCHANGED <<hwHead, queue, waiting, transList, hcDone, headDone>>

-----------------------------------------------------------------------------
\* The host controller serves an ED it reaches from a list head and retires
\* its next TD onto the done queue (the OHCI done queue is a LIFO chain).
HcServeEd(e) ==
  /\ pending[e] > 0
  /\ \E ty \in Types : e \in Listed(hwHead[ty])
  /\ pending' = [pending EXCEPT ![e] = @ - 1]
  /\ hcDone' = <<[ed |-> e, last |-> pending[e] = 1]>> \o hcDone
  /\ UNCHANGED <<pc, edOf, allocated, edType, nextEd, hwHead, queue, waiting,
                 transList, headDone>>

\* At the end of a frame the controller writes its done queue to the HCCA,
\* if software has cleared HeadDone, and raises WritebackDoneHead.  Its
\* interrupt delay counter only runs once a TD without NO_INTERRUPT retired.
HcWritebackDoneHead ==
  /\ \E i \in DOMAIN hcDone : hcDone[i].last
  /\ headDone = <<>>
  /\ headDone' = hcDone
  /\ hcDone' = <<>>
  /\ UNCHANGED <<pc, edOf, allocated, edType, nextEd, pending, hwHead, queue,
                 waiting, transList>>

(***************************************************************************)
(* OhciReloadControlBulk, under the lock: if requests are waiting the wait *)
(* queue becomes the list head (a null queue makes a null head); then the  *)
(* queue and the waiting count are reset.                                  *)
(***************************************************************************)
\* Mutant: the waiting count is not reset after the reload.
ReloadKeepsCount(ty) ==
  /\ hwHead' = IF waiting[ty] > 0 THEN [hwHead EXCEPT ![ty] = queue[ty]]
                                  ELSE hwHead
  /\ queue' = [queue EXCEPT ![ty] = NoEd]
  /\ UNCHANGED waiting

ReloadControlBulk(ty) ==
  /\ hwHead' = IF waiting[ty] > 0 THEN [hwHead EXCEPT ![ty] = queue[ty]]
                                  ELSE hwHead
  /\ queue' = [queue EXCEPT ![ty] = NoEd]
  /\ waiting' = [waiting EXCEPT ![ty] = 0]

(***************************************************************************)
(* OhciProcessDoneQueue(DoneHeadAddr) for a control or bulk TD: the first  *)
(* request owning the TD has its list reloaded, its sleeper woken          *)
(* (SchedulerWakeupOneThread on the ED) and is removed from the list.      *)
(***************************************************************************)
ProcessDoneQueue(td) ==
  IF td.ed \in transList
    THEN /\ ReloadControlBulk(edType[td.ed])
         /\ pc' = [s \in Submitters |->
                     IF edOf[s] = td.ed /\ pc[s] = "sleeping" THEN "woken" ELSE pc[s]]
         /\ transList' = transList \ {td.ed}
    ELSE UNCHANGED <<hwHead, queue, waiting, pc, transList>>

(***************************************************************************)
(* OhciInterruptHandler for WritebackDoneHead: the address in HeadDone,    *)
(* the newest retired TD, goes to OhciProcessDoneQueue; then HeadDone is   *)
(* cleared and the interrupt acknowledged.                                 *)
(***************************************************************************)
InterruptHandler ==
  /\ headDone # <<>>
  /\ ProcessDoneQueue(Head(headDone))
  /\ headDone' = <<>>
  /\ UNCHANGED <<edOf, allocated, edType, nextEd, pending, hcDone>>

Next ==
  \/ \E s \in Submitters :
       \/ \E ty \in Types : TransactionInit(s, ty)
       \/ TransactionSend(s)
       \/ TransactionComplete(s)
       \/ TransactionDestroy(s)
  \/ \E e \in EDs : HcServeEd(e)
  \/ HcWritebackDoneHead
  \/ InterruptHandler

(***************************************************************************)
(* Fairness: the controller serves every ED it can reach and writes back   *)
(* its done queue at the end of a frame; the interrupt is delivered; a     *)
(* woken submitter runs on to the end of its request.  Starting requests   *)
(* is up to the USB stack and gets no fairness.                            *)
(***************************************************************************)
Fairness ==
  /\ \A e \in EDs : WF_vars(HcServeEd(e))
  /\ WF_vars(HcWritebackDoneHead)
  /\ WF_vars(InterruptHandler)
  /\ \A s \in Submitters : WF_vars(TransactionComplete(s) \/ TransactionDestroy(s))

Spec == Init /\ [][Next]_vars /\ Fairness

-----------------------------------------------------------------------------
\* Properties.

Ptr == EDs \cup {NoEd}
DoneTd == [ed : EDs, last : BOOLEAN]

TypeOK ==
  /\ pc \in [Submitters -> {"idle", "built", "sleeping", "woken", "completed"}]
  /\ edOf \in [Submitters -> Ptr]
  /\ allocated \subseteq EDs /\ transList \subseteq EDs
  /\ pending \in [EDs -> 0..MaxTds]
  /\ edType \in [EDs -> Types]
  /\ nextEd \in [EDs -> Ptr]
  /\ hwHead \in [Types -> Ptr] /\ queue \in [Types -> Ptr]
  /\ waiting \in [Types -> 0..Cardinality(Submitters)]
  /\ hcDone \in Seq(DoneTd) /\ headDone \in Seq(DoneTd)

(***************************************************************************)
(* The ED pool hands every request its own ED: no two submitters hold the  *)
(* same pool ED, and every ED held is marked allocated.                    *)
(***************************************************************************)
EdPoolExclusive ==
  \A s, r \in Submitters :
    edOf[s] # NoEd => /\ edOf[s] \in allocated
                      /\ (s # r => edOf[s] # edOf[r])

(***************************************************************************)
(* A submitter is woken only after the controller has retired its request: *)
(* the condition codes it reads after SchedulerSleepThread are final.      *)
(***************************************************************************)
WokenOnlyWhenRetired ==
  \A s \in Submitters : pc[s] \in {"woken", "completed"} => pending[edOf[s]] = 0

(***************************************************************************)
(* A submitted request the controller has not retired stays where the      *)
(* controller will find it: on the list it serves or in the wait queue     *)
(* OhciReloadControlBulk will hand it.                                     *)
(***************************************************************************)
PendingEdReachable ==
  \A s \in Submitters :
    (pc[s] = "sleeping" /\ pending[edOf[s]] > 0) =>
      \E ty \in Types : edOf[s] \in Listed(hwHead[ty]) \cup Listed(queue[ty])

(***************************************************************************)
(* A request the controller has retired but whose submitter still sleeps   *)
(* is still on a done queue, so the interrupt handler will deliver it.     *)
(***************************************************************************)
DoneEds(q) == {q[i].ed : i \in DOMAIN q}

CompletionDelivered ==
  \A s \in Submitters :
    (pc[s] = "sleeping" /\ pending[edOf[s]] = 0) =>
      edOf[s] \in DoneEds(hcDone) \cup DoneEds(headDone)

(***************************************************************************)
(* The NextED links never close a cycle, so the controller's list walk and *)
(* the "find tail" loop of OhciTransactionSend both terminate.             *)
(***************************************************************************)
EdListAcyclic == \A e \in EDs : e \notin ChainFrom(nextEd[e], NumEd)

=============================================================================
