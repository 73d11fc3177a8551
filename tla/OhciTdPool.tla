----------------------------- MODULE OhciTdPool -----------------------------
(***************************************************************************)
(* The transfer-descriptor pool of one OHCI control or bulk endpoint,      *)
(* src/modules/Usb/Ohci/Ohci.c.                                            *)
(*   - OhciEndpointSetup sizes the pool by the endpoint type, allocates    *)
(*     the TD block and carves one MaxPacketSize buffer per TD out of      *)
(*     pages from kmalloc_a;                                               *)
(*   - submitting threads build a request TD by TD: OhciTdSetup/OhciTdIo   *)
(*     take a TD from OhciAllocateTd (a first-free scan under Ep->Lock,    *)
(*     kernel_panic when the pool is exhausted), fill it with               *)
(*     Flags = X86_OHCI_TD_ALLOCATED | ..., and OhciTransactionSetup/In/Out *)
(*     link it behind the request's previous TD;                           *)
(*   - OhciTransactionDestroy zeroes every TD of the request, which clears *)
(*     ALLOCATED and returns it to the pool;                               *)
(*   - OhciEndpointDestroy kfree's every TD buffer and the TD block.       *)
(* Addresses are small integers: kmalloc_a(PAGE_SIZE) hands out the next   *)
(* fresh page-aligned page.  The TD contents (PID, toggle, Cbp, the setup  *)
(* packet) and the transfer itself (OhciAsync) are left out.               *)
(***************************************************************************)
EXTENDS Integers, Sequences, FiniteSets

CONSTANTS
  Submitters,      \* threads issuing requests on this endpoint
  Control, Bulk,   \* X86_USB_EP_TYPE_CONTROL / X86_USB_EP_TYPE_BULK
  MinAllocated,    \* OHCI_ENDPOINT_MIN_ALLOCATED
  MaxIoSize,       \* DEVICEMANAGER_MAX_IO_SIZE
  PacketSizes,     \* the MaxPacketSize values a device may report
  PageSize,        \* PAGE_SIZE
  MaxTds           \* bound: TDs one request builds

ASSUME /\ MinAllocated \in Nat \ {0}
       /\ PacketSizes \subseteq 1..PageSize
       /\ MaxTds \in Nat \ {0}

PoolBlock == 0                 \* the TD block, kmalloc'd apart from the pages
MaxPool   == MinAllocated + MaxIoSize   \* a bound on TdsAllocated
Tds       == 1..MaxPool
NoTd      == 0

VARIABLES
  epState,   \* "none" before OhciEndpointSetup, "ready", or "destroyed"
  numTds,    \* oEp->TdsAllocated
  mps,       \* Endpoint->MaxPacketSize
  bufs,      \* oEp->TDPoolBuffers: the buffer address of each TD
  pages,     \* the pages kmalloc_a returned to OhciEndpointSetup
  flagged,   \* TDs whose Flags carry X86_OHCI_TD_ALLOCATED
  pc,        \* where each submitter is in its request
  cur,       \* the TD OhciAllocateTd returned to the submitter's TdSetup/TdIo
  tds,       \* Request->Transactions: the request's TDs in link order
  freed,     \* the addresses OhciEndpointDestroy passed to kfree, in order
  panicked   \* kernel_panic("ran out of TD's") has been called

vars == <<epState, numTds, mps, bufs, pages, flagged, pc, cur, tds, freed, panicked>>

-----------------------------------------------------------------------------
(***************************************************************************)
(* The buffer carving of OhciEndpointSetup.  r holds BufAddr (buf),        *)
(* BufAddrMax (max), the pages allocated so far and the buffers handed     *)
(* out; kmalloc_a returns the next fresh page.                             *)
(***************************************************************************)
\* Mutant: BufAddrMax is set one past the end of the page.
NewPageNoMinusOne(r) ==
  LET base == (Len(r.pages) + 1) * PageSize IN
  [r EXCEPT !.buf = base, !.max = base + PageSize, !.pages = Append(@, base)]

\* BufAddr = kmalloc_a(PAGE_SIZE); BufAddrMax = BufAddr + PAGE_SIZE - 1.
NewPage(r) ==
  LET base == (Len(r.pages) + 1) * PageSize IN
  [r EXCEPT !.buf = base, !.max = base + PageSize - 1, !.pages = Append(@, base)]

\* n turns of the loop: a new page once BufAddr is past BufAddrMax, then the
\* TD's buffer at BufAddr and BufAddr += MaxPacketSize.
RECURSIVE Carve(_, _, _)
Carve(n, size, r) ==
  IF n = 0 THEN r
  ELSE LET p == IF r.buf > r.max THEN NewPage(r) ELSE r IN
       Carve(n - 1, size, [p EXCEPT !.bufs = Append(@, p.buf), !.buf = @ + size])

\* TdsAllocated for an endpoint of type ty and packet size.
PoolSize(ty, size) ==
  IF ty = Control THEN MinAllocated ELSE MaxIoSize \div size + MinAllocated

Init ==
  /\ epState = "none"
  /\ numTds = 0
  /\ mps = 0
  /\ bufs = <<>>
  /\ pages = <<>>
  /\ flagged = {}
  /\ pc = [s \in Submitters |-> "idle"]
  /\ cur = [s \in Submitters |-> NoTd]
  /\ tds = [s \in Submitters |-> <<>>]
  /\ freed = <<>>
  /\ panicked = FALSE

\* OhciEndpointSetup for a control or bulk endpoint: the pool is sized,
\* zeroed (no TD carries ALLOCATED) and given its buffers.
EndpointSetup ==
  /\ epState = "none"
  /\ \E ty \in {Control, Bulk}, m \in PacketSizes :
       LET n == PoolSize(ty, m)
           r == Carve(n, m, NewPage([buf |-> 0, max |-> 0, pages |-> <<>>,
                                       bufs |-> <<>>]))
       IN /\ numTds' = n
          /\ mps' = m
          /\ bufs' = r.bufs
          /\ pages' = r.pages
  /\ flagged' = {}
  /\ epState' = "ready"
  /\ UNCHANGED <<pc, cur, tds, freed, panicked>>

\* A request on the endpoint starts with its first TD.
BeginRequest(s) ==
  /\ epState = "ready" /\ ~panicked
  /\ pc[s] = "idle"
  /\ pc' = [pc EXCEPT ![s] = "alloc"]
  /\ UNCHANGED <<epState, numTds, mps, bufs, pages, flagged, cur, tds, freed, panicked>>

\* The request adds another TD (OhciTransactionIn/Out after the first).
NextTd(s) ==
  /\ ~panicked
  /\ pc[s] = "built"
  /\ Len(tds[s]) < MaxTds
  /\ pc' = [pc EXCEPT ![s] = "alloc"]
  /\ UNCHANGED <<epState, numTds, mps, bufs, pages, flagged, cur, tds, freed, panicked>>

\* Mutant: the scan runs one past the pool (i <= TdsAllocated).
FreeTdsPastEnd == (1..numTds + 1) \ flagged

\* The TDs the scan of OhciAllocateTd finds without X86_OHCI_TD_ALLOCATED.
FreeTds == (1..numTds) \ flagged

\* Mutant: the scan hands out the first free TD without marking it.
AllocateTdNoFlag(s) ==
  /\ ~panicked
  /\ pc[s] = "alloc"
  /\ FreeTds # {}
  /\ cur' = [cur EXCEPT ![s] = CHOOSE i \in FreeTds : \A j \in FreeTds : i <= j]
  /\ pc' = [pc EXCEPT ![s] = "fill"]
  /\ UNCHANGED <<epState, numTds, mps, bufs, pages, flagged, tds, freed, panicked>>

\* OhciAllocateTd for control/bulk, under Ep->Lock: the first TD whose Flags
\* lack ALLOCATED is marked and its index returned.
AllocateTd(s) ==
  /\ ~panicked
  /\ pc[s] = "alloc"
  /\ FreeTds # {}
  /\ LET i == CHOOSE i \in FreeTds : \A j \in FreeTds : i <= j IN
       /\ flagged' = flagged \cup {i}
       /\ cur' = [cur EXCEPT ![s] = i]
  /\ pc' = [pc EXCEPT ![s] = "fill"]
  /\ UNCHANGED <<epState, numTds, mps, bufs, pages, tds, freed, panicked>>

\* The scan finds every TD allocated: i == TdsAllocated, kernel_panic.
AllocatePanic(s) ==
  /\ ~panicked
  /\ pc[s] = "alloc"
  /\ FreeTds = {}
  /\ panicked' = TRUE
  /\ UNCHANGED <<epState, numTds, mps, bufs, pages, flagged, pc, cur, tds, freed>>

\* The rest of OhciTdSetup/OhciTdIo (Td->Flags = X86_OHCI_TD_ALLOCATED | ...)
\* and the caller linking the TD behind the request's last one.
TdFill(s) ==
  /\ ~panicked
  /\ pc[s] = "fill"
  /\ flagged' = flagged \cup {cur[s]}
  /\ tds' = [tds EXCEPT ![s] = Append(@, cur[s])]
  /\ cur' = [cur EXCEPT ![s] = NoTd]
  /\ pc' = [pc EXCEPT ![s] = "built"]
  /\ UNCHANGED <<epState, numTds, mps, bufs, pages, freed, panicked>>

TdSet(q) == {q[k] : k \in DOMAIN q}

\* Mutant: the walk stops at the last transaction (while (Transaction->Link)).
TransactionDestroySkipsLast(s) ==
  /\ ~panicked
  /\ pc[s] = "built"
  /\ flagged' = flagged \ TdSet(SubSeq(tds[s], 1, Len(tds[s]) - 1))
  /\ tds' = [tds EXCEPT ![s] = <<>>]
  /\ pc' = [pc EXCEPT ![s] = "idle"]
  /\ UNCHANGED <<epState, numTds, mps, bufs, pages, cur, freed, panicked>>

\* OhciTransactionDestroy for control/bulk, after the transfer: every TD of
\* the request is memset to 0, clearing ALLOCATED.  No lock is taken.
TransactionDestroy(s) ==
  /\ ~panicked
  /\ pc[s] = "built"
  /\ flagged' = flagged \ TdSet(tds[s])
  /\ tds' = [tds EXCEPT ![s] = <<>>]
  /\ pc' = [pc EXCEPT ![s] = "idle"]
  /\ UNCHANGED <<epState, numTds, mps, bufs, pages, cur, freed, panicked>>

\* OhciEndpointDestroy, once no request uses the endpoint (the USB core's
\* contract; the code checks nothing): kfree of every TDPoolBuffers[i], then
\* of the TD block.
EndpointDestroy ==
  /\ ~panicked
  /\ epState = "ready"
  /\ \A s \in Submitters : pc[s] = "idle"
  /\ freed' = bufs \o <<PoolBlock>>
  /\ epState' = "destroyed"
  /\ UNCHANGED <<numTds, mps, bufs, pages, flagged, pc, cur, tds, panicked>>

Next ==
  \/ EndpointSetup
  \/ EndpointDestroy
  \/ \E s \in Submitters :
       \/ BeginRequest(s) \/ NextTd(s)
       \/ AllocateTd(s) \/ AllocatePanic(s)
       \/ TdFill(s) \/ TransactionDestroy(s)

Spec == Init /\ [][Next]_vars

-----------------------------------------------------------------------------
\* Properties.

TypeOK ==
  /\ epState \in {"none", "ready", "destroyed"}
  /\ numTds \in 0..MaxPool
  /\ mps \in PacketSizes \cup {0}
  /\ flagged \subseteq 1..numTds
  /\ pc \in [Submitters -> {"idle", "alloc", "fill", "built"}]
  /\ cur \in [Submitters -> Tds \cup {NoTd}]
  /\ tds \in [Submitters -> Seq(Tds)]
  /\ panicked \in BOOLEAN

\* The TDs a submitter holds: those of its request and the one it is filling.
Held(s) == TdSet(tds[s]) \cup (IF pc[s] = "fill" THEN {cur[s]} ELSE {})

(***************************************************************************)
(* The lock-protected scan of OhciAllocateTd and the unlocked fill and     *)
(* memset never let two requests share a TD: the TDs held by two          *)
(* submitters are disjoint.                                                *)
(***************************************************************************)
TdExclusive ==
  \A s, r \in Submitters : s # r => Held(s) \cap Held(r) = {}

(***************************************************************************)
(* OhciTransactionDestroy returns every TD: a TD marked ALLOCATED belongs  *)
(* to a request still in progress, so the pool does not shrink over many   *)
(* requests until OhciAllocateTd panics.                                   *)
(***************************************************************************)
NoLeakedTd ==
  \A i \in flagged : \E s \in Submitters : i \in Held(s)

(***************************************************************************)
(* The carving of OhciEndpointSetup gives every TD a buffer of             *)
(* MaxPacketSize bytes lying inside one page it allocated, so the          *)
(* controller never writes past the page (Cbp..BufferEnd).                 *)
(***************************************************************************)
BuffersInOnePage ==
  epState = "ready" =>
    \A i \in 1..numTds :
      \E k \in DOMAIN pages :
        /\ pages[k] <= bufs[i]
        /\ bufs[i] + mps - 1 <= pages[k] + PageSize - 1

(***************************************************************************)
(* OhciEndpointDestroy hands kfree only blocks that were allocated, each   *)
(* once: every page OhciEndpointSetup took from kmalloc_a, and no address  *)
(* inside one.                                                             *)
(***************************************************************************)
FreesOnlyAllocatedPages ==
  \A k \in DOMAIN freed :
    freed[k] # PoolBlock =>
      /\ freed[k] \in TdSet(pages)
      /\ \A j \in DOMAIN freed : j # k => freed[j] # freed[k]

====
