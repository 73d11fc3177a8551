---------------------------- MODULE MCOhciTdPool ----------------------------
EXTENDS OhciTdPool, TLC

\* Three threads on one endpoint, each building requests of up to three TDs
\* (setup, data, status).  PAGE_SIZE is scaled down to four with packet
\* sizes of one, two and four, the powers of two that divide it as 8..64
\* divide 4096: one, two or four buffers share a page and bulk pools span
\* up to two pages.  Three threads of three TDs overrun every pool, the
\* largest being seven TDs, so the panic path is reached from each.
CONSTANTS t1, t2, t3, ctl, blk

MCSubmitters   == {t1, t2, t3}
MCMinAllocated == 3
MCMaxIoSize    == 4
MCPacketSizes  == {1, 2, 4}
MCPageSize     == 4
MCMaxTds       == 3

\* The threads are interchangeable.
MCSymmetry == Permutations(MCSubmitters)
=============================================================================
