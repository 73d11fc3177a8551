---------------------------- MODULE MCThreading ----------------------------
EXTENDS Threading

\* Two cores, so that kill, exit and join on one core race the switch and
\* the collector on the other; two general threads (ids 3 and 4).
MCNumCpus   == 2
MCMaxThreads == 4
MCCodes     == {0}
=============================================================================
