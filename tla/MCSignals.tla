----------------------------- MODULE MCSignals -----------------------------
EXTENDS Signals

\* One core and two general threads: a thread of the Ash, a second thread
\* that it creates (and that inherits the Ash), and the idle thread.
MCNumCpus    == 1
MCMaxThreads == 3
MCCodes      == {0}
MCNUMSIGNALS == 38

\* SIGHUP (terminates), SIGUSR1 (ignored), SIGSTOP (stop class) and the
\* first number past the table; MCNegativeInputs adds a negative number.
MCSignalInputs   == {1, 16, 38}
MCNegativeInputs == MCSignalInputs \cup {-1}
MCMaxSignals     == 2
=============================================================================
