---------------------------- MODULE MCOhciAsync ----------------------------
EXTENDS OhciAsync, TLC

\* Three submitters and three pool EDs: enough for one request on the
\* controller's list, one in the wait queue and a third arriving after a
\* reload, and for a destroyed ED to be reused.
CONSTANTS s1, s2, s3, ctl, blk

MCSubmitters == {s1, s2, s3}
MCNumEd      == 3

\* Two TDs per chain at most: a first TD that retires without an interrupt
\* and the last one that raises it.
MCMaxTds     == 2

\* One submitter: every request is alone on the controller, the sequential
\* use of the engine; the pool still recycles EDs across requests.
MCOneSubmitter == {s1}

\* Submitters are interchangeable: the pool scan depends on ED order only.
MCSymmetry == Permutations(MCSubmitters)
=============================================================================
