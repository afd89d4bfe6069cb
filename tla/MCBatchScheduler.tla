-------------------------- MODULE MCBatchScheduler --------------------------
\* Two overlapping ticks of one instance.
EXTENDS BatchScheduler

CONSTANTS t1, t2, i1

MCHome == [t \in {t1, t2} |-> i1]
=============================================================================
