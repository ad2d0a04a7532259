---------------------------- MODULE MCEarlySweep ----------------------------
EXTENDS EarlySweep
\* Three readers: the head may be the stub, a middle node or the last one.
=============================================================================
