--------------------------- MODULE MCPointerChase ---------------------------
EXTENDS PointerChase
\* A chase region of 6 int32s: too little memory, no load memory, partitions that the
\* access does not divide, and partitions of one and of two accesses.
ManySizes == {5, 6, 9, 10, 12, 14}
=============================================================================
