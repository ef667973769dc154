--------------------------- MODULE MCAtomicWriter ---------------------------
(* Model values for the runs of AtomicWriter.                              *)
EXTENDS AtomicWriter

CONSTANTS p1, p2, p3
=============================================================================
