---------------------------- MODULE MCAtomicFile ----------------------------
(* Instances of AtomicFile for TLC: Go writers and one that runs the twin.  *)
EXTENDS AtomicFile, TLC

CONSTANTS go1, go2, node, old, new
=============================================================================
