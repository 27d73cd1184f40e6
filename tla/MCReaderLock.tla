---------------------------- MODULE MCReaderLock ----------------------------
(* ReaderLock with its inductive invariant and the steps that count wrong.  *)
EXTENDS ReaderLockInv
=============================================================================
