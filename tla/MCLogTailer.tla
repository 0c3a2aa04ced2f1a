---------------------------- MODULE MCLogTailer ----------------------------
(* The TLC run of LogTailer.                                               *)
EXTENDS LogTailer
=============================================================================
