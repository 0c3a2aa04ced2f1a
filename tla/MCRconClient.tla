---------------------------- MODULE MCRconClient ----------------------------
(* Four commands and identifiers of three bits: they wrap within a run.   *)
EXTENDS RconClient
=============================================================================
