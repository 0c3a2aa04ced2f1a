---------------------------- MODULE MCJoinWatch ----------------------------
(* Constants of the TLC runs of JoinWatch.                                 *)
EXTENDS JoinWatch
=============================================================================
