------------------------------ MODULE LineFeed ------------------------------
(***************************************************************************)
(* What a monitor may rely on when it follows the log of its server: from  *)
(* the place where it started in the file, the lines it is given are the   *)
(* lines of the file, whole, in their order, each once.  It may lose its   *)
(* place, and then promises nothing until it has found a new one.          *)
(***************************************************************************)
EXTENDS Sequences, SequencesExt, Naturals

CONSTANT Line  \* what a line of the log may be

VARIABLES
  lines,  \* the complete lines of the file since the place was taken
  given,  \* the lines handed to the monitor since then
  lost    \* the place is lost

feedVars == <<lines, given, lost>>

TakePlace ==
  /\ lines' \in Seq(Line)
  /\ given' = <<>>
  /\ lost' = FALSE

LosePlace ==
  /\ lines' = <<>>
  /\ given' = <<>>
  /\ lost' = TRUE

ServerWrites ==
  /\ ~lost
  /\ \E line \in Line : lines' = Append(lines, line)
  /\ UNCHANGED <<given, lost>>

Give ==
  /\ ~lost
  /\ Len(given') > Len(given)
  /\ IsPrefix(given', lines)
  /\ UNCHANGED <<lines, lost>>

FeedInit == lines \in Seq(Line) /\ given = <<>> /\ lost \in BOOLEAN

FeedNext == TakePlace \/ LosePlace \/ ServerWrites \/ Give

FeedSpec == FeedInit /\ [][FeedNext]_feedVars
=============================================================================
