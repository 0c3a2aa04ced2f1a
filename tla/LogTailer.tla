----------------------------- MODULE LogTailer -----------------------------
(***************************************************************************)
(* The log file of a Minecraft server and the tailer that follows it.  The *)
(* server appends pieces of lines and now and then starts a new file; the  *)
(* tailer opens the file under its name, compares its size with the place  *)
(* it reached, and reads to the end.  It keeps the beginning of a line     *)
(* that is not finished yet.  The unit of size is a piece: a whole line,   *)
(* the head of one, or the tail that ends it.                              *)
(*                                                                         *)
(* "view", "start", "given" and "lost" are history: the file the offset    *)
(* is a place in, where the tailer took that place, the lines it has       *)
(* handed out since, and whether it is at a place it knows nothing of.     *)
(***************************************************************************)
EXTENDS Naturals, Sequences, SequencesExt, FiniteSetsExt

CONSTANTS
  MaxLines,  \* bound: lines the server writes
  MaxFiles,  \* bound: files the server starts
  MaxPending \* bound: how much failed reads may pile up in "pending"

Piece == [line : 1..MaxLines, part : {"whole", "head", "tail"}]
EndsLine(piece) == piece.part # "head"

ASSUME ConstantsAssumption ==
  MaxLines \in Nat \ {0} /\ MaxFiles \in Nat \ {0} /\ MaxPending \in Nat

VARIABLES
  files,        \* every latest.log so far: only the last grows
  written,      \* lines begun so far
  initialized, offset, pending,  \* the fields of logTailer
  opened,       \* 0, or the file ReadNewLines has open
  view, start, given, lost

server == <<files, written>>
vars == <<files, written, initialized, offset, pending, opened, view, start, given, lost>>

Newest == Len(files)
InHead == files[Newest] # <<>> /\ ~EndsLine(Last(files[Newest]))

\* The pieces that end a line; the unfinished rest after the last of them; and the
\* complete lines, each the rest before its end together with its end.
Ends(pieces) == {i \in DOMAIN pieces : EndsLine(pieces[i])}
LastEnd(pieces) == Max(Ends(pieces) \cup {0})
Rest(pieces) == SubSeq(pieces, LastEnd(pieces) + 1, Len(pieces))
NthEnd(pieces, n) ==
  CHOOSE i \in Ends(pieces) : Cardinality(Ends(pieces) \cap 1..i) = n
LineTo(pieces, i) == Append(Rest(SubSeq(pieces, 1, i - 1)), pieces[i])
Complete(pieces) ==
  [n \in 1..Cardinality(Ends(pieces)) |-> LineTo(pieces, NthEnd(pieces, n))]

From(file, place) == SubSeq(file, place + 1, Len(file))

Init ==
  /\ \E text \in {<<>>, <<"whole">>, <<"head">>} :
       /\ files = <<[i \in DOMAIN text |-> [line |-> 1, part |-> text[i]]]>>
       /\ written = Len(text)
  /\ initialized = FALSE /\ offset = 0 /\ pending = <<>>
  /\ opened = 0
  /\ view = 1 /\ start = 0 /\ given = <<>> /\ lost = TRUE

-----------------------------------------------------------------------------
(* The Minecraft server.                                                   *)

Put(piece) == files' = [files EXCEPT ![Newest] = Append(@, piece)]
tailer == <<initialized, offset, pending, opened, view, start, given, lost>>

BeginLine(part) ==
  /\ written < MaxLines /\ ~InHead
  /\ Put([line |-> written + 1, part |-> part])
  /\ written' = written + 1
  /\ UNCHANGED tailer

FinishLine ==
  /\ InHead
  /\ Put([line |-> written, part |-> "tail"])
  /\ UNCHANGED <<written, tailer>>

\* A restarted server moves latest.log away and starts an empty one.
StartNewFile ==
  /\ Newest < MaxFiles
  /\ files' = Append(files, <<>>)
  /\ UNCHANGED <<written, tailer>>

-----------------------------------------------------------------------------
(* ReadNewLines: open and stat the file, then read it.                     *)

Size == Len(files[Newest])

\* The first call only takes the end of the file for its place.
OpenFirst ==
  /\ ~initialized /\ opened = 0
  /\ initialized' = TRUE
  /\ offset' = Size
  /\ view' = Newest /\ start' = Size /\ given' = <<>> /\ lost' = FALSE
  /\ UNCHANGED <<server, pending, opened>>

OpenShorterKeepsOffset ==
  /\ initialized /\ opened = 0
  /\ Size < offset
  /\ opened' = Newest
  /\ pending' = <<>>
  /\ view' = Newest /\ start' = 0 /\ given' = <<>> /\ lost' = FALSE
  /\ UNCHANGED <<server, initialized, offset>>

\* A file shorter than the place reached must be a new one.
OpenShorter ==
  /\ initialized /\ opened = 0
  /\ Size < offset
  /\ opened' = Newest
  /\ offset' = 0 /\ pending' = <<>>
  /\ view' = Newest /\ start' = 0 /\ given' = <<>> /\ lost' = FALSE
  /\ UNCHANGED <<server, initialized>>

\* A file at least that long is taken for the old one, which it need not be.
OpenSame ==
  /\ initialized /\ opened = 0
  /\ Size >= offset
  /\ opened' = Newest
  /\ view' = Newest
  /\ LET another == view # Newest
     IN  /\ lost' = (lost \/ (another /\ offset > 0))
         /\ given' = IF another \/ lost THEN <<>> ELSE given
         /\ start' = IF another THEN offset ELSE start
  /\ UNCHANGED <<server, initialized, offset, pending>>

ReadWholeTextOnly ==
  /\ opened # 0
  /\ LET text == From(files[opened], offset)
         found == Complete(pending \o text)
         whole == Rest(text) = <<>>
     IN  /\ offset' = IF whole THEN Len(files[opened]) ELSE offset
         /\ pending' = IF whole THEN <<>> ELSE pending
         /\ lost' = (lost /\ (found = <<>> \/ ~whole))
         /\ given' = IF lost THEN <<>> ELSE IF whole THEN given \o found ELSE given
         /\ start' = IF lost /\ whole THEN offset + LastEnd(text) ELSE start
  /\ opened' = 0
  /\ UNCHANGED <<server, initialized, view>>

ReadForgetsPending ==
  /\ opened # 0
  /\ LET text == From(files[opened], offset)
         found == Complete(text)
     IN  /\ pending' = Rest(text)
         /\ offset' = Len(files[opened])
         /\ lost' = (lost /\ found = <<>>)
         /\ given' = IF lost THEN <<>> ELSE given \o found
         /\ start' = IF lost THEN offset + LastEnd(text) ELSE start
  /\ opened' = 0
  /\ UNCHANGED <<server, initialized, view>>

\* Once a read has come past the end of a line, the place is known again.
ReadNewLines ==
  /\ opened # 0
  /\ LET text == From(files[opened], offset)
         found == Complete(pending \o text)
     IN  /\ pending' = Rest(pending \o text)
         /\ offset' = Len(files[opened])
         /\ lost' = (lost /\ found = <<>>)
         /\ given' = IF lost THEN <<>> ELSE given \o found
         /\ start' = IF lost THEN offset + LastEnd(text) ELSE start
  /\ opened' = 0
  /\ UNCHANGED <<server, initialized, view>>

ReadFailsMovesOn ==
  /\ opened # 0
  /\ \E n \in offset..Len(files[opened]) :
       /\ pending' = Rest(pending \o SubSeq(files[opened], offset + 1, n))
       /\ offset' = n
  /\ Len(pending') <= MaxPending
  /\ opened' = 0
  /\ UNCHANGED <<server, initialized, view, start, given, lost>>

\* An error in the middle: the lines read so far are dropped and will be read
\* again, but what the attempt did to "pending" stays.
ReadFails ==
  /\ opened # 0
  /\ \E n \in offset..Len(files[opened]) :
       pending' = Rest(pending \o SubSeq(files[opened], offset + 1, n))
  /\ Len(pending') <= MaxPending
  /\ lost' = (lost \/ pending' # pending)
  /\ given' = IF lost' THEN <<>> ELSE given
  /\ opened' = 0
  /\ UNCHANGED <<server, initialized, offset, view, start>>

\* The monitor is restarted, with a tailer of its own.
NewLogTailer ==
  /\ initialized
  /\ initialized' = FALSE /\ offset' = 0 /\ pending' = <<>> /\ opened' = 0
  /\ view' = Newest /\ start' = 0 /\ given' = <<>> /\ lost' = TRUE
  /\ UNCHANGED server

ServerStep ==
  \/ \E part \in {"whole", "head"} : BeginLine(part)
  \/ FinishLine
  \/ StartNewFile

Poll == OpenFirst \/ OpenShorter \/ OpenSame \/ ReadNewLines

Next == ServerStep \/ Poll \/ ReadFails \/ NewLogTailer

\* The monitor polls on a ticker.
Fairness == WF_vars(Poll) /\ SF_vars(ReadNewLines)

Spec == Init /\ [][Next]_vars /\ Fairness

-----------------------------------------------------------------------------
(* Properties.                                                             *)

\* The fields and the history are of their types, and the place is in the file.
TypeOK ==
  /\ files \in Seq(Seq(Piece)) /\ written \in 0..MaxLines
  /\ initialized \in BOOLEAN /\ lost \in BOOLEAN
  /\ opened \in 0..Newest /\ view \in 1..Newest
  /\ offset \in 0..Len(files[view]) /\ pending \in Seq(Piece)
  /\ start \in Nat /\ given \in Seq(Seq(Piece))

Line == {<<[line |-> n, part |-> "whole"]>> : n \in 1..MaxLines}
        \cup {<<[line |-> n, part |-> "head"], [line |-> n, part |-> "tail"]>> : n \in 1..MaxLines}
        \cup {<<[line |-> n, part |-> "tail"]>> : n \in 1..MaxLines}

Lines == IF lost THEN <<>> ELSE Complete(From(files[view], start))
Feed == INSTANCE LineFeed WITH lines <- Lines

\* The lines handed out are those of the file from the place taken, whole, in
\* order and once, through unfinished lines, files started while another is
\* open, and failed reads: unless a new file has reached the old offset unseen or
\* a read failed inside a line, and then only until the next end of a line.
ImplementsFeed == Feed!FeedSpec

\* Nothing that was read is still held back: after a poll every complete line
\* before the offset was handed out, and only an unfinished one is kept.
NothingHeldBack ==
  ~lost => LET read == SubSeq(files[view], start + 1, offset)
           IN  given = Complete(read) /\ pending = Rest(read)

\* Every line arrives: a finished line is handed out, unless a new file, a restart
\* of the monitor or a failed read takes the place away first.
EveryLineArrives ==
  \A v \in 1..MaxFiles, n \in 1..MaxLines :
    (~lost /\ view = v /\ Len(Complete(From(files[v], start))) >= n)
      ~> (lost \/ view # v \/ Len(given) >= n)

-----------------------------------------------------------------------------
(* The inductive invariant.                                                *)

\* A tail follows the head of its line, and nothing else follows a head.
WellFormed(file) ==
  \A i \in 1..Len(file) :
    /\ file[i].part = "tail" <=> i > 1 /\ file[i - 1].part = "head"
    /\ file[i].part = "tail" => file[i].line = file[i - 1].line
FilesInv ==
  /\ \A f \in 1..Newest : WellFormed(files[f])
  /\ InHead => Last(files[Newest]).line = written

\* A file that is open is the one of the place; "pending" is the beginning of one line;
\* where the place is lost nothing was given since.
PlaceInv ==
  /\ opened # 0 => view = opened
  /\ ~initialized => opened = 0 /\ pending = <<>> /\ lost
  /\ Ends(pending) = {}
  /\ IF lost THEN given = <<>> ELSE start <= offset

IInv == TypeOK /\ FilesInv /\ PlaceInv /\ NothingHeldBack
=============================================================================
