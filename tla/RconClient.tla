----------------------------- MODULE RconClient -----------------------------
(***************************************************************************)
(* The RCON client of one monitor.  Command sends a command over a         *)
(* connection that is kept from one command to the next, and once more     *)
(* over a new one when the first attempt breaks.  An attempt reads a       *)
(* single packet and takes it for the answer if it carries the identifier  *)
(* of the request.  A long answer has a second packet, which stays on the  *)
(* connection for whoever reads next.                                      *)
(*                                                                         *)
(* The server is external: it carries out the request that lies on a       *)
(* connection when it gets to it, even after the client gave it up, or it  *)
(* dies.  A connection never has more than one request on it that the      *)
(* server has not seen, for the client waits for an answer or closes.      *)
(*                                                                         *)
(* "excused" is history: whether the command under way met a fault that a  *)
(* second attempt cannot make good.                                        *)
(***************************************************************************)
EXTENDS Integers, Sequences

CONSTANTS
  MaxInt,      \* the largest identifier: 2^31 - 1
  MaxCommands  \* bound: how many commands are given

ASSUME MaxIntAssumption == MaxInt \in Nat /\ MaxInt > 1
ASSUME MaxCommandsAssumption == MaxCommands \in Nat

VARIABLES
  conn,      \* the connection: "none", "auth" while logging in, or "open"
  alive,     \* whether the server still serves the connection
  request,   \* the request on the connection that the server has not seen
  inbox,     \* the packets on the connection that the client has not read
  abandoned, \* requests on connections that the client closed
  nextID, requestID, pc, attempt,  \* the client
  command,   \* the number of the command under way, or of the last one
  result,    \* what Command returned
  password,  \* whether the server accepts the password
  executed,  \* the commands the server has carried out at least once
  fresh,     \* whether the connection was opened by the command under way
  excused

line == <<conn, alive, request, inbox, abandoned>>
vars == <<conn, alive, request, inbox, abandoned, nextID, requestID, pc, attempt,
          command, result, password, executed, fresh, excused>>

Auth == 0  \* stands for the login in a request; commands are numbered from 1
Commands == 1..MaxCommands

Init ==
  /\ conn = "none" /\ alive = FALSE
  /\ request = {} /\ inbox = <<>> /\ abandoned = {}
  /\ nextID = 1 /\ requestID = 1
  /\ pc = "idle" /\ attempt = 0
  /\ command = 0 /\ result = [kind |-> "none", answers |-> 0]
  /\ password \in BOOLEAN
  /\ executed = {} /\ fresh = FALSE /\ excused = FALSE

-----------------------------------------------------------------------------
(* Identifiers.  The arithmetic of int32 wraps.                            *)

Increment(n) == IF n = MaxInt THEN -MaxInt - 1 ELSE n + 1

FollowingUnchecked(n) == Increment(n)
Following(n) == IF Increment(n) < 1 THEN 1 ELSE Increment(n)

TakeRequestID ==
  /\ requestID' = nextID
  /\ nextID' = Following(nextID)

-----------------------------------------------------------------------------
(* Connections.                                                            *)

Closed ==
  /\ conn' = "none" /\ alive' = FALSE
  /\ request' = {} /\ inbox' = <<>>
  /\ abandoned' = abandoned \cup ({r.of : r \in request} \ {Auth})

\* The connection is up and the packet is written to it; a server that is gone
\* does not get it, and the client need not notice.
Written(of) ==
  /\ request' = IF alive THEN {[id |-> nextID, of |-> of]} ELSE {}
  /\ TakeRequestID

Return(kind, answers) ==
  /\ pc' = "idle"
  /\ result' = [kind |-> kind, answers |-> answers]
  /\ UNCHANGED <<attempt, command>>

Fail == Return("failed", 0)

TryAgain == pc' = "connect" /\ attempt' = attempt + 1 /\ UNCHANGED <<command, result>>

RetryOnSameConnection ==
  /\ IF attempt < 2 THEN TryAgain ELSE Fail
  /\ inbox' = IF inbox = <<>> THEN <<>> ELSE Tail(inbox)
  /\ UNCHANGED <<conn, alive, request, abandoned>>

RetryForever ==
  /\ pc' = "connect" /\ UNCHANGED <<attempt, command, result>>
  /\ Closed

\* The attempt has failed: close, and start over unless it was the second.
Retry ==
  /\ IF attempt < 2 THEN TryAgain ELSE Fail
  /\ Closed

-----------------------------------------------------------------------------
(* Command, connectLocked and commandLocked, packet by packet.             *)

Begin ==
  /\ pc = "idle" /\ command < MaxCommands
  /\ pc' = "connect" /\ attempt' = 1 /\ command' = command + 1
  /\ result' = [kind |-> "none", answers |-> 0]
  /\ fresh' = FALSE /\ excused' = FALSE
  /\ UNCHANGED <<line, nextID, requestID, password, executed>>

Connected ==
  /\ pc = "connect" /\ conn = "open"
  /\ pc' = "send"
  /\ UNCHANGED <<line, nextID, requestID, attempt, command, result, password,
                 executed, fresh, excused>>

Dial ==
  /\ pc = "connect" /\ conn = "none"
  /\ conn' = "auth" /\ alive' = TRUE /\ inbox' = <<>>
  /\ request' = {[id |-> nextID, of |-> Auth]} /\ TakeRequestID
  /\ pc' = "login" /\ fresh' = TRUE
  /\ UNCHANGED <<abandoned, attempt, command, result, password, executed, excused>>

\* No connection: the command fails, without a second attempt.
DialFails ==
  /\ pc = "connect" /\ conn = "none"
  /\ Fail /\ excused' = TRUE
  /\ UNCHANGED <<line, nextID, requestID, password, executed, fresh>>

LoggedIn ==
  /\ pc = "login" /\ inbox # <<>>
  /\ Head(inbox).id # -1
  /\ inbox' = Tail(inbox)
  /\ conn' = "open" /\ pc' = "send"
  /\ UNCHANGED <<alive, request, abandoned, nextID, requestID, attempt, command,
                 result, password, executed, fresh, excused>>

LoginRefused ==
  /\ pc = "login" /\ inbox # <<>>
  /\ Head(inbox).id = -1
  /\ Closed /\ Fail
  /\ UNCHANGED <<nextID, requestID, password, executed, fresh, excused>>

\* The answer to the login does not come in time, or the connection breaks.
LoginFails ==
  /\ pc = "login"
  /\ Closed /\ Fail /\ excused' = TRUE
  /\ UNCHANGED <<nextID, requestID, password, executed, fresh>>

Send ==
  /\ pc = "send"
  /\ Written(command)
  /\ pc' = "read"
  /\ UNCHANGED <<conn, alive, inbox, abandoned, attempt, command, result, password,
                 executed, fresh, excused>>

SendFails ==
  /\ pc = "send"
  /\ requestID' = nextID /\ nextID' = Following(nextID)
  /\ Retry /\ excused' = (excused \/ fresh)
  /\ UNCHANGED <<password, executed, fresh>>

ReadAny ==
  /\ pc = "read" /\ inbox # <<>>
  /\ inbox' = Tail(inbox)
  /\ Return("ok", Head(inbox).of)
  /\ UNCHANGED <<conn, alive, request, abandoned, nextID, requestID, password,
                 executed, fresh, excused>>

ReadAnswer ==
  /\ pc = "read" /\ inbox # <<>>
  /\ Head(inbox).id = requestID
  /\ inbox' = Tail(inbox)
  /\ Return("ok", Head(inbox).of)
  /\ UNCHANGED <<conn, alive, request, abandoned, nextID, requestID, password,
                 executed, fresh, excused>>

\* A packet with another identifier: what a long answer left behind.
ReadRest ==
  /\ pc = "read" /\ inbox # <<>>
  /\ Head(inbox).id # requestID
  /\ Retry
  /\ UNCHANGED <<nextID, requestID, password, executed, fresh, excused>>

\* No packet until the deadline, or the connection is broken.
ReadFails ==
  /\ pc = "read"
  /\ Retry /\ excused' = (excused \/ fresh)
  /\ UNCHANGED <<nextID, requestID, password, executed, fresh>>

\* The monitor or the health check closes its client between two commands.
Close ==
  /\ pc = "idle" /\ conn # "none"
  /\ Closed
  /\ UNCHANGED <<nextID, requestID, pc, attempt, command, result, password,
                 executed, fresh, excused>>

-----------------------------------------------------------------------------
(* The server and the network (external).                                  *)

Answers(r, parts) ==
  IF r.of = Auth THEN <<[id |-> IF password THEN r.id ELSE -1, of |-> Auth]>>
  ELSE [i \in 1..parts |-> [id |-> r.id, of |-> r.of]]

\* The server carries out what lies on the connection and answers in one packet or two.
Serve(r, parts) ==
  /\ alive /\ r \in request
  /\ request' = {}
  /\ inbox' = inbox \o Answers(r, parts)
  /\ executed' = executed \cup ({r.of} \ {Auth})
  /\ excused' = (excused \/ (r.of = Auth /\ ~password))
  /\ UNCHANGED <<conn, alive, abandoned, nextID, requestID, pc, attempt, command,
                 result, password, fresh>>

\* It does so, late, for a connection that the client has closed.
ServeAbandoned(c) ==
  /\ c \in abandoned
  /\ abandoned' = abandoned \ {c}
  /\ executed' = executed \cup {c}
  /\ UNCHANGED <<conn, alive, request, inbox, nextID, requestID, pc, attempt,
                 command, result, password, fresh, excused>>

\* The server dies and takes what lies on the connections with it.
ServerDies ==
  /\ alive \/ abandoned # {}
  /\ alive' = FALSE /\ request' = {} /\ abandoned' = {}
  /\ inbox' \in {inbox, <<>>}
  /\ UNCHANGED <<conn, nextID, requestID, pc, attempt, command, result, password,
                 executed, fresh, excused>>

\* The administrator changes the password of the server.
ChangePassword ==
  /\ password' = ~password
  /\ UNCHANGED <<line, nextID, requestID, pc, attempt, command, result, executed,
                 fresh, excused>>

ClientStep ==
  \/ Connected \/ Dial \/ DialFails
  \/ LoggedIn \/ LoginRefused \/ LoginFails
  \/ Send \/ SendFails
  \/ ReadAnswer \/ ReadRest \/ ReadFails

ServerStep ==
  \/ \E r \in request, parts \in 1..2 : Serve(r, parts)
  \/ \E c \in abandoned : ServeAbandoned(c)
  \/ ServerDies
  \/ ChangePassword

Next == Begin \/ ClientStep \/ Close \/ ServerStep

Spec == Init /\ [][Next]_vars /\ WF_vars(ClientStep)
-----------------------------------------------------------------------------
(* Properties.                                                             *)

ID == (-MaxInt - 1)..MaxInt
Request == [id : 1..MaxInt, of : 0..MaxCommands]
Packet == [id : ID, of : 0..MaxCommands]

\* The variables hold what client and server put there; identifiers of requests
\* stay positive, whatever the width of the integer.
TypeOK ==
  /\ conn \in {"none", "auth", "open"} /\ alive \in BOOLEAN
  /\ request \in SUBSET Request /\ inbox \in Seq(Packet)
  /\ abandoned \in SUBSET Commands
  /\ nextID \in 1..MaxInt /\ requestID \in 1..MaxInt
  /\ pc \in {"idle", "connect", "login", "send", "read"}
  /\ attempt \in 0..2 /\ command \in 0..MaxCommands
  /\ result \in [kind : {"none", "ok", "failed"}, answers : 0..MaxCommands]
  /\ password \in BOOLEAN /\ executed \in SUBSET Commands
  /\ fresh \in BOOLEAN /\ excused \in BOOLEAN

\* What Command returns as the answer is the server's answer to this command and
\* to no earlier one, and the server has carried the command out: whatever long
\* answers, dead servers and requests sent twice have left on the connection.
AnswersAreOwn ==
  result.kind = "ok" => result.answers = command /\ command \in executed

\* A command fails only if no connection was to be had, the server refused the
\* password, or the connection opened for this command broke: never for what an earlier
\* command left behind, a connection that died in between or an identifier.
OldFaultsAreBridged ==
  result.kind = "failed" => excused

\* Command returns, whatever the server and the network do.
CommandReturns == pc # "idle" ~> pc = "idle"
=============================================================================
