-------------------------- MODULE RconClientProofs --------------------------
(* Proofs about RconClient for every width of the identifiers and every    *)
(* number of commands.                                                     *)
EXTENDS RconClient, SequenceTheorems, TLAPS

\* While the login is under way nothing but the login is on the connection, and an
\* answer that refuses it comes from the server.
LoginInv ==
  pc = "login" =>
    /\ fresh
    /\ Len(inbox) < 2 /\ (request # {} => inbox = <<>>)
    /\ \A r \in request : r.of = Auth
    /\ \A i \in DOMAIN inbox : inbox[i].id = -1 => excused

\* Between two requests the connection holds no request, and at most the rest of
\* the last answer; nothing at all if it was opened by this command.
RestInv ==
  pc \in {"idle", "connect", "send"} =>
    /\ request = {}
    /\ \A i \in DOMAIN inbox : inbox[i].id = requestID
    /\ pc \in {"connect", "send"} /\ fresh => inbox = <<>>

\* While the answer is awaited, packets that carry the identifier of the request
\* answer it, and they come first unless there is a rest before them.
ReadInv ==
  pc = "read" =>
    /\ \A r \in request : r.id = requestID /\ r.of = command
    /\ \A i \in DOMAIN inbox :
         inbox[i].id = requestID =>
           request = {} /\ inbox[i].of = command /\ command \in executed
    /\ fresh \/ (inbox # <<>> /\ Head(inbox).id = requestID)
         => \A i \in DOMAIN inbox : inbox[i].id = requestID

\* Where the client is in its two attempts.
AttemptInv ==
  /\ conn = "none" => request = {} /\ inbox = <<>>
  /\ conn # "none" => requestID # nextID
  /\ pc = "connect" /\ attempt > 1 => conn = "none"
  /\ pc \in {"send", "read"} /\ attempt > 1 => fresh
  /\ pc # "idle" => result.kind = "none" /\ attempt > 0 /\ command > 0
  /\ pc \in {"idle", "connect"} => conn \in {"none", "open"}
  /\ pc \in {"send", "read"} => conn = "open"

IInv ==
  /\ TypeOK
  /\ LoginInv /\ RestInv /\ ReadInv /\ AttemptInv
  /\ AnswersAreOwn /\ OldFaultsAreBridged

-----------------------------------------------------------------------------
(* Helpers.                                                                *)

\* The next identifier is positive and differs from the last.
LEMMA FollowingType ==
  ASSUME NEW n \in 1..MaxInt
  PROVE  Following(n) \in 1..MaxInt /\ Following(n) # n
BY MaxIntAssumption DEF Following, Increment

\* What is left of the inbox after a packet was read was in it before.
LEMMA RestOfInbox ==
  ASSUME NEW S, NEW s \in Seq(S), s # <<>>
  PROVE  /\ Head(s) = s[1] /\ 1 \in DOMAIN s /\ Head(s) \in S
         /\ Tail(s) \in Seq(S) /\ Len(Tail(s)) = Len(s) - 1
         /\ \A i \in DOMAIN Tail(s) : i + 1 \in DOMAIN s /\ Tail(s)[i] = s[i + 1]
<1>1. Len(s) \in Nat /\ Len(s) > 0 /\ DOMAIN s = 1..Len(s)
  BY EmptySeq
<1>2. /\ Head(s) \in S /\ Tail(s) \in Seq(S) /\ Len(Tail(s)) = Len(s) - 1
      /\ \A i \in 1..Len(Tail(s)) : Tail(s)[i] = s[i + 1]
  BY <1>1, HeadTailProperties
<1> QED  BY <1>1, <1>2

\* The server answers a login with one packet, a command with one or two, all of them
\* with the identifier of the request unless it refuses the login.
LEMMA AnswersType ==
  ASSUME TypeOK, NEW r \in request, NEW parts \in 1..2
  PROVE  /\ Answers(r, parts) \in Seq(Packet)
         /\ Answers(r, parts) # <<>>
         /\ \A i \in DOMAIN Answers(r, parts) : Answers(r, parts)[i].of = r.of
         /\ r.of = Auth => Len(Answers(r, parts)) = 1
         /\ r.of # Auth \/ password =>
              \A i \in DOMAIN Answers(r, parts) : Answers(r, parts)[i].id = r.id
<1>1. r.id \in ID /\ r.of \in 0..MaxCommands /\ -1 \in ID
  BY MaxIntAssumption DEF TypeOK, Request, ID
<1>2. CASE r.of = Auth
  <2> DEFINE p == [id |-> IF password THEN r.id ELSE -1, of |-> Auth]
  <2>1. p \in Packet
    BY <1>1, <1>2 DEF Packet
  <2>2. Answers(r, parts) = <<p>>
    BY <1>2 DEF Answers
  <2> HIDE DEF p
  <2>3. <<p>> \in Seq(Packet) /\ <<p>> # <<>> /\ Len(<<p>>) = 1
        /\ \A i \in DOMAIN <<p>> : <<p>>[i] = p
    BY <2>1
  <2>4. p.of = r.of /\ (password => p.id = r.id)
    BY <1>2 DEF p
  <2> QED  BY <1>2, <2>2, <2>3, <2>4
<1>3. CASE r.of # Auth
  <2> DEFINE f == [i \in 1..parts |-> [id |-> r.id, of |-> r.of]]
  <2>1. parts \in Nat /\ [id |-> r.id, of |-> r.of] \in Packet
    BY <1>1 DEF Packet
  <2>2. f \in Seq(Packet) /\ Len(f) = parts /\ DOMAIN f = 1..parts
    BY <2>1
  <2>3. f # <<>>
    BY <2>2
  <2> QED  BY <1>3, <2>2, <2>3 DEF Answers
<1> QED  BY <1>2, <1>3

\* The inbox after the server has answered.
LEMMA InboxAfterAnswer ==
  ASSUME NEW S, NEW s \in Seq(S), NEW t \in Seq(S), t # <<>>
  PROVE  /\ s \o t \in Seq(S) /\ s \o t # <<>> /\ Len(s \o t) = Len(s) + Len(t)
         /\ s # <<>> => Head(s \o t) = Head(s)
         /\ \A i \in DOMAIN (s \o t) :
              \/ i \in DOMAIN s /\ (s \o t)[i] = s[i]
              \/ \E j \in DOMAIN t : (s \o t)[i] = t[j]
<1>1. /\ s \o t \in Seq(S) /\ Len(s \o t) = Len(s) + Len(t)
      /\ \A i \in 1..(Len(s) + Len(t)) :
           (s \o t)[i] = IF i <= Len(s) THEN s[i] ELSE t[i - Len(s)]
  BY ConcatProperties
<1>2. Len(s) \in Nat /\ Len(t) \in Nat /\ Len(t) > 0
      /\ DOMAIN s = 1..Len(s) /\ DOMAIN t = 1..Len(t)
      /\ DOMAIN (s \o t) = 1..(Len(s) + Len(t))
  BY <1>1, EmptySeq
<1>3. s \o t # <<>>
  BY <1>1, <1>2, EmptySeq
<1>4. s # <<>> => Head(s \o t) = Head(s)
  <2> SUFFICES ASSUME s # <<>>
               PROVE  Head(s \o t) = Head(s)
    OBVIOUS
  <2>1. Head(s) = s[1] /\ 1 <= Len(s)
    BY <1>2, RestOfInbox
  <2>2. Head(s \o t) = (s \o t)[1]
    BY <1>1, <1>3, RestOfInbox
  <2> QED  BY <1>1, <1>2, <2>1, <2>2
<1>5. ASSUME NEW i \in DOMAIN (s \o t)
      PROVE  \/ i \in DOMAIN s /\ (s \o t)[i] = s[i]
             \/ \E j \in DOMAIN t : (s \o t)[i] = t[j]
  <2>1. CASE i <= Len(s)
    BY <1>1, <1>2, <2>1
  <2>2. CASE ~(i <= Len(s))
    <3>1. i - Len(s) \in DOMAIN t
      BY <1>2, <2>2
    <3> QED  BY <1>1, <1>2, <2>2, <3>1
  <2> QED  BY <2>1, <2>2
<1> QED  BY <1>1, <1>3, <1>4, <1>5
-----------------------------------------------------------------------------
(* Types.                                                                  *)

LEMMA InitType == Init => TypeOK
<1> SUFFICES ASSUME Init
             PROVE  TypeOK
  OBVIOUS
<1>1. inbox \in Seq(Packet)
  BY DEF Init
<1>2. 1 \in 1..MaxInt /\ 0 \in 0..MaxCommands
  BY MaxIntAssumption, MaxCommandsAssumption
<1>3. result \in [kind : {"none", "ok", "failed"}, answers : 0..MaxCommands]
  BY <1>2 DEF Init
<1>4. nextID \in 1..MaxInt /\ requestID \in 1..MaxInt /\ attempt \in 0..2 /\ command \in 0..MaxCommands
  BY <1>2 DEF Init
<1> QED  BY <1>1, <1>3, <1>4 DEF Init, TypeOK

\* Closing keeps the types, and so does failing or trying again.
LEMMA ClosedType ==
  ASSUME TypeOK, Closed
  PROVE  /\ conn' = "none" /\ alive' = FALSE /\ request' = {} /\ inbox' = <<>>
         /\ inbox' \in Seq(Packet) /\ abandoned' \in SUBSET Commands
<1>1. \A r \in request : r.of \in Commands \cup {Auth}
  BY MaxCommandsAssumption DEF TypeOK, Request, Commands, Auth
<1> QED  BY <1>1 DEF TypeOK, Closed

LEMMA FailType ==
  ASSUME TypeOK, Fail
  PROVE  /\ pc' = "idle" /\ result' = [kind |-> "failed", answers |-> 0]
         /\ attempt' \in 0..2 /\ command' \in 0..MaxCommands
         /\ result' \in [kind : {"none", "ok", "failed"}, answers : 0..MaxCommands]
BY MaxCommandsAssumption DEF TypeOK, Fail, Return

LEMMA RetryType ==
  ASSUME TypeOK, Retry
  PROVE  /\ pc' \in {"idle", "connect"} /\ attempt' \in 0..2
         /\ command' \in 0..MaxCommands
         /\ result' \in [kind : {"none", "ok", "failed"}, answers : 0..MaxCommands]
<1>1. CASE attempt < 2
  BY <1>1 DEF TypeOK, Retry, TryAgain
<1>2. CASE ~(attempt < 2)
  BY <1>2, FailType DEF Retry
<1> QED  BY <1>1, <1>2

LEMMA TypeStep == TypeOK /\ [Next]_vars => TypeOK'
<1> SUFFICES ASSUME TypeOK, [Next]_vars
             PROVE  TypeOK'
  OBVIOUS
<1> USE MaxIntAssumption, MaxCommandsAssumption
<1>id. /\ Following(nextID) \in 1..MaxInt
       /\ [id |-> nextID, of |-> command] \in Request
       /\ [id |-> nextID, of |-> Auth] \in Request
  BY FollowingType DEF TypeOK, Request, Auth
<1>seq. inbox \in Seq(Packet)
  BY DEF TypeOK
<1>rest. inbox # <<>> => Head(inbox) \in Packet /\ Tail(inbox) \in Seq(Packet)
  BY <1>seq, RestOfInbox
<1>1. CASE Begin
  <2>1. command' \in 0..MaxCommands
    BY <1>1 DEF Begin, TypeOK
  <2>2. result' \in [kind : {"none", "ok", "failed"}, answers : 0..MaxCommands]
    BY <1>1 DEF Begin
  <2>3. /\ pc' = "connect" /\ attempt' \in 0..2 /\ fresh' = FALSE /\ excused' = FALSE
        /\ UNCHANGED <<line, nextID, requestID, password, executed>>
    BY <1>1 DEF Begin
  <2> QED  BY <2>1, <2>2, <2>3 DEF TypeOK, line
<1>2. CASE Connected
  BY <1>2 DEF Connected, TypeOK, line
<1>3. CASE Dial
  BY <1>3, <1>id DEF Dial, TypeOK, TakeRequestID
<1>4. CASE DialFails
  BY <1>4, FailType DEF DialFails, TypeOK, line
<1>5. CASE LoggedIn
  BY <1>5, <1>rest DEF LoggedIn, TypeOK
<1>6. CASE LoginRefused
  BY <1>6, ClosedType, FailType DEF LoginRefused, TypeOK
<1>7. CASE LoginFails
  BY <1>7, ClosedType, FailType DEF LoginFails, TypeOK
<1>8. CASE Send
  BY <1>8, <1>id DEF Send, TypeOK, Written, TakeRequestID
<1>9. CASE SendFails
  BY <1>9, ClosedType, RetryType, <1>id DEF SendFails, TypeOK, Retry
<1>10. CASE ReadAnswer
  BY <1>10, <1>rest DEF ReadAnswer, TypeOK, Return, Packet
<1>11. CASE ReadRest
  BY <1>11, ClosedType, RetryType DEF ReadRest, TypeOK, Retry
<1>12. CASE ReadFails
  BY <1>12, ClosedType, RetryType DEF ReadFails, TypeOK, Retry
<1>13. CASE Close
  BY <1>13, ClosedType DEF Close, TypeOK
<1>14. ASSUME NEW r \in request, NEW parts \in 1..2, Serve(r, parts)
       PROVE  TypeOK'
  <2>1. Answers(r, parts) \in Seq(Packet) /\ Answers(r, parts) # <<>>
    BY AnswersType
  <2>2. inbox' \in Seq(Packet)
    <3>1. inbox \o Answers(r, parts) \in Seq(Packet)
      BY <1>seq, <2>1, InboxAfterAnswer
    <3> QED  BY <1>14, <3>1 DEF Serve
  <2>3. executed' \in SUBSET Commands
    <3>1. {r.of} \ {Auth} \subseteq Commands
      BY DEF TypeOK, Request, Commands, Auth
    <3> QED  BY <1>14, <3>1 DEF Serve, TypeOK
  <2> QED  BY <1>14, <2>2, <2>3 DEF Serve, TypeOK, Auth
<1>15. ASSUME NEW c \in abandoned, ServeAbandoned(c)
       PROVE  TypeOK'
  <2>1. abandoned' \in SUBSET Commands /\ executed' \in SUBSET Commands
    BY <1>15 DEF ServeAbandoned, TypeOK
  <2> QED  BY <1>15, <2>1 DEF ServeAbandoned, TypeOK
<1>16. CASE ServerDies
  <2>1. inbox' \in Seq(Packet)
    <3>1. <<>> \in Seq(Packet)
      OBVIOUS
    <3>2. inbox' = inbox \/ inbox' = <<>>
      BY <1>16 DEF ServerDies
    <3> QED  BY <1>seq, <3>1, <3>2
  <2> QED  BY <1>16, <2>1 DEF ServerDies, TypeOK
<1>17. CASE ChangePassword
  BY <1>17 DEF ChangePassword, TypeOK, line
<1>18. CASE UNCHANGED vars
  BY <1>18 DEF vars, TypeOK, line
<1> QED
  BY <1>1, <1>2, <1>3, <1>4, <1>5, <1>6, <1>7, <1>8, <1>9, <1>10, <1>11, <1>12, <1>13,
     <1>14, <1>15, <1>16, <1>17, <1>18 DEF Next, ClientStep, ServerStep
-----------------------------------------------------------------------------
(* The invariant.                                                          *)

LEMMA InitInv == Init => IInv
<1> SUFFICES ASSUME Init
             PROVE  IInv
  OBVIOUS
<1>1. TypeOK
  BY InitType
<1>2. LoginInv /\ RestInv /\ ReadInv /\ AttemptInv
  BY DEF Init, LoginInv, RestInv, ReadInv, AttemptInv
<1> QED  BY <1>1, <1>2 DEF IInv, Init, AnswersAreOwn, OldFaultsAreBridged

\* The client begins a command, finds its connection, opens one or fails to.
LEMMA ConnectStep ==
  ASSUME IInv, TypeOK', Begin \/ Connected \/ Dial \/ DialFails
  PROVE  IInv'
<1> USE DEF IInv
<1>1. CASE Begin
  BY <1>1 DEF Begin, line, TypeOK, LoginInv, RestInv, ReadInv, AttemptInv, AnswersAreOwn,
              OldFaultsAreBridged
<1>2. CASE Connected
  BY <1>2 DEF Connected, line, TypeOK, LoginInv, RestInv, ReadInv, AttemptInv, AnswersAreOwn,
              OldFaultsAreBridged
<1>3. CASE Dial
  <2>1. requestID' # nextID'
    BY <1>3, FollowingType DEF Dial, TakeRequestID, TypeOK
  <2>2. LoginInv' /\ RestInv' /\ ReadInv'
    BY <1>3 DEF Dial, LoginInv, RestInv, ReadInv
  <2> QED  BY <1>3, <2>1, <2>2 DEF Dial, TypeOK, AttemptInv, AnswersAreOwn, OldFaultsAreBridged
<1>4. CASE DialFails
  BY <1>4, FailType DEF DialFails, line, LoginInv, RestInv, ReadInv, AttemptInv,
              AnswersAreOwn, OldFaultsAreBridged
<1> QED  BY <1>1, <1>2, <1>3, <1>4

\* The answer to the login arrives or does not.
LEMMA LoginStep ==
  ASSUME IInv, TypeOK', LoggedIn \/ LoginRefused \/ LoginFails
  PROVE  IInv'
<1> USE DEF IInv
<1>1. CASE LoggedIn
  <2>1. inbox' = <<>> /\ request' = {} /\ fresh
    <3>1. Len(inbox') = Len(inbox) - 1 /\ inbox' \in Seq(Packet) /\ Len(inbox) < 2
          /\ Len(inbox) > 0
      BY <1>1, RestOfInbox, EmptySeq DEF LoggedIn, TypeOK, LoginInv
    <3>2. Len(inbox') = 0
      BY <3>1
    <3> QED  BY <1>1, <3>1, <3>2, EmptySeq DEF LoggedIn, LoginInv
  <2> QED  BY <1>1, <2>1 DEF LoggedIn, LoginInv, RestInv, ReadInv, AttemptInv, AnswersAreOwn,
                             OldFaultsAreBridged
<1>2. CASE LoginRefused
  <2>1. excused
    BY <1>2, RestOfInbox DEF LoginRefused, LoginInv, TypeOK
  <2> QED  BY <1>2, <2>1, ClosedType, FailType DEF LoginRefused, LoginInv, RestInv, ReadInv,
              AttemptInv, AnswersAreOwn, OldFaultsAreBridged
<1>3. CASE LoginFails
  BY <1>3, ClosedType, FailType DEF LoginFails, LoginInv, RestInv, ReadInv, AttemptInv,
              AnswersAreOwn, OldFaultsAreBridged
<1> QED  BY <1>1, <1>2, <1>3

\* An attempt that fails keeps the invariant, if the second one fails for a reason
\* that excuses the command.
LEMMA RetryStep ==
  ASSUME IInv, TypeOK', Retry, pc \in {"send", "read"}, attempt > 1 => excused'
  PROVE  IInv'
<1>1. conn' = "none" /\ request' = {} /\ inbox' = <<>>
  BY ClosedType DEF Retry, IInv
<1>2. CASE attempt < 2
  <2>1. pc' = "connect" /\ attempt' = attempt + 1 /\ result' = result /\ result.kind = "none"
        /\ attempt' > 0 /\ command' = command /\ command > 0
    BY <1>2 DEF Retry, TryAgain, IInv, AttemptInv, TypeOK
  <2> QED  BY <1>1, <2>1 DEF IInv, LoginInv, RestInv, ReadInv, AttemptInv, AnswersAreOwn,
                             OldFaultsAreBridged
<1>3. CASE ~(attempt < 2)
  <2>1. pc' = "idle" /\ result' = [kind |-> "failed", answers |-> 0]
    BY <1>3, FailType DEF Retry, IInv
  <2>2. excused'
    BY <1>3 DEF IInv, TypeOK
  <2> QED  BY <1>1, <2>1, <2>2 DEF IInv, LoginInv, RestInv, ReadInv, AttemptInv, AnswersAreOwn,
                             OldFaultsAreBridged
<1> QED  BY <1>2, <1>3

\* A request goes out or not, and a packet is read or not.
LEMMA AttemptStep ==
  ASSUME IInv, TypeOK', Send \/ SendFails \/ ReadAnswer \/ ReadRest \/ ReadFails
  PROVE  IInv'
<1>type. TypeOK /\ inbox \in Seq(Packet)
  BY DEF IInv, TypeOK
<1>1. CASE Send
  <2>1. requestID' # requestID /\ requestID' # nextID' /\ requestID' = nextID
    BY <1>1, FollowingType DEF Send, Written, TakeRequestID, IInv, TypeOK, AttemptInv
  <2>2. \A i \in DOMAIN inbox' : inbox'[i].id # requestID'
    BY <1>1, <2>1 DEF Send, IInv, RestInv
  <2>3. inbox # <<>> => Head(inbox).id # requestID'
    BY <1>1, <1>type, <2>1, RestOfInbox DEF Send, IInv, RestInv
  <2>4. fresh => inbox = <<>>
    BY <1>1 DEF Send, IInv, RestInv
  <2>5. \A r \in request' : r.id = requestID' /\ r.of = command
    BY <1>1, <2>1 DEF Send, Written
  <2>6. ReadInv'
    BY <1>1, <2>2, <2>3, <2>4, <2>5 DEF Send, ReadInv
  <2> QED  BY <1>1, <2>1, <2>6 DEF Send, IInv, LoginInv, RestInv, AttemptInv, AnswersAreOwn,
              OldFaultsAreBridged
<1>2. CASE SendFails
  BY <1>2, RetryStep DEF SendFails, IInv, AttemptInv
<1>3. CASE ReadAnswer
  <2>1. /\ Head(inbox) = inbox[1] /\ 1 \in DOMAIN inbox
        /\ \A i \in DOMAIN inbox' : i + 1 \in DOMAIN inbox /\ inbox'[i] = inbox[i + 1]
    BY <1>3, <1>type, RestOfInbox DEF ReadAnswer
  <2>2. Head(inbox).of = command /\ command \in executed /\ request = {}
    BY <1>3, <2>1 DEF ReadAnswer, IInv, ReadInv
  <2>3. \A i \in DOMAIN inbox' : inbox'[i].id = requestID
    BY <1>3, <2>1 DEF ReadAnswer, IInv, ReadInv
  <2>4. pc' = "idle" /\ command' = command
        /\ result' = [kind |-> "ok", answers |-> Head(inbox).of]
    BY <1>3 DEF ReadAnswer, Return
  <2> QED  BY <1>3, <2>2, <2>3, <2>4 DEF ReadAnswer, IInv, LoginInv, RestInv, ReadInv, AttemptInv,
              AnswersAreOwn, OldFaultsAreBridged
<1>4. CASE ReadRest
  <2>1. Head(inbox) = inbox[1] /\ 1 \in DOMAIN inbox
    BY <1>4, <1>type, RestOfInbox DEF ReadRest
  <2>2. ~fresh
    BY <1>4, <2>1 DEF ReadRest, IInv, ReadInv
  <2>3. ~(attempt > 1)
    BY <1>4, <2>2 DEF ReadRest, IInv, AttemptInv
  <2> QED  BY <1>4, <2>3, RetryStep DEF ReadRest
<1>5. CASE ReadFails
  BY <1>5, RetryStep DEF ReadFails, IInv, AttemptInv
<1> QED  BY <1>1, <1>2, <1>3, <1>4, <1>5

\* The server answers what lies on the connection.
LEMMA ServeStep ==
  ASSUME IInv, TypeOK', NEW r \in request, NEW parts \in 1..2, Serve(r, parts)
  PROVE  IInv'
<1> DEFINE a == Answers(r, parts)
<1>type. TypeOK /\ inbox \in Seq(Packet)
  BY DEF IInv, TypeOK
<1>1. /\ a \in Seq(Packet) /\ a # <<>>
      /\ \A j \in DOMAIN a : a[j].of = r.of
      /\ r.of = Auth => Len(a) = 1
      /\ r.of # Auth \/ password => \A j \in DOMAIN a : a[j].id = r.id
  BY <1>type, AnswersType
<1>2. inbox' = inbox \o a /\ request' = {}
      /\ UNCHANGED <<conn, nextID, requestID, pc, attempt, command, result, fresh>>
      /\ (excused => excused') /\ executed \subseteq executed'
      /\ (r.of = Auth /\ ~password => excused')
      /\ (r.of # Auth => r.of \in executed')
  BY DEF Serve
<1> HIDE DEF a
<1>3. /\ inbox' # <<>> /\ Len(inbox') = Len(inbox) + Len(a)
      /\ inbox # <<>> => Head(inbox') = Head(inbox)
      /\ \A i \in DOMAIN inbox' :
           \/ i \in DOMAIN inbox /\ inbox'[i] = inbox[i]
           \/ \E j \in DOMAIN a : inbox'[i] = a[j]
  BY <1>type, <1>1, <1>2, InboxAfterAnswer
<1>4. LoginInv'
  <2> SUFFICES ASSUME pc = "login"
               PROVE  /\ fresh /\ Len(inbox') < 2
                      /\ \A i \in DOMAIN inbox' : inbox'[i].id = -1 => excused'
    BY <1>2 DEF LoginInv
  <2>1. inbox = <<>> /\ r.of = Auth /\ fresh
    BY DEF IInv, LoginInv
  <2>2. Len(inbox') < 2
    <3>1. Len(inbox) = 0
      BY <2>1
    <3>2. Len(a) = 1
      BY <1>1, <2>1
    <3>3. Len(inbox') = Len(inbox) + Len(a)
      BY <1>3
    <3> QED  BY <3>1, <3>2, <3>3
  <2>3. r.id # -1
    BY <1>type, MaxIntAssumption DEF TypeOK, Request
  <2>4. \A i \in DOMAIN inbox' : inbox'[i].id = -1 => excused'
    BY <1>1, <1>2, <1>3, <2>1, <2>3
  <2> QED  BY <2>1, <2>2, <2>4
<1>5. pc \in {"login", "read"}
  BY <1>type DEF IInv, RestInv, TypeOK
<1>6. RestInv'
  BY <1>2, <1>5 DEF RestInv
<1>7. ReadInv'
  <2> SUFFICES ASSUME pc = "read"
               PROVE  ReadInv'
    BY <1>2 DEF ReadInv
  <2>1. r.id = requestID /\ r.of = command /\ \A i \in DOMAIN inbox : inbox[i].id # requestID
    BY DEF IInv, ReadInv
  <2>2. r.of # Auth
    <3>1. command # 0
      BY <1>type DEF IInv, AttemptInv, TypeOK
    <3> QED  BY <2>1, <3>1 DEF Auth
  <2>3. \A j \in DOMAIN a : a[j].id = requestID /\ a[j].of = command
    BY <1>1, <2>1, <2>2
  <2>4. \A i \in DOMAIN inbox' : inbox'[i].id = requestID
          => inbox'[i].of = command /\ command \in executed'
    BY <1>2, <1>3, <2>1, <2>2, <2>3
  <2>5. fresh \/ Head(inbox').id = requestID => \A i \in DOMAIN inbox' : inbox'[i].id = requestID
    <3>1. CASE inbox = <<>>
      BY <1>3, <2>3, <3>1
    <3>2. CASE inbox # <<>>
      <4>1. ~fresh /\ Head(inbox').id # requestID
        BY <1>type, <1>3, <2>1, <3>2, RestOfInbox DEF IInv, ReadInv
      <4> QED  BY <4>1
    <3> QED  BY <3>1, <3>2
  <2> QED  BY <1>2, <2>4, <2>5 DEF ReadInv
<1>8. AttemptInv'
  BY <1>2 DEF IInv, AttemptInv
<1>9. AnswersAreOwn' /\ OldFaultsAreBridged'
  BY <1>2 DEF IInv, AnswersAreOwn, OldFaultsAreBridged
<1> QED  BY <1>2, <1>4, <1>6, <1>7, <1>8, <1>9 DEF IInv


\* The server answers late, dies or gets another password; the client closes.
LEMMA OtherStep ==
  ASSUME IInv, TypeOK',
         \/ \E c \in abandoned : ServeAbandoned(c)
         \/ Close \/ ServerDies \/ ChangePassword \/ UNCHANGED vars
  PROVE  IInv'
<1>1. ASSUME NEW c \in abandoned, ServeAbandoned(c)
      PROVE  IInv'
  BY <1>1 DEF ServeAbandoned, IInv, LoginInv, RestInv, ReadInv, AttemptInv, AnswersAreOwn,
              OldFaultsAreBridged
<1>2. CASE Close
  BY <1>2, ClosedType DEF Close, IInv, LoginInv, RestInv, ReadInv, AttemptInv, AnswersAreOwn,
              OldFaultsAreBridged
<1>3. CASE ServerDies
  BY <1>3 DEF ServerDies, IInv, LoginInv, RestInv, ReadInv, AttemptInv, AnswersAreOwn,
              OldFaultsAreBridged
<1>4. CASE ChangePassword
  BY <1>4 DEF ChangePassword, line, IInv, LoginInv, RestInv, ReadInv, AttemptInv,
              AnswersAreOwn, OldFaultsAreBridged
<1>5. CASE UNCHANGED vars
  BY <1>5 DEF vars, line, IInv, LoginInv, RestInv, ReadInv, AttemptInv, AnswersAreOwn,
              OldFaultsAreBridged
<1> QED  BY <1>1, <1>2, <1>3, <1>4, <1>5

LEMMA InvStep == IInv /\ [Next]_vars => IInv'
<1> SUFFICES ASSUME IInv, [Next]_vars
             PROVE  IInv'
  OBVIOUS
<1>1. TypeOK'
  BY TypeStep DEF IInv
<1>2. CASE Begin \/ Connected \/ Dial \/ DialFails
  BY <1>1, <1>2, ConnectStep
<1>3. CASE LoggedIn \/ LoginRefused \/ LoginFails
  BY <1>1, <1>3, LoginStep
<1>4. CASE Send \/ SendFails \/ ReadAnswer \/ ReadRest \/ ReadFails
  BY <1>1, <1>4, AttemptStep
<1>5. ASSUME NEW r \in request, NEW parts \in 1..2, Serve(r, parts)
      PROVE  IInv'
  BY <1>1, <1>5, ServeStep
<1>6. CASE \/ \E c \in abandoned : ServeAbandoned(c)
           \/ Close \/ ServerDies \/ ChangePassword \/ UNCHANGED vars
  BY <1>1, <1>6, OtherStep
<1> QED  BY <1>2, <1>3, <1>4, <1>5, <1>6 DEF Next, ClientStep, ServerStep

LEMMA Invariance == Spec => []IInv
<1>1. Init => IInv
  BY InitInv
<1>2. IInv /\ [Next]_vars => IInv'
  BY InvStep
<1> QED  BY <1>1, <1>2, PTL DEF Spec

\* Client, connection and server stay within their types, and requests never
\* carry an identifier that is not positive, for every width of the integer.
THEOREM TypeCorrect == Spec => []TypeOK
<1>1. IInv => TypeOK
  BY DEF IInv
<1> QED  BY <1>1, Invariance, PTL

\* However many commands are given, and wherever identifiers wrap, what a command
\* returns as its answer is the server's answer to that command.
THEOREM AnswersOwn == Spec => []AnswersAreOwn
<1>1. IInv => AnswersAreOwn
  BY DEF IInv
<1> QED  BY <1>1, Invariance, PTL

\* The second attempt makes good whatever an earlier command, a dead connection or
\* the rest of a long answer left behind.
THEOREM OldFaultsBridged == Spec => []OldFaultsAreBridged
<1>1. IInv => OldFaultsAreBridged
  BY DEF IInv
<1> QED  BY <1>1, Invariance, PTL
=============================================================================
