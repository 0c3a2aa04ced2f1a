----------------------------- MODULE JoinWatch -----------------------------
(***************************************************************************)
(* One monitor watches who plays on its server.  When it starts it asks    *)
(* the server for the list of players and evaluates each one; then it      *)
(* takes its place at the end of the log and follows the lines that say    *)
(* who came and who left.  It keeps the names it believes online in        *)
(* onlinePlayers and evaluates a player only when the name enters that     *)
(* map.  The log is the feed of module LineFeed: "unread" holds the lines  *)
(* since the place taken.                                                  *)
(*                                                                         *)
(* Every stay of a player on the server is a session; lines carry the      *)
(* number of theirs.  "checked", "failed" and "unseen" are history: the    *)
(* players evaluated for the session they are in, those for whose session  *)
(* a step failed, and the sessions whose join the monitor cannot notice.   *)
(***************************************************************************)
EXTENDS Naturals, Sequences

CONSTANTS
  Player,      \* player names
  Condemned,   \* the players whom the tables condemn
  MaxSessions  \* bound: how often a player joins

ASSUME ConstantsAssumption ==
  /\ Condemned \subseteq Player
  /\ MaxSessions \in Nat

VARIABLES
  online,    \* who is on the server
  session,   \* how often each player has joined
  announced, \* whose "joined the game" has been logged
  unread,    \* the lines between the place of the tailer and the end
  pc, seeds, onlinePlayers, current, back,  \* the monitor
  checked, unseen, failed

serverVars == <<online, session, announced>>
vars == <<online, session, announced, unread, pc, seeds, onlinePlayers,
          current, back, checked, unseen, failed>>

Stay == [player : Player, session : 0..MaxSessions]
Kind == {"login", "join", "leave"}
StayOf(p) == [player |-> p, session |-> session[p]]
After(stay) == [stay EXCEPT !.session = @ + 1]
Ahead(stays) == {stay \in stays : stay.session >= session[stay.player]}

Init ==
  /\ online = {} /\ announced = {}
  /\ session = [p \in Player |-> 0]
  /\ unread = <<>>
  /\ pc = "off" /\ seeds = {} /\ onlinePlayers = {} /\ current = {} /\ back = "seed"
  /\ checked = {} /\ unseen = {} /\ failed = {}

-----------------------------------------------------------------------------
(* The Minecraft server.                                                   *)

\* Sessions that will not be noticed when this line is never read: a join nobody
\* saw, or the one after a leave nobody saw.
Hides(kind, stay) ==
  CASE kind = "join"  -> {stay}
    [] kind = "leave" -> {After(stay)}
    [] OTHER          -> {}

Following == back = "loop"
InGap == pc # "off" /\ ~Following

\* A line is written: for the monitor to read, or before it took its place.
LogLine(kind, stay) ==
  /\ unread' = IF Following
               THEN Append(unread, [kind |-> kind, stay |-> stay]) ELSE unread
  /\ unseen' = IF InGap THEN Ahead(unseen \cup Hides(kind, stay)) ELSE Ahead(unseen)

monitor == <<pc, seeds, onlinePlayers, current, back>>
verdicts == <<checked, failed>>

LogIn(p) ==
  /\ p \notin online /\ session[p] < MaxSessions
  /\ online' = online \cup {p}
  /\ session' = [session EXCEPT ![p] = @ + 1]
  /\ LogLine("login", After(StayOf(p)))
  /\ checked' = checked \ {p} /\ failed' = failed \ {p}
  /\ UNCHANGED <<announced, monitor>>

Announce(p) ==
  /\ p \in online \ announced
  /\ announced' = announced \cup {p}
  /\ LogLine("join", StayOf(p))
  /\ UNCHANGED <<online, session, monitor, verdicts>>

Offline(p) ==
  /\ online' = online \ {p}
  /\ announced' = announced \ {p}
  /\ UNCHANGED session

Leave(p) ==
  /\ p \in online
  /\ Offline(p)
  /\ LogLine("leave", StayOf(p))
  /\ UNCHANGED <<monitor, verdicts>>

\* The server dies: everyone is gone and no line says so.
ServerDies ==
  /\ online # {}
  /\ online' = {} /\ announced' = {}
  /\ unseen' = unseen \cup {After(StayOf(p)) : p \in online}
  /\ UNCHANGED <<session, unread, monitor, verdicts>>

\* A new log file hides the lines that were not read yet.
NewLogFile ==
  /\ unread # <<>> /\ pc = "loop"
  /\ unread' = <<>>
  /\ unseen' = unseen \cup UNION {Hides(unread[i].kind, unread[i].stay) : i \in DOMAIN unread}
  /\ UNCHANGED <<serverVars, monitor, verdicts>>

-----------------------------------------------------------------------------
(* The start of the monitor: list, evaluate, take the place in the log.    *)

Fails(stay) ==
  failed' = failed \cup {p \in {stay.player} : StayOf(p) = stay}

\* A command that fails lists nobody, and an answer of several packets is cut off
\* after the first: the monitor goes on with whom it has.
ListPlayers(listed) ==
  /\ pc = "off"
  /\ pc' = "seed" /\ back' = "seed"
  /\ seeds' = {StayOf(p) : p \in listed}
  /\ onlinePlayers' = {} /\ unread' = <<>>
  /\ unseen' = {} /\ failed' = failed \cup (online \ listed)
  /\ UNCHANGED <<serverVars, current, checked>>

SeedOnly(stay) ==
  /\ pc = "seed" /\ stay \in seeds
  /\ seeds' = seeds \ {stay}
  /\ onlinePlayers' = onlinePlayers \cup {stay.player}
  /\ UNCHANGED <<serverVars, unread, pc, current, back, checked, unseen, failed>>

SeedPlayer(stay) ==
  /\ pc = "seed" /\ stay \in seeds
  /\ seeds' = seeds \ {stay}
  /\ onlinePlayers' = onlinePlayers \cup {stay.player}
  /\ current' = {stay} /\ pc' = "decide"
  /\ UNCHANGED <<serverVars, unread, back, checked, unseen, failed>>

\* No UUID for a player of the list: skipped.
SeedUnresolved(stay) ==
  /\ pc = "seed" /\ stay \in seeds
  /\ seeds' = seeds \ {stay}
  /\ Fails(stay)
  /\ UNCHANGED <<serverVars, unread, pc, onlinePlayers, current, back, checked, unseen>>

\* The first ReadNewLines takes its place at the end of the log and gives
\* nothing; while the file cannot be opened the gap stays open.
TakePlace ==
  /\ pc = "seed" /\ seeds = {}
  /\ pc' = "loop" /\ back' = "loop"
  /\ UNCHANGED <<serverVars, unread, seeds, onlinePlayers, current, checked, unseen, failed>>

-----------------------------------------------------------------------------
(* processLogLine and handleJoinedPlayer.                                  *)

line == Head(unread)
NextLine(kinds) ==
  /\ pc = "loop" /\ unread # <<>>
  /\ line.kind \in kinds
  /\ unread' = Tail(unread)

IgnoreLeave ==
  /\ NextLine({"leave"})
  /\ UNCHANGED <<serverVars, pc, seeds, onlinePlayers, current, back, checked, unseen, failed>>

ReadLeave ==
  /\ NextLine({"leave"})
  /\ onlinePlayers' = onlinePlayers \ {line.stay.player}
  /\ UNCHANGED <<serverVars, pc, seeds, current, back, checked, unseen, failed>>

AlreadyOnlineInverted ==
  /\ NextLine({"login", "join"})
  /\ line.stay.player \notin onlinePlayers
  /\ UNCHANGED <<serverVars, pc, seeds, onlinePlayers, current, back, checked, unseen, failed>>

AlreadyOnline ==
  /\ NextLine({"login", "join"})
  /\ line.stay.player \in onlinePlayers
  /\ UNCHANGED <<serverVars, pc, seeds, onlinePlayers, current, back, checked, unseen, failed>>

ReadJoinUntracked ==
  /\ NextLine({"login", "join"})
  /\ line.stay.player \notin onlinePlayers
  /\ current' = {line.stay} /\ pc' = "decide"
  /\ UNCHANGED <<serverVars, seeds, onlinePlayers, back, checked, unseen, failed>>

ReadJoin ==
  /\ NextLine({"login", "join"})
  /\ line.stay.player \notin onlinePlayers
  /\ onlinePlayers' = onlinePlayers \cup {line.stay.player}
  /\ current' = {line.stay} /\ pc' = "decide"
  /\ UNCHANGED <<serverVars, seeds, back, checked, unseen, failed>>

\* No UUID for the player: the line is skipped, and the name stays unknown.
JoinUnresolved ==
  /\ NextLine({"login", "join"})
  /\ line.stay.player \notin onlinePlayers
  /\ Fails(line.stay)
  /\ UNCHANGED <<serverVars, pc, seeds, onlinePlayers, current, back, checked, unseen>>

\* The player goes on playing, for now: back to the list or to the log.
Return ==
  /\ pc' = back /\ current' = {}
  /\ UNCHANGED <<seeds, onlinePlayers, back>>

Evaluated(stay) ==
  checked' = checked \cup {p \in {stay.player} : StayOf(p) = stay}

Allow(stay) ==
  /\ pc = "decide"
  /\ stay.player \notin Condemned
  /\ Evaluated(stay) /\ Return
  /\ UNCHANGED <<serverVars, unread, unseen, failed>>

Condemn(stay) ==
  /\ pc = "decide"
  /\ stay.player \in Condemned
  /\ Evaluated(stay) /\ pc' = "kick"
  /\ UNCHANGED <<serverVars, unread, seeds, onlinePlayers, current, back, unseen, failed>>

DecideFails(stay) ==
  /\ pc = "decide"
  /\ Fails(stay) /\ Return
  /\ UNCHANGED <<serverVars, unread, checked, unseen>>

\* The server drops whoever has that name now, and logs it.
Kick(stay) ==
  /\ pc = "kick" /\ stay.player \in online
  /\ Offline(stay.player) /\ LogLine("leave", StayOf(stay.player)) /\ Return
  /\ UNCHANGED verdicts

\* For a player who is not there the command has no effect.
KickNobody(stay) ==
  /\ pc = "kick" /\ stay.player \notin online
  /\ Return
  /\ UNCHANGED <<serverVars, unread, unseen, verdicts>>

KickFails(stay) ==
  /\ pc = "kick"
  /\ Fails(stay) /\ Return
  /\ UNCHANGED <<serverVars, unread, checked, unseen>>

\* The monitor is stopped, wherever it is, and its maps are gone.
Stop ==
  /\ pc # "off"
  /\ pc' = "off"
  /\ seeds' = {} /\ onlinePlayers' = {} /\ current' = {} /\ back' = "seed"
  /\ unread' = <<>> /\ checked' = {} /\ unseen' = {} /\ failed' = {}
  /\ UNCHANGED serverVars

ServerStep ==
  \/ \E p \in Player : LogIn(p) \/ Announce(p) \/ Leave(p)
  \/ ServerDies
  \/ NewLogFile

MonitorStep ==
  \/ \E listed \in SUBSET online : ListPlayers(listed)
  \/ \E stay \in seeds : SeedPlayer(stay) \/ SeedUnresolved(stay)
  \/ TakePlace
  \/ ReadLeave \/ AlreadyOnline \/ ReadJoin \/ JoinUnresolved
  \/ \E stay \in current :
       \/ Allow(stay) \/ Condemn(stay) \/ DecideFails(stay)
       \/ Kick(stay) \/ KickNobody(stay) \/ KickFails(stay)

Next == ServerStep \/ MonitorStep \/ Stop

Spec == Init /\ [][Next]_vars /\ WF_vars(MonitorStep)

-----------------------------------------------------------------------------
(* Properties.                                                             *)

Pc == {"off", "seed", "loop", "decide", "kick"}

\* The variables hold what the server, the log and the monitor's maps can hold;
\* a player is evaluated after the name was entered in the map.
TypeOK ==
  /\ online \in SUBSET Player /\ announced \in SUBSET online
  /\ session \in [Player -> 0..MaxSessions]
  /\ unread \in Seq([kind : Kind, stay : Stay])
  /\ pc \in Pc /\ back \in {"seed", "loop"}
  /\ seeds \in SUBSET Stay /\ onlinePlayers \in SUBSET Player
  /\ current \in SUBSET Stay /\ {stay.player : stay \in current} \subseteq onlinePlayers
  /\ checked \in SUBSET Player /\ failed \in SUBSET Player
  /\ unseen \in SUBSET [player : Player, session : 0..(MaxSessions + 1)]

CaughtUp == pc = "loop" /\ unread = <<>>
Excused(p) == StayOf(p) \in unseen \/ p \in failed

\* Once the log is read to its end, everybody whose join was announced was
\* evaluated for the session they are in, whatever the order of joins, leaves, kicks and reads:
\* except sessions whose join fell into the gap between the list and the place in
\* the log or into a lost piece of the log, sessions that follow a leave nobody
\* saw, and sessions for which a step failed.
EveryoneIsChecked ==
  CaughtUp => \A p \in announced : p \in checked \/ Excused(p)

\* With the same exceptions, no condemned player is left on the server.
NoCondemnedStays ==
  CaughtUp => \A p \in announced \cap Condemned : Excused(p)

\* An announced join is dealt with in the end, unless the player leaves first or
\* the monitor is stopped.
JoinsAreNoticed ==
  \A p \in Player :
    p \in announced ~> (p \in checked \/ p \notin online \/ Excused(p) \/ pc = "off")
=============================================================================
