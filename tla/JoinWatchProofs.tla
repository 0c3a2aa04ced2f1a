-------------------------- MODULE JoinWatchProofs --------------------------
(* Proofs about JoinWatch for every set of players and any number of       *)
(* sessions.                                                               *)
EXTENDS JoinWatch, SequenceTheorems, TLAPS

Line == [kind : Kind, stay : Stay]
FarStay == [player : Player, session : 0..(MaxSessions + 1)]

\* The stay of a player whose join no leave has made up for: the one they are in, or
\* the next one.
Coming(p) == IF p \in online THEN StayOf(p) ELSE After(StayOf(p))

\* The line takes the name out of the map in time for that stay.
Frees(entry, p) == entry.kind = "leave" /\ After(entry.stay) = Coming(p)

\* The player is on the server and dealt with.
Dealt(p) == p \in online /\ (p \in checked \/ p \in failed \/ StayOf(p) \in current)

\* Where the monitor is in its program.
PlaceInv ==
  /\ pc = "off" => back = "seed" /\ seeds = {} /\ onlinePlayers = {} /\ checked = {}
  /\ pc = "loop" => back = "loop"
  /\ pc = "seed" => back = "seed"
  /\ back = "seed" => unread = <<>>
  /\ back = "loop" => seeds = {}
  /\ pc \in {"decide", "kick"} => \E stay \in Stay : current = {stay}
  /\ pc \notin {"decide", "kick"} => current = {}

\* Lines are not about stays to come.
AgeInv == \A i \in DOMAIN unread : unread[i].stay.session <= session[unread[i].stay.player]

\* After a join of an old stay there is a leave, unless the next join cannot be noticed.
LineInv ==
  \A i \in DOMAIN unread :
    \/ unread[i].kind = "leave"
    \/ unread[i].stay = Coming(unread[i].stay.player)
    \/ Coming(unread[i].stay.player) \in unseen
    \/ \E j \in DOMAIN unread : i < j /\ Frees(unread[j], unread[i].stay.player)

\* The leave of the last stay is before the join of this one.
OrderInv ==
  \A i, j \in DOMAIN unread :
    /\ Frees(unread[i], unread[j].stay.player)
    /\ unread[j].kind # "leave"
    /\ unread[j].stay = Coming(unread[j].stay.player)
    => i < j

\* Who was listed is still there, or has left in the gap.
SeedsInv ==
  \A stay \in seeds :
    /\ stay.session <= session[stay.player]
    /\ stay = Coming(stay.player) \/ Coming(stay.player) \in unseen

\* A name in the map keeps nobody from being evaluated.
TrackedInv ==
  \A p \in onlinePlayers :
    \/ Coming(p) \in unseen
    \/ Dealt(p)
    \/ \E i \in DOMAIN unread : Frees(unread[i], p)

\* Whose join was announced is evaluated, or will be.
AnnouncedInv ==
  pc # "off" =>
    \A p \in announced :
      \/ Coming(p) \in unseen
      \/ Dealt(p)
      \/ StayOf(p) \in seeds
      \/ \E i \in DOMAIN unread : unread[i].kind = "join" /\ unread[i].stay = StayOf(p)

\* A condemned player who was evaluated is about to be kicked.
KickInv ==
  \A p \in checked \cap Condemned \cap online :
    Excused(p) \/ (pc = "kick" /\ StayOf(p) \in current)

IInv ==
  /\ TypeOK
  /\ PlaceInv
  /\ AgeInv /\ LineInv /\ OrderInv
  /\ SeedsInv /\ TrackedInv /\ AnnouncedInv /\ KickInv

-----------------------------------------------------------------------------
(* Helpers.                                                                *)

\* Appending an element.
LEMMA AppendElement ==
  ASSUME NEW S, NEW s \in Seq(S), NEW e \in S
  PROVE  /\ Append(s, e) \in Seq(S)
         /\ DOMAIN Append(s, e) = 1..(Len(s) + 1) /\ DOMAIN s = 1..Len(s) /\ Len(s) \in Nat
         /\ \A i \in DOMAIN s : Append(s, e)[i] = s[i]
         /\ Append(s, e)[Len(s) + 1] = e
BY LenProperties

\* What is left after the first element was taken.
LEMMA RestOfSeq ==
  ASSUME NEW S, NEW s \in Seq(S), s # <<>>
  PROVE  /\ Head(s) = s[1] /\ 1 \in DOMAIN s /\ Head(s) \in S
         /\ Tail(s) \in Seq(S)
         /\ DOMAIN Tail(s) = 1..(Len(s) - 1) /\ DOMAIN s = 1..Len(s) /\ Len(s) \in Nat
         /\ \A i \in DOMAIN Tail(s) : Tail(s)[i] = s[i + 1]
<1>1. Len(s) \in Nat /\ Len(s) > 0 /\ DOMAIN s = 1..Len(s)
  BY EmptySeq, LenProperties
<1>2. /\ Head(s) \in S /\ Tail(s) \in Seq(S) /\ Len(Tail(s)) = Len(s) - 1
      /\ \A i \in 1..Len(Tail(s)) : Tail(s)[i] = s[i + 1]
  BY <1>1, HeadTailProperties
<1>3. DOMAIN Tail(s) = 1..(Len(s) - 1)
  BY <1>2, LenProperties
<1> QED  BY <1>1, <1>2, <1>3

\* Stays and the stays that follow them.
LEMMA StayType ==
  ASSUME TypeOK
  PROVE  /\ \A p \in Player : /\ StayOf(p) \in Stay /\ StayOf(p) \in FarStay
                              /\ StayOf(p).player = p /\ StayOf(p).session = session[p]
                              /\ After(StayOf(p)) \in FarStay
                              /\ Coming(p) \in FarStay /\ Coming(p).player = p
                              /\ Coming(p).session >= session[p]
         /\ \A stay \in Stay : /\ stay \in FarStay /\ After(stay) \in FarStay
                               /\ After(stay).player = stay.player
                               /\ After(stay).session = stay.session + 1
                               /\ stay.player \in Player /\ stay.session \in Nat
         /\ \A p \in Player : session[p] \in 0..MaxSessions
<1>1. ASSUME NEW p \in Player
      PROVE  session[p] \in 0..MaxSessions /\ session[p] \in 0..(MaxSessions + 1)
             /\ session[p] + 1 \in 0..(MaxSessions + 1) /\ session[p] \in Nat
  BY ConstantsAssumption DEF TypeOK
<1>2. ASSUME NEW p \in Player
      PROVE  /\ StayOf(p) \in Stay /\ StayOf(p) \in FarStay
             /\ StayOf(p).player = p /\ StayOf(p).session = session[p]
  BY <1>1 DEF StayOf, Stay, FarStay
<1>3. ASSUME NEW stay \in Stay
      PROVE  /\ stay \in FarStay /\ After(stay) \in FarStay
             /\ After(stay).player = stay.player
             /\ After(stay).session = stay.session + 1
             /\ stay.player \in Player /\ stay.session \in Nat
  BY ConstantsAssumption DEF Stay, FarStay, After
<1>4. ASSUME NEW p \in Player
      PROVE  /\ Coming(p) \in FarStay /\ Coming(p).player = p
             /\ Coming(p).session >= session[p]
  BY <1>1, <1>2, <1>3 DEF Coming
<1> QED  BY <1>1, <1>2, <1>3, <1>4

\* A line of the log is written.
LEMMA LogLineType ==
  ASSUME TypeOK, NEW kind \in Kind, NEW stay \in Stay, LogLine(kind, stay)
  PROVE  unread' \in Seq(Line) /\ unseen' \in SUBSET FarStay
<1>1. [kind |-> kind, stay |-> stay] \in Line
  BY DEF Line
<1>2. unread \in Seq(Line)
  BY DEF TypeOK, Line
<1>3. Append(unread, [kind |-> kind, stay |-> stay]) \in Seq(Line)
  BY <1>1, <1>2, AppendElement
<1>4. Hides(kind, stay) \subseteq FarStay
  BY StayType DEF Hides, Kind
<1>5. unseen \subseteq FarStay
  BY DEF TypeOK, FarStay
<1> QED  BY <1>2, <1>3, <1>4, <1>5 DEF LogLine, Ahead
-----------------------------------------------------------------------------
(* Types.                                                                  *)

LEMMA InitType == Init => TypeOK
<1>1. <<>> \in Seq(Line)
  BY EmptySeq
<1> QED  BY <1>1, ConstantsAssumption DEF Init, TypeOK, Pc, Line

LEMMA ServerType ==
  ASSUME TypeOK, ServerStep
  PROVE  TypeOK'
<1> USE DEF TypeOK
<1>1. ASSUME NEW p \in Player, LogIn(p)
      PROVE  TypeOK'
  <2>1. After(StayOf(p)) \in Stay
    BY <1>1, ConstantsAssumption DEF LogIn, After, StayOf, Stay
  <2>2. unread' \in Seq(Line) /\ unseen' \in SUBSET FarStay
    BY <1>1, <2>1, LogLineType DEF LogIn, Kind
  <2>3. session' \in [Player -> 0..MaxSessions]
    BY <1>1, ConstantsAssumption DEF LogIn
  <2> QED  BY <1>1, <2>2, <2>3 DEF LogIn, monitor, Line, FarStay
<1>2. ASSUME NEW p \in Player, Announce(p)
      PROVE  TypeOK'
  <2>1. unread' \in Seq(Line) /\ unseen' \in SUBSET FarStay
    BY <1>2, StayType, LogLineType DEF Announce, Kind
  <2> QED  BY <1>2, <2>1 DEF Announce, monitor, verdicts, Line, FarStay
<1>3. ASSUME NEW p \in Player, Leave(p)
      PROVE  TypeOK'
  <2>1. unread' \in Seq(Line) /\ unseen' \in SUBSET FarStay
    BY <1>3, StayType, LogLineType DEF Leave, Kind
  <2> QED  BY <1>3, <2>1 DEF Leave, Offline, monitor, verdicts, Line, FarStay
<1>4. CASE ServerDies
  <2>1. unseen' \in SUBSET FarStay
    BY <1>4, StayType DEF ServerDies, FarStay
  <2> QED  BY <1>4, <2>1 DEF ServerDies, monitor, verdicts, FarStay
<1>5. CASE NewLogFile
  <2>1. ASSUME NEW i \in DOMAIN unread
        PROVE  Hides(unread[i].kind, unread[i].stay) \subseteq FarStay
    <3>1. unread[i] \in Line
      BY LenProperties, ElementOfSeq DEF Line
    <3> QED  BY <3>1, StayType DEF Hides, Line
  <2>2. unseen' \in SUBSET FarStay
    BY <1>5, <2>1 DEF NewLogFile, FarStay
  <2>3. <<>> \in Seq(Line)
    BY EmptySeq
  <2> QED  BY <1>5, <2>2, <2>3 DEF NewLogFile, serverVars, monitor, verdicts, Line, FarStay
<1> QED  BY <1>1, <1>2, <1>3, <1>4, <1>5 DEF ServerStep

LEMMA StartType ==
  ASSUME TypeOK, PlaceInv,
         \/ \E listed \in SUBSET online : ListPlayers(listed)
         \/ \E stay \in seeds : SeedPlayer(stay) \/ SeedUnresolved(stay)
         \/ TakePlace
  PROVE  TypeOK'
<1> USE DEF TypeOK
<1>1. ASSUME NEW listed \in SUBSET online, ListPlayers(listed)
      PROVE  TypeOK'
  <2>1. seeds' \in SUBSET Stay /\ failed' \in SUBSET Player
    BY <1>1, StayType DEF ListPlayers
  <2>2. <<>> \in Seq([kind : Kind, stay : Stay])
    BY EmptySeq
  <2> QED  BY <1>1, <2>1, <2>2 DEF ListPlayers, serverVars, Pc, PlaceInv
<1>2. ASSUME NEW stay \in seeds, SeedPlayer(stay)
      PROVE  TypeOK'
  BY <1>2, StayType DEF SeedPlayer, serverVars, Pc
<1>3. ASSUME NEW stay \in seeds, SeedUnresolved(stay)
      PROVE  TypeOK'
  BY <1>3, StayType DEF SeedUnresolved, Fails, serverVars
<1>4. CASE TakePlace
  BY <1>4 DEF TakePlace, serverVars, Pc
<1> QED  BY <1>1, <1>2, <1>3, <1>4

LEMMA ReadType ==
  ASSUME TypeOK, PlaceInv, ReadLeave \/ AlreadyOnline \/ ReadJoin \/ JoinUnresolved
  PROVE  TypeOK'
<1> USE DEF TypeOK
<1>1. unread # <<>> /\ unread' = Tail(unread) /\ current = {}
  BY DEF ReadLeave, AlreadyOnline, ReadJoin, JoinUnresolved, NextLine, PlaceInv
<1>2. line \in Line /\ unread' \in Seq(Line)
  BY <1>1, RestOfSeq DEF line, Line
<1>3. line.stay \in Stay /\ line.stay.player \in Player
  BY <1>2, StayType DEF Line
<1>4. CASE ReadLeave
  BY <1>1, <1>2, <1>4 DEF ReadLeave, serverVars, Line
<1>5. CASE AlreadyOnline
  BY <1>2, <1>5 DEF AlreadyOnline, serverVars, Line
<1>6. CASE ReadJoin
  BY <1>2, <1>3, <1>6 DEF ReadJoin, serverVars, Line, Pc
<1>7. CASE JoinUnresolved
  BY <1>2, <1>3, <1>7 DEF JoinUnresolved, Fails, serverVars, Line
<1> QED  BY <1>4, <1>5, <1>6, <1>7

LEMMA DecideType ==
  ASSUME TypeOK, NEW stay \in current,
         \/ Allow(stay) \/ Condemn(stay) \/ DecideFails(stay)
         \/ Kick(stay) \/ KickNobody(stay) \/ KickFails(stay)
  PROVE  TypeOK'
<1> USE DEF TypeOK
<1>1. stay \in Stay /\ stay.player \in Player
  BY StayType
<1>2. CASE Allow(stay) \/ Condemn(stay)
  BY <1>1, <1>2 DEF Allow, Condemn, Evaluated, Return, serverVars, Pc
<1>3. CASE DecideFails(stay) \/ KickFails(stay)
  BY <1>1, <1>3 DEF DecideFails, KickFails, Fails, Return, serverVars, Pc
<1>4. CASE Kick(stay)
  <2>1. unread' \in Seq(Line) /\ unseen' \in SUBSET FarStay
    BY <1>1, <1>4, StayType, LogLineType DEF Kick, Kind
  <2> QED  BY <1>4, <2>1 DEF Kick, Offline, Return, verdicts, Line, FarStay, Pc
<1>5. CASE KickNobody(stay)
  BY <1>5 DEF KickNobody, Return, serverVars, verdicts, Pc
<1> QED  BY <1>2, <1>3, <1>4, <1>5

LEMMA StopType ==
  ASSUME TypeOK, Stop
  PROVE  TypeOK'
<1>1. <<>> \in Seq([kind : Kind, stay : Stay])
  BY EmptySeq
<1> QED  BY <1>1 DEF Stop, TypeOK, serverVars, Pc

LEMMA TypeStep == TypeOK /\ PlaceInv /\ [Next]_vars => TypeOK'
<1> SUFFICES ASSUME TypeOK, PlaceInv, [Next]_vars
             PROVE  TypeOK'
  OBVIOUS
<1>1. CASE ServerStep
  BY <1>1, ServerType
<1>2. CASE MonitorStep
  BY <1>2, StartType, ReadType, DecideType DEF MonitorStep
<1>3. CASE Stop
  BY <1>3, StopType
<1>4. CASE UNCHANGED vars
  BY <1>4 DEF vars, TypeOK
<1> QED  BY <1>1, <1>2, <1>3, <1>4 DEF Next
-----------------------------------------------------------------------------
(* Facts the steps share.                                                  *)

\* What the lines of the log are about.
LEMMA LinesType ==
  ASSUME TypeOK
  PROVE  \A i \in DOMAIN unread :
           /\ i \in Nat /\ unread[i] \in Line
           /\ unread[i].kind \in Kind /\ unread[i].stay \in Stay
           /\ unread[i].stay.player \in Player /\ unread[i].stay.session \in Nat
           /\ After(unread[i].stay).player = unread[i].stay.player
           /\ After(unread[i].stay).session = unread[i].stay.session + 1
<1> TAKE i \in DOMAIN unread
<1>1. unread \in Seq(Line)
  BY DEF TypeOK, Line
<1>2. i \in Nat /\ unread[i] \in Line
  BY <1>1, LenProperties, ElementOfSeq
<1> QED  BY <1>2, StayType DEF Line

\* A written line leaves the lines before it where they are, and what could not be
\* noticed before it still cannot.
LEMMA LogLineKeeps ==
  ASSUME TypeOK, NEW kind \in Kind, NEW stay \in Stay, LogLine(kind, stay)
  PROVE  /\ \A i \in DOMAIN unread : i \in DOMAIN unread' /\ unread'[i] = unread[i]
         /\ \A i \in DOMAIN unread' \ DOMAIN unread :
              /\ unread'[i] = [kind |-> kind, stay |-> stay]
              /\ i = Len(unread) + 1 /\ \A j \in DOMAIN unread : j < i
         /\ Following => Len(unread) + 1 \in DOMAIN unread' \ DOMAIN unread
         /\ ~Following => unread' = unread
         /\ \A p \in Player : Coming(p) \in unseen => Coming(p) \in unseen'
         /\ InGap => \A hidden \in Hides(kind, stay) :
                       hidden.session >= session[hidden.player] => hidden \in unseen'
<1>1. unread \in Seq(Line) /\ [kind |-> kind, stay |-> stay] \in Line
  BY DEF TypeOK, Line
<1>2. ASSUME NEW p \in Player, Coming(p) \in unseen
      PROVE  Coming(p) \in unseen'
  BY <1>2, StayType DEF LogLine, Ahead
<1>3. InGap => \A hidden \in Hides(kind, stay) :
                 hidden.session >= session[hidden.player] => hidden \in unseen'
  BY DEF LogLine, Ahead
<1>4. CASE Following
  <2>1. unread' = Append(unread, [kind |-> kind, stay |-> stay])
    BY <1>4 DEF LogLine
  <2>2. /\ DOMAIN unread' = 1..(Len(unread) + 1) /\ DOMAIN unread = 1..Len(unread)
        /\ Len(unread) \in Nat
        /\ \A i \in DOMAIN unread : unread'[i] = unread[i]
        /\ unread'[Len(unread) + 1] = [kind |-> kind, stay |-> stay]
    BY <1>1, <2>1, AppendElement
  <2> QED  BY <1>2, <1>3, <1>4, <2>2
<1>5. CASE ~Following
  BY <1>2, <1>3, <1>5 DEF LogLine
<1> QED  BY <1>4, <1>5

\* While nobody joins or goes offline every stay stands.
LEMMA SameStays ==
  ASSUME UNCHANGED serverVars
  PROVE  /\ \A p \in Player : Coming(p)' = Coming(p) /\ StayOf(p)' = StayOf(p)
         /\ UNCHANGED <<online, session, announced>>
BY DEF serverVars, Coming, StayOf

\* Taking the first line moves the others one place to the front.
LEMMA TakenLine ==
  ASSUME TypeOK, PlaceInv, NEW kinds, NextLine(kinds)
  PROVE  /\ line = unread[1] /\ 1 \in DOMAIN unread /\ line.kind \in kinds
         /\ line.stay \in Stay /\ line.stay.player \in Player
         /\ \A i \in DOMAIN unread' : i \in Nat /\ i + 1 \in DOMAIN unread /\ unread'[i] = unread[i + 1]
         /\ \A i \in DOMAIN unread : i # 1 => i - 1 \in DOMAIN unread' /\ unread'[i - 1] = unread[i]
         /\ pc = "loop" /\ back = "loop" /\ current = {} /\ seeds = {}
<1>1. unread \in Seq(Line) /\ unread # <<>> /\ unread' = Tail(unread)
  BY DEF NextLine, TypeOK, Line
<1>2. /\ line = unread[1] /\ 1 \in DOMAIN unread
      /\ DOMAIN unread' = 1..(Len(unread) - 1) /\ DOMAIN unread = 1..Len(unread) /\ Len(unread) \in Nat
      /\ \A i \in DOMAIN unread' : unread'[i] = unread[i + 1]
  BY <1>1, RestOfSeq DEF line
<1>3. \A i \in DOMAIN unread' : i \in Nat /\ i + 1 \in DOMAIN unread /\ unread'[i] = unread[i + 1]
  BY <1>2
<1>4. ASSUME NEW i \in DOMAIN unread, i # 1
      PROVE  i - 1 \in DOMAIN unread' /\ unread'[i - 1] = unread[i]
  <2>1. i - 1 \in DOMAIN unread' /\ (i - 1) + 1 = i
    BY <1>2, <1>4
  <2> QED  BY <1>2, <2>1
<1>5. line.stay \in Stay /\ line.stay.player \in Player
  BY <1>2, LinesType
<1> QED  BY <1>2, <1>3, <1>4, <1>5 DEF NextLine, PlaceInv

-----------------------------------------------------------------------------
(* Every step keeps the invariant.                                         *)

LEMMA InitInv == Init => IInv
<1> SUFFICES ASSUME Init
             PROVE  IInv
  OBVIOUS
<1>1. TypeOK
  BY InitType
<1>2. DOMAIN unread = {}
  BY EmptySeq DEF Init
<1> QED  BY <1>1, <1>2 DEF Init, IInv, PlaceInv, AgeInv, LineInv, OrderInv, SeedsInv,
                          TrackedInv, AnnouncedInv, KickInv

LEMMA LogInInv ==
  ASSUME IInv, NEW p \in Player, LogIn(p), TypeOK'
  PROVE  IInv'
<1> USE DEF IInv
<1> DEFINE next == After(StayOf(p))
<1>1. next \in Stay /\ next = Coming(p) /\ next.player = p /\ p \notin online /\ p \notin announced
  BY ConstantsAssumption DEF LogIn, After, StayOf, Stay, TypeOK, Coming
<1>2. LogLine("login", next) /\ UNCHANGED <<announced, pc, seeds, onlinePlayers, current, back>>
  BY DEF LogIn, monitor
<1>3. \A q \in Player : Coming(q)' = Coming(q)
  BY DEF LogIn, Coming, StayOf, After, TypeOK
<1>4. \A q \in Player \ {p} : StayOf(q)' = StayOf(q) /\ (q \in online' <=> q \in online)
  BY DEF LogIn, StayOf, TypeOK
<1>5. \A q \in Player : session'[q] >= session[q] /\ session'[q] \in Nat /\ session[q] \in Nat
  BY <1>1, StayType, ConstantsAssumption DEF LogIn, TypeOK
<1>6. session'[p] = next.session
  BY StayType, ConstantsAssumption DEF LogIn, TypeOK
<1>7. /\ \A i \in DOMAIN unread : i \in DOMAIN unread' /\ unread'[i] = unread[i]
      /\ \A i \in DOMAIN unread' \ DOMAIN unread :
           /\ unread'[i] = [kind |-> "login", stay |-> next]
           /\ i = Len(unread) + 1 /\ \A j \in DOMAIN unread : j < i
      /\ ~Following => unread' = unread
      /\ \A q \in Player : Coming(q) \in unseen => Coming(q) \in unseen'
  BY <1>1, <1>2, LogLineKeeps DEF Kind
<1>8. PlaceInv'
  BY <1>2, <1>7 DEF PlaceInv, LogIn, Following
<1>9. AgeInv'
  <2> SUFFICES ASSUME NEW i \in DOMAIN unread'
               PROVE  unread'[i].stay.session <= session'[unread'[i].stay.player]
    BY DEF AgeInv
  <2>1. CASE i \in DOMAIN unread
    BY <1>5, <1>7, <2>1, LinesType DEF AgeInv
  <2>2. CASE i \notin DOMAIN unread
    BY <1>1, <1>5, <1>6, <1>7, <2>2
  <2> QED  BY <2>1, <2>2
<1>10. LineInv'
  <2> SUFFICES ASSUME NEW i \in DOMAIN unread'
               PROVE  (\/ unread[i].kind = "leave"
                       \/ unread[i].stay = Coming(unread[i].stay.player)
                       \/ Coming(unread[i].stay.player) \in unseen
                       \/ \E j \in DOMAIN unread : i < j /\ Frees(unread[j], unread[i].stay.player))'
    BY DEF LineInv
  <2>1. CASE i \in DOMAIN unread
    BY <1>3, <1>7, <2>1, LinesType DEF LineInv, Frees
  <2>2. CASE i \notin DOMAIN unread
    BY <1>1, <1>3, <1>7, <2>2
  <2> QED  BY <2>1, <2>2
<1>11. OrderInv'
  BY <1>1, <1>3, <1>7, LinesType DEF OrderInv, Frees
<1>12. SeedsInv'
  BY <1>2, <1>3, <1>5, <1>7, StayType DEF SeedsInv, TypeOK
<1>13. TrackedInv'
  BY <1>1, <1>2, <1>3, <1>4, <1>7 DEF TrackedInv, Dealt, Frees, LogIn, TypeOK
<1>14. AnnouncedInv'
  BY <1>1, <1>2, <1>3, <1>4, <1>7 DEF AnnouncedInv, Dealt, LogIn, TypeOK
<1>15. KickInv'
  BY <1>1, <1>2, <1>3, <1>4, <1>7 DEF KickInv, Excused, Coming, LogIn, TypeOK
<1> QED  BY <1>8, <1>9, <1>10, <1>11, <1>12, <1>13, <1>14, <1>15
LEMMA AnnounceInv ==
  ASSUME IInv, NEW p \in Player, Announce(p), TypeOK'
  PROVE  IInv'
<1> USE DEF IInv
<1> DEFINE stay == StayOf(p)
<1>1. /\ stay \in Stay /\ stay.player = p /\ stay.session = session[p]
      /\ p \in online /\ stay = Coming(p)
  BY StayType DEF Announce, Coming
<1>2. /\ LogLine("join", stay) /\ announced' = announced \cup {p}
      /\ UNCHANGED <<online, session, pc, seeds, onlinePlayers, current, back, checked, failed>>
  BY DEF Announce, monitor, verdicts
<1>3. \A q \in Player : Coming(q)' = Coming(q) /\ StayOf(q)' = StayOf(q)
  BY <1>2 DEF Coming, StayOf
<1>4. /\ \A i \in DOMAIN unread : i \in DOMAIN unread' /\ unread'[i] = unread[i]
      /\ \A i \in DOMAIN unread' \ DOMAIN unread :
           /\ unread'[i] = [kind |-> "join", stay |-> stay]
           /\ i = Len(unread) + 1 /\ \A j \in DOMAIN unread : j < i
      /\ Following => Len(unread) + 1 \in DOMAIN unread' \ DOMAIN unread
      /\ ~Following => unread' = unread
      /\ \A q \in Player : Coming(q) \in unseen => Coming(q) \in unseen'
      /\ InGap => \A hidden \in Hides("join", stay) :
                    hidden.session >= session[hidden.player] => hidden \in unseen'
  BY <1>1, <1>2, LogLineKeeps DEF Kind
<1>5. InGap => stay \in unseen'
  BY <1>1, <1>4, StayType DEF Hides
<1>6. PlaceInv'
  BY <1>2, <1>4 DEF PlaceInv, Following
<1>7. AgeInv'
  BY <1>1, <1>2, <1>4, LinesType, StayType DEF AgeInv
<1>8. LineInv'
  <2> SUFFICES ASSUME NEW i \in DOMAIN unread'
               PROVE  (\/ unread[i].kind = "leave"
                       \/ unread[i].stay = Coming(unread[i].stay.player)
                       \/ Coming(unread[i].stay.player) \in unseen
                       \/ \E j \in DOMAIN unread : i < j /\ Frees(unread[j], unread[i].stay.player))'
    BY DEF LineInv
  <2>1. CASE i \in DOMAIN unread
    BY <1>3, <1>4, <2>1, LinesType DEF LineInv, Frees
  <2>2. CASE i \notin DOMAIN unread
    BY <1>1, <1>3, <1>4, <2>2
  <2> QED  BY <2>1, <2>2
<1>9. OrderInv'
  BY <1>1, <1>3, <1>4, LinesType DEF OrderInv, Frees
<1>10. SeedsInv'
  BY <1>2, <1>3, <1>4, StayType DEF SeedsInv, TypeOK
<1>11. TrackedInv'
  BY <1>2, <1>3, <1>4 DEF TrackedInv, Dealt, Frees, TypeOK
<1>12. AnnouncedInv'
  <2> SUFFICES ASSUME pc # "off", NEW q \in announced'
               PROVE  (\/ Coming(q) \in unseen
                       \/ Dealt(q)
                       \/ StayOf(q) \in seeds
                       \/ \E i \in DOMAIN unread : unread[i].kind = "join" /\ unread[i].stay = StayOf(q))'
    BY <1>2 DEF AnnouncedInv
  <2>1. CASE q \in announced
    BY <1>2, <1>3, <1>4, <2>1 DEF AnnouncedInv, Dealt, TypeOK
  <2>2. CASE q = p /\ Following
    BY <1>3, <1>4, <2>2
  <2>3. CASE q = p /\ ~Following
    BY <1>1, <1>3, <1>5, <2>3 DEF InGap
  <2> QED  BY <1>2, <2>1, <2>2, <2>3
<1>13. KickInv'
  BY <1>2, <1>3, <1>4 DEF KickInv, Excused, Coming, TypeOK
<1> QED  BY <1>6, <1>7, <1>8, <1>9, <1>10, <1>11, <1>12, <1>13

\* A player goes offline, of their own accord or because the monitor kicked them; in
\* the second case the monitor is done with the player.
LEMMA OfflineInv ==
  ASSUME IInv, NEW p \in online, Offline(p), LogLine("leave", StayOf(p)), TypeOK',
         UNCHANGED <<seeds, onlinePlayers, back, checked, failed>>,
         \/ UNCHANGED <<pc, current>>
         \/ /\ pc = "kick" /\ pc' = back /\ current' = {}
            /\ \A stay \in current : stay.player = p
  PROVE  IInv'
<1> USE DEF IInv
<1> DEFINE stay == StayOf(p)
<1>1. /\ p \in Player /\ stay \in Stay /\ stay.player = p /\ stay.session = session[p]
      /\ stay = Coming(p) /\ session[p] \in Nat
  BY StayType DEF Coming, TypeOK
<1>2. /\ session' = session /\ online' = online \ {p} /\ announced' = announced \ {p}
  BY DEF Offline
<1>3. \A q \in Player : StayOf(q)' = StayOf(q)
  BY <1>2 DEF StayOf
<1>4. \A q \in Player \ {p} : Coming(q)' = Coming(q)
  BY <1>2 DEF Coming, StayOf
<1>5. /\ Coming(p)' = After(stay) /\ After(stay).player = p
      /\ After(stay).session = session[p] + 1
  BY <1>1, <1>2, <1>3, StayType DEF Coming
<1>6. /\ \A i \in DOMAIN unread : i \in DOMAIN unread' /\ unread'[i] = unread[i]
      /\ \A i \in DOMAIN unread' \ DOMAIN unread :
           /\ unread'[i] = [kind |-> "leave", stay |-> stay]
           /\ i = Len(unread) + 1 /\ \A j \in DOMAIN unread : j < i
      /\ Following => Len(unread) + 1 \in DOMAIN unread' \ DOMAIN unread
      /\ ~Following => unread' = unread
      /\ \A q \in Player : Coming(q) \in unseen => Coming(q) \in unseen'
      /\ InGap => \A hidden \in Hides("leave", stay) :
                    hidden.session >= session[hidden.player] => hidden \in unseen'
  BY <1>1, LogLineKeeps DEF Kind
<1>7. InGap => Coming(p)' \in unseen'
  BY <1>1, <1>5, <1>6 DEF Hides
<1>8. Following => \E j \in DOMAIN unread' : /\ Frees(unread[j], p)'
                                             /\ \A i \in DOMAIN unread : i < j
  <2>1. Following => \E j \in DOMAIN unread' : /\ unread'[j] = [kind |-> "leave", stay |-> stay]
                                               /\ \A i \in DOMAIN unread : i < j
    BY <1>6
  <2> QED  BY <1>5, <2>1 DEF Frees
<1>9. \A q \in Player \ {p}, entry \in Line : Frees(entry, q) => Frees(entry, q)'
  BY <1>4 DEF Frees
<1>10. \A q \in online' : Dealt(q) => Dealt(q)'
  BY <1>1, <1>2, <1>3, StayType DEF Dealt, TypeOK
<1>11. PlaceInv'
  BY <1>6 DEF PlaceInv, Following, TypeOK
<1>12. AgeInv'
  BY <1>1, <1>2, <1>6, LinesType DEF AgeInv
<1>13. LineInv'
  <2> SUFFICES ASSUME NEW i \in DOMAIN unread'
               PROVE  (\/ unread[i].kind = "leave"
                       \/ unread[i].stay = Coming(unread[i].stay.player)
                       \/ Coming(unread[i].stay.player) \in unseen
                       \/ \E j \in DOMAIN unread : i < j /\ Frees(unread[j], unread[i].stay.player))'
    BY DEF LineInv
  <2>1. CASE i \in DOMAIN unread /\ unread[i].stay.player = p
    <3>1. Following
      BY <2>1, EmptySeq DEF PlaceInv, Following, TypeOK
    <3> QED  BY <1>6, <1>8, <2>1, <3>1
  <2>2. CASE i \in DOMAIN unread /\ unread[i].stay.player # p
    BY <1>4, <1>6, <2>2, LinesType DEF LineInv, Frees
  <2>3. CASE i \notin DOMAIN unread
    BY <1>6, <2>3
  <2> QED  BY <2>1, <2>2, <2>3
<1>14. OrderInv'
  <2> SUFFICES ASSUME NEW i \in DOMAIN unread', NEW j \in DOMAIN unread',
                      Frees(unread[i], unread[j].stay.player)',
                      unread'[j].kind # "leave",
                      unread'[j].stay = Coming(unread[j].stay.player)'
               PROVE  i < j
    BY DEF OrderInv
  <2>1. j \in DOMAIN unread /\ unread'[j] = unread[j]
    BY <1>6
  <2>2. unread[j].stay.player \in Player \ {p}
    BY <1>1, <1>5, <2>1, LinesType DEF AgeInv
  <2>3. i \in DOMAIN unread
    BY <1>1, <1>4, <1>5, <1>6, <2>1, <2>2, StayType DEF Frees
  <2> QED  BY <1>4, <1>6, <2>1, <2>2, <2>3 DEF OrderInv, Frees
<1>15. SeedsInv'
  <2> SUFFICES ASSUME NEW seed \in seeds
               PROVE  (/\ seed.session <= session[seed.player]
                       /\ seed = Coming(seed.player) \/ Coming(seed.player) \in unseen)'
    BY DEF SeedsInv
  <2>1. InGap /\ seed \in Stay /\ seed.player \in Player
    BY StayType DEF PlaceInv, InGap, Following, TypeOK
  <2> QED  BY <1>2, <1>4, <1>6, <1>7, <2>1 DEF SeedsInv
<1>16. TrackedInv'
  <2> SUFFICES ASSUME NEW q \in onlinePlayers
               PROVE  (\/ Coming(q) \in unseen
                       \/ Dealt(q)
                       \/ \E i \in DOMAIN unread : Frees(unread[i], q))'
    BY DEF TrackedInv
  <2>1. CASE q = p
    BY <1>7, <1>8, <2>1 DEF PlaceInv, InGap
  <2>2. CASE q # p
    <3>1. q \in Player /\ Coming(q)' = Coming(q) /\ (Dealt(q) => q \in online')
      BY <1>2, <1>4, <2>2 DEF TypeOK, Dealt
    <3> QED  BY <1>6, <1>10, <3>1 DEF TrackedInv, Frees
  <2> QED  BY <2>1, <2>2
<1>17. AnnouncedInv'
  <2> SUFFICES ASSUME pc' # "off", NEW q \in announced'
               PROVE  (\/ Coming(q) \in unseen
                       \/ Dealt(q)
                       \/ StayOf(q) \in seeds
                       \/ \E i \in DOMAIN unread : unread[i].kind = "join" /\ unread[i].stay = StayOf(q))'
    BY DEF AnnouncedInv
  <2>1. q \in announced /\ q \in Player \ {p} /\ q \in online' /\ pc # "off"
    BY <1>2 DEF TypeOK
  <2> QED  BY <1>3, <1>4, <1>6, <1>10, <2>1 DEF AnnouncedInv
<1>18. KickInv'
  <2> SUFFICES ASSUME NEW q \in checked' \cap Condemned \cap online'
               PROVE  (Excused(q) \/ (pc = "kick" /\ StayOf(q) \in current))'
    BY DEF KickInv
  <2>1. q \in Player \ {p} /\ q \in online /\ StayOf(q)' = StayOf(q) /\ StayOf(q) = Coming(q)
        /\ StayOf(q).player = q
    BY <1>2, <1>3, StayType DEF TypeOK, Coming
  <2>2. StayOf(q) \in current => UNCHANGED <<pc, current>>
    BY <2>1
  <2> QED  BY <1>6, <2>1, <2>2 DEF KickInv, Excused
<1> QED  BY <1>11, <1>12, <1>13, <1>14, <1>15, <1>16, <1>17, <1>18

LEMMA ServerDiesInv ==
  ASSUME IInv, ServerDies, TypeOK'
  PROVE  IInv'
<1> USE DEF IInv
<1>1. /\ online' = {} /\ announced' = {}
      /\ UNCHANGED <<session, unread, pc, seeds, onlinePlayers, current, back, checked, failed>>
      /\ unseen' = unseen \cup {After(StayOf(p)) : p \in online}
  BY DEF ServerDies, monitor, verdicts
<1>2. \A p \in Player : Coming(p)' = After(StayOf(p))
  BY <1>1 DEF Coming, StayOf
<1>3. \A p \in online : Coming(p)' \in unseen'
  BY <1>1, <1>2 DEF TypeOK
<1>4. \A p \in Player \ online : Coming(p)' = Coming(p)
  BY <1>2 DEF Coming
<1>5. PlaceInv'
  BY <1>1 DEF PlaceInv
<1>6. AgeInv'
  BY <1>1 DEF AgeInv
<1>7. LineInv'
  BY <1>1, <1>3, <1>4, LinesType DEF LineInv, Frees
<1>8. OrderInv'
  <2> SUFFICES ASSUME NEW i \in DOMAIN unread, NEW j \in DOMAIN unread,
                      Frees(unread[i], unread[j].stay.player)',
                      unread[j].kind # "leave",
                      unread[j].stay = Coming(unread[j].stay.player)'
               PROVE  i < j
    BY <1>1 DEF OrderInv
  <2> DEFINE p == unread[j].stay.player
  <2>1. p \in Player /\ unread[j].stay.session \in Nat /\ unread[j].stay.session <= session[p]
    BY LinesType DEF AgeInv
  <2>2. After(StayOf(p)).session = session[p] + 1 /\ session[p] \in Nat
    BY <2>1, StayType
  <2>3. unread[j].stay = After(StayOf(p))
    BY <1>1, <1>2, <2>1
  <2> QED  BY <2>1, <2>2, <2>3
<1>9. SeedsInv'
  BY <1>1, <1>3, <1>4, StayType DEF SeedsInv, TypeOK
<1>10. TrackedInv'
  <2> SUFFICES ASSUME NEW p \in onlinePlayers \ online
               PROVE  (\/ Coming(p) \in unseen
                       \/ Dealt(p)
                       \/ \E i \in DOMAIN unread : Frees(unread[i], p))'
    BY <1>1, <1>3 DEF TrackedInv
  <2>1. p \in Player /\ Coming(p)' = Coming(p) /\ ~Dealt(p)
    BY <1>4 DEF TypeOK, Dealt
  <2> QED  BY <1>1, <2>1 DEF TrackedInv, Frees
<1>11. AnnouncedInv' /\ KickInv'
  BY <1>1 DEF AnnouncedInv, KickInv
<1> QED  BY <1>5, <1>6, <1>7, <1>8, <1>9, <1>10, <1>11

LEMMA NewLogFileInv ==
  ASSUME IInv, NewLogFile, TypeOK'
  PROVE  IInv'
<1> USE DEF IInv
<1>1. /\ DOMAIN unread' = {} /\ unread' = <<>>
      /\ UNCHANGED <<serverVars, pc, seeds, onlinePlayers, current, back, checked, failed>>
      /\ pc = "loop" /\ back = "loop" /\ seeds = {}
  BY EmptySeq DEF NewLogFile, monitor, verdicts, PlaceInv
<1>2. unseen \subseteq unseen'
      /\ \A i \in DOMAIN unread : Hides(unread[i].kind, unread[i].stay) \subseteq unseen'
  BY DEF NewLogFile
<1>3. /\ \A p \in Player : Coming(p)' = Coming(p) /\ StayOf(p)' = StayOf(p)
      /\ UNCHANGED <<online, session, announced>>
  BY <1>1, SameStays
<1>4. PlaceInv'
  BY <1>1 DEF PlaceInv
<1>5. AgeInv' /\ LineInv' /\ OrderInv' /\ SeedsInv'
  BY <1>1 DEF AgeInv, LineInv, OrderInv, SeedsInv
<1>6. TrackedInv'
  BY <1>1, <1>2, <1>3 DEF TrackedInv, Dealt, Frees, Hides, TypeOK
<1>7. AnnouncedInv'
  <2> SUFFICES ASSUME NEW p \in announced
               PROVE  (Coming(p) \in unseen \/ Dealt(p))'
    BY <1>3 DEF AnnouncedInv
  <2>1. p \in Player /\ p \in online /\ Coming(p) = StayOf(p)
    BY DEF TypeOK, Coming
  <2> QED  BY <1>1, <1>2, <1>3, <2>1 DEF AnnouncedInv, Dealt, Hides
<1>8. KickInv'
  BY <1>1, <1>2, <1>3 DEF KickInv, Excused, TypeOK
<1> QED  BY <1>4, <1>5, <1>6, <1>7, <1>8
\* The monitor asks who is on the server.
LEMMA ListPlayersInv ==
  ASSUME IInv, NEW listed \in SUBSET online, ListPlayers(listed), TypeOK'
  PROVE  IInv'
<1> USE DEF IInv
<1>1. /\ pc' = "seed" /\ back' = "seed" /\ onlinePlayers' = {} /\ current' = {} /\ checked' = {}
      /\ unread' = <<>> /\ DOMAIN unread' = {}
      /\ seeds' = {StayOf(p) : p \in listed}
      /\ failed' = failed \cup (online \ listed)
      /\ UNCHANGED serverVars
  BY EmptySeq DEF ListPlayers, PlaceInv
<1>2. /\ \A p \in Player : Coming(p)' = Coming(p) /\ StayOf(p)' = StayOf(p)
      /\ UNCHANGED <<online, session, announced>>
  BY <1>1, SameStays
<1>3. PlaceInv' /\ AgeInv' /\ LineInv' /\ OrderInv' /\ TrackedInv' /\ KickInv'
  BY <1>1 DEF PlaceInv, AgeInv, LineInv, OrderInv, TrackedInv, KickInv
<1>4. SeedsInv'
  <2> SUFFICES ASSUME NEW p \in listed
               PROVE  StayOf(p).session <= session[p] /\ StayOf(p) = Coming(p) /\ StayOf(p).player = p
    BY <1>1, <1>2 DEF SeedsInv, TypeOK
  <2> QED  BY StayType DEF TypeOK, Coming
<1>5. AnnouncedInv'
  BY <1>1, <1>2 DEF AnnouncedInv, Dealt, TypeOK
<1> QED  BY <1>3, <1>4, <1>5

\* The first evaluations, and taking the place in the log.
LEMMA SeedInv ==
  ASSUME IInv, TypeOK',
         (\E stay \in seeds : SeedPlayer(stay) \/ SeedUnresolved(stay)) \/ TakePlace
  PROVE  IInv'
<1> USE DEF IInv
<1>1. /\ pc = "seed" /\ back = "seed" /\ current = {} /\ UNCHANGED <<serverVars, unread, checked, unseen>>
      /\ DOMAIN unread = {} /\ unread = <<>>
  BY EmptySeq DEF SeedPlayer, SeedUnresolved, TakePlace, PlaceInv
<1>2. /\ \A p \in Player : Coming(p)' = Coming(p) /\ StayOf(p)' = StayOf(p)
      /\ UNCHANGED <<online, session, announced>>
  BY <1>1, SameStays
<1>3. AgeInv' /\ LineInv' /\ OrderInv'
  BY <1>1 DEF AgeInv, LineInv, OrderInv
<1>4. ASSUME NEW stay \in seeds, SeedPlayer(stay)
      PROVE  IInv'
  <2>1. /\ pc' = "decide" /\ current' = {stay} /\ UNCHANGED <<back, failed>>
        /\ seeds' = seeds \ {stay} /\ onlinePlayers' = onlinePlayers \cup {stay.player}
    BY <1>4 DEF SeedPlayer
  <2>2. PlaceInv'
    BY <1>1, <2>1 DEF PlaceInv, TypeOK
  <2>3. SeedsInv'
    BY <1>1, <1>2, <2>1, StayType DEF SeedsInv, TypeOK
  <2>4. TrackedInv'
    <3> DEFINE p == stay.player
    <3>1. p \in Player /\ stay.session <= session[p] /\ (stay = Coming(p) \/ Coming(p) \in unseen)
      BY StayType DEF SeedsInv, TypeOK
    <3>2. p \notin online => stay # Coming(p)
      <4>1. After(StayOf(p)).session = session[p] + 1 /\ session[p] \in Nat
        BY <3>1, StayType
      <4> QED  BY <3>1, <4>1 DEF Coming
    <3>3. Coming(p)' \in unseen' \/ Dealt(p)'
      BY <1>1, <1>2, <2>1, <3>1, <3>2 DEF Dealt, Coming
    <3>4. ASSUME NEW q \in onlinePlayers
          PROVE  Coming(q)' \in unseen' \/ Dealt(q)'
      BY <1>1, <1>2, <2>1, <3>4 DEF TrackedInv, Dealt, TypeOK
    <3> QED  BY <2>1, <3>3, <3>4 DEF TrackedInv
  <2>5. AnnouncedInv'
    BY <1>1, <1>2, <2>1 DEF AnnouncedInv, Dealt, TypeOK
  <2>6. KickInv'
    BY <1>1, <1>2, <2>1 DEF KickInv, Excused, TypeOK
  <2> QED  BY <1>3, <2>2, <2>3, <2>4, <2>5, <2>6
<1>5. ASSUME NEW stay \in seeds, SeedUnresolved(stay)
      PROVE  IInv'
  <2>1. /\ UNCHANGED <<pc, current, back, onlinePlayers>> /\ seeds' = seeds \ {stay}
        /\ failed' = failed \cup {p \in {stay.player} : StayOf(p) = stay}
    BY <1>5 DEF SeedUnresolved, Fails
  <2>2. PlaceInv'
    BY <1>1, <2>1 DEF PlaceInv
  <2>3. SeedsInv'
    BY <1>1, <1>2, <2>1, StayType DEF SeedsInv, TypeOK
  <2>4. TrackedInv'
    BY <1>1, <1>2, <2>1 DEF TrackedInv, Dealt, TypeOK
  <2>5. \A p \in Player : StayOf(p) = stay => p \in failed'
    BY <2>1, StayType
  <2>6. AnnouncedInv'
    BY <1>1, <1>2, <2>1, <2>5 DEF AnnouncedInv, Dealt, TypeOK
  <2>7. KickInv'
    BY <1>1, <1>2, <2>1 DEF KickInv, Excused, TypeOK
  <2> QED  BY <1>3, <2>2, <2>3, <2>4, <2>6, <2>7
<1>6. CASE TakePlace
  <2>1. /\ pc' = "loop" /\ back' = "loop" /\ seeds = {} /\ UNCHANGED <<seeds, onlinePlayers, current, failed>>
    BY <1>6 DEF TakePlace
  <2>2. PlaceInv' /\ SeedsInv'
    BY <1>1, <2>1 DEF PlaceInv, SeedsInv
  <2>3. TrackedInv'
    BY <1>1, <1>2, <2>1 DEF TrackedInv, Dealt, TypeOK
  <2>4. AnnouncedInv'
    BY <1>1, <1>2, <2>1 DEF AnnouncedInv, Dealt, TypeOK
  <2>5. KickInv'
    BY <1>1, <1>2, <2>1 DEF KickInv, Excused, TypeOK
  <2> QED  BY <1>3, <2>2, <2>3, <2>4, <2>5
<1> QED  BY <1>4, <1>5, <1>6

\* A line taken from the log moves the rest and drops nothing of it.
LEMMA ReadInv ==
  ASSUME IInv, NEW kinds, NextLine(kinds), UNCHANGED <<serverVars, unseen>>
  PROVE  AgeInv' /\ LineInv' /\ OrderInv'
<1> USE DEF IInv
<1>1. /\ \A i \in DOMAIN unread' : i \in Nat /\ i + 1 \in DOMAIN unread /\ unread'[i] = unread[i + 1]
      /\ \A i \in DOMAIN unread : i # 1 => i - 1 \in DOMAIN unread' /\ unread'[i - 1] = unread[i]
  BY TakenLine
<1>2. /\ \A p \in Player : Coming(p)' = Coming(p)
      /\ UNCHANGED <<online, session, announced>>
  BY SameStays
<1>3. AgeInv'
  BY <1>1, <1>2 DEF AgeInv
<1>4. LineInv'
  <2> SUFFICES ASSUME NEW i \in DOMAIN unread'
               PROVE  (\/ unread[i].kind = "leave"
                       \/ unread[i].stay = Coming(unread[i].stay.player)
                       \/ Coming(unread[i].stay.player) \in unseen
                       \/ \E j \in DOMAIN unread : i < j /\ Frees(unread[j], unread[i].stay.player))'
    BY DEF LineInv
  <2>1. i \in Nat /\ i + 1 \in DOMAIN unread /\ unread'[i] = unread[i + 1]
        /\ unread'[i].stay.player \in Player
    BY <1>1, LinesType
  <2>2. ASSUME NEW j \in DOMAIN unread, i + 1 < j, Frees(unread[j], unread'[i].stay.player)
        PROVE  \E k \in DOMAIN unread' : i < k /\ Frees(unread[k], unread[i].stay.player)'
    <3>1. j \in Nat /\ j # 1 /\ i < j - 1
      BY <2>1, <2>2, LinesType
    <3>2. j - 1 \in DOMAIN unread' /\ unread'[j - 1] = unread[j]
      BY <1>1, <3>1
    <3> QED  BY <1>2, <2>1, <2>2, <3>1, <3>2 DEF Frees
  <2> QED  BY <1>2, <2>1, <2>2 DEF LineInv
<1>5. OrderInv'
  <2> SUFFICES ASSUME NEW i \in DOMAIN unread', NEW j \in DOMAIN unread',
                      Frees(unread[i], unread[j].stay.player)',
                      unread'[j].kind # "leave",
                      unread'[j].stay = Coming(unread[j].stay.player)'
               PROVE  i < j
    BY DEF OrderInv
  <2>1. /\ i \in Nat /\ i + 1 \in DOMAIN unread /\ unread'[i] = unread[i + 1]
        /\ j \in Nat /\ j + 1 \in DOMAIN unread /\ unread'[j] = unread[j + 1]
        /\ unread[j + 1].stay.player \in Player
    BY <1>1, LinesType
  <2>2. i + 1 < j + 1
    BY <1>2, <2>1 DEF OrderInv, Frees
  <2> QED  BY <2>1, <2>2
<1> QED  BY <1>3, <1>4, <1>5

LEMMA LoopInv ==
  ASSUME IInv, TypeOK', ReadLeave \/ AlreadyOnline \/ ReadJoin \/ JoinUnresolved
  PROVE  IInv'
<1> USE DEF IInv
<1> DEFINE p == line.stay.player
<1>1. /\ NextLine({"leave"}) \/ NextLine({"login", "join"})
      /\ UNCHANGED <<serverVars, seeds, back, checked, unseen>>
  BY DEF ReadLeave, AlreadyOnline, ReadJoin, JoinUnresolved
<1>2. AgeInv' /\ LineInv' /\ OrderInv'
  BY <1>1, ReadInv
<1>3. /\ line = unread[1] /\ 1 \in DOMAIN unread
      /\ line.stay \in Stay /\ p \in Player
      /\ \A i \in DOMAIN unread : i # 1 => i - 1 \in DOMAIN unread' /\ unread'[i - 1] = unread[i]
      /\ pc = "loop" /\ back = "loop" /\ current = {} /\ seeds = {}
  BY <1>1, TakenLine
<1>4. /\ \A q \in Player : Coming(q)' = Coming(q) /\ StayOf(q)' = StayOf(q)
      /\ UNCHANGED <<online, session, announced>>
  BY <1>1, SameStays
<1>5. ASSUME NEW q \in Player, NEW i \in DOMAIN unread, i # 1, Frees(unread[i], q)
      PROVE  \E k \in DOMAIN unread' : Frees(unread[k], q)'
  BY <1>3, <1>4, <1>5 DEF Frees
<1>6. ASSUME NEW q \in Player, NEW i \in DOMAIN unread, i # 1,
             unread[i].kind = "join", unread[i].stay = StayOf(q)
      PROVE  \E k \in DOMAIN unread' : (unread[k].kind = "join" /\ unread[k].stay = StayOf(q))'
  BY <1>3, <1>4, <1>6
<1>7. \A q \in Player : Frees(unread[1], q) => line.kind = "leave" /\ q = p
  BY <1>3, StayType DEF Frees
<1>8. ASSUME NEW q \in announced
      PROVE  /\ q \in Player /\ q \in online /\ Coming(q) = StayOf(q) /\ StayOf(q).player = q
             /\ \/ Coming(q) \in unseen
                \/ Dealt(q)
                \/ line.kind = "join" /\ line.stay = StayOf(q)
                \/ \E k \in DOMAIN unread' : (unread[k].kind = "join" /\ unread[k].stay = StayOf(q))'
  <2>1. q \in Player /\ q \in online /\ Coming(q) = StayOf(q) /\ StayOf(q).player = q
    BY StayType DEF TypeOK, Coming
  <2> QED  BY <1>3, <1>6, <2>1 DEF AnnouncedInv
<1>9. SeedsInv'
  BY <1>1, <1>3 DEF SeedsInv
<1>10. CASE ReadLeave
  <2>1. /\ line.kind = "leave" /\ UNCHANGED <<pc, current, failed>>
        /\ onlinePlayers' = onlinePlayers \ {p}
    BY <1>10 DEF ReadLeave, NextLine
  <2>2. PlaceInv'
    BY <1>1, <1>3, <2>1 DEF PlaceInv
  <2>3. TrackedInv'
    <3> SUFFICES ASSUME NEW q \in onlinePlayers \ {p}
                 PROVE  (\/ Coming(q) \in unseen
                         \/ Dealt(q)
                         \/ \E i \in DOMAIN unread : Frees(unread[i], q))'
      BY <2>1 DEF TrackedInv
    <3>1. q \in Player
      BY DEF TypeOK
    <3>2. Dealt(q) => Dealt(q)'
      BY <1>1, <1>4, <2>1, <3>1 DEF Dealt
    <3> QED  BY <1>1, <1>4, <1>5, <1>7, <3>1, <3>2 DEF TrackedInv
  <2>4. AnnouncedInv'
    BY <1>1, <1>4, <1>8, <2>1 DEF AnnouncedInv, Dealt
  <2>5. KickInv'
    BY <1>1, <1>3, <1>4, <2>1 DEF KickInv, Excused, TypeOK
  <2> QED  BY <1>2, <1>9, <2>2, <2>3, <2>4, <2>5
<1>11. CASE AlreadyOnline
  <2>1. /\ line.kind # "leave" /\ p \in onlinePlayers /\ UNCHANGED <<pc, current, failed, onlinePlayers>>
    BY <1>11 DEF AlreadyOnline, NextLine
  <2>2. PlaceInv'
    BY <1>1, <1>3, <2>1 DEF PlaceInv
  <2>3. \A q \in Player : Dealt(q) => Dealt(q)'
    BY <1>1, <1>4, <2>1 DEF Dealt
  <2>4. TrackedInv'
    BY <1>1, <1>4, <1>5, <1>7, <2>1, <2>3 DEF TrackedInv, TypeOK
  <2>5. AnnouncedInv'
    <3> SUFFICES ASSUME NEW q \in announced
                 PROVE  (\/ Coming(q) \in unseen
                         \/ Dealt(q)
                         \/ \E i \in DOMAIN unread : unread[i].kind = "join" /\ unread[i].stay = StayOf(q))'
      BY <1>4 DEF AnnouncedInv
    <3>1. line.stay = StayOf(q) => Coming(q) \in unseen \/ Dealt(q)
      <4> SUFFICES ASSUME line.stay = StayOf(q), NEW i \in DOMAIN unread, Frees(unread[i], q)
                   PROVE  FALSE
        BY <1>8, <2>1 DEF TrackedInv
      <4>1. i < 1
        BY <1>3, <1>8, <2>1 DEF OrderInv
      <4> QED  BY <4>1, LinesType, LenProperties DEF TypeOK
    <3> QED  BY <1>1, <1>4, <1>8, <2>3, <3>1
  <2>6. KickInv'
    BY <1>1, <1>3, <1>4, <2>1 DEF KickInv, Excused, TypeOK
  <2> QED  BY <1>2, <1>9, <2>2, <2>4, <2>5, <2>6
<1>12. CASE ReadJoin
  <2>1. /\ line.kind # "leave" /\ pc' = "decide" /\ current' = {line.stay} /\ UNCHANGED failed
        /\ onlinePlayers' = onlinePlayers \cup {p}
    BY <1>12 DEF ReadJoin, NextLine
  <2>2. PlaceInv'
    BY <1>1, <1>3, <2>1 DEF PlaceInv
  <2>3. \A q \in Player : Dealt(q) => Dealt(q)'
    BY <1>1, <1>3, <1>4, <2>1 DEF Dealt
  <2>4. TrackedInv'
    <3>1. ASSUME NEW q \in onlinePlayers
          PROVE  (\/ Coming(q) \in unseen
                  \/ Dealt(q)
                  \/ \E i \in DOMAIN unread : Frees(unread[i], q))'
      BY <1>1, <1>4, <1>5, <1>7, <2>1, <2>3, <3>1 DEF TrackedInv, TypeOK
    <3>2. ASSUME NEW q \in Player, q = p
          PROVE  (\/ Coming(q) \in unseen
                  \/ Dealt(q)
                  \/ \E i \in DOMAIN unread : Frees(unread[i], q))'
      <4>1. CASE line.stay = Coming(q)
        <5>1. After(StayOf(q)).session = session[q] + 1 /\ session[q] \in Nat
              /\ line.stay.session <= session[q]
          BY <1>3, <3>2, StayType DEF AgeInv
        <5>2. q \in online /\ line.stay = StayOf(q)
          BY <4>1, <5>1 DEF Coming
        <5> QED  BY <1>4, <2>1, <5>2 DEF Dealt
      <4>2. CASE Coming(q) \in unseen
        BY <1>1, <1>4, <4>2
      <4>3. CASE \E j \in DOMAIN unread : 1 < j /\ Frees(unread[j], q)
        BY <1>5, <4>3
      <4> QED  BY <1>3, <2>1, <3>2, <4>1, <4>2, <4>3 DEF LineInv
    <3>3. onlinePlayers' = onlinePlayers \cup {p} /\ p \in Player
      BY <1>3, <2>1
    <3> QED  BY <3>1, <3>2, <3>3 DEF TrackedInv
  <2>5. AnnouncedInv'
    <3> SUFFICES ASSUME NEW q \in announced
                 PROVE  (\/ Coming(q) \in unseen
                         \/ Dealt(q)
                         \/ \E i \in DOMAIN unread : unread[i].kind = "join" /\ unread[i].stay = StayOf(q))'
      BY <1>4 DEF AnnouncedInv
    <3>1. line.stay = StayOf(q) => Dealt(q)'
      BY <1>4, <1>8, <2>1 DEF Dealt
    <3> QED  BY <1>1, <1>4, <1>8, <2>3, <3>1
  <2>6. KickInv'
    BY <1>1, <1>3, <1>4, <2>1 DEF KickInv, Excused, TypeOK
  <2> QED  BY <1>2, <1>9, <2>2, <2>4, <2>5, <2>6
<1>13. CASE JoinUnresolved
  <2>1. /\ line.kind # "leave" /\ UNCHANGED <<pc, current, onlinePlayers>>
        /\ failed' = failed \cup {q \in {p} : StayOf(q) = line.stay}
    BY <1>13 DEF JoinUnresolved, Fails, NextLine
  <2>2. PlaceInv'
    BY <1>1, <1>3, <2>1 DEF PlaceInv
  <2>3. \A q \in Player : Dealt(q) => Dealt(q)'
    BY <1>1, <1>4, <2>1 DEF Dealt
  <2>4. TrackedInv'
    BY <1>1, <1>4, <1>5, <1>7, <2>1, <2>3 DEF TrackedInv, TypeOK
  <2>5. AnnouncedInv'
    <3> SUFFICES ASSUME NEW q \in announced
                 PROVE  (\/ Coming(q) \in unseen
                         \/ Dealt(q)
                         \/ \E i \in DOMAIN unread : unread[i].kind = "join" /\ unread[i].stay = StayOf(q))'
      BY <1>4 DEF AnnouncedInv
    <3>1. line.stay = StayOf(q) => Dealt(q)'
      BY <1>4, <1>8, <2>1 DEF Dealt
    <3> QED  BY <1>1, <1>4, <1>8, <2>3, <3>1
  <2>6. KickInv'
    BY <1>1, <1>3, <1>4, <2>1 DEF KickInv, Excused, TypeOK
  <2> QED  BY <1>2, <1>9, <2>2, <2>4, <2>5, <2>6
<1> QED  BY <1>10, <1>11, <1>12, <1>13
\* What becomes of the player under evaluation.
LEMMA DecideInv ==
  ASSUME IInv, TypeOK', NEW stay \in current,
         \/ Allow(stay) \/ Condemn(stay) \/ DecideFails(stay)
         \/ Kick(stay) \/ KickNobody(stay) \/ KickFails(stay)
  PROVE  IInv'
<1> USE DEF IInv
<1>1. /\ stay \in Stay /\ stay.player \in Player
      /\ pc \in {"decide", "kick"} /\ current = {stay}
  BY StayType DEF TypeOK, Allow, Condemn, DecideFails, Kick, KickNobody, KickFails, PlaceInv
<1>2. CASE Kick(stay)
  <2>1. Offline(stay.player) /\ LogLine("leave", StayOf(stay.player)) /\ stay.player \in online
        /\ UNCHANGED <<seeds, onlinePlayers, back, checked, failed>>
        /\ pc = "kick" /\ pc' = back /\ current' = {}
    BY <1>2 DEF Kick, Return, verdicts
  <2> QED  BY <1>1, <2>1, OfflineInv
<1>3. CASE Allow(stay) \/ Condemn(stay) \/ DecideFails(stay) \/ KickNobody(stay) \/ KickFails(stay)
  <2>1. UNCHANGED <<serverVars, unread, seeds, onlinePlayers, back, unseen>>
    BY <1>3 DEF Allow, Condemn, DecideFails, KickNobody, KickFails, Return
  <2>2. /\ \A p \in Player : /\ Coming(p)' = Coming(p) /\ StayOf(p)' = StayOf(p)
                             /\ StayOf(p) = stay => p = stay.player
        /\ UNCHANGED <<online, session, announced>>
    BY <2>1, SameStays, StayType
  <2>3. /\ checked \subseteq checked' /\ failed \subseteq failed'
        /\ \/ pc' = back /\ current' = {}
           \/ pc' = "kick" /\ current' = current
    BY <1>3 DEF Allow, Condemn, DecideFails, KickNobody, KickFails, Return, Evaluated, Fails, verdicts
  <2>4. ASSUME NEW p \in Player, Dealt(p)
        PROVE  Dealt(p)'
    <3>1. CASE KickNobody(stay)
      BY <1>1, <2>2, <2>3, <2>4, <3>1 DEF KickNobody, Dealt
    <3>2. CASE Allow(stay) \/ Condemn(stay) \/ DecideFails(stay) \/ KickFails(stay)
      BY <1>1, <2>2, <2>3, <2>4, <3>2
         DEF Allow, Condemn, DecideFails, KickFails, Evaluated, Fails, Dealt
    <3> QED  BY <1>3, <3>1, <3>2
  <2>5. PlaceInv'
    BY <1>1, <2>1, <2>3 DEF PlaceInv, TypeOK
  <2>6. AgeInv' /\ SeedsInv'
    BY <2>1, <2>2, StayType DEF AgeInv, SeedsInv, TypeOK
  <2>7. LineInv' /\ OrderInv'
    BY <2>1, <2>2, LinesType DEF LineInv, OrderInv, Frees
  <2>8. TrackedInv'
    BY <2>1, <2>2, <2>4 DEF TrackedInv, Frees, TypeOK
  <2>9. AnnouncedInv'
    BY <1>1, <2>1, <2>2, <2>4 DEF AnnouncedInv, TypeOK
  <2>10. KickInv'
    <3> SUFFICES ASSUME NEW p \in checked' \cap Condemned \cap online
                 PROVE  (Excused(p) \/ (pc = "kick" /\ StayOf(p) \in current))'
      BY <2>2 DEF KickInv
    <3>1. p \in Player
      BY DEF TypeOK
    <3>2. Excused(p) => Excused(p)'
      BY <2>1, <2>2, <2>3, <3>1 DEF Excused
    <3>3. CASE Allow(stay)
      BY <2>2, <3>1, <3>2, <3>3 DEF Allow, Evaluated, KickInv
    <3>4. CASE Condemn(stay)
      BY <1>1, <2>2, <3>1, <3>2, <3>4 DEF Condemn, Evaluated, KickInv
    <3>5. CASE DecideFails(stay)
      BY <3>2, <3>5 DEF DecideFails, KickInv
    <3>6. CASE KickNobody(stay)
      BY <1>1, <2>2, <3>1, <3>2, <3>6 DEF KickNobody, verdicts, KickInv
    <3>7. CASE KickFails(stay)
      BY <1>1, <2>2, <3>1, <3>2, <3>7 DEF KickFails, Fails, Excused, KickInv
    <3> QED  BY <1>3, <3>3, <3>4, <3>5, <3>6, <3>7
  <2> QED  BY <2>5, <2>6, <2>7, <2>8, <2>9, <2>10
<1> QED  BY <1>2, <1>3

LEMMA StopInv ==
  ASSUME IInv, Stop, TypeOK'
  PROVE  IInv'
<1> USE DEF IInv
<1>1. DOMAIN unread' = {}
  BY EmptySeq DEF Stop
<1> QED  BY <1>1 DEF Stop, PlaceInv, AgeInv, LineInv, OrderInv, SeedsInv, TrackedInv,
                     AnnouncedInv, KickInv

LEMMA StepInv == IInv /\ [Next]_vars => IInv'
<1> SUFFICES ASSUME IInv, [Next]_vars
             PROVE  IInv'
  OBVIOUS
<1>1. TypeOK'
  BY TypeStep DEF IInv
<1>2. CASE ServerStep
  <2>1. ASSUME NEW p \in Player, Leave(p)
        PROVE  IInv'
    BY <1>1, <2>1, OfflineInv DEF Leave, monitor, verdicts
  <2> QED  BY <1>1, <1>2, <2>1, LogInInv, AnnounceInv, ServerDiesInv, NewLogFileInv DEF ServerStep
<1>3. CASE MonitorStep
  BY <1>1, <1>3, ListPlayersInv, SeedInv, LoopInv, DecideInv DEF MonitorStep
<1>4. CASE Stop
  BY <1>1, <1>4, StopInv
<1>5. CASE UNCHANGED vars
  <2>1. \A p \in Player : Coming(p)' = Coming(p) /\ StayOf(p)' = StayOf(p)
    BY <1>5 DEF vars, Coming, StayOf
  <2>2. PlaceInv' /\ AgeInv'
    BY <1>5 DEF vars, IInv, PlaceInv, AgeInv
  <2>3. LineInv' /\ OrderInv'
    BY <1>5, <2>1, LinesType DEF vars, IInv, LineInv, OrderInv, Frees
  <2>4. SeedsInv' /\ TrackedInv'
    BY <1>5, <2>1, StayType DEF vars, IInv, SeedsInv, TrackedInv, Dealt, Frees, TypeOK
  <2>5. AnnouncedInv' /\ KickInv'
    BY <1>5, <2>1 DEF vars, IInv, AnnouncedInv, KickInv, Dealt, Excused, TypeOK
  <2> QED  BY <1>1, <2>2, <2>3, <2>4, <2>5 DEF IInv
<1> QED  BY <1>2, <1>3, <1>4, <1>5 DEF Next

LEMMA Invariance == Spec => []IInv
BY InitInv, StepInv, PTL DEF Spec

-----------------------------------------------------------------------------
(* Theorems.                                                               *)

\* The variables keep their types: in particular the player under evaluation is always
\* entered in the monitor's map of online players.
THEOREM TypeCorrect == Spec => []TypeOK
<1>1. IInv => TypeOK
  BY DEF IInv
<1> QED  BY <1>1, Invariance, PTL

\* For any number of players and stays, in every order of joins, leaves, kicks, lost
\* log files and restarts: a monitor that has read the log to its end has evaluated
\* everybody whose join was announced, but for the gaps and failed steps that the
\* property names.  The map of online names never hides a join.
THEOREM JoinersAreChecked == Spec => []EveryoneIsChecked
<1>1. IInv => EveryoneIsChecked
  <2> SUFFICES ASSUME IInv, CaughtUp, NEW p \in announced
               PROVE  p \in checked \/ Excused(p)
    BY DEF EveryoneIsChecked
  <2>1. seeds = {} /\ current = {} /\ DOMAIN unread = {} /\ pc = "loop"
    BY EmptySeq DEF IInv, CaughtUp, PlaceInv
  <2>2. Coming(p) = StayOf(p)
    BY DEF IInv, TypeOK, Coming
  <2> QED  BY <2>1, <2>2 DEF IInv, AnnouncedInv, Dealt, Excused
<1> QED  BY <1>1, Invariance, PTL

\* Nor does such a monitor leave a condemned player on the server: whoever was
\* evaluated was kicked before the next line was read.
THEOREM CondemnedAreKicked == Spec => []NoCondemnedStays
<1>1. IInv => NoCondemnedStays
  <2> SUFFICES ASSUME IInv, CaughtUp, NEW p \in announced \cap Condemned
               PROVE  Excused(p)
    BY DEF NoCondemnedStays
  <2>1. seeds = {} /\ current = {} /\ DOMAIN unread = {} /\ pc = "loop"
    BY EmptySeq DEF IInv, CaughtUp, PlaceInv
  <2>2. p \in online /\ Coming(p) = StayOf(p)
    BY DEF IInv, TypeOK, Coming
  <2>3. p \in checked \/ Excused(p)
    BY <2>1, <2>2 DEF IInv, AnnouncedInv, Dealt, Excused
  <2> QED  BY <2>1, <2>2, <2>3 DEF IInv, KickInv
<1> QED  BY <1>1, Invariance, PTL
=============================================================================
