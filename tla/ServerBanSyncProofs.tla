------------------------ MODULE ServerBanSyncProofs ------------------------
(* Proofs about ServerBanSync for any servers, players, names, keys and    *)
(* number of rows.                                                         *)
EXTENDS ServerBanSync, TLAPS

Hand(s, places) == IF pc[s] \in places THEN cur[s] ELSE {}

\* No two rows that the server imported for one player under one key.
OneRow(s) ==
  \A q, r \in rows :
    /\ q.by = s /\ r.by = s
    /\ q.uuid = r.uuid /\ q.source = r.source
    /\ ~q.stray /\ ~r.stray
    => q = r

\* The bans of a poll have different names, and no name that is still to be learned is
\* known: learning one takes no other player's out of the map.
TodoInv(s) ==
  /\ todo[s] \cup Hand(s, {"create", "decide"}) \subseteq listed[s]
  /\ \A b, c \in listed[s] : b.name = c.name => b = c
  /\ \A b \in todo[s] \cup Hand(s, {"create", "decide"}) : b.name \notin Names(known[s])
  /\ todo[s] \cap cur[s] = {}

\* While the server is about to create a row it has none of that player.
CreateInv(s) ==
  \A b \in Hand(s, {"create"}) : \A r \in rows :
    r.by = s /\ r.uuid = b.uuid => r.source # localNode

\* A row that the server imported, and would delete on a pardon, is known, stranded or
\* the one in hand.
Cared(s) == Uuids(known[s]) \cup stranded[s] \cup Uuids(Hand(s, {"decide", "delete"}))
CaredInv(s) ==
  \A r \in rows : r.by = s /\ r.source = localNode => r.uuid \in Cared(s)

\* What the monitor relies on is in the banlist, or somebody removed it.
HoldingInv(s) ==
  \A b \in Holding(s) :
    \/ \E r \in rows : r.uuid = b.uuid /\ (r.source = localNode \/ r.by = s)
    \/ b.uuid \in dropped[s]

ServerInv(s) ==
  OneRow(s) /\ TodoInv(s) /\ CreateInv(s) /\ CaredInv(s) /\ HoldingInv(s)

IInv == TypeOK /\ \A s \in Server : ServerInv(s)

-----------------------------------------------------------------------------
(* Helpers.                                                                *)

\* What is in a set of bans has its player and its name in it.
LEMMA UuidsNames ==
  ASSUME NEW bans, NEW b \in bans
  PROVE  b.uuid \in Uuids(bans) /\ b.name \in Names(bans)
BY DEF Uuids, Names

\* The table grows by one row, of the given player, key and author; it is a stray one
\* if the key is not that of the process.
LEMMA InsertedRow ==
  ASSUME TypeOK, NEW u \in Uuid, NEW node \in Key, NEW by \in Server \cup {Admin},
         NEW into \in SUBSET rows, Insert(u, node, by, into)
  PROVE  \E row \in Row : /\ rows' = into \cup {row}
                          /\ row.uuid = u /\ row.source = node /\ row.by = by
                          /\ row.stray = (node # localNode)
<1> DEFINE row == [uuid |-> u, source |-> node, by |-> by, stray |-> node # localNode, copy |-> 1]
<1>1. PICK n \in FreeCopies(row) : rows' = into \cup {[row EXCEPT !.copy = n]}
  BY DEF Insert
<1>2. n \in Copy
  BY DEF FreeCopies
<1>3. [row EXCEPT !.copy = n] \in Row
  BY <1>2 DEF Row
<1> QED  BY <1>1, <1>3

\* The members of a set of bans are bans of players.
LEMMA BanType ==
  ASSUME NEW b \in Ban
  PROVE  b.uuid \in Uuid
BY DEF Ban

\* What is to be done and what is in hand are bans.
LEMMA HandType ==
  ASSUME TypeOK, NEW s \in Server
  PROVE  /\ \A b \in cur[s] : b \in Ban /\ cur[s] = {b} /\ b.uuid \in Uuid
         /\ \A b \in todo[s] \cup known[s] \cup listed[s] : b \in Ban /\ b.uuid \in Uuid
         /\ cur[s] # {} <=> Busy(s)
<1>1. cur[s] \in {{}} \cup {{b} : b \in Ban} /\ todo[s] \subseteq Ban /\ known[s] \subseteq Ban
      /\ listed[s] \subseteq Ban
  BY DEF TypeOK
<1> QED  BY <1>1, BanType DEF TypeOK

-----------------------------------------------------------------------------
(* Types.                                                                  *)

LEMMA InitType == Init => TypeOK
BY DEF Init, TypeOK, Pc, Busy

\* Only the monitor of s moves, and its entries are what they may be.
LEMMA LocalType ==
  ASSUME TypeOK, NEW s \in Server,
         pc' \in [Server -> Pc] /\ known' \in [Server -> SUBSET Ban],
         listed' \in [Server -> SUBSET Ban] /\ todo' \in [Server -> SUBSET Ban],
         cur' \in [Server -> {{}} \cup {{b} : b \in Ban}] /\ source' \in [Server -> SUBSET Key],
         stranded' \in [Server -> SUBSET Uuid] /\ dropped' \in [Server -> SUBSET Uuid],
         rows' \subseteq Row, UNCHANGED <<file, key, localNode>>,
         \A t \in Server \ {s} : pc'[t] = pc[t] /\ cur'[t] = cur[t] /\ source'[t] = source[t],
         cur'[s] # {} <=> pc'[s] \in {"create", "decide", "delete"},
         source'[s] # {} <=> pc'[s] = "create"
  PROVE  TypeOK'
<1>1. ASSUME NEW t \in Server
      PROVE  (cur'[t] # {} <=> Busy(t)') /\ (source'[t] # {} <=> pc'[t] = "create")
  <2>1. CASE t = s
    BY <2>1 DEF Busy
  <2>2. CASE t # s
    BY <2>2 DEF TypeOK, Busy
  <2> QED  BY <2>1, <2>2
<1> QED  BY <1>1 DEF TypeOK

LEMMA LoadType ==
  ASSUME TypeOK, NEW s \in Server, LoadBannedPlayersFile(s) \/ Done(s)
  PROVE  TypeOK'
<1>1. CASE LoadBannedPlayersFile(s)
  <2>1. PICK bans \in Keyed(file[s]) :
          /\ listed' = [listed EXCEPT ![s] = bans]
          /\ todo' = [todo EXCEPT ![s] = {b \in bans : b.name \notin Names(known[s])}]
    BY <1>1 DEF LoadBannedPlayersFile
  <2>2. bans \in SUBSET Ban
    BY DEF Keyed, TypeOK
  <2>3. listed' \in [Server -> SUBSET Ban] /\ todo' \in [Server -> SUBSET Ban]
    BY <2>1, <2>2 DEF TypeOK
  <2>4. pc' = [pc EXCEPT ![s] = "import"] /\ pc[s] = "idle"
    BY <1>1 DEF LoadBannedPlayersFile, Go
  <2> QED  BY <1>1, <2>3, <2>4, LocalType
           DEF LoadBannedPlayersFile, tables, history, TypeOK, Pc, Busy
<1>2. CASE Done(s)
  BY <1>2, LocalType DEF Done, Go, tables, history, TypeOK, Pc, Busy
<1> QED  BY <1>1, <1>2

LEMMA ImportType ==
  ASSUME TypeOK, NEW s \in Server, NEW b \in todo[s],
         FindLocalBan(s, b) \/ FindNone(s, b) \/ ListFails(s, b)
  PROVE  TypeOK'
<1>1. b \in Ban /\ b.uuid \in Uuid
  BY HandType
<1>2. todo' \in [Server -> SUBSET Ban] /\ todo' = [todo EXCEPT ![s] = @ \ {b}] /\ pc[s] = "import"
  BY DEF FindLocalBan, FindNone, ListFails, Take, TypeOK
<1>3. CASE FindLocalBan(s, b)
  <2>1. /\ pc' \in [Server -> Pc] /\ pc' = [pc EXCEPT ![s] = "decide"]
        /\ cur' \in [Server -> {{}} \cup {{c} : c \in Ban}] /\ cur' = [cur EXCEPT ![s] = {b}]
        /\ dropped' \in [Server -> SUBSET Uuid]
    BY <1>1, <1>3 DEF FindLocalBan, Take, Go, TypeOK, Pc
  <2> QED  BY <1>2, <1>3, <2>1, LocalType DEF FindLocalBan, tables, TypeOK, Busy
<1>4. CASE FindNone(s, b)
  <2>1. /\ pc' \in [Server -> Pc] /\ pc' = [pc EXCEPT ![s] = "create"]
        /\ cur' \in [Server -> {{}} \cup {{c} : c \in Ban}] /\ cur' = [cur EXCEPT ![s] = {b}]
        /\ source' \in [Server -> SUBSET Key] /\ source' = [source EXCEPT ![s] = {key}]
    BY <1>1, <1>4 DEF FindNone, Take, Go, TypeOK, Pc
  <2> QED  BY <1>2, <1>4, <2>1, LocalType DEF FindNone, tables, history, TypeOK, Busy
<1>5. CASE ListFails(s, b)
  BY <1>2, <1>5, LocalType DEF ListFails, tables, history, TypeOK, Busy
<1> QED  BY <1>3, <1>4, <1>5

LEMMA HandleType ==
  ASSUME TypeOK, NEW s \in Server, NEW b \in cur[s],
         CreateBan(s, b) \/ Learn(s, b) \/ DecideFails(s, b) \/ DeleteLocalBans(s, b) \/ DeleteFails(s, b)
  PROVE  TypeOK'
<1>1. b \in Ban /\ b.uuid \in Uuid
  BY HandType
<1>2. CASE CreateBan(s, b)
  <2>1. PICK node \in source[s] : Insert(b.uuid, node, s, rows)
    BY <1>2 DEF CreateBan
  <2>2. node \in Key
    BY DEF TypeOK
  <2>3. rows' \subseteq Row
    BY <1>1, <2>1, <2>2, InsertedRow DEF TypeOK
  <2>4. /\ pc' \in [Server -> Pc] /\ pc' = [pc EXCEPT ![s] = "decide"] /\ pc[s] = "create"
        /\ source' \in [Server -> SUBSET Key] /\ source' = [source EXCEPT ![s] = {}]
        /\ dropped' \in [Server -> SUBSET Uuid]
    BY <1>2 DEF CreateBan, Go, TypeOK, Pc
  <2> QED  BY <1>2, <2>3, <2>4, LocalType DEF CreateBan, TypeOK, Busy
<1>3. CASE Learn(s, b) \/ DecideFails(s, b) \/ DeleteLocalBans(s, b) \/ DeleteFails(s, b)
  <2>1. /\ pc' \in [Server -> Pc] /\ pc' = [pc EXCEPT ![s] = "import"] /\ pc[s] # "create"
        /\ cur' \in [Server -> {{}} \cup {{c} : c \in Ban}] /\ cur' = [cur EXCEPT ![s] = {}]
        /\ stranded' \in [Server -> SUBSET Uuid]
        /\ UNCHANGED <<file, key, localNode, listed, todo, source>>
    BY <1>1, <1>3 DEF Learn, DecideFails, DeleteLocalBans, DeleteFails, Go, tables, TypeOK, Pc
  <2>2. known' \in [Server -> SUBSET Ban] /\ rows' \subseteq Row
    BY <1>1, <1>3 DEF Learn, DecideFails, DeleteLocalBans, DeleteFails, tables, TypeOK
  <2>3. dropped' \in [Server -> SUBSET Uuid]
    <3>1. CASE Learn(s, b) \/ DecideFails(s, b) \/ DeleteFails(s, b)
      BY <3>1 DEF Learn, DecideFails, DeleteFails, TypeOK
    <3>2. CASE DeleteLocalBans(s, b)
      BY <1>1, <3>2 DEF DeleteLocalBans, Drop, TypeOK
    <3> QED  BY <1>3, <3>1, <3>2
  <2> QED  BY <2>1, <2>2, <2>3, LocalType DEF TypeOK, Busy
<1> QED  BY <1>2, <1>3

LEMMA RestType ==
  ASSUME TypeOK, NEW s \in Server, CreateBanFails(s) \/ \E b \in known[s] : Forget(s, b)
  PROVE  TypeOK'
<1>1. CASE CreateBanFails(s)
  BY <1>1, LocalType DEF CreateBanFails, Go, tables, history, TypeOK, Pc, Busy
<1>2. ASSUME NEW b \in known[s], Forget(s, b)
      PROVE  TypeOK'
  <2>1. b \in Ban
    BY HandType
  <2>2. /\ pc' \in [Server -> Pc] /\ pc' = [pc EXCEPT ![s] = "delete"] /\ pc[s] = "import"
        /\ cur' \in [Server -> {{}} \cup {{c} : c \in Ban}] /\ cur' = [cur EXCEPT ![s] = {b}]
        /\ known' \in [Server -> SUBSET Ban] /\ dropped' \in [Server -> SUBSET Uuid]
    BY <1>2, <2>1 DEF Forget, Go, TypeOK, Pc
  <2> QED  BY <1>2, <2>2, LocalType DEF Forget, tables, TypeOK, Busy
<1> QED  BY <1>1, <1>2

LEMMA RestartType ==
  ASSUME TypeOK, (\E s \in Server : Restart(s)) \/ ProcessRestart
  PROVE  TypeOK'
<1>1. PICK servers \in SUBSET Server : StopPolls(servers)
  BY DEF Restart, ProcessRestart
<1>2. key' \in Key /\ localNode' \in Key
  BY DEF Restart, ProcessRestart, StopPolls, TypeOK
<1>3. /\ pc' \in [Server -> Pc] /\ known' \in [Server -> SUBSET Ban]
      /\ listed' \in [Server -> SUBSET Ban] /\ todo' \in [Server -> SUBSET Ban]
      /\ source' \in [Server -> SUBSET Key] /\ dropped' \in [Server -> SUBSET Uuid]
  BY <1>1 DEF StopPolls, Reset, TypeOK, Pc
<1>4. cur' \in [Server -> {{}} \cup {{b} : b \in Ban}]
  BY <1>1 DEF StopPolls, Reset, TypeOK
<1>5. stranded' \in [Server -> SUBSET Uuid]
  BY <1>1 DEF StopPolls, Abandon, Uuids, TypeOK, Row
<1>6. ASSUME NEW t \in Server
      PROVE  (cur'[t] # {} <=> Busy(t)') /\ (source'[t] # {} <=> pc'[t] = "create")
  BY <1>1 DEF StopPolls, Reset, TypeOK, Busy
<1> QED  BY <1>1, <1>2, <1>3, <1>4, <1>5, <1>6 DEF StopPolls, TypeOK

LEMMA AdminType ==
  ASSUME TypeOK,
         \/ \E s \in Server, b \in Ban : BanPlayer(s, b) \/ Pardon(s, b)
         \/ \E k \in Key : ReplaceIdentity(k)
         \/ \E u \in Uuid : AdminCreate(u) \/ \E r \in rows : AdminUpdate(r, u)
         \/ \E r \in rows : AdminDelete(r)
  PROVE  TypeOK'
<1>1. ASSUME NEW s \in Server, NEW b \in Ban, BanPlayer(s, b) \/ Pardon(s, b)
      PROVE  TypeOK'
  <2>1. file' \in [Server -> SUBSET Ban]
    BY <1>1 DEF BanPlayer, Pardon, TypeOK
  <2> QED  BY <1>1, <2>1 DEF BanPlayer, Pardon, local, history, TypeOK, Busy
<1>2. ASSUME NEW k \in Key, ReplaceIdentity(k)
      PROVE  TypeOK'
  BY <1>2 DEF ReplaceIdentity, local, history, TypeOK, Busy
<1>3. ASSUME NEW u \in Uuid, AdminCreate(u)
      PROVE  TypeOK'
  <2>1. rows' \subseteq Row
    <3>1. key \in Key /\ Admin \in Server \cup {Admin}
      BY DEF TypeOK
    <3>2. Insert(u, key, Admin, rows)
      BY <1>3 DEF AdminCreate
    <3>3. \E row \in Row : rows' = rows \cup {row}
      BY <3>1, <3>2, InsertedRow
    <3> QED  BY <3>3 DEF TypeOK
  <2> QED  BY <1>3, <2>1 DEF AdminCreate, local, history, TypeOK, Busy
<1>4. ASSUME NEW u \in Uuid, NEW r \in rows, AdminUpdate(r, u)
      PROVE  TypeOK'
  <2>1. rows' \subseteq Row
    <3>1. key \in Key /\ Admin \in Server \cup {Admin}
      BY DEF TypeOK
    <3>2. PICK into \in SUBSET rows : into = rows \ {r}
      OBVIOUS
    <3>3. Insert(u, key, Admin, into)
      BY <1>4, <3>2 DEF AdminUpdate
    <3>4. \E row \in Row : rows' = into \cup {row}
      BY <3>1, <3>3, InsertedRow
    <3> QED  BY <3>4 DEF TypeOK
  <2>2. dropped' \in [Server -> SUBSET Uuid]
    BY <1>4 DEF AdminUpdate, Drop, TypeOK, Row
  <2> QED  BY <1>4, <2>1, <2>2 DEF AdminUpdate, local, TypeOK, Busy
<1>5. ASSUME NEW r \in rows, AdminDelete(r)
      PROVE  TypeOK'
  <2>1. dropped' \in [Server -> SUBSET Uuid]
    BY <1>5 DEF AdminDelete, Drop, TypeOK, Row
  <2> QED  BY <1>5, <2>1 DEF AdminDelete, local, TypeOK, Busy
<1> QED  BY <1>1, <1>2, <1>3, <1>4, <1>5

LEMMA TypeStep == TypeOK /\ [Next]_vars => TypeOK'
<1> SUFFICES ASSUME TypeOK, [Next]_vars
             PROVE  TypeOK'
  OBVIOUS
<1>1. ASSUME NEW s \in Server, PollStep(s)
      PROVE  TypeOK'
  BY <1>1, LoadType, ImportType, HandleType, RestType DEF PollStep
<1>2. CASE UNCHANGED vars
  BY <1>2 DEF vars, TypeOK, Busy
<1> QED  BY <1>1, <1>2, RestartType, AdminType DEF Next
-----------------------------------------------------------------------------
(* Every step keeps the invariant.                                         *)

LEMMA InitInv == Init => IInv
<1> SUFFICES ASSUME Init
             PROVE  IInv
  OBVIOUS
<1>1. ASSUME NEW s \in Server
      PROVE  ServerInv(s)
  BY DEF Init, ServerInv, OneRow, TodoInv, CreateInv, CaredInv, HoldingInv,
         Hand, Holding
<1> QED  BY <1>1, InitType DEF IInv

\* A monitor that does not move, while others add rows of theirs, and remove rows only if
\* it is recorded for those who rely on them.
Bystander(t) ==
  /\ UNCHANGED <<pc[t], known[t], listed[t], todo[t], cur[t], stranded[t], localNode>>
  /\ \A r \in rows' : r \in rows \/ r.by # t
  /\ \A r \in rows \ rows' : r.uuid \in Uuids(Holding(t)) => r.uuid \in dropped'[t]
  /\ dropped[t] \subseteq dropped'[t]

LEMMA BystanderInv ==
  ASSUME NEW t \in Server, ServerInv(t), Bystander(t)
  PROVE  ServerInv(t)'
<1> USE DEF ServerInv, Bystander
<1>1. Holding(t)' = Holding(t) /\ Cared(t)' = Cared(t)
      /\ \A places : Hand(t, places)' = Hand(t, places)
  BY DEF Holding, Cared, Hand, Uuids
<1>2. OneRow(t)'
  BY DEF OneRow
<1>3. TodoInv(t)'
  BY <1>1 DEF TodoInv, Names
<1>4. CreateInv(t)' /\ CaredInv(t)'
  BY <1>1 DEF CreateInv, CaredInv
<1>5. HoldingInv(t)'
  <2> SUFFICES ASSUME NEW b \in Holding(t), b.uuid \notin dropped'[t]
               PROVE  \E r \in rows' : r.uuid = b.uuid /\ (r.source = localNode \/ r.by = t)
    BY <1>1 DEF HoldingInv
  <2>1. PICK r \in rows : r.uuid = b.uuid /\ (r.source = localNode \/ r.by = t)
    BY DEF HoldingInv
  <2>2. r \in rows'
    BY <2>1, UuidsNames
  <2> QED  BY <2>1, <2>2
<1> QED  BY <1>2, <1>3, <1>4, <1>5

LEMMA LoadInv ==
  ASSUME IInv, NEW s \in Server, LoadBannedPlayersFile(s) \/ Done(s)
  PROVE  \A t \in Server : ServerInv(t)'
<1> USE DEF IInv, ServerInv
<1>1. /\ UNCHANGED <<rows, localNode, known, cur, stranded, dropped>>
      /\ pc[s] \in {"idle", "import"} /\ pc'[s] \in {"idle", "import"} /\ cur[s] = {}
  BY DEF LoadBannedPlayersFile, Done, Go, tables, history, TypeOK, Busy
<1>2. ASSUME NEW t \in Server, t # s
      PROVE  Bystander(t)
  BY <1>2 DEF LoadBannedPlayersFile, Done, Go, tables, history, TypeOK, Bystander
<1>3. \A places : Hand(s, places) = {} /\ Hand(s, places)' = {}
  BY <1>1 DEF Hand
<1>4. OneRow(s)' /\ CreateInv(s)'
  BY <1>1, <1>3 DEF OneRow, CreateInv
<1>5. CaredInv(s)'
  BY <1>1, <1>3 DEF CaredInv, Cared
<1>6. HoldingInv(s)'
  BY <1>1 DEF HoldingInv, Holding
<1>7. TodoInv(s)'
  <2>1. CASE LoadBannedPlayersFile(s)
    <3>1. PICK bans \in Keyed(file[s]) :
            /\ listed' = [listed EXCEPT ![s] = bans]
            /\ todo' = [todo EXCEPT ![s] = {b \in bans : b.name \notin Names(known[s])}]
      BY <2>1 DEF LoadBannedPlayersFile
    <3>2. \A b, c \in bans : b.name = c.name => b = c
      BY DEF Keyed
    <3> QED  BY <1>1, <1>3, <3>1, <3>2 DEF TodoInv, TypeOK
  <2>2. CASE Done(s)
    BY <1>1, <1>3, <2>2 DEF Done, TodoInv, TypeOK
  <2> QED  BY <2>1, <2>2
<1> QED  BY <1>2, <1>4, <1>5, <1>6, <1>7, BystanderInv

LEMMA ImportInv ==
  ASSUME IInv, NEW s \in Server, NEW b \in todo[s],
         FindLocalBan(s, b) \/ FindNone(s, b) \/ ListFails(s, b)
  PROVE  \A t \in Server : ServerInv(t)'
<1> USE DEF IInv, ServerInv
<1>1. /\ UNCHANGED <<rows, localNode, known, listed, stranded>>
      /\ pc[s] = "import" /\ cur[s] = {} /\ todo' = [todo EXCEPT ![s] = @ \ {b}]
  BY DEF FindLocalBan, FindNone, ListFails, Take, tables, history, TypeOK, Busy
<1>2. ASSUME NEW t \in Server, t # s
      PROVE  Bystander(t)
  BY <1>2 DEF FindLocalBan, FindNone, ListFails, Take, Go, tables, history, TypeOK, Bystander
<1>3. OneRow(s)'
  BY <1>1 DEF OneRow
<1>4. CASE FindLocalBan(s, b)
  <2>1. /\ pc'[s] = "decide" /\ cur'[s] = {b} /\ dropped'[s] = dropped[s] \ {b.uuid}
        /\ todo'[s] = todo[s] \ {b}
    BY <1>1, <1>4 DEF FindLocalBan, Take, Go, TypeOK
  <2>2. TodoInv(s)'
    BY <1>1, <2>1 DEF TodoInv, Hand
  <2>3. CreateInv(s)'
    BY <2>1 DEF CreateInv, Hand
  <2>4. CaredInv(s)'
    BY <1>1, <2>1 DEF CaredInv, Cared, Hand, Uuids
  <2>5. HoldingInv(s)'
    <3>1. PICK r \in rows : r.uuid = b.uuid /\ r.source = localNode
      BY <1>4 DEF FindLocalBan, Under
    <3> QED  BY <1>1, <2>1, <3>1 DEF HoldingInv, Holding
  <2> QED  BY <1>2, <1>3, <2>2, <2>3, <2>4, <2>5, BystanderInv
<1>5. CASE FindNone(s, b)
  <2>1. pc'[s] = "create" /\ cur'[s] = {b} /\ dropped' = dropped /\ todo'[s] = todo[s] \ {b}
    BY <1>1, <1>5 DEF FindNone, Take, Go, history, TypeOK
  <2>2. TodoInv(s)'
    BY <1>1, <2>1 DEF TodoInv, Hand
  <2>3. CreateInv(s)'
    BY <1>1, <1>5, <2>1 DEF FindNone, Under, CreateInv, Hand
  <2>4. CaredInv(s)'
    BY <1>1, <2>1 DEF CaredInv, Cared, Hand
  <2>5. HoldingInv(s)'
    BY <1>1, <2>1 DEF HoldingInv, Holding
  <2> QED  BY <1>2, <1>3, <2>2, <2>3, <2>4, <2>5, BystanderInv
<1>6. CASE ListFails(s, b)
  <2>1. UNCHANGED <<pc, cur, dropped>> /\ todo'[s] = todo[s] \ {b}
    BY <1>1, <1>6 DEF ListFails, history, TypeOK
  <2>2. TodoInv(s)' /\ CreateInv(s)'
    BY <1>1, <2>1 DEF TodoInv, CreateInv, Hand
  <2>3. CaredInv(s)' /\ HoldingInv(s)'
    BY <1>1, <2>1 DEF CaredInv, Cared, HoldingInv, Holding, Hand
  <2> QED  BY <1>2, <1>3, <2>2, <2>3, BystanderInv
<1> QED  BY <1>4, <1>5, <1>6
LEMMA CreateBanInv ==
  ASSUME IInv, NEW s \in Server, NEW b \in cur[s], CreateBan(s, b)
  PROVE  \A t \in Server : ServerInv(t)'
<1> USE DEF IInv, ServerInv
<1>1. PICK node \in source[s] : Insert(b.uuid, node, s, rows)
  BY DEF CreateBan
<1>2. node \in Key /\ b \in Ban /\ b.uuid \in Uuid /\ cur[s] = {b}
  BY HandType DEF TypeOK
<1>3. PICK row \in Row : /\ rows' = rows \cup {row}
                         /\ row.uuid = b.uuid /\ row.source = node /\ row.by = s
                         /\ row.stray = (node # localNode)
  BY <1>1, <1>2, InsertedRow
<1>4. /\ pc[s] = "create" /\ pc'[s] = "decide" /\ dropped'[s] = dropped[s] \ {b.uuid}
      /\ UNCHANGED <<localNode, known, listed, todo, cur, stranded>>
  BY DEF CreateBan, Go, TypeOK
<1>5. ASSUME NEW t \in Server, t # s
      PROVE  Bystander(t)
  BY <1>3, <1>4, <1>5 DEF CreateBan, Go, TypeOK, Bystander
<1>6. OneRow(s)'
  <2>1. ASSUME NEW r \in rows, r.by = s, r.uuid = b.uuid, r.source = node, node = localNode
        PROVE  FALSE
    BY <1>2, <1>4, <2>1 DEF CreateInv, Hand
  <2>2. ~row.stray => node = localNode
    BY <1>3
  <2> SUFFICES ASSUME NEW q \in rows', NEW r \in rows',
                      q.by = s, r.by = s, q.uuid = r.uuid, q.source = r.source,
                      ~q.stray, ~r.stray
               PROVE  q = r
    BY DEF OneRow
  <2>3. CASE q \in rows /\ r \in rows
    BY <2>3 DEF OneRow
  <2>4. CASE q = row \/ r = row
    BY <1>3, <2>1, <2>2, <2>4
  <2> QED  BY <1>3, <2>3, <2>4
<1>7. TodoInv(s)' /\ CreateInv(s)'
  BY <1>4 DEF TodoInv, CreateInv, Hand
<1>8. CaredInv(s)'
  BY <1>2, <1>3, <1>4 DEF CaredInv, Cared, Hand, Uuids
<1>9. HoldingInv(s)'
  BY <1>2, <1>3, <1>4 DEF HoldingInv, Holding
<1> QED  BY <1>5, <1>6, <1>7, <1>8, <1>9, BystanderInv

LEMMA DecideInv ==
  ASSUME IInv, NEW s \in Server, NEW b \in cur[s], Learn(s, b) \/ DecideFails(s, b)
  PROVE  \A t \in Server : ServerInv(t)'
<1> USE DEF IInv, ServerInv
<1>1. /\ pc[s] = "decide" /\ pc'[s] = "import" /\ cur[s] = {b} /\ cur'[s] = {}
      /\ UNCHANGED <<rows, localNode, listed, todo>>
  BY HandType DEF Learn, DecideFails, Go, tables, TypeOK
<1>2. ASSUME NEW t \in Server, t # s
      PROVE  Bystander(t)
  BY <1>2 DEF Learn, DecideFails, Go, tables, TypeOK, Bystander
<1>3. \A places : Hand(s, places)' = {}
  BY <1>1 DEF Hand
<1>4. OneRow(s)' /\ CreateInv(s)'
  BY <1>1, <1>3 DEF OneRow, CreateInv
<1>5. CASE Learn(s, b)
  <2>1. /\ known'[s] = {k \in known[s] : k.name # b.name} \cup {b}
        /\ stranded'[s] = stranded[s] \ {b.uuid} /\ dropped' = dropped
    BY <1>5 DEF Learn, TypeOK
  <2>2. known'[s] = known[s] \cup {b}
    BY <1>1, <2>1, UuidsNames DEF TodoInv, Hand
  <2>3. TodoInv(s)'
    BY <1>1, <1>3, <2>2 DEF TodoInv, Hand, Names
  <2>4. CaredInv(s)'
    BY <1>1, <2>1, <2>2 DEF CaredInv, Cared, Hand, Uuids
  <2>5. HoldingInv(s)'
    BY <1>1, <2>1, <2>2 DEF HoldingInv, Holding
  <2> QED  BY <1>2, <1>4, <2>3, <2>4, <2>5, BystanderInv
<1>6. CASE DecideFails(s, b)
  <2>1. /\ known' = known /\ stranded'[s] = stranded[s] \cup {b.uuid}
        /\ dropped'[s] = dropped[s] \cap Uuids(known[s])
    BY <1>6 DEF DecideFails, TypeOK
  <2>2. TodoInv(s)'
    BY <1>1, <1>3, <2>1 DEF TodoInv
  <2>3. CaredInv(s)'
    BY <1>1, <2>1 DEF CaredInv, Cared, Hand, Uuids
  <2>4. HoldingInv(s)'
    BY <1>1, <2>1, UuidsNames DEF HoldingInv, Holding
  <2> QED  BY <1>2, <1>4, <2>2, <2>3, <2>4, BystanderInv
<1> QED  BY <1>5, <1>6

LEMMA DeleteStepInv ==
  ASSUME IInv, NEW s \in Server, NEW b \in cur[s], DeleteLocalBans(s, b) \/ DeleteFails(s, b)
  PROVE  \A t \in Server : ServerInv(t)'
<1> USE DEF IInv, ServerInv
<1>1. /\ pc[s] = "delete" /\ pc'[s] = "import" /\ cur[s] = {b} /\ cur'[s] = {}
      /\ UNCHANGED <<localNode, known, listed, todo>>
  BY HandType DEF DeleteLocalBans, DeleteFails, Go, tables, TypeOK
<1>2. \A places : Hand(s, places)' = {}
  BY <1>1 DEF Hand
<1>3. TodoInv(s)' /\ CreateInv(s)'
  BY <1>1, <1>2 DEF TodoInv, CreateInv, Hand
<1>4. CASE DeleteLocalBans(s, b)
  <2>1. /\ rows' = rows \ {r \in rows : r.uuid = b.uuid /\ r.source = localNode}
        /\ stranded' = [stranded EXCEPT ![s] = @ \ {b.uuid}]
    BY <1>4 DEF DeleteLocalBans, Under
  <2>2. ASSUME NEW t \in Server
        PROVE  /\ dropped[t] \subseteq dropped'[t]
               /\ \A r \in rows \ rows' : r.uuid \in Uuids(Holding(t)) => r.uuid \in dropped'[t]
    <3>1. CASE rows' = rows
      BY <1>4, <3>1 DEF DeleteLocalBans
    <3>2. CASE rows' # rows
      BY <1>4, <2>1, <3>2 DEF DeleteLocalBans, Drop
    <3> QED  BY <3>1, <3>2
  <2>3. ASSUME NEW t \in Server, t # s
        PROVE  Bystander(t)
    BY <1>4, <2>1, <2>2, <2>3 DEF DeleteLocalBans, Go, TypeOK, Bystander
  <2>4. OneRow(s)'
    BY <2>1 DEF OneRow
  <2>5. CaredInv(s)'
    BY <1>1, <2>1 DEF CaredInv, Cared, Hand, Uuids, TypeOK
  <2>6. HoldingInv(s)'
    <3> SUFFICES ASSUME NEW k \in known[s], k.uuid \notin dropped'[s]
                 PROVE  \E r \in rows' : r.uuid = k.uuid /\ (r.source = localNode \/ r.by = s)
      BY <1>1 DEF HoldingInv, Holding
    <3>1. k \in Holding(s) /\ k.uuid \in Uuids(Holding(s))
      BY <1>1 DEF Holding, Uuids
    <3>2. PICK r \in rows : r.uuid = k.uuid /\ (r.source = localNode \/ r.by = s)
      BY <2>2, <3>1 DEF HoldingInv
    <3> QED  BY <2>2, <3>1, <3>2
  <2> QED  BY <1>3, <2>3, <2>4, <2>5, <2>6, BystanderInv
<1>5. CASE DeleteFails(s, b)
  <2>1. UNCHANGED <<rows, dropped>> /\ stranded'[s] = stranded[s] \cup {b.uuid}
    BY <1>5 DEF DeleteFails, tables, TypeOK
  <2>2. ASSUME NEW t \in Server, t # s
        PROVE  Bystander(t)
    BY <1>5, <2>2 DEF DeleteFails, Go, tables, TypeOK, Bystander
  <2>3. OneRow(s)'
    BY <2>1 DEF OneRow
  <2>4. CaredInv(s)'
    BY <1>1, <2>1 DEF CaredInv, Cared, Hand, Uuids
  <2>5. HoldingInv(s)'
    BY <1>1, <2>1 DEF HoldingInv, Holding
  <2> QED  BY <1>3, <2>2, <2>3, <2>4, <2>5, BystanderInv
<1> QED  BY <1>4, <1>5

LEMMA RestInv ==
  ASSUME IInv, NEW s \in Server, CreateBanFails(s) \/ \E b \in known[s] : Forget(s, b)
  PROVE  \A t \in Server : ServerInv(t)'
<1> USE DEF IInv, ServerInv
<1>1. CASE CreateBanFails(s)
  <2>1. /\ pc[s] = "create" /\ pc'[s] = "import" /\ cur'[s] = {}
        /\ UNCHANGED <<rows, localNode, known, listed, todo, stranded, dropped>>
    BY <1>1 DEF CreateBanFails, Go, tables, history, TypeOK
  <2>2. ASSUME NEW t \in Server, t # s
        PROVE  Bystander(t)
    BY <1>1, <2>2 DEF CreateBanFails, Go, tables, history, TypeOK, Bystander
  <2>3. OneRow(s)' /\ TodoInv(s)' /\ CreateInv(s)'
    BY <2>1 DEF OneRow, TodoInv, CreateInv, Hand
  <2>4. CaredInv(s)' /\ HoldingInv(s)'
    BY <2>1 DEF CaredInv, Cared, HoldingInv, Holding, Hand
  <2> QED  BY <2>2, <2>3, <2>4, BystanderInv
<1>2. ASSUME NEW b \in known[s], Forget(s, b)
      PROVE  \A t \in Server : ServerInv(t)'
  <2>1. /\ pc[s] = "import" /\ pc'[s] = "delete" /\ cur[s] = {} /\ cur'[s] = {b} /\ todo[s] = {}
        /\ known'[s] = known[s] \ {b} /\ dropped'[s] = dropped[s] \cap Uuids(known[s] \ {b})
        /\ UNCHANGED <<rows, localNode, listed, todo, stranded>>
    BY <1>2 DEF Forget, Go, tables, TypeOK, Busy
  <2>2. ASSUME NEW t \in Server, t # s
        PROVE  Bystander(t)
    BY <1>2, <2>2 DEF Forget, Go, tables, TypeOK, Bystander
  <2>3. OneRow(s)' /\ TodoInv(s)' /\ CreateInv(s)'
    BY <2>1 DEF OneRow, TodoInv, CreateInv, Hand
  <2>4. CaredInv(s)'
    BY <2>1 DEF CaredInv, Cared, Hand, Uuids
  <2>5. HoldingInv(s)'
    BY <2>1, UuidsNames DEF HoldingInv, Holding
  <2> QED  BY <2>2, <2>3, <2>4, <2>5, BystanderInv
<1> QED  BY <1>1, <1>2

\* A monitor that starts anew knows nothing, and all it has imported is stranded.
LEMMA RestartInv ==
  ASSUME IInv, (\E s \in Server : Restart(s)) \/ ProcessRestart
  PROVE  \A t \in Server : ServerInv(t)'
<1> USE DEF IInv, ServerInv
<1>1. PICK servers \in SUBSET Server :
        StopPolls(servers) /\ (servers = Server \/ localNode' = localNode)
  BY DEF Restart, ProcessRestart
<1>2. ASSUME NEW t \in Server \ servers
      PROVE  ServerInv(t)'
  <2>1. Bystander(t)
    BY <1>1 DEF StopPolls, Reset, Bystander
  <2> QED  BY <2>1, BystanderInv
<1>3. ASSUME NEW t \in servers
      PROVE  ServerInv(t)'
  <2>1. /\ pc'[t] = "idle" /\ known'[t] = {} /\ listed'[t] = {} /\ todo'[t] = {} /\ cur'[t] = {}
        /\ stranded'[t] = Abandon(t) /\ rows' = rows
    BY <1>1 DEF StopPolls, Reset
  <2>2. OneRow(t)' /\ TodoInv(t)' /\ CreateInv(t)' /\ HoldingInv(t)'
    BY <2>1 DEF OneRow, TodoInv, CreateInv, HoldingInv, Holding, Hand
  <2>3. CaredInv(t)'
    BY <2>1 DEF CaredInv, Cared, Abandon, Uuids
  <2> QED  BY <2>2, <2>3
<1> QED  BY <1>2, <1>3

LEMMA AdminInv ==
  ASSUME IInv,
         \/ \E s \in Server, b \in Ban : BanPlayer(s, b) \/ Pardon(s, b)
         \/ \E k \in Key : ReplaceIdentity(k)
         \/ \E u \in Uuid : AdminCreate(u) \/ \E r \in rows : AdminUpdate(r, u)
         \/ \E r \in rows : AdminDelete(r)
  PROVE  \A t \in Server : ServerInv(t)'
<1> SUFFICES ASSUME NEW t \in Server
             PROVE  Bystander(t)
  BY BystanderInv DEF IInv
<1> USE DEF IInv, Bystander
<1>1. key \in Key /\ Admin \in Server \cup {Admin} /\ Admin # t
  BY ConstantsAssumption DEF TypeOK
<1>2. CASE \/ \E s \in Server, b \in Ban : BanPlayer(s, b) \/ Pardon(s, b)
           \/ \E k \in Key : ReplaceIdentity(k)
  BY <1>2 DEF BanPlayer, Pardon, ReplaceIdentity, local, history
<1>3. ASSUME NEW u \in Uuid, AdminCreate(u)
      PROVE  Bystander(t)
  <2>1. PICK into \in SUBSET rows : into = rows
    OBVIOUS
  <2>2. Insert(u, key, Admin, into)
    BY <1>3, <2>1 DEF AdminCreate
  <2>3. \E row \in Row : rows' = into \cup {row} /\ row.by = Admin
    BY <1>1, <2>2, InsertedRow
  <2> QED  BY <1>1, <1>3, <2>1, <2>3 DEF AdminCreate, local, history
<1>4. ASSUME NEW u \in Uuid, NEW r \in rows, AdminUpdate(r, u)
      PROVE  Bystander(t)
  <2>1. PICK into \in SUBSET rows : into = rows \ {r}
    OBVIOUS
  <2>2. Insert(u, key, Admin, into)
    BY <1>4, <2>1 DEF AdminUpdate
  <2>3. \E row \in Row : rows' = into \cup {row} /\ row.by = Admin
    BY <1>1, <2>2, InsertedRow
  <2> QED  BY <1>1, <1>4, <2>1, <2>3 DEF AdminUpdate, Drop, local
<1>5. ASSUME NEW r \in rows, AdminDelete(r)
      PROVE  Bystander(t)
  BY <1>5 DEF AdminDelete, Drop, local
<1> QED  BY <1>2, <1>3, <1>4, <1>5

LEMMA InvStep == IInv /\ [Next]_vars => IInv'
<1> SUFFICES ASSUME IInv, [Next]_vars
             PROVE  IInv'
  OBVIOUS
<1>1. TypeOK'
  BY TypeStep DEF IInv
<1>2. ASSUME NEW s \in Server, PollStep(s)
      PROVE  \A t \in Server : ServerInv(t)'
  BY <1>2, LoadInv, ImportInv, CreateBanInv, DecideInv, DeleteStepInv, RestInv DEF PollStep
<1>3. CASE UNCHANGED vars
  <2>1. ASSUME NEW t \in Server
        PROVE  Bystander(t)
    BY <1>3 DEF vars, Bystander
  <2> QED  BY <1>1, <2>1, BystanderInv DEF IInv
<1>4. CASE Next
  <2>1. \A t \in Server : ServerInv(t)'
    BY <1>2, <1>4, RestartInv, AdminInv DEF Next
  <2> QED  BY <1>1, <2>1 DEF IInv
<1> QED  BY <1>3, <1>4

LEMMA Invariance == Spec => []IInv
<1>1. Init => IInv
  BY InitInv
<1>2. IInv /\ [Next]_vars => IInv'
  BY InvStep
<1> QED  BY <1>1, <1>2, PTL DEF Spec
-----------------------------------------------------------------------------
(* Theorems.                                                               *)

\* Files, rows and the monitors' maps keep their types; in particular every monitor
\* that is about to create, decide or delete has exactly one ban in hand.
THEOREM TypeCorrect == Spec => []TypeOK
<1>1. IInv => TypeOK
  BY DEF IInv
<1> QED  BY <1>1, Invariance, PTL

\* For any number of servers that share the table without a transaction, with keys
\* replaced and processes restarted at any point: no server has two rows for one
\* player under one key, stray ones aside.
THEOREM RowsAreSingle == Spec => []OneRowPerServer
<1>1. IInv => OneRowPerServer
  BY DEF IInv, ServerInv, OneRow, OneRowPerServer
<1> QED  BY <1>1, Invariance, PTL

\* Between its polls a monitor knows the ban of every row that it imported and would
\* delete on a pardon, but for the players that a failed step or a restart cut off:
\* even where two players of the file go by one name.
THEOREM PardonsNoticed == Spec => []PardonsAreNoticed
<1>1. IInv => PardonsAreNoticed
  <2> SUFFICES ASSUME IInv, NEW s \in Server, NEW r \in rows,
                      pc[s] = "idle", r.by = s, r.source = localNode
               PROVE  r.uuid \in Uuids(known[s]) \cup stranded[s]
    BY DEF PardonsAreNoticed
  <2> QED  BY DEF IInv, ServerInv, CaredInv, Cared, Hand, Uuids
<1> QED  BY <1>1, Invariance, PTL

\* A ban that a monitor knows is in the banlist, or somebody else has removed the row
\* since the monitor last saw one.
THEOREM KnownAreListed == Spec => []KnownBansAreListed
<1>1. IInv => KnownBansAreListed
  BY DEF IInv, ServerInv, HoldingInv, Holding, KnownBansAreListed
<1> QED  BY <1>1, Invariance, PTL
=============================================================================
