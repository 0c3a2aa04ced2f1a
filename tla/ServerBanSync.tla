--------------------------- MODULE ServerBanSync ---------------------------
(***************************************************************************)
(* Bans made on a Minecraft server are carried over to the banlist.  Each  *)
(* monitor polls the banned-players.json of its server: a ban whose name   *)
(* it does not know gets a row, unless the player has a row of this node;  *)
(* when a known name has gone from the file the rows of that player that   *)
(* came from this node are deleted.  The monitors share the table without  *)
(* a transaction, forget all they know when they are restarted, and name   *)
(* the node by two identities: rows are signed and created under the       *)
(* current key, and looked for and deleted under the one the process was   *)
(* started with.                                                           *)
(*                                                                         *)
(* Only rows of this node are modelled; those of peers play no part here.  *)
(* The decision taken after an import, with its cache, is module           *)
(* DecisionCache: here it succeeds or fails.  "stranded" and "dropped" are *)
(* history: players some step failed for, so that their rows are not       *)
(* looked after, and players a row of whom somebody else removed since the *)
(* monitor last saw one.                                                   *)
(***************************************************************************)
EXTENDS Naturals, FiniteSets

CONSTANTS
  Server,   \* Minecraft instances
  Uuid,     \* players
  NamesOf,  \* the names each player goes by
  Key,      \* node IDs this node may have
  NextKeys, \* bound: the node IDs that may take the place of each
  Admin,    \* who creates rows on the web page
  Copy,     \* numbers that tell like rows apart; the lowest free one is taken
  MaxRows   \* bound: from so many rows on nothing begins that could add one

ASSUME ConstantsAssumption ==
  /\ DOMAIN NamesOf = Uuid
  /\ NextKeys \in [Key -> SUBSET Key]
  /\ Admin \notin Server
  /\ Copy \subseteq Nat
  /\ MaxRows \in Nat

Ban == UNION {{[uuid |-> u, name |-> n] : n \in NamesOf[u]} : u \in Uuid}
Row == [uuid : Uuid, source : Key, by : Server \cup {Admin},
        stray : BOOLEAN, copy : Copy]

VARIABLES
  file,       \* banned-players.json of each server: one name for a UUID
  rows,       \* the rows of table banlist that came from this node
  key,        \* the node ID of identityService.Current()
  localNode,  \* localNodeID, captured when the process started
  pc, known, listed, todo, cur, source,  \* the monitors
  stranded, dropped

tables == <<file, rows, key, localNode>>
local == <<pc, known, listed, todo, cur, source>>
history == <<stranded, dropped>>
vars == <<file, rows, key, localNode, pc, known, listed, todo, cur, source, stranded, dropped>>

Uuids(bans) == {b.uuid : b \in bans}
Names(bans) == {b.name : b \in bans}
Under(u, node) == {r \in rows : r.uuid = u /\ r.source = node}

Init ==
  /\ file = [s \in Server |-> {}]
  /\ rows = {}
  /\ key \in Key /\ localNode = key
  /\ pc = [s \in Server |-> "idle"]
  /\ known = [s \in Server |-> {}] /\ listed = known /\ todo = known /\ cur = known
  /\ source = known
  /\ stranded = [s \in Server |-> {}] /\ dropped = stranded

-----------------------------------------------------------------------------
(* importServerBans, one action per statement on the table.                *)

Go(s, to) == pc' = [pc EXCEPT ![s] = to]

\* The map is keyed by name: of two players listed under one name one is kept.
Keyed(bans) ==
  {kept \in SUBSET bans :
    /\ Names(kept) = Names(bans)
    /\ \A b, c \in kept : b.name = c.name => b = c}

\* A file that cannot be read or parsed ends the poll.
LoadBannedPlayersFile(s) ==
  /\ pc[s] = "idle"
  /\ \E bans \in Keyed(file[s]) :
       /\ listed' = [listed EXCEPT ![s] = bans]
       /\ todo' = [todo EXCEPT ![s] = {b \in bans : b.name \notin Names(known[s])}]
  /\ Go(s, "import")
  /\ UNCHANGED <<tables, known, cur, source, history>>

Take(s, b) ==
  /\ pc[s] = "import" /\ b \in todo[s]
  /\ todo' = [todo EXCEPT ![s] = @ \ {b}]
  /\ cur' = [cur EXCEPT ![s] = {b}]

FindLocalBan(s, b) ==
  /\ Take(s, b)
  /\ Under(b.uuid, localNode) # {}
  /\ Go(s, "decide")
  /\ dropped' = [dropped EXCEPT ![s] = @ \ {b.uuid}]
  /\ UNCHANGED <<tables, known, listed, source, stranded>>

FindNoneBlindly(s, b) ==
  /\ Take(s, b)
  /\ Go(s, "create")
  /\ source' = [source EXCEPT ![s] = {key}]
  /\ UNCHANGED <<tables, known, listed, history>>

\* Nobody's row of this node: the import is signed with the current key.
FindNone(s, b) ==
  /\ Take(s, b)
  /\ Under(b.uuid, localNode) = {}
  /\ Go(s, "create")
  /\ source' = [source EXCEPT ![s] = {key}]
  /\ UNCHANGED <<tables, known, listed, history>>

\* The list or the signature fails: the next poll tries again.
ListFails(s, b) ==
  /\ pc[s] = "import" /\ b \in todo[s]
  /\ todo' = [todo EXCEPT ![s] = @ \ {b}]
  /\ UNCHANGED <<tables, pc, known, listed, cur, source, history>>

Like(row) == {r \in rows : [r EXCEPT !.copy = row.copy] = row}
FreeCopies(row) == Copy \ {r.copy : r \in Like(row)}
Insert(u, node, by, into) ==
  LET row == [uuid |-> u, source |-> node, by |-> by, stray |-> node # localNode, copy |-> 1]
  IN  \E n \in FreeCopies(row) :
        /\ \A other \in FreeCopies(row) : n <= other
        /\ rows' = into \cup {[row EXCEPT !.copy = n]}

CreateBan(s, b) ==
  /\ pc[s] = "create" /\ b \in cur[s]
  /\ \E node \in source[s] : Insert(b.uuid, node, s, rows)
  /\ Go(s, "decide") /\ source' = [source EXCEPT ![s] = {}]
  /\ dropped' = [dropped EXCEPT ![s] = @ \ {b.uuid}]
  /\ UNCHANGED <<file, key, localNode, known, listed, todo, cur, stranded>>

CreateBanIgnored(s) ==
  /\ pc[s] = "create"
  /\ Go(s, "decide") /\ source' = [source EXCEPT ![s] = {}]
  /\ UNCHANGED <<tables, known, listed, todo, cur, history>>

CreateBanFails(s) ==
  /\ pc[s] = "create"
  /\ Go(s, "import") /\ cur' = [cur EXCEPT ![s] = {}] /\ source' = [source EXCEPT ![s] = {}]
  /\ UNCHANGED <<tables, known, listed, todo, history>>

\* The decision about the player succeeded, and the name is known from now on.
Learn(s, b) ==
  /\ pc[s] = "decide" /\ b \in cur[s]
  /\ known' = [known EXCEPT ![s] = {k \in @ : k.name # b.name} \cup {b}]
  /\ stranded' = [stranded EXCEPT ![s] = @ \ {b.uuid}]
  /\ Go(s, "import") /\ cur' = [cur EXCEPT ![s] = {}]
  /\ UNCHANGED <<tables, listed, todo, source, dropped>>

\* Bound: what could make another row happens only while there are few.
Room == Cardinality(rows) < MaxRows \/ (key = localNode /\ Cardinality(rows) <= MaxRows)
DecideFailsInPlace(s, b) ==
  /\ pc[s] = "decide" /\ b \in cur[s] /\ Room
  /\ stranded' = [stranded EXCEPT ![s] = @ \cup {b.uuid}]
  /\ Go(s, "import")
  /\ dropped' = [dropped EXCEPT ![s] = @ \cap Uuids(known[s])]
  /\ UNCHANGED <<tables, known, listed, todo, cur, source>>

\* It failed: the row stays, the name is not known.
DecideFails(s, b) ==
  /\ pc[s] = "decide" /\ b \in cur[s] /\ Room
  /\ stranded' = [stranded EXCEPT ![s] = @ \cup {b.uuid}]
  /\ Go(s, "import") /\ cur' = [cur EXCEPT ![s] = {}]
  /\ dropped' = [dropped EXCEPT ![s] = @ \cap Uuids(known[s])]
  /\ UNCHANGED <<tables, known, listed, todo, source>>

\* Known names that have gone from the file.
Stale(s) == {b \in known[s] : b.name \notin Names(listed[s])}

Forget(s, b) ==
  /\ pc[s] = "import" /\ todo[s] = {}
  /\ b \in Stale(s)
  /\ known' = [known EXCEPT ![s] = @ \ {b}]
  /\ Go(s, "delete") /\ cur' = [cur EXCEPT ![s] = {b}]
  /\ dropped' = [dropped EXCEPT ![s] = @ \cap Uuids(known[s] \ {b})]
  /\ UNCHANGED <<tables, listed, todo, source, stranded>>

\* A row of u was removed: the monitors that rely on it are not told.
Holding(s) == known[s] \cup IF pc[s] = "decide" THEN cur[s] ELSE {}
Drop(u) ==
  dropped' = [s \in Server |-> dropped[s] \cup ({u} \cap Uuids(Holding(s)))]

DeleteUnderKey(s, b) ==
  /\ pc[s] = "delete" /\ b \in cur[s]
  /\ rows' = rows \ Under(b.uuid, key)
  /\ IF rows' = rows THEN UNCHANGED dropped ELSE Drop(b.uuid)
  /\ stranded' = [stranded EXCEPT ![s] = @ \ {b.uuid}]
  /\ Go(s, "import") /\ cur' = [cur EXCEPT ![s] = {}]
  /\ UNCHANGED <<file, key, localNode, known, listed, todo, source>>

DeleteLocalBans(s, b) ==
  /\ pc[s] = "delete" /\ b \in cur[s]
  /\ rows' = rows \ Under(b.uuid, localNode)
  /\ IF rows' = rows THEN UNCHANGED dropped ELSE Drop(b.uuid)
  /\ stranded' = [stranded EXCEPT ![s] = @ \ {b.uuid}]
  /\ Go(s, "import") /\ cur' = [cur EXCEPT ![s] = {}]
  /\ UNCHANGED <<file, key, localNode, known, listed, todo, source>>

\* The name is forgotten already, so nobody tries again.
DeleteFails(s, b) ==
  /\ pc[s] = "delete" /\ b \in cur[s]
  /\ stranded' = [stranded EXCEPT ![s] = @ \cup {b.uuid}]
  /\ Go(s, "import") /\ cur' = [cur EXCEPT ![s] = {}]
  /\ UNCHANGED <<tables, known, listed, todo, source, dropped>>

Done(s) ==
  /\ pc[s] = "import" /\ todo[s] = {} /\ Stale(s) = {}
  /\ Go(s, "idle") /\ listed' = [listed EXCEPT ![s] = {}]
  /\ UNCHANGED <<tables, known, todo, cur, source, history>>

-----------------------------------------------------------------------------
(* Restarts.                                                               *)

\* Nobody looks after the rows a monitor imported until it learns them again.
Abandon(s) == stranded[s] \cup Uuids({r \in rows : r.by = s})
Reset(f, servers) == [s \in Server |-> IF s \in servers THEN {} ELSE f[s]]

StopPolls(servers) ==
  /\ pc' = [s \in Server |-> IF s \in servers THEN "idle" ELSE pc[s]]
  /\ known' = Reset(known, servers) /\ listed' = Reset(listed, servers)
  /\ todo' = Reset(todo, servers) /\ cur' = Reset(cur, servers)
  /\ source' = Reset(source, servers)
  /\ stranded' = [s \in Server |-> IF s \in servers THEN Abandon(s) ELSE stranded[s]]
  /\ dropped' = Reset(dropped, servers)
  /\ UNCHANGED <<file, rows, key>>

\* ApplyConfig, or a monitor that returns.
Restart(s) ==
  /\ Room
  /\ StopPolls({s})
  /\ UNCHANGED localNode

ProcessRestart ==
  /\ Cardinality(rows) <= MaxRows
  /\ StopPolls(Server)
  /\ localNode' = key

-----------------------------------------------------------------------------
(* The administrators of the servers and of the node.                      *)

BanPlayer(s, b) ==
  /\ b.uuid \notin Uuids(file[s]) /\ Room
  /\ file' = [file EXCEPT ![s] = @ \cup {b}]
  /\ UNCHANGED <<rows, key, localNode, local, history>>

Pardon(s, b) ==
  /\ b \in file[s]
  /\ file' = [file EXCEPT ![s] = @ \ {b}]
  /\ UNCHANGED <<rows, key, localNode, local, history>>

\* A new key pair, or another identity imported.
ReplaceIdentity(k) ==
  /\ k \in NextKeys[key]
  /\ key' = k
  /\ UNCHANGED <<file, rows, localNode, local, history>>

AdminCreate(u) ==
  /\ Cardinality(rows) < MaxRows
  /\ Insert(u, key, Admin, rows)
  /\ UNCHANGED <<file, key, localNode, local, history>>

\* An edit makes the row one of the administrator, under the current key.
AdminUpdate(r, u) ==
  /\ Insert(u, key, Admin, rows \ {r})
  /\ Drop(r.uuid)
  /\ UNCHANGED <<file, key, localNode, local, stranded>>

AdminDelete(r) ==
  /\ rows' = rows \ {r}
  /\ Drop(r.uuid)
  /\ UNCHANGED <<file, key, localNode, local, stranded>>

PollStep(s) ==
  \/ LoadBannedPlayersFile(s)
  \/ \E b \in todo[s] : FindLocalBan(s, b) \/ FindNone(s, b) \/ ListFails(s, b)
  \/ \E b \in cur[s] : CreateBan(s, b) \/ Learn(s, b) \/ DecideFails(s, b)
                       \/ DeleteLocalBans(s, b) \/ DeleteFails(s, b)
  \/ CreateBanFails(s)
  \/ \E b \in known[s] : Forget(s, b)
  \/ Done(s)

Next ==
  \/ \E s \in Server :
       \/ PollStep(s) \/ Restart(s)
       \/ \E b \in Ban : BanPlayer(s, b) \/ Pardon(s, b)
  \/ ProcessRestart
  \/ \E k \in Key : ReplaceIdentity(k)
  \/ \E u \in Uuid : AdminCreate(u) \/ \E r \in rows : AdminUpdate(r, u)
  \/ \E r \in rows : AdminDelete(r)

Spec == Init /\ [][Next]_vars

-----------------------------------------------------------------------------
(* Properties.                                                             *)

Pc == {"idle", "import", "create", "decide", "delete"}
Busy(s) == pc[s] \in {"create", "decide", "delete"}

\* Files, rows and the monitors' maps hold what they can hold; a ban is in hand
\* exactly while a statement about it is due.
TypeOK ==
  /\ file \in [Server -> SUBSET Ban]
  /\ rows \subseteq Row
  /\ key \in Key /\ localNode \in Key
  /\ pc \in [Server -> Pc]
  /\ known \in [Server -> SUBSET Ban] /\ listed \in [Server -> SUBSET Ban]
  /\ todo \in [Server -> SUBSET Ban] /\ source \in [Server -> SUBSET Key]
  /\ cur \in [Server -> {{}} \cup {{b} : b \in Ban}]
  /\ \A s \in Server : (cur[s] # {} <=> Busy(s)) /\ (source[s] # {} <=> pc[s] = "create")
  /\ stranded \in [Server -> SUBSET Uuid] /\ dropped \in [Server -> SUBSET Uuid]

\* However polls, restarts, replaced keys and the other servers interleave, no
\* server imports a player twice under one key, unless the process was not
\* restarted after the key was replaced (a stray row).
OneRowPerServer ==
  \A s \in Server : \A q, r \in rows :
    /\ q.by = s /\ r.by = s
    /\ q.uuid = r.uuid /\ q.source = r.source
    /\ ~q.stray /\ ~r.stray
    => q = r

\* Between polls a row that a server imported, and would delete on a pardon, is
\* one whose ban it knows: a pardon will be noticed. Not so for the players whom
\* a failed decision, a failed delete or a restart has cut off from their row.
PardonsAreNoticed ==
  \A s \in Server : \A r \in rows :
    pc[s] = "idle" /\ r.by = s /\ r.source = localNode
    => r.uuid \in Uuids(known[s]) \cup stranded[s]

\* A ban that a server knows, and so will not import again, is in the banlist,
\* unless it was removed there by the administrator, by another server, or when the
\* player's ban under another name went from the file.
KnownBansAreListed ==
  \A s \in Server : \A b \in known[s] :
    \/ \E r \in rows : r.uuid = b.uuid /\ (r.source = localNode \/ r.by = s)
    \/ b.uuid \in dropped[s]

\* What the documentation says of server bans: newly banned players are brought into
\* the database. So the rows that a poll is about to delete are not those of a player
\* whose ban it has just found in the file and learnt.
SynchronizedBansStay ==
  \A s \in Server :
    pc[s] = "delete" => Uuids(cur[s]) \cap Uuids(known[s] \cap listed[s]) = {}
=============================================================================
