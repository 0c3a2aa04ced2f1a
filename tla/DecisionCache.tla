--------------------------- MODULE DecisionCache ---------------------------
(***************************************************************************)
(* Every server monitor decides whether a player may stay by running       *)
(* decidePlayer: read the banlist version, look the decision up in         *)
(* player_decision_cache under that version, and on a miss list the        *)
(* player's rows, grade each one by the trust of its source, ask the peers *)
(* if the local rows do not condemn the player, and store the result under *)
(* the version read at the start.  Each SQL statement is one step, because *)
(* nothing holds a transaction across two of them: the monitors of the     *)
(* other servers and the web UI write the same tables in between.          *)
(*                                                                         *)
(* A row carries the number of the INSERT or UPDATE that wrote it (the     *)
(* field "write"), so a row that was removed or edited never comes back:   *)
(* the code has AUTOINCREMENT ids, and an edit keeps the id but makes      *)
(* another row of it.  A monitor and a cache entry hold, in "base", the    *)
(* banlist whose version was read; the program holds only the triple       *)
(* BanlistCacheVersion(base), and only triples are compared.  "graded"     *)
(* remembers the rows that were counted, each with the level it counted    *)
(* for, where the program keeps the counts.                                *)
(*                                                                         *)
(* The node has two names.  Its own bans are written under the node ID of  *)
(* the identity service, and graded by the ID the process was started with *)
(* (localNode).  Replacing the key changes the first at once, the second   *)
(* with the next start: bans written in between are those of an unknown    *)
(* node, or of a peer when a peer has that ID.  "keys" are the IDs the     *)
(* identity service has had since the start; a request may have read any   *)
(* of them before it writes its row.                                       *)
(***************************************************************************)
EXTENDS BanPolicy, FiniteSetsExt

CONSTANTS
  Server,         \* Minecraft instances with a running monitor
  Player,         \* player UUIDs
  Node,           \* peers that may be in the nodes table
  Key,            \* node IDs this node may have, those of peers among them
  Reason,         \* ban reasons
  AssignedLevel,  \* levels the administrator gives to peers
  BasePolicy,     \* minecraft.default_policy
  Override,       \* the policy section of each instance
  MaxWrites,      \* bound: rows ever written to the banlist
  MaxTime         \* bound: the wall clock, in seconds

ASSUME ConstantsAssumption ==
  /\ AssignedLevel \subseteq Level
  /\ IsPolicy(BasePolicy)
  /\ \A s \in Server : IsPolicy(Override[s])
  /\ MaxWrites \in Nat
  /\ MaxTime \in Nat \ {0}

VARIABLES
  banlist,   \* the rows of table banlist
  writes,    \* how many rows were ever written
  clock,     \* time.Now().Unix()
  nodes,     \* table nodes: the trust level of each peer, or "absent"
  cache,     \* table player_decision_cache, keyed by server and player
  keys,      \* the node IDs of identityService.Current() since the start
  localNode, \* localNodeID, captured when the process started
  mon        \* the decision each server's monitor is taking

vars == <<banlist, writes, clock, nodes, cache, keys, localNode, mon>>

Source == Node \cup Key
PeerBan == [source : Node, reason : Reason]
Row == [player : Player, source : Source, reason : Reason, at : Nat, write : Nat]
Thresholds(s) == ResolvePolicy(BasePolicy, Override[s])
LevelOf(row) == TrustLevelForBan(localNode, nodes, row.source)
RowsOf(rows, p) == {r \in rows : r.player = p}

SumAt(rows) == MapThenSumSet(LAMBDA r : r.at, rows)
MaxAt(rows) == IF rows = {} THEN 0 ELSE Max({r.at : r \in rows})

CountOnlyVersion(rows) == [count |-> Cardinality(rows)]

\* COUNT(*), SUM(updated_at) and MAX(updated_at) of the whole table.
BanlistCacheVersion(rows) ==
  [count |-> Cardinality(rows), sum |-> SumAt(rows), max |-> MaxAt(rows)]

NoEntry == [found |-> FALSE]
EntryUnderLatestVersion(m) ==
  [found |-> TRUE, base |-> banlist, graded |-> m.graded, outcome |-> m.outcome,
   self |-> localNode]

\* A cache row: the list its version stands for, the decision and its grounds, and
\* the ID by which the process knew its own bans.
Entry(m) == [found |-> TRUE, base |-> m.base, graded |-> m.graded,
             outcome |-> m.outcome, self |-> localNode]

Control == {"idle", "version", "lookup", "list", "count", "peers", "check",
            "insert", "save", "done"}
Idle(p) == [pc |-> "idle", player |-> p, base |-> {}, from |-> {}, todo |-> {},
            graded |-> {}, asked |-> FALSE, queue |-> {}, pending |-> {}, stored |-> FALSE, now |-> 0, outcome |-> "none"]

Init ==
  /\ banlist = {}
  /\ writes = 0
  /\ clock = 1
  /\ nodes \in [Node -> AssignedLevel \cup {"absent"}]
  /\ cache = [s \in Server |-> [p \in Player |-> NoEntry]]
  /\ localNode \in Key /\ keys = {localNode}
  /\ \E p \in Player : mon = [s \in Server |-> Idle(p)]

-----------------------------------------------------------------------------
(* decidePlayer, one action per statement.                                 *)

identity == <<keys, localNode>>
tables == <<banlist, writes, clock, nodes, cache, identity>>

\* A join, or a ban just imported from the server, asks for a decision.
Begin(s, p) ==
  /\ mon[s].pc = "idle"
  /\ mon' = [mon EXCEPT ![s] = [Idle(p) EXCEPT !.pc = "version"]]
  /\ UNCHANGED tables

ReadVersion(s) ==
  /\ mon[s].pc = "version"
  /\ mon' = [mon EXCEPT ![s].pc = "lookup", ![s].base = banlist,
                            ![s].from = banlist]
  /\ UNCHANGED tables

MatchesAnyVersion(c, base) == c.found

\* The SELECT of GetPlayerDecisionCache: the row of this server and player, if
\* it was stored under the version in hand.
Matches(c, base) == c.found /\ BanlistCacheVersion(c.base) = BanlistCacheVersion(base)

\* The decision is the one taken for the list that the entry was stored for, which
\* "from" keeps beside the list whose version was read.
LookupHit(s) ==
  LET m == mon[s]
      c == cache[s][m.player]
  IN  /\ m.pc = "lookup"
      /\ Matches(c, m.base)
      /\ mon' = [mon EXCEPT ![s].pc = "done", ![s].outcome = c.outcome,
                            ![s].from = c.base, ![s].graded = c.graded]
      /\ UNCHANGED tables

LookupMiss(s) ==
  /\ mon[s].pc = "lookup"
  /\ ~Matches(cache[s][mon[s].player], mon[s].base)
  /\ mon' = [mon EXCEPT ![s].pc = "list"]
  /\ UNCHANGED tables

\* ListBanEntriesByPlayerUUID, before and again after the peers are asked.
ListRows(s) ==
  /\ mon[s].pc = "list"
  /\ mon' = [mon EXCEPT ![s].pc = "count", ![s].graded = {},
                        ![s].todo = RowsOf(banlist, mon[s].player)]
  /\ UNCHANGED tables

\* A GetNode that fails, for whatever reason, leaves the row "unknown".
ReadableLevels(r) ==
  IF r.source = localNode THEN {"ultimate"} ELSE {LevelOf(r), "unknown"}

\* evaluateBanEntries looks the source of every row up in a statement of its own.
CountRow(s) ==
  /\ mon[s].pc = "count"
  /\ \E r \in mon[s].todo : \E l \in ReadableLevels(r) :
       mon' = [mon EXCEPT ![s].todo = @ \ {r},
                          ![s].graded = @ \cup {[row |-> r, level |-> l]}]
  /\ UNCHANGED tables

VerdictOfDefaultPolicy(s) ==
  EvaluateBanEntries(ResolvePolicy(BasePolicy, BasePolicy), mon[s].graded)

Verdict(s) == EvaluateBanEntries(Thresholds(s), mon[s].graded)

\* The local rows do not condemn the player: the peers come next, once.
AskPeers(s) ==
  /\ mon[s].pc = "count" /\ mon[s].todo = {}
  /\ Verdict(s) = "none" /\ ~mon[s].asked
  /\ mon' = [mon EXCEPT ![s].pc = "peers", ![s].asked = TRUE,
                        ![s].outcome = "none"]
  /\ UNCHANGED tables

Decide(s) ==
  /\ mon[s].pc = "count" /\ mon[s].todo = {}
  /\ Verdict(s) # "none" \/ mon[s].asked
  /\ mon' = [mon EXCEPT ![s].pc = "save", ![s].outcome = Verdict(s)]
  /\ UNCHANGED tables

\* Any of the known peers may answer before the 5 s are over, each with entries
\* whose signature holds; no answer, no peers and a failed ListNodes look alike.
PeersAnswer(s) ==
  /\ mon[s].pc = "peers"
  /\ \E answer \in SUBSET {b \in PeerBan : nodes[b.source] # "absent"} :
       mon' = [mon EXCEPT ![s].pc = "check", ![s].queue = answer, ![s].now = clock]
  /\ UNCHANGED tables

Equivalent(r, p, b) == r.player = p /\ r.source = b.source /\ r.reason = b.reason

\* hasEquivalentBanEntry: the entry is dropped when an equivalent row is listed.
SkipKnown(s) ==
  /\ mon[s].pc = "check"
  /\ \E b \in mon[s].queue :
       /\ \E r \in banlist : Equivalent(r, mon[s].player, b)
       /\ mon' = [mon EXCEPT ![s].queue = @ \ {b}]
  /\ UNCHANGED tables

\* An entry without an equivalent row is next to be inserted.
FoundNew(s) ==
  /\ mon[s].pc = "check"
  /\ \E b \in mon[s].queue :
       /\ ~\E r \in banlist : Equivalent(r, mon[s].player, b)
       /\ mon' = [mon EXCEPT ![s].pc = "insert", ![s].pending = {b}, ![s].queue = @ \ {b}]
  /\ UNCHANGED tables

\* The list failed, which hasEquivalentBanEntry reports as "no equivalent row".
CheckFails(s) ==
  /\ mon[s].pc = "check"
  /\ \E b \in mon[s].queue :
       mon' = [mon EXCEPT ![s].pc = "insert", ![s].pending = {b}, ![s].queue = @ \ {b}]
  /\ UNCHANGED tables

Write(p, source, reason, at) ==
  [player |-> p, source |-> source, reason |-> reason, at |-> at, write |-> writes]

InsertPeerBan(s) ==
  /\ mon[s].pc = "insert"
  /\ writes < MaxWrites
  /\ \E b \in mon[s].pending :
       banlist' = banlist \cup
                    {Write(mon[s].player, b.source, b.reason, mon[s].now)}
  /\ writes' = writes + 1
  /\ mon' = [mon EXCEPT ![s].pc = "check", ![s].pending = {}, ![s].stored = TRUE]
  /\ UNCHANGED <<clock, nodes, cache, identity>>

\* CreateBanEntry failed: logged, and the next entry follows.
InsertFails(s) ==
  /\ mon[s].pc = "insert"
  /\ mon' = [mon EXCEPT ![s].pc = "check", ![s].pending = {}]
  /\ UNCHANGED tables

\* All answers handled: list again if a row was stored, else keep the verdict.
PeersDone(s) ==
  /\ mon[s].pc = "check" /\ mon[s].queue = {}
  /\ mon' = [mon EXCEPT ![s].pc = IF mon[s].stored THEN "list" ELSE "save",
                        ![s].stored = FALSE, ![s].now = 0]
  /\ UNCHANGED tables

Save(s) ==
  /\ mon[s].pc = "save"
  /\ cache' = [cache EXCEPT ![s][mon[s].player] = Entry(mon[s])]
  /\ mon' = [mon EXCEPT ![s].pc = "done", ![s].asked = FALSE]
  /\ UNCHANGED <<banlist, writes, clock, nodes, identity>>

\* handleJoinedPlayer acts on the decision and the monitor moves on.
Return(s) ==
  /\ mon[s].pc = "done"
  /\ mon' = [mon EXCEPT ![s] = Idle(mon[s].player)]
  /\ UNCHANGED tables

\* A statement returns an error, or the monitor is stopped: no decision is taken
\* and what was stored so far stays.
Abort(s) ==
  /\ mon[s].pc \notin {"idle", "done"}
  /\ mon' = [mon EXCEPT ![s] = Idle(mon[s].player)]
  /\ UNCHANGED tables

-----------------------------------------------------------------------------
(* The other writers of the tables, and of the identity.                   *)

others == <<clock, nodes, cache, identity, mon>>

\* The administrator or a server's ban file adds a ban of this node; its node ID
\* and updated_at were taken when the request started.
CreateBanEntry(p, source, reason, at) ==
  /\ writes < MaxWrites /\ at <= clock
  /\ banlist' = banlist \cup {Write(p, source, reason, at)}
  /\ writes' = writes + 1
  /\ UNCHANGED others

\* An edit makes the row one of this node, with its own time of request.
UpdateBanEntry(r, p, source, reason, at) ==
  /\ writes < MaxWrites /\ at <= clock
  /\ banlist' = (banlist \ {r}) \cup {Write(p, source, reason, at)}
  /\ writes' = writes + 1
  /\ UNCHANGED others

DeleteBanEntry(r) ==
  /\ banlist' = banlist \ {r}
  /\ UNCHANGED <<writes, others>>

\* A pardon seen in a server's ban file removes the player's rows of this node, by
\* the ID of the start.
DeleteLocalBans(p) ==
  /\ banlist' = {r \in banlist : ~(r.player = p /\ r.source = localNode)}
  /\ UNCHANGED <<writes, others>>

DeletePlayerDecisionCache(s, p) ==
  /\ cache' = [cache EXCEPT ![s][p] = NoEntry]
  /\ UNCHANGED <<banlist, writes, clock, nodes, identity, mon>>

ClearServerPlayerDecisionCache(s) ==
  /\ cache' = [cache EXCEPT ![s] = [p \in Player |-> NoEntry]]
  /\ UNCHANGED <<banlist, writes, clock, nodes, identity, mon>>

ClearAllPlayerDecisionCache ==
  /\ cache' = [s \in Server |-> [p \in Player |-> NoEntry]]
  /\ UNCHANGED <<banlist, writes, clock, nodes, identity, mon>>

\* A peer that is added again starts from "unknown"; an edit gives any level.
UpsertNode(n, level) ==
  /\ nodes' = [nodes EXCEPT ![n] = level]
  /\ UNCHANGED <<banlist, writes, clock, cache, identity, mon>>

DeleteNode(n) ==
  /\ nodes[n] # "absent"
  /\ nodes' = [nodes EXCEPT ![n] = "absent"]
  /\ UNCHANGED <<banlist, writes, clock, cache, identity, mon>>

Tick ==
  /\ clock < MaxTime
  /\ clock' = clock + 1
  /\ UNCHANGED <<banlist, writes, nodes, cache, identity, mon>>

\* CreateNewIdentity, or ImportKeyPairJSON with a key exported before, here or on
\* a peer.
ReplaceIdentity(k) ==
  /\ keys' = keys \cup {k}
  /\ UNCHANGED <<banlist, writes, clock, nodes, cache, localNode, mon>>

\* The process is started again: its decisions are lost, and it takes the name of
\* its present key, which may be any that it had, for an exported one can be had back.
StartAgain(k) ==
  /\ k \in keys
  /\ localNode' = k /\ keys' = {k}
  /\ mon' = [s \in Server |-> Idle(mon[s].player)]
  /\ UNCHANGED <<banlist, writes, clock, nodes, cache>>

-----------------------------------------------------------------------------
MonitorStep(s) ==
  \/ \E p \in Player : Begin(s, p)
  \/ ReadVersion(s) \/ LookupHit(s) \/ LookupMiss(s) \/ ListRows(s)
  \/ CountRow(s) \/ AskPeers(s) \/ Decide(s)
  \/ PeersAnswer(s) \/ SkipKnown(s) \/ FoundNew(s) \/ CheckFails(s)
  \/ InsertPeerBan(s) \/ InsertFails(s) \/ PeersDone(s)
  \/ Save(s) \/ Return(s) \/ Abort(s)

BanlistEdit ==
  \/ \E p \in Player, source \in keys, reason \in Reason, at \in 1..MaxTime :
       \/ CreateBanEntry(p, source, reason, at)
       \/ \E r \in banlist : UpdateBanEntry(r, p, source, reason, at)
  \/ \E r \in banlist : DeleteBanEntry(r)
  \/ \E p \in Player : DeleteLocalBans(p)

CacheEdit ==
  \/ \E s \in Server, p \in Player : DeletePlayerDecisionCache(s, p)
  \/ \E s \in Server : ClearServerPlayerDecisionCache(s)
  \/ ClearAllPlayerDecisionCache

NodeEdit ==
  \E n \in Node :
    DeleteNode(n) \/ \E level \in AssignedLevel \cup {"unknown"} : UpsertNode(n, level)

Next ==
  \/ \E s \in Server : MonitorStep(s)
  \/ BanlistEdit
  \/ CacheEdit
  \/ NodeEdit
  \/ \E k \in Key : ReplaceIdentity(k) \/ StartAgain(k)
  \/ Tick

Spec == Init /\ [][Next]_vars

-----------------------------------------------------------------------------
(* Properties.                                                             *)

Graded == [row : Row, level : Level]
CacheEntry == [found : {TRUE}, base : SUBSET Row, graded : SUBSET Graded,
               outcome : Outcome, self : Key]
Monitor == [pc : Control, player : Player, base : SUBSET Row, from : SUBSET Row,
            todo : SUBSET Row, graded : SUBSET Graded, asked : BOOLEAN,
            queue : SUBSET PeerBan, pending : SUBSET PeerBan, stored : BOOLEAN,
            now : Nat, outcome : Outcome]

\* Every variable holds what its table or local variable in the code can hold.
TypeOK ==
  /\ banlist \in SUBSET Row
  /\ writes \in Nat
  /\ clock \in Nat
  /\ nodes \in [Node -> Level \cup {"absent"}]
  /\ cache \in [Server -> [Player -> CacheEntry \cup {NoEntry}]]
  /\ keys \in SUBSET Key
  /\ localNode \in Key
  /\ mon \in [Server -> Monitor]

GradeAll(rows) == {[row |-> r, level |-> LevelOf(r)] : r \in rows}
Judge(s, rows) == EvaluateBanEntries(Thresholds(s), GradeAll(rows))

\* Every row counted is still there and its source has the level it counted for.
\* A level that could not be read, and was taken for "unknown", does not stand if
\* the source has another.
Stands(graded) == \A g \in graded : g.row \in banlist /\ g.level = LevelOf(g.row)

WouldHit(c) == Matches(c, banlist)

\* Every row that only the later list has is newer, by updated_at, than every row
\* that only the earlier one has.  So it is if no row went.
Later(earlier, later) ==
  \A new \in later \ earlier : \A gone \in earlier \ later : new.at > gone.at

EditsAreLater(base) == Later(base, banlist)

\* A cached decision that would be found now is the decision the current tables
\* give, as long as no row it rests on was edited, removed, re-graded or graded
\* blindly since: bans added by anyone, between any two statements of decidePlayer
\* (its own peer imports included, stored under the older version), never make it
\* stale, nor do rows edited and removed while each new row is later than those gone.
HitSurvivesEdits ==
  \A s \in Server, p \in Player :
    LET c == cache[s][p]
    IN  WouldHit(c) /\ Stands(c.graded) /\ EditsAreLater(c.base)
          => c.outcome = Judge(s, RowsOf(banlist, p))

\* An allow that would be found lets nobody in whom the bans of this node condemn,
\* however the trust in peers was changed or misread, unless since the list it was
\* taken for a row was written that is not later than every row that went.  Bans of
\* this node are those under the ID the process was started with, as it was when
\* the allow was taken: bans written after a replacement of the key do not count
\* as its own before the next start, nor in an allow from before that start.
OwnBansAreHeeded ==
  \A s \in Server, p \in Player :
    LET c == cache[s][p]
        own == {r \in RowsOf(banlist, p) : r.source = localNode}
    IN  WouldHit(c) /\ c.self = localNode /\ EditsAreLater(c.base) /\ c.outcome = "none"
          => Judge(s, own) = "none"

\* A player whom the list condemns whose version the check began with is not let in,
\* unless a row that counts was edited or removed, or the trust in its source was
\* changed or misread, since it was counted; a start under another key changes the
\* trust in the bans of either key.  A decision from the cache was counted when it
\* was stored.  Excepted as well is one that is found although, since it was stored,
\* a row was written that is not later than every row that went (Later).
NoMissedBan ==
  \A s \in Server :
    LET m == mon[s]
        condemning == RowsOf(m.base, m.player)
        counted == {g \in m.graded : g.row \in condemning}
    IN  m.pc = "done" /\ m.outcome = "none" /\ Later(m.from, m.base)
          /\ condemning \subseteq banlist /\ Stands(counted)
          => Judge(s, condemning) = "none"

\* A player told to leave is one whom the current tables condemn, unless a row
\* that counted was edited, removed, re-graded or misread between the count, which
\* an entry of the cache remembers, and the kick.
KickStands ==
  \A s \in Server :
    LET m == mon[s]
    IN  m.pc = "done" /\ m.outcome # "none" /\ Stands(m.graded)
          => Judge(s, RowsOf(banlist, m.player)) # "none"


-----------------------------------------------------------------------------
(* The inductive invariant behind the properties: what a decision rests on *)
(* is the list its version was read from, as far as that list still stands.*)

Counted(graded) == {g.row : g \in graded}

\* A row that is gone cannot come back, for the next write has another number.
Written(rows) == \A r \in rows : r.write < writes
BanlistInv == IsFiniteSet(banlist) /\ Written(banlist)

\* The rows of the list in hand that are still in the table are being counted.
MonitorInv(s) ==
  LET m == mon[s]
      left == RowsOf(m.base, m.player) \cap banlist
  IN  /\ IsFiniteSet(m.base) /\ Written(m.base)
      /\ IsFiniteSet(m.todo) /\ IsFiniteSet(m.graded)
      /\ \A r \in m.todo \cup Counted(m.graded) : r.player = m.player
      /\ m.pc = "count" => left \subseteq m.todo \cup Counted(m.graded)
      /\ m.pc \in {"peers", "check", "insert", "save"} => left \subseteq Counted(m.graded)
      /\ m.pc \in {"peers", "check", "insert", "save", "done"} => m.outcome = Verdict(s)
      /\ m.pc = "done" /\ Later(m.from, m.base) => left \subseteq Counted(m.graded)

EntryInv(s, p) ==
  LET c == cache[s][p]
  IN  c.found =>
        /\ IsFiniteSet(c.base) /\ Written(c.base) /\ IsFiniteSet(c.graded)
        /\ \A r \in Counted(c.graded) : r.player = p
        /\ RowsOf(c.base, p) \cap banlist \subseteq Counted(c.graded)
        /\ c.outcome = EvaluateBanEntries(Thresholds(s), c.graded)

\* Rows under the ID of the process are counted as "ultimate", whatever the nodes
\* table says.
OwnAreUltimate(graded, self) ==
  \A g \in graded : g.row.source = self => g.level = "ultimate"

IInv ==
  /\ TypeOK
  /\ BanlistInv
  /\ \A s \in Server : mon[s].pc # "done" => OwnAreUltimate(mon[s].graded, localNode)
  /\ \A s \in Server, p \in Player :
       cache[s][p].found => OwnAreUltimate(cache[s][p].graded, cache[s][p].self)
  /\ \A s \in Server : MonitorInv(s)
  /\ \A s \in Server, p \in Player : EntryInv(s, p)
=============================================================================
