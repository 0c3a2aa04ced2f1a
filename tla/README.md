# UnionBan-Reforged in TLA+

UnionBan is a Go program that runs beside one or more Minecraft servers. It
follows their logs, decides with the help of a shared banlist and of other
UnionBan nodes whether a player who joins may stay, kicks those who may not, and
carries bans made on a server over to the banlist. This directory holds TLA+
models of the program, the TLC configurations that check them and proofs for
TLAPS. `PROJECT.json` maps each definition to the lines it models.

    tlasany X.tla                               parse a module
    tlc -workers 2 -config MCX.cfg MCX          check a model
    tlapm XProofs.tla                           check the proofs about X

Paths below are relative to `src/internal/` unless they say otherwise.

## Inventory

What the program consists of, the state each part keeps, what it does, what is
hard about it and what makes it correct. "Module" says where it is modelled.

| component | state | operations | module |
|---|---|---|---|
| decisions (`minecraft/service.go` decidePlayer … evaluateBanEntries) | table `player_decision_cache`, one decision in hand per monitor | look up, list rows, grade, ask peers, import their bans, store | BanPolicy, DecisionCache |
| banlist, nodes and cache tables (`database/banlist.go`, `nodes.go`, `cache.go`) | `banlist`, `nodes`, cache | create, edit, delete, version `COUNT:SUM:MAX`, clear | DecisionCache, ServerBanSync |
| policy hash (`service.go:262-290`, `cache.go`) | `metadata` row per server | compare, clear, store at each start of a monitor | PolicyHash |
| log tailer (`minecraft/log_tail.go`) | offset, beginning of a line, initialized | ReadNewLines | LogTailer, LineFeed |
| join watching (`service.go:296-500`, `players.go`) | onlinePlayers, logUUIDs of a monitor | list, read log, evaluate, kick | JoinWatch |
| import of server bans (`service.go:502-640`, `server_bans.go`) | knownServerBans of a monitor, rows of the banlist | import, clean up | ServerBanSync |
| lifecycle (`service.go:90-245, 642-850`) | config copy, run state, group of monitors, statuses | Run, ApplyConfig, CheckHealth | MonitorLifecycle |
| Minecraft settings page (`web/web.go:310-420`) | `h.config` | save, add, delete connectors | MonitorLifecycle |
| identity (`identity/service.go`, `private_key.go`, `database/identity.go`) | row `local_identity`, key and options in memory | load, create, import, protect | IdentityKeys |
| secrets, security page, config.yaml (`secrets/manager.go`, `web/web.go`, `config/config.go`) | `.env`, `config.yaml` and their copies in memory | set, generate, remove a passphrase; save; load | IdentityKeys |
| peers (`nodes/client.go`, `api/node.go`, signing in `identity/service.go`, database page of `web/web.go`) | tables `banlist` and `nodes` of each node, its key, one query per player who joins | sign, edit, delete bans; replace a key; add, edit, delete nodes; ask, answer, verify, import | BanMesh |
| RCON client (`minecraft/rcon.go`) | one connection, the next identifier | log in, run a command, once more if that failed, close | RconClient |
| login limiter (`auth/session.go`) | failures per address | allow, fail, reset | not modelled |
| ring buffer (`logs/buffer.go`) | last lines | write, list | not modelled |
| resolver, API server, templates, debug tools | none | stateless | not modelled |

How they interact. `main.go` reads `config.yaml` and `.env`, opens SQLite, loads
the identity, then starts `Service.Run` and the HTTP servers. `Run` starts a
goroutine per enabled instance (`monitorRCON`); all of them and all requests
share the database, with no transaction over two statements. A monitor calls the
RCON server (list, kick), reads the log and the ban file, asks peers over HTTP
and signs what it imports with the key of the identity service. Requests of the
web UI write the tables, change `h.config` and the files, and call
`ApplyConfig`, which replaces all monitors.

What is hard:

* every decision is several statements long, and tables change between any two;
* the cache is validated by a triple with a resolution of a second, and has no
  notion of policy or of trust in a node;
* a monitor starts from two sources, a list and a log, read one after the other;
* log files are replaced while they are read, reads fail and lines are cut;
* a node writes its bans under the key it has now and grades them by the key it
  was started with;
* what a monitor knows of imported bans is in memory, what it did is in a table
  that it shares with the administrator and other monitors;
* monitors are stopped and waited for with a mutex held, while the process may
  be told to end and a request may be queueing behind it;
* settings are copied by value but share an array;
* a row is signed in one step and named, stored, dated and passed on in others,
  by nodes whose keys and addresses change;
* one connection carries the answers to several commands, some of which nobody
  waited for;
* one secret is spread over a row, `.env` and `config.yaml`, written one after
  the other by requests that overlap, fail and get cut off.

What makes it correct, for each part, is the list of properties under "Runs".
The full list of hazards, each at its line, is in `PROJECT.json`.

## Plan

Done, in this order, the most important first:

1. **BanPolicy**, the pure part of a decision: thresholds, grading, outcome.
2. **DecisionCache**, with **DecisionCacheProofs**.
3. **PolicyHash**, with proofs in **MonitorStateProofs**.
4. **LineFeed** (abstract) and **LogTailer**, which implements it, with proofs in
   **MonitorStateProofs**.
5. **JoinWatch**, which takes the log to be such a feed.
6. **ServerBanSync**, with **ServerBanSyncProofs**.
7. **MonitorLifecycle**, with **MonitorLifecycleProofs**.
8. **IdentityKeys**, with **IdentityKeysProofs**.
9. **RconClient**, with **RconClientProofs**.
10. **BanMesh**, with **BanMeshProofs**: it puts the answering side
    (`api/node.go`) and verification behind what DecisionCache takes as a set of
    bans.
11. **JoinWatchProofs**.
12. **HitSurvivesEdits**, stated with the weakest condition the version can bear,
    and its proof, which needs the sum of a set of timestamps; **OwnBansAreHeeded**.

Nothing is left of the plan but what "Not modelled" and "Model-checked only" name.

## Modules

### BanPolicy and DecisionCache

`BanPolicy` holds `resolvePolicy`, `thresholdValue` and `evaluateBanEntries` as
operators. `DecisionCache` has the tables (`banlist`, `nodes`, `cache`), a clock
of seconds and one record per server, `mon[s]`, with the local variables of
`decidePlayer`. `mon[s].pc` names the statement that is next:

    idle -> version -> lookup -> list -> count -> save -> done
            lookup -> done                       (found in the cache)
            count -> peers -> (check -> insert)* -> list or save

Each SQL statement is one step (SQLite serialises them). The steps of the web UI
and of the ban files (`CreateBanEntry`, `UpdateBanEntry`, `DeleteBanEntry`,
`DeleteLocalBans`, `UpsertNode`, `DeleteNode` and those that clear the cache)
may come between any two, and so may a replacement of the key (`ReplaceIdentity`)
and a new start of the process (`StartAgain`). Where a statement fails there is a disjunct that does
what the error path does. The answer of a peer is any set of bans here; which
bans it can be is BanMesh's subject.

The node ID under which the web UI and the ban files write this node's bans is
that of the identity service (`identityService.Current()`; any of `keys`, for a
request may have read it before a replacement). The ID by which decisions know
them is `localNode`, the one the process started with.

Three things are kept that the program forgets. A row carries the number of the
write that made it, so that a row that was edited is told from the one it was.
An entry of the cache and a decision in hand carry `base`, the list whose
version was read, and `graded`, the rows counted with the level each counted
for; a decision has in `from` the list it was taken for, which for a hit is that
of the entry. An entry has in `self` the `localNode` of its time.
No guard reads `base` except through `BanlistCacheVersion(base)`, none reads `from`
or `self`, and `graded` stands for the counts per level that the program keeps.

### PolicyHash

One server: `config` is the policy the configuration gives it, `policy` the one
the monitor resolved when it started, `hash` the row in `metadata`, `cache` the
policy each cached decision was taken under. A start is `GetPolicyHash`,
`ClearServerCache`, `SetPolicyHash`, each of which may fail, and `Stop`
(cancelled, or the process is gone) may come after any of them.

### LineFeed and LogTailer

`LineFeed` is what the rest of the monitor expects from a log: whole lines, in
order, each once, from a place on. `LogTailer` is `ReadNewLines` in two steps
(open and measure; read), against a server that writes whole and unfinished
lines and starts new files. `ImplementsFeed` is the refinement.

### JoinWatch

One monitor, players who join, are announced in the log, leave, and are kicked.
`pc` is `off`, `seed` while the players of the list are evaluated one by one,
`loop` between reads of the log, `decide` and `kick` inside
`handleJoinedPlayer`. The answer to `list` is any part of who is online: all, none
when the command fails, some when the answer is longer than a packet, of which
the RCON client reads the first. The log is the feed: `unread` are the lines since the
place taken. Whether a player is condemned is fixed (`Condemned`): decisions are
DecisionCache's subject.

### ServerBanSync

Several monitors, `file` the bans each server lists, `rows` the rows of this
node, `known` their `knownServerBans`. `importServerBans` is `Poll`, then a ban
at a time through `import`, `create`, `decide`, and the clean-up through
`delete`. `key` is the node ID of the identity service now, `localNode` the one
the process started with.

### MonitorLifecycle

`form` is `h.config.Minecraft`, `config` is `s.config`, `data[r]` the copy
request `r` has handed to `ApplyConfig`. Each copy has the number of its array:
`append(list[:i], list[i+1:]...)` and an `append` with spare capacity change
what other copies of that array see. `lock` is `lifecycleMu`; a holder that does
not wait is not seen with it. `monitors` are the goroutines that have not
returned, each with the group it belongs to; a group is cancelled once somebody
holds the lock to stop it, or the root context is done. `RunStart`, `RunStop`,
`RunReturn` are the three parts of `Run`; `Apply` and `Restart` the two parts of
`ApplyConfig`, before and after the wait.

### IdentityKeys

`record` is the row, `envFile` and `configFile` the files, `current`, `env`,
`config` and `options` what the process holds of them in memory. Requests run
statement by statement (`pc[r]`), files are truncated and then written, any
statement may fail, and the process may be killed at any point and started
again. A start may write `.env` twice, for the token of the web UI (`main.go:71`,
`process = "token"`) and for the passphrase. `trouble` collects what the properties
except: a change of the protection that met another request (`raced`), two
replacements of the key, or a change of the protection and a replacement, that met
between the row and memory (`crossed`), a step that failed, a file left torn, a
request cut off by the end of the process.

### RconClient

One client and the server it talks to. `pc` says where `Command` is: `connect`
and `login` in `connectLocked`, `send` and `read` in `commandLocked`; `attempt`
is the loop variable. `conn` is the connection the client holds, `alive` whether
a server is still behind it, `request` and `inbox` what is on the way in either
direction. A long answer is two packets with one identifier. Requests on
connections that were closed are in `abandoned`: the server may still carry them
out. `MaxInt` takes the place of the largest `int32`, so that identifiers wrap
around within a few commands. `excused` remembers whether the command under way
met a fault on a connection opened for it.

### BanMesh

Several nodes and one player. A key stands for a key pair and its node ID (the
hash of the public key). `rows` is what each node's `banlist` has of the player,
with the signature as a record of who signed what: `key`, the `source` that was
signed, and whether player and time are still those signed (`intact`). The page
reads the node ID (`Draft`) and signs and stores later (`CreateBan`,
`UpdateBan`), with `NewKey` possibly in between. `Ask`, `Answer` or `NoAnswer`
per peer, `Check` and `Insert` per ban are `queryPeerNodesForPlayer` and
`QueryAllNodes`; `Answer` is `handlePlayerQuery` of the peer and `queryNode` of
the asker. `FetchURL`, `StoredAddress` and `QueryURL` are what becomes of an
address that an administrator types.

## Runs

All runs are listed in `PROJECT.json` with their properties. A passing run shows
that its properties hold for the instance given; a run marked "violation" shows
that what a document says of the program is not what it does.

| run | instance | shows |
|---|---|---|
| `decision_cache` | 1 server, 1 player, 1 peer, 2 keys (one is also the peer's), 2 writes, 2 seconds | `HitSurvivesEdits`: a cached decision that would be found is the one the tables give, up to named edits. `OwnBansAreHeeded`: an allow that would be found contradicts no ban of this node, however the trust in peers was changed or misread, with the key replaced and the process restarted. `NoMissedBan`: whoever the list condemns whose version was read is not let in, unless a row or its trust changed since it was counted. `KickStands`: a kick is justified when it is carried out |
| `policy_hash` | 2 players, 4 policies | `RunningPolicyDecides`, `HashVouchesForCache`: wherever a start is cut off, old decisions stay out of sight |
| `log_tailer` | 3 lines, 2 files | `ImplementsFeed`, `NothingHeldBack`, `EveryLineArrives` |
| `join_watch` | 2 players, 2 joins each | `EveryoneIsChecked`, `NoCondemnedStays`, `JoinsAreNoticed` |
| `server_bans` | 2 servers, 1 player, 2 keys | `OneRowPerServer`, `PardonsAreNoticed`, `KnownBansAreListed` |
| `monitor_lifecycle` | 2 instances, 2 requests | `OneMonitorPerInstance`, `StatusesAreCurrent`, `NoMonitorAfterRun`, `SettledAgree`; live: `ApplyReturns`, `ShutdownEnds` |
| `identity_keys` | 3 requests, 3 keys, 3 passphrases | `RestartOpensKey`, `SigningWorks`, `RecordIsCurrent`, `RandomPassphraseKept` |
| `rcon_client` | 4 commands, identifiers up to 3 | `AnswersAreOwn`, `OldFaultsAreBridged`; live: `CommandReturns` |
| `ban_mesh` | 3 nodes in a chain, 4 keys, 2 reasons, 4 forms | `VotesAreSigned`: no row counts as a ban by a node that had no part in it. `BansArrive`: what a peer signed is in the banlist after a query; live: `QueryReturns` |
| `cache_found_is_valid` | as `decision_cache`, 1 key | violated: "an existing cache entry can be considered valid" |
| `server_bans_renamed` | 1 server, 1 player with 2 names, 2 keys | violated: "Synchronize newly banned players to the local database". A player found banned under a new name is about to lose the row again |
| `mesh_rows_verify` | as `ban_mesh` | violated: "making all ban entries traceable" |

Each property names its exceptions in its comment: they are what the code does
not promise. Some of them a document or a comment denies:

* A clear of the cache that fails is followed by storing the new policy hash
  (`service.go:276`), although players are to be "re-evaluated against the new
  thresholds immediately"; `RunningPolicyDecides` excepts it.
* A player who joins between the list and the place taken in the log
  (`service.go:346`) is not evaluated, although players are checked "when they
  join"; `EveryoneIsChecked` excepts it.
* Two monitors that decide about one player both import the ban of a peer
  (`service.go:971`), although equivalent rows are looked for "to avoid
  duplicates".
* A player who is pardoned and banned again under a new name between two polls
  loses the row (`service.go:549`): the clean-up goes by name and deletes by player.
  The run `server_bans` gives each player one name, `server_bans_renamed` two.
* After the key is replaced, and until the next start, this node's new bans count as
  those of an unknown node, or of the peer whose key was imported: they are written
  under `identityService.Current()` (`service.go:629`, `web/web.go:899`) and compared
  with `localNodeID` of the start (`service.go:1065`). `OwnBansAreHeeded` speaks of
  the bans under the latter, and not of an allow cached before the start.
* A cached allow is found again after the trust in a node was changed, whenever that
  was, and after a row was written that is no later than one removed. `NoMissedBan`
  and `HitSurvivesEdits` except both, `OwnBansAreHeeded` only the second.
* An imported row is dated anew (`service.go:983`), so that it does not verify any
  more and no third node takes it: the other reason, beside the UUID as typed and
  a key replaced in between, why `RowsAreTraceable` fails. Bans travel one hop.
* A node added by its host alone is found at port 30000 (`nodes/client.go:310`), stored
  without a port (`nodes/client.go:270`) and queried at port 80 (`nodes/client.go:208`),
  although the page says "Default port is 30000 if not specified" (`database.html:213`).
  In `ban_mesh` such a node never answers.
* Nothing tells importers that a ban was deleted or edited at its source.

Why the bounds are enough. A decision is disturbed by what happens between two
of its statements, so two writes let a row be added and removed, or two be
swapped, within one decision and within one second; a third second adds no new
order of timestamps to two writes. (It takes three writes for SUM to tell lists
apart that MAX does not: two rows, of which the older is replaced by one as new as the
other. The theorem covers that.) One player does: what is decided about another
player meets a decision only in the version of the banlist, which any row of one's own
moves as well, and the theorems are about any players. The second key is also
the peer's, so that a ban of either counts at each of the levels own, known and unknown,
and there is a start between them. The policy hash is compared for equality only, two texts
and two limits give every pattern of equal and different. Two files and three
lines have a line before, across and after a replacement. Two joins of one
player are a session, its end, and one that could be taken for it. Two servers
with one player meet in the rows of that player, and servers do nothing together
otherwise; with two keys there is one replacement, with and without a restart
after it. Two requests and `Run` compete for a mutex with one waiter behind
another; each request makes one change, so there are no more than three groups.
Three requests on the identity let one overlap two others.
Four commands let a rest of an answer, a dead connection and a wrapped
identifier meet in one command. In the chain of `ban_mesh` a middle node imports
and passes on; a spare key lets one be replaced, and the first key of one node may
move to another; four forms are a node added on both sides, a ban and one change. Where a bound stops a
counter (`MaxWrites`, `MaxTime`, `MaxLines`, `MaxFiles`, `MaxPending`,
`MaxSessions`, `MaxRows`, `MaxCommands`, `MaxForms`) it is in the guard of the action that would pass it.

`CHECK_DEADLOCK FALSE` stands where the system may stop: when the bounds are
used up, every request is done or the process has ended.

Symmetry is used in runs without liveness properties only, over sets whose
members no constant tells apart.

### Fairness

* LogTailer: the ticker polls for as long as the monitor runs (weak fairness of
  `Poll`), and reads do not fail for ever (strong fairness of `ReadNewLines`,
  which failing reads may disable again and again).
* JoinWatch: the goroutine of a monitor goes on (weak fairness of its steps).
  Players need not do anything.
* MonitorLifecycle: goroutines run (weak fairness of the steps of `Run` and of
  requests that have begun). A mutex of Go hands itself to a waiter that has
  starved for a millisecond, so taking it is strongly fair. A `select` with a
  done context and a tick to choose from picks at random, so a cancelled monitor
  returns sooner or later (weak fairness of returning, per monitor). No request
  has to begin, no save has to succeed, no monitor has to poll or give up.
* RconClient: the goroutine in `Command` goes on (weak fairness of its steps): every
  read and write has a deadline, after which it fails. The server need not do
  anything.
* BanMesh: a query goes on (weak fairness of its steps, per asker): after five
  seconds the waiting ends, and the loop over the answers is finite. No peer has to
  answer and nobody has to join.

## Proofs

TLAPS proves the following for all values of the constants under the named
assumptions of the modules (finite sets of what is finite; the policies are
policies). The values that the runs give to bounds are not used: `MaxWrites`,
`MaxRows` and the like are any number.

**DecisionCache** (`DecisionCacheProofs`). `TypeCorrect`; `Invariance` of
`IInv`; from it `HitsSurviveEdits`, `OwnBansHeeded`, `NoBanIsMissed` and
`KicksStand`. The properties speak of what a decision says now; no step keeps
them by itself, for a decision is judged by tables that are changing. `IInv`
says what it rests on instead: those rows of the list whose version was read
that are still in the table are counted or still to be counted (for an entry that was
found, those of the list it was stored for, which `from` keeps), and a row that
has left never comes back (rows carry the number of their write, and the next
number is unused). A step of a monitor moves rows from "to be counted" to
"counted"; any other step can only make rows leave (`OldRowsStayGone`,
`MonitorKept`, `EntryKept`). A start drops the decisions in hand and leaves the
entries as they are. That counting more rows never turns a kick into an
allow (`MoreRowsMeetMore`) then gives `NoMissedBan` and `KickStands`. A hit is covered
by `NoMissedBan` because equal versions of lists that pass `Later` are equal lists.

The properties about entries that would be found need to know what equal
versions say (`VersionTellsApart`). Take away the rows both lists have: if COUNT
and SUM agree, as many rows went as came, with the same sum of `updated_at`. If
each that came is later than each that went, a pairing of the two makes the sum
of the new ones greater, unless there are none. So the lists are equal. MAX adds
nothing to this argument. What breaks the condition is a row replaced by another
of the same second, which brings the old triple back, a clock that was set back,
and a request that took its time long before it wrote. The run
`cache_found_is_valid` shows the other exception of `HitSurvivesEdits`: there the
lists are the same, but a ban that was imported and counted in between is gone.

The sum is a fold. It is proved to be a number of pairs, one per second of each row
(`SumIsCount`), and pairs are counted with the theorems about cardinality. The library
states induction with an operator in the place of the predicate, which the provers
cannot instantiate; `GrowingSets` states it with a family of sets, and has it from
the fact that strict inclusion of finite sets is well-founded. Counting satisfies
the equation of the fold, so a function that satisfies it exists, and by
`GrowingSets` it is the only one.

`OwnBansAreHeeded` has no exception for changes of trust or for levels misread. It
needs that a row under the ID of the process is never counted below "ultimate",
whatever the nodes table says, even when a peer has that ID (`OwnLevelsKept`). An
entry keeps that for the ID of its own time (`self`), which is why an allow from
before a start under another key is excepted.

**PolicyHash** (`MonitorStateProofs`). `CacheFollowsPolicy` and `HashVouches` from
`PolicyInv`, which adds that a monitor past the comparison has either cleared the
cache or found its own hash. (The module extends LogTailer too, so the names of
PolicyHash begin with `Policy` where they would meet.)

**LogTailer** (`MonitorStateProofs`). `TypeCorrect`, `AllIsHandedOut` and the
refinement, `FollowsTheLog`: `Spec => ImplementsFeed`. The first half is about
sequences. What is complete and what is left after `a \o b` is known from `a` and
from what is left of it (`CompleteConcat`, `RestSuffices`): that is why `pending`
is all the tailer has to keep between two reads. It is proved without induction:
the n-th line is the one whose end has n - 1 ends before it, so lines are counted
by cardinality (`RankFacts`, `ConcatRank`). The second half is `IInv`: a file that
is open is the file of the place, `pending` holds no end of a line, and unless the
place is lost, `given` is `Complete` and `pending` is `Rest` of what was read since
the place was taken (`NothingHeldBack`, which is inductive only with the others). A
read then adds `Complete(pending \o text)` to `given`, which is what
`CompleteConcat` says the longer text has more. A read at a lost place that comes
past an end finds the place again (`PlaceFound`). Each step of the detailed
specification is a step of LineFeed (`ServerFeeds`, `ReadFeeds`, `TailerFeeds`) or a
stutter; that what the server appends is one more `Line` needs the order of pieces
in a file (`WellFormed`, `CompleteLines`). TLC has checked `IInv` on the instance of
the run `log_tailer`.

**ServerBanSync** (`ServerBanSyncProofs`). `TypeCorrect`, `RowsAreSingle`,
`PardonsNoticed` and `KnownAreListed` from `IInv`, which says the same five things of
each server: it has one row per player and key, stray ones
aside (`OneRow`), no ban of the poll under
way is known under its name already (`TodoInv`), it has no row of the player it is
about to create one for (`CreateInv`), whatever it imported is known, stranded or in
hand (`CaredInv`), and whatever it relies on is in the banlist or was dropped from it
(`HoldingInv`).
The servers share the table without a transaction. That this does no harm to one of
them is one lemma, `BystanderInv`: a step of another server adds rows in its own
name only, and a removal is remembered in `dropped`. So each action is looked at for
the server that takes it.
The proofs make no assumption about names: a player may have any number of them, so
they cover the case that `server_bans_renamed` shows, as far as the four properties
go.

**IdentityKeys** (`IdentityKeysProofs`). `TypeCorrect`, `RestartOpens`,
`SigningAlwaysWorks`, `RecordCurrent` and `RandomKept` from `IInv`. Row, `.env` and
`config.yaml` are written by separate statements of requests that overlap, so the
parts of `IInv` say under which trouble they hold. A change of the protection that
met no other request is alone (`AloneInv`), and then the passphrase, settings and
options that others have read and hold are still the current ones (`HeldInv`). Two
replacements that did not cross are one, and it writes the row before memory
(`ReplaceInv`); a change of the protection boxes the key in memory, so it keeps the
node ID of the row as long as it did not meet a replacement there. What it does to the
box may reach memory and not the row, when the save fails: hence the two parts of
`RecordIsCurrent`. As long as nothing failed, was raced or cut off (`CleanInv`), the key
is boxed as the options say, memory and files agree but for what a request is about
to write (`MemoryAgrees`), and a change of the protection has got as far as its next
statement says (`Progress`); so a process that ends between requests leaves files that
open the key (`FilesOpen`). A passphrase made by `EnsureRandom` needs less: no file
torn and no race (`RandomInv`), for it is written to `.env` before anything is boxed
with it.

**MonitorLifecycle** (`MonitorLifecycleProofs`). `TypeCorrect`,
`NoInstanceWatchedTwice`, `NoLateReports`, `NobodyOutlivesRun` and
`SettingsAgree` from `IInv`. That groups do not overlap rests on the lock: who
waits for a group holds it (`LockInv`), nobody starts a group without having
waited, so a new group begins with no monitor left (`MonitorsInv`), all monitors
there are belong to the latest group, and so do their reports. Within one group,
two monitors of one instance would come from an instance listed twice; a list
has none as long as nobody wrote to its array under it (`CopiesInv`, with
`AddedConnector`, `DeletedConnector` and `RewrittenCopy` about the sequences).
`AloneInv` follows a request that meets no other from its change of the settings
to their application. `FreshArrayExists` shows that the numbers given to arrays
suffice, by counting.

**RconClient** (`RconClientProofs`). `TypeCorrect`, `AnswersOwn` and
`OldFaultsBridged` from `IInv`. Identifiers repeat after the wrap-around, so that
an old packet could carry the identifier of a new request. It does not get there:
packets left on a connection are answers to the last request on it (`RestInv`),
the next identifier differs from the last (`MaxInt > 1`), so the next read fails
and the connection is closed with everything on it; a second attempt is on a
connection opened for it (`AttemptInv`).

**BanMesh** (`BanMeshProofs`). `TypeCorrect`, `VotesSigned` and `BansDoArrive`
from `IInv`. `QuerySigned` says of the bans in a query what `VotesAreSigned`
says of rows; `DueInv` says that what a query owes is in the banlist, in `todo`
or in `chosen`, which is all that `BansArrive` needs at its end
(`OwnVotesAccepted`: what a peer signed under the key by which it is known is
accepted).

**JoinWatch** (`JoinWatchProofs`). `TypeCorrect`, `JoinersAreChecked` and
`CondemnedAreKicked` from `IInv`. The properties speak of a log read to its end;
`IInv` says what the lines still unread owe. A join that was announced is in the
list, in the log, under evaluation or done (`AnnouncedInv`). It could only be
passed over if its player's name were still in the map from an earlier stay, and
then the leave of that stay, which takes the name out, is ahead (`TrackedInv`) and
comes before the join (`OrderInv`). For that to stay true when a join of an old
stay is read late, its leave must be ahead too (`LineInv`). Both are stated with
`Coming(p)`, the stay that the next join of `p` announces: joining does not change
it, going offline does, and either writes the leave or happens where the exceptions
of the property say so.

Model-checked only: everything live (`EveryLineArrives`, `JoinsAreNoticed`,
`ApplyReturns`, `ShutdownEnds`, `CommandReturns`, `QueryReturns`), for it needs
`ENABLED`, which is out of the prover's reach. All other properties of the passing
runs are proved.

## Abstractions

* A statement of SQLite is atomic and durable when it returns.
* Data is as small as the properties allow: a player is a UUID, a log line says
  who came or left, a policy is its texts and its limits, a key is its node ID.
  That the lines, files and forms are parsed right is not modelled.
* Cryptography is taken for granted: a box opens with its passphrase and with no
  other, and two policies do not hash alike.
* Reading or assigning a copy of the settings is one step in MonitorLifecycle.
  In the code it is a copy of a struct without a lock, which the race detector
  would report.
* `config.yaml` has no two connectors with one ID when the process starts; the
  form refuses such.
* Secrets come from `.env`; that the environment of the process may provide them
  is left out.
* `main` does not wait for `Run` at shutdown; MonitorLifecycle follows
  `Run` to its end, and IdentityKeys lets the process die at any point.
* In BanMesh there is one player, rows that differ in nothing modelled are one row,
  reasons that differ only in case are one reason, the fields for address and IP
  of a node are one, and a node prepares one ban at a time. Trust is
  DecisionCache's subject, and so is when the peers are asked: BanMesh asks them
  at any time. Certificates are made with the key they name and verify.
* A connection in RconClient has one request at most that the server has not
  seen, for the client waits or closes. Answers have at most two packets. A name cut
  off at the end of a list counts as a player not listed.
* The decision after an import (ServerBanSync) and the evaluation of a player
  (JoinWatch) succeed or fail as a whole: DecisionCache has their steps.
* PolicyHash and DecisionCache treat the policy separately: DecisionCache's is
  fixed, for a monitor never changes its own.

## Not modelled

`PROJECT.json` lists every component with its status. Left out for good:
routing, middleware, templates, static files, sessions (signed cookies without
state), the login limiter and the ring buffer (one sequential operation under a
mutex each), the UUID resolver (a lookup with retries), searching and paging, the
debug tools.
