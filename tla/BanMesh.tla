------------------------------ MODULE BanMesh ------------------------------
(***************************************************************************)
(* What the nodes of the mesh tell each other about one player.  Every     *)
(* node signs the bans its administrator types, serves all rows of its     *)
(* banlist, and asks the nodes it knows when a player joins: each answer   *)
(* is verified against the public key in the nodes table, and what passes  *)
(* is stored under the node ID that belongs to that key.                   *)
(*                                                                         *)
(* A node ID is the hash of a public key, so a member of Key stands for a  *)
(* key pair and its node ID.  A signature covers player, reason, source    *)
(* node and time of change: it is a record of who signed, the source that  *)
(* was signed, and whether player and time are still those of the row.     *)
(* Reasons that differ only in case are one member of Reason, and rows     *)
(* that differ in nothing modelled here are one row.                       *)
(*                                                                         *)
(* "due" is history: the bans that the answers to the last query contained *)
(* and that neither a failed insert nor the administrator has taken away.  *)
(***************************************************************************)
EXTENDS Naturals, FiniteSets

CONSTANTS
  Node,    \* the processes; a node's name stands for its host, too
  Asker,   \* bound: the nodes on whose servers the player joins
  Key,     \* key pairs
  FirstKey, \* the key pair each node starts with
  KeysOf,  \* bound: the key pairs each node generates or imports later
  Reason,  \* ban reasons
  Peers,   \* bound: whom each administrator adds as a node
  Typed,   \* the addresses administrators type
  Listen,  \* the URLs under which the API of each node is reached
  MaxForms \* bound: how many forms the administrators submit

None == 0  \* no port typed
DefaultPort == 30000
Scheme == {"http", "https"}
URL == [scheme : Scheme, host : Node, port : Nat]
Address == [scheme : Scheme \cup {"none"}, host : Node, port : Nat]

ASSUME ConstantsAssumption ==
  /\ Asker \subseteq Node
  /\ FirstKey \in [Node -> Key] /\ KeysOf \in [Node -> SUBSET Key]
  /\ Peers \in [Node -> SUBSET Node]
  /\ Typed \subseteq Address /\ MaxForms \in Nat
  /\ Listen \in [Node -> SUBSET URL]
  /\ \A p, q \in Node : p # q => Listen[p] \cap Listen[q] = {}

VARIABLES
  key,     \* identityService.Current() of each node
  rows,    \* table banlist of each node: the rows of the player
  nodes,   \* table nodes of each node
  draft,   \* the node IDs read for bans that are about to be signed
  waiting, \* the query of each asker: the nodes that have not answered yet,
  todo,    \*   the verified bans to be looked at,
  chosen,  \*   and the one that was not found in the banlist
  due,
  forms    \* how many forms have been submitted

query == <<waiting, todo, chosen>>
vars == <<key, rows, nodes, draft, waiting, todo, chosen, due, forms>>

Signature == [key : Key, source : Key, intact : BOOLEAN]
Row == [reason : Reason, source : Key, sig : Signature]
NodeRecord == [id : Key, publicKey : Key, address : Address]
Vote == [source : Key, reason : Reason]

VoteOf(row) == [source |-> row.source, reason |-> row.reason]
Votes(n) == {VoteOf(row) : row \in rows[n]}
Busy(n) == waiting[n] # {} \/ todo[n] # {} \/ chosen[n] # {}

Init ==
  /\ key = FirstKey
  /\ rows = [n \in Node |-> {}] /\ nodes = [n \in Node |-> {}]
  /\ draft = [n \in Node |-> {}]
  /\ waiting = [n \in Asker |-> {}] /\ todo = [n \in Asker |-> {}]
  /\ chosen = [n \in Asker |-> {}] /\ due = [n \in Asker |-> {}]
  /\ forms = 0

-----------------------------------------------------------------------------
(* Addresses.                                                              *)

SchemeOf(a) == IF a.scheme = "none" THEN "http" ELSE a.scheme

\* Where the identity of a node is fetched when it is added.
FetchURL(a) ==
  [scheme |-> SchemeOf(a), host |-> a.host,
   port |-> IF a.port = None THEN DefaultPort ELSE a.port]

\* What is kept of the address: the scheme goes.
StoredAddress(a) == [a EXCEPT !.scheme = "none"]

\* Where a node is queried; the default port is that of the scheme.
QueryURL(a) ==
  [scheme |-> SchemeOf(a), host |-> a.host,
   port |-> IF a.port # None THEN a.port ELSE IF SchemeOf(a) = "https" THEN 443 ELSE 80]

-----------------------------------------------------------------------------
(* The pages of the administrator: bans, identity, nodes.                  *)

\* What the administrator takes out of the banlist is not due any more.
Withdrawn(n, row) ==
  due' = [m \in Asker |-> IF m = n THEN due[m] \ {VoteOf(row)} ELSE due[m]]

\* The request reads the node ID; the key it signs with is read later.
Draft(n) ==
  /\ draft[n] = {}
  /\ draft' = [draft EXCEPT ![n] = {key[n]}]
  /\ UNCHANGED <<key, rows, nodes, query, due>>

\* The UUID is signed as it was typed and stored in its canonical form.
Signed(n, source, reason, canonical) ==
  [reason |-> reason, source |-> source,
   sig |-> [key |-> key[n], source |-> source, intact |-> canonical]]

CreateBan(n, source, reason, canonical) ==
  /\ source \in draft[n]
  /\ rows' = [rows EXCEPT ![n] = @ \cup {Signed(n, source, reason, canonical)}]
  /\ draft' = [draft EXCEPT ![n] = {}]
  /\ UNCHANGED <<key, nodes, query, due>>

\* Any row may be edited, a peer's as well: it becomes one of this node.
UpdateBan(n, row, source, reason, canonical) ==
  /\ source \in draft[n] /\ row \in rows[n]
  /\ rows' = [rows EXCEPT ![n] = (@ \ {row}) \cup {Signed(n, source, reason, canonical)}]
  /\ draft' = [draft EXCEPT ![n] = {}]
  /\ Withdrawn(n, row)
  /\ UNCHANGED <<key, nodes, query>>

DeleteBan(n, row) ==
  /\ row \in rows[n]
  /\ rows' = [rows EXCEPT ![n] = @ \ {row}]
  /\ Withdrawn(n, row)
  /\ UNCHANGED <<key, nodes, draft, query>>

\* A key pair is generated, or one that was exported is imported: here or elsewhere.
NewKey(n, k) ==
  /\ k # key[n]
  /\ key' = [key EXCEPT ![n] = k]
  /\ UNCHANGED <<rows, nodes, draft, query, due>>

UpsertAnother(n, record) == nodes' = [nodes EXCEPT ![n] = @ \cup {record}]

UpsertNode(n, record) ==
  nodes' = [nodes EXCEPT ![n] = {r \in @ : r.id # record.id} \cup {record}]

\* The node serves its identity, which verifies: the certificate is made with the key.
FetchNodeIdentity(p, a) ==
  [id |-> key[p], publicKey |-> key[p], address |-> StoredAddress(a)]

AddNode(n, p, a) ==
  /\ FetchURL(a) \in Listen[p]
  /\ UpsertNode(n, FetchNodeIdentity(p, a))
  /\ UNCHANGED <<key, rows, draft, query, due>>

\* The form has every field of the record but its node ID.
UpdateNode(n, record, k, a) ==
  /\ record \in nodes[n]
  /\ UpsertNode(n, [id |-> record.id, publicKey |-> k, address |-> a])
  /\ UNCHANGED <<key, rows, draft, query, due>>

DeleteNode(n, record) ==
  /\ record \in nodes[n]
  /\ nodes' = [nodes EXCEPT ![n] = @ \ {record}]
  /\ UNCHANGED <<key, rows, draft, query, due>>

-----------------------------------------------------------------------------
(* A player joins, and the peers are asked.                                *)

\* All nodes of the table, as it is now, are asked at once.
Ask(n) ==
  /\ ~Busy(n) /\ nodes[n] # {}
  /\ waiting' = [waiting EXCEPT ![n] = nodes[n]]
  /\ due' = [due EXCEPT ![n] = {}]
  /\ UNCHANGED <<key, rows, nodes, draft, todo, chosen>>

Verifies(publicKey, row) ==
  row.sig = [key |-> publicKey, source |-> row.source, intact |-> TRUE]

AcceptedUnverified(record, answer) ==
  {[row EXCEPT !.source = record.publicKey] : row \in answer}

\* What verifies against the public key counts as a ban by the node ID of that key.
Accepted(record, answer) ==
  {[row EXCEPT !.source = record.publicKey] :
     row \in {r \in answer : Verifies(record.publicKey, r)}}

\* The bans that the node itself has signed under the key by which it is known.
OwnVotes(p) ==
  {VoteOf(row) : row \in {r \in rows[p] :
     r.source = key[p] /\ r.sig.key = key[p] /\ r.sig.source = key[p] /\ r.sig.intact}}

\* The node lists its rows of the player, and the answer arrives in time.
Answer(n, record, p) ==
  /\ record \in waiting[n] /\ QueryURL(record.address) \in Listen[p]
  /\ waiting' = [waiting EXCEPT ![n] = @ \ {record}]
  /\ todo' = [todo EXCEPT ![n] = @ \cup Accepted(record, rows[p])]
  /\ due' = [due EXCEPT ![n] = IF record.publicKey = key[p] THEN @ \cup OwnVotes(p) ELSE @]
  /\ UNCHANGED <<key, rows, nodes, draft, chosen>>

NoAnswerIfReached(n, record) ==
  /\ record \in waiting[n]
  /\ \E p \in Node : QueryURL(record.address) \in Listen[p]
  /\ waiting' = [waiting EXCEPT ![n] = @ \ {record}]
  /\ UNCHANGED <<key, rows, nodes, draft, todo, chosen, due>>

\* An error, or the deadline of five seconds: what still comes is not looked at.
NoAnswer(n, record) ==
  /\ record \in waiting[n]
  /\ waiting' = [waiting EXCEPT ![n] = @ \ {record}]
  /\ UNCHANGED <<key, rows, nodes, draft, todo, chosen, due>>

EquivalentSource(n, ban) == \E row \in rows[n] : row.source = ban.source

Equivalent(n, ban) == \E row \in rows[n] : VoteOf(row) = VoteOf(ban)

\* Is the ban in the banlist?  A list that fails says no.
Check(n, ban, listed) ==
  /\ waiting[n] = {} /\ chosen[n] = {} /\ ban \in todo[n]
  /\ todo' = [todo EXCEPT ![n] = @ \ {ban}]
  /\ chosen' = [chosen EXCEPT ![n] = IF listed /\ Equivalent(n, ban) THEN {} ELSE {ban}]
  /\ UNCHANGED <<key, rows, nodes, draft, waiting, due>>

\* The row is dated now, which is the time that was signed only within a second.
Insert(n, ban, sameSecond) ==
  /\ ban \in chosen[n]
  /\ rows' = [rows EXCEPT ![n] = @ \cup {[ban EXCEPT !.sig.intact = @ /\ sameSecond]}]
  /\ chosen' = [chosen EXCEPT ![n] = {}]
  /\ UNCHANGED <<key, nodes, draft, waiting, todo, due>>

InsertFails(n, ban) ==
  /\ ban \in chosen[n]
  /\ chosen' = [chosen EXCEPT ![n] = {}]
  /\ Withdrawn(n, ban)
  /\ UNCHANGED <<key, rows, nodes, draft, waiting, todo>>

\* The request is submitted, and reads the node ID if it is about a ban.
Form(n) ==
  /\ forms < MaxForms /\ forms' = forms + 1
  /\ \/ Draft(n)
     \/ \E row \in rows[n] : DeleteBan(n, row)
     \/ \E k \in KeysOf[n] : NewKey(n, k)
     \/ \E p \in Peers[n], a \in Typed : AddNode(n, p, a)
     \/ \E record \in nodes[n], p \in Peers[n], a \in Typed :
          UpdateNode(n, record, key[p], a)
     \/ \E record \in nodes[n] : DeleteNode(n, record)

\* The request about a ban signs and stores it.
Store(n) ==
  /\ \E source \in draft[n], reason \in Reason, canonical \in BOOLEAN :
       \/ CreateBan(n, source, reason, canonical)
       \/ \E row \in rows[n] : UpdateBan(n, row, source, reason, canonical)
  /\ UNCHANGED forms

QueryStep(n) ==
  /\ \/ \E record \in waiting[n] :
          \/ \E p \in Node : Answer(n, record, p)
          \/ NoAnswer(n, record)
     \/ \E ban \in todo[n], listed \in BOOLEAN : Check(n, ban, listed)
     \/ \E ban \in chosen[n] :
          \/ \E sameSecond \in BOOLEAN : Insert(n, ban, sameSecond)
          \/ InsertFails(n, ban)
  /\ UNCHANGED forms

Next ==
  \/ \E n \in Node : Form(n) \/ Store(n)
  \/ \E n \in Asker : (Ask(n) /\ UNCHANGED forms) \/ QueryStep(n)

Spec == Init /\ [][Next]_vars /\ \A n \in Asker : WF_vars(QueryStep(n))
-----------------------------------------------------------------------------
(* Properties.                                                             *)

\* Tables and queries hold what the code puts there; a nodes table has one record
\* per node ID, and at most one ban is between the check and the insert.
TypeOK ==
  /\ key \in [Node -> Key]
  /\ rows \in [Node -> SUBSET Row]
  /\ nodes \in [Node -> SUBSET NodeRecord]
  /\ \A n \in Node : \A r, s \in nodes[n] : r.id = s.id => r = s
  /\ draft \in [Node -> SUBSET Key]
  /\ waiting \in [Asker -> SUBSET NodeRecord]
  /\ todo \in [Asker -> SUBSET Row]
  /\ chosen \in [Asker -> SUBSET Row]
  /\ \A n \in Asker : \A b, c \in chosen[n] : b = c
  /\ due \in [Asker -> SUBSET Vote]
  /\ forms \in 0..MaxForms

\* Every row counts as a ban by a node that signed it, or whose node ID was read for
\* it by the node that signed it: bans passed on by a third node, keys that were
\* replaced or moved and edited records never make it the vote of somebody else.
VotesAreSigned ==
  \A n \in Node : \A row \in rows[n] : row.source \in {row.sig.key, row.sig.source}

\* After a query, the bans that a peer had signed under the key by which the asker
\* knows it, and listed in its answer, are in the banlist of the asker.
BansArrive ==
  \A n \in Asker : ~Busy(n) => due[n] \subseteq Votes(n)

\* A query ends although peers do not answer, so that the player is decided about.
QueryReturns == \A n \in Asker : Busy(n) ~> ~Busy(n)

\* Every row verifies under the key of its source: what README_en.md promises with
\* "making all ban entries traceable".
RowsAreTraceable ==
  \A n \in Node : \A row \in rows[n] : Verifies(row.source, row)
=============================================================================
