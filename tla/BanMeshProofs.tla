--------------------------- MODULE BanMeshProofs ---------------------------
(* Proofs about BanMesh for every mesh: any nodes, keys, addresses and     *)
(* number of forms.                                                        *)
EXTENDS BanMesh, TLAPS

\* What a query is about to store was signed under the key of its source.
QuerySigned ==
  \A n \in Asker : \A ban \in todo[n] \cup chosen[n] : ban.source = ban.sig.key

\* What is due is in the banlist or still on its way there.
Pending(n) == {VoteOf(ban) : ban \in todo[n] \cup chosen[n]}
DueInv == \A n \in Asker : due[n] \subseteq Votes(n) \cup Pending(n)

IInv == TypeOK /\ QuerySigned /\ VotesAreSigned /\ DueInv

-----------------------------------------------------------------------------
(* Helpers.                                                                *)

LEMMA SignedType ==
  ASSUME TypeOK, NEW n \in Node, NEW source \in draft[n], NEW reason \in Reason,
         NEW canonical \in BOOLEAN
  PROVE  /\ Signed(n, source, reason, canonical) \in Row
         /\ Signed(n, source, reason, canonical).source
              = Signed(n, source, reason, canonical).sig.source
<1>1. source \in Key /\ key[n] \in Key
  BY DEF TypeOK
<1> QED  BY <1>1 DEF Signed, Row, Signature

\* What is accepted of an answer is signed with the key it was verified against,
\* and keeps its reason.
LEMMA AcceptedType ==
  ASSUME NEW record \in NodeRecord, NEW answer \in SUBSET Row
  PROVE  /\ Accepted(record, answer) \in SUBSET Row
         /\ \A ban \in Accepted(record, answer) : ban.source = ban.sig.key
<1> SUFFICES ASSUME NEW r \in answer, Verifies(record.publicKey, r),
                    NEW ban, ban = [r EXCEPT !.source = record.publicKey]
             PROVE  ban \in Row /\ ban.source = ban.sig.key
  BY DEF Accepted
<1>1. r \in Row /\ record.publicKey \in Key
  BY DEF NodeRecord
<1>2. r.sig.key = record.publicKey
  BY DEF Verifies
<1> QED  BY <1>1, <1>2 DEF Row, Signature

\* The peer's own bans under the key it is known by are accepted.
LEMMA OwnVotesAccepted ==
  ASSUME TypeOK, NEW record \in NodeRecord, NEW p \in Node, record.publicKey = key[p]
  PROVE  OwnVotes(p) \subseteq {VoteOf(ban) : ban \in Accepted(record, rows[p])}
<1> SUFFICES ASSUME NEW r \in rows[p], r.source = key[p], r.sig.key = key[p],
                    r.sig.source = key[p], r.sig.intact
             PROVE  VoteOf(r) \in {VoteOf(ban) : ban \in Accepted(record, rows[p])}
  BY DEF OwnVotes
<1> DEFINE ban == [r EXCEPT !.source = record.publicKey]
<1>1. r \in Row /\ r.sig \in Signature
  BY DEF TypeOK, Row
<1>2. r.sig = [key |-> record.publicKey, source |-> r.source, intact |-> TRUE]
  BY <1>1 DEF Signature
<1>3. ban \in Accepted(record, rows[p])
  BY <1>2 DEF Accepted, Verifies
<1>4. VoteOf(ban) = VoteOf(r)
  BY <1>1 DEF Row, VoteOf
<1> QED  BY <1>3, <1>4

\* A ban is stored as the row that was signed, but for the time.
LEMMA StoredType ==
  ASSUME NEW ban \in Row, NEW sameSecond \in BOOLEAN
  PROVE  LET row == [ban EXCEPT !.sig.intact = @ /\ sameSecond]
         IN  /\ row \in Row /\ VoteOf(row) = VoteOf(ban)
             /\ row.source = ban.source /\ row.sig.key = ban.sig.key
<1> DEFINE row == [ban EXCEPT !.sig.intact = @ /\ sameSecond]
<1>1. ban.sig \in Signature
  BY DEF Row
<1>2. [ban.sig EXCEPT !.intact = @ /\ sameSecond] \in Signature
      /\ [ban.sig EXCEPT !.intact = @ /\ sameSecond].key = ban.sig.key
  BY <1>1 DEF Signature
<1>3. row \in Row /\ row.source = ban.source /\ row.reason = ban.reason
      /\ row.sig = [ban.sig EXCEPT !.intact = @ /\ sameSecond]
  BY <1>2 DEF Row
<1> QED  BY <1>2, <1>3 DEF VoteOf

LEMMA WithdrawnType ==
  ASSUME TypeOK, NEW n, NEW row, Withdrawn(n, row)
  PROVE  /\ due' \in [Asker -> SUBSET Vote]
         /\ \A m \in Asker : due'[m] \subseteq due[m]
         /\ n \in Asker => VoteOf(row) \notin due'[n]
BY DEF TypeOK, Withdrawn

LEMMA UpsertType ==
  ASSUME TypeOK, NEW n \in Node, NEW record \in NodeRecord, UpsertNode(n, record)
  PROVE  /\ nodes' \in [Node -> SUBSET NodeRecord]
         /\ \A m \in Node : \A r, s \in nodes'[m] : r.id = s.id => r = s
<1>1. nodes' \in [Node -> SUBSET NodeRecord]
  BY DEF TypeOK, UpsertNode
<1>2. ASSUME NEW m \in Node, NEW r \in nodes'[m], NEW s \in nodes'[m], r.id = s.id
      PROVE  r = s
  <2>1. CASE m = n
    <3>1. nodes'[m] = {t \in nodes[n] : t.id # record.id} \cup {record}
      BY <2>1 DEF TypeOK, UpsertNode
    <3> QED  BY <1>2, <3>1 DEF TypeOK
  <2>2. CASE m # n
    <3>1. nodes'[m] = nodes[m]
      BY <2>2 DEF TypeOK, UpsertNode
    <3> QED  BY <1>2, <3>1 DEF TypeOK
  <2> QED  BY <2>1, <2>2
<1> QED  BY <1>1, <1>2
-----------------------------------------------------------------------------
(* Types.                                                                  *)

LEMMA InitType == Init => TypeOK
BY ConstantsAssumption DEF Init, TypeOK

LEMMA FormType ==
  ASSUME TypeOK, NEW n \in Node, Form(n)
  PROVE  TypeOK'
<1>0. forms' \in 0..MaxForms
  BY ConstantsAssumption DEF Form, TypeOK
<1>1. CASE Draft(n)
  BY <1>0, <1>1 DEF Draft, query, TypeOK
<1>2. ASSUME NEW row \in rows[n], DeleteBan(n, row)
      PROVE  TypeOK'
  <2>1. rows' \in [Node -> SUBSET Row]
    BY <1>2 DEF DeleteBan, TypeOK
  <2> QED  BY <1>0, <1>2, <2>1, WithdrawnType DEF DeleteBan, query, TypeOK
<1>3. ASSUME NEW k \in KeysOf[n], NewKey(n, k)
      PROVE  TypeOK'
  <2>1. k \in Key
    BY ConstantsAssumption
  <2> QED  BY <1>0, <1>3, <2>1 DEF NewKey, query, TypeOK
<1>4. ASSUME NEW p \in Peers[n], NEW a \in Typed, AddNode(n, p, a)
      PROVE  TypeOK'
  <2> DEFINE record == FetchNodeIdentity(p, a)
  <2>1. p \in Node /\ a \in Address
    BY ConstantsAssumption
  <2>2. record \in NodeRecord
    BY <2>1 DEF FetchNodeIdentity, NodeRecord, StoredAddress, Address, TypeOK
  <2>3. UpsertNode(n, record)
    BY <1>4 DEF AddNode
  <2> HIDE DEF record
  <2> QED  BY <1>0, <1>4, <2>2, <2>3, UpsertType DEF AddNode, query, TypeOK
<1>5. ASSUME NEW record \in nodes[n], NEW p \in Peers[n], NEW a \in Typed,
             UpdateNode(n, record, key[p], a)
      PROVE  TypeOK'
  <2> DEFINE new == [id |-> record.id, publicKey |-> key[p], address |-> a]
  <2>1. p \in Node /\ a \in Address /\ record \in NodeRecord
    BY ConstantsAssumption DEF TypeOK
  <2>2. new \in NodeRecord
    BY <2>1 DEF NodeRecord, TypeOK
  <2>3. UpsertNode(n, new)
    BY <1>5 DEF UpdateNode
  <2> HIDE DEF new
  <2> QED  BY <1>0, <1>5, <2>2, <2>3, UpsertType DEF UpdateNode, query, TypeOK
<1>6. ASSUME NEW record \in nodes[n], DeleteNode(n, record)
      PROVE  TypeOK'
  <2>1. nodes' \in [Node -> SUBSET NodeRecord] /\ \A m \in Node : nodes'[m] \subseteq nodes[m]
    BY <1>6 DEF DeleteNode, TypeOK
  <2> QED  BY <1>0, <1>6, <2>1 DEF DeleteNode, query, TypeOK
<1> QED  BY <1>1, <1>2, <1>3, <1>4, <1>5, <1>6 DEF Form

LEMMA StoreType ==
  ASSUME TypeOK, NEW n \in Node, Store(n)
  PROVE  TypeOK'
<1> PICK source \in draft[n], reason \in Reason, canonical \in BOOLEAN :
           \/ CreateBan(n, source, reason, canonical)
           \/ \E row \in rows[n] : UpdateBan(n, row, source, reason, canonical)
  BY DEF Store
<1>0. forms' = forms
  BY DEF Store
<1>1. Signed(n, source, reason, canonical) \in Row
  BY SignedType
<1>2. CASE CreateBan(n, source, reason, canonical)
  BY <1>0, <1>1, <1>2 DEF CreateBan, query, TypeOK
<1>3. ASSUME NEW row \in rows[n], UpdateBan(n, row, source, reason, canonical)
      PROVE  TypeOK'
  <2>1. rows' \in [Node -> SUBSET Row] /\ draft' \in [Node -> SUBSET Key]
    BY <1>1, <1>3 DEF UpdateBan, TypeOK
  <2> QED  BY <1>0, <1>3, <2>1, WithdrawnType DEF UpdateBan, query, TypeOK
<1> QED  BY <1>2, <1>3

LEMMA AskType ==
  ASSUME TypeOK, NEW n \in Asker, Ask(n), UNCHANGED forms
  PROVE  TypeOK'
<1>1. n \in Node
  BY ConstantsAssumption
<1> QED  BY <1>1 DEF Ask, TypeOK

LEMMA QueryType ==
  ASSUME TypeOK, NEW n \in Asker, QueryStep(n)
  PROVE  TypeOK'
<1>0. forms' = forms /\ n \in Node
  BY ConstantsAssumption DEF QueryStep
<1>1. ASSUME NEW record \in waiting[n], NEW p \in Node, Answer(n, record, p)
      PROVE  TypeOK'
  <2>1. record \in NodeRecord /\ rows[p] \in SUBSET Row
    BY DEF TypeOK
  <2>2. Accepted(record, rows[p]) \in SUBSET Row
    BY <2>1, AcceptedType
  <2>3. OwnVotes(p) \in SUBSET Vote
    BY <2>1 DEF OwnVotes, VoteOf, Vote, Row
  <2>4. due' \in [Asker -> SUBSET Vote] /\ todo' \in [Asker -> SUBSET Row]
        /\ waiting' \in [Asker -> SUBSET NodeRecord]
    BY <1>1, <2>2, <2>3 DEF Answer, TypeOK
  <2> QED  BY <1>0, <1>1, <2>4 DEF Answer, TypeOK
<1>2. ASSUME NEW record \in waiting[n], NoAnswer(n, record)
      PROVE  TypeOK'
  BY <1>0, <1>2 DEF NoAnswer, TypeOK
<1>3. ASSUME NEW ban \in todo[n], NEW listed \in BOOLEAN, Check(n, ban, listed)
      PROVE  TypeOK'
  <2>1. chosen' \in [Asker -> SUBSET Row] /\ todo' \in [Asker -> SUBSET Row]
    BY <1>3 DEF Check, TypeOK
  <2>2. \A m \in Asker : \A b, c \in chosen'[m] : b = c
    BY <1>3 DEF Check, TypeOK
  <2> QED  BY <1>0, <1>3, <2>1, <2>2 DEF Check, TypeOK
<1>4. ASSUME NEW ban \in chosen[n], NEW sameSecond \in BOOLEAN, Insert(n, ban, sameSecond)
      PROVE  TypeOK'
  <2> DEFINE row == [ban EXCEPT !.sig.intact = @ /\ sameSecond]
  <2>1. ban \in Row
    BY DEF TypeOK
  <2>2. row \in Row
    BY <2>1, StoredType
  <2>3. rows' = [rows EXCEPT ![n] = @ \cup {row}]
    BY <1>4 DEF Insert
  <2> HIDE DEF row
  <2>4. rows' \in [Node -> SUBSET Row]
    BY <1>0, <2>2, <2>3 DEF TypeOK
  <2>5. chosen' \in [Asker -> SUBSET Row] /\ \A m \in Asker : chosen'[m] \subseteq chosen[m]
    BY <1>4 DEF Insert, TypeOK
  <2> QED  BY <1>0, <1>4, <2>4, <2>5 DEF Insert, TypeOK
<1>5. ASSUME NEW ban \in chosen[n], InsertFails(n, ban)
      PROVE  TypeOK'
  <2>1. chosen' \in [Asker -> SUBSET Row] /\ \A m \in Asker : chosen'[m] \subseteq chosen[m]
    BY <1>5 DEF InsertFails, TypeOK
  <2> QED  BY <1>0, <1>5, <2>1, WithdrawnType DEF InsertFails, TypeOK
<1> QED  BY <1>1, <1>2, <1>3, <1>4, <1>5 DEF QueryStep

LEMMA TypeStep == TypeOK /\ [Next]_vars => TypeOK'
<1> SUFFICES ASSUME TypeOK, [Next]_vars
             PROVE  TypeOK'
  OBVIOUS
<1>1. ASSUME NEW n \in Node, Form(n) \/ Store(n)
      PROVE  TypeOK'
  BY <1>1, FormType, StoreType
<1>2. ASSUME NEW n \in Asker, (Ask(n) /\ UNCHANGED forms) \/ QueryStep(n)
      PROVE  TypeOK'
  BY <1>2, AskType, QueryType
<1>3. CASE UNCHANGED vars
  BY <1>3 DEF vars, TypeOK
<1> QED  BY <1>1, <1>2, <1>3 DEF Next

-----------------------------------------------------------------------------
(* Signatures.                                                             *)

SignedInv == VotesAreSigned /\ QuerySigned

\* What the pages change are rows that are signed for the node ID they are stored under.
LEMMA PageSigned ==
  ASSUME TypeOK, SignedInv, NEW n \in Node, Form(n) \/ Store(n)
  PROVE  SignedInv'
<1>1. UNCHANGED <<todo, chosen>>
  BY DEF Form, Store, Draft, CreateBan, UpdateBan, DeleteBan, NewKey, AddNode, UpdateNode,
         DeleteNode, query
<1>2. \A m \in Node : \A row \in rows'[m] : row \in rows[m] \/ row.source = row.sig.source
  <2>1. CASE UNCHANGED rows
    BY <2>1
  <2>2. ASSUME NEW row \in rows[n], DeleteBan(n, row)
        PROVE  \A m \in Node : rows'[m] \subseteq rows[m]
    BY <2>2 DEF DeleteBan, TypeOK
  <2>3. ASSUME NEW source \in draft[n], NEW reason \in Reason, NEW canonical \in BOOLEAN,
               \/ CreateBan(n, source, reason, canonical)
               \/ \E row \in rows[n] : UpdateBan(n, row, source, reason, canonical)
        PROVE  \A m \in Node : \A row \in rows'[m] :
                 row \in rows[m] \/ row.source = row.sig.source
    <3> DEFINE new == Signed(n, source, reason, canonical)
    <3>1. new.source = new.sig.source
      BY SignedType
    <3>2. \A m \in Node : rows'[m] \subseteq rows[m] \cup {new}
      BY <2>3 DEF CreateBan, UpdateBan, TypeOK
    <3> QED  BY <3>1, <3>2
  <2>4. CASE Form(n)
    <3>1. UNCHANGED rows \/ \E row \in rows[n] : DeleteBan(n, row)
      BY <2>4 DEF Form, Draft, NewKey, AddNode, UpdateNode, DeleteNode
    <3> QED  BY <2>1, <2>2, <3>1
  <2>5. CASE Store(n)
    BY <2>3, <2>5 DEF Store
  <2> QED  BY <2>4, <2>5
<1>3. VotesAreSigned'
  BY <1>2 DEF SignedInv, VotesAreSigned
<1>4. QuerySigned'
  BY <1>1 DEF SignedInv, QuerySigned
<1> QED  BY <1>3, <1>4 DEF SignedInv

\* Only what verifies enters a query, and only that is stored.
LEMMA QuerySignedStep ==
  ASSUME TypeOK, SignedInv, NEW n \in Asker, QueryStep(n)
  PROVE  SignedInv'
<1>0. n \in Node
  BY ConstantsAssumption
<1>1. ASSUME NEW record \in waiting[n], NEW p \in Node, Answer(n, record, p)
      PROVE  SignedInv'
  <2>1. \A ban \in Accepted(record, rows[p]) : ban.source = ban.sig.key
    BY AcceptedType DEF TypeOK
  <2>2. \A m \in Asker : todo'[m] \subseteq todo[m] \cup Accepted(record, rows[p])
    BY <1>1 DEF Answer, TypeOK
  <2> QED  BY <1>1, <2>1, <2>2 DEF Answer, SignedInv, QuerySigned, VotesAreSigned
<1>2. ASSUME NEW record \in waiting[n], NoAnswer(n, record)
      PROVE  SignedInv'
  BY <1>2 DEF NoAnswer, SignedInv, QuerySigned, VotesAreSigned
<1>3. ASSUME NEW ban \in todo[n], NEW listed \in BOOLEAN, Check(n, ban, listed)
      PROVE  SignedInv'
  <2>1. \A m \in Asker : todo'[m] \cup chosen'[m] \subseteq todo[m] \cup chosen[m]
    BY <1>3 DEF Check, TypeOK
  <2> QED  BY <1>3, <2>1 DEF Check, SignedInv, QuerySigned, VotesAreSigned
<1>4. ASSUME NEW ban \in chosen[n], NEW sameSecond \in BOOLEAN, Insert(n, ban, sameSecond)
      PROVE  SignedInv'
  <2> DEFINE row == [ban EXCEPT !.sig.intact = @ /\ sameSecond]
  <2>1. row.source = ban.source /\ row.sig.key = ban.sig.key
    BY StoredType DEF TypeOK
  <2>2. ban.source = ban.sig.key
    BY DEF SignedInv, QuerySigned
  <2>3. \A m \in Node : rows'[m] \subseteq rows[m] \cup {row}
    BY <1>4 DEF Insert, TypeOK
  <2>4. \A m \in Asker : chosen'[m] \subseteq chosen[m]
    BY <1>4 DEF Insert, TypeOK
  <2> HIDE DEF row
  <2>5. VotesAreSigned'
    BY <2>1, <2>2, <2>3 DEF SignedInv, VotesAreSigned
  <2>6. QuerySigned'
    BY <1>4, <2>4 DEF Insert, SignedInv, QuerySigned
  <2> QED  BY <2>5, <2>6 DEF SignedInv
<1>5. ASSUME NEW ban \in chosen[n], InsertFails(n, ban)
      PROVE  SignedInv'
  <2>1. \A m \in Asker : chosen'[m] \subseteq chosen[m]
    BY <1>5 DEF InsertFails, TypeOK
  <2> QED  BY <1>5, <2>1 DEF InsertFails, SignedInv, QuerySigned, VotesAreSigned
<1> QED  BY <1>1, <1>2, <1>3, <1>4, <1>5 DEF QueryStep
-----------------------------------------------------------------------------
(* What is due.                                                            *)

\* The pages take out of a banlist only what is due no longer.
LEMMA PageDue ==
  ASSUME TypeOK, DueInv, NEW n \in Node, Form(n) \/ Store(n)
  PROVE  DueInv'
<1>1. UNCHANGED <<todo, chosen>>
  BY DEF Form, Store, Draft, CreateBan, UpdateBan, DeleteBan, NewKey, AddNode, UpdateNode,
         DeleteNode, query
<1>2. \A m \in Asker : Pending(m)' = Pending(m)
  BY <1>1 DEF Pending
<1>3. SUFFICES ASSUME NEW m \in Asker
               PROVE  due'[m] \subseteq due[m] /\ due'[m] \cap Votes(m) \subseteq Votes(m)'
  BY <1>2 DEF DueInv
<1>4. m \in Node
  BY ConstantsAssumption
<1>5. CASE UNCHANGED due /\ rows[m] \subseteq rows'[m]
  BY <1>5 DEF Votes
<1>6. ASSUME NEW row \in rows[n], Withdrawn(n, row),
             \A q \in Node : q # n => rows'[q] = rows[q],
             rows[n] \ {row} \subseteq rows'[n]
      PROVE  due'[m] \subseteq due[m] /\ due'[m] \cap Votes(m) \subseteq Votes(m)'
  <2>1. due'[m] \subseteq due[m] /\ (m = n => VoteOf(row) \notin due'[m])
    BY <1>6, WithdrawnType
  <2>2. CASE m = n
    BY <1>6, <2>1, <2>2 DEF Votes
  <2>3. CASE m # n
    BY <1>4, <1>6, <2>1, <2>3 DEF Votes
  <2> QED  BY <2>2, <2>3
<1>7. ASSUME NEW row \in rows[n], DeleteBan(n, row)
      PROVE  due'[m] \subseteq due[m] /\ due'[m] \cap Votes(m) \subseteq Votes(m)'
  BY <1>6, <1>7 DEF DeleteBan, TypeOK
<1>8. CASE Form(n)
  <2>1. (UNCHANGED due /\ UNCHANGED rows) \/ \E row \in rows[n] : DeleteBan(n, row)
    BY <1>8 DEF Form, Draft, NewKey, AddNode, UpdateNode, DeleteNode
  <2> QED  BY <1>5, <1>7, <2>1
<1>9. CASE Store(n)
  <2> PICK source \in draft[n], reason \in Reason, canonical \in BOOLEAN :
             \/ CreateBan(n, source, reason, canonical)
             \/ \E row \in rows[n] : UpdateBan(n, row, source, reason, canonical)
    BY <1>9 DEF Store
  <2>1. CASE CreateBan(n, source, reason, canonical)
    BY <1>4, <1>5, <2>1 DEF CreateBan, TypeOK
  <2>2. ASSUME NEW row \in rows[n], UpdateBan(n, row, source, reason, canonical)
        PROVE  due'[m] \subseteq due[m] /\ due'[m] \cap Votes(m) \subseteq Votes(m)'
    <3>1. /\ \A q \in Node : q # n => rows'[q] = rows[q]
          /\ rows[n] \ {row} \subseteq rows'[n]
      BY <2>2 DEF UpdateBan, TypeOK
    <3> QED  BY <1>6, <2>2, <3>1 DEF UpdateBan
  <2> QED  BY <2>1, <2>2
<1> QED  BY <1>8, <1>9

\* A ban that is due is taken from the answer to the banlist step by step.
LEMMA QueryDue ==
  ASSUME TypeOK, DueInv, NEW n \in Asker, QueryStep(n)
  PROVE  DueInv'
<1>0. n \in Node
  BY ConstantsAssumption
<1>1. ASSUME NEW record \in waiting[n], NEW p \in Node, Answer(n, record, p)
      PROVE  DueInv'
  <2> DEFINE new == Accepted(record, rows[p])
  <2>1. \A m \in Asker : Votes(m)' = Votes(m) /\ Pending(m) \subseteq Pending(m)'
    BY <1>1 DEF Answer, Votes, Pending, TypeOK
  <2>2. {VoteOf(ban) : ban \in new} \subseteq Pending(n)'
    BY <1>1 DEF Answer, Pending, TypeOK
  <2>3. record \in NodeRecord
    BY DEF TypeOK
  <2>4. record.publicKey = key[p] => OwnVotes(p) \subseteq Pending(n)'
    BY <2>2, <2>3, OwnVotesAccepted
  <2>5. \A m \in Asker : m # n => due'[m] = due[m]
    BY <1>1 DEF Answer, TypeOK
  <2>6. due'[n] = IF record.publicKey = key[p] THEN due[n] \cup OwnVotes(p) ELSE due[n]
    BY <1>1 DEF Answer, TypeOK
  <2> QED  BY <2>1, <2>4, <2>5, <2>6 DEF DueInv
<1>2. ASSUME NEW record \in waiting[n], NoAnswer(n, record)
      PROVE  DueInv'
  BY <1>2 DEF NoAnswer, DueInv, Votes, Pending
<1>3. ASSUME NEW ban \in todo[n], NEW listed \in BOOLEAN, Check(n, ban, listed)
      PROVE  DueInv'
  <2>1. \A m \in Asker : Votes(m)' = Votes(m) /\ due'[m] = due[m]
    BY <1>3 DEF Check, Votes
  <2>2. \A m \in Asker : m # n => Pending(m)' = Pending(m)
    BY <1>3 DEF Check, Pending, TypeOK
  <2>3. /\ todo'[n] = todo[n] \ {ban} /\ chosen[n] = {}
        /\ chosen'[n] = {ban} \/ (chosen'[n] = {} /\ Equivalent(n, ban))
    BY <1>3 DEF Check, TypeOK
  <2>4. Pending(n) \subseteq Pending(n)' \cup {VoteOf(ban)}
    BY <2>3 DEF Pending
  <2>5. VoteOf(ban) \in Pending(n)' \/ VoteOf(ban) \in Votes(n)
    BY <2>3 DEF Pending, Equivalent, Votes
  <2> QED  BY <2>1, <2>2, <2>4, <2>5 DEF DueInv
<1>4. ASSUME NEW ban \in chosen[n], NEW sameSecond \in BOOLEAN, Insert(n, ban, sameSecond)
      PROVE  DueInv'
  <2> DEFINE row == [ban EXCEPT !.sig.intact = @ /\ sameSecond]
  <2>1. VoteOf(row) = VoteOf(ban)
    BY StoredType DEF TypeOK
  <2>2. rows'[n] = rows[n] \cup {row} /\ \A m \in Node : m # n => rows'[m] = rows[m]
    BY <1>0, <1>4 DEF Insert, TypeOK
  <2> HIDE DEF row
  <2>3. VoteOf(ban) \in Votes(n)' /\ \A m \in Asker : Votes(m) \subseteq Votes(m)'
    BY <2>1, <2>2, ConstantsAssumption DEF Votes
  <2>4. chosen[n] = {ban} /\ todo' = todo /\ due' = due
        /\ \A m \in Asker : m # n => chosen'[m] = chosen[m]
    BY <1>4 DEF Insert, TypeOK
  <2>5. Pending(n) \subseteq Pending(n)' \cup {VoteOf(ban)}
        /\ \A m \in Asker : m # n => Pending(m)' = Pending(m)
    BY <2>4 DEF Pending
  <2> QED  BY <2>3, <2>4, <2>5 DEF DueInv
<1>5. ASSUME NEW ban \in chosen[n], InsertFails(n, ban)
      PROVE  DueInv'
  <2>1. /\ \A m \in Asker : due'[m] \subseteq due[m]
        /\ VoteOf(ban) \notin due'[n]
    BY <1>5, WithdrawnType DEF InsertFails
  <2>2. chosen[n] = {ban} /\ todo' = todo /\ rows' = rows
        /\ \A m \in Asker : m # n => chosen'[m] = chosen[m]
    BY <1>5 DEF InsertFails, TypeOK
  <2>3. Pending(n) \subseteq Pending(n)' \cup {VoteOf(ban)}
        /\ \A m \in Asker : m # n => Pending(m)' = Pending(m)
    BY <2>2 DEF Pending
  <2>4. \A m \in Asker : Votes(m)' = Votes(m)
    BY <2>2 DEF Votes
  <2> QED  BY <2>1, <2>3, <2>4 DEF DueInv
<1> QED  BY <1>1, <1>2, <1>3, <1>4, <1>5 DEF QueryStep
-----------------------------------------------------------------------------
(* The invariant.                                                          *)

LEMMA InitInv == Init => IInv
<1> SUFFICES ASSUME Init
             PROVE  IInv
  OBVIOUS
<1>1. TypeOK
  BY InitType
<1>2. \A n \in Asker : todo[n] = {} /\ chosen[n] = {} /\ due[n] = {}
  BY DEF Init
<1>3. QuerySigned /\ DueInv
  BY <1>2 DEF QuerySigned, DueInv
<1>4. VotesAreSigned
  BY DEF Init, VotesAreSigned
<1> QED  BY <1>1, <1>3, <1>4 DEF IInv

LEMMA InvStep == IInv /\ [Next]_vars => IInv'
<1> SUFFICES ASSUME IInv, [Next]_vars
             PROVE  IInv'
  OBVIOUS
<1>0. TypeOK /\ TypeOK' /\ SignedInv /\ DueInv
  BY TypeStep DEF IInv, SignedInv
<1>1. ASSUME NEW n \in Node, Form(n) \/ Store(n)
      PROVE  SignedInv' /\ DueInv'
  BY <1>0, <1>1, PageSigned, PageDue
<1>2. ASSUME NEW n \in Asker, Ask(n)
      PROVE  SignedInv' /\ DueInv'
  <2>1. UNCHANGED <<rows, todo, chosen>> /\ \A m \in Asker : due'[m] \subseteq due[m]
    BY <1>0, <1>2 DEF Ask, TypeOK
  <2>2. SignedInv'
    BY <1>0, <2>1 DEF SignedInv, VotesAreSigned, QuerySigned
  <2>3. DueInv'
    BY <1>0, <2>1 DEF DueInv, Votes, Pending
  <2> QED  BY <2>2, <2>3
<1>3. ASSUME NEW n \in Asker, QueryStep(n)
      PROVE  SignedInv' /\ DueInv'
  BY <1>0, <1>3, QuerySignedStep, QueryDue
<1>4. ASSUME UNCHANGED vars
      PROVE  SignedInv' /\ DueInv'
  <2>1. UNCHANGED <<rows, todo, chosen, due>>
    BY <1>4 DEF vars
  <2>2. SignedInv'
    BY <1>0, <2>1 DEF SignedInv, VotesAreSigned, QuerySigned
  <2>3. DueInv'
    BY <1>0, <2>1 DEF DueInv, Votes, Pending
  <2> QED  BY <2>2, <2>3
<1>5. SignedInv' /\ DueInv'
  BY <1>1, <1>2, <1>3, <1>4 DEF Next
<1> QED  BY <1>0, <1>5 DEF IInv, SignedInv

LEMMA Invariance == Spec => []IInv
<1>1. Init => IInv
  BY InitInv
<1>2. IInv /\ [Next]_vars => IInv'
  BY InvStep
<1> QED  BY <1>1, <1>2, PTL DEF Spec

\* Banlists, node tables and queries stay within their types, and a node ID has one
\* record in every table, for every mesh.
THEOREM TypeCorrect == Spec => []TypeOK
<1>1. IInv => TypeOK
  BY DEF IInv
<1> QED  BY <1>1, Invariance, PTL

\* However bans are passed on, keys replaced or moved and records edited, a row
\* counts as a ban by a node that signed it or for which it was signed.
THEOREM VotesSigned == Spec => []VotesAreSigned
<1>1. IInv => VotesAreSigned
  BY DEF IInv
<1> QED  BY <1>1, Invariance, PTL

\* In every mesh, a query leaves the asker with every ban that a peer had signed and
\* listed under the key by which it is known.
THEOREM BansDoArrive == Spec => []BansArrive
<1>1. IInv => BansArrive
  <2> SUFFICES ASSUME IInv, NEW n \in Asker, ~Busy(n)
               PROVE  due[n] \subseteq Votes(n)
    BY DEF BansArrive
  <2>1. Pending(n) = {}
    BY DEF Busy, Pending
  <2> QED  BY <2>1 DEF IInv, DueInv
<1> QED  BY <1>1, Invariance, PTL
=============================================================================
