------------------------ MODULE DecisionCacheProofs ------------------------
(***************************************************************************)
(* Proofs about DecisionCache for every set of servers, players, peers and *)
(* reasons, every policy, and every bound on writes and time.              *)
(***************************************************************************)
EXTENDS DecisionCache, FiniteSetTheorems, TLAPS

-----------------------------------------------------------------------------
(* Evaluating graded rows.                                                 *)

\* The levels tried in order have a first one that is met, if any is.
LEMMA FirstLevelExists ==
  ASSUME NEW met \in SUBSET Level, met # {}
  PROVE  \E l \in met : \A m \in met : Rank[l] <= Rank[m]
<1> DEFINE First(l) == l \in met /\ \A m \in met : Rank[l] <= Rank[m]
<1>1. CASE "ultimate" \in met
  <2>1. First("ultimate")
    BY <1>1 DEF Level, Rank
  <2> QED  BY <2>1
<1>2. CASE "ultimate" \notin met /\ "trusted" \in met
  <2>1. First("trusted")
    BY <1>2 DEF Level, Rank
  <2> QED  BY <2>1
<1>3. CASE "ultimate" \notin met /\ "trusted" \notin met /\ "friend" \in met
  <2>1. First("friend")
    BY <1>3 DEF Level, Rank
  <2> QED  BY <2>1
<1>4. CASE "ultimate" \notin met /\ "trusted" \notin met /\ "friend" \notin met
           /\ "unknown" \in met
  <2>1. First("unknown")
    BY <1>4 DEF Level, Rank
  <2> QED  BY <2>1
<1>5. CASE met = {"untrusted"}
  BY <1>5 DEF Level, Rank
<1> QED  BY <1>1, <1>2, <1>3, <1>4, <1>5 DEF Level

\* evaluateBanEntries allows the player exactly when no level is met.
LEMMA OutcomeIsNone ==
  ASSUME NEW thresholds, NEW graded
  PROVE  /\ EvaluateBanEntries(thresholds, graded) \in Outcome
         /\ EvaluateBanEntries(thresholds, graded) = "none"
              <=> LevelsMet(thresholds, graded) = {}
<1> DEFINE met == LevelsMet(thresholds, graded)
<1>1. met \in SUBSET Level
  BY DEF LevelsMet
<1>2. CASE met = {}
  BY <1>2 DEF EvaluateBanEntries, Outcome
<1>3. CASE met # {}
  <2> DEFINE first == CHOOSE l \in met : \A m \in met : Rank[l] <= Rank[m]
  <2>1. first \in met
    BY <1>1, <1>3, FirstLevelExists
  <2>2. EvaluateBanEntries(thresholds, graded) = first
    BY <1>3 DEF EvaluateBanEntries
  <2>3. "none" \notin Level
    BY DEF Level
  <2> HIDE DEF first
  <2> QED  BY <1>1, <1>3, <2>1, <2>2, <2>3 DEF Outcome
<1> QED  BY <1>2, <1>3

\* Counting more rows never turns a kick into an allow.
LEMMA MoreRowsMeetMore ==
  ASSUME NEW thresholds \in [Level -> Int], NEW few, NEW many,
         few \subseteq many, IsFiniteSet(many)
  PROVE  EvaluateBanEntries(thresholds, many) = "none"
           => EvaluateBanEntries(thresholds, few) = "none"
<1>1. ASSUME NEW l \in Level
      PROVE  /\ LevelCount(few, l) \in Nat /\ LevelCount(many, l) \in Nat
             /\ LevelCount(few, l) <= LevelCount(many, l)
  <2> DEFINE F == {g \in few : g.level = l}
             M == {g \in many : g.level = l}
  <2>1. IsFiniteSet(M)
    BY FS_Subset
  <2>2. F \in SUBSET M
    OBVIOUS
  <2>3. IsFiniteSet(F) /\ Cardinality(F) <= Cardinality(M)
    BY <2>1, <2>2, FS_Subset
  <2> QED  BY <2>1, <2>3, FS_CardinalityType DEF LevelCount
<1>2. LevelsMet(thresholds, few) \subseteq LevelsMet(thresholds, many)
  BY <1>1 DEF LevelsMet
<1> QED  BY <1>2, OutcomeIsNone

-----------------------------------------------------------------------------
(* Types.                                                                  *)

\* Every server has an integer threshold for every level.
LEMMA ThresholdsType ==
  ASSUME NEW s \in Server
  PROVE  Thresholds(s) \in [Level -> Int]
BY ConstantsAssumption
DEF Thresholds, ResolvePolicy, ThresholdValue, IsPolicy, Fallback, Level

\* A row is graded with a level, and the one GetNode gives is readable.
LEMMA LevelType ==
  ASSUME TypeOK, NEW r \in Row
  PROVE  /\ LevelOf(r) \in Level
         /\ ReadableLevels(r) \subseteq Level
         /\ LevelOf(r) \in ReadableLevels(r)
BY DEF TypeOK, Row, Source, LevelOf, TrustLevelForBan, ReadableLevels, Level

\* A monitor that starts or gives up is a monitor.
LEMMA IdleType ==
  ASSUME NEW p \in Player, NEW c \in Control
  PROVE  [Idle(p) EXCEPT !.pc = c] \in Monitor /\ Idle(p) \in Monitor
BY DEF Idle, Monitor, Control, Outcome

\* What a monitor stores is a cache entry.
LEMMA EntryType ==
  ASSUME TypeOK, NEW s \in Server, NEW p \in Player, cache[s][p].found
  PROVE  /\ cache[s][p] \in CacheEntry
         /\ cache[s][p].base \in SUBSET Row
         /\ cache[s][p].graded \in SUBSET Graded
<1>1. cache[s][p] \in CacheEntry \cup {NoEntry}
  BY DEF TypeOK
<1>2. cache[s][p] # NoEntry
  BY DEF NoEntry
<1>3. cache[s][p] \in CacheEntry
  BY <1>1, <1>2
<1> QED  BY <1>3 DEF CacheEntry

\* Types are kept by one step of the monitor of server s.
LEMMA TypeMonitor ==
  ASSUME TypeOK, NEW s \in Server, MonitorStep(s)
  PROVE  TypeOK'
<1> USE DEF TypeOK, identity
<1> DEFINE m == mon[s]
<1>0. m \in Monitor /\ m.player \in Player
  BY DEF Monitor
<1>1. ASSUME NEW p \in Player, Begin(s, p)
      PROVE  TypeOK'
  <2>1. [Idle(p) EXCEPT !.pc = "version"] \in Monitor
    BY IdleType DEF Control
  <2> QED  BY <1>1, <2>1 DEF Begin, tables
<1>2. CASE ReadVersion(s)
  BY <1>2, <1>0 DEF ReadVersion, tables, Monitor, Control
<1>3. CASE LookupHit(s)
  <2> DEFINE c == cache[s][m.player]
  <2>1. c \in CacheEntry
    BY <1>0, <1>3 DEF LookupHit, Matches, NoEntry
  <2> QED  BY <1>3, <1>0, <2>1 DEF LookupHit, tables, Monitor, Control, CacheEntry
<1>4. CASE LookupMiss(s)
  BY <1>4, <1>0 DEF LookupMiss, tables, Monitor, Control
<1>5. CASE ListRows(s)
  BY <1>5, <1>0 DEF ListRows, tables, Monitor, Control, RowsOf
<1>6. CASE CountRow(s)
  <2>0. PICK r \in m.todo : \E l \in ReadableLevels(r) :
          mon' = [mon EXCEPT
                   ![s].todo = m.todo \ {r},
                   ![s].graded = m.graded \cup {[row |-> r, level |-> l]}]
    BY <1>6 DEF CountRow
  <2>1. PICK l \in ReadableLevels(r) :
          mon' = [mon EXCEPT
                   ![s].todo = m.todo \ {r},
                   ![s].graded = m.graded \cup {[row |-> r, level |-> l]}]
    BY <2>0
  <2>2. r \in Row
    BY <1>0 DEF Monitor
  <2>3. [row |-> r, level |-> l] \in Graded
    BY <2>2, LevelType DEF Graded
  <2>4. /\ m.todo \ {r} \in SUBSET Row
        /\ m.graded \cup {[row |-> r, level |-> l]} \in SUBSET Graded
    BY <1>0, <2>3 DEF Monitor
  <2> DEFINE todo == m.todo \ {r}
             graded == m.graded \cup {[row |-> r, level |-> l]}
  <2>5. mon' = [mon EXCEPT ![s].todo = todo, ![s].graded = graded]
    BY <2>1
  <2> HIDE DEF todo, graded
  <2>6. [m EXCEPT !.todo = todo, !.graded = graded] \in Monitor
    <3>1. todo \in SUBSET Row /\ graded \in SUBSET Graded
      BY <2>4 DEF todo, graded
    <3> QED  BY <1>0, <3>1 DEF Monitor
  <2>7. mon' \in [Server -> Monitor]
    <3>1. mon' = [mon EXCEPT ![s] = [m EXCEPT !.todo = todo, !.graded = graded]]
      BY <2>5
    <3> QED  BY <2>6, <3>1
  <2>8. UNCHANGED tables
    BY <1>6 DEF CountRow
  <2> QED  BY <2>7, <2>8 DEF tables
<1>7. CASE AskPeers(s)
  BY <1>7, <1>0 DEF AskPeers, tables, Monitor, Control, Outcome
<1>8. CASE Decide(s)
  <2>1. Verdict(s) \in Outcome
    BY OutcomeIsNone DEF Verdict
  <2> QED  BY <1>8, <1>0, <2>1 DEF Decide, tables, Monitor, Control
<1>9. CASE PeersAnswer(s)
  <2>1. PICK answer \in SUBSET PeerBan :
          mon' = [mon EXCEPT ![s].pc = "check", ![s].queue = answer, ![s].now = clock]
    BY <1>9 DEF PeersAnswer
  <2>2. mon' \in [Server -> Monitor]
    BY <1>0, <2>1 DEF Monitor, Control
  <2>3. UNCHANGED tables
    BY <1>9 DEF PeersAnswer
  <2> QED  BY <2>2, <2>3 DEF tables
<1>10. CASE SkipKnown(s)
  <2>1. PICK b \in m.queue : mon' = [mon EXCEPT ![s].queue = m.queue \ {b}]
    BY <1>10 DEF SkipKnown
  <2> QED  BY <1>10, <1>0, <2>1 DEF SkipKnown, tables, Monitor
<1>11. CASE FoundNew(s) \/ CheckFails(s)
  <2>1. PICK b \in m.queue :
          mon' = [mon EXCEPT ![s].pc = "insert", ![s].pending = {b},
                             ![s].queue = m.queue \ {b}]
    BY <1>11 DEF FoundNew, CheckFails
  <2>2. {b} \in SUBSET PeerBan
    BY <1>0 DEF Monitor
  <2> QED  BY <1>11, <1>0, <2>1, <2>2
           DEF FoundNew, CheckFails, tables, Monitor, Control
<1>12. CASE InsertPeerBan(s)
  <2>1. PICK b \in m.pending :
          banlist' = banlist \cup {Write(m.player, b.source, b.reason, m.now)}
    BY <1>12 DEF InsertPeerBan
  <2>2. b \in PeerBan /\ m.now \in Nat
    BY <1>0 DEF Monitor
  <2>3. Write(m.player, b.source, b.reason, m.now) \in Row
    BY <1>0, <2>2 DEF Write, Row, PeerBan, Source
  <2>4. mon' \in [Server -> Monitor]
    BY <1>12, <1>0 DEF InsertPeerBan, Monitor, Control
  <2>5. banlist' \in SUBSET Row /\ writes' \in Nat
    BY <1>12, <2>1, <2>3 DEF InsertPeerBan
  <2> QED  BY <1>12, <2>4, <2>5 DEF InsertPeerBan
<1>13. CASE InsertFails(s)
  BY <1>13, <1>0 DEF InsertFails, tables, Monitor, Control
<1>14. CASE PeersDone(s)
  BY <1>14, <1>0 DEF PeersDone, tables, Monitor, Control
<1>15. CASE Save(s)
  <2>1. Entry(m) \in CacheEntry
    BY <1>0 DEF Entry, Monitor, CacheEntry
  <2> QED  BY <1>15, <1>0, <2>1 DEF Save, Monitor, Control
<1>16. CASE Return(s) \/ Abort(s)
  <2>1. Idle(m.player) \in Monitor
    BY <1>0, IdleType DEF Control
  <2> QED  BY <1>16, <2>1 DEF Return, Abort, tables
<1> QED  BY <1>1, <1>2, <1>3, <1>4, <1>5, <1>6, <1>7, <1>8, <1>9, <1>10, <1>11,
            <1>12, <1>13, <1>14, <1>15, <1>16 DEF MonitorStep

\* Types are kept by the web UI, the ban files, the identity, a start and the clock.
LEMMA TypeEdits ==
  ASSUME TypeOK,
         \/ BanlistEdit \/ CacheEdit \/ NodeEdit \/ Tick
         \/ \E k \in Key : ReplaceIdentity(k) \/ StartAgain(k)
  PROVE  TypeOK'
<1> USE DEF TypeOK
<1>1. CASE BanlistEdit
  <2>1. ASSUME NEW p \in Player, NEW source \in keys, NEW reason \in Reason,
               NEW at \in 1..MaxTime
        PROVE  Write(p, source, reason, at) \in Row
    BY DEF Write, Row, Source
  <2>2. banlist' \in SUBSET Row /\ writes' \in Nat
    BY <1>1, <2>1 DEF BanlistEdit, CreateBanEntry, UpdateBanEntry, DeleteBanEntry,
                      DeleteLocalBans
  <2>3. UNCHANGED others
    BY <1>1 DEF BanlistEdit, CreateBanEntry, UpdateBanEntry, DeleteBanEntry,
                DeleteLocalBans
  <2> QED  BY <2>2, <2>3 DEF others, identity
<1>2. CASE CacheEdit
  BY <1>2 DEF CacheEdit, DeletePlayerDecisionCache, ClearServerPlayerDecisionCache,
              ClearAllPlayerDecisionCache, identity
<1>3. CASE NodeEdit
  BY <1>3, ConstantsAssumption DEF NodeEdit, DeleteNode, UpsertNode, Level, identity
<1>4. CASE Tick
  BY <1>4 DEF Tick, identity
<1>5. ASSUME NEW k \in Key, ReplaceIdentity(k)
      PROVE  TypeOK'
  BY <1>5 DEF ReplaceIdentity
<1>6. ASSUME NEW k \in Key, StartAgain(k)
      PROVE  TypeOK'
  <2>1. ASSUME NEW s \in Server
        PROVE  Idle(mon[s].player) \in Monitor
    <3>1. mon[s].player \in Player
      BY DEF Monitor
    <3> QED  BY <3>1, IdleType DEF Control
  <2>2. mon' \in [Server -> Monitor]
    BY <1>6, <2>1 DEF StartAgain
  <2> QED  BY <1>6, <2>2 DEF StartAgain
<1> QED  BY <1>1, <1>2, <1>3, <1>4, <1>5, <1>6

\* The tables and the monitors only ever hold values of their types.
THEOREM TypeCorrect == Spec => []TypeOK
<1>1. Init => TypeOK
  <2> SUFFICES ASSUME Init PROVE TypeOK
    OBVIOUS
  <2>1. PICK p \in Player : mon = [s \in Server |-> Idle(p)]
    BY DEF Init
  <2>2. Idle(p) \in Monitor
    BY IdleType DEF Control
  <2> QED  BY <2>1, <2>2, ConstantsAssumption DEF Init, TypeOK, Level
<1>2. TypeOK /\ [Next]_vars => TypeOK'
  <2> SUFFICES ASSUME TypeOK, [Next]_vars PROVE TypeOK'
    OBVIOUS
  <2>1. CASE UNCHANGED vars
    BY <2>1 DEF vars, TypeOK
  <2> QED  BY <2>1, TypeMonitor, TypeEdits DEF Next
<1> QED  BY <1>1, <1>2, PTL DEF Spec

-----------------------------------------------------------------------------
(* What every step leaves true of the rows already written.                *)

\* Rows only come with the next write number, and numbers only grow.
BanlistStep ==
  /\ writes' \in Nat /\ writes <= writes'
  /\ \A r \in banlist' : r \in banlist \/ r.write = writes

\* Every step writes at most one row, under a number never used before, and
\* leaves a finite table of numbered rows.
LEMMA NextKeepsBanlist ==
  ASSUME TypeOK, BanlistInv, Next
  PROVE  BanlistStep /\ BanlistInv'
<1> USE DEF BanlistStep, BanlistInv, Written
<1>0. writes \in Nat /\ \A r \in banlist : r \in Row /\ r.write \in Nat
  BY DEF TypeOK, Row
<1>1. ASSUME NEW w, w.write = writes, writes' = writes + 1,
             NEW kept \in SUBSET banlist, banlist' = kept \cup {w}
      PROVE  BanlistStep /\ BanlistInv'
  <2>1. IsFiniteSet(kept)
    BY FS_Subset
  <2>2. IsFiniteSet(banlist')
    BY <1>1, <2>1, FS_AddElement
  <2> QED  BY <1>0, <1>1, <2>2
<1>2. ASSUME banlist' \subseteq banlist, writes' = writes
      PROVE  BanlistStep /\ BanlistInv'
  <2>1. IsFiniteSet(banlist')
    BY <1>2, FS_Subset
  <2> QED  BY <1>0, <1>2, <2>1
<1>3. ASSUME NEW s \in Server, InsertPeerBan(s)
      PROVE  BanlistStep /\ BanlistInv'
  <2>1. PICK b \in mon[s].pending :
          banlist' = banlist \cup {Write(mon[s].player, b.source, b.reason, mon[s].now)}
    BY <1>3 DEF InsertPeerBan
  <2>2. Write(mon[s].player, b.source, b.reason, mon[s].now).write = writes
    BY DEF Write
  <2> QED  BY <1>1, <1>3, <2>1, <2>2 DEF InsertPeerBan
<1>4. ASSUME NEW s \in Server, MonitorStep(s), ~InsertPeerBan(s)
      PROVE  BanlistStep /\ BanlistInv'
  <2>1. UNCHANGED <<banlist, writes>>
    BY <1>4 DEF MonitorStep, tables, Begin, ReadVersion, LookupHit, LookupMiss, ListRows,
                CountRow, AskPeers, Decide, PeersAnswer, SkipKnown, FoundNew, CheckFails,
                InsertFails, PeersDone, Save, Return, Abort
  <2> QED  BY <1>2, <2>1
<1>5. ASSUME NEW p \in Player, NEW source \in keys, NEW reason \in Reason,
             NEW at \in 1..MaxTime, CreateBanEntry(p, source, reason, at)
      PROVE  BanlistStep /\ BanlistInv'
  <2>1. Write(p, source, reason, at).write = writes
    BY DEF Write
  <2> QED  BY <1>1, <1>5, <2>1 DEF CreateBanEntry
<1>6. ASSUME NEW p \in Player, NEW source \in keys, NEW reason \in Reason,
             NEW at \in 1..MaxTime, NEW r \in banlist,
             UpdateBanEntry(r, p, source, reason, at)
      PROVE  BanlistStep /\ BanlistInv'
  <2>1. Write(p, source, reason, at).write = writes
    BY DEF Write
  <2> QED  BY <1>1, <1>6, <2>1 DEF UpdateBanEntry
<1>7. ASSUME NEW r \in banlist, DeleteBanEntry(r)
      PROVE  BanlistStep /\ BanlistInv'
  BY <1>2, <1>7 DEF DeleteBanEntry
<1>8. ASSUME NEW p \in Player, DeleteLocalBans(p)
      PROVE  BanlistStep /\ BanlistInv'
  BY <1>2, <1>8 DEF DeleteLocalBans
<1>9. CASE CacheEdit \/ NodeEdit \/ Tick
           \/ \E k \in Key : ReplaceIdentity(k) \/ StartAgain(k)
  BY <1>2, <1>9 DEF CacheEdit, DeletePlayerDecisionCache, ClearServerPlayerDecisionCache,
       ClearAllPlayerDecisionCache, NodeEdit, DeleteNode, UpsertNode, Tick,
       ReplaceIdentity, StartAgain
<1> QED  BY <1>3, <1>4, <1>5, <1>6, <1>7, <1>8, <1>9 DEF Next, BanlistEdit

\* Of rows written so far, a step brings none back into the table.
LEMMA OldRowsStayGone ==
  ASSUME TypeOK, BanlistStep, NEW rows \in SUBSET Row, Written(rows)
  PROVE  Written(rows)' /\ rows \cap banlist' \subseteq banlist
BY DEF TypeOK, BanlistStep, Written, Row

\* A monitor that does not move keeps its invariant whatever the others do.
LEMMA MonitorKept ==
  ASSUME TypeOK, BanlistStep, NEW s \in Server, MonitorInv(s), mon'[s] = mon[s]
  PROVE  MonitorInv(s)'
<1> DEFINE m == mon[s]
<1>1. m.base \in SUBSET Row
  BY DEF TypeOK, Monitor
<1>2. Written(m.base)' /\ m.base \cap banlist' \subseteq banlist
  BY <1>1, OldRowsStayGone DEF MonitorInv
<1>3. RowsOf(m.base, m.player) \cap banlist' \subseteq RowsOf(m.base, m.player) \cap banlist
  BY <1>2 DEF RowsOf
<1>4. Verdict(s)' = Verdict(s)
  BY DEF Verdict
<1> QED  BY <1>2, <1>3, <1>4 DEF MonitorInv, Written

\* A cache entry that is not written keeps its invariant whatever the tables do.
LEMMA EntryKept ==
  ASSUME TypeOK, BanlistStep, NEW s \in Server, NEW p \in Player, EntryInv(s, p),
         cache'[s][p] = cache[s][p] \/ cache'[s][p] = NoEntry
  PROVE  EntryInv(s, p)'
<1> DEFINE c == cache[s][p]
<1>1. CASE cache'[s][p] = c /\ c.found
  <2>1. c.base \in SUBSET Row
    BY <1>1, EntryType
  <2>2. Written(c.base)' /\ c.base \cap banlist' \subseteq banlist
    BY <1>1, <2>1, OldRowsStayGone DEF EntryInv
  <2>3. RowsOf(c.base, p) \cap banlist' \subseteq RowsOf(c.base, p) \cap banlist
    BY <2>2 DEF RowsOf
  <2> QED  BY <1>1, <2>2, <2>3 DEF EntryInv, Written
<1>2. CASE cache'[s][p] = NoEntry \/ (cache'[s][p] = c /\ ~c.found)
  BY <1>2 DEF EntryInv, NoEntry
<1> QED  BY <1>1, <1>2

-----------------------------------------------------------------------------
(* The version of the banlist, and what equal versions say.                *)

\* Induction over the subsets of a finite set, with a family of sets in the place
\* of a predicate: it has {}, and each set from which some element can be taken
\* away to leave a member.
LEMMA GrowingSets ==
  ASSUME NEW S, IsFiniteSet(S), NEW family, {} \in family,
         \A T \in SUBSET S :
            T # {} => \E x \in T : T \ {x} \in family => T \in family
  PROVE  SUBSET S \subseteq family
<1> DEFINE Bad == (SUBSET S) \ family
           R == StrictSubsetOrdering(S)
<1> SUFFICES ASSUME Bad # {}
             PROVE  FALSE
  OBVIOUS
<1>1. IsWellFoundedOn(R, SUBSET S)
  <2>1. FiniteSubsetsOf(S) = SUBSET S
    BY FS_FiniteSubsetsOfFinite
  <2>2. IsWellFoundedOn(R, FiniteSubsetsOf(S))
    BY FS_StrictSubsetOrderingWellFounded
  <2> QED  BY <2>1, <2>2
<1>2. Bad \subseteq SUBSET S /\ Bad # {}
  OBVIOUS
<1>3. PICK T \in Bad : \A U \in Bad : <<U, T>> \notin R
  <2> HIDE DEF Bad, R
  <2> QED  BY <1>1, <1>2, WFMin
<1>4. PICK x \in T : T \ {x} \in family => T \in family
  BY <1>2
<1>5. <<T \ {x}, T>> \in R
  <2>1. T \in SUBSET S /\ T \ {x} \in SUBSET S /\ T \ {x} \subseteq T /\ T \ {x} # T
    BY <1>4
  <2> QED  BY <2>1 DEF StrictSubsetOrdering
<1>6. T \ {x} \in family
  BY <1>3, <1>5
<1> QED  BY <1>4, <1>6

\* One pair for each second of each row's timestamp.
Seconds(rows) == {x \in rows \X Nat : x[2] \in 1..x[1].at}

LEMMA SecondsOfRow ==
  ASSUME NEW r, r.at \in Nat
  PROVE  /\ Seconds({r}) = {r} \X (1..r.at)
         /\ IsFiniteSet(Seconds({r}))
         /\ Cardinality(Seconds({r})) = r.at
<1>1. Seconds({r}) = {r} \X (1..r.at)
  BY DEF Seconds
<1>2. IsFiniteSet(1..r.at) /\ Cardinality(1..r.at) = r.at
  BY FS_Interval
<1>3. IsFiniteSet({r}) /\ Cardinality({r}) = 1
  BY FS_Singleton
<1>4. IsFiniteSet({r} \X (1..r.at)) /\ Cardinality({r} \X (1..r.at)) = 1 * r.at
  BY <1>2, <1>3, FS_Product
<1> QED  BY <1>1, <1>4

\* Finitely many rows have finitely many seconds, and each row has its own.
LEMMA SecondsFinite ==
  ASSUME NEW rows, IsFiniteSet(rows), \A r \in rows : r.at \in Nat
  PROVE  IsFiniteSet(Seconds(rows))
<1> DEFINE each == {Seconds({r}) : r \in rows}
           f == [r \in rows |-> Seconds({r})]
<1>1. f \in Surjection(rows, each)
  BY DEF Surjection
<1>2. IsFiniteSet(each)
  BY <1>1, FS_Surjection
<1>3. \A T \in each : IsFiniteSet(T)
  BY SecondsOfRow
<1>4. Seconds(rows) = UNION each
  BY DEF Seconds
<1>5. IsFiniteSet(UNION each)
  <2> HIDE DEF each
  <2> QED  BY <1>2, <1>3, FS_UNION
<1> QED  BY <1>4, <1>5

\* The seconds of two lists with no row in common add up.
LEMMA SecondsAddUp ==
  ASSUME NEW A, NEW B, IsFiniteSet(A), IsFiniteSet(B), A \cap B = {},
         \A r \in A \cup B : r.at \in Nat
  PROVE  Cardinality(Seconds(A \cup B)) = Cardinality(Seconds(A)) + Cardinality(Seconds(B))
<1> DEFINE a == Cardinality(Seconds(A))
           b == Cardinality(Seconds(B))
<1>1. Seconds(A \cup B) = Seconds(A) \cup Seconds(B) /\ Seconds(A) \cap Seconds(B) = {}
  BY DEF Seconds
<1>2. IsFiniteSet(Seconds(A)) /\ IsFiniteSet(Seconds(B))
  BY SecondsFinite
<1>3. a \in Nat /\ b \in Nat
  BY <1>2, FS_CardinalityType
<1>4. Cardinality(Seconds(A \cup B)) = a + b - 0
  <2>1. Cardinality(Seconds(A) \cup Seconds(B)) = a + b - Cardinality(Seconds(A) \cap Seconds(B))
    BY <1>2, FS_Union
  <2>2. Cardinality({}) = 0
    BY FS_EmptySet
  <2> HIDE DEF a, b
  <2> QED  BY <1>1, <2>1, <2>2
<1> HIDE DEF a, b
<1>5. Cardinality(Seconds(A \cup B)) = a + b
  BY <1>3, <1>4
<1> QED  BY <1>5 DEF a, b

\* SUM(updated_at) is the number of seconds of all rows: counting them satisfies
\* the equation of the fold, and only one function on the subsets does.
THEOREM SumIsCount ==
  ASSUME NEW rows, IsFiniteSet(rows), \A r \in rows : r.at \in Nat
  PROVE  SumAt(rows) = Cardinality(Seconds(rows))
<1> DEFINE Pick(T) == CHOOSE x \in T : TRUE
           count == [T \in SUBSET rows |-> Cardinality(Seconds(T))]
           Fold(f) == f = [T \in SUBSET rows |->
                             IF T = {} THEN 0 ELSE Pick(T).at + f[T \ {Pick(T)}]]
           sum == CHOOSE f : Fold(f)
           agree == {T \in SUBSET rows : sum[T] = count[T]}
<1>1. ASSUME NEW T \in SUBSET rows, T # {}
      PROVE  /\ Pick(T) \in T
             /\ T \ {Pick(T)} \in SUBSET rows
             /\ count[T] = Pick(T).at + count[T \ {Pick(T)}]
  <2>1. Pick(T) \in T
    BY <1>1
  <2> DEFINE x == Pick(T)
             left == T \ {x}
  <2> HIDE DEF x
  <2>2. x \in rows /\ T = {x} \cup left /\ {x} \cap left = {} /\ left \in SUBSET rows
    BY <2>1 DEF x
  <2>3. IsFiniteSet({x}) /\ IsFiniteSet(left)
    BY <2>2, FS_Singleton, FS_Subset
  <2>4. Cardinality(Seconds({x})) = x.at
    BY <2>2, SecondsOfRow
  <2>5. Cardinality(Seconds({x} \cup left))
          = Cardinality(Seconds({x})) + Cardinality(Seconds(left))
    <3> HIDE DEF left
    <3>1. \A r \in {x} \cup left : r.at \in Nat
      BY <2>2
    <3> QED  BY <2>2, <2>3, <3>1, SecondsAddUp
  <2>6. count[T] = x.at + count[left]
    BY <2>2, <2>4, <2>5
  <2> QED  BY <2>1, <2>2, <2>6 DEF x
<1>2. count[{}] = 0
  <2>1. Seconds({}) = {}
    BY DEF Seconds
  <2> QED  BY <2>1, FS_EmptySet
<1>3. Fold(count)
  <2>1. \A T \in SUBSET rows :
           count[T] = IF T = {} THEN 0 ELSE Pick(T).at + count[T \ {Pick(T)}]
    BY <1>1, <1>2
  <2> QED  BY <2>1
<1>4. Fold(sum)
  <2> HIDE DEF Fold, count
  <2> QED  BY <1>3
<1>5. {} \in agree
  <2> HIDE DEF sum, count
  <2> QED  BY <1>2, <1>4
<1>6. ASSUME NEW T \in SUBSET rows, T # {}, T \ {Pick(T)} \in agree
      PROVE  T \in agree
  <2> HIDE DEF sum, count
  <2>1. sum[T] = Pick(T).at + sum[T \ {Pick(T)}]
    BY <1>4, <1>6
  <2> QED  BY <1>1, <1>6, <2>1
<1>7. SUBSET rows \subseteq agree
  <2>1. \A T \in SUBSET rows :
           T # {} => \E x \in T : T \ {x} \in agree => T \in agree
    BY <1>1, <1>6
  <2> HIDE DEF agree
  <2> QED  BY <1>5, <2>1, GrowingSets
<1>8. sum[rows] = Cardinality(Seconds(rows))
  <2> HIDE DEF sum
  <2> QED  BY <1>7
<1>9. SumAt(rows) = sum[rows]
  BY DEF SumAt, MapThenSumSet, MapThenFoldSet
<1> QED  BY <1>8, <1>9

\* As many rows, each later than every one of the others, have more seconds.
LEMMA LaterRowsWeighMore ==
  ASSUME NEW A, NEW B, IsFiniteSet(A), IsFiniteSet(B), Cardinality(A) = Cardinality(B),
         \A r \in A \cup B : r.at \in Nat,
         \A a \in A : \A b \in B : a.at > b.at,
         A # {}
  PROVE  Cardinality(Seconds(B)) < Cardinality(Seconds(A))
<1>1. PICK f : f \in Bijection(B, A)
  BY FS_SameCardinalityBij DEF ExistsBijection
<1>2. f \in [B -> A] /\ (\A b, c \in B : f[b] = f[c] => b = c) /\ \A a \in A : \E b \in B : f[b] = a
  BY <1>1 DEF Bijection, Injection, IsInjective, Surjection
<1> DEFINE g == [x \in Seconds(B) |-> <<f[x[1]], x[2]>>]
<1>3. g \in [Seconds(B) -> Seconds(A)]
  <2>1. ASSUME NEW x \in Seconds(B)
        PROVE  <<f[x[1]], x[2]>> \in Seconds(A)
    <3>1. x[1] \in B /\ f[x[1]] \in A /\ x[2] \in 1..x[1].at
      BY <1>2 DEF Seconds
    <3>2. x[2] \in 1..f[x[1]].at /\ x[2] \in Nat
      BY <3>1
    <3> QED  BY <3>1, <3>2 DEF Seconds
  <2> QED  BY <2>1
<1>4. g \in Injection(Seconds(B), Seconds(A))
  <2>1. ASSUME NEW x \in Seconds(B), NEW y \in Seconds(B), g[x] = g[y]
        PROVE  x = y
    <3>1. /\ x[1] \in B /\ y[1] \in B /\ f[x[1]] = f[y[1]] /\ x[2] = y[2]
          /\ x = <<x[1], x[2]>> /\ y = <<y[1], y[2]>>
      BY <2>1 DEF Seconds
    <3> QED  BY <3>1, <1>2
  <2> QED  BY <1>3, <2>1 DEF Injection, IsInjective
<1>5. g \notin Surjection(Seconds(B), Seconds(A))
  <2>1. PICK a \in A : TRUE
    OBVIOUS
  <2>2. PICK b \in B : f[b] = a
    BY <1>2
  <2>3. a.at \in Nat /\ b.at \in Nat /\ b.at < a.at
    OBVIOUS
  <2>4. <<a, a.at>> \in Seconds(A)
    BY <2>3 DEF Seconds
  <2>5. ASSUME NEW x \in Seconds(B), g[x] = <<a, a.at>>
        PROVE  FALSE
    <3>1. x[1] \in B /\ f[x[1]] = a /\ x[2] = a.at /\ x[2] \in 1..x[1].at
      BY <2>5 DEF Seconds
    <3>2. x[1] = b
      BY <3>1, <2>2, <1>2
    <3> QED  BY <2>3, <3>1, <3>2
  <2> QED  BY <2>4, <2>5 DEF Surjection
<1>6. IsFiniteSet(Seconds(A)) /\ IsFiniteSet(Seconds(B))
  BY SecondsFinite
<1>7. /\ Cardinality(Seconds(B)) <= Cardinality(Seconds(A))
      /\ Cardinality(Seconds(B)) # Cardinality(Seconds(A))
  <2> HIDE DEF g
  <2> QED  BY <1>4, <1>5, <1>6, FS_Injection
<1> QED  BY <1>6, <1>7, FS_CardinalityType

\* A list and what became of it, as long as every row written since is later than
\* every row gone since: COUNT and SUM agree only if nothing has changed.
THEOREM VersionTellsApart ==
  ASSUME NEW base, NEW rows, IsFiniteSet(base), IsFiniteSet(rows),
         \A r \in base \cup rows : r.at \in Nat,
         \A r \in rows \ base : \A q \in base \ rows : r.at > q.at,
         BanlistCacheVersion(base) = BanlistCacheVersion(rows)
  PROVE  base = rows
<1> DEFINE both == base \cap rows
           gone == base \ rows
           new == rows \ base
<1>1. /\ base = gone \cup both /\ gone \cap both = {}
      /\ rows = new \cup both /\ new \cap both = {}
  OBVIOUS
<1>2. IsFiniteSet(gone) /\ IsFiniteSet(new) /\ IsFiniteSet(both)
  BY FS_Subset
<1>3. Cardinality(gone) = Cardinality(new)
  <2>1. Cardinality(base) = Cardinality(rows)
    BY DEF BanlistCacheVersion
  <2>2. Cardinality(gone) = Cardinality(base) - Cardinality(both)
    BY FS_Difference
  <2>3. Cardinality(new) = Cardinality(rows) - Cardinality(both)
    <3>1. Cardinality(new) = Cardinality(rows) - Cardinality(rows \cap base)
      BY FS_Difference
    <3>2. rows \cap base = both
      OBVIOUS
    <3> QED  BY <3>1, <3>2
  <2> QED  BY <2>1, <2>2, <2>3
<1>4. Cardinality(Seconds(gone)) = Cardinality(Seconds(new))
  <2> DEFINE g == Cardinality(Seconds(gone))
             n == Cardinality(Seconds(new))
             b == Cardinality(Seconds(both))
  <2>1. SumAt(base) = SumAt(rows)
    BY DEF BanlistCacheVersion
  <2>2. Cardinality(Seconds(base)) = Cardinality(Seconds(rows))
    BY <2>1, SumIsCount
  <2>3. Cardinality(Seconds(base)) = g + b
    <3> HIDE DEF gone, both
    <3> QED  BY <1>1, <1>2, SecondsAddUp
  <2>4. Cardinality(Seconds(rows)) = n + b
    <3> HIDE DEF new, both
    <3> QED  BY <1>1, <1>2, SecondsAddUp
  <2>5. g \in Nat /\ n \in Nat /\ b \in Nat
    <3>1. IsFiniteSet(Seconds(gone)) /\ IsFiniteSet(Seconds(new)) /\ IsFiniteSet(Seconds(both))
      BY <1>2, SecondsFinite
    <3> QED  BY <3>1, FS_CardinalityType
  <2> HIDE DEF g, n, b
  <2>6. g + b = n + b
    BY <2>2, <2>3, <2>4
  <2>7. g = n
    BY <2>5, <2>6
  <2> QED  BY <2>7 DEF g, n
<1>5. new = {}
  <2> SUFFICES ASSUME new # {} PROVE FALSE
    OBVIOUS
  <2>1. Cardinality(Seconds(gone)) \in Nat
    BY <1>2, SecondsFinite, FS_CardinalityType
  <2>2. Cardinality(Seconds(gone)) < Cardinality(Seconds(new))
    <3>1. \A r \in new \cup gone : r.at \in Nat
      OBVIOUS
    <3>2. \A r \in new : \A q \in gone : r.at > q.at
      OBVIOUS
    <3> HIDE DEF new, gone
    <3> QED  BY <1>2, <1>3, <3>1, <3>2, LaterRowsWeighMore
  <2> QED  BY <1>4, <2>1, <2>2
<1>6. gone = {}
  BY <1>2, <1>3, <1>5, FS_EmptySet
<1> QED  BY <1>5, <1>6

-----------------------------------------------------------------------------
(* One step of a monitor keeps what its decision rests on.                 *)

\* A monitor that begins, returns or gives up has no grounds to keep.
LEMMA MonitorRestarts ==
  ASSUME TypeOK, NEW s \in Server,
         (\E p \in Player : Begin(s, p)) \/ Return(s) \/ Abort(s)
  PROVE  /\ mon'[s].pc \in {"version", "idle"}
         /\ mon'[s].base = {} /\ mon'[s].todo = {} /\ mon'[s].graded = {}
<1>0. DOMAIN mon = Server
  BY DEF TypeOK
<1>1. ASSUME NEW p \in Player, Begin(s, p)
      PROVE  mon'[s] = [Idle(p) EXCEPT !.pc = "version"]
  BY <1>0, <1>1 DEF Begin
<1>2. CASE Return(s) \/ Abort(s)
  <2>1. mon'[s] = Idle(mon[s].player)
    BY <1>0, <1>2 DEF Return, Abort
  <2> QED  BY <2>1 DEF Idle
<1> QED  BY <1>1, <1>2 DEF Idle

\* Asking and importing leave the decision and its grounds alone.
LEMMA PeerStepsKeepGrounds ==
  ASSUME TypeOK, NEW s \in Server,
         \/ PeersAnswer(s) \/ SkipKnown(s) \/ FoundNew(s) \/ CheckFails(s)
         \/ InsertFails(s) \/ InsertPeerBan(s)
  PROVE  LET m == mon[s]
             n == mon'[s]
         IN  /\ m.pc \in {"peers", "check", "insert"} /\ n.pc \in {"check", "insert"}
             /\ n.base = m.base /\ n.todo = m.todo /\ n.graded = m.graded
             /\ n.player = m.player /\ n.outcome = m.outcome
<1> DEFINE m == mon[s]
<1>0. m \in Monitor /\ DOMAIN mon = Server
  BY DEF TypeOK
<1>1. CASE PeersAnswer(s)
  <2>1. PICK answer \in SUBSET PeerBan :
          mon' = [mon EXCEPT ![s].pc = "check", ![s].queue = answer, ![s].now = clock]
    BY <1>1 DEF PeersAnswer
  <2> QED  BY <1>0, <1>1, <2>1 DEF PeersAnswer, Monitor
<1>2. CASE SkipKnown(s)
  <2>1. PICK b \in m.queue : mon' = [mon EXCEPT ![s].queue = m.queue \ {b}]
    BY <1>2 DEF SkipKnown
  <2> QED  BY <1>0, <1>2, <2>1 DEF SkipKnown, Monitor
<1>3. CASE FoundNew(s) \/ CheckFails(s)
  <2>1. PICK b \in m.queue :
          mon' = [mon EXCEPT ![s].pc = "insert", ![s].pending = {b},
                             ![s].queue = m.queue \ {b}]
    BY <1>3 DEF FoundNew, CheckFails
  <2> QED  BY <1>0, <1>3, <2>1 DEF FoundNew, CheckFails, Monitor
<1>4. CASE InsertFails(s)
  BY <1>0, <1>4 DEF InsertFails, Monitor
<1>5. CASE InsertPeerBan(s)
  BY <1>0, <1>5 DEF InsertPeerBan, Monitor
<1> QED  BY <1>1, <1>2, <1>3, <1>4, <1>5

\* The step of a monitor keeps the grounds of its own decision.
LEMMA MonitorMoves ==
  ASSUME IInv, BanlistStep, NEW s \in Server, MonitorStep(s)
  PROVE  MonitorInv(s)'
<1> DEFINE m == mon[s]
           n == mon'[s]
<1>0. /\ m \in Monitor /\ DOMAIN mon = Server /\ MonitorInv(s) /\ BanlistInv
      /\ TypeOK
  BY DEF IInv, TypeOK
<1>1. CASE (\E p \in Player : Begin(s, p)) \/ Return(s) \/ Abort(s)
  <2>1. /\ n.pc \in {"version", "idle"}
        /\ n.base = {} /\ n.todo = {} /\ n.graded = {}
    BY <1>0, <1>1, MonitorRestarts
  <2>2. IsFiniteSet({})
    BY FS_EmptySet
  <2> QED  BY <2>1, <2>2 DEF MonitorInv, Counted, Written
<1>2. CASE ReadVersion(s)
  <2>1. /\ n.pc = "lookup" /\ n.base = banlist /\ n.todo = m.todo
        /\ n.graded = m.graded /\ n.player = m.player /\ UNCHANGED <<banlist, writes>>
    BY <1>0, <1>2 DEF ReadVersion, tables, Monitor
  <2> QED  BY <1>0, <2>1 DEF MonitorInv, BanlistInv, Counted, Written
<1>3. CASE LookupHit(s)
  <2> DEFINE c == cache[s][m.player]
  <2>1. /\ n.pc = "done" /\ n.base = m.base /\ n.from = c.base /\ n.todo = m.todo
        /\ n.graded = c.graded /\ n.player = m.player /\ n.outcome = c.outcome
        /\ UNCHANGED <<banlist, writes>>
    BY <1>0, <1>3 DEF LookupHit, tables, Monitor
  <2>2. m.pc = "lookup" /\ c.found
        /\ BanlistCacheVersion(c.base) = BanlistCacheVersion(m.base)
    BY <1>3 DEF LookupHit, Matches
  <2>3. m.player \in Player
    BY <1>0 DEF Monitor
  <2>4. EntryInv(s, m.player)
    BY <2>3 DEF IInv
  <2>5. ASSUME Later(c.base, m.base)
        PROVE  c.base = m.base
    <3>1. IsFiniteSet(c.base) /\ IsFiniteSet(m.base)
      BY <1>0, <2>2, <2>4 DEF MonitorInv, EntryInv
    <3>2. c.base \in SUBSET Row /\ m.base \in SUBSET Row
      BY <1>0, <2>2, <2>3, EntryType DEF Monitor
    <3>3. \A r \in c.base \cup m.base : r.at \in Nat
      BY <3>2 DEF Row
    <3>4. \A new \in m.base \ c.base : \A gone \in c.base \ m.base : new.at > gone.at
      BY <2>5 DEF Later
    <3> HIDE DEF c, m
    <3> QED  BY <2>2, <3>1, <3>3, <3>4, VersionTellsApart
  <2>6. ASSUME Later(n.from, n.base)
        PROVE  RowsOf(n.base, n.player) \cap banlist' \subseteq Counted(n.graded)
    BY <2>1, <2>2, <2>4, <2>5, <2>6 DEF EntryInv
  <2>7. Verdict(s)' = EvaluateBanEntries(Thresholds(s), c.graded)
    BY <2>1 DEF Verdict
  <2> QED  BY <1>0, <2>1, <2>2, <2>4, <2>6, <2>7
           DEF MonitorInv, EntryInv, Written, Counted
<1>4. CASE LookupMiss(s)
  <2>1. /\ n.pc = "list" /\ n.base = m.base /\ n.todo = m.todo
        /\ n.graded = m.graded /\ n.player = m.player /\ UNCHANGED <<banlist, writes>>
    BY <1>0, <1>4 DEF LookupMiss, tables, Monitor
  <2> QED  BY <1>0, <2>1 DEF MonitorInv, Counted, Written
<1>5. CASE ListRows(s)
  <2>1. /\ n.pc = "count" /\ n.base = m.base /\ n.todo = RowsOf(banlist, m.player)
        /\ n.graded = {} /\ n.player = m.player /\ UNCHANGED <<banlist, writes>>
    BY <1>0, <1>5 DEF ListRows, tables, Monitor
  <2>2. RowsOf(banlist, m.player) \subseteq banlist
    BY DEF RowsOf
  <2>3. IsFiniteSet(n.todo) /\ IsFiniteSet({})
    BY <1>0, <2>1, <2>2, FS_Subset, FS_EmptySet DEF BanlistInv
  <2> QED  BY <1>0, <2>1, <2>3 DEF MonitorInv, Counted, Written, RowsOf
<1>6. CASE CountRow(s)
  <2>1. PICK r \in m.todo : \E l \in ReadableLevels(r) :
          mon' = [mon EXCEPT
                   ![s].todo = m.todo \ {r},
                   ![s].graded = m.graded \cup {[row |-> r, level |-> l]}]
    BY <1>6 DEF CountRow
  <2>2. PICK l \in ReadableLevels(r) :
          mon' = [mon EXCEPT
                   ![s].todo = m.todo \ {r},
                   ![s].graded = m.graded \cup {[row |-> r, level |-> l]}]
    BY <2>1
  <2>3. /\ n.pc = "count" /\ m.pc = "count" /\ n.base = m.base
        /\ n.todo = m.todo \ {r} /\ n.player = m.player
        /\ n.graded = m.graded \cup {[row |-> r, level |-> l]}
        /\ UNCHANGED <<banlist, writes>>
    BY <1>0, <1>6, <2>2 DEF CountRow, tables, Monitor
  <2>4. IsFiniteSet(n.todo) /\ IsFiniteSet(n.graded)
    <3>1. IsFiniteSet(m.todo) /\ IsFiniteSet(m.graded)
      BY <1>0 DEF MonitorInv
    <3> QED  BY <2>3, <3>1, FS_AddElement, FS_RemoveElement
  <2>5. Counted(n.graded) = Counted(m.graded) \cup {r}
    <3> DEFINE g == [row |-> r, level |-> l]
    <3>1. g.row = r
      OBVIOUS
    <3>2. n.graded = m.graded \cup {g}
      BY <2>3
    <3> HIDE DEF g, n, m
    <3> QED  BY <3>1, <3>2 DEF Counted
  <2>6. r.player = m.player
    BY <1>0 DEF MonitorInv
  <2> QED  BY <1>0, <2>3, <2>4, <2>5, <2>6 DEF MonitorInv, Written
<1>7. CASE AskPeers(s) \/ Decide(s)
  <2>1. /\ m.pc = "count" /\ m.todo = {}
        /\ n.pc \in {"peers", "save"} /\ n.base = m.base /\ n.todo = m.todo
        /\ n.graded = m.graded /\ n.player = m.player /\ UNCHANGED <<banlist, writes>>
        /\ n.outcome = Verdict(s)
    BY <1>0, <1>7 DEF AskPeers, Decide, tables, Monitor
  <2>2. Verdict(s)' = Verdict(s)
    BY <2>1 DEF Verdict
  <2> QED  BY <1>0, <2>1, <2>2 DEF MonitorInv, Counted, Written
<1>8. CASE PeersAnswer(s) \/ SkipKnown(s) \/ FoundNew(s) \/ CheckFails(s)
           \/ InsertFails(s) \/ InsertPeerBan(s)
  <2>1. /\ m.pc \in {"peers", "check", "insert"} /\ n.pc \in {"check", "insert"}
        /\ n.base = m.base /\ n.todo = m.todo /\ n.graded = m.graded
        /\ n.player = m.player /\ n.outcome = m.outcome
    BY <1>0, <1>8, PeerStepsKeepGrounds
  <2>2. Verdict(s)' = Verdict(s)
    BY <2>1 DEF Verdict
  <2>3. m.base \in SUBSET Row /\ TypeOK
    BY <1>0 DEF Monitor, IInv
  <2>4. Written(m.base)' /\ m.base \cap banlist' \subseteq banlist
    <3>1. Written(m.base)
      BY <1>0 DEF MonitorInv
    <3> QED  BY <2>1, <2>3, <3>1, OldRowsStayGone
  <2>5. RowsOf(m.base, m.player) \cap banlist' \subseteq RowsOf(m.base, m.player) \cap banlist
    BY <2>4 DEF RowsOf
  <2> QED  BY <1>0, <2>1, <2>2, <2>4, <2>5 DEF MonitorInv, Counted, Written
<1>9. CASE PeersDone(s)
  <2>1. /\ m.pc = "check" /\ n.pc \in {"list", "save"} /\ n.base = m.base
        /\ n.todo = m.todo /\ n.graded = m.graded /\ n.player = m.player
        /\ n.outcome = m.outcome /\ UNCHANGED <<banlist, writes>>
    BY <1>0, <1>9 DEF PeersDone, tables, Monitor
  <2>2. Verdict(s)' = Verdict(s)
    BY <2>1 DEF Verdict
  <2> QED  BY <1>0, <2>1, <2>2 DEF MonitorInv, Counted, Written
<1>10. CASE Save(s)
  <2>1. /\ m.pc = "save" /\ n.pc = "done" /\ n.base = m.base
        /\ n.todo = m.todo /\ n.graded = m.graded /\ n.player = m.player
        /\ n.outcome = m.outcome /\ UNCHANGED <<banlist, writes>>
    BY <1>0, <1>10 DEF Save, Monitor
  <2>2. Verdict(s)' = Verdict(s)
    BY <2>1 DEF Verdict
  <2> QED  BY <1>0, <2>1, <2>2 DEF MonitorInv, Counted, Written
<1> QED  BY <1>1, <1>2, <1>3, <1>4, <1>5, <1>6, <1>7, <1>8, <1>9, <1>10
         DEF MonitorStep

\* Storing a decision stores its grounds with it; no other step adds an entry.
LEMMA EntryMoves ==
  ASSUME IInv, BanlistStep, NEW s \in Server, MonitorStep(s),
         NEW t \in Server, NEW p \in Player
  PROVE  EntryInv(t, p)'
<1> DEFINE m == mon[s]
<1>0. /\ m \in Monitor /\ MonitorInv(s) /\ TypeOK /\ EntryInv(t, p)
      /\ cache \in [Server -> [Player -> CacheEntry \cup {NoEntry}]]
  BY DEF IInv, TypeOK
<1>1. CASE Save(s) /\ t = s /\ p = m.player
  <2>1. cache'[t][p] = Entry(m) /\ m.pc = "save" /\ UNCHANGED <<banlist, writes>>
    BY <1>0, <1>1 DEF Save
  <2> QED  BY <1>0, <1>1, <2>1 DEF EntryInv, Entry, MonitorInv, Verdict, Written
<1>2. CASE ~(Save(s) /\ t = s /\ p = m.player)
  <2>1. CASE Save(s)
    BY <1>0, <1>2, <2>1, EntryKept DEF Save, Monitor
  <2>2. CASE ~Save(s)
    <3>1. cache' = cache
      BY <2>2 DEF MonitorStep, tables, Begin, ReadVersion, LookupHit, LookupMiss,
           ListRows, CountRow, AskPeers, Decide, PeersAnswer, SkipKnown, FoundNew,
           CheckFails, InsertPeerBan, InsertFails, PeersDone, Return, Abort
    <3> QED  BY <1>0, <3>1, EntryKept
  <2> QED  BY <2>1, <2>2
<1> QED  BY <1>1, <1>2

\* A step of a monitor counts a row of this node as "ultimate" or not at all.
LEMMA OwnLevelsKept ==
  ASSUME IInv, NEW s \in Server, MonitorStep(s)
  PROVE  /\ mon'[s].pc # "done" => OwnAreUltimate(mon'[s].graded, localNode')
         /\ \A p \in Player :
              cache'[s][p].found => OwnAreUltimate(cache'[s][p].graded, cache'[s][p].self)
<1> DEFINE m == mon[s]
           n == mon'[s]
<1>0. /\ m \in Monitor /\ m.player \in Player /\ DOMAIN mon = Server /\ TypeOK
      /\ m.pc # "done" => OwnAreUltimate(m.graded, localNode)
      /\ \A p \in Player :
           cache[s][p].found => OwnAreUltimate(cache[s][p].graded, cache[s][p].self)
  BY DEF IInv, TypeOK, Monitor
<1>1. n.pc # "done" => OwnAreUltimate(n.graded, localNode)
  <2>1. CASE (\E p \in Player : Begin(s, p)) \/ Return(s) \/ Abort(s)
    <3>1. n.graded = {}
      BY <1>0, <2>1, MonitorRestarts
    <3> QED  BY <3>1 DEF OwnAreUltimate
  <2>2. CASE LookupHit(s) \/ Save(s)
    <3>1. n.pc = "done"
      BY <1>0, <2>2 DEF LookupHit, Save, Monitor
    <3> QED  BY <3>1
  <2>3. CASE ListRows(s)
    <3>1. n.graded = {}
      BY <1>0, <2>3 DEF ListRows, Monitor
    <3> QED  BY <3>1 DEF OwnAreUltimate
  <2>4. CASE CountRow(s)
    <3>1. PICK r \in m.todo :
            \E l \in ReadableLevels(r) :
              mon' = [mon EXCEPT ![s].todo = m.todo \ {r},
                                 ![s].graded = m.graded \cup {[row |-> r, level |-> l]}]
      BY <2>4 DEF CountRow
    <3>2. PICK l \in ReadableLevels(r) :
            mon' = [mon EXCEPT ![s].todo = m.todo \ {r},
                               ![s].graded = m.graded \cup {[row |-> r, level |-> l]}]
      BY <3>1
    <3>3. n.graded = m.graded \cup {[row |-> r, level |-> l]} /\ m.pc = "count"
      BY <1>0, <2>4, <3>2 DEF CountRow, Monitor
    <3>4. r.source = localNode => l = "ultimate"
      BY <3>2 DEF ReadableLevels
    <3> QED  BY <1>0, <3>3, <3>4 DEF OwnAreUltimate
  <2>5. CASE PeersAnswer(s) \/ SkipKnown(s) \/ FoundNew(s) \/ CheckFails(s)
             \/ InsertFails(s) \/ InsertPeerBan(s)
    <3>1. n.graded = m.graded /\ m.pc # "done"
      BY <1>0, <2>5, PeerStepsKeepGrounds
    <3> QED  BY <1>0, <3>1
  <2>6. CASE ReadVersion(s) \/ LookupMiss(s) \/ AskPeers(s) \/ Decide(s) \/ PeersDone(s)
    <3>1. n.graded = m.graded /\ m.pc # "done"
      BY <1>0, <2>6 DEF ReadVersion, LookupMiss, AskPeers, Decide, PeersDone, Monitor
    <3> QED  BY <1>0, <3>1
  <2> QED  BY <2>1, <2>2, <2>3, <2>4, <2>5, <2>6 DEF MonitorStep
<1>2. ASSUME NEW p \in Player, cache'[s][p].found
      PROVE  OwnAreUltimate(cache'[s][p].graded, cache'[s][p].self)
  <2>1. CASE Save(s)
    <3>1. cache' = [cache EXCEPT ![s][m.player] = Entry(m)] /\ m.pc = "save"
      BY <2>1 DEF Save
    <3>2. cache'[s][p] = cache[s][p] \/ cache'[s][p] = Entry(m)
      BY <1>0, <3>1 DEF TypeOK
    <3> QED  BY <1>0, <1>2, <3>1, <3>2 DEF Entry
  <2>2. CASE ~Save(s)
    <3>1. cache' = cache
      BY <2>2 DEF MonitorStep, tables, Begin, ReadVersion, LookupHit, LookupMiss,
           ListRows, CountRow, AskPeers, Decide, PeersAnswer, SkipKnown, FoundNew,
           CheckFails, InsertPeerBan, InsertFails, PeersDone, Return, Abort
    <3> QED  BY <1>0, <1>2, <3>1
  <2> QED  BY <2>1, <2>2
<1>3. localNode' = localNode
  BY DEF MonitorStep, tables, identity, Begin, ReadVersion, LookupHit, LookupMiss, ListRows,
         CountRow, AskPeers, Decide, PeersAnswer, SkipKnown, FoundNew, CheckFails,
         InsertPeerBan, InsertFails, PeersDone, Save, Return, Abort
<1> QED  BY <1>1, <1>2, <1>3

-----------------------------------------------------------------------------
(* The invariant, and the properties that follow from it in each state.    *)

\* A monitor moves only itself.
LEMMA OtherMonitorsStay ==
  ASSUME TypeOK, NEW s \in Server, MonitorStep(s), NEW t \in Server \ {s}
  PROVE  mon'[t] = mon[t]
<1>0. DOMAIN mon = Server
  BY DEF TypeOK
<1>1. CASE \E p \in Player : Begin(s, p)
  BY <1>0, <1>1 DEF Begin
<1>2. CASE PeersAnswer(s) \/ SkipKnown(s) \/ FoundNew(s) \/ CheckFails(s) \/ CountRow(s)
  BY <1>0, <1>2 DEF PeersAnswer, SkipKnown, FoundNew, CheckFails, CountRow
<1>3. CASE ReadVersion(s) \/ LookupHit(s) \/ LookupMiss(s) \/ ListRows(s) \/ AskPeers(s)
           \/ Decide(s) \/ InsertPeerBan(s) \/ InsertFails(s) \/ PeersDone(s) \/ Save(s)
           \/ Return(s) \/ Abort(s)
  BY <1>0, <1>3 DEF ReadVersion, LookupHit, LookupMiss, ListRows, AskPeers, Decide,
       InsertPeerBan, InsertFails, PeersDone, Save, Return, Abort
<1> QED  BY <1>1, <1>2, <1>3 DEF MonitorStep

\* A monitor writes only the entries of its own server.
LEMMA OtherEntriesStay ==
  ASSUME TypeOK, NEW s \in Server, MonitorStep(s), NEW t \in Server \ {s}
  PROVE  cache'[t] = cache[t]
<1>1. CASE Save(s)
  BY <1>1 DEF Save, TypeOK
<1>2. CASE ~Save(s)
  BY <1>2 DEF MonitorStep, tables, Begin, ReadVersion, LookupHit, LookupMiss, ListRows,
       CountRow, AskPeers, Decide, PeersAnswer, SkipKnown, FoundNew, CheckFails,
       InsertPeerBan, InsertFails, PeersDone, Return, Abort
<1> QED  BY <1>1, <1>2

\* The invariant holds of the empty tables.
LEMMA InitHolds == Init => IInv
<1> SUFFICES ASSUME Init PROVE IInv
  OBVIOUS
<1>1. PICK p0 \in Player : mon = [s \in Server |-> Idle(p0)]
  BY DEF Init
<1>2. TypeOK
  <2>1. Idle(p0) \in Monitor
    BY IdleType DEF Control
  <2> QED  BY <1>1, <2>1, ConstantsAssumption DEF Init, TypeOK, Level
<1>3. BanlistInv
  BY FS_EmptySet DEF Init, BanlistInv, Written
<1>4. ASSUME NEW s \in Server
      PROVE  MonitorInv(s)
  <2>1. mon[s] = Idle(p0)
    BY <1>1
  <2> QED  BY <2>1, FS_EmptySet DEF Idle, MonitorInv, Written, Counted
<1>5. ASSUME NEW s \in Server, NEW p \in Player
      PROVE  EntryInv(s, p)
  BY DEF Init, EntryInv, NoEntry
<1>6. /\ \A s \in Server : OwnAreUltimate(mon[s].graded, localNode)
      /\ \A s \in Server, p \in Player : ~cache[s][p].found
  BY <1>1 DEF Init, NoEntry, Idle, OwnAreUltimate
<1> QED  BY <1>2, <1>3, <1>4, <1>5, <1>6 DEF IInv

\* An edit of the tables by someone else leaves every monitor where it is.
LEMMA EditKeepsInv ==
  ASSUME IInv, Next, UNCHANGED <<mon, localNode>>,
         \A s \in Server, p \in Player :
           cache'[s][p] = cache[s][p] \/ cache'[s][p] = NoEntry
  PROVE  IInv'
<1>1. TypeOK /\ BanlistInv
  BY DEF IInv
<1>2. TypeOK'
  BY <1>1, TypeMonitor, TypeEdits DEF Next
<1>3. BanlistStep /\ BanlistInv'
  BY <1>1, NextKeepsBanlist
<1>4. ASSUME NEW s \in Server
      PROVE  MonitorInv(s)'
  <2>1. MonitorInv(s)
    BY DEF IInv
  <2> QED  BY <1>1, <1>3, <2>1, MonitorKept
<1>5. ASSUME NEW s \in Server, NEW p \in Player
      PROVE  EntryInv(s, p)'
  <2>1. EntryInv(s, p)
    BY DEF IInv
  <2> QED  BY <1>1, <1>3, <2>1, EntryKept
<1>6. /\ \A s \in Server : (mon[s].pc # "done" => OwnAreUltimate(mon[s].graded, localNode))'
      /\ \A s \in Server, p \in Player :
           (cache[s][p].found => OwnAreUltimate(cache[s][p].graded, cache[s][p].self))'
  BY DEF IInv, OwnAreUltimate, NoEntry
<1> QED  BY <1>2, <1>3, <1>4, <1>5, <1>6 DEF IInv

\* After a start no decision is in hand, and the entries have kept their grounds and
\* the ID their own bans had.
LEMMA StartKeepsInv ==
  ASSUME IInv, NEW k \in Key, StartAgain(k)
  PROVE  IInv'
<1>1. TypeOK /\ BanlistInv /\ Next
  BY DEF IInv, Next
<1>2. TypeOK'
  BY <1>1, TypeEdits
<1>3. BanlistStep /\ BanlistInv'
  BY <1>1, NextKeepsBanlist
<1>4. ASSUME NEW s \in Server
      PROVE  mon'[s] = Idle(mon[s].player)
  BY DEF StartAgain
<1>5. ASSUME NEW s \in Server
      PROVE  MonitorInv(s)' /\ OwnAreUltimate(mon'[s].graded, localNode')
  <2>0. mon'[s] = Idle(mon[s].player)
    BY <1>4
  <2>1. /\ mon'[s].pc = "idle" /\ mon'[s].base = {} /\ mon'[s].todo = {}
        /\ mon'[s].graded = {}
    BY <2>0 DEF Idle
  <2> QED  BY <2>1, FS_EmptySet DEF MonitorInv, Written, Counted, OwnAreUltimate
<1>6. ASSUME NEW s \in Server, NEW p \in Player
      PROVE  /\ EntryInv(s, p)'
             /\ cache'[s][p].found => OwnAreUltimate(cache'[s][p].graded, cache'[s][p].self)
  <2>1. cache' = cache /\ EntryInv(s, p)
    BY DEF StartAgain, IInv
  <2> QED  BY <1>1, <1>3, <2>1, EntryKept DEF IInv
<1>7. /\ \A s \in Server : (mon[s].pc # "done" => OwnAreUltimate(mon[s].graded, localNode))'
      /\ \A s \in Server, p \in Player :
           (cache[s][p].found => OwnAreUltimate(cache[s][p].graded, cache[s][p].self))'
  BY <1>5, <1>6 DEF OwnAreUltimate
<1> QED  BY <1>2, <1>3, <1>5, <1>6, <1>7 DEF IInv

\* A step of any monitor keeps the invariant.
LEMMA MonitorKeepsInv ==
  ASSUME IInv, NEW s \in Server, MonitorStep(s)
  PROVE  IInv'
<1>1. TypeOK /\ BanlistInv /\ Next
  BY DEF IInv, Next
<1>2. TypeOK'
  BY <1>1, TypeMonitor
<1>3. BanlistStep /\ BanlistInv'
  BY <1>1, NextKeepsBanlist
<1>4. MonitorInv(s)'
  BY <1>3, MonitorMoves
<1>5. ASSUME NEW t \in Server \ {s}
      PROVE  MonitorInv(t)'
  <2>1. mon'[t] = mon[t] /\ MonitorInv(t)
    BY <1>1, OtherMonitorsStay DEF IInv
  <2> QED  BY <1>1, <1>3, <2>1, MonitorKept
<1>6. ASSUME NEW t \in Server, NEW p \in Player
      PROVE  EntryInv(t, p)'
  BY <1>3, EntryMoves
<1>7. ASSUME NEW t \in Server
      PROVE  /\ mon'[t].pc # "done" => OwnAreUltimate(mon'[t].graded, localNode')
             /\ \A p \in Player :
                  cache'[t][p].found => OwnAreUltimate(cache'[t][p].graded, cache'[t][p].self)
  <2>1. CASE t = s
    BY <2>1, OwnLevelsKept
  <2>2. CASE t # s
    <3>1. mon'[t] = mon[t] /\ cache'[t] = cache[t]
      BY <1>1, <2>2, OtherMonitorsStay, OtherEntriesStay
    <3>2. localNode' = localNode
      BY DEF MonitorStep, tables, identity, Begin, ReadVersion, LookupHit, LookupMiss,
           ListRows, CountRow, AskPeers, Decide, PeersAnswer, SkipKnown, FoundNew,
           CheckFails, InsertPeerBan, InsertFails, PeersDone, Save, Return, Abort
    <3> QED  BY <3>1, <3>2 DEF IInv
  <2> QED  BY <2>1, <2>2
<1>8. /\ \A t \in Server : (mon[t].pc # "done" => OwnAreUltimate(mon[t].graded, localNode))'
      /\ \A t \in Server, p \in Player :
           (cache[t][p].found => OwnAreUltimate(cache[t][p].graded, cache[t][p].self))'
  BY <1>7 DEF OwnAreUltimate
<1> QED  BY <1>2, <1>3, <1>4, <1>5, <1>6, <1>8 DEF IInv

\* The inductive invariant holds in every reachable state: a decision in hand or
\* in the cache rests on the rows of the list whose version was read, as far as
\* they are still in the table.
THEOREM Invariance == Spec => []IInv
<1>1. IInv /\ [Next]_vars => IInv'
  <2> SUFFICES ASSUME IInv, [Next]_vars PROVE IInv'
    OBVIOUS
  <2>1. CASE UNCHANGED vars
    <3>1. TypeOK' /\ BanlistInv'
      BY <2>1 DEF vars, IInv, TypeOK, BanlistInv, Written
    <3>2. ASSUME NEW s \in Server
          PROVE  MonitorInv(s)'
      <4>1. MonitorInv(s)
        BY DEF IInv
      <4> QED  BY <2>1, <4>1 DEF vars, MonitorInv, Written, Verdict
    <3>3. ASSUME NEW s \in Server, NEW p \in Player
          PROVE  EntryInv(s, p)'
      <4>1. EntryInv(s, p)
        BY DEF IInv
      <4> QED  BY <2>1, <4>1 DEF vars, EntryInv, Written
    <3>4. /\ \A s \in Server : (mon[s].pc # "done" => OwnAreUltimate(mon[s].graded, localNode))'
          /\ \A s \in Server, p \in Player :
               (cache[s][p].found => OwnAreUltimate(cache[s][p].graded, cache[s][p].self))'
      BY <2>1 DEF vars, IInv, OwnAreUltimate
    <3> QED  BY <3>1, <3>2, <3>3, <3>4 DEF IInv
  <2>2. ASSUME NEW s \in Server, MonitorStep(s)
        PROVE  IInv'
    BY <2>2, MonitorKeepsInv
  <2>3. CASE BanlistEdit \/ NodeEdit \/ Tick
    <3>1. UNCHANGED <<mon, cache, localNode>>
      BY <2>3 DEF BanlistEdit, CreateBanEntry, UpdateBanEntry, DeleteBanEntry,
           DeleteLocalBans, NodeEdit, DeleteNode, UpsertNode, Tick, others, identity
    <3> QED  BY <2>3, <3>1, EditKeepsInv DEF Next
  <2>4. CASE CacheEdit
    <3>1. UNCHANGED <<mon, localNode>>
          /\ \A s \in Server, p \in Player :
               cache'[s][p] = cache[s][p] \/ cache'[s][p] = NoEntry
      BY <2>4 DEF IInv, TypeOK, identity, CacheEdit, DeletePlayerDecisionCache,
           ClearServerPlayerDecisionCache, ClearAllPlayerDecisionCache
    <3> QED  BY <2>4, <3>1, EditKeepsInv DEF Next
  <2>5. ASSUME NEW k \in Key, ReplaceIdentity(k)
        PROVE  IInv'
    <3>1. UNCHANGED <<mon, cache, localNode>> /\ Next
      BY <2>5 DEF ReplaceIdentity, Next
    <3> QED  BY <3>1, EditKeepsInv
  <2>6. ASSUME NEW k \in Key, StartAgain(k)
        PROVE  IInv'
    BY <2>6, StartKeepsInv
  <2> QED  BY <2>1, <2>2, <2>3, <2>4, <2>5, <2>6 DEF Next
<1> QED  BY <1>1, InitHolds, PTL DEF Spec

\* A graded set that stands and covers the rows is what grading them gives now.
LEMMA GradedIsCurrent ==
  ASSUME NEW graded \in SUBSET Graded, NEW rows, Stands(graded),
         Counted(graded) = rows
  PROVE  graded = GradeAll(rows)
<1>1. ASSUME NEW g \in graded
      PROVE  g \in GradeAll(rows)
  <2>1. g = [row |-> g.row, level |-> g.level] /\ g.level = LevelOf(g.row)
    BY DEF Graded, Stands
  <2>2. g.row \in rows
    BY DEF Counted
  <2> QED  BY <2>1, <2>2 DEF GradeAll
<1>2. ASSUME NEW r \in rows
      PROVE  [row |-> r, level |-> LevelOf(r)] \in graded
  <2>1. PICK g \in graded : g.row = r
    BY DEF Counted
  <2>2. g = [row |-> r, level |-> LevelOf(r)]
    BY <2>1 DEF Graded, Stands
  <2> QED  BY <2>2
<1> QED  BY <1>1, <1>2 DEF GradeAll

\* Grading a finite list gives as many graded rows, and finitely many.
LEMMA GradeAllFinite ==
  ASSUME NEW rows, IsFiniteSet(rows)
  PROVE  IsFiniteSet(GradeAll(rows))
<1> DEFINE f == [r \in rows |-> [row |-> r, level |-> LevelOf(r)]]
<1>1. f \in Surjection(rows, GradeAll(rows))
  BY DEF Surjection, GradeAll
<1> QED  BY <1>1, FS_Surjection

-----------------------------------------------------------------------------
(* The properties.                                                         *)

\* An entry that would be found was stored for the list that is there, unless a
\* row was written that is not later than one gone since.
LEMMA HitsMeanSameList ==
  ASSUME IInv, NEW s \in Server, NEW p \in Player,
         WouldHit(cache[s][p]), EditsAreLater(cache[s][p].base)
  PROVE  /\ cache[s][p].base = banlist
         /\ cache[s][p].found /\ EntryInv(s, p)
         /\ cache[s][p].graded \in SUBSET Graded
         /\ RowsOf(banlist, p) \subseteq Counted(cache[s][p].graded)
<1> DEFINE c == cache[s][p]
<1>1. c.found /\ BanlistCacheVersion(c.base) = BanlistCacheVersion(banlist)
  BY DEF WouldHit, Matches
<1>2. EntryInv(s, p) /\ BanlistInv /\ TypeOK
  BY DEF IInv
<1>3. c.graded \in SUBSET Graded /\ c.base \in SUBSET Row
  BY <1>1, <1>2, EntryType
<1>4. c.base = banlist
  <2>1. IsFiniteSet(c.base) /\ IsFiniteSet(banlist)
    BY <1>1, <1>2 DEF EntryInv, BanlistInv
  <2>2. \A r \in c.base \cup banlist : r.at \in Nat
    BY <1>2, <1>3 DEF TypeOK, Row
  <2>3. \A new \in banlist \ c.base : \A gone \in c.base \ banlist : new.at > gone.at
    BY DEF EditsAreLater, Later
  <2> HIDE DEF c
  <2> QED  BY <1>1, <2>1, <2>2, <2>3, VersionTellsApart
<1>5. RowsOf(banlist, p) \subseteq Counted(c.graded)
  BY <1>1, <1>2, <1>4 DEF EntryInv, RowsOf
<1> QED  BY <1>1, <1>2, <1>3, <1>4, <1>5

\* For every set of servers, players and peers: a cached decision that would be
\* found now agrees with the tables unless a row it rests on was edited, removed
\* or re-graded since, or its source had been misread, or a row was written since
\* that is not later than every row that went.
THEOREM HitsSurviveEdits == Spec => []HitSurvivesEdits
<1>1. IInv => HitSurvivesEdits
  <2> SUFFICES ASSUME IInv, NEW s \in Server, NEW p \in Player,
                      WouldHit(cache[s][p]), Stands(cache[s][p].graded),
                      EditsAreLater(cache[s][p].base)
               PROVE  cache[s][p].outcome = Judge(s, RowsOf(banlist, p))
    BY DEF HitSurvivesEdits
  <2> DEFINE c == cache[s][p]
  <2>1. /\ c.base = banlist /\ c.found /\ EntryInv(s, p)
        /\ c.graded \in SUBSET Graded
        /\ RowsOf(banlist, p) \subseteq Counted(c.graded)
    BY HitsMeanSameList
  <2>2. Counted(c.graded) = RowsOf(banlist, p)
    <3>1. Counted(c.graded) \subseteq banlist
      BY DEF Counted, Stands
    <3> QED  BY <2>1, <3>1 DEF EntryInv, RowsOf
  <2>3. c.graded = GradeAll(RowsOf(banlist, p))
    BY <2>1, <2>2, GradedIsCurrent
  <2> QED  BY <2>1, <2>3 DEF EntryInv, Judge
<1> QED  BY <1>1, Invariance, PTL

\* For every policy and however the trust in peers was changed or misread: a cached
\* allow that would be found contradicts no ban under the ID the process was started
\* with, if it was taken under the same ID and no row was written since the list it
\* was taken for that is not later than every row that went.
THEOREM OwnBansHeeded == Spec => []OwnBansAreHeeded
<1>1. IInv => OwnBansAreHeeded
  <2> SUFFICES ASSUME IInv, NEW s \in Server, NEW p \in Player,
                      WouldHit(cache[s][p]), cache[s][p].self = localNode,
                      EditsAreLater(cache[s][p].base), cache[s][p].outcome = "none"
               PROVE  Judge(s, {r \in RowsOf(banlist, p) : r.source = localNode}) = "none"
    BY DEF OwnBansAreHeeded
  <2> DEFINE c == cache[s][p]
             own == {r \in RowsOf(banlist, p) : r.source = localNode}
  <2>1. /\ c.found /\ EntryInv(s, p) /\ c.graded \in SUBSET Graded
        /\ RowsOf(banlist, p) \subseteq Counted(c.graded)
    BY HitsMeanSameList
  <2>2. OwnAreUltimate(c.graded, localNode)
    BY <2>1 DEF IInv
  <2>3. ASSUME NEW r \in own
        PROVE  [row |-> r, level |-> LevelOf(r)] \in c.graded
    <3>1. PICK g \in c.graded : g.row = r
      BY <2>1 DEF Counted
    <3>2. g.level = "ultimate" /\ LevelOf(r) = "ultimate"
      BY <2>2, <3>1 DEF OwnAreUltimate, LevelOf, TrustLevelForBan
    <3>3. g = [row |-> r, level |-> LevelOf(r)]
      BY <2>1, <3>1, <3>2 DEF Graded
    <3> QED  BY <3>3
  <2>4. GradeAll(own) \subseteq c.graded
    BY <2>3 DEF GradeAll
  <2>5. IsFiniteSet(c.graded) /\ EvaluateBanEntries(Thresholds(s), c.graded) = "none"
    BY <2>1 DEF EntryInv
  <2> QED  BY <2>4, <2>5, ThresholdsType, MoreRowsMeetMore DEF Judge
<1> QED  BY <1>1, Invariance, PTL

\* No player whom the list condemns that the check began with is let in, unless a
\* row that counts was edited or removed, or the trust in its source changed or
\* misread, since it was counted (a cached decision: when it was stored), or the
\* decision was cached and found although since then a row was written that is not
\* later than every row that went.
THEOREM NoBanIsMissed == Spec => []NoMissedBan
<1>1. IInv => NoMissedBan
  <2> DEFINE Condemning(s) == RowsOf(mon[s].base, mon[s].player)
             CountedOf(s) == {g \in mon[s].graded : g.row \in Condemning(s)}
  <2> SUFFICES ASSUME IInv, NEW s \in Server, mon[s].pc = "done",
                      mon[s].outcome = "none", Later(mon[s].from, mon[s].base),
                      Condemning(s) \subseteq banlist, Stands(CountedOf(s))
               PROVE  Judge(s, Condemning(s)) = "none"
    BY DEF NoMissedBan
  <2> DEFINE m == mon[s]
  <2>1. MonitorInv(s) /\ m.graded \in SUBSET Graded
    BY DEF IInv, TypeOK, Monitor
  <2>2. IsFiniteSet(m.graded) /\ EvaluateBanEntries(Thresholds(s), m.graded) = "none"
    BY <2>1 DEF MonitorInv, Verdict
  <2>3. Condemning(s) \subseteq Counted(m.graded)
    BY <2>1 DEF MonitorInv
  <2>4. GradeAll(Condemning(s)) \subseteq m.graded
    <3>1. ASSUME NEW r \in Condemning(s)
          PROVE  [row |-> r, level |-> LevelOf(r)] \in m.graded
      <4>1. PICK g \in m.graded : g.row = r
        BY <2>3 DEF Counted
      <4>2. g \in CountedOf(s)
        BY <4>1
      <4>3. g = [row |-> r, level |-> LevelOf(r)]
        BY <2>1, <4>1, <4>2 DEF Graded, Stands
      <4> QED  BY <4>1, <4>3
    <3> QED  BY <3>1 DEF GradeAll
  <2> QED  BY <2>2, <2>4, ThresholdsType, MoreRowsMeetMore DEF Judge
<1> QED  BY <1>1, Invariance, PTL

\* A kick is justified by the tables at the moment it is carried out, unless a row
\* that counted was edited, removed, re-graded or misread since it was counted.
THEOREM KicksStand == Spec => []KickStands
<1>1. IInv => KickStands
  <2> SUFFICES ASSUME IInv, NEW s \in Server, mon[s].pc = "done",
                      mon[s].outcome # "none", Stands(mon[s].graded)
               PROVE  Judge(s, RowsOf(banlist, mon[s].player)) # "none"
    BY DEF KickStands
  <2> DEFINE m == mon[s]
             rows == RowsOf(banlist, m.player)
  <2>1. MonitorInv(s) /\ BanlistInv /\ m.graded \in SUBSET Graded
    BY DEF IInv, TypeOK, Monitor
  <2>2. EvaluateBanEntries(Thresholds(s), m.graded) # "none"
    BY <2>1 DEF MonitorInv, Verdict
  <2>3. IsFiniteSet(GradeAll(rows))
    <3>1. rows \subseteq banlist
      BY DEF RowsOf
    <3> QED  BY <2>1, <3>1, FS_Subset, GradeAllFinite DEF BanlistInv
  <2>4. m.graded \subseteq GradeAll(rows)
    <3>1. ASSUME NEW g \in m.graded
          PROVE  g.row \in rows /\ g = [row |-> g.row, level |-> LevelOf(g.row)]
      BY <2>1 DEF Graded, Stands, MonitorInv, Counted, RowsOf
    <3> QED  BY <3>1 DEF GradeAll
  <2> QED  BY <2>2, <2>3, <2>4, ThresholdsType, MoreRowsMeetMore DEF Judge
<1> QED  BY <1>1, Invariance, PTL
=============================================================================
