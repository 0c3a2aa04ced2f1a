----------------------------- MODULE BanPolicy -----------------------------
(***************************************************************************)
(* The pure part of a decision: which trust level a ban row counts for,    *)
(* which thresholds a server uses, and which level, if any, its rows       *)
(* satisfy.  Rows already looked up are a "graded" set: each element holds *)
(* a row and the level it was counted for.                                 *)
(***************************************************************************)
EXTENDS Integers, FiniteSets

Level == {"ultimate", "trusted", "friend", "unknown", "untrusted"}

\* The order in which evaluateBanEntries tries the levels.
Rank == [ultimate |-> 1, trusted |-> 2, friend |-> 3, unknown |-> 4, untrusted |-> 5]

\* Thresholds used when neither the instance nor the default policy sets one.
Fallback == [ultimate |-> 1, trusted |-> 2, friend |-> 5, unknown |-> 20, untrusted |-> 0]

\* A policy as written in the configuration: a level that is not set is not in
\* its domain.
IsPolicy(f) == DOMAIN f \subseteq Level /\ \A l \in DOMAIN f : f[l] \in Int

ThresholdValue(override, base, level) ==
  IF level \in DOMAIN override THEN override[level]
  ELSE IF level \in DOMAIN base THEN base[level]
  ELSE Fallback[level]

ResolvePolicy(base, override) == [l \in Level |-> ThresholdValue(override, base, l)]

TrustLevelAsStored(localNode, nodes, source) ==
  IF source = localNode THEN "ultimate"
  ELSE IF source \in DOMAIN nodes THEN nodes[source] ELSE "unknown"

\* nodes maps every peer to its level in the nodes table, or to "absent"; nobody
\* else is in it.
TrustLevelForBan(localNode, nodes, source) ==
  IF source = localNode THEN "ultimate"
  ELSE IF source \notin DOMAIN nodes \/ nodes[source] = "absent" THEN "unknown"
  ELSE nodes[source]

LevelCount(graded, level) == Cardinality({g \in graded : g.level = level})

LevelsMet(thresholds, graded) ==
  {l \in Level : thresholds[l] > 0 /\ LevelCount(graded, l) >= thresholds[l]}

\* The level named in policy_met, or "none" when the player is allowed: the
\* decision is "kick" exactly when the outcome is a level.
EvaluateBanEntries(thresholds, graded) ==
  LET met == LevelsMet(thresholds, graded)
  IN  IF met = {} THEN "none"
      ELSE CHOOSE l \in met : \A m \in met : Rank[l] <= Rank[m]

Outcome == Level \cup {"none"}
=============================================================================
