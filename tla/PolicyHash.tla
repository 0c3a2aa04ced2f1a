----------------------------- MODULE PolicyHash -----------------------------
(***************************************************************************)
(* A monitor keeps the policy it resolved when it started.  Decisions      *)
(* cached under an older policy must not be found by it, and the version   *)
(* of the banlist does not tell policies apart, so a starting monitor      *)
(* compares a hash in table metadata with the hash of its policy and       *)
(* clears its part of the cache when they differ.  The three statements    *)
(* are separate, any of them may fail (a failure is logged and the start   *)
(* goes on), and the monitor may be cancelled or the process die between   *)
(* any two.  This is one server; an absent row of a table is the empty     *)
(* set, and a cache entry is the policy it was decided under.              *)
(***************************************************************************)
EXTENDS FiniteSets

CONSTANTS
  Player,   \* player UUIDs
  Text,     \* kick messages with their support contact
  Limits    \* the thresholds of the five levels

Policy == [text : Text, limits : Limits]

HashLimits(p) == p.limits

\* HashPolicy covers all that is copied into a decision; two policies that
\* differ are taken to hash differently.
HashPolicy(p) == <<p.text, p.limits>>
Hash == Text \X Limits

VARIABLES
  config,  \* the policy the configuration gives this server
  hash,    \* policy_hash of this server in table metadata
  cache,   \* this server's part of player_decision_cache
  pc,      \* where the monitor is
  policy,  \* the policy the monitor resolved when it started
  sound    \* history: no statement of a start failed since the last clear

policyVars == <<config, hash, cache, pc, policy, sound>>

PolicyInit ==
  /\ config \in Policy
  /\ hash = {}
  /\ cache = [p \in Player |-> {}]
  /\ pc = "stopped"
  /\ policy = config
  /\ sound = TRUE

Start ==
  /\ pc = "stopped"
  /\ pc' = "get"
  /\ policy' = config
  /\ UNCHANGED <<config, hash, cache, sound>>

\* A mismatch clears the cache, a first run stores the hash only.
GetPolicyHash ==
  /\ pc = "get"
  /\ pc' = IF hash = {} THEN "set"
           ELSE IF hash # {HashPolicy(policy)} THEN "clear" ELSE "running"
  /\ UNCHANGED <<config, hash, cache, policy, sound>>

\* A failed SELECT is handled like a first run.
GetPolicyHashFails ==
  /\ pc = "get"
  /\ pc' = "set"
  /\ sound' = FALSE
  /\ UNCHANGED <<config, hash, cache, policy>>

ClearOnePlayer ==
  /\ pc = "clear"
  /\ \E p \in Player : cache' = [cache EXCEPT ![p] = {}]
  /\ pc' = "set"
  /\ sound' = TRUE
  /\ UNCHANGED <<config, hash, policy>>

ClearServerCache ==
  /\ pc = "clear"
  /\ cache' = [p \in Player |-> {}]
  /\ pc' = "set"
  /\ sound' = TRUE
  /\ UNCHANGED <<config, hash, policy>>

ClearServerCacheFails ==
  /\ pc = "clear"
  /\ pc' = "set"
  /\ sound' = FALSE
  /\ UNCHANGED <<config, hash, cache, policy>>

SetPolicyHash ==
  /\ pc = "set"
  /\ hash' = {HashPolicy(policy)}
  /\ pc' = "running"
  /\ UNCHANGED <<config, cache, policy, sound>>

SetPolicyHashFails ==
  /\ pc = "set"
  /\ pc' = "running"
  /\ sound' = FALSE
  /\ UNCHANGED <<config, hash, cache, policy>>

\* decidePlayer stores the decision it took under the policy of its monitor.
SaveDecision(p) ==
  /\ pc = "running"
  /\ cache' = [cache EXCEPT ![p] = {policy}]
  /\ UNCHANGED <<config, hash, pc, policy, sound>>

\* ApplyConfig cancels the monitor and waits for it (every statement after the
\* cancellation fails and changes nothing), or the process stops or dies.
Stop ==
  /\ pc # "stopped"
  /\ pc' = "stopped"
  /\ UNCHANGED <<config, hash, cache, policy, sound>>

\* The administrator saves the settings; the monitor notices when it restarts.
EditPolicy(p) ==
  /\ config' = p
  /\ UNCHANGED <<hash, cache, pc, policy, sound>>

\* A removed ban, or the "clear cache" button.
DropEntries(players) ==
  /\ cache' = [p \in Player |-> IF p \in players THEN {} ELSE cache[p]]
  /\ UNCHANGED <<config, hash, pc, policy, sound>>

PolicyNext ==
  \/ Start
  \/ GetPolicyHash \/ GetPolicyHashFails
  \/ ClearServerCache \/ ClearServerCacheFails
  \/ SetPolicyHash \/ SetPolicyHashFails
  \/ \E p \in Player : SaveDecision(p)
  \/ Stop
  \/ \E p \in Policy : EditPolicy(p)
  \/ \E p \in Player : DropEntries({p})
  \/ DropEntries(Player)

PolicySpec == PolicyInit /\ [][PolicyNext]_policyVars

-----------------------------------------------------------------------------
(* Properties.                                                             *)

AtMostOne(S) == {{}} \cup {{e} : e \in S}

\* Every row and every local variable holds what the code can put there.
PolicyTypeOK ==
  /\ config \in Policy
  /\ hash \in AtMostOne(Hash)
  /\ cache \in [Player -> AtMostOne(Policy)]
  /\ pc \in {"stopped", "get", "clear", "set", "running"}
  /\ policy \in Policy
  /\ sound \in BOOLEAN

FollowsRunningPolicy == \A p \in Player : cache[p] \subseteq {policy}

\* After a change of policy players are judged by the new thresholds and told
\* the new message: all that a running monitor can find in the cache was decided
\* under the policy it runs with, unless a statement of a start failed and no
\* start has cleared the cache since.
RunningPolicyDecides ==
  pc = "running" /\ sound => FollowsRunningPolicy

\* The stored hash vouches for the cache between any two statements, so the
\* process may die anywhere: the next start clears too much, never too little.
HashVouchesForCache ==
  sound => \A p \in Player : \A q \in cache[p] : hash = {HashPolicy(q)}

-----------------------------------------------------------------------------
(* The inductive invariant.                                                *)

\* A monitor skips the clear only if the stored hash is its own, or absent.
SkipsClearSafely ==
  /\ pc = "running" => hash = {HashPolicy(policy)}
  /\ pc = "set" => \A p \in Player : cache[p] = {}

PolicyInv == PolicyTypeOK /\ HashVouchesForCache /\ (sound => SkipsClearSafely)
=============================================================================
