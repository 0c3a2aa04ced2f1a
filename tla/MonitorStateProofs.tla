------------------------- MODULE MonitorStateProofs -------------------------
(***************************************************************************)
(* What a monitor keeps from one start or one poll to the next: the        *)
(* decisions of its policy, guarded by the hash in table metadata, and its *)
(* place in the log.  For every set of players and policies no decision of *)
(* an older policy is found; for every number of lines and files the       *)
(* tailer gives the lines of the log, whole, in order and once.            *)
(***************************************************************************)
EXTENDS PolicyHash, LogTailer, SequenceTheorems, FiniteSetTheorems, TLAPS

-----------------------------------------------------------------------------
(* The policy hash.                                                        *)

\* Everything starts with an empty cache and no hash.
LEMMA PolicyInitHolds == PolicyInit => PolicyInv
BY DEF PolicyInit, PolicyInv, PolicyTypeOK, AtMostOne, Policy, HashVouchesForCache, SkipsClearSafely

\* The steps of a start keep the invariant: the one that fails loses "sound".
LEMMA StartKeepsPolicy ==
  ASSUME PolicyInv,
         \/ Start \/ GetPolicyHash \/ GetPolicyHashFails
         \/ ClearServerCache \/ ClearServerCacheFails
         \/ SetPolicyHash \/ SetPolicyHashFails
  PROVE  PolicyInv'
<1> USE DEF PolicyInv, PolicyTypeOK, AtMostOne, HashVouchesForCache, SkipsClearSafely
<1>1. CASE Start
  BY <1>1 DEF Start
<1>2. CASE GetPolicyHash
  BY <1>2 DEF GetPolicyHash
<1>3. CASE GetPolicyHashFails \/ ClearServerCacheFails \/ SetPolicyHashFails
  BY <1>3 DEF GetPolicyHashFails, ClearServerCacheFails, SetPolicyHashFails
<1>4. CASE ClearServerCache
  BY <1>4 DEF ClearServerCache
<1>5. CASE SetPolicyHash
  <2>1. HashPolicy(policy) \in Hash
    BY DEF HashPolicy, Hash, Policy
  <2> QED  BY <1>5, <2>1 DEF SetPolicyHash
<1> QED  BY <1>1, <1>2, <1>3, <1>4, <1>5

\* So do the steps of a running monitor, of the administrator, and a stop.
LEMMA OthersKeepPolicy ==
  ASSUME PolicyInv,
         \/ \E p \in Player : SaveDecision(p)
         \/ Stop
         \/ \E p \in Policy : EditPolicy(p)
         \/ \E players \in SUBSET Player : DropEntries(players)
         \/ UNCHANGED policyVars
  PROVE  PolicyInv'
<1> USE DEF PolicyInv, PolicyTypeOK, AtMostOne, HashVouchesForCache, SkipsClearSafely
<1>1. CASE \E p \in Player : SaveDecision(p)
  BY <1>1 DEF SaveDecision
<1>2. CASE Stop
  BY <1>2 DEF Stop
<1>3. CASE \E p \in Policy : EditPolicy(p)
  BY <1>3 DEF EditPolicy
<1>4. CASE \E players \in SUBSET Player : DropEntries(players)
  BY <1>4 DEF DropEntries
<1>5. CASE UNCHANGED policyVars
  BY <1>5 DEF policyVars
<1> QED  BY <1>1, <1>2, <1>3, <1>4, <1>5

\* The inductive invariant: while no statement of a start has failed since the
\* last clear, the hash vouches for the cache and a running monitor has stored
\* its own.
THEOREM PolicyInvariance == PolicySpec => []PolicyInv
<1>1. PolicyInv /\ [PolicyNext]_policyVars => PolicyInv'
  <2> SUFFICES ASSUME PolicyInv, [PolicyNext]_policyVars PROVE PolicyInv'
    OBVIOUS
  <2>1. CASE \/ \E p \in Player : DropEntries({p})
             \/ DropEntries(Player)
    <3>1. \E players \in SUBSET Player : DropEntries(players)
      BY <2>1
    <3> QED  BY <3>1, OthersKeepPolicy
  <2> QED  BY <2>1, StartKeepsPolicy, OthersKeepPolicy DEF PolicyNext
<1> QED  BY <1>1, PolicyInitHolds, PTL DEF PolicySpec

\* For all players and policies: a running monitor finds only decisions taken
\* under its own policy, unless a statement of a start failed since the last
\* clear.  The hash is compared with the policy, the cache with the hash.
THEOREM CacheFollowsPolicy == PolicySpec => []RunningPolicyDecides
<1>1. PolicyInv => RunningPolicyDecides
  <2> SUFFICES ASSUME PolicyInv, pc = "running", sound, NEW p \in Player,
                      NEW q \in cache[p]
               PROVE  q = policy
    BY DEF RunningPolicyDecides, FollowsRunningPolicy
  <2>1. hash = {HashPolicy(q)} /\ hash = {HashPolicy(policy)}
    BY DEF PolicyInv, HashVouchesForCache, SkipsClearSafely
  <2>2. q \in Policy /\ policy \in Policy
    <3>1. cache[p] \in AtMostOne(Policy) /\ policy \in Policy
      BY DEF PolicyInv, PolicyTypeOK
    <3>2. cache[p] # {}
      OBVIOUS
    <3>3. PICK e \in Policy : cache[p] = {e}
      BY <3>1, <3>2 DEF AtMostOne
    <3> QED  BY <3>1, <3>3
  <2>3. q.text = policy.text /\ q.limits = policy.limits
    <3>1. HashPolicy(q) = HashPolicy(policy)
      BY <2>1
    <3> QED  BY <3>1 DEF HashPolicy
  <2> QED  BY <2>2, <2>3 DEF Policy
<1> QED  BY <1>1, PolicyInvariance, PTL

\* For all players and policies: between any two statements, a crash included,
\* the stored hash is that of every policy the cache holds decisions of.
THEOREM HashVouches == PolicySpec => []HashVouchesForCache
<1>1. PolicyInv => HashVouchesForCache
  BY DEF PolicyInv
<1> QED  BY <1>1, PolicyInvariance, PTL
-----------------------------------------------------------------------------
(* Sets of places and their order.                                         *)

\* The n-th of a finite set of places exists, and there is one only.
LEMMA RankFacts ==
  ASSUME NEW S, S \subseteq Nat \ {0}, IsFiniteSet(S)
  PROVE  /\ \A i \in S : Cardinality(S \cap 1..i) \in 1..Cardinality(S)
         /\ \A i, j \in S : i < j => Cardinality(S \cap 1..i) < Cardinality(S \cap 1..j)
         /\ \A n \in 1..Cardinality(S) : \E i \in S : Cardinality(S \cap 1..i) = n
<1> DEFINE f == [i \in S |-> Cardinality(S \cap 1..i)]
<1>1. /\ Cardinality(S) \in Nat
      /\ \A T \in SUBSET S : /\ IsFiniteSet(T) /\ Cardinality(T) \in Nat
                             /\ Cardinality(T) <= Cardinality(S)
  BY FS_CardinalityType, FS_Subset
<1>2. ASSUME NEW i \in S
      PROVE  Cardinality(S \cap 1..i) \in 1..Cardinality(S)
  <2>1. S \cap 1..i \in SUBSET S /\ i \in S \cap 1..i
    OBVIOUS
  <2>2. Cardinality(S \cap 1..i) # 0
    BY <1>1, <2>1, FS_EmptySet
  <2> QED  BY <1>1, <2>1, <2>2
<1>3. ASSUME NEW i \in S, NEW j \in S, i < j
      PROVE  Cardinality(S \cap 1..i) < Cardinality(S \cap 1..j)
  <2>1. /\ S \cap 1..i \in SUBSET (S \cap 1..j) /\ S \cap 1..j \in SUBSET S
        /\ j \in S \cap 1..j /\ j \notin S \cap 1..i
    BY <1>3
  <2>2. /\ IsFiniteSet(S \cap 1..j)
        /\ Cardinality(S \cap 1..i) \in Nat /\ Cardinality(S \cap 1..j) \in Nat
    BY <1>1, <2>1
  <2>3. /\ Cardinality(S \cap 1..i) <= Cardinality(S \cap 1..j)
        /\ Cardinality(S \cap 1..j) = Cardinality(S \cap 1..i) => S \cap 1..j = S \cap 1..i
    BY <2>1, <2>2, FS_Subset
  <2> QED  BY <2>1, <2>2, <2>3
<1>4. f \in Injection(S, 1..Cardinality(S))
  <2>1. f \in [S -> 1..Cardinality(S)]
    BY <1>2
  <2>2. ASSUME NEW i \in S, NEW j \in S, f[i] = f[j]
        PROVE  i = j
    <3>1. Cardinality(S \cap 1..i) = Cardinality(S \cap 1..j)
      BY <2>2
    <3>2. Cardinality(S \cap 1..i) \in Nat
      BY <1>2
    <3> QED  BY <1>3, <3>1, <3>2
  <2> QED  BY <2>1, <2>2 DEF Injection, IsInjective
<1>5. f \in Surjection(S, 1..Cardinality(S))
  <2>1. IsFiniteSet(1..Cardinality(S)) /\ Cardinality(1..Cardinality(S)) = Cardinality(S)
    BY <1>1, FS_Interval
  <2> QED  BY <1>4, <2>1, FS_Injection
<1>6. ASSUME NEW n \in 1..Cardinality(S)
      PROVE  \E i \in S : Cardinality(S \cap 1..i) = n
  BY <1>5 DEF Surjection
<1> QED  BY <1>2, <1>3, <1>6

\* A finite set of places has a last one.
LEMMA LastPlace ==
  ASSUME NEW S, S \subseteq Nat \ {0}, IsFiniteSet(S), S # {}
  PROVE  \E i \in S : \A j \in S : j <= i
<1>1. Cardinality(S) \in Nat /\ Cardinality(S) # 0
  BY FS_CardinalityType, FS_EmptySet
<1>2. PICK i \in S : Cardinality(S \cap 1..i) = Cardinality(S)
  <2> Cardinality(S) \in 1..Cardinality(S)
    BY <1>1
  <2> QED  BY RankFacts
<1>3. S \cap 1..i = S
  BY <1>2, FS_Subset
<1> QED  BY <1>3

\* Places moved by the same distance are as many.
LEMMA MovedPlaces ==
  ASSUME NEW S, S \subseteq Nat, IsFiniteSet(S), NEW d \in Nat
  PROVE  /\ IsFiniteSet({d + i : i \in S})
         /\ Cardinality({d + i : i \in S}) = Cardinality(S)
<1> DEFINE T == {d + i : i \in S}
           f == [i \in S |-> d + i]
<1>1. f \in Bijection(S, T)
  <2>1. f \in [S -> T] /\ \A i, j \in S : f[i] = f[j] => i = j
    OBVIOUS
  <2>2. \A t \in T : \E i \in S : f[i] = t
    OBVIOUS
  <2> QED  BY <2>1, <2>2 DEF Bijection, Injection, IsInjective, Surjection
<1>2. ExistsBijection(S, T)
  BY <1>1 DEF ExistsBijection
<1> QED  BY <1>2, FS_Bijection

-----------------------------------------------------------------------------
(* Runs of pieces.                                                         *)

\* Of the ends of a run of pieces there are finitely many, each in its domain.
LEMMA EndsType ==
  ASSUME NEW a \in Seq(Piece)
  PROVE  /\ Ends(a) \subseteq 1..Len(a) /\ Ends(a) \subseteq Nat \ {0} /\ IsFiniteSet(Ends(a))
         /\ Cardinality(Ends(a)) \in Nat
<1>1. Ends(a) \subseteq 1..Len(a) /\ Len(a) \in Nat
  BY DEF Ends
<1>2. IsFiniteSet(Ends(a))
  <2>1. IsFiniteSet(1..Len(a)) /\ Ends(a) \in SUBSET (1..Len(a))
    BY <1>1, FS_Interval
  <2> QED  BY <2>1, FS_Subset
<1> QED  BY <1>1, <1>2, FS_CardinalityType

\* The last end is an end, or 0, and no end is after it.
LEMMA LastEndFacts ==
  ASSUME NEW a \in Seq(Piece)
  PROVE  /\ LastEnd(a) \in Ends(a) \cup {0} /\ LastEnd(a) \in 0..Len(a)
         /\ \A i \in Ends(a) : i <= LastEnd(a)
         /\ \A m \in Ends(a) \cup {0} : (\A i \in Ends(a) : i <= m) => LastEnd(a) = m
<1>1. Ends(a) \subseteq 1..Len(a) /\ Len(a) \in Nat
  BY EndsType
<1>2. \E m \in Ends(a) \cup {0} : \A i \in Ends(a) \cup {0} : m >= i
  <2>1. CASE Ends(a) = {}
    BY <2>1
  <2>2. CASE Ends(a) # {}
    <3>1. PICK m \in Ends(a) : \A i \in Ends(a) : i <= m
      BY <2>2, EndsType, LastPlace
    <3> QED  BY <1>1, <3>1
  <2> QED  BY <2>1, <2>2
<1>3. LastEnd(a) \in Ends(a) \cup {0} /\ \A i \in Ends(a) \cup {0} : LastEnd(a) >= i
  BY <1>2 DEF LastEnd, Max
<1> QED  BY <1>1, <1>3

\* The rest holds no end, and is all there is if there is none.
LEMMA RestFacts ==
  ASSUME NEW a \in Seq(Piece)
  PROVE  /\ Rest(a) \in Seq(Piece)
         /\ Len(Rest(a)) = Len(a) - LastEnd(a)
         /\ \A i \in 1..Len(Rest(a)) : Rest(a)[i] = a[LastEnd(a) + i]
         /\ Ends(Rest(a)) = {}
         /\ Ends(a) = {} => Rest(a) = a
<1>1. LastEnd(a) \in 0..Len(a) /\ (\A i \in Ends(a) : i <= LastEnd(a)) /\ Len(a) \in Nat
  BY LastEndFacts
<1>2. /\ Rest(a) \in Seq(Piece)
      /\ Len(Rest(a)) = Len(a) - LastEnd(a)
      /\ \A i \in 1..Len(Rest(a)) : Rest(a)[i] = a[LastEnd(a) + i]
  BY <1>1 DEF Rest
<1>3. Ends(Rest(a)) = {}
  <2> SUFFICES ASSUME NEW i \in Ends(Rest(a))
               PROVE  FALSE
    OBVIOUS
  <2>1. i \in 1..Len(Rest(a)) /\ EndsLine(Rest(a)[i])
    BY <1>2 DEF Ends
  <2>2. LastEnd(a) + i \in Ends(a)
    BY <1>1, <1>2, <2>1 DEF Ends
  <2> QED  BY <1>1, <2>1, <2>2
<1>4. Ends(a) = {} => Rest(a) = a
  <2>1. Ends(a) = {} => LastEnd(a) = 0
    BY LastEndFacts
  <2> QED  BY <2>1, SubSeqFull DEF Rest
<1> QED  BY <1>2, <1>3, <1>4

\* The ends of two runs are those of the first and, moved, those of the second.
LEMMA ConcatEnds ==
  ASSUME NEW a \in Seq(Piece), NEW b \in Seq(Piece)
  PROVE  /\ a \o b \in Seq(Piece) /\ Len(a \o b) = Len(a) + Len(b)
         /\ \A i \in 1..Len(a) : (a \o b)[i] = a[i]
         /\ \A i \in 1..Len(b) : (a \o b)[Len(a) + i] = b[i]
         /\ Ends(a \o b) = Ends(a) \cup {Len(a) + i : i \in Ends(b)}
<1>1. /\ a \o b \in Seq(Piece) /\ Len(a \o b) = Len(a) + Len(b)
      /\ Len(a) \in Nat /\ Len(b) \in Nat
      /\ DOMAIN a = 1..Len(a) /\ DOMAIN b = 1..Len(b) /\ DOMAIN (a \o b) = 1..(Len(a) + Len(b))
  OBVIOUS
<1>2. \A i \in 1..Len(a) : (a \o b)[i] = a[i]
  BY <1>1
<1>3. \A i \in 1..Len(b) : (a \o b)[Len(a) + i] = b[i]
  BY <1>1
<1>4. Ends(a \o b) \subseteq Ends(a) \cup {Len(a) + i : i \in Ends(b)}
  <2> SUFFICES ASSUME NEW j \in Ends(a \o b), j \notin Ends(a)
               PROVE  \E i \in Ends(b) : j = Len(a) + i
    OBVIOUS
  <2>1. j \in 1..(Len(a) + Len(b)) /\ EndsLine((a \o b)[j])
    BY <1>1 DEF Ends
  <2>2. j > Len(a)
    BY <1>1, <1>2, <2>1 DEF Ends
  <2>3. j - Len(a) \in 1..Len(b) /\ j = Len(a) + (j - Len(a))
    BY <1>1, <2>1, <2>2
  <2>4. (a \o b)[j] = b[j - Len(a)]
    BY <1>3, <2>3
  <2>5. j - Len(a) \in Ends(b)
    BY <1>1, <2>1, <2>3, <2>4 DEF Ends
  <2> QED  BY <2>3, <2>5
<1>5. Ends(a) \subseteq Ends(a \o b)
  BY <1>1, <1>2 DEF Ends
<1>6. {Len(a) + i : i \in Ends(b)} \subseteq Ends(a \o b)
  BY <1>1, <1>3 DEF Ends
<1> QED  BY <1>1, <1>2, <1>3, <1>4, <1>5, <1>6

\* What a rest and more pieces leave unfinished.
LEMMA RestOfConcat ==
  ASSUME NEW a \in Seq(Piece), NEW b \in Seq(Piece)
  PROVE  Rest(a \o b) = IF Ends(b) = {} THEN Rest(a) \o b ELSE Rest(b)
<1> DEFINE c == a \o b
           d == Rest(a) \o b
<1>1. /\ c \in Seq(Piece) /\ Len(c) = Len(a) + Len(b)
      /\ \A i \in 1..Len(a) : c[i] = a[i]
      /\ \A i \in 1..Len(b) : c[Len(a) + i] = b[i]
      /\ Ends(c) = Ends(a) \cup {Len(a) + i : i \in Ends(b)}
  BY ConcatEnds
<1>2. Ends(a) \subseteq 1..Len(a) /\ Ends(b) \subseteq 1..Len(b) /\ Len(a) \in Nat /\ Len(b) \in Nat
  BY EndsType
<1>3. /\ Rest(a) \in Seq(Piece) /\ Rest(b) \in Seq(Piece) /\ Rest(c) \in Seq(Piece)
      /\ Len(Rest(a)) = Len(a) - LastEnd(a) /\ Len(Rest(b)) = Len(b) - LastEnd(b)
      /\ Len(Rest(c)) = Len(c) - LastEnd(c)
      /\ \A i \in 1..Len(Rest(a)) : Rest(a)[i] = a[LastEnd(a) + i]
      /\ \A i \in 1..Len(Rest(b)) : Rest(b)[i] = b[LastEnd(b) + i]
      /\ \A i \in 1..Len(Rest(c)) : Rest(c)[i] = c[LastEnd(c) + i]
  BY <1>1, RestFacts
<1>4. LastEnd(a) \in 0..Len(a) /\ LastEnd(b) \in 0..Len(b)
  BY LastEndFacts
<1> HIDE DEF c, d
<1>5. CASE Ends(b) = {}
  <2>1. Ends(c) = Ends(a)
    BY <1>1, <1>5
  <2>2. LastEnd(c) = LastEnd(a)
    BY <1>1, <2>1, LastEndFacts
  <2>3. /\ Len(d) = Len(Rest(a)) + Len(b) /\ d \in Seq(Piece)
        /\ \A i \in 1..Len(Rest(a)) : d[i] = Rest(a)[i]
        /\ \A i \in 1..Len(b) : d[Len(Rest(a)) + i] = b[i]
    BY <1>3, ConcatEnds DEF d
  <2>4. /\ Len(a) \in Nat /\ Len(b) \in Nat /\ LastEnd(c) \in 0..Len(a)
        /\ LastEnd(c) = LastEnd(a) /\ Len(Rest(a)) = Len(a) - LastEnd(c)
        /\ Len(Rest(c)) = Len(a) + Len(b) - LastEnd(c) /\ Len(d) = Len(Rest(c))
    BY SMTT(30), <1>1, <1>2, <1>3, <1>4, <2>2, <2>3
  <2>5. ASSUME NEW i \in 1..Len(Rest(c))
        PROVE  d[i] = Rest(c)[i]
    <3>1. CASE i <= Len(Rest(a))
      <4>1. i \in 1..Len(Rest(a)) /\ LastEnd(c) + i \in 1..Len(a)
        BY <2>4, <3>1
      <4>2. d[i] = Rest(a)[i] /\ Rest(a)[i] = a[LastEnd(a) + i]
        BY <1>3, <2>3, <4>1
      <4>3. Rest(c)[i] = c[LastEnd(c) + i] /\ c[LastEnd(c) + i] = a[LastEnd(c) + i]
        BY <1>1, <1>3, <4>1
      <4> QED  BY <2>4, <4>2, <4>3
    <3>2. CASE i > Len(Rest(a))
      <4>1. /\ i - Len(Rest(a)) \in 1..Len(b) /\ Len(a) + (i - Len(Rest(a))) = LastEnd(c) + i
            /\ Len(Rest(a)) + (i - Len(Rest(a))) = i
        BY SMTT(30), <2>4, <3>2
      <4>2. d[i] = b[i - Len(Rest(a))]
        BY <2>3, <4>1
      <4> QED  BY <1>1, <1>3, <4>1, <4>2
    <3> QED  BY <2>4, <3>1, <3>2
  <2>6. d = Rest(c)
    BY <1>3, <2>3, <2>4, <2>5, SeqEqual
  <2> QED  BY <1>5, <2>6 DEF c, d
<1>6. CASE Ends(b) # {}
  <2>1. LastEnd(b) \in Ends(b) /\ \A i \in Ends(b) : i <= LastEnd(b)
    BY <1>2, <1>6, LastEndFacts
  <2>2. LastEnd(c) = Len(a) + LastEnd(b)
    <3>1. Len(a) + LastEnd(b) \in Ends(c) /\ \A i \in Ends(c) : i <= Len(a) + LastEnd(b)
      BY <1>1, <1>2, <2>1
    <3> QED  BY <1>1, <3>1, LastEndFacts
  <2>3. ASSUME NEW i \in 1..Len(Rest(c))
        PROVE  Rest(b)[i] = Rest(c)[i]
    <3>1. LastEnd(b) + i \in 1..Len(b) /\ LastEnd(c) + i = Len(a) + (LastEnd(b) + i) /\ i \in 1..Len(Rest(b))
      BY SMTT(30), <1>1, <1>2, <1>3, <1>4, <2>2
    <3> QED  BY <1>1, <1>3, <3>1
  <2>4. Len(Rest(c)) = Len(Rest(b))
    BY <1>1, <1>2, <1>3, <1>4, <2>2
  <2>5. Rest(b) = Rest(c)
    BY <1>3, <2>3, <2>4, SeqEqual
  <2> QED  BY <1>6, <2>5 DEF c
<1> QED  BY <1>5, <1>6

\* Keeping the rest is as good as keeping everything.
LEMMA RestSuffices ==
  ASSUME NEW a \in Seq(Piece), NEW b \in Seq(Piece)
  PROVE  Rest(Rest(a) \o b) = Rest(a \o b)
<1>1. PICK r \in Seq(Piece) : r = Rest(a) /\ Rest(r) = r
  BY RestFacts
<1>2. Rest(r \o b) = IF Ends(b) = {} THEN Rest(r) \o b ELSE Rest(b)
  BY RestOfConcat
<1>3. Rest(a \o b) = IF Ends(b) = {} THEN Rest(a) \o b ELSE Rest(b)
  BY RestOfConcat
<1> QED  BY <1>1, <1>2, <1>3
-----------------------------------------------------------------------------
(* Complete lines.                                                         *)

Rank(a, i) == Cardinality(Ends(a) \cap 1..i)

\* The n-th end is the one of rank n.
LEMMA NthEndFacts ==
  ASSUME NEW a \in Seq(Piece)
  PROVE  /\ \A n \in 1..Cardinality(Ends(a)) : NthEnd(a, n) \in Ends(a) /\ Rank(a, NthEnd(a, n)) = n
         /\ \A i \in Ends(a) : Rank(a, i) \in 1..Cardinality(Ends(a)) /\ NthEnd(a, Rank(a, i)) = i
<1>1. /\ \A i \in Ends(a) : Rank(a, i) \in 1..Cardinality(Ends(a))
      /\ \A i, j \in Ends(a) : i < j => Rank(a, i) < Rank(a, j)
      /\ \A n \in 1..Cardinality(Ends(a)) : \E i \in Ends(a) : Rank(a, i) = n
      /\ Ends(a) \subseteq Nat
  BY EndsType, RankFacts DEF Rank
<1>2. \A n \in 1..Cardinality(Ends(a)) : NthEnd(a, n) \in Ends(a) /\ Rank(a, NthEnd(a, n)) = n
  BY <1>1 DEF NthEnd, Rank
<1>3. \A i, j \in Ends(a) : Rank(a, i) = Rank(a, j) => i = j
  <2> SUFFICES ASSUME NEW i \in Ends(a), NEW j \in Ends(a), Rank(a, i) = Rank(a, j), i # j
               PROVE  FALSE
    OBVIOUS
  <2>1. i < j \/ j < i
    BY <1>1
  <2>2. Rank(a, i) \in Nat
    BY <1>1
  <2> QED  BY <1>1, <2>1, <2>2
<1> QED  BY <1>1, <1>2, <1>3

\* Ends keep their rank when more pieces follow; those that follow come after them.
LEMMA ConcatRank ==
  ASSUME NEW a \in Seq(Piece), NEW b \in Seq(Piece)
  PROVE  /\ Cardinality(Ends(a \o b)) = Cardinality(Ends(a)) + Cardinality(Ends(b))
         /\ \A i \in Ends(a) : i \in Ends(a \o b) /\ Rank(a \o b, i) = Rank(a, i)
         /\ \A i \in Ends(b) : /\ Len(a) + i \in Ends(a \o b)
                               /\ Rank(a \o b, Len(a) + i) = Cardinality(Ends(a)) + Rank(b, i)
<1> DEFINE Moved(S) == {Len(a) + i : i \in S}
<1>1. /\ Ends(a \o b) = Ends(a) \cup Moved(Ends(b)) /\ Len(a) \in Nat
      /\ Ends(a) \subseteq 1..Len(a) /\ IsFiniteSet(Ends(a)) /\ Cardinality(Ends(a)) \in Nat
      /\ Ends(b) \subseteq Nat \ {0} /\ IsFiniteSet(Ends(b))
  BY ConcatEnds, EndsType
<1>2. ASSUME NEW S \in SUBSET Ends(b)
      PROVE  /\ IsFiniteSet(Moved(S)) /\ Cardinality(Moved(S)) = Cardinality(S)
             /\ Cardinality(Ends(a) \cup Moved(S)) = Cardinality(Ends(a)) + Cardinality(S)
  <2>1. IsFiniteSet(S) /\ S \subseteq Nat /\ Cardinality(S) \in Nat
    BY <1>1, FS_Subset, FS_CardinalityType
  <2>2. IsFiniteSet(Moved(S)) /\ Cardinality(Moved(S)) = Cardinality(S)
    BY <1>1, <2>1, MovedPlaces
  <2>3. Ends(a) \cap Moved(S) = {}
    BY <1>1
  <2>4. /\ Cardinality(Ends(a) \cap Moved(S)) = 0
        /\ Cardinality(Ends(a) \cup Moved(S))
             = Cardinality(Ends(a)) + Cardinality(Moved(S)) - Cardinality(Ends(a) \cap Moved(S))
    BY <1>1, <2>2, <2>3, FS_Union, FS_EmptySet
  <2> QED  BY <1>1, <2>1, <2>2, <2>4
<1>3. Cardinality(Ends(a \o b)) = Cardinality(Ends(a)) + Cardinality(Ends(b))
  <2>1. Ends(b) \in SUBSET Ends(b)
    OBVIOUS
  <2> QED  BY <1>1, <1>2, <2>1
<1>4. ASSUME NEW i \in Ends(a)
      PROVE  i \in Ends(a \o b) /\ Rank(a \o b, i) = Rank(a, i)
  <2>1. Ends(a \o b) \cap 1..i = Ends(a) \cap 1..i
    BY <1>1
  <2> QED  BY <1>1, <2>1 DEF Rank
<1>5. ASSUME NEW i \in Ends(b)
      PROVE  /\ Len(a) + i \in Ends(a \o b)
             /\ Rank(a \o b, Len(a) + i) = Cardinality(Ends(a)) + Rank(b, i)
  <2>1. Ends(a \o b) \cap 1..(Len(a) + i) = Ends(a) \cup Moved(Ends(b) \cap 1..i)
    BY <1>1
  <2>2. Ends(b) \cap 1..i \in SUBSET Ends(b)
    OBVIOUS
  <2>3. Cardinality(Ends(a) \cup Moved(Ends(b) \cap 1..i))
          = Cardinality(Ends(a)) + Cardinality(Ends(b) \cap 1..i)
    BY <1>2, <2>2
  <2> QED  BY <1>1, <2>1, <2>3 DEF Rank
<1> QED  BY <1>3, <1>4, <1>5

\* So the n-th ends of both are found in the whole.
LEMMA ConcatNthEnd ==
  ASSUME NEW a \in Seq(Piece), NEW b \in Seq(Piece)
  PROVE  /\ \A n \in 1..Cardinality(Ends(a)) : NthEnd(a \o b, n) = NthEnd(a, n)
         /\ \A n \in 1..Cardinality(Ends(b)) :
              NthEnd(a \o b, Cardinality(Ends(a)) + n) = Len(a) + NthEnd(b, n)
<1>1. a \o b \in Seq(Piece)
  BY ConcatEnds
<1>2. ASSUME NEW n \in 1..Cardinality(Ends(a))
      PROVE  NthEnd(a \o b, n) = NthEnd(a, n)
  <2>1. NthEnd(a, n) \in Ends(a) /\ Rank(a, NthEnd(a, n)) = n
    BY NthEndFacts
  <2>2. NthEnd(a, n) \in Ends(a \o b) /\ Rank(a \o b, NthEnd(a, n)) = n
    BY <2>1, ConcatRank
  <2> QED  BY <1>1, <2>2, NthEndFacts
<1>3. ASSUME NEW n \in 1..Cardinality(Ends(b))
      PROVE  NthEnd(a \o b, Cardinality(Ends(a)) + n) = Len(a) + NthEnd(b, n)
  <2>1. NthEnd(b, n) \in Ends(b) /\ Rank(b, NthEnd(b, n)) = n
    BY NthEndFacts
  <2>2. /\ Len(a) + NthEnd(b, n) \in Ends(a \o b)
        /\ Rank(a \o b, Len(a) + NthEnd(b, n)) = Cardinality(Ends(a)) + n
    BY <2>1, ConcatRank
  <2>3. PICK c \in Seq(Piece) : c = a \o b
    BY <1>1
  <2>4. PICK i \in Ends(c) : i = Len(a) + NthEnd(b, n)
    BY <2>2, <2>3
  <2>5. NthEnd(c, Rank(c, i)) = i
    BY NthEndFacts
  <2> QED  BY <2>2, <2>3, <2>4, <2>5
<1> QED  BY <1>2, <1>3

\* A line is the rest before its end and the end.
LEMMA LineToType ==
  ASSUME NEW a \in Seq(Piece), NEW i \in 1..Len(a)
  PROVE  /\ SubSeq(a, 1, i - 1) \in Seq(Piece)
         /\ LineTo(a, i) \in Seq(Piece)
         /\ LineTo(a, i) = Rest(SubSeq(a, 1, i - 1)) \o <<a[i]>>
<1>1. SubSeq(a, 1, i - 1) \in Seq(Piece) /\ a[i] \in Piece
  OBVIOUS
<1>2. Rest(SubSeq(a, 1, i - 1)) \in Seq(Piece)
  BY <1>1, RestFacts
<1> QED  BY <1>1, <1>2, AppendIsConcat, AppendProperties DEF LineTo

\* There is one complete line for each end.
LEMMA CompleteType ==
  ASSUME NEW a \in Seq(Piece)
  PROVE  /\ Complete(a) \in Seq(Seq(Piece))
         /\ Len(Complete(a)) = Cardinality(Ends(a))
         /\ \A n \in 1..Cardinality(Ends(a)) : Complete(a)[n] = LineTo(a, NthEnd(a, n))
<1>1. Cardinality(Ends(a)) \in Nat /\ Ends(a) \subseteq 1..Len(a)
  BY EndsType
<1>2. \A n \in 1..Cardinality(Ends(a)) : LineTo(a, NthEnd(a, n)) \in Seq(Piece)
  BY <1>1, NthEndFacts, LineToType
<1> QED  BY <1>1, <1>2 DEF Complete

\* No line is complete exactly if there is no end.
LEMMA NothingComplete ==
  ASSUME NEW a \in Seq(Piece)
  PROVE  Complete(a) = <<>> <=> Ends(a) = {}
<1>1. Complete(a) \in Seq(Seq(Piece)) /\ Len(Complete(a)) = Cardinality(Ends(a))
  BY CompleteType
<1>2. Cardinality(Ends(a)) = 0 <=> Ends(a) = {}
  BY EndsType, FS_EmptySet
<1> QED  BY <1>1, <1>2

\* Reading in two parts finds the lines of the whole, if the second part is read after
\* what the first left unfinished.
THEOREM CompleteConcat ==
  ASSUME NEW a \in Seq(Piece), NEW b \in Seq(Piece)
  PROVE  Complete(a \o b) = Complete(a) \o Complete(Rest(a) \o b)
<1> DEFINE c == a \o b
           d == Rest(a) \o b
           m == Cardinality(Ends(a))
           k == Cardinality(Ends(b))
<1>1. /\ Rest(a) \in Seq(Piece) /\ Ends(Rest(a)) = {}
      /\ c \in Seq(Piece) /\ Len(c) = Len(a) + Len(b)
      /\ d \in Seq(Piece) /\ Len(d) = Len(Rest(a)) + Len(b)
  BY ConcatEnds, RestFacts
<1>2. /\ m \in Nat /\ k \in Nat /\ Cardinality(Ends(Rest(a))) = 0
      /\ Ends(a) \subseteq 1..Len(a) /\ Ends(b) \subseteq 1..Len(b)
      /\ Len(a) \in Nat /\ Len(b) \in Nat /\ Len(Rest(a)) \in Nat
  BY <1>1, EndsType, FS_EmptySet
<1>3. Cardinality(Ends(c)) = m + k /\ Cardinality(Ends(d)) = k
  <2>1. Cardinality(Ends(d)) = Cardinality(Ends(Rest(a))) + k
    BY <1>1, ConcatRank
  <2> QED  BY <1>2, <2>1, ConcatRank
<1>4. /\ Complete(a) \in Seq(Seq(Piece)) /\ Len(Complete(a)) = m
      /\ \A n \in 1..m : Complete(a)[n] = LineTo(a, NthEnd(a, n))
      /\ Complete(c) \in Seq(Seq(Piece)) /\ Len(Complete(c)) = m + k
      /\ \A n \in 1..m+k : Complete(c)[n] = LineTo(c, NthEnd(c, n))
      /\ Complete(d) \in Seq(Seq(Piece)) /\ Len(Complete(d)) = k
      /\ \A n \in 1..k : Complete(d)[n] = LineTo(d, NthEnd(d, n))
  BY <1>1, <1>3, CompleteType
<1>5. ASSUME NEW n \in 1..m
      PROVE  Complete(c)[n] = Complete(a)[n]
  <2>1. NthEnd(c, n) = NthEnd(a, n) /\ NthEnd(a, n) \in 1..Len(a)
    BY <1>2, ConcatNthEnd, NthEndFacts
  <2>2. ASSUME NEW i \in 1..Len(a)
        PROVE  LineTo(c, i) = LineTo(a, i)
    <3>1. c[i] = a[i] /\ SubSeq(c, 1, i - 1) = SubSeq(a, 1, i - 1)
      OBVIOUS
    <3> QED  BY <3>1 DEF LineTo
  <2> QED  BY <1>2, <1>4, <2>1, <2>2
<1>6. ASSUME NEW n \in 1..k
      PROVE  Complete(c)[m + n] = Complete(d)[n]
  <2>1. /\ NthEnd(c, m + n) = Len(a) + NthEnd(b, n) /\ NthEnd(b, n) \in 1..Len(b)
        /\ NthEnd(d, n) = Len(Rest(a)) + NthEnd(b, n)
    <3>1. NthEnd(d, Cardinality(Ends(Rest(a))) + n) = Len(Rest(a)) + NthEnd(b, n)
      BY <1>1, ConcatNthEnd
    <3> QED  BY <1>2, <3>1, ConcatNthEnd, NthEndFacts
  <2>2. ASSUME NEW i \in 1..Len(b)
        PROVE  LineTo(c, Len(a) + i) = LineTo(d, Len(Rest(a)) + i)
    <3> DEFINE e == SubSeq(b, 1, i - 1)
    <3>1. e \in Seq(Piece)
      OBVIOUS
    <3>2. c[Len(a) + i] = b[i] /\ d[Len(Rest(a)) + i] = b[i]
      BY <1>1, ConcatEnds
    <3>3. SubSeq(c, 1, (Len(a) + i) - 1) = a \o e
      BY SMTT(30), <1>2
    <3>4. SubSeq(d, 1, (Len(Rest(a)) + i) - 1) = Rest(a) \o e
      BY SMTT(30), <1>1, <1>2
    <3>5. Rest(Rest(a) \o e) = Rest(a \o e)
      BY <3>1, RestSuffices
    <3> HIDE DEF c, d, e
    <3>6. LineTo(c, Len(a) + i) = Append(Rest(a \o e), b[i])
      BY <3>2, <3>3 DEF LineTo
    <3>7. LineTo(d, Len(Rest(a)) + i) = Append(Rest(Rest(a) \o e), b[i])
      BY <3>2, <3>4 DEF LineTo
    <3> QED  BY <3>5, <3>6, <3>7
  <2>3. LineTo(c, NthEnd(c, m + n)) = LineTo(d, NthEnd(d, n))
    BY <2>1, <2>2
  <2>4. m + n \in 1..m+k
    BY <1>2
  <2> HIDE DEF c, d, m, k
  <2> QED  BY <1>4, <2>3, <2>4
<1> HIDE DEF c, d, m, k
<1>7. Complete(c) = Complete(a) \o Complete(d)
  <2> DEFINE e == Complete(a) \o Complete(d)
  <2>1. /\ e \in Seq(Seq(Piece)) /\ Len(e) = m + k
        /\ \A i \in 1..(m + k) : e[i] = IF i <= m THEN Complete(a)[i] ELSE Complete(d)[i - m]
    <3>1. PICK s \in Seq(Seq(Piece)) : s = Complete(a) /\ Len(s) = m
      BY <1>4
    <3>2. PICK t \in Seq(Seq(Piece)) : t = Complete(d) /\ Len(t) = k
      BY <1>4
    <3>3. /\ s \o t \in Seq(Seq(Piece)) /\ Len(s \o t) = Len(s) + Len(t)
          /\ \A i \in 1..(Len(s) + Len(t)) :
               (s \o t)[i] = IF i <= Len(s) THEN s[i] ELSE t[i - Len(s)]
      BY ConcatProperties
    <3> QED  BY <3>1, <3>2, <3>3
  <2> HIDE DEF e
  <2>2. ASSUME NEW i \in 1..(m + k)
        PROVE  Complete(c)[i] = e[i]
    <3>1. CASE i <= m
      <4>1. i \in 1..m
        BY <1>2, <3>1
      <4>2. e[i] = Complete(a)[i]
        BY <2>1, <3>1
      <4> QED  BY <1>5, <4>1, <4>2
    <3>2. CASE i > m
      <4>1. i - m \in 1..k /\ m + (i - m) = i
        BY <1>2, <3>2
      <4>2. e[i] = Complete(d)[i - m]
        BY <1>2, <2>1, <3>2
      <4>3. Complete(c)[m + (i - m)] = Complete(d)[i - m]
        BY <1>6, <4>1
      <4> QED  BY <4>1, <4>2, <4>3
    <3> QED  BY <1>2, <3>1, <3>2
  <2>3. Complete(c) = e
    BY <1>4, <2>1, <2>2, SeqEqual
  <2> QED  BY <2>3 DEF e
<1> QED  BY <1>7 DEF c, d
-----------------------------------------------------------------------------
(* The file from a place on.                                               *)

\* The file from a place on, piece by piece.
LEMMA FromFacts ==
  ASSUME NEW file \in Seq(Piece), NEW place \in 0..Len(file)
  PROVE  /\ From(file, place) \in Seq(Piece)
         /\ Len(From(file, place)) = Len(file) - place
         /\ \A i \in 1..(Len(file) - place) : From(file, place)[i] = file[place + i]
BY DEF From

\* From a place on there is what was read since and what was not.
LEMMA FromSplits ==
  ASSUME NEW file \in Seq(Piece), NEW place \in Nat, NEW later \in place..Len(file)
  PROVE  /\ SubSeq(file, place + 1, later) \in Seq(Piece)
         /\ From(file, place) = SubSeq(file, place + 1, later) \o From(file, later)
<1>1. /\ place + 1 \in 1..Len(file) + 1 /\ later \in (place + 1) - 1..Len(file)
      /\ Len(file) \in later..Len(file)
  OBVIOUS
<1>2. SubSeq(file, place + 1, later) \in Seq(Piece)
  BY SubSeqProperties
<1> QED  BY <1>1, <1>2, ConcatAdjacentSubSeq DEF From

\* Sequences of no or one element.
LEMMA ShortSequences ==
  ASSUME NEW T, NEW s \in Seq(T)
  PROVE  /\ Len(s) = 0 => s = <<>>
         /\ Len(s) = 1 => s = <<s[1]>> /\ s[1] \in T
         /\ s \o <<>> = s /\ <<>> \o s = s
OBVIOUS

\* Two elements put together.
LEMMA TwoTogether ==
  ASSUME NEW x, NEW y
  PROVE  <<x>> \o <<y>> = <<x, y>>
<1> DEFINE a == <<x>>
           b == <<y>>
           c == <<x, y>>
<1>1. a \in Seq({x, y}) /\ b \in Seq({x, y}) /\ Len(a) = 1 /\ Len(b) = 1 /\ a[1] = x /\ b[1] = y
  OBVIOUS
<1>2. c \in Seq({x, y}) /\ Len(c) = 2 /\ c[1] = x /\ c[2] = y
  OBVIOUS
<1> HIDE DEF a, b, c
<1>3. /\ a \o b \in Seq({x, y}) /\ Len(a \o b) = 2
      /\ (a \o b)[1] = x /\ (a \o b)[2] = y
  BY <1>1, ConcatProperties
<1>4. \A i \in 1..2 : (a \o b)[i] = c[i]
  BY <1>2, <1>3
<1>5. a \o b = c
  BY <1>2, <1>3, <1>4, SeqEqual
<1> QED  BY <1>5 DEF a, b, c

\* A piece at the end of the file is at the end of what follows any place.
LEMMA FromAppend ==
  ASSUME NEW file \in Seq(Piece), NEW place \in 0..Len(file), NEW piece \in Piece
  PROVE  From(Append(file, piece), place) = From(file, place) \o <<piece>>
<1> DEFINE longer == Append(file, piece)
           s == From(longer, place)
           t == From(file, place) \o <<piece>>
<1>1. /\ longer \in Seq(Piece) /\ Len(longer) = Len(file) + 1 /\ Len(file) \in Nat
      /\ \A i \in 1..Len(file) : longer[i] = file[i]
      /\ longer[Len(file) + 1] = piece
  BY AppendProperties
<1>2. /\ s \in Seq(Piece) /\ Len(s) = Len(file) + 1 - place
      /\ \A i \in 1..(Len(file) + 1 - place) : s[i] = longer[place + i]
  <2>1. place \in 0..Len(longer)
    BY <1>1
  <2> HIDE DEF longer, s
  <2>2. s = From(longer, place)
    BY DEF s
  <2>3. /\ s \in Seq(Piece) /\ Len(s) = Len(longer) - place
        /\ \A i \in 1..(Len(longer) - place) : s[i] = longer[place + i]
    BY <1>1, <2>1, <2>2, FromFacts
  <2>4. Len(longer) - place = Len(file) + 1 - place
    BY <1>1
  <2> QED  BY <2>3, <2>4
<1>3. /\ t \in Seq(Piece) /\ Len(t) = Len(file) + 1 - place
      /\ \A i \in 1..(Len(file) - place) : t[i] = file[place + i]
      /\ t[Len(file) + 1 - place] = piece
  <2> DEFINE u == From(file, place)
  <2>1. /\ u \in Seq(Piece) /\ Len(u) = Len(file) - place
        /\ \A i \in 1..(Len(file) - place) : u[i] = file[place + i]
    BY FromFacts
  <2> HIDE DEF u
  <2>2. <<piece>> \in Seq(Piece) /\ Len(<<piece>>) = 1 /\ <<piece>>[1] = piece
    OBVIOUS
  <2>3. /\ u \o <<piece>> \in Seq(Piece) /\ Len(u \o <<piece>>) = Len(u) + 1
        /\ \A i \in 1..Len(u) : (u \o <<piece>>)[i] = u[i]
        /\ (u \o <<piece>>)[Len(u) + 1] = piece
    <3> DEFINE one == <<piece>>
    <3>1. one \in Seq(Piece) /\ Len(one) = 1 /\ one[1] = piece /\ 1 \in 1..Len(one)
      BY <2>2
    <3> HIDE DEF one
    <3>2. /\ u \o one \in Seq(Piece) /\ Len(u \o one) = Len(u) + 1
          /\ \A i \in 1..Len(u) : (u \o one)[i] = u[i]
          /\ (u \o one)[Len(u) + 1] = piece
      <4>1. /\ u \o one \in Seq(Piece) /\ Len(u \o one) = Len(u) + Len(one)
            /\ \A i \in 1..Len(u) : (u \o one)[i] = u[i]
            /\ \A i \in 1..Len(one) : (u \o one)[Len(u) + i] = one[i]
        BY <2>1, <3>1, ConcatEnds
      <4> QED  BY <3>1, <4>1
    <3> QED  BY <3>2 DEF one
  <2>4. t = u \o <<piece>>
    BY DEF t, u
  <2>5. Len(file) + 1 - place = Len(u) + 1
    BY <1>1, <2>1
  <2> HIDE DEF t
  <2> QED  BY <2>1, <2>3, <2>4, <2>5
<1> HIDE DEF longer, s, t
<1>4. ASSUME NEW i \in 1..(Len(file) + 1 - place)
      PROVE  s[i] = t[i]
  <2>1. CASE i \in 1..(Len(file) - place)
    BY <1>1, <1>2, <1>3, <2>1
  <2>2. CASE i = Len(file) + 1 - place
    <3>1. place + i = Len(file) + 1
      BY <1>1, <2>2
    <3> QED  BY <1>1, <1>2, <1>3, <2>2, <3>1
  <2> QED  BY <1>1, <2>1, <2>2
<1>5. s = t
  BY <1>2, <1>3, <1>4, SeqEqual
<1> QED  BY <1>5 DEF s, t, longer

\* The unfinished rest is the file from the last end on.
LEMMA RestIsFrom ==
  ASSUME NEW file \in Seq(Piece), NEW place \in 0..Len(file)
  PROVE  LET ahead == place + LastEnd(From(file, place))
         IN  ahead \in 0..Len(file) /\ Rest(From(file, place)) = From(file, ahead)
<1> DEFINE text == From(file, place)
           ahead == place + LastEnd(text)
<1>1. /\ text \in Seq(Piece) /\ Len(text) = Len(file) - place /\ Len(file) \in Nat
      /\ \A i \in 1..(Len(file) - place) : text[i] = file[place + i]
  BY FromFacts
<1> HIDE DEF text
<1>2. LastEnd(text) \in 0..Len(text)
  BY <1>1, LastEndFacts
<1>3. ahead \in 0..Len(file) /\ Len(file) - ahead = Len(text) - LastEnd(text)
  BY <1>1, <1>2
<1>4. /\ Rest(text) \in Seq(Piece) /\ Len(Rest(text)) = Len(file) - ahead
      /\ \A i \in 1..(Len(file) - ahead) : Rest(text)[i] = text[LastEnd(text) + i]
  BY SMTT(30), <1>1, <1>3, RestFacts
<1>5. ASSUME NEW i \in 1..(Len(file) - ahead)
      PROVE  Rest(text)[i] = file[ahead + i]
  <2>1. LastEnd(text) + i \in 1..(Len(file) - place) /\ place + (LastEnd(text) + i) = ahead + i
    BY <1>1, <1>2
  <2> QED  BY <1>1, <1>4, <2>1
<1>6. /\ From(file, ahead) \in Seq(Piece) /\ Len(From(file, ahead)) = Len(file) - ahead
      /\ \A i \in 1..(Len(file) - ahead) : From(file, ahead)[i] = file[ahead + i]
  BY <1>3, FromFacts
<1>7. Rest(text) = From(file, ahead)
  <2> HIDE DEF ahead
  <2> QED  BY <1>4, <1>5, <1>6, SeqEqual
<1> QED  BY <1>3, <1>7 DEF text

\* What ends at a place of a file in order is a line.
LEMMA CompleteLines ==
  ASSUME NEW file \in Seq(Piece), WellFormed(file), NEW place \in 0..Len(file)
  PROVE  Complete(From(file, place)) \in Seq(Line)
<1> DEFINE text == From(file, place)
<1>1. /\ text \in Seq(Piece) /\ Len(text) = Len(file) - place /\ Len(file) \in Nat
      /\ \A i \in 1..(Len(file) - place) : text[i] = file[place + i]
  BY FromFacts
<1> HIDE DEF text
<1>2. ASSUME NEW i \in Ends(text)
      PROVE  LineTo(text, i) \in Line
  <2> DEFINE before == SubSeq(text, 1, i - 1)
             rest == Rest(before)
  <2>1. i \in 1..Len(text) /\ EndsLine(text[i]) /\ text[i] \in Piece
    BY <1>1 DEF Ends
  <2>2. /\ before \in Seq(Piece) /\ Len(before) = i - 1
        /\ \A j \in 1..(i - 1) : before[j] = text[j]
    BY <1>1, <2>1
  <2>3. LineTo(text, i) = rest \o <<text[i]>>
    BY <1>1, <2>1, LineToType
  <2> HIDE DEF before
  <2>4. /\ rest \in Seq(Piece) /\ Len(rest) = (i - 1) - LastEnd(before)
        /\ \A j \in 1..Len(rest) : rest[j] = before[LastEnd(before) + j]
        /\ Ends(rest) = {} /\ LastEnd(before) \in 0..(i - 1)
    BY <2>2, RestFacts, LastEndFacts
  <2>5. ASSUME NEW j \in 1..Len(rest)
        PROVE  rest[j].part = "head" /\ rest[j] = file[place + (LastEnd(before) + j)]
               /\ place + (LastEnd(before) + j) \in 1..Len(file)
    <3>1. LastEnd(before) + j \in 1..(i - 1) /\ LastEnd(before) + j \in 1..(Len(file) - place)
      BY SMTT(30), <1>1, <2>1, <2>4
    <3>2. ~EndsLine(rest[j])
      BY <2>4 DEF Ends
    <3>3. rest[j] = before[LastEnd(before) + j] /\ rest[j] \in Piece
      BY <2>4
    <3>4. before[LastEnd(before) + j] = text[LastEnd(before) + j]
      BY <2>2, <3>1
    <3>5. text[LastEnd(before) + j] = file[place + (LastEnd(before) + j)]
      BY <1>1, <3>1
    <3>6. place + (LastEnd(before) + j) \in 1..Len(file)
      BY <1>1, <3>1
    <3> QED  BY <3>2, <3>3, <3>4, <3>5, <3>6 DEF EndsLine
  <2> HIDE DEF rest
  <2>lengths. /\ Len(rest) \in Nat /\ LastEnd(before) \in Nat /\ i \in Nat /\ i >= 1 /\ place \in Nat
        /\ Len(rest) = (i - 1) - LastEnd(before)
    BY <2>1, <2>4
  <2>6. Len(rest) < 2
    <3> SUFFICES ASSUME Len(rest) >= 2
                 PROVE  FALSE
      BY <2>lengths
    <3> DEFINE p == place + (LastEnd(before) + 2)
    <3>1. 1 \in 1..Len(rest) /\ 2 \in 1..Len(rest)
      BY <2>lengths
    <3>2. place + (LastEnd(before) + 1) = p - 1 /\ p > 1
      BY <2>lengths
    <3> HIDE DEF p
    <3>next. p = place + (LastEnd(before) + 2)
      BY DEF p
    <3>3. p \in 1..Len(file) /\ file[p].part = "head" /\ file[p - 1].part = "head"
      BY <2>5, <3>1, <3>2, <3>next
    <3>4. file[p].part = "tail"
      BY <3>2, <3>3 DEF WellFormed
    <3> QED  BY <3>3, <3>4
  <2>7. text[i] = file[place + i] /\ place + i \in 1..Len(file)
    BY <1>1, <2>1
  <2>8. text[i].line \in 1..MaxLines /\ text[i].part \in {"whole", "tail"}
        /\ text[i] = [line |-> text[i].line, part |-> text[i].part]
    BY <2>1 DEF Piece, EndsLine
  <2>9. CASE Len(rest) = 0
    <3>1. LineTo(text, i) = <<text[i]>>
      BY <2>3, <2>4, <2>9
    <3> QED  BY <2>8, <3>1 DEF Line
  <2>10. CASE Len(rest) = 1
    <3>1. 1 \in 1..Len(rest) /\ place + (LastEnd(before) + 1) = (place + i) - 1 /\ place + i > 1
      <4>1. ASSUME NEW l \in Nat, NEW k \in Nat, NEW p \in Nat, k >= 1, 1 = (k - 1) - l
            PROVE  p + (l + 1) = (p + k) - 1 /\ p + k > 1
        BY <4>1
      <4>2. 1 = (i - 1) - LastEnd(before)
        BY <2>lengths, <2>10
      <4>3. place + (LastEnd(before) + 1) = (place + i) - 1 /\ place + i > 1
        BY ONLY <2>lengths, <4>1, <4>2
      <4>4. 1 \in 1..Len(rest)
        BY <2>10
      <4> QED  BY <4>3, <4>4
    <3>2. rest[1].part = "head" /\ rest[1] = file[(place + i) - 1]
      BY <2>5, <3>1
    <3>3. text[i].part = "tail" /\ text[i].line = rest[1].line
      BY <2>7, <3>1, <3>2 DEF WellFormed
    <3>4. rest[1] \in Piece
      BY <2>4, <3>1
    <3>5. rest = <<rest[1]>>
      BY <2>4, <2>10, ShortSequences
    <3>6. LineTo(text, i) = <<rest[1], text[i]>>
      <4>1. LineTo(text, i) = <<rest[1]>> \o <<text[i]>>
        BY <2>3, <3>5
      <4> QED  BY <4>1, TwoTogether
    <3>7. rest[1] = [line |-> text[i].line, part |-> "head"]
      BY <3>2, <3>3, <3>4 DEF Piece
    <3>8. text[i] = [line |-> text[i].line, part |-> "tail"]
      BY <2>8, <3>3
    <3>9. LineTo(text, i) = <<[line |-> text[i].line, part |-> "head"],
                              [line |-> text[i].line, part |-> "tail"]>>
      BY <3>6, <3>7, <3>8
    <3> QED  BY <2>8, <3>9 DEF Line
  <2> QED  BY <2>lengths, <2>6, <2>9, <2>10
<1>3. /\ Complete(text) \in Seq(Seq(Piece)) /\ Cardinality(Ends(text)) \in Nat
      /\ Len(Complete(text)) = Cardinality(Ends(text))
      /\ \A n \in 1..Cardinality(Ends(text)) : Complete(text)[n] = LineTo(text, NthEnd(text, n))
  BY <1>1, CompleteType, EndsType
<1>4. \A n \in 1..Len(Complete(text)) : Complete(text)[n] \in Line
  BY <1>1, <1>2, <1>3, NthEndFacts
<1>5. Complete(text) \in Seq(Line)
  <2> DEFINE s == Complete(text)
  <2>1. s = [n \in 1..Len(s) |-> s[n]] /\ Len(s) \in Nat
    BY <1>3
  <2> HIDE DEF s
  <2> QED  BY <1>4, <2>1 DEF s
<1> QED  BY <1>5 DEF text

\* One more piece completes at most one line.
LEMMA OneMoreLine ==
  ASSUME NEW text \in Seq(Piece), NEW piece \in Piece
  PROVE  \/ Complete(text \o <<piece>>) = Complete(text)
         \/ \E line : Complete(text \o <<piece>>) = Append(Complete(text), line)
<1> DEFINE more == Complete(Rest(text) \o <<piece>>)
<1>1. <<piece>> \in Seq(Piece) /\ Rest(text) \in Seq(Piece) /\ Ends(Rest(text)) = {}
  BY RestFacts
<1>2. Rest(text) \o <<piece>> \in Seq(Piece)
      /\ Ends(Rest(text) \o <<piece>>) = {Len(Rest(text)) + i : i \in Ends(<<piece>>)}
  <2>1. PICK rest \in Seq(Piece) : rest = Rest(text) /\ Ends(rest) = {}
    BY <1>1
  <2>2. PICK one \in Seq(Piece) : one = <<piece>>
    BY <1>1
  <2>3. /\ rest \o one \in Seq(Piece)
        /\ Ends(rest \o one) = Ends(rest) \cup {Len(rest) + i : i \in Ends(one)}
    BY ConcatEnds
  <2> QED  BY <2>1, <2>2, <2>3
<1>3. Complete(text \o <<piece>>) = Complete(text) \o more
  BY <1>1, CompleteConcat
<1>4. /\ more \in Seq(Seq(Piece)) /\ Complete(text) \in Seq(Seq(Piece))
      /\ Len(more) = Cardinality(Ends(Rest(text) \o <<piece>>))
  BY <1>2, CompleteType
<1>5. Ends(<<piece>>) \subseteq {1}
  BY <1>1 DEF Ends
<1>6. CASE Ends(<<piece>>) = {}
  <2>1. Ends(Rest(text) \o <<piece>>) = {}
    BY <1>2, <1>6
  <2>2. more = <<>>
    BY <1>2, <2>1, NothingComplete
  <2> HIDE DEF more
  <2> QED  BY <1>3, <1>4, <2>2, ShortSequences
<1>7. CASE Ends(<<piece>>) = {1}
  <2>1. Ends(Rest(text) \o <<piece>>) = {Len(Rest(text)) + 1}
    BY <1>2, <1>7
  <2>2. Len(more) = 1
    <3>1. Cardinality({Len(Rest(text)) + 1}) = 1
      BY FS_Singleton
    <3> QED  BY <1>4, <2>1, <3>1
  <2> HIDE DEF more
  <2>3. more = <<more[1]>> /\ more[1] \in Seq(Piece)
    BY <1>4, <2>2, ShortSequences
  <2>4. Complete(text \o <<piece>>) = Append(Complete(text), more[1])
    BY <1>3, <1>4, <2>3, AppendIsConcat
  <2> QED  BY <2>4
<1> QED  BY <1>5, <1>6, <1>7
-----------------------------------------------------------------------------
(* The steps of the server.                                                *)

\* What was read between two places, piece by piece.
LEMMA ReadFacts ==
  ASSUME NEW file \in Seq(Piece), NEW place \in Nat, NEW later \in Nat,
         place < later, later <= Len(file)
  PROVE  /\ SubSeq(file, place + 1, later) \in Seq(Piece)
         /\ Len(SubSeq(file, place + 1, later)) = later - place
         /\ \A i \in 1..(later - place) :
              SubSeq(file, place + 1, later)[i] = file[place + i] /\ place + i \in 1..Len(file)
OBVIOUS

\* Nothing was read between a place and itself.
LEMMA NothingRead ==
  ASSUME NEW file, NEW place \in Nat
  PROVE  /\ SubSeq(file, place + 1, place) = <<>>
         /\ Complete(<<>>) = <<>> /\ Rest(<<>>) = <<>> /\ Ends(<<>>) = {}
<1>1. SubSeq(file, place + 1, place) = <<>>
  BY SubSeqEmpty
<1>2. <<>> \in Seq(Piece) /\ Ends(<<>>) = {}
  BY DEF Ends
<1> QED  BY <1>1, <1>2, NothingComplete, RestFacts

\* A file in order stays so if the right piece is appended.
LEMMA WellFormedAppend ==
  ASSUME NEW file \in Seq(Piece), WellFormed(file), NEW piece \in Piece,
         piece.part = "tail" <=> Len(file) > 0 /\ file[Len(file)].part = "head",
         piece.part = "tail" => piece.line = file[Len(file)].line
  PROVE  WellFormed(Append(file, piece))
<1> DEFINE longer == Append(file, piece)
<1>1. /\ Len(longer) = Len(file) + 1 /\ Len(file) \in Nat
      /\ \A i \in 1..Len(file) : longer[i] = file[i]
      /\ longer[Len(file) + 1] = piece
  BY AppendProperties
<1> HIDE DEF longer
<1>2. ASSUME NEW i \in 1..Len(longer)
      PROVE  /\ longer[i].part = "tail" <=> i > 1 /\ longer[i - 1].part = "head"
             /\ longer[i].part = "tail" => longer[i].line = longer[i - 1].line
  <2>1. CASE i \in 1..Len(file)
    <3>1. longer[i] = file[i]
      BY <1>1, <2>1
    <3>2. CASE i = 1
      BY <2>1, <3>1, <3>2 DEF WellFormed
    <3>3. CASE i > 1
      <4>1. i - 1 \in 1..Len(file)
        BY <1>1, <2>1, <3>3
      <4>2. longer[i - 1] = file[i - 1]
        BY <1>1, <4>1
      <4> QED  BY <2>1, <3>1, <3>3, <4>2 DEF WellFormed
    <3> QED  BY <1>1, <2>1, <3>2, <3>3
  <2>2. CASE i = Len(file) + 1
    <3>1. longer[i] = piece
      BY <1>1, <2>2
    <3>2. CASE Len(file) = 0
      BY <1>1, <2>2, <3>1, <3>2
    <3>3. CASE Len(file) > 0
      <4>1. i - 1 = Len(file) /\ Len(file) \in 1..Len(file) /\ i > 1
        BY <1>1, <2>2, <3>3
      <4>2. longer[i - 1] = file[Len(file)]
        BY <1>1, <4>1
      <4> QED  BY <3>1, <3>3, <4>1, <4>2
    <3> QED  BY <1>1, <3>2, <3>3
  <2> QED  BY <1>1, <2>1, <2>2
<1>3. WellFormed(longer)
  BY <1>2 DEF WellFormed
<1> QED  BY <1>3 DEF longer

\* The newest file and that of the place are there, and in order.
LEMMA NewestFile ==
  ASSUME IInv
  PROVE  /\ Newest \in 1..Len(files) /\ Newest = Len(files) /\ Len(files) \in Nat
         /\ files[Newest] \in Seq(Piece) /\ WellFormed(files[Newest])
         /\ view \in 1..Len(files) /\ files[view] \in Seq(Piece) /\ WellFormed(files[view])
         /\ Len(files[Newest]) \in Nat /\ Len(files[view]) \in Nat /\ offset \in 0..Len(files[view])
         /\ opened \in 0..Len(files) /\ start \in Nat
<1>1. files \in Seq(Seq(Piece)) /\ view \in 1..Len(files) /\ offset \in 0..Len(files[view])
  BY DEF IInv, TypeOK, Newest
<1>2. Len(files) \in Nat /\ Len(files) \in 1..Len(files)
  BY <1>1
<1>3. opened \in 0..Len(files) /\ start \in Nat
  BY DEF IInv, TypeOK, Newest
<1>4. \A f \in 1..Len(files) : WellFormed(files[f])
  BY DEF IInv, FilesInv, Newest
<1> QED  BY <1>1, <1>2, <1>3, <1>4 DEF Newest

\* A server that only writes at the end of a file leaves what was read as it was.
LEMMA TailerUndisturbed ==
  ASSUME IInv, UNCHANGED tailer,
         files' \in Seq(Seq(Piece)), written' \in 0..MaxLines, Len(files) <= Len(files'),
         Len(files[view]) <= Len(files'[view]),
         \A i \in 1..Len(files[view]) : files'[view][i] = files[view][i]
  PROVE  TypeOK' /\ PlaceInv' /\ NothingHeldBack'
<1>1. /\ view \in 1..Len(files) /\ Len(files) \in Nat /\ Len(files') \in Nat
      /\ opened \in 0..Len(files) /\ offset \in 0..Len(files[view])
      /\ files[view] \in Seq(Piece) /\ start \in Nat
  <2>1. Len(files') \in Nat
    OBVIOUS
  <2> QED  BY SMTT(30), <2>1, NewestFile
<1>2. files'[view] \in Seq(Piece) /\ Len(files[view]) \in Nat /\ Len(files'[view]) \in Nat
  <2>1. view \in 1..Len(files')
    BY <1>1
  <2> QED  BY SMTT(30), <1>1, <2>1
<1>3. TypeOK'
  <2>1. opened' \in 0..Len(files') /\ view' \in 1..Len(files') /\ offset' \in 0..Len(files'[view'])
    <3>1. opened' = opened /\ view' = view /\ offset' = offset
      BY DEF tailer
    <3>2. opened \in 0..Len(files') /\ view \in 1..Len(files')
      BY SMTT(30), <1>1
    <3>3. offset \in 0..Len(files'[view])
      BY SMTT(30), <1>1, <1>2
    <3> QED  BY <3>1, <3>2, <3>3
  <2> QED  BY <2>1 DEF IInv, TypeOK, tailer, Newest
<1>4. PlaceInv'
  BY DEF IInv, PlaceInv, tailer
<1>5. NothingHeldBack'
  <2>1. PICK old : old = files[view]
    OBVIOUS
  <2>2. PICK new : new = files'[view]
    OBVIOUS
  <2>3. /\ old \in Seq(Piece) /\ new \in Seq(Piece) /\ offset \in 0..Len(old) /\ Len(old) <= Len(new)
        /\ \A i \in 1..Len(old) : new[i] = old[i]
        /\ Len(old) \in Nat /\ Len(new) \in Nat
    BY <1>1, <1>2, <2>1, <2>2
  <2>4. SubSeq(new, start + 1, offset) = SubSeq(old, start + 1, offset)
    <3> DEFINE s == SubSeq(new, start + 1, offset)
               t == SubSeq(old, start + 1, offset)
    <3>1. CASE start >= offset
      BY <1>1, <2>3, <3>1, SubSeqEmpty
    <3>2. CASE start < offset
      <4>1. offset \in Nat /\ offset <= Len(old) /\ offset <= Len(new) /\ offset - start \in Nat
        BY <1>1, <2>3, <3>2
      <4>2. /\ s \in Seq(Piece) /\ Len(s) = offset - start
            /\ \A i \in 1..(offset - start) : s[i] = new[start + i]
        BY SMTT(30), <1>1, <2>3, <3>2, <4>1, ReadFacts
      <4>3. /\ t \in Seq(Piece) /\ Len(t) = offset - start
            /\ \A i \in 1..(offset - start) : t[i] = old[start + i] /\ start + i \in 1..Len(old)
        BY <1>1, <2>3, <3>2, <4>1, ReadFacts
      <4> HIDE DEF s, t
      <4>5. \A i \in 1..(offset - start) : s[i] = t[i]
        BY <2>3, <4>2, <4>3
      <4>6. s = t
        BY <4>2, <4>3, <4>5, SeqEqual
      <4> QED  BY <4>6 DEF s, t
    <3> QED  BY <1>1, <3>1, <3>2
  <2> QED  BY <2>1, <2>2, <2>4 DEF IInv, NothingHeldBack, tailer
<1> QED  BY <1>3, <1>4, <1>5
\* The server may be in the head of a line: then that piece is the last of the file.
LEMMA InHeadFacts ==
  ASSUME IInv
  PROVE  /\ InHead => Len(files[Newest]) > 0
         /\ InHead <=> Len(files[Newest]) > 0 /\ files[Newest][Len(files[Newest])].part = "head"
         /\ InHead => files[Newest][Len(files[Newest])].line = written
<1>1. files[Newest] \in Seq(Piece) /\ Len(files[Newest]) \in Nat
  BY NewestFile
<1>2. files[Newest] # <<>> <=> Len(files[Newest]) > 0
  BY <1>1
<1> QED  BY <1>1, <1>2 DEF InHead, EndsLine, Last, IInv, FilesInv

\* The server ends what it began or begins a line.
LEMMA PutKeepsInv ==
  ASSUME IInv, NEW piece \in Piece, Put(piece), UNCHANGED tailer, written' \in 0..MaxLines,
         piece.part = "tail" <=> InHead,
         piece.part = "tail" => piece.line = files[Newest][Len(files[Newest])].line,
         piece.part = "head" => piece.line = written'
  PROVE  IInv'
<1>1. /\ Newest \in 1..Len(files) /\ Newest = Len(files) /\ Len(files) \in Nat
      /\ files[Newest] \in Seq(Piece) /\ WellFormed(files[Newest])
      /\ view \in 1..Len(files) /\ Len(files[Newest]) \in Nat
  BY NewestFile
<1>2. files \in Seq(Seq(Piece))
  BY DEF IInv, TypeOK
<1>3. /\ Append(files[Newest], piece) \in Seq(Piece)
      /\ Len(Append(files[Newest], piece)) = Len(files[Newest]) + 1
      /\ \A i \in 1..Len(files[Newest]) : Append(files[Newest], piece)[i] = files[Newest][i]
      /\ Append(files[Newest], piece)[Len(files[Newest]) + 1] = piece
  BY <1>1, AppendProperties
<1>4. /\ files' \in Seq(Seq(Piece)) /\ Len(files') = Len(files)
      /\ files'[Newest] = Append(files[Newest], piece)
      /\ \A f \in 1..Len(files) : f # Newest => files'[f] = files[f]
  BY <1>1, <1>2, <1>3 DEF Put
<1>5. \A i \in 1..Len(files[view]) : files'[view][i] = files[view][i]
  BY <1>1, <1>3, <1>4
<1>6. Len(files[view]) <= Len(files'[view])
  <2>1. CASE view = Newest
    BY <1>1, <1>3, <1>4, <2>1
  <2>2. CASE view # Newest
    <3>1. files'[view] = files[view] /\ Len(files[view]) \in Nat
      BY <1>1, <1>2, <1>4, <2>2
    <3> QED  BY <3>1
  <2> QED  BY <2>1, <2>2
<1>7. TypeOK' /\ PlaceInv' /\ NothingHeldBack'
  <2>1. Len(files) <= Len(files')
    BY <1>1, <1>4
  <2> QED  BY <1>4, <1>5, <1>6, <2>1, TailerUndisturbed
<1>8. FilesInv'
  <2>1. Newest' = Newest
    BY <1>4 DEF Newest
  <2>2. WellFormed(files'[Newest])
    <3>1. piece.part = "tail" <=> Len(files[Newest]) > 0 /\ files[Newest][Len(files[Newest])].part = "head"
      BY InHeadFacts
    <3> QED  BY <1>1, <1>4, <3>1, WellFormedAppend
  <2>3. \A f \in 1..Newest' : WellFormed(files'[f])
    BY <1>1, <1>4, <2>1, <2>2 DEF IInv, FilesInv
  <2>4. Last(files'[Newest]) = piece
    BY <1>1, <1>3, <1>4 DEF Last
  <2>5. InHead' => piece.part = "head"
    BY <2>1, <2>4 DEF InHead, EndsLine
  <2>6. InHead' => Last(files'[Newest']).line = written'
    BY <2>1, <2>4, <2>5
  <2> QED  BY <2>3, <2>6 DEF FilesInv
<1> QED  BY <1>7, <1>8 DEF IInv

\* No step of the server breaks the invariant.
LEMMA ServerKeepsInv ==
  ASSUME IInv, ServerStep
  PROVE  IInv'
<1>1. written \in 0..MaxLines /\ MaxLines \in Nat
  BY ConstantsAssumption DEF IInv, TypeOK
<1>2. ASSUME NEW part \in {"whole", "head"}, BeginLine(part)
      PROVE  IInv'
  <2> DEFINE piece == [line |-> written + 1, part |-> part]
  <2>1. /\ piece \in Piece /\ piece.part # "tail" /\ piece.line = written' /\ written' \in 0..MaxLines
        /\ Put(piece) /\ UNCHANGED tailer /\ ~InHead
    BY <1>1, <1>2 DEF BeginLine, Piece
  <2> HIDE DEF piece
  <2> QED  BY <2>1, PutKeepsInv
<1>3. CASE FinishLine
  <2> DEFINE piece == [line |-> written, part |-> "tail"]
  <2>1. InHead /\ Put(piece) /\ written' = written /\ UNCHANGED tailer
    BY <1>3 DEF FinishLine
  <2>2. /\ files[Newest][Len(files[Newest])].line = written /\ Len(files[Newest]) > 0
    BY <2>1, InHeadFacts
  <2>3. files[Newest][Len(files[Newest])] \in Piece
    BY <2>2, NewestFile
  <2>4. piece \in Piece /\ piece.part = "tail" /\ piece.line = written
    BY <2>2, <2>3 DEF Piece
  <2> HIDE DEF piece
  <2> QED  BY <1>1, <2>1, <2>2, <2>4, PutKeepsInv
<1>4. CASE StartNewFile
  <2>1. /\ files \in Seq(Seq(Piece)) /\ <<>> \in Seq(Piece) /\ Len(files) \in Nat
        /\ files' = Append(files, <<>>) /\ written' = written /\ UNCHANGED tailer
        /\ view \in 1..Len(files) /\ Len(files[view]) \in Nat
    BY <1>4, NewestFile DEF StartNewFile, IInv, TypeOK
  <2>2. /\ files' \in Seq(Seq(Piece)) /\ Len(files') = Len(files) + 1
        /\ \A f \in 1..Len(files) : files'[f] = files[f]
        /\ files'[Len(files) + 1] = <<>>
    BY <2>1, AppendProperties
  <2>3. TypeOK' /\ PlaceInv' /\ NothingHeldBack'
    <3>1. files'[view] = files[view] /\ Len(files) <= Len(files')
      BY <2>1, <2>2
    <3> QED  BY <1>1, <2>1, <2>2, <3>1, TailerUndisturbed
  <2>4. FilesInv'
    <3>1. Newest' = Len(files) + 1 /\ Newest = Len(files)
      BY <2>2 DEF Newest
    <3>2. WellFormed(<<>>)
      BY DEF WellFormed
    <3>3. ~InHead'
      BY <2>2, <3>1 DEF InHead
    <3>4. \A f \in 1..Newest' : WellFormed(files'[f])
      BY <2>1, <2>2, <3>1, <3>2 DEF IInv, FilesInv
    <3> QED  BY <3>3, <3>4 DEF FilesInv
  <2> QED  BY <2>3, <2>4 DEF IInv
<1> QED  BY <1>2, <1>3, <1>4 DEF ServerStep
-----------------------------------------------------------------------------
(* The steps of the tailer.                                                *)

\* The tailer does not write.
LEMMA FilesUndisturbed ==
  ASSUME FilesInv, UNCHANGED server
  PROVE  FilesInv'
BY DEF FilesInv, server, Newest, InHead, WellFormed

\* Opening the file keeps the place, or takes one, or loses it.
LEMMA OpenKeepsInv ==
  ASSUME IInv, OpenFirst \/ OpenShorter \/ OpenSame
  PROVE  IInv'
<1>1. FilesInv' /\ UNCHANGED server
  BY FilesUndisturbed DEF IInv, OpenFirst, OpenShorter, OpenSame
<1>2. /\ Newest \in 1..Len(files) /\ Newest = Len(files) /\ Len(files) \in Nat
      /\ files[Newest] \in Seq(Piece) /\ Len(files[Newest]) \in Nat
      /\ view \in 1..Len(files) /\ offset \in 0..Len(files[view])
      /\ Size = Len(files[Newest]) /\ Newest' = Newest /\ files' = files /\ written' = written
  BY <1>1, NewestFile DEF Size, server, Newest
<1>3. Ends(<<>>) = {} /\ Complete(<<>>) = <<>> /\ Rest(<<>>) = <<>>
  BY NothingRead
<1>4. <<>> \in Seq(Piece) /\ <<>> \in Seq(Seq(Piece))
  OBVIOUS
<1>5. CASE OpenFirst
  <2>1. TypeOK'
    <3>1. view' = Newest /\ offset' = Len(files[Newest]) /\ start' = Len(files[Newest])
      BY <1>2, <1>5 DEF OpenFirst
    <3>2. offset' \in 0..Len(files'[view']) /\ start' \in Nat /\ view' \in 1..Newest'
      BY <1>2, <3>1
    <3> QED  BY <1>2, <1>4, <1>5, <3>2 DEF OpenFirst, IInv, TypeOK
  <2>2. PlaceInv' /\ pending' = <<>>
    BY <1>2, <1>3, <1>5 DEF OpenFirst, IInv, PlaceInv
  <2>3. NothingHeldBack'
    <3>1. start' = offset' /\ offset' \in Nat /\ given' = <<>>
      BY <1>2, <1>5 DEF OpenFirst
    <3> QED  BY <1>3, <2>2, <3>1, NothingRead DEF NothingHeldBack
  <2> QED  BY <1>1, <2>1, <2>2, <2>3 DEF IInv
<1>6. CASE OpenShorter
  <2>1. TypeOK'
    <3>1. view' = Newest /\ opened' = Newest /\ offset' = 0 /\ start' = 0
      BY <1>2, <1>6 DEF OpenShorter
    <3>2. offset' \in 0..Len(files'[view']) /\ start' \in Nat /\ view' \in 1..Newest' /\ opened' \in 0..Newest'
      BY <1>2, <3>1
    <3> QED  BY <1>2, <1>4, <1>6, <3>2 DEF OpenShorter, IInv, TypeOK
  <2>2. PlaceInv'
    BY <1>2, <1>3, <1>6 DEF OpenShorter, IInv, PlaceInv
  <2>3. NothingHeldBack'
    <3>1. start' = 0 /\ offset' = 0 /\ given' = <<>> /\ pending' = <<>>
      BY <1>6 DEF OpenShorter
    <3> QED  BY <1>3, <3>1, NothingRead DEF NothingHeldBack
  <2> QED  BY <1>1, <2>1, <2>2, <2>3 DEF IInv
<1>7. CASE OpenSame
  <2>1. TypeOK'
    BY <1>2, <1>4, <1>7 DEF OpenSame, IInv, TypeOK
  <2>2. CASE lost'
    <3>1. given' = <<>>
      BY <1>7, <2>2 DEF OpenSame
    <3>2. PlaceInv'
      BY <1>2, <1>7, <2>2, <3>1 DEF OpenSame, IInv, PlaceInv
    <3>3. NothingHeldBack'
      BY <2>2 DEF NothingHeldBack
    <3> QED  BY <1>1, <2>1, <3>2, <3>3 DEF IInv
  <2>3. CASE ~lost' /\ view = Newest
    <3>1. ~lost /\ view' = view /\ start' = start /\ given' = given /\ offset' = offset /\ pending' = pending
      BY <1>7, <2>3 DEF OpenSame
    <3>2. PlaceInv'
      BY <1>2, <1>7, <2>3, <3>1 DEF OpenSame, IInv, PlaceInv
    <3>3. NothingHeldBack'
      BY <1>2, <3>1 DEF IInv, NothingHeldBack
    <3> QED  BY <1>1, <2>1, <3>2, <3>3 DEF IInv
  <2>4. CASE ~lost' /\ view # Newest
    <3>1. ~lost /\ offset = 0 /\ start' = 0 /\ offset' = 0 /\ given' = <<>> /\ pending' = pending
      <4>1. ~lost /\ ~(offset > 0)
        BY <1>7, <2>4 DEF OpenSame
      <4>2. offset \in Nat
        BY DEF IInv, TypeOK
      <4>3. offset' = offset /\ start' = offset /\ given' = <<>> /\ pending' = pending
        BY <1>7, <2>4 DEF OpenSame
      <4> QED  BY <4>1, <4>2, <4>3
    <3>2. pending = <<>>
      <4>1. start = 0 /\ offset = 0
        BY <3>1 DEF IInv, PlaceInv, TypeOK
      <4>2. pending = Rest(SubSeq(files[view], 0 + 1, 0))
        BY <3>1, <4>1 DEF IInv, NothingHeldBack
      <4> QED  BY <1>3, <4>2, NothingRead
    <3>3. PlaceInv'
      BY <1>2, <1>7, <2>4, <3>1 DEF OpenSame, IInv, PlaceInv
    <3>4. NothingHeldBack'
      BY <1>3, <3>1, <3>2, NothingRead DEF NothingHeldBack
    <3> QED  BY <1>1, <2>1, <3>3, <3>4 DEF IInv
  <2> QED  BY <2>2, <2>3, <2>4
<1> QED  BY <1>5, <1>6, <1>7

\* A new tailer knows no place.
LEMMA RestartKeepsInv ==
  ASSUME IInv, NewLogTailer
  PROVE  IInv'
<1>1. FilesInv' /\ UNCHANGED server
  BY FilesUndisturbed DEF IInv, NewLogTailer
<1>2. /\ Newest \in 1..Len(files) /\ files[Newest] \in Seq(Piece) /\ Len(files[Newest]) \in Nat
      /\ Newest' = Newest /\ files' = files /\ written' = written
  BY <1>1, NewestFile DEF server, Newest
<1>3. TypeOK'
  <2>1. view' = Newest /\ opened' = 0 /\ offset' = 0 /\ start' = 0 /\ pending' = <<>> /\ given' = <<>>
    BY DEF NewLogTailer
  <2>2. /\ offset' \in 0..Len(files'[view']) /\ start' \in Nat /\ view' \in 1..Newest' /\ opened' \in 0..Newest'
        /\ pending' \in Seq(Piece) /\ given' \in Seq(Seq(Piece))
    BY <1>2, <2>1
  <2> QED  BY <1>2, <2>2 DEF NewLogTailer, IInv, TypeOK
<1>4. PlaceInv' /\ NothingHeldBack'
  BY NothingRead DEF NewLogTailer, PlaceInv, NothingHeldBack
<1> QED  BY <1>1, <1>3, <1>4 DEF IInv
\* What reading to the end of the file finds, put together from what was read before.
LEMMA ReadOn ==
  ASSUME NEW file \in Seq(Piece), NEW from \in Nat, NEW place \in 0..Len(file), from <= place
  PROVE  LET read == SubSeq(file, from + 1, place)
             text == From(file, place)
         IN  /\ SubSeq(file, from + 1, Len(file)) = From(file, from)
             /\ Complete(From(file, from)) = Complete(read) \o Complete(Rest(read) \o text)
             /\ Rest(From(file, from)) = Rest(Rest(read) \o text)
<1> DEFINE read == SubSeq(file, from + 1, place)
           text == From(file, place)
<1>1. text \in Seq(Piece)
  BY FromFacts
<1>2. place \in from..Len(file)
  OBVIOUS
<1>3. read \in Seq(Piece) /\ From(file, from) = read \o text
  BY <1>2, FromSplits
<1>4. SubSeq(file, from + 1, Len(file)) = From(file, from)
  BY DEF From
<1> HIDE DEF read, text
<1>5. /\ Complete(read \o text) = Complete(read) \o Complete(Rest(read) \o text)
      /\ Rest(Rest(read) \o text) = Rest(read \o text)
  BY <1>1, <1>3, CompleteConcat, RestSuffices
<1> QED  BY <1>3, <1>4, <1>5 DEF read, text

\* After the end of a line the place is known: what follows is one unfinished line.
LEMMA PlaceFound ==
  ASSUME NEW file \in Seq(Piece), NEW place \in 0..Len(file), NEW kept \in Seq(Piece),
         Ends(kept) = {}, Complete(kept \o From(file, place)) # <<>>
  PROVE  LET ahead == place + LastEnd(From(file, place))
         IN  /\ ahead \in 0..Len(file)
             /\ Complete(From(file, ahead)) = <<>>
             /\ Rest(kept \o From(file, place)) = Rest(From(file, ahead))
<1> DEFINE text == From(file, place)
           ahead == place + LastEnd(text)
<1>1. text \in Seq(Piece) /\ ahead \in 0..Len(file) /\ Rest(text) = From(file, ahead)
  BY FromFacts, RestIsFrom
<1> HIDE DEF text, ahead
<1>2. Rest(text) \in Seq(Piece) /\ Ends(Rest(text)) = {} /\ Rest(Rest(text)) = Rest(text)
  BY <1>1, RestFacts
<1>3. Complete(Rest(text)) = <<>>
  BY <1>2, NothingComplete
<1>4. Ends(text) # {}
  <2> SUFFICES ASSUME Ends(text) = {}
               PROVE  FALSE
    OBVIOUS
  <2>1. kept \o text \in Seq(Piece) /\ Ends(kept \o text) = {}
    BY <1>1, ConcatEnds
  <2>2. Complete(kept \o text) = <<>>
    BY <2>1, NothingComplete
  <2> QED  BY <2>2 DEF text
<1>5. Rest(kept \o text) = Rest(text)
  BY <1>1, <1>4, RestOfConcat
<1> QED  BY <1>1, <1>2, <1>3, <1>5 DEF text, ahead

\* A read adds what it found to what was given, or finds the place.
LEMMA ReadKeepsInv ==
  ASSUME IInv, ReadNewLines
  PROVE  IInv'
<1>1. FilesInv' /\ UNCHANGED server
  BY FilesUndisturbed DEF IInv, ReadNewLines
<1>2. PICK file : file = files[opened]
  OBVIOUS
<1>3. PICK text : text = From(file, offset)
  OBVIOUS
<1>4. /\ files' = files /\ written' = written /\ view' = view /\ view = opened /\ initialized' = initialized
      /\ files[view] = file /\ files'[view'] = file /\ Newest' = Newest /\ opened' = 0
      /\ file \in Seq(Piece) /\ Len(file) \in Nat /\ offset \in 0..Len(file)
      /\ pending \in Seq(Piece) /\ Ends(pending) = {} /\ initialized
  BY <1>1, <1>2, NewestFile DEF ReadNewLines, server, Newest, IInv, PlaceInv, TypeOK
<1>5. /\ pending' = Rest(pending \o text)
      /\ offset' = Len(file)
      /\ lost' = (lost /\ Complete(pending \o text) = <<>>)
      /\ given' = IF lost THEN <<>> ELSE given \o Complete(pending \o text)
      /\ start' = IF lost THEN offset + LastEnd(text) ELSE start
  BY <1>2, <1>3 DEF ReadNewLines
<1>6. /\ text \in Seq(Piece) /\ pending \o text \in Seq(Piece)
      /\ Rest(pending \o text) \in Seq(Piece) /\ Ends(Rest(pending \o text)) = {}
      /\ Complete(pending \o text) \in Seq(Seq(Piece))
      /\ offset + LastEnd(text) \in 0..Len(file)
  BY <1>3, <1>4, FromFacts, ConcatEnds, RestFacts, CompleteType, RestIsFrom
<1>7. start \in Nat /\ given \in Seq(Seq(Piece)) /\ (~lost => start <= offset) /\ view \in 1..Newest
      /\ initialized \in BOOLEAN
  BY DEF IInv, TypeOK, PlaceInv
<1>8. TypeOK'
  <2>1. given' \in Seq(Seq(Piece))
    <3>1. given \o Complete(pending \o text) \in Seq(Seq(Piece))
      BY <1>6, <1>7, ConcatProperties
    <3> QED  BY <1>5, <3>1
  <2>2. start' \in Nat /\ offset' \in 0..Len(files'[view']) /\ lost' \in BOOLEAN /\ opened' \in 0..Newest'
    <3>1. lost' \in BOOLEAN
      BY <1>5
    <3>2. start' \in Nat
      BY <1>4, <1>5, <1>6, <1>7
    <3>3. offset' \in 0..Len(files'[view'])
      <4>1. Len(file) \in 0..Len(file)
        BY <1>4
      <4>2. offset' = Len(file) /\ files'[view'] = file
        BY <1>4, <1>5
      <4> QED  BY <4>1, <4>2
    <3>4. opened' \in 0..Newest'
      <4>1. Newest \in Nat
        BY NewestFile
      <4>2. 0 \in 0..Newest
        BY <4>1
      <4> QED  BY <1>4, <4>2
    <3> QED  BY <3>1, <3>2, <3>3, <3>4
  <2> QED  BY <1>4, <1>5, <1>6, <1>7, <2>1, <2>2 DEF TypeOK, IInv
<1>9. PlaceInv'
  <2>1. lost' => given' = <<>>
    BY <1>5
  <2>2. ~lost' => start' <= offset'
    BY <1>4, <1>5, <1>6, <1>7
  <2> QED  BY <1>4, <1>5, <1>6, <2>1, <2>2 DEF PlaceInv
<1>10. NothingHeldBack'
  <2> SUFFICES ASSUME ~lost'
               PROVE  /\ given' = Complete(SubSeq(file, start' + 1, Len(file)))
                      /\ pending' = Rest(SubSeq(file, start' + 1, Len(file)))
    BY <1>4, <1>5 DEF NothingHeldBack
  <2>1. CASE ~lost
    <3>1. PICK read : read = SubSeq(file, start + 1, offset)
      OBVIOUS
    <3>2. given = Complete(read) /\ pending = Rest(read)
      BY <1>4, <2>1, <3>1 DEF IInv, NothingHeldBack
    <3>3. PICK from \in Nat : from = start /\ from <= offset
      BY <1>7, <2>1
    <3>4. PICK place \in 0..Len(file) : place = offset
      BY <1>4
    <3>5. /\ SubSeq(file, from + 1, Len(file)) = From(file, from)
          /\ Complete(From(file, from)) = Complete(read) \o Complete(Rest(read) \o text)
          /\ Rest(From(file, from)) = Rest(Rest(read) \o text)
      BY <1>3, <1>4, <3>1, <3>3, <3>4, ReadOn
    <3> QED  BY <1>5, <2>1, <3>2, <3>3, <3>5
  <2>2. CASE lost
    <3>1. Complete(pending \o text) # <<>> /\ start' = offset + LastEnd(text) /\ given' = <<>>
      BY <1>5, <2>2
    <3>2. Complete(From(file, start')) = <<>> /\ Rest(pending \o text) = Rest(From(file, start'))
      BY <1>3, <1>4, <3>1, PlaceFound
    <3> QED  BY <1>5, <3>1, <3>2 DEF From
  <2> QED  BY <2>1, <2>2
<1> QED  BY <1>1, <1>8, <1>9, <1>10 DEF IInv

\* A failed read that left something behind loses the place.
LEMMA FailureKeepsInv ==
  ASSUME IInv, ReadFails
  PROVE  IInv'
<1>1. FilesInv' /\ UNCHANGED server
  BY FilesUndisturbed DEF IInv, ReadFails
<1>2. PICK n \in offset..Len(files[opened]) :
        pending' = Rest(pending \o SubSeq(files[opened], offset + 1, n))
  BY DEF ReadFails
<1>3. /\ files' = files /\ written' = written /\ view' = view /\ view = opened /\ initialized' = initialized
      /\ offset' = offset /\ start' = start /\ opened' = 0 /\ Newest' = Newest /\ initialized
      /\ lost' = (lost \/ pending' # pending) /\ given' = IF lost' THEN <<>> ELSE given
      /\ files[opened] \in Seq(Piece) /\ offset \in Nat /\ pending \in Seq(Piece)
  BY <1>1, NewestFile DEF ReadFails, server, Newest, IInv, PlaceInv, TypeOK
<1>4. pending' \in Seq(Piece) /\ Ends(pending') = {}
  <2>1. SubSeq(files[opened], offset + 1, n) \in Seq(Piece)
    BY <1>2, <1>3, FromSplits
  <2> QED  BY <1>2, <1>3, <2>1, ConcatEnds, RestFacts
<1>5. TypeOK'
  <2>1. lost' \in BOOLEAN /\ opened' \in 0..Newest'
    <3>1. lost' \in BOOLEAN
      BY <1>3
    <3>2. Newest \in Nat
      BY NewestFile
    <3>3. 0 \in 0..Newest
      BY <3>2
    <3> QED  BY <1>3, <3>1, <3>3
  <2>2. given' \in Seq(Seq(Piece))
    BY <1>3 DEF IInv, TypeOK
  <2> QED  BY <1>3, <1>4, <2>1, <2>2 DEF IInv, TypeOK
<1>6. PlaceInv'
  BY <1>3, <1>4 DEF IInv, PlaceInv
<1>7. NothingHeldBack'
  BY <1>3 DEF IInv, NothingHeldBack
<1> QED  BY <1>1, <1>5, <1>6, <1>7 DEF IInv

\* The server may have begun its log before the tailer starts.
LEMMA InitHolds == Init => IInv
<1> SUFFICES ASSUME Init
             PROVE  IInv
  OBVIOUS
<1>1. PICK text \in {<<>>, <<"whole">>, <<"head">>} :
        /\ files = <<[i \in DOMAIN text |-> [line |-> 1, part |-> text[i]]]>>
        /\ written = Len(text)
  BY DEF Init
<1> DEFINE file == [i \in DOMAIN text |-> [line |-> 1, part |-> text[i]]]
<1>2. MaxLines \in Nat /\ MaxLines >= 1
  BY ConstantsAssumption
<1>3. /\ Len(text) \in Nat /\ Len(text) <= 1 /\ DOMAIN text = 1..Len(text)
      /\ \A i \in 1..Len(text) : i = 1 /\ text[i] \in {"whole", "head"}
  <2>1. CASE text = <<>>
    BY <2>1
  <2>2. CASE text = <<"whole">>
    BY <2>2
  <2>3. CASE text = <<"head">>
    BY <2>3
  <2> QED  BY <1>1, <2>1, <2>2, <2>3
<1>4. /\ file \in Seq(Piece) /\ Len(file) = Len(text)
      /\ \A i \in 1..Len(text) : file[i].part = text[i] /\ file[i].line = 1
  <2>1. \A i \in 1..Len(text) : [line |-> 1, part |-> text[i]] \in Piece
    BY <1>2, <1>3 DEF Piece
  <2> QED  BY <1>3, <2>1
<1> HIDE DEF file
<1>5. files = <<file>>
  BY <1>1 DEF file
<1>6. files \in Seq(Seq(Piece)) /\ Newest = 1 /\ files[1] = file
  BY <1>4, <1>5 DEF Newest
<1>7. TypeOK
  <2>1. /\ initialized = FALSE /\ offset = 0 /\ pending = <<>> /\ opened = 0
        /\ view = 1 /\ start = 0 /\ given = <<>> /\ lost = TRUE
    BY DEF Init
  <2>2. written \in 0..MaxLines
    BY <1>1, <1>2, <1>3
  <2>3. opened \in 0..Newest /\ view \in 1..Newest
    BY <1>6, <2>1
  <2>4. files[view] = file /\ offset = 0 /\ 0 \in 0..Len(file)
    BY <1>3, <1>4, <1>6, <2>1
  <2>5. offset \in 0..Len(files[view])
    BY <2>4
  <2>6. pending \in Seq(Piece) /\ given \in Seq(Seq(Piece)) /\ start \in Nat
    BY <2>1
  <2>7. initialized \in BOOLEAN /\ lost \in BOOLEAN
    BY <2>1
  <2> QED  BY <1>6, <2>2, <2>3, <2>5, <2>6, <2>7 DEF TypeOK
<1>8. FilesInv
  <2>1. WellFormed(file)
    BY <1>3, <1>4 DEF WellFormed
  <2>2. InHead => Last(files[Newest]).line = written
    <3> SUFFICES ASSUME InHead
                 PROVE  Last(files[Newest]).line = written
      OBVIOUS
    <3>1. Len(file) = 1
      BY <1>3, <1>4, <1>6 DEF InHead
    <3> QED  BY <1>1, <1>4, <1>6, <3>1 DEF Last
  <2> QED  BY <1>6, <2>1, <2>2 DEF FilesInv
<1>9. PlaceInv /\ NothingHeldBack
  BY NothingRead DEF Init, PlaceInv, NothingHeldBack
<1> QED  BY <1>7, <1>8, <1>9 DEF IInv

\* Every step keeps the invariant.
LEMMA NextKeepsInv ==
  ASSUME IInv, [Next]_vars
  PROVE  IInv'
<1>1. CASE UNCHANGED vars
  BY <1>1 DEF IInv, TypeOK, FilesInv, PlaceInv, NothingHeldBack, InHead, WellFormed, Newest, vars
<1> QED  BY <1>1, ServerKeepsInv, OpenKeepsInv, ReadKeepsInv, FailureKeepsInv, RestartKeepsInv DEF Next, Poll

\* The inductive invariant of the tailer: the files are in order, a file that is open is
\* that of the place, what is kept holds no end, and nothing that was read is held back.
THEOREM Invariance == Spec => []IInv
BY InitHolds, NextKeepsInv, PTL DEF Spec
\* For every number of lines and files: the fields of the tailer and the history are of
\* their types, and the place is in the file.
THEOREM TypeCorrect == Spec => []TypeOK
BY Invariance, PTL DEF IInv

\* For every number of lines and files: unless the place is lost, what was read is what was
\* handed out and the beginning of a line that is kept.
THEOREM AllIsHandedOut == Spec => []NothingHeldBack
BY Invariance, PTL DEF IInv
-----------------------------------------------------------------------------
(* The tailer implements the feed of lines.                                *)

\* The lines of the file since the place are lines.
LEMMA LinesAreLines ==
  ASSUME IInv
  PROVE  /\ Lines \in Seq(Line)
         /\ ~lost => /\ start \in 0..Len(files[view]) /\ files[view] \in Seq(Piece)
                     /\ Lines = Complete(From(files[view], start))
<1>1. CASE lost
  <2>1. Lines = <<>>
    BY <1>1 DEF Lines
  <2> QED  BY <1>1, <2>1
<1>2. CASE ~lost
  <2>1. /\ files[view] \in Seq(Piece) /\ WellFormed(files[view]) /\ offset \in 0..Len(files[view])
        /\ Len(files[view]) \in Nat /\ start \in Nat /\ start <= offset
    BY <1>2, NewestFile DEF IInv, PlaceInv, TypeOK
  <2>2. start \in 0..Len(files[view])
    BY <2>1
  <2>3. Lines = Complete(From(files[view], start))
    BY <1>2 DEF Lines
  <2> QED  BY <2>1, <2>2, <2>3, CompleteLines
<1> QED  BY <1>1, <1>2

\* The same after a step.
LEMMA LinesAreLinesNext == IInv' => Lines' \in Seq(Line)
<1>1. IInv => Lines \in Seq(Line)
  BY LinesAreLines
<1>2. (IInv => Lines \in Seq(Line))'
  BY <1>1, PTL
<1> QED  BY <1>2

\* A step after which the place is lost is a loss of the feed.
LEMMA Loses ==
  ASSUME lost' = TRUE, given' = <<>>
  PROVE  Feed!FeedNext
<1>1. Lines' = <<>>
  BY DEF Lines
<1> QED  BY <1>1 DEF Feed!FeedNext, Feed!LosePlace

\* A step that takes a place and has given nothing yet takes one of the feed.
LEMMA Takes ==
  ASSUME IInv', lost' = FALSE, given' = <<>>
  PROVE  Feed!FeedNext
<1>1. Lines' \in Seq(Line)
  BY LinesAreLinesNext
<1> QED  BY <1>1 DEF Feed!FeedNext, Feed!TakePlace

\* A step that changes no line stutters.
LEMMA Stands ==
  ASSUME UNCHANGED <<given, lost>>, Lines' = Lines
  PROVE  UNCHANGED Feed!feedVars
BY DEF Feed!feedVars

\* A file that grows by a piece feeds one more line at most.
LEMMA FileGrows ==
  ASSUME IInv, IInv', UNCHANGED <<view, start, given, lost>>,
         \/ files'[view] = files[view]
         \/ \E piece \in Piece : files'[view] = Append(files[view], piece)
  PROVE  [Feed!FeedNext]_Feed!feedVars
<1>1. CASE lost
  <2>1. Lines' = Lines
    BY <1>1 DEF Lines
  <2> QED  BY <2>1, Stands
<1>2. CASE ~lost /\ files'[view] = files[view]
  <2>1. Lines' = Lines
    BY <1>2 DEF Lines
  <2> QED  BY <2>1, Stands
<1>3. ASSUME ~lost, NEW piece \in Piece, files'[view] = Append(files[view], piece)
      PROVE  [Feed!FeedNext]_Feed!feedVars
  <2>1. PICK file : file = files[view]
    OBVIOUS
  <2>2. /\ start \in 0..Len(file) /\ file \in Seq(Piece) /\ Lines = Complete(From(file, start))
        /\ Lines \in Seq(Line)
    BY <1>3, <2>1, LinesAreLines
  <2>3. Lines' = Complete(From(Append(file, piece), start))
    BY <1>3, <2>1 DEF Lines
  <2>4. Lines' = Complete(From(file, start) \o <<piece>>)
    BY <2>2, <2>3, FromAppend
  <2>5. From(file, start) \in Seq(Piece)
    BY <2>2, FromFacts
  <2>6. Lines' = Lines \/ \E line : Lines' = Append(Lines, line)
    BY <2>2, <2>4, <2>5, OneMoreLine
  <2>7. Lines' \in Seq(Line)
    BY LinesAreLinesNext
  <2>8. CASE Lines' = Lines
    BY <2>8, Stands
  <2>9. ASSUME NEW line, Lines' = Append(Lines, line)
        PROVE  Feed!FeedNext
    <3>1. PICK old : old = Lines
      OBVIOUS
    <3>2. Append(old, line) \in Seq(Line) /\ old \in Seq(Line)
      BY <2>2, <2>7, <2>9, <3>1
    <3>3. line \in Line
      <4>1. /\ Len(Append(old, line)) = Len(old) + 1 /\ Len(old) \in Nat
            /\ Append(old, line)[Len(old) + 1] = line
        BY <3>2
      <4>2. Len(old) + 1 \in 1..Len(Append(old, line))
        BY <4>1
      <4>3. Append(old, line)[Len(old) + 1] \in Line
        BY <3>2, <4>2
      <4> QED  BY <4>1, <4>3
    <3> QED  BY <1>3, <2>9, <3>3 DEF Feed!FeedNext, Feed!ServerWrites
  <2> QED  BY <2>6, <2>8, <2>9
<1> QED  BY <1>1, <1>2, <1>3

\* The steps of the server write lines of the feed.
LEMMA ServerFeeds ==
  ASSUME IInv, IInv', ServerStep
  PROVE  [Feed!FeedNext]_Feed!feedVars
<1>1. UNCHANGED tailer
  BY DEF ServerStep, BeginLine, FinishLine, StartNewFile
<1>2. UNCHANGED <<view, start, given, lost>>
  BY <1>1 DEF tailer
<1>3. files \in Seq(Seq(Piece)) /\ Newest \in 1..Len(files) /\ view \in 1..Len(files)
  BY NewestFile DEF IInv, TypeOK
<1>4. ASSUME NEW piece \in Piece, Put(piece)
      PROVE  \/ files'[view] = files[view]
             \/ files'[view] = Append(files[view], piece)
  BY <1>3, <1>4 DEF Put
<1>5. MaxLines \in Nat /\ written \in 0..MaxLines
  BY ConstantsAssumption DEF IInv, TypeOK
<1>6. CASE \E part \in {"whole", "head"} : BeginLine(part)
  <2>1. PICK part \in {"whole", "head"} : BeginLine(part)
    BY <1>6
  <2>2. [line |-> written + 1, part |-> part] \in Piece
    BY <1>5, <2>1 DEF BeginLine, Piece
  <2>3. Put([line |-> written + 1, part |-> part])
    BY <2>1 DEF BeginLine
  <2> QED  BY <1>2, <1>4, <2>2, <2>3, FileGrows
<1>7. CASE FinishLine
  <2>1. Put([line |-> written, part |-> "tail"]) /\ InHead
    BY <1>7 DEF FinishLine
  <2>2. /\ files[Newest][Len(files[Newest])].line = written /\ Len(files[Newest]) > 0
        /\ files[Newest] \in Seq(Piece)
    BY <2>1, InHeadFacts, NewestFile
  <2>3. [line |-> written, part |-> "tail"] \in Piece
    <3>1. files[Newest][Len(files[Newest])] \in Piece
      BY <2>2
    <3> QED  BY <2>2, <3>1 DEF Piece
  <2> QED  BY <1>2, <1>4, <2>1, <2>3, FileGrows
<1>8. CASE StartNewFile
  <2>1. files' = Append(files, <<>>)
    BY <1>8 DEF StartNewFile
  <2>2. files'[view] = files[view]
    BY <1>3, <2>1
  <2> QED  BY <1>2, <2>2, FileGrows
<1> QED  BY <1>6, <1>7, <1>8 DEF ServerStep

\* A read gives the lines it found.
LEMMA ReadFeeds ==
  ASSUME IInv, IInv', ReadNewLines
  PROVE  [Feed!FeedNext]_Feed!feedVars
<1>1. PICK found : found = Complete(pending \o From(files[opened], offset))
  OBVIOUS
<1>2. /\ lost' = (lost /\ found = <<>>) /\ given' = IF lost THEN <<>> ELSE given \o found
      /\ files' = files /\ view' = view /\ view = opened /\ (~lost => start' = start)
      /\ offset' = Len(files[opened])
  BY <1>1 DEF ReadNewLines, server, IInv, PlaceInv
<1>3. CASE lost /\ found = <<>>
  BY <1>2, <1>3, Loses
<1>4. CASE lost /\ found # <<>>
  BY <1>2, <1>4, Takes
<1>5. CASE ~lost
  <2>1. lost' = FALSE /\ lost' = lost /\ start' = start
    BY <1>2, <1>5 DEF IInv, TypeOK
  <2>2. Lines' = Lines /\ Lines = Complete(From(files[view], start)) /\ Lines \in Seq(Line)
    BY <1>2, <1>5, <2>1, LinesAreLines DEF Lines
  <2>3. given' = Lines
    <3>1. given' = Complete(SubSeq(files'[view'], start' + 1, offset'))
      BY <2>1 DEF IInv, NothingHeldBack
    <3>2. From(files[view], start) = SubSeq(files[view], start + 1, Len(files[view]))
      BY DEF From
    <3> QED  BY <1>2, <2>1, <2>2, <3>1, <3>2
  <2>4. given' = given \o found /\ given \in Seq(Seq(Piece)) /\ found \in Seq(Seq(Piece))
    <3>1. pending \in Seq(Piece) /\ From(files[opened], offset) \in Seq(Piece)
      BY <1>2, NewestFile, FromFacts DEF IInv, TypeOK
    <3>2. found \in Seq(Seq(Piece))
      BY <1>1, <3>1, ConcatEnds, CompleteType
    <3> QED  BY <1>2, <1>5, <3>2 DEF IInv, TypeOK
  <2>5. CASE found = <<>>
    <3>1. given' = given
      BY <2>4, <2>5, ShortSequences
    <3> QED  BY <1>5, <2>1, <2>2, <3>1, Stands
  <2>6. CASE found # <<>>
    <3>1. Len(given') > Len(given)
      <4>1. Len(found) > 0 /\ Len(given) \in Nat /\ Len(given \o found) = Len(given) + Len(found)
        BY <2>4, <2>6
      <4> QED  BY <2>4, <4>1
    <3>2. Feed!IsPrefix(given', Lines)
      BY <2>2, <2>3 DEF Feed!IsPrefix
    <3> QED  BY <1>5, <2>1, <2>2, <3>1, <3>2 DEF Feed!FeedNext, Feed!Give
  <2> QED  BY <2>5, <2>6
<1> QED  BY <1>3, <1>4, <1>5

\* Opening, failing and starting again take or lose the place.
LEMMA TailerFeeds ==
  ASSUME IInv, IInv', \/ OpenFirst \/ OpenShorter \/ OpenSame
                      \/ ReadFails \/ NewLogTailer
  PROVE  [Feed!FeedNext]_Feed!feedVars
<1>1. CASE OpenFirst \/ OpenShorter
  BY <1>1, Takes DEF OpenFirst, OpenShorter
<1>2. CASE NewLogTailer
  BY <1>2, Loses DEF NewLogTailer
<1>3. CASE OpenSame
  <2>1. CASE lost'
    <3>1. given' = <<>> /\ lost' = TRUE
      BY <1>3, <2>1 DEF OpenSame, IInv, TypeOK
    <3> QED  BY <3>1, Loses
  <2>2. CASE ~lost' /\ view # Newest
    <3>1. given' = <<>> /\ lost' = FALSE
      BY <1>3, <2>2 DEF OpenSame, IInv, TypeOK
    <3> QED  BY <3>1, Takes
  <2>3. CASE ~lost' /\ view = Newest
    <3>1. /\ given' = given /\ lost' = FALSE /\ lost = FALSE /\ view' = view /\ start' = start
          /\ files' = files
      BY <1>3, <2>3 DEF OpenSame, IInv, TypeOK, server
    <3>2. Lines' = Lines
      BY <3>1 DEF Lines
    <3> QED  BY <3>1, <3>2, Stands
  <2> QED  BY <2>1, <2>2, <2>3
<1>4. CASE ReadFails
  <2>1. lost' = (lost \/ pending' # pending) /\ given' = (IF lost' THEN <<>> ELSE given)
        /\ files' = files /\ view' = view /\ start' = start /\ lost \in BOOLEAN
    BY <1>4 DEF ReadFails, server, IInv, TypeOK
  <2>2. CASE lost'
    <3>1. given' = <<>> /\ lost' = TRUE
      BY <2>1, <2>2
    <3> QED  BY <3>1, Loses
  <2>3. CASE ~lost'
    <3>1. given' = given /\ lost' = lost
      BY <2>1, <2>3
    <3>2. Lines' = Lines
      BY <2>1, <3>1 DEF Lines
    <3> QED  BY <3>1, <3>2, Stands
  <2> QED  BY <2>2, <2>3
<1> QED  BY <1>1, <1>2, <1>3, <1>4

\* For every number of lines, files and failed reads: the tailer implements the feed.  Its
\* lines are whole, those of the file from the place taken, in order and once.
THEOREM FollowsTheLog == Spec => ImplementsFeed
<1>1. Init => Feed!FeedInit
  <2> SUFFICES ASSUME Init
               PROVE  Feed!FeedInit
    OBVIOUS
  <2>1. lost = TRUE /\ given = <<>>
    BY DEF Init
  <2>2. Lines = <<>>
    BY <2>1 DEF Lines
  <2> QED  BY <2>1, <2>2 DEF Feed!FeedInit
<1>2. IInv /\ IInv' /\ [Next]_vars => [Feed!FeedNext]_Feed!feedVars
  <2> SUFFICES ASSUME IInv, IInv', [Next]_vars
               PROVE  [Feed!FeedNext]_Feed!feedVars
    OBVIOUS
  <2>1. CASE UNCHANGED vars
    <3>1. Lines' = Lines /\ UNCHANGED <<given, lost>>
      BY <2>1 DEF Lines, vars
    <3> QED  BY <3>1, Stands
  <2> QED  BY <2>1, ServerFeeds, ReadFeeds, TailerFeeds DEF Next, Poll
<1> QED  BY <1>1, <1>2, Invariance, PTL DEF Spec, ImplementsFeed, Feed!FeedSpec
=============================================================================
