-------------------------- MODULE AlarmOutputProofs --------------------------
(***************************************************************************)
(* Proofs about what an alarm leads to outside the kitchen: the            *)
(* announcements of BroadcastManager and the records of AlarmRecords.      *)
(***************************************************************************)
EXTENDS BroadcastManager, AlarmRecords, TLAPS, SequenceTheorems, FiniteSetTheorems,
        WellFoundedInduction

(***************************************************************************)
(* BroadcastManager.  For any finite set of zones: how often one zone goes *)
(* before another that waits, and how often one is announced after it has  *)
(* come to rest.                                                           *)
(***************************************************************************)
\* A round has each zone once, and the one it announces no more; between rounds
\* nothing is left of it.
RoundIsFresh ==
  /\ round \in Seq(Zone) /\ IsInjective(round)
  /\ at = "speak" => saying.zone \in Zone /\ saying.zone \notin Range(round)
  /\ at = "head" => round = <<>>

\* The zones that this round may still announce.
Pending == Range(round) \cup (IF at = "speak" THEN {saying.zone} ELSE {})

\* How often z may still come before y: the turns it has had, and the one of this
\* round; once y has had its turn, or came too late for one, half of it is used up.
TurnsAreCounted ==
  \A y, z \in Zone :
    /\ overtaken[y][z] \in 0..2 
    /\ y = z => overtaken[y][z] = 0
    /\ Wants(y) => overtaken[y][z] + (IF z \in Pending THEN 1 ELSE 0) <= (IF y \in Pending \/ y = z THEN 2 ELSE 1)

\* A withdrawn zone has been announced or is about to be, but not both.
AfterwardsIsCounted ==
  \A z \in Zone :
    /\ afterwards[z] \in 0..1
    /\ Wants(z) => afterwards[z] = 0
    /\ ~Wants(z) /\ at = "speak" /\ saying.zone = z => afterwards[z] = 0

Counters ==
  /\ DOMAIN flag = Zone /\ flag = [z \in Zone |-> flag[z]]
  /\ overtaken \in [Zone -> [Zone -> Nat]]
  /\ afterwards \in [Zone -> Nat]

BInv == Counters /\ RoundIsFresh /\ TurnsAreCounted /\ AfterwardsIsCounted

-----------------------------------------------------------------------------
\* A non-empty set of numbers has a least one: the principle by which the proofs
\* here go by induction.
LEMMA LeastNumber ==
  ASSUME NEW T, T \subseteq Nat, T # {}
  PROVE  \E n \in T : \A m \in T : n <= m
<1>1. \E x \in T : \A y \in T : ~ (<<y, x>> \in OpToRel(<, Nat))
  BY NatLessThanWellFounded, WFMin
<1>2. PICK x \in T : \A y \in T : ~ (<<y, x>> \in OpToRel(<, Nat))
  BY <1>1
<1>3. ASSUME NEW m \in T PROVE x <= m
  <2>1. ~ (<<m, x>> \in {ss \in Nat \X Nat : ss[1] < ss[2]})
    BY <1>2 DEF OpToRel
  <2>2. <<m, x>> \in Nat \X Nat
    OBVIOUS
  <2> QED
    BY <2>1, <2>2
<1> QED
  BY <1>3

\* s lists S by increasing size.
Lists(s, S) ==
  /\ s \in [1..Cardinality(S) -> S]
  /\ \A m, n \in 1..Cardinality(S) : m < n => s[m] < s[n]

\* A list of all numbers but the least is made one of all by putting that in front.
LEMMA LeastInFront ==
  ASSUME NEW R, R \subseteq Nat, NEW n \in Nat \ {0}, Cardinality(R) = n,
         NEW least \in R, \A m \in R : least <= m,
         Cardinality(R \ {least}) = n - 1, NEW t, Lists(t, R \ {least})
  PROVE  \E s : Lists(s, R)
<1> DEFINE s == [i \in 1..n |-> IF i = 1 THEN least ELSE t[i - 1]]
<1>1. /\ t \in [1..(n - 1) -> R \ {least}]
      /\ \A i, j \in 1..(n - 1) : i < j => t[i] < t[j]
  BY DEF Lists
<1>2. ASSUME NEW i \in 1..n, i # 1
      PROVE  /\ i - 1 \in 1..(n - 1)
             /\ s[i] = t[i - 1] /\ t[i - 1] \in R /\ t[i - 1] # least
  BY <1>1, <1>2
<1>3. s \in [1..n -> R]
  BY <1>2
<1>4. ASSUME NEW i \in 1..n, NEW j \in 1..n, i < j PROVE s[i] < s[j]
  <2>1. j # 1 /\ j - 1 \in 1..(n - 1) /\ s[j] = t[j - 1] /\ s[j] \in R /\ s[j] # least
    BY <1>4, <1>2
  <2>2. CASE i = 1
    <3>1. s[i] = least
      BY <2>2
    <3>2. s[j] \in Nat /\ least \in Nat /\ least <= s[j]
      BY <2>1
    <3> QED
      BY <3>1, <3>2, <2>1
  <2>3. CASE i # 1
    <3>1. i - 1 \in 1..(n - 1) /\ s[i] = t[i - 1]
      BY <2>3, <1>2
    <3>2. i - 1 < j - 1
      BY <1>4
    <3> QED
      BY <3>1, <3>2, <2>1, <1>1
  <2> QED
    BY <2>2, <2>3
<1> QED
  BY <1>3, <1>4 DEF Lists

\* Finitely many numbers can be put in order.
LEMMA CanBeSorted ==
  ASSUME NEW S, S \subseteq Nat, IsFiniteSet(S)
  PROVE  \E s : Lists(s, S)
<1> DEFINE Bad == {n \in Nat : \E R \in SUBSET S : Cardinality(R) = n /\ ~\E s : Lists(s, R)}
<1>1. ASSUME Bad # {} PROVE FALSE
  <2>1. PICK n \in Bad : \A m \in Bad : n <= m
    BY <1>1, LeastNumber
  <2>2. PICK R \in SUBSET S : Cardinality(R) = n /\ ~\E s : Lists(s, R)
    BY <2>1
  <2>3. IsFiniteSet(R)
    BY FS_Subset
  <2>4. R # {}
    <3>1. SUFFICES ASSUME R = {} PROVE FALSE
      OBVIOUS
    <3>2. Cardinality(R) = 0
      BY <3>1, FS_EmptySet
    <3>3. [i \in 1..0 |-> 0] \in [1..0 -> R]
      OBVIOUS
    <3>4. Lists([i \in 1..0 |-> 0], R)
      BY <3>2, <3>3 DEF Lists
    <3> QED
      BY <3>4, <2>2
  <2>5. PICK least \in R : \A m \in R : least <= m
    BY <2>4, LeastNumber
  <2>6. /\ n \in Nat \ {0} /\ Cardinality(R \ {least}) = n - 1
        /\ R \ {least} \in SUBSET S
    <3>1. IsFiniteSet(R \ {least}) /\ Cardinality(R \ {least}) = Cardinality(R) - 1
      BY <2>3, <2>5, FS_RemoveElement
    <3>2. Cardinality(R \ {least}) \in Nat /\ Cardinality(R) \in Nat
      BY <3>1, <2>3, FS_CardinalityType
    <3> QED
      BY <3>1, <3>2, <2>2
  <2>7. PICK t : Lists(t, R \ {least})
    <3>1. n - 1 \notin Bad
      BY <2>1, <2>6
    <3> QED
      BY <3>1, <2>6
  <2> QED
    BY <2>2, <2>5, <2>6, <2>7, LeastInFront
<1> QED
  <2>1. Cardinality(S) \in Nat /\ S \in SUBSET S
    BY FS_CardinalityType
  <2> QED
    BY <2>1, <1>1

\* A snapshot has every zone that has something to announce, once.
LEMMA SortedListsAll ==
  ASSUME NEW S, S \subseteq Zone
  PROVE  /\ Sorted(S) \in Seq(Zone) /\ IsInjective(Sorted(S))
         /\ Range(Sorted(S)) = S
<1>1. S \subseteq Nat /\ IsFiniteSet(S) /\ Cardinality(S) \in Nat
  BY ZoneAssumption, FS_Subset, FS_CardinalityType
<1>2. \E f \in [1..Cardinality(S) -> S] :
        \A m, n \in 1..Cardinality(S) : m < n => f[m] < f[n]
  BY <1>1, CanBeSorted DEF Lists
<1>3. Lists(Sorted(S), S)
  BY <1>2, Zenon DEF Lists, Sorted
<1>4. PICK s : s = Sorted(S)
  OBVIOUS
<1>5. PICK N \in Nat : N = Cardinality(S)
  BY <1>1
<1>6. /\ s \in [1..N -> S] /\ \A m, n \in 1..N : m < n => s[m] < s[n]
  BY <1>3, <1>4, <1>5 DEF Lists
<1>7. ASSUME NEW m \in 1..N, NEW n \in 1..N, s[m] = s[n] PROVE m = n
  <2>1. s[m] \in Nat /\ s[n] \in Nat
    BY <1>1, <1>6
  <2>2. ~(m < n) /\ ~(n < m)
    BY <2>1, <1>6, <1>7
  <2> QED
    BY <2>2
<1>8. s \in Injection(1..N, S)
  BY <1>6, <1>7 DEF Injection, IsInjective
<1>9. s \in Surjection(1..N, S)
  <2>1. Cardinality(1..N) = N
    BY FS_Interval
  <2> QED
    BY <2>1, <1>1, <1>5, <1>8, FS_Injection
<1>10. DOMAIN s = 1..N /\ s \in Seq(Zone)
  BY <1>6
<1>11. Range(s) = S
  BY <1>6, <1>9, <1>10 DEF Surjection, Range
<1>12. IsInjective(s)
  BY <1>7, <1>10 DEF IsInjective
<1> QED
  BY <1>4, <1>10, <1>11, <1>12

\* The zones left to a round after its first.
LEMMA RestOfRound ==
  ASSUME NEW s \in Seq(Zone), s # <<>>, IsInjective(s)
  PROVE  /\ Head(s) \in Zone /\ Tail(s) \in Seq(Zone) /\ IsInjective(Tail(s))
         /\ Range(s) = Range(Tail(s)) \cup {Head(s)} /\ Head(s) \notin Range(Tail(s))
<1>1. /\ Head(s) = s[1] /\ Len(s) \in Nat \ {0} /\ DOMAIN s = 1..Len(s)
      /\ Tail(s) \in Seq(Zone) /\ Len(Tail(s)) = Len(s) - 1
      /\ DOMAIN Tail(s) = 1..(Len(s) - 1)
      /\ \A n \in 1..(Len(s) - 1) : Tail(s)[n] = s[n + 1]
  OBVIOUS
<1>2. \A m, n \in 1..Len(s) : s[m] = s[n] => m = n
  BY <1>1 DEF IsInjective
<1>3. Head(s) \in Zone
  BY <1>1
<1>4. \A m, n \in 1..(Len(s) - 1) : Tail(s)[m] = Tail(s)[n] => m = n
  BY <1>1, <1>2
<1>5. IsInjective(Tail(s))
  BY <1>1, <1>4 DEF IsInjective
<1>6. Head(s) \notin Range(Tail(s))
  BY <1>1, <1>2 DEF Range
<1>7. Range(s) = Range(Tail(s)) \cup {Head(s)}
  <2>1. ASSUME NEW x \in Range(s), x # Head(s) PROVE x \in Range(Tail(s))
    <3>1. PICK n \in 1..Len(s) : x = s[n]
      BY <1>1 DEF Range
    <3>2. n - 1 \in 1..(Len(s) - 1) /\ Tail(s)[n - 1] = s[n]
      BY <3>1, <2>1, <1>1
    <3> QED
      BY <3>1, <3>2, <1>1 DEF Range
  <2>2. ASSUME NEW x \in Range(Tail(s)) PROVE x \in Range(s)
    <3>1. PICK n \in 1..(Len(s) - 1) : x = Tail(s)[n]
      BY <1>1 DEF Range
    <3>2. n + 1 \in 1..Len(s) /\ s[n + 1] = x
      BY <3>1, <1>1
    <3> QED
      BY <3>2, <1>1 DEF Range
  <2>3. Head(s) \in Range(s)
    BY <1>1 DEF Range
  <2> QED
    BY <2>1, <2>2, <2>3
<1> QED
  BY <1>1, <1>3, <1>5, <1>6, <1>7

LEMMA BroadcastStarts == BroadcastInit => BInv
<1> SUFFICES ASSUME BroadcastInit PROVE BInv
  OBVIOUS
<1>1. Counters
  BY DEF BroadcastInit, Counters
<1>2. RoundIsFresh
  BY DEF BroadcastInit, RoundIsFresh, IsInjective
<1>3. TurnsAreCounted
  BY DEF BroadcastInit, TurnsAreCounted, Wants
<1>4. AfterwardsIsCounted
  BY DEF BroadcastInit, AfterwardsIsCounted, Wants
<1> QED
  BY <1>1, <1>2, <1>3, <1>4 DEF BInv

\* Going on with a round passes over no zone that has something to announce.
LEMMA FewerPending ==
  ASSUME TurnsAreCounted, UNCHANGED <<flag, overtaken>>, Pending' \subseteq Pending,
         \A y \in Zone : Wants(y) /\ y \in Pending => y \in Pending'
  PROVE  TurnsAreCounted'
BY DEF TurnsAreCounted, Wants

LEMMA StartRoundKeeps == BInv /\ StartRound => BInv'
<1> SUFFICES ASSUME BInv, StartRound PROVE BInv'
  OBVIOUS
<1> DEFINE S == {z \in Zone : Wants(z)}
<1>1. /\ round' \in Seq(Zone) /\ IsInjective(round') /\ Range(round') = S
      /\ at = "head" /\ at' = "zone" /\ round = <<>>
  BY SortedListsAll DEF StartRound, BInv, RoundIsFresh
<1>2. Pending = {} /\ Pending' = S
  BY <1>1 DEF Pending, Range
<1>3. TurnsAreCounted'
  <2>1. ASSUME NEW y \in Zone, NEW z \in Zone
        PROVE  /\ overtaken'[y][z] \in 0..2
               /\ y = z => overtaken'[y][z] = 0
               /\ Wants(y)' => overtaken'[y][z] + (IF z \in Pending' THEN 1 ELSE 0)
                                 <= (IF y \in Pending' \/ y = z THEN 2 ELSE 1)
    BY <1>2 DEF BInv, TurnsAreCounted, StartRound, Wants
  <2> QED
    BY <2>1 DEF TurnsAreCounted
<1>4. Counters' /\ RoundIsFresh' /\ AfterwardsIsCounted'
  BY <1>1 DEF StartRound, BInv, Counters, RoundIsFresh, AfterwardsIsCounted, Wants
<1> QED
  BY <1>3, <1>4 DEF BInv

LEMMA RecheckKeeps == BInv /\ Recheck => BInv'
<1> SUFFICES ASSUME BInv, Recheck PROVE BInv'
  OBVIOUS
<1> DEFINE z == Head(round)
<1>1. /\ at = "zone" /\ z \in Zone /\ round' = Tail(round) /\ round' \in Seq(Zone)
      /\ IsInjective(round') /\ Range(round) = Range(round') \cup {z} /\ z \notin Range(round')
      /\ UNCHANGED <<flag, overtaken, afterwards>>
  BY RestOfRound DEF Recheck, BInv, RoundIsFresh
<1>2. Pending = Range(round)
  BY <1>1 DEF Pending
<1>3. \/ Wants(z) /\ saying'.zone = z /\ at' = "speak"
      \/ ~Wants(z) /\ at' = "zone"
  BY <1>1 DEF Recheck
<1>4. /\ Pending' \subseteq Pending
      /\ \A y \in Zone : Wants(y) /\ y \in Pending => y \in Pending'
  <2>1. CASE Wants(z) /\ saying'.zone = z /\ at' = "speak"
    BY <1>1, <1>2, <2>1 DEF Pending
  <2>2. CASE ~Wants(z) /\ at' = "zone"
    BY <1>1, <1>2, <2>2 DEF Pending
  <2> QED
    BY <1>3, <2>1, <2>2
<1>5. TurnsAreCounted'
  BY <1>1, <1>4, FewerPending DEF BInv
<1>6. Counters' /\ RoundIsFresh' /\ AfterwardsIsCounted'
  BY <1>1, <1>3 DEF BInv, Counters, RoundIsFresh, AfterwardsIsCounted, Wants
<1> QED
  BY <1>5, <1>6 DEF BInv

LEMMA SpeakKeeps == BInv /\ Speak => BInv'
<1> SUFFICES ASSUME BInv, Speak PROVE BInv'
  OBVIOUS
<1>0. PICK x : x = saying.zone
  OBVIOUS
<1>1. /\ at = "speak" /\ x \in Zone /\ x \notin Range(round)
      /\ at' = "wait" /\ round' = round /\ flag' = flag
  BY <1>0 DEF Speak, BInv, RoundIsFresh
<1>2. Pending = Range(round) \cup {x} /\ Pending' = Range(round)
  BY <1>0, <1>1 DEF Pending
<1>3. ASSUME NEW y \in Zone
      PROVE  overtaken'[y] = IF y = x \/ ~Wants(y) THEN [z \in Zone |-> 0]
                             ELSE [overtaken[y] EXCEPT ![x] = @ + 1]
  BY <1>0 DEF Speak
<1>4. overtaken' \in [Zone -> [Zone -> Nat]]
  <2>1. DOMAIN overtaken' = Zone /\ overtaken' = [y \in Zone |-> overtaken'[y]]
    BY DEF Speak
  <2>2. ASSUME NEW y \in Zone PROVE overtaken'[y] \in [Zone -> Nat]
    <3>1. overtaken[y] \in [Zone -> Nat]
      BY DEF BInv, Counters
    <3>2. [overtaken[y] EXCEPT ![x] = @ + 1] \in [Zone -> Nat]
      BY <1>1, <3>1
    <3>3. [z \in Zone |-> 0] \in [Zone -> Nat]
      OBVIOUS
    <3> QED
      BY <1>3, <3>2, <3>3
  <2> QED
    BY <2>1, <2>2
<1>5. ASSUME NEW y \in Zone, NEW z \in Zone
      PROVE  /\ overtaken'[y][z] \in 0..2
             /\ y = z => overtaken'[y][z] = 0
             /\ Wants(y)' => overtaken'[y][z] + (IF z \in Pending' THEN 1 ELSE 0)
                               <= (IF y \in Pending' \/ y = z THEN 2 ELSE 1)
  <2>1. CASE y = x \/ ~Wants(y)
    <3>1. overtaken'[y] = [n \in Zone |-> 0]
      BY <1>3, <2>1
    <3>2. overtaken'[y][z] = 0
      BY <3>1
    <3> QED
      BY <3>2
  <2>2. CASE y # x /\ Wants(y)
    <3>0. overtaken'[y] = [overtaken[y] EXCEPT ![x] = @ + 1] /\ overtaken[y] \in [Zone -> Nat]
      BY <1>3, <2>2 DEF BInv, Counters
    <3>1. overtaken'[y][z] = IF z = x THEN overtaken[y][z] + 1 ELSE overtaken[y][z]
      BY <1>1, <3>0
    <3>2. /\ overtaken[y][z] \in 0..2
          /\ y = z => overtaken[y][z] = 0
          /\ overtaken[y][z] + (IF z \in Pending THEN 1 ELSE 0)
               <= (IF y \in Pending \/ y = z THEN 2 ELSE 1)
      BY <2>2 DEF BInv, TurnsAreCounted
    <3> QED
      BY <1>1, <1>2, <2>2, <3>1, <3>2
  <2> QED
    BY <2>1, <2>2
<1>6. TurnsAreCounted'
  BY <1>5 DEF TurnsAreCounted
<1>7. AfterwardsIsCounted' /\ afterwards' \in [Zone -> Nat]
  BY <1>0, <1>1 DEF Speak, BInv, Counters, AfterwardsIsCounted, Wants
<1>8. Counters' /\ RoundIsFresh'
  BY <1>1, <1>4, <1>7 DEF BInv, Counters, RoundIsFresh
<1> QED
  BY <1>6, <1>7, <1>8 DEF BInv

\* The other steps of the manager, the player and the patrol announce nothing and
\* start no round.
LEMMA OthersKeep ==
  ASSUME BInv, UNCHANGED <<flag, round, saying, overtaken, afterwards>>,
         \/ UNCHANGED at
         \/ at' \in {"wait", "gap", "zone"} /\ at # "speak"
         \/ at = "zone" /\ at' = "head" /\ round = <<>>
  PROVE  BInv'
<1>1. Pending' = Pending
  BY DEF Pending
<1>2. TurnsAreCounted'
  BY <1>1, FewerPending DEF BInv, Wants
<1> QED
  BY <1>2 DEF BInv, Counters, RoundIsFresh, AfterwardsIsCounted, Wants

LEMMA AddKeeps ==
  ASSUME BInv, NEW z \in Zone, NEW kind, AddToQueue(z, kind)
  PROVE  BInv'
<1>1. /\ UNCHANGED <<at, round, saying>>
      /\ \A y \in Zone \ {z} : flag'[y] = flag[y] /\ overtaken'[y] = overtaken[y]
                                 /\ afterwards'[y] = afterwards[y]
      /\ afterwards'[z] = 0
      /\ overtaken'[z] = IF Wants(z) THEN overtaken[z] ELSE [x \in Zone |-> 0]
  BY DEF AddToQueue, BInv, Counters
<1>2. Counters' /\ RoundIsFresh'
  BY DEF AddToQueue, BInv, Counters, RoundIsFresh
<1>3. Pending' = Pending
  BY <1>1 DEF Pending
<1>4. ASSUME NEW y \in Zone, NEW x \in Zone
      PROVE  /\ overtaken'[y][x] \in 0..2
             /\ y = x => overtaken'[y][x] = 0
             /\ Wants(y)' => overtaken'[y][x] + (IF x \in Pending' THEN 1 ELSE 0)
                               <= (IF y \in Pending' \/ y = x THEN 2 ELSE 1)
  <2>1. CASE y = z /\ ~Wants(z)
    BY <1>1, <1>3, <2>1
  <2>2. CASE y # z \/ Wants(z)
    BY <1>1, <1>3, <2>2 DEF BInv, TurnsAreCounted, Wants
  <2> QED
    BY <2>1, <2>2
<1>5. TurnsAreCounted'
  BY <1>4 DEF TurnsAreCounted
<1>6. AfterwardsIsCounted'
  BY <1>1 DEF BInv, AfterwardsIsCounted, Wants
<1> QED
  BY <1>2, <1>5, <1>6 DEF BInv

LEMMA RemoveKeeps ==
  ASSUME BInv, NEW z \in Zone, RemoveFromQueue(z)
  PROVE  BInv'
<1>1. /\ UNCHANGED <<at, round, saying, overtaken>>
      /\ \A y \in Zone \ {z} : flag'[y] = flag[y] /\ afterwards'[y] = afterwards[y]
      /\ afterwards'[z] = 0 /\ ~Wants(z)'
  BY DEF RemoveFromQueue, BInv, Counters, Wants
<1>2. Counters' /\ RoundIsFresh'
  BY DEF RemoveFromQueue, BInv, Counters, RoundIsFresh
<1>3. Pending' = Pending
  BY <1>1 DEF Pending
<1>4. TurnsAreCounted'
  BY <1>1, <1>3 DEF BInv, TurnsAreCounted, Wants
<1>5. AfterwardsIsCounted'
  BY <1>1 DEF BInv, AfterwardsIsCounted, Wants
<1> QED
  BY <1>2, <1>4, <1>5 DEF BInv

LEMMA BroadcastKeeps == BInv /\ [BroadcastNext]_broadcastVars => BInv'
<1> SUFFICES ASSUME BInv, [BroadcastNext]_broadcastVars PROVE BInv'
  OBVIOUS
<1>1. CASE Manager
  <2>1. CASE EndRound \/ WaitOver \/ GapOver
    BY <2>1, OthersKeep DEF EndRound, WaitOver, GapOver
  <2> QED
    BY <1>1, <2>1, StartRoundKeeps, RecheckKeeps, SpeakKeeps DEF Manager
<1>2. CASE Player
  BY <1>2, OthersKeep DEF Player, PlayNext, PlayEnds, managerVars
<1>3. CASE Patrol
  <2>1. UNCHANGED <<flag, managerVars>>
    BY <1>3 DEF Patrol, StartPatrol, StopPatrol, StartDemo, EndDemo, DemoPlays
  <2> QED
    BY <2>1, OthersKeep DEF managerVars
<1>4. CASE Zones
  BY <1>4, AddKeeps, RemoveKeeps DEF Zones
<1>5. CASE UNCHANGED broadcastVars
  BY <1>5, OthersKeep DEF broadcastVars, managerVars
<1> QED
  BY <1>1, <1>2, <1>3, <1>4, <1>5 DEF BroadcastNext

THEOREM BroadcastInvariance == BroadcastSpec => []BInv
<1> QED
  BY BroadcastStarts, BroadcastKeeps, PTL DEF BroadcastSpec

\* src/main.py, _broadcast_manager_loop: a zone that has come to rest is announced
\* at most once more, by a manager that had read its flag before.
THEOREM SpecOneAfterwards == BroadcastSpec => []OneAfterwards
<1>1. BInv => OneAfterwards
  BY DEF BInv, AfterwardsIsCounted, OneAfterwards
<1> QED
  BY <1>1, BroadcastInvariance, PTL

\* src/main.py, _broadcast_manager_loop: a zone that has something to announce lets
\* every other go before it at most twice, whoever comes and goes meanwhile.
THEOREM SpecTurnsAreTaken == BroadcastSpec => []TurnsAreTaken
<1>1. BInv => TurnsAreTaken
  BY DEF BInv, TurnsAreCounted, TurnsAreTaken
<1> QED
  BY <1>1, BroadcastInvariance, PTL

-----------------------------------------------------------------------------
(***************************************************************************)
(* AlarmRecords.  For any records, any size of the cache and any number of *)
(* resends at once: what is lost is accounted for, and what waits, waits   *)
(* in order.                                                               *)
(***************************************************************************)
Places == [phase : {"idle", "fresh", "sending"},
           messages : Seq(Record), failed : Seq(Record)]

\* A resend has no more than it copied from the cache, and nothing before that.
HandsAreSmall ==
  \A i \in Slot :
    /\ resends[i].phase # "sending" => resends[i].messages = <<>> /\ resends[i].failed = <<>>
    /\ Len(resends[i].messages) + Len(resends[i].failed) <= CacheSize

Kept ==
  /\ cache \in Seq(Record) /\ Len(cache) <= CacheSize
  /\ raised \in Seq(Record)
  /\ resends \in [Slot -> Places]
  /\ HandsAreSmall

\* What waits has been raised.
WaitingIsRaised ==
  /\ Range(cache) \subseteq Range(raised)
  /\ \A i \in Slot : InHand(i) \subseteq Range(raised)

\* The cache a resend empties holds nothing that it has not, but what is excused.
CopiesCover ==
  \A i \in Sending : Range(cache) \subseteq InHand(i) \cup sent \cup excused

\* What a resend puts back comes before what it has still to send.
HandsInOrder == \A i \in Slot : Ordered(resends[i].failed \o resends[i].messages)

AccountsInv == Kept /\ CopiesCover /\ LossIsAccounted
OrderInv == WaitingIsRaised /\ Ordered(cache) /\ HandsInOrder

-----------------------------------------------------------------------------
\* The records of a sequence, when one is put behind or the first is taken.
LEMMA RecordsBehind ==
  ASSUME NEW s \in Seq(Record), NEW r \in Record
  PROVE  Append(s, r) \in Seq(Record) /\ Range(Append(s, r)) = Range(s) \cup {r}
<1>1. /\ Append(s, r) \in Seq(Record) /\ Len(s) \in Nat
      /\ DOMAIN s = 1..Len(s) /\ DOMAIN Append(s, r) = 1..(Len(s) + 1)
      /\ \A n \in 1..Len(s) : Append(s, r)[n] = s[n]
      /\ Append(s, r)[Len(s) + 1] = r
  OBVIOUS
<1>2. Range(Append(s, r)) = {Append(s, r)[n] : n \in 1..(Len(s) + 1)}
  BY <1>1 DEF Range
<1>3. Range(s) = {s[n] : n \in 1..Len(s)}
  BY <1>1 DEF Range
<1>4. 1..(Len(s) + 1) = 1..Len(s) \cup {Len(s) + 1}
  BY <1>1
<1> QED
  BY <1>1, <1>2, <1>3, <1>4

LEMMA RecordsOfRest ==
  ASSUME NEW s \in Seq(Record), s # <<>>
  PROVE  /\ Head(s) \in Record /\ Tail(s) \in Seq(Record) /\ Len(Tail(s)) = Len(s) - 1
         /\ Range(s) = Range(Tail(s)) \cup {Head(s)}
<1>1. /\ Head(s) = s[1] /\ Head(s) \in Record /\ Len(s) \in Nat \ {0} /\ DOMAIN s = 1..Len(s)
      /\ Tail(s) \in Seq(Record) /\ Len(Tail(s)) = Len(s) - 1
      /\ DOMAIN Tail(s) = 1..(Len(s) - 1)
      /\ \A n \in 1..(Len(s) - 1) : Tail(s)[n] = s[n + 1]
  OBVIOUS
<1>2. ASSUME NEW x \in Range(s), x # Head(s) PROVE x \in Range(Tail(s))
  <2>1. PICK n \in 1..Len(s) : x = s[n]
    BY <1>1 DEF Range
  <2>2. n - 1 \in 1..(Len(s) - 1) /\ Tail(s)[n - 1] = s[n]
    BY <2>1, <1>2, <1>1
  <2> QED
    BY <2>1, <2>2, <1>1 DEF Range
<1>3. ASSUME NEW x \in Range(Tail(s)) PROVE x \in Range(s)
  <2>1. PICK n \in 1..(Len(s) - 1) : x = Tail(s)[n]
    BY <1>1 DEF Range
  <2>2. n + 1 \in 1..Len(s) /\ s[n + 1] = x
    BY <2>1, <1>1
  <2> QED
    BY <2>2, <1>1 DEF Range
<1>4. Head(s) \in Range(s)
  BY <1>1 DEF Range
<1> QED
  BY <1>1, <1>2, <1>3, <1>4

\* push() makes room for the new record by its oldest.
LEMMA PushEffect ==
  ASSUME NEW s \in Seq(Record), Len(s) <= CacheSize, NEW r \in Record
  PROVE  /\ Push(s, r) \in Seq(Record) /\ Len(Push(s, r)) <= CacheSize
         /\ Range(Push(s, r)) \subseteq Range(s) \cup {r} /\ r \in Range(Push(s, r))
<1>1. CASE Len(s) >= CacheSize
  <2>1. s # <<>> /\ Len(s) \in Nat /\ CacheSize \in Nat
    BY <1>1, CacheSizeAssumption
  <2>2. Tail(s) \in Seq(Record) /\ Len(Tail(s)) = Len(s) - 1 /\ Range(Tail(s)) \subseteq Range(s)
    BY <2>1, RecordsOfRest
  <2>3. Push(s, r) = Append(Tail(s), r)
    BY <1>1 DEF Push
  <2>4. Len(Append(Tail(s), r)) = Len(Tail(s)) + 1
    BY <2>2
  <2>5. Range(Append(Tail(s), r)) = Range(Tail(s)) \cup {r} /\ Append(Tail(s), r) \in Seq(Record)
    BY <2>2, RecordsBehind
  <2> QED
    BY <2>1, <2>2, <2>3, <2>4, <2>5
<1>2. CASE ~(Len(s) >= CacheSize)
  <2>1. Push(s, r) = Append(s, r) /\ Len(Append(s, r)) = Len(s) + 1 /\ Len(s) \in Nat
    BY <1>2 DEF Push
  <2> QED
    BY <1>2, <2>1, RecordsBehind, CacheSizeAssumption
<1> QED
  BY <1>1, <1>2

\* push_back() into the emptied cache has room for all that one resend has.
LEMMA PushBackEffect ==
  ASSUME NEW s \in Seq(Record), Len(s) <= CacheSize
  PROVE  PushBack(<<>>, s) = s
<1>1. <<>> \o s = s
  OBVIOUS
<1>2. ~(Len(s) > CacheSize)
  BY CacheSizeAssumption
<1> QED
  BY <1>1, <1>2 DEF PushBack

-----------------------------------------------------------------------------
\* A resend that has nothing.
LEMMA NothingInHand ==
  /\ \A m, f : m = <<>> /\ f = <<>> => Len(m) + Len(f) <= CacheSize
  /\ Len(<<>>) = 0 /\ Range(<<>>) = {} /\ <<>> \in Seq(Record)
  /\ Idle \in Places /\ Fresh \in Places /\ Idle.phase = "idle" /\ Fresh.phase = "fresh"
  /\ Idle.messages = <<>> /\ Idle.failed = <<>> /\ Fresh.messages = <<>> /\ Fresh.failed = <<>>
<1>1. Len(<<>>) = 0 /\ <<>> \in Seq(Record) /\ DOMAIN <<>> = {}
  OBVIOUS
<1>2. Range(<<>>) = {} /\ \A m, f : m = <<>> /\ f = <<>> => Len(m) + Len(f) <= CacheSize
  <2>1. Len(<<>>) + Len(<<>>) = 0
    OBVIOUS
  <2>2. Len(<<>>) + Len(<<>>) <= CacheSize
    BY <2>1, CacheSizeAssumption
  <2> QED
    BY <1>1, <2>2 DEF Range
<1>3. Idle \in Places /\ Idle.phase = "idle" /\ Idle.messages = <<>> /\ Idle.failed = <<>>
  BY <1>1 DEF Idle, Places
<1>4. Fresh = [phase |-> "fresh", messages |-> <<>>, failed |-> <<>>]
  BY DEF Idle, Fresh
<1>5. Fresh \in Places /\ Fresh.phase = "fresh" /\ Fresh.messages = <<>> /\ Fresh.failed = <<>>
  BY <1>1, <1>4 DEF Places
<1> QED
  BY <1>1, <1>2, <1>3, <1>5

LEMMA RecordsStart == Init => AccountsInv /\ OrderInv
<1> SUFFICES ASSUME Init PROVE AccountsInv /\ OrderInv
  OBVIOUS
<1>1. Idle \in Places
  BY NothingInHand
<1>2. \A i \in Slot : resends[i] = Idle
  BY DEF Init
<1>3. cache = <<>> /\ raised = <<>> /\ Range(cache) = {} /\ Range(raised) = {} /\ DOMAIN cache = {}
  BY DEF Init, Range
<1>4. HandsAreSmall
  BY <1>2, NothingInHand, CacheSizeAssumption DEF HandsAreSmall
<1>5. Kept
  BY <1>1, <1>3, <1>4, CacheSizeAssumption DEF Kept, Init
<1>6. CopiesCover /\ LossIsAccounted /\ Ordered(cache)
  BY <1>3 DEF CopiesCover, LossIsAccounted, Ordered
<1>7. WaitingIsRaised
  BY <1>2, <1>3 DEF WaitingIsRaised, InHand, Idle, Range
<1>8. ASSUME NEW i \in Slot PROVE Ordered(resends[i].failed \o resends[i].messages)
  <2>1. resends[i].failed \o resends[i].messages = <<>>
    BY <1>2 DEF Idle
  <2>2. DOMAIN (resends[i].failed \o resends[i].messages) = {}
    BY <2>1
  <2> QED
    BY <2>2 DEF Ordered
<1> QED
  BY <1>5, <1>6, <1>7, <1>8 DEF AccountsInv, OrderInv, HandsInOrder

\* A resend that moves: the others stay as they are.
LEMMA OneResendMoves ==
  ASSUME Kept, NEW i \in Slot, NEW p \in Places, resends' = [resends EXCEPT ![i] = p],
         p.phase # "sending" => p.messages = <<>> /\ p.failed = <<>>,
         Len(p.messages) + Len(p.failed) <= CacheSize
  PROVE  /\ resends' \in [Slot -> Places] /\ HandsAreSmall'
         /\ resends'[i] = p /\ \A j \in Slot \ {i} : resends'[j] = resends[j]
<1>1. resends'[i] = p /\ \A j \in Slot \ {i} : resends'[j] = resends[j]
  BY DEF Kept
<1>2. resends' \in [Slot -> Places]
  BY DEF Kept
<1> QED
  BY <1>1, <1>2 DEF Kept, HandsAreSmall

\* The same of what it has in its hands.
LEMMA OtherHands ==
  ASSUME NEW i \in Slot, \A j \in Slot \ {i} : resends'[j] = resends[j]
  PROVE  /\ \A j \in Slot \ {i} : InHand(j)' = InHand(j) /\ (j \in Sending' <=> j \in Sending)
         /\ Hands \subseteq Hands' \cup InHand(i)
         /\ InHand(i)' \subseteq Hands'
BY DEF InHand, Sending, Hands

-----------------------------------------------------------------------------
(***************************************************************************)
(* The steps, and what each leaves of the accounts and of the order.       *)
(***************************************************************************)
LEMMA UploadOnlineAccounts ==
  ASSUME AccountsInv, NEW r \in Record, UploadOnline(r)
  PROVE  AccountsInv'
<1>1. /\ raised' = Append(raised, r) /\ UNCHANGED <<cache, resends>>
      /\ sent \subseteq sent' /\ excused \subseteq excused' /\ r \in sent' \cup excused'
  BY DEF UploadOnline
<1>2. raised' \in Seq(Record) /\ Range(raised') = Range(raised) \cup {r}
  BY <1>1, RecordsBehind DEF AccountsInv, Kept
<1>3. Sending' = Sending /\ Hands' = Hands /\ \A i \in Slot : InHand(i)' = InHand(i)
  BY <1>1 DEF Sending, Hands, InHand
<1>4. CopiesCover'
  <2>1. ASSUME NEW i \in Sending' PROVE Range(cache') \subseteq InHand(i)' \cup sent' \cup excused'
    <3>1. i \in Sending /\ InHand(i)' = InHand(i)
      BY <1>3 DEF Sending
    <3> QED
      BY <1>1, <3>1 DEF AccountsInv, CopiesCover
  <2> QED
    BY <2>1 DEF CopiesCover
<1>5. LossIsAccounted'
  BY <1>1, <1>2, <1>3 DEF AccountsInv, LossIsAccounted
<1>6. Kept'
  BY <1>1, <1>2 DEF AccountsInv, Kept, HandsAreSmall
<1> QED
  BY <1>4, <1>5, <1>6 DEF AccountsInv

LEMMA UploadOfflineAccounts ==
  ASSUME AccountsInv, NEW r \in Record, UploadOffline(r)
  PROVE  AccountsInv'
<1>1. /\ cache' = Push(cache, r) /\ raised' = Append(raised, r)
      /\ UNCHANGED <<resends, sent>>
      /\ excused' = excused \cup (Range(cache) \ Range(cache')) \cup AtRisk(Sending, {r})
  BY DEF UploadOffline
<1>2. /\ cache' \in Seq(Record) /\ Len(cache') <= CacheSize
      /\ Range(cache') \subseteq Range(cache) \cup {r} /\ r \in Range(cache')
  BY <1>1, PushEffect DEF AccountsInv, Kept
<1>3. raised' \in Seq(Record) /\ Range(raised') = Range(raised) \cup {r}
  BY <1>1, RecordsBehind DEF AccountsInv, Kept
<1>4. Sending' = Sending /\ Hands' = Hands /\ \A i \in Slot : InHand(i)' = InHand(i)
  BY <1>1 DEF Sending, Hands, InHand
<1>5. Sending # {} => r \in excused'
  BY <1>1 DEF AtRisk
<1>6. CopiesCover'
  <2>1. ASSUME NEW i \in Sending' PROVE Range(cache') \subseteq InHand(i)' \cup sent' \cup excused'
    <3>1. i \in Sending /\ i \in Slot /\ InHand(i)' = InHand(i)
      BY <1>4 DEF Sending
    <3>2. Range(cache) \subseteq InHand(i) \cup sent \cup excused
      BY <3>1 DEF AccountsInv, CopiesCover
    <3> QED
      BY <1>1, <1>2, <1>5, <3>1, <3>2
  <2> QED
    BY <2>1 DEF CopiesCover
<1>7. LossIsAccounted'
  BY <1>1, <1>2, <1>3, <1>4 DEF AccountsInv, LossIsAccounted
<1>8. Kept'
  BY <1>1, <1>2, <1>3 DEF AccountsInv, Kept, HandsAreSmall
<1> QED
  BY <1>6, <1>7, <1>8 DEF AccountsInv

LEMMA ConnectAccounts ==
  ASSUME AccountsInv, NEW i \in Slot, Connect(i)
  PROVE  AccountsInv'
<1>1. /\ resends[i].phase = "idle" /\ resends' = [resends EXCEPT ![i] = Fresh]
      /\ UNCHANGED <<cache, raised, sent, excused>>
  BY DEF Connect
<1>2. /\ Fresh \in Places /\ Fresh.messages = <<>> /\ Fresh.failed = <<>>
      /\ Fresh.phase = "fresh" /\ Len(Fresh.messages) + Len(Fresh.failed) <= CacheSize
  BY NothingInHand, CacheSizeAssumption
<1>3. /\ resends' \in [Slot -> Places] /\ HandsAreSmall' /\ resends'[i] = Fresh
      /\ \A j \in Slot \ {i} : resends'[j] = resends[j]
  BY <1>1, <1>2, OneResendMoves DEF AccountsInv
<1>4. InHand(i) = {}
  BY <1>1, NothingInHand DEF AccountsInv, Kept, HandsAreSmall, InHand
<1>5. i \notin Sending'
  BY <1>2, <1>3 DEF Sending
<1>6. CopiesCover'
  <2>1. ASSUME NEW j \in Sending' PROVE Range(cache') \subseteq InHand(j)' \cup sent' \cup excused'
    <3>1. j \in Slot \ {i}
      BY <1>5 DEF Sending
    <3>2. j \in Sending /\ InHand(j)' = InHand(j)
      BY <3>1, <1>3, OtherHands
    <3> QED
      BY <1>1, <3>2 DEF AccountsInv, CopiesCover
  <2> QED
    BY <2>1 DEF CopiesCover
<1>7. LossIsAccounted'
  <2>1. Hands \subseteq Hands'
    BY <1>3, <1>4, OtherHands
  <2> QED
    BY <1>1, <2>1 DEF AccountsInv, LossIsAccounted
<1>8. Kept'
  BY <1>1, <1>3 DEF AccountsInv, Kept
<1> QED
  BY <1>6, <1>7, <1>8 DEF AccountsInv

LEMMA ResendBeginAccounts ==
  ASSUME AccountsInv, NEW i \in Slot, ResendBegin(i)
  PROVE  AccountsInv'
<1>0. PICK p : p = IF cache = <<>> THEN Idle
                   ELSE [phase |-> "sending", messages |-> cache, failed |-> <<>>]
  OBVIOUS
<1>1. /\ resends[i].phase = "fresh" /\ resends' = [resends EXCEPT ![i] = p]
      /\ UNCHANGED <<cache, raised, sent, excused>>
  BY <1>0 DEF ResendBegin, histories
<1>2. /\ p \in Places
      /\ p.phase # "sending" => p.messages = <<>> /\ p.failed = <<>>
      /\ Len(p.messages) + Len(p.failed) <= CacheSize
  <2>1. cache \in Seq(Record) /\ Len(cache) <= CacheSize /\ Len(cache) \in Nat
    BY DEF AccountsInv, Kept
  <2>2. CASE cache = <<>>
    BY <1>0, <2>2, NothingInHand, CacheSizeAssumption
  <2>3. CASE cache # <<>>
    <3>1. p = [phase |-> "sending", messages |-> cache, failed |-> <<>>]
      BY <1>0, <2>3
    <3> QED
      BY <2>1, <3>1, NothingInHand DEF Places
  <2> QED
    BY <2>2, <2>3
<1>3. /\ resends' \in [Slot -> Places] /\ HandsAreSmall' /\ resends'[i] = p
      /\ \A j \in Slot \ {i} : resends'[j] = resends[j]
  BY <1>1, <1>2, OneResendMoves DEF AccountsInv
<1>4. InHand(i) = {}
  BY <1>1, NothingInHand DEF AccountsInv, Kept, HandsAreSmall, InHand
<1>5. CopiesCover'
  <2>1. ASSUME NEW j \in Sending' PROVE Range(cache') \subseteq InHand(j)' \cup sent' \cup excused'
    <3>1. CASE j = i
      <4>1. p.messages = cache
        BY <3>1, <1>0, <1>3, NothingInHand DEF Sending
      <4> QED
        BY <3>1, <4>1, <1>1, <1>3 DEF InHand
    <3>2. CASE j # i
      <4>1. j \in Slot \ {i}
        BY <3>2 DEF Sending
      <4>2. j \in Sending /\ InHand(j)' = InHand(j)
        BY <4>1, <1>3, OtherHands
      <4> QED
        BY <1>1, <4>2 DEF AccountsInv, CopiesCover
    <3> QED
      BY <3>1, <3>2
  <2> QED
    BY <2>1 DEF CopiesCover
<1>6. LossIsAccounted'
  <2>1. Hands \subseteq Hands'
    BY <1>3, <1>4, OtherHands
  <2> QED
    BY <1>1, <2>1 DEF AccountsInv, LossIsAccounted
<1>7. Kept'
  BY <1>1, <1>3 DEF AccountsInv, Kept
<1> QED
  BY <1>5, <1>6, <1>7 DEF AccountsInv

\* What a resend has in its hands when it has dealt with its next record, sent or
\* put aside.
LEMMA NextRecord ==
  ASSUME Kept, NEW i \in Slot, i \in Sending, resends[i].messages # <<>>,
         Fail(i) \/ Succeed(i)
  PROVE  /\ resends' \in [Slot -> Places] /\ HandsAreSmall'
         /\ \A j \in Slot \ {i} : resends'[j] = resends[j]
         /\ resends'[i].phase = "sending"
         /\ resends'[i].messages = Tail(resends[i].messages)
         /\ Fail(i) => resends'[i].failed = Append(resends[i].failed, Head(resends[i].messages))
         /\ Succeed(i) => resends'[i].failed = resends[i].failed
<1>0. PICK m, f : m = resends[i].messages /\ f = resends[i].failed
  OBVIOUS
<1>1. /\ resends[i] \in Places /\ resends[i].phase = "sending"
      /\ m \in Seq(Record) /\ f \in Seq(Record) /\ Len(m) + Len(f) <= CacheSize
  BY <1>0 DEF Kept, HandsAreSmall, Places, Sending
<1>2. /\ Head(m) \in Record /\ Tail(m) \in Seq(Record) /\ Len(Tail(m)) = Len(m) - 1
      /\ Len(m) \in Nat /\ Len(f) \in Nat
  BY <1>0, <1>1, RecordsOfRest
<1>3. CASE Fail(i)
  <2>1. /\ \A j \in Slot \ {i} : resends'[j] = resends[j]
        /\ resends'[i].phase = "sending" /\ resends'[i].messages = Tail(m)
        /\ resends'[i].failed = Append(f, Head(m))
        /\ resends'[i] = [phase |-> "sending", messages |-> Tail(m), failed |-> Append(f, Head(m))]
    BY <1>0, <1>1, <1>3 DEF Fail, Kept, Places
  <2>2. Append(f, Head(m)) \in Seq(Record) /\ Len(Append(f, Head(m))) = Len(f) + 1
    BY <1>1, <1>2
  <2>3. resends'[i] \in Places
    BY <1>2, <2>1, <2>2 DEF Places
  <2>4. resends' \in [Slot -> Places]
    BY <1>3, <2>1, <2>3 DEF Fail, Kept
  <2>5. HandsAreSmall'
    <3>1. Len(resends'[i].messages) + Len(resends'[i].failed) <= CacheSize
      BY <1>1, <1>2, <2>1, <2>2, CacheSizeAssumption
    <3> QED
      BY <2>1, <3>1 DEF Kept, HandsAreSmall
  <2>6. ~Succeed(i)
    <3>1. Append(f, Head(m)) # f
      BY <1>1, <2>2
    <3> QED
      BY <1>0, <1>1, <2>1, <3>1 DEF Succeed, Kept, Places
  <2> QED
    BY <1>0, <2>1, <2>4, <2>5, <2>6
<1>4. CASE Succeed(i) /\ ~Fail(i)
  <2>1. /\ \A j \in Slot \ {i} : resends'[j] = resends[j]
        /\ resends'[i].phase = "sending" /\ resends'[i].messages = Tail(m)
        /\ resends'[i].failed = f
        /\ resends'[i] = [phase |-> "sending", messages |-> Tail(m), failed |-> f]
    BY <1>0, <1>1, <1>4 DEF Succeed, Kept, Places
  <2>3. resends'[i] \in Places
    BY <1>1, <1>2, <2>1 DEF Places
  <2>4. resends' \in [Slot -> Places]
    BY <1>4, <2>1, <2>3 DEF Succeed, Kept
  <2>5. HandsAreSmall'
    <3>1. Len(resends'[i].messages) + Len(resends'[i].failed) <= CacheSize
      BY <1>1, <1>2, <2>1, CacheSizeAssumption
    <3> QED
      BY <2>1, <3>1 DEF Kept, HandsAreSmall
  <2> QED
    BY <1>0, <1>4, <2>1, <2>4, <2>5
<1> QED
  BY <1>3, <1>4

LEMMA ResendOneAccounts ==
  ASSUME AccountsInv, NEW i \in Slot, ResendOne(i)
  PROVE  AccountsInv'
<1>0. PICK m, f : m = resends[i].messages /\ f = resends[i].failed
  OBVIOUS
<1>1. /\ i \in Sending /\ m # <<>>
      /\ Fail(i) \/ Succeed(i)
      /\ UNCHANGED <<raised, excused>>
      /\ m \in Seq(Record) /\ f \in Seq(Record)
  BY <1>0 DEF ResendOne, AccountsInv, Kept, Places
<1>2. /\ resends' \in [Slot -> Places] /\ HandsAreSmall'
      /\ \A j \in Slot \ {i} : resends'[j] = resends[j]
      /\ resends'[i].phase = "sending" /\ resends'[i].messages = Tail(m)
      /\ Fail(i) => resends'[i].failed = Append(f, Head(m))
      /\ Succeed(i) => resends'[i].failed = f
  BY <1>0, <1>1, NextRecord DEF AccountsInv
<1>3. /\ Head(m) \in Record /\ Range(m) = Range(Tail(m)) \cup {Head(m)}
      /\ Range(Append(f, Head(m))) = Range(f) \cup {Head(m)}
  BY <1>1, RecordsOfRest, RecordsBehind
<1>4. Sending' = Sending
  BY <1>1, <1>2 DEF Sending
<1>5. InHand(i) = Range(m) \cup Range(f) /\ InHand(i)' = Range(resends'[i].messages) \cup Range(resends'[i].failed)
  BY <1>0 DEF InHand
<1>6. CASE Fail(i)
  <2>1. InHand(i)' = InHand(i) /\ UNCHANGED <<cache, sent>>
    BY <1>2, <1>3, <1>5, <1>6 DEF Fail
  <2>2. \A j \in Slot : InHand(j)' = InHand(j)
    BY <1>2, <2>1, OtherHands
  <2>3. CopiesCover'
    BY <1>1, <1>4, <2>1, <2>2 DEF AccountsInv, CopiesCover, Sending
  <2>4. LossIsAccounted'
    BY <1>1, <2>1, <2>2 DEF AccountsInv, LossIsAccounted, Hands
  <2> QED
    BY <1>1, <1>2, <2>1, <2>3, <2>4 DEF AccountsInv, Kept
<1>7. CASE Succeed(i)
  <2>1. cache' = <<>> /\ sent' = sent \cup {Head(m)}
    BY <1>0, <1>7 DEF Succeed
  <2>2. InHand(i) \subseteq InHand(i)' \cup sent'
    BY <1>2, <1>3, <1>5, <1>7, <2>1
  <2>3. Hands \subseteq Hands' \cup sent'
    BY <1>2, <2>2, OtherHands
  <2>4. Range(cache) \subseteq InHand(i) \cup sent \cup excused
    BY <1>1 DEF AccountsInv, CopiesCover
  <2>5. LossIsAccounted'
    <3>1. InHand(i) \subseteq Hands
      BY DEF Hands
    <3> QED
      BY <1>1, <2>1, <2>3, <2>4, <3>1 DEF AccountsInv, LossIsAccounted
  <2>6. CopiesCover'
    BY <2>1, NothingInHand DEF CopiesCover
  <2>7. Kept'
    BY <1>1, <1>2, <2>1, NothingInHand, CacheSizeAssumption DEF AccountsInv, Kept
  <2> QED
    BY <2>5, <2>6, <2>7 DEF AccountsInv
<1> QED
  BY <1>1, <1>6, <1>7

LEMMA ResendEndAccounts ==
  ASSUME AccountsInv, NEW i \in Slot, ResendEnd(i)
  PROVE  AccountsInv'
<1>0. PICK f : f = resends[i].failed
  OBVIOUS
<1>1. /\ i \in Sending /\ resends[i].messages = <<>> /\ f \in Seq(Record) /\ Len(f) <= CacheSize
      /\ UNCHANGED <<raised, sent>> /\ resends' = [resends EXCEPT ![i] = Idle]
      /\ excused' = excused \cup AtRisk(Sending \ {i}, Range(f))
  <2>1. Len(resends[i].messages) + Len(f) <= CacheSize /\ f \in Seq(Record)
    BY <1>0 DEF AccountsInv, Kept, HandsAreSmall, Places
  <2>2. Len(resends[i].messages) = 0
    BY NothingInHand DEF ResendEnd
  <2>3. Len(f) <= CacheSize
    BY <2>1, <2>2, CacheSizeAssumption
  <2> QED
    BY <1>0, <2>1, <2>3 DEF ResendEnd
<1>2. cache' = f
  BY <1>0, <1>1, PushBackEffect DEF ResendEnd, Leftovers
<1>3. /\ resends' \in [Slot -> Places] /\ HandsAreSmall' /\ resends'[i] = Idle
      /\ \A j \in Slot \ {i} : resends'[j] = resends[j]
  BY <1>1, NothingInHand, OneResendMoves DEF AccountsInv
<1>4. InHand(i) = Range(f)
  BY <1>0, <1>1, NothingInHand DEF InHand
<1>5. i \notin Sending'
  BY <1>3, NothingInHand DEF Sending
<1>6. CopiesCover'
  <2>1. ASSUME NEW j \in Sending' PROVE Range(cache') \subseteq excused'
    <3>1. j \in Slot \ {i}
      BY <1>5 DEF Sending
    <3>2. j \in Sending \ {i}
      BY <3>1, <1>3, OtherHands
    <3> QED
      BY <3>2, <1>1, <1>2 DEF AtRisk
  <2> QED
    BY <2>1 DEF CopiesCover
<1>7. LossIsAccounted'
  <2>1. Hands \subseteq Hands' \cup Range(cache')
    BY <1>2, <1>3, <1>4, OtherHands
  <2>2. Range(cache) \subseteq InHand(i) \cup sent \cup excused
    BY <1>1 DEF AccountsInv, CopiesCover
  <2> QED
    BY <1>1, <1>2, <1>4, <2>1, <2>2 DEF AccountsInv, LossIsAccounted
<1>8. Kept'
  BY <1>1, <1>2, <1>3 DEF AccountsInv, Kept
<1> QED
  BY <1>6, <1>7, <1>8 DEF AccountsInv

LEMMA CrashAccounts == AccountsInv /\ Crash => AccountsInv'
<1> SUFFICES ASSUME AccountsInv, Crash PROVE AccountsInv'
  OBVIOUS
<1>1. /\ resends' = [i \in Slot |-> Idle] /\ excused' = excused \cup Hands
      /\ UNCHANGED <<cache, raised, sent>>
  BY DEF Crash
<1>2. \A i \in Slot : resends'[i] = Idle
  BY <1>1
<1>3. HandsAreSmall'
  BY <1>2, NothingInHand DEF HandsAreSmall
<1>4. Sending' = {}
  BY <1>2, NothingInHand DEF Sending
<1>5. Kept'
  BY <1>1, <1>3, NothingInHand DEF AccountsInv, Kept
<1>6. CopiesCover'
  BY <1>4 DEF CopiesCover
<1>7. LossIsAccounted'
  BY <1>1 DEF AccountsInv, LossIsAccounted
<1> QED
  BY <1>5, <1>6, <1>7 DEF AccountsInv

LEMMA RecordsAreAccounted == AccountsInv /\ [Next]_vars => AccountsInv'
<1> SUFFICES ASSUME AccountsInv, [Next]_vars PROVE AccountsInv'
  OBVIOUS
<1>1. CASE UNCHANGED <<cache, resends, histories>>
  BY <1>1 DEF histories, AccountsInv, Kept, HandsAreSmall, CopiesCover, LossIsAccounted,
              Sending, InHand, Hands
<1>2. CASE \E r \in Record : UploadOnline(r) \/ UploadOffline(r)
  BY <1>2, UploadOnlineAccounts, UploadOfflineAccounts
<1>3. CASE \E i \in Slot : Connect(i)
  BY <1>3, ConnectAccounts
<1>4. CASE Resend
  BY <1>4, ResendBeginAccounts, ResendOneAccounts, ResendEndAccounts DEF Resend
<1>5. CASE Crash
  BY <1>5, CrashAccounts
<1> QED
  BY <1>1, <1>2, <1>3, <1>4, <1>5 DEF Next, Disconnect, vars

\* src/api/offline_cache.py, websocket_client.py: a record is lost for one of four
\* reasons only: the cache was full, a resend was under way when it was cached or
\* put back, the socket broke under it, or the program was killed in the middle of
\* a resend.
THEOREM SpecLossIsAccounted == Spec => []LossIsAccounted
<1>1. AccountsInv => LossIsAccounted
  BY DEF AccountsInv
<1>2. Spec => []AccountsInv
  BY RecordsStart, RecordsAreAccounted, PTL DEF Spec
<1> QED
  BY <1>1, <1>2, PTL

-----------------------------------------------------------------------------
\* s has its records in the order that h has them in.
InTurn(s, h) ==
  \A j, k \in DOMAIN s :
    j < k => \E a, b \in DOMAIN h : a < b /\ h[a] = s[j] /\ h[b] = s[k]

\* So has what is left when records are taken out: e says where each one stood.
LEMMA FewerInTurn ==
  ASSUME NEW s \in Seq(Record), NEW t \in Seq(Record), NEW h, InTurn(s, h),
         NEW e \in [1..Len(t) -> 1..Len(s)],
         \A j, k \in 1..Len(t) : j < k => e[j] < e[k],
         \A j \in 1..Len(t) : t[j] = s[e[j]]
  PROVE  InTurn(t, h)
<1>1. DOMAIN s = 1..Len(s) /\ DOMAIN t = 1..Len(t)
  OBVIOUS
<1> QED
  BY <1>1 DEF InTurn

LEMMA RestInTurn ==
  ASSUME NEW s \in Seq(Record), s # <<>>, NEW h, InTurn(s, h)
  PROVE  InTurn(Tail(s), h)
<1>0. Tail(s) \in Seq(Record)
  OBVIOUS
<1>1. PICK t \in Seq(Record) : t = Tail(s)
  BY <1>0
<1>2. Len(t) = Len(s) - 1 /\ Len(s) \in Nat \ {0} /\ \A j \in 1..(Len(s) - 1) : t[j] = s[j + 1]
  BY <1>1
<1>3. PICK e : e = [j \in 1..Len(t) |-> j + 1]
  OBVIOUS
<1>4. /\ e \in [1..Len(t) -> 1..Len(s)]
      /\ \A j, k \in 1..Len(t) : j < k => e[j] < e[k]
      /\ \A j \in 1..Len(t) : t[j] = s[e[j]]
  BY <1>2, <1>3
<1> QED
  BY <1>1, <1>4, FewerInTurn

\* The parts of a sequence, and what is left without the first of the second part.
LEMMA PartsInTurn ==
  ASSUME NEW f \in Seq(Record), NEW m \in Seq(Record), NEW h, InTurn(f \o m, h)
  PROVE  InTurn(f, h) /\ InTurn(m, h)
<1>0. f \o m \in Seq(Record)
  OBVIOUS
<1>1. PICK s \in Seq(Record) : s = f \o m
  BY <1>0
<1>2. /\ Len(s) = Len(f) + Len(m) /\ Len(f) \in Nat /\ Len(m) \in Nat
      /\ \A j \in 1..Len(f) : s[j] = f[j]
      /\ \A j \in 1..Len(m) : s[j + Len(f)] = m[j]
  <2>1. \A j \in 1..(Len(f) + Len(m)) : s[j] = IF j <= Len(f) THEN f[j] ELSE m[j - Len(f)]
    BY <1>1, ConcatProperties
  <2>2. Len(s) = Len(f) + Len(m) /\ Len(f) \in Nat /\ Len(m) \in Nat
    BY <1>1, ConcatProperties
  <2>3. ASSUME NEW j \in 1..Len(m) PROVE s[j + Len(f)] = m[j]
    <3>1. j + Len(f) \in 1..(Len(f) + Len(m)) /\ ~(j + Len(f) <= Len(f)) /\ (j + Len(f)) - Len(f) = j
      BY <2>2
    <3> QED
      BY <2>1, <3>1
  <2> QED
    BY <2>1, <2>2, <2>3
<1>3. InTurn(f, h)
  <2>1. PICK e : e = [j \in 1..Len(f) |-> j]
    OBVIOUS
  <2>2. /\ e \in [1..Len(f) -> 1..Len(s)]
        /\ \A j, k \in 1..Len(f) : j < k => e[j] < e[k]
        /\ \A j \in 1..Len(f) : f[j] = s[e[j]]
    BY <1>2, <2>1
  <2> QED
    BY <1>1, <2>2, FewerInTurn
<1>4. InTurn(m, h)
  <2>1. PICK e : e = [j \in 1..Len(m) |-> j + Len(f)]
    OBVIOUS
  <2>2. /\ e \in [1..Len(m) -> 1..Len(s)]
        /\ \A j, k \in 1..Len(m) : j < k => e[j] < e[k]
        /\ \A j \in 1..Len(m) : m[j] = s[e[j]]
    BY <1>2, <2>1
  <2> QED
    BY <1>1, <2>2, FewerInTurn
<1> QED
  BY <1>3, <1>4

LEMMA SentInTurn ==
  ASSUME NEW f \in Seq(Record), NEW m \in Seq(Record), m # <<>>, NEW h, InTurn(f \o m, h)
  PROVE  InTurn(f \o Tail(m), h)
<1>1. PICK s, t : s = f \o m /\ t = f \o Tail(m)
  OBVIOUS
<1>2. /\ Len(f) \in Nat /\ Len(m) \in Nat \ {0} /\ Tail(m) \in Seq(Record)
      /\ Len(Tail(m)) = Len(m) - 1 /\ \A j \in 1..(Len(m) - 1) : Tail(m)[j] = m[j + 1]
  OBVIOUS
<1>3. /\ s \in Seq(Record) /\ Len(s) = Len(f) + Len(m)
      /\ \A j \in 1..(Len(f) + Len(m)) : s[j] = IF j <= Len(f) THEN f[j] ELSE m[j - Len(f)]
  BY <1>1, ConcatProperties
<1>4. /\ t \in Seq(Record) /\ Len(t) = Len(f) + (Len(m) - 1)
      /\ \A j \in 1..(Len(f) + (Len(m) - 1)) : t[j] = IF j <= Len(f) THEN f[j] ELSE Tail(m)[j - Len(f)]
  BY <1>1, <1>2, ConcatProperties
<1>5. PICK e : e = [j \in 1..Len(t) |-> IF j <= Len(f) THEN j ELSE j + 1]
  OBVIOUS
<1>6. /\ e \in [1..Len(t) -> 1..Len(s)]
      /\ \A j, k \in 1..Len(t) : j < k => e[j] < e[k]
  BY <1>2, <1>3, <1>4, <1>5
<1>7. ASSUME NEW j \in 1..Len(t) PROVE t[j] = s[e[j]]
  <2>1. CASE j <= Len(f)
    BY <2>1, <1>2, <1>3, <1>4, <1>5
  <2>2. CASE ~(j <= Len(f))
    <3>1. /\ e[j] = j + 1 /\ j - Len(f) \in 1..(Len(m) - 1) /\ j + 1 \in 1..(Len(f) + Len(m))
          /\ ~(j + 1 <= Len(f)) /\ (j + 1) - Len(f) = (j - Len(f)) + 1
      BY <2>2, <1>2, <1>4, <1>5
    <3>2. t[j] = Tail(m)[j - Len(f)] /\ s[j + 1] = m[(j - Len(f)) + 1]
      BY <2>2, <3>1, <1>2, <1>3, <1>4
    <3> QED
      BY <3>1, <3>2, <1>2
  <2> QED
    BY <2>1, <2>2
<1> QED
  BY <1>1, <1>3, <1>4, <1>6, <1>7, FewerInTurn

\* A record that was not sent moves from the head of the messages behind the failed
\* ones: between them nothing changes.
LEMMA PutAside ==
  ASSUME NEW f \in Seq(Record), NEW m \in Seq(Record), m # <<>>
  PROVE  Append(f, Head(m)) \o Tail(m) = f \o m
<1>1. Head(m) \in Record /\ Tail(m) \in Seq(Record) /\ <<Head(m)>> \in Seq(Record)
  OBVIOUS
<1>2. Append(f, Head(m)) = f \o <<Head(m)>>
  BY <1>1, AppendIsConcat
<1>3. (f \o <<Head(m)>>) \o Tail(m) = f \o (<<Head(m)>> \o Tail(m))
  BY <1>1, ConcatAssociative
<1>4. <<Head(m)>> \o Tail(m) = m
  OBVIOUS
<1> QED
  BY <1>2, <1>3, <1>4

\* A new record comes last, in what was raised as in what waits.
LEMMA NewestInTurn ==
  ASSUME NEW s \in Seq(Record), NEW h \in Seq(Record), NEW r \in Record, InTurn(s, h)
  PROVE  /\ InTurn(s, Append(h, r))
         /\ Range(s) \subseteq Range(h) => InTurn(Append(s, r), Append(h, r))
<1>1. PICK g : g = Append(h, r)
  OBVIOUS
<1>2. /\ DOMAIN h = 1..Len(h) /\ DOMAIN g = 1..(Len(h) + 1) /\ Len(h) \in Nat
      /\ \A a \in 1..Len(h) : g[a] = h[a]
      /\ g[Len(h) + 1] = r
  BY <1>1
<1>3. InTurn(s, g)
  <2> SUFFICES ASSUME NEW j \in DOMAIN s, NEW k \in DOMAIN s, j < k
               PROVE  \E a, b \in DOMAIN g : a < b /\ g[a] = s[j] /\ g[b] = s[k]
    BY DEF InTurn
  <2>1. PICK a \in DOMAIN h, b \in DOMAIN h : a < b /\ h[a] = s[j] /\ h[b] = s[k]
    BY DEF InTurn
  <2>2. a \in DOMAIN g /\ b \in DOMAIN g /\ g[a] = h[a] /\ g[b] = h[b]
    BY <1>2
  <2> QED
    BY <2>1, <2>2
<1>4. ASSUME Range(s) \subseteq Range(h) PROVE InTurn(Append(s, r), g)
  <2>1. PICK t : t = Append(s, r)
    OBVIOUS
  <2>2. /\ DOMAIN s = 1..Len(s) /\ DOMAIN t = 1..(Len(s) + 1) /\ Len(s) \in Nat
        /\ \A a \in 1..Len(s) : t[a] = s[a]
        /\ t[Len(s) + 1] = r
    BY <2>1
  <2>3. ASSUME NEW j \in DOMAIN t, NEW k \in DOMAIN t, j < k
        PROVE  \E a, b \in DOMAIN g : a < b /\ g[a] = t[j] /\ g[b] = t[k]
    <3>1. CASE k \in DOMAIN s
      <4>1. j \in DOMAIN s /\ t[j] = s[j] /\ t[k] = s[k]
        BY <3>1, <2>2, <2>3
      <4> QED
        BY <4>1, <3>1, <2>3, <1>3 DEF InTurn
    <3>2. CASE k \notin DOMAIN s
      <4>1. k = Len(s) + 1 /\ j \in DOMAIN s /\ t[k] = r /\ t[j] = s[j]
        BY <3>2, <2>2, <2>3
      <4>2. s[j] \in Range(h)
        BY <4>1, <1>4 DEF Range
      <4>3. PICK a \in DOMAIN h : h[a] = s[j]
        BY <4>2 DEF Range
      <4>4. /\ a \in DOMAIN g /\ g[a] = t[j] /\ a < Len(h) + 1
            /\ Len(h) + 1 \in DOMAIN g /\ g[Len(h) + 1] = t[k]
        BY <4>1, <4>3, <1>2
      <4> QED
        BY <4>4
    <3> QED
      BY <3>1, <3>2
  <2> QED
    BY <2>1, <2>3 DEF InTurn
<1> QED
  BY <1>1, <1>3, <1>4

LEMMA OrderedInTurn ==
  /\ \A s : Ordered(s) <=> InTurn(s, raised)
  /\ OrderInv => InTurn(cache, raised)
  /\ InTurn(cache', raised') => Ordered(cache)'
  /\ (\A i \in Slot : InTurn(resends'[i].failed \o resends'[i].messages, raised')) => HandsInOrder'
BY DEF OrderInv, HandsInOrder, Ordered, InTurn

\* Nothing put behind nothing.
LEMMA NothingInTurn ==
  /\ <<>> \o <<>> = <<>> /\ \A h : InTurn(<<>>, h)
  /\ \A s \in Seq(Record) : <<>> \o s = s /\ s \o <<>> = s
<1>1. DOMAIN <<>> = {} /\ <<>> \o <<>> = <<>>
  OBVIOUS
<1>2. \A s \in Seq(Record) : <<>> \o s = s /\ s \o <<>> = s
  BY ConcatEmptySeq
<1> QED
  BY <1>1, <1>2 DEF InTurn

\* What a resend has is known and in order.
LEMMA HandFacts ==
  ASSUME Kept, OrderInv, NEW i \in Slot
  PROVE  /\ resends[i].failed \in Seq(Record) /\ resends[i].messages \in Seq(Record)
         /\ InTurn(resends[i].failed \o resends[i].messages, raised)
         /\ Range(resends[i].failed) \cup Range(resends[i].messages) \subseteq Range(raised)
<1>1. resends[i].failed \in Seq(Record) /\ resends[i].messages \in Seq(Record)
  BY DEF Kept, Places
<1> QED
  BY <1>1, OrderedInTurn DEF OrderInv, HandsInOrder, WaitingIsRaised, InHand

LEMMA UploadInTurn ==
  ASSUME Kept, OrderInv, NEW r \in Record, UploadOnline(r) \/ UploadOffline(r)
  PROVE  OrderInv'
<1>1. raised' = Append(raised, r) /\ UNCHANGED resends /\ raised \in Seq(Record) /\ cache \in Seq(Record)
  BY DEF UploadOnline, UploadOffline, Kept
<1>2. Range(raised') = Range(raised) \cup {r}
  BY <1>1, RecordsBehind
<1>3. ASSUME NEW i \in Slot
      PROVE  InTurn(resends'[i].failed \o resends'[i].messages, raised') /\ InHand(i)' \subseteq Range(raised')
  <2>1. InTurn(resends[i].failed \o resends[i].messages, Append(raised, r))
    <3>1. resends[i].failed \o resends[i].messages \in Seq(Record)
      BY HandFacts
    <3> QED
      BY <3>1, <1>1, HandFacts, NewestInTurn
  <2>2. InHand(i) \subseteq Range(raised)
    BY DEF OrderInv, WaitingIsRaised
  <2> QED
    BY <1>1, <1>2, <2>1, <2>2 DEF InHand
<1>4. InTurn(cache, raised) /\ Range(cache) \subseteq Range(raised)
  BY OrderedInTurn DEF OrderInv, WaitingIsRaised
<1>5. InTurn(cache', raised') /\ Range(cache') \subseteq Range(raised')
  <2>1. CASE UploadOnline(r)
    BY <1>1, <1>2, <1>4, <2>1, NewestInTurn DEF UploadOnline
  <2>2. CASE UploadOffline(r)
    <3>1. PICK s : s = IF Len(cache) >= CacheSize THEN Tail(cache) ELSE cache
      OBVIOUS
    <3>2. s \in Seq(Record) /\ InTurn(s, raised) /\ Range(s) \subseteq Range(raised)
      <4>1. CASE Len(cache) >= CacheSize
        <5>1. cache # <<>>
          BY <4>1, CacheSizeAssumption, NothingInHand
        <5> QED
          BY <3>1, <4>1, <5>1, <1>1, <1>4, RestInTurn, RecordsOfRest
      <4>2. CASE ~(Len(cache) >= CacheSize)
        BY <3>1, <4>2, <1>1, <1>4
      <4> QED
        BY <4>1, <4>2
    <3>3. cache' = Append(s, r)
      BY <2>2, <3>1 DEF UploadOffline, Push
    <3>4. InTurn(Append(s, r), Append(raised, r))
      BY <3>2, <1>1, NewestInTurn
    <3> QED
      BY <1>1, <1>2, <3>2, <3>3, <3>4, RecordsBehind
  <2> QED
    BY <2>1, <2>2
<1> QED
  BY <1>3, <1>5, OrderedInTurn DEF OrderInv, WaitingIsRaised

LEMMA ResendOneInTurn ==
  ASSUME Kept, OrderInv, NEW i \in Slot, ResendOne(i)
  PROVE  OrderInv'
<1>0. PICK m, f : m = resends[i].messages /\ f = resends[i].failed
  OBVIOUS
<1>1. /\ i \in Sending /\ m # <<>>
      /\ Fail(i) \/ Succeed(i)
      /\ UNCHANGED raised
      /\ m \in Seq(Record) /\ f \in Seq(Record)
  BY <1>0 DEF ResendOne, Kept, Places
<1>2. /\ \A j \in Slot \ {i} : resends'[j] = resends[j]
      /\ resends'[i].messages = Tail(m)
      /\ Fail(i) => resends'[i].failed = Append(f, Head(m))
      /\ Succeed(i) => resends'[i].failed = f
  BY <1>0, <1>1, NextRecord
<1>3. /\ InTurn(f \o m, raised) /\ Range(f) \cup Range(m) \subseteq Range(raised)
      /\ Range(m) = Range(Tail(m)) \cup {Head(m)}
      /\ Range(Append(f, Head(m))) = Range(f) \cup {Head(m)}
  BY <1>0, <1>1, HandFacts, RecordsOfRest, RecordsBehind
<1>4. /\ InTurn(resends'[i].failed \o resends'[i].messages, raised')
      /\ InHand(i)' \subseteq Range(raised')
  <2>1. CASE Fail(i)
    BY <1>1, <1>2, <1>3, <2>1, PutAside DEF InHand
  <2>2. CASE Succeed(i)
    BY <1>1, <1>2, <1>3, <2>2, SentInTurn DEF InHand
  <2> QED
    BY <1>1, <2>1, <2>2
<1>5. ASSUME NEW j \in Slot \ {i}
      PROVE  /\ InTurn(resends'[j].failed \o resends'[j].messages, raised')
             /\ InHand(j)' \subseteq Range(raised')
  BY <1>1, <1>2, HandFacts DEF InHand
<1>6. InTurn(cache', raised') /\ Range(cache') \subseteq Range(raised')
  <2>1. cache' = cache \/ cache' = <<>>
    BY <1>1 DEF Fail, Succeed
  <2> QED
    BY <2>1, <1>1, OrderedInTurn, NothingInTurn, NothingInHand DEF OrderInv, WaitingIsRaised
<1> QED
  BY <1>4, <1>5, <1>6, OrderedInTurn DEF OrderInv, WaitingIsRaised

\* A connection, the beginning of a resend, its end, and a crash: what is moved is
\* moved as a whole.
LEMMA MovedInTurn ==
  ASSUME Kept, OrderInv, UNCHANGED raised,
         cache' = cache \/ \E i \in Slot : cache' = resends[i].failed,
         \A i \in Slot : \/ resends'[i] = resends[i]
                         \/ resends'[i].failed = <<>> /\ resends'[i].messages \in {<<>>, cache}
  PROVE  OrderInv'
<1>1. ASSUME NEW i \in Slot
      PROVE  /\ InTurn(resends'[i].failed \o resends'[i].messages, raised')
             /\ InHand(i)' \subseteq Range(raised')
  <2>1. CASE resends'[i] = resends[i]
    BY <2>1, HandFacts DEF InHand
  <2>2. CASE resends'[i].failed = <<>> /\ resends'[i].messages = <<>>
    BY <2>2, NothingInTurn, NothingInHand DEF InHand
  <2>3. CASE resends'[i].failed = <<>> /\ resends'[i].messages = cache
    <3>1. cache \in Seq(Record) /\ InTurn(cache, raised) /\ Range(cache) \subseteq Range(raised)
      BY OrderedInTurn DEF Kept, OrderInv, WaitingIsRaised
    <3> QED
      BY <2>3, <3>1, NothingInTurn, NothingInHand DEF InHand
  <2> QED
    BY <2>1, <2>2, <2>3
<1>2. InTurn(cache', raised') /\ Range(cache') \subseteq Range(raised')
  <2>1. ASSUME NEW i \in Slot PROVE InTurn(resends[i].failed, raised)
    BY HandFacts, PartsInTurn
  <2> QED
    BY <2>1, HandFacts, OrderedInTurn DEF OrderInv, WaitingIsRaised
<1> QED
  BY <1>1, <1>2, OrderedInTurn DEF OrderInv, WaitingIsRaised

LEMMA RecordsStayInTurn == AccountsInv /\ OrderInv /\ [Next]_vars => OrderInv'
<1> SUFFICES ASSUME AccountsInv, OrderInv, [Next]_vars PROVE OrderInv'
  OBVIOUS
<1>0. Kept
  BY DEF AccountsInv
<1>1. CASE \E r \in Record : UploadOnline(r) \/ UploadOffline(r)
  BY <1>0, <1>1, UploadInTurn
<1>2. CASE \E i \in Slot : ResendOne(i)
  BY <1>0, <1>2, ResendOneInTurn
<1>3. CASE \E i \in Slot : Connect(i)
  <2>1. PICK i \in Slot : Connect(i)
    BY <1>3
  <2>2. UNCHANGED <<raised, cache>> /\ resends' = [resends EXCEPT ![i] = Fresh]
    BY <2>1 DEF Connect
  <2>3. \A j \in Slot : resends'[j] = resends[j] \/ resends'[j] = Fresh
    BY <1>0, <2>2 DEF Kept
  <2> QED
    BY <1>0, <2>2, <2>3, NothingInHand, MovedInTurn
<1>4. CASE \E i \in Slot : ResendBegin(i)
  <2>1. PICK i \in Slot : ResendBegin(i)
    BY <1>4
  <2>2. PICK p : p = [phase |-> "sending", messages |-> cache, failed |-> <<>>]
    OBVIOUS
  <2>3. /\ UNCHANGED <<raised, cache>>
        /\ resends' = [resends EXCEPT ![i] = IF cache = <<>> THEN Idle ELSE p]
    BY <2>1, <2>2 DEF ResendBegin, histories
  <2>4. \A j \in Slot : resends'[j] = resends[j] \/ resends'[j] = Idle \/ resends'[j] = p
    BY <1>0, <2>3 DEF Kept
  <2>5. p.failed = <<>> /\ p.messages = cache
    BY <2>2
  <2> QED
    BY <1>0, <2>3, <2>4, <2>5, NothingInHand, MovedInTurn
<1>5. CASE \E i \in Slot : ResendEnd(i)
  <2>1. PICK i \in Slot : ResendEnd(i)
    BY <1>5
  <2>2. UNCHANGED raised /\ resends' = [resends EXCEPT ![i] = Idle] /\ cache' = PushBack(<<>>, resends[i].failed)
    BY <2>1 DEF ResendEnd, Leftovers
  <2>3. resends[i].failed \in Seq(Record) /\ Len(resends[i].failed) <= CacheSize
    <3>1. Len(resends[i].messages) + Len(resends[i].failed) <= CacheSize /\ Len(resends[i].messages) = 0
      BY <1>0, <2>1, NothingInHand DEF Kept, HandsAreSmall, ResendEnd
    <3> QED
      BY <1>0, <3>1, CacheSizeAssumption DEF Kept, Places
  <2>4. cache' = resends[i].failed
    BY <2>2, <2>3, PushBackEffect
  <2>5. \A j \in Slot : resends'[j] = resends[j] \/ resends'[j] = Idle
    BY <1>0, <2>2 DEF Kept
  <2> QED
    BY <1>0, <2>2, <2>4, <2>5, NothingInHand, MovedInTurn
<1>6. CASE Crash
  <2>1. UNCHANGED <<raised, cache>> /\ \A j \in Slot : resends'[j] = Idle
    BY <1>6 DEF Crash
  <2> QED
    BY <1>0, <2>1, NothingInHand, MovedInTurn
<1>7. CASE Disconnect \/ UNCHANGED vars
  BY <1>0, <1>7, MovedInTurn DEF Disconnect, vars, histories
<1> QED
  BY <1>1, <1>2, <1>3, <1>4, <1>5, <1>6, <1>7 DEF Next, Resend

\* src/api/offline_cache.py, websocket_client.py: what waits, in the cache and in
\* every resend, waits in the order in which it was raised and once.
THEOREM SpecInOrder == Spec => []InOrder
<1>1. AccountsInv /\ OrderInv => InOrder
  <2> SUFFICES ASSUME AccountsInv, OrderInv PROVE InOrder
    OBVIOUS
  <2>1. ASSUME NEW i \in Slot
        PROVE  Ordered(resends[i].messages) /\ Ordered(resends[i].failed)
    <3>1. /\ resends[i].failed \in Seq(Record) /\ resends[i].messages \in Seq(Record)
          /\ InTurn(resends[i].failed \o resends[i].messages, raised)
      BY HandFacts DEF AccountsInv
    <3> QED
      BY <3>1, PartsInTurn, OrderedInTurn
  <2> QED
    BY <2>1 DEF OrderInv, InOrder
<1>2. AccountsInv /\ OrderInv /\ [Next]_vars => (AccountsInv /\ OrderInv)'
  BY RecordsAreAccounted, RecordsStayInTurn
<1>3. Spec => [](AccountsInv /\ OrderInv)
  BY RecordsStart, <1>2, PTL DEF Spec
<1> QED
  BY <1>1, <1>3, PTL

-----------------------------------------------------------------------------
\* The sequences of TypeOK.
LEMMA QueueBounds ==
  ASSUME NEW s \in Seq(Record), Len(s) <= CacheSize
  PROVE  s \in Queues
<1>1. Len(s) \in 0..CacheSize /\ s \in [1..Len(s) -> Record]
  BY CacheSizeAssumption
<1> QED
  BY <1>1 DEF Queues, BoundedSeq, SeqOf

\* A record is uploaded once: of what waits in order, nothing waits twice.
LEMMA RaisedOnce ==
  ASSUME NEW h \in Seq(Record), IsInjective(h), NEW r, r \notin Range(h)
  PROVE  IsInjective(Append(h, r))
<1>1. PICK g : g = Append(h, r)
  OBVIOUS
<1>2. /\ DOMAIN h = 1..Len(h) /\ DOMAIN g = 1..(Len(h) + 1) /\ Len(h) \in Nat
      /\ \A a \in 1..Len(h) : g[a] = h[a] /\ g[a] # r
      /\ g[Len(h) + 1] = r
  BY <1>1 DEF Range
<1>3. \A a, b \in 1..(Len(h) + 1) : g[a] = g[b] => a = b
  BY <1>2 DEF IsInjective
<1> QED
  BY <1>1, <1>2, <1>3 DEF IsInjective

Logs ==
  /\ online \in BOOLEAN /\ smooth \in BOOLEAN
  /\ sent \subseteq Record /\ excused \subseteq Record
  /\ IsInjective(raised)

LEMMA LogsAreKept == AccountsInv /\ Logs /\ [Next]_vars => Logs'
<1> SUFFICES ASSUME AccountsInv, Logs, [Next]_vars PROVE Logs'
  OBVIOUS
<1>0. /\ raised \in Seq(Record) /\ cache \in Seq(Record) /\ Range(cache) \subseteq Record
      /\ \A i \in Slot : /\ resends[i].messages \in Seq(Record) /\ resends[i].failed \in Seq(Record)
                         /\ Range(resends[i].messages) \subseteq Record
                         /\ Range(resends[i].failed) \subseteq Record
  BY RangeOfSeq DEF AccountsInv, Kept, Places
<1>1. CASE \E r \in Record : UploadOnline(r) \/ UploadOffline(r)
  <2>1. PICK r \in Record : UploadOnline(r) \/ UploadOffline(r)
    BY <1>1
  <2>2. IsInjective(raised')
    BY <1>0, <2>1, RaisedOnce DEF UploadOnline, UploadOffline, Logs
  <2>3. sent' \subseteq Record /\ excused' \subseteq Record /\ online' = online /\ smooth' = smooth
    BY <1>0, <2>1 DEF UploadOnline, UploadOffline, AtRisk, Logs
  <2> QED
    BY <2>2, <2>3 DEF Logs
<1>2. CASE \E i \in Slot : ResendOne(i)
  <2>1. PICK i \in Slot : ResendOne(i)
    BY <1>2
  <2>2. Head(resends[i].messages) \in Record
    BY <1>0, <2>1, RecordsOfRest DEF ResendOne
  <2> QED
    BY <2>1, <2>2 DEF ResendOne, Fail, Succeed, Logs
<1>3. CASE (\E i \in Slot : Connect(i) \/ ResendBegin(i) \/ ResendEnd(i)) \/ Disconnect \/ Crash
  <2>1. Hands \subseteq Record
    BY <1>0 DEF Hands, InHand
  <2> QED
    BY <1>0, <1>3, <2>1 DEF Connect, ResendBegin, ResendEnd, Disconnect, Crash, AtRisk, Logs, histories
<1>4. CASE UNCHANGED vars
  BY <1>4 DEF vars, histories, Logs
<1> QED
  BY <1>1, <1>2, <1>3, <1>4 DEF Next, Resend

LEMMA BothAreQueues ==
  ASSUME NEW m \in Seq(Record), NEW f \in Seq(Record), Len(m) + Len(f) <= CacheSize
  PROVE  m \in Queues /\ f \in Queues
<1>1. Len(m) \in Nat /\ Len(f) \in Nat
  BY LenProperties
<1>2. Len(m) <= CacheSize /\ Len(f) <= CacheSize
  BY <1>1, CacheSizeAssumption
<1> QED
  BY <1>2, QueueBounds

\* OfflineCache is bounded by max_size, and so is what every resend has of it; no
\* record is uploaded twice.
THEOREM RecordsTypeCorrect == Spec => []TypeOK
<1>1. Init => Logs
  <2>1. DOMAIN <<>> = {}
    OBVIOUS
  <2> QED
    BY <2>1 DEF Init, Logs, IsInjective
<1>2. AccountsInv /\ Logs => TypeOK
  <2> SUFFICES ASSUME AccountsInv, Logs PROVE TypeOK
    OBVIOUS
  <2>1. cache \in Queues
    BY QueueBounds DEF AccountsInv, Kept
  <2>2. ASSUME NEW i \in Slot PROVE resends[i].messages \in Queues /\ resends[i].failed \in Queues
    <3>1. PICK m, f : m = resends[i].messages /\ f = resends[i].failed
      OBVIOUS
    <3>2. m \in Seq(Record) /\ f \in Seq(Record)
      BY <3>1 DEF AccountsInv, Kept, Places
    <3>3. Len(m) + Len(f) <= CacheSize
      BY <3>1 DEF AccountsInv, Kept, HandsAreSmall
    <3> QED
      BY <3>1, <3>2, <3>3, BothAreQueues
  <2>3. resends \in [Slot -> [phase : {"idle", "fresh", "sending"}, messages : Queues, failed : Queues]]
    <3>1. ASSUME NEW i \in Slot
          PROVE  resends[i] \in [phase : {"idle", "fresh", "sending"}, messages : Queues, failed : Queues]
      BY <2>2 DEF AccountsInv, Kept, Places
    <3> QED
      BY <3>1 DEF AccountsInv, Kept
  <2>4. Range(raised) \subseteq Record
    BY RangeOfSeq DEF AccountsInv, Kept
  <2> QED
    BY <2>1, <2>3, <2>4 DEF Logs, TypeOK
<1>3. Spec => [](AccountsInv /\ Logs)
  BY RecordsStart, RecordsAreAccounted, LogsAreKept, <1>1, PTL DEF Spec
<1> QED
  BY <1>2, <1>3, PTL
=============================================================================
