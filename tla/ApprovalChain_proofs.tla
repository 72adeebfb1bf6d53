------------------------ MODULE ApprovalChain_proofs ------------------------
(***************************************************************************)
(* Theorems about the derivation of approval chains, for every finite set of   *)
(* users, every chart, with cycles and self-management, and every depth cap.   *)
(***************************************************************************)
EXTENDS Organisation, FiniteSetTheorems, WellFoundedInduction, TLAPS

(***************************************************************************)
(* Induction.  Every set of naturals has a least element, so a set that has 0 *)
(* and the successor of each of its elements has them all.                    *)
(***************************************************************************)
LEMMA LeastNatural ==
  ASSUME NEW S \in SUBSET Nat, S # {}
  PROVE  \E k \in S : \A j \in S : k <= j
<1>. DEFINE T == {0..k : k \in S}
<1>1. T \subseteq FiniteSubsetsOf(Nat) /\ T # {}
  <2>1. \A k \in S : 0..k \in SUBSET Nat /\ IsFiniteSet(0..k)
    BY FS_Interval
  <2>. QED
    BY <2>1 DEF FiniteSubsetsOf
<1>2. PICK x \in T : \A y \in T : <<y, x>> \notin StrictSubsetOrdering(Nat)
  BY <1>1, FS_StrictSubsetOrderingWellFounded, WFMin, Zenon
<1>3. PICK k \in S : x = 0..k
  OBVIOUS
<1>4. ASSUME NEW j \in S, j < k PROVE FALSE
  <2>1. k \in 0..k /\ k \notin 0..j
    BY <1>4
  <2>2. 0..j \subseteq Nat /\ 0..k \subseteq Nat /\ 0..j \subseteq 0..k
    BY <1>4
  <2>3. <<0..j, 0..k>> \in StrictSubsetOrdering(Nat)
    BY <2>1, <2>2, Zenon DEF StrictSubsetOrdering
  <2>. QED
    BY <1>2, <1>3, <2>3
<1>. QED
  BY <1>4

LEMMA Induction ==
  ASSUME NEW S, 0 \in S, \A n \in Nat : n \in S => n + 1 \in S
  PROVE  Nat \subseteq S
<1>. SUFFICES ASSUME Nat \ S # {} PROVE FALSE
  OBVIOUS
<1>1. PICK k \in Nat \ S : \A j \in Nat \ S : k <= j
  BY LeastNatural
<1>2. k - 1 \in Nat /\ k - 1 \in S
  BY <1>1
<1>. QED
  BY <1>1, <1>2

(***************************************************************************)
(* The loop of walkManagerChain.                                             *)
(***************************************************************************)
Beginning(start) ==
  [cursor |-> start, seen |-> {start}, sequentialApprovers |-> <<>>,
   finalAnchor |-> NoUser, ended |-> FALSE]

IsLoop(f, o, start, n) ==
  f = [depth \in 0..n |-> IF depth = 0 THEN Beginning(start) ELSE climb(o, f[depth - 1])]

\* The recursive definition has a solution.
LEMMA LoopExists ==
  ASSUME NEW o, NEW start, NEW n \in Nat
  PROVE  \E f : IsLoop(f, o, start, n)
<1>. DEFINE S == {m \in Nat : \E f : IsLoop(f, o, start, m)}
<1>1. 0 \in S
  <2>. DEFINE f == [depth \in 0..0 |-> Beginning(start)]
  <2>1. IsLoop(f, o, start, 0)
    BY DEF IsLoop
  <2>. QED
    BY <2>1
<1>2. ASSUME NEW m \in Nat, m \in S PROVE m + 1 \in S
  <2>1. PICK f : IsLoop(f, o, start, m)
    BY <1>2
  <2>. DEFINE g == [depth \in 0..(m + 1) |-> IF depth = m + 1 THEN climb(o, f[m]) ELSE f[depth]]
              h == [depth \in 0..(m + 1) |->
                      IF depth = 0 THEN Beginning(start) ELSE climb(o, g[depth - 1])]
  <2>2. ASSUME NEW d \in 0..(m + 1) PROVE g[d] = h[d]
    <3>1. CASE d = 0
      BY <2>1, <3>1 DEF IsLoop
    <3>2. CASE d \in 1..m
      <4>1. g[d] = f[d] /\ f[d] = climb(o, f[d - 1]) /\ g[d - 1] = f[d - 1]
        BY <2>1, <3>2 DEF IsLoop
      <4>. QED
        BY <3>2, <4>1
    <3>3. CASE d = m + 1
      BY <3>3
    <3>. QED
      BY <3>1, <3>2, <3>3
  <2>3. g = h
    BY <2>2
  <2>4. IsLoop(g, o, start, m + 1)
    BY <2>3, Zenon DEF IsLoop
  <2>. QED
    BY <2>4, m + 1 \in Nat
<1>. HIDE DEF S
<1>3. Nat \subseteq S
  BY <1>1, <1>2, Induction
<1>. QED
  BY <1>3 DEF S

\* The states of the loop, one after the other, and what it returns.
LEMMA WalkSteps ==
  ASSUME NEW o, NEW start
  PROVE  \E f : /\ f[0] = Beginning(start)
                /\ \A d \in 1..MaxChainDepth : f[d] = climb(o, f[d - 1])
                /\ walkManagerChain(o, start) = f[MaxChainDepth]
<1>. DEFINE after[depth \in 0..MaxChainDepth] ==
              IF depth = 0 THEN Beginning(start) ELSE climb(o, after[depth - 1])
<1>1. MaxChainDepth \in Nat
  BY ChainConstants
<1>2. walkManagerChain(o, start) = after[MaxChainDepth]
  BY Zenon DEF walkManagerChain, Beginning
<1>3. \E f : IsLoop(f, o, start, MaxChainDepth)
  BY <1>1, LoopExists
<1>4. after = [depth \in 0..MaxChainDepth |->
                 IF depth = 0 THEN Beginning(start) ELSE climb(o, after[depth - 1])]
  BY <1>3, Zenon DEF IsLoop
<1>. HIDE DEF after
<1>5. after[0] = Beginning(start)
  BY <1>1, <1>4
<1>6. \A d \in 1..MaxChainDepth : after[d] = climb(o, after[d - 1])
  BY <1>1, <1>4
<1>. QED
  BY <1>2, <1>5, <1>6

(***************************************************************************)
(* One iteration.                                                            *)
(***************************************************************************)
Walk == [cursor : User, seen : SUBSET User, sequentialApprovers : Seq(User),
         finalAnchor : User \cup {NoUser}, ended : BOOLEAN]

Above(o, w) == findPrimaryManagerId(o, w.cursor)
Signs(person) == person.isActive /\ ~isFinalRole(person)
Tops(person) == person.isActive /\ isFinalRole(person)

LEMMA ManagerType ==
  ASSUME NEW o \in [User -> Person], NEW u \in User
  PROVE  findPrimaryManagerId(o, u) \in User \cup {NoUser}
<1>1. /\ o[u].managerId \in User \cup {NoUser} /\ o[u].primary \subseteq User
      /\ o[u].rows \in Seq(User)
  BY DEF Person
<1>2. o[u].primary # {} => primaryRow(o, u) \in o[u].primary
  BY DEF primaryRow
<1>3. o[u].rows # <<>> => o[u].rows[1] \in User
  BY <1>1
<1>. QED
  BY <1>1, <1>2, <1>3 DEF findPrimaryManagerId

\* The climb ends, passes an inactive manager, ends at an anchor or takes an approver.
Outcome(o, w, next, v) ==
  \/ /\ w.ended \/ next = NoUser \/ next \in w.seen
     /\ v.ended /\ v.cursor = w.cursor /\ v.seen = w.seen
     /\ v.sequentialApprovers = w.sequentialApprovers /\ v.finalAnchor = w.finalAnchor
  \/ /\ ~w.ended /\ next \in User \ w.seen /\ ~o[next].isActive
     /\ ~v.ended /\ v.cursor = next /\ v.seen = w.seen \cup {next}
     /\ v.sequentialApprovers = w.sequentialApprovers /\ v.finalAnchor = w.finalAnchor
  \/ /\ ~w.ended /\ next \in User \ w.seen /\ Tops(o[next])
     /\ v.ended /\ v.cursor = w.cursor /\ v.seen = w.seen \cup {next}
     /\ v.sequentialApprovers = w.sequentialApprovers /\ v.finalAnchor = next
  \/ /\ ~w.ended /\ next \in User \ w.seen /\ Signs(o[next])
     /\ ~v.ended /\ v.cursor = next /\ v.seen = w.seen \cup {next}
     /\ v.sequentialApprovers = Append(w.sequentialApprovers, next)
     /\ v.finalAnchor = w.finalAnchor

LEMMA ClimbOutcome ==
  ASSUME NEW o \in [User -> Person], NEW w \in Walk
  PROVE  climb(o, w) \in Walk /\ Outcome(o, w, Above(o, w), climb(o, w))
<1>. SUFFICES ASSUME NEW next, next = Above(o, w), NEW v, v = climb(o, w)
              PROVE  v \in Walk /\ Outcome(o, w, next, v)
  OBVIOUS
<1>0. next \in User \cup {NoUser}
  BY ManagerType DEF Above, Walk
<1>1. CASE w.ended \/ next = NoUser \/ next \in w.seen
  <2>1. v = [w EXCEPT !.ended = TRUE]
    BY <1>1 DEF climb, Above
  <2>. QED
    BY <1>1, <2>1 DEF Walk, Outcome
<1>2. CASE ~(w.ended \/ next = NoUser \/ next \in w.seen)
  <2>0. next \in User \ w.seen /\ ~w.ended /\ w.seen \cup {next} \in SUBSET User
    BY <1>0, <1>2 DEF Walk
  <2>1. CASE ~o[next].isActive
    <3>1. v = [w EXCEPT !.seen = w.seen \cup {next}, !.cursor = next]
      BY <1>2, <2>1 DEF climb, Above, Walk
    <3>. QED
      BY <2>0, <2>1, <3>1 DEF Walk, Outcome
  <2>2. CASE Tops(o[next])
    <3>1. v = [w EXCEPT !.seen = w.seen \cup {next}, !.finalAnchor = next, !.ended = TRUE]
      BY <1>2, <2>2 DEF climb, Above, Tops, Walk
    <3>. QED
      BY <2>0, <2>2, <3>1 DEF Walk, Outcome
  <2>3. CASE Signs(o[next])
    <3>1. v = [w EXCEPT !.seen = w.seen \cup {next}, !.cursor = next,
                        !.sequentialApprovers = Append(w.sequentialApprovers, next)]
      BY <1>2, <2>3 DEF climb, Above, Signs, Walk
    <3>2. Append(w.sequentialApprovers, next) \in Seq(User)
      BY <2>0 DEF Walk
    <3>. QED
      BY <2>0, <2>3, <3>1, <3>2 DEF Walk, Outcome
  <2>. QED
    BY <2>1, <2>2, <2>3 DEF Tops, Signs
<1>. QED
  BY <1>1, <1>2

(***************************************************************************)
(* What holds along a walk holds of its outcome.                              *)
(***************************************************************************)
LEMMA AlongWalk ==
  ASSUME NEW o, NEW start, NEW S, <<0, Beginning(start)>> \in S,
         ASSUME NEW d \in 0..(MaxChainDepth - 1), NEW w, <<d, w>> \in S
         PROVE  <<d + 1, climb(o, w)>> \in S
  PROVE  <<MaxChainDepth, walkManagerChain(o, start)>> \in S
<1>1. PICK f : /\ f[0] = Beginning(start)
               /\ \A d \in 1..MaxChainDepth : f[d] = climb(o, f[d - 1])
               /\ walkManagerChain(o, start) = f[MaxChainDepth]
  BY WalkSteps
<1>2. MaxChainDepth \in Nat
  BY ChainConstants
<1>. DEFINE D == {d \in Nat : d <= MaxChainDepth => <<d, f[d]>> \in S}
<1>3. 0 \in D
  BY <1>1
<1>4. ASSUME NEW d \in Nat, d \in D PROVE d + 1 \in D
  <2>1. CASE d + 1 <= MaxChainDepth
    <3>1. d \in 0..(MaxChainDepth - 1) /\ <<d, f[d]>> \in S /\ f[d + 1] = climb(o, f[d])
      BY <1>1, <1>2, <1>4, <2>1
    <3>. QED
      BY <3>1
  <2>. QED
    BY <2>1
<1>. HIDE DEF D
<1>5. MaxChainDepth \in D
  BY <1>2, <1>3, <1>4, Induction
<1>. QED
  BY <1>1, <1>2, <1>5 DEF D

LEMMA AlongTwoWalks ==
  ASSUME NEW o, NEW q, NEW start, NEW S, <<Beginning(start), Beginning(start)>> \in S,
         ASSUME NEW w, NEW v, <<w, v>> \in S
         PROVE  <<climb(o, w), climb(q, v)>> \in S
  PROVE  <<walkManagerChain(o, start), walkManagerChain(q, start)>> \in S
<1>1. PICK f : /\ f[0] = Beginning(start)
               /\ \A d \in 1..MaxChainDepth : f[d] = climb(o, f[d - 1])
               /\ walkManagerChain(o, start) = f[MaxChainDepth]
  BY WalkSteps
<1>2. PICK g : /\ g[0] = Beginning(start)
               /\ \A d \in 1..MaxChainDepth : g[d] = climb(q, g[d - 1])
               /\ walkManagerChain(q, start) = g[MaxChainDepth]
  BY WalkSteps
<1>3. MaxChainDepth \in Nat
  BY ChainConstants
<1>. DEFINE D == {d \in Nat : d <= MaxChainDepth => <<f[d], g[d]>> \in S}
<1>4. 0 \in D
  BY <1>1, <1>2
<1>5. ASSUME NEW d \in Nat, d \in D PROVE d + 1 \in D
  <2>1. CASE d + 1 <= MaxChainDepth
    <3>1. <<f[d], g[d]>> \in S /\ f[d + 1] = climb(o, f[d]) /\ g[d + 1] = climb(q, g[d])
      BY <1>1, <1>2, <1>3, <1>5, <2>1
    <3>. QED
      BY <3>1
  <2>. QED
    BY <2>1
<1>. HIDE DEF D
<1>6. MaxChainDepth \in D
  BY <1>3, <1>4, <1>5, Induction
<1>. QED
  BY <1>1, <1>2, <1>3, <1>6 DEF D

\* The approvers were seen, are others than the submitter, active and of no final role, and
\* nobody is among them twice; an anchor ends the walk.
WalkFacts(o, start, w) ==
  /\ start \in w.seen /\ w.cursor \in w.seen
  /\ \A i \in DOMAIN w.sequentialApprovers :
       /\ w.sequentialApprovers[i] \in w.seen \ {start}
       /\ Signs(o[w.sequentialApprovers[i]])
  /\ \A i, j \in DOMAIN w.sequentialApprovers :
       w.sequentialApprovers[i] = w.sequentialApprovers[j] => i = j
  /\ w.finalAnchor # NoUser => w.ended

LEMMA BeginningFacts ==
  ASSUME NEW o \in [User -> Person], NEW start \in User
  PROVE  Beginning(start) \in Walk /\ WalkFacts(o, start, Beginning(start))
BY DEF Beginning, Walk, WalkFacts

LEMMA ClimbFacts ==
  ASSUME NEW o \in [User -> Person], NEW start \in User, NEW w \in Walk,
         WalkFacts(o, start, w)
  PROVE  climb(o, w) \in Walk /\ WalkFacts(o, start, climb(o, w))
<1>. SUFFICES ASSUME NEW next, next = Above(o, w), NEW v, v = climb(o, w)
              PROVE  v \in Walk /\ WalkFacts(o, start, v)
  OBVIOUS
<1>1. v \in Walk /\ Outcome(o, w, next, v)
  BY ClimbOutcome
<1>2. CASE v.sequentialApprovers = w.sequentialApprovers
  BY <1>1, <1>2, NoUserAssumption DEF Outcome, WalkFacts, Walk
<1>3. CASE /\ v.sequentialApprovers = Append(w.sequentialApprovers, next)
           /\ v.seen = w.seen \cup {next} /\ v.cursor = next /\ v.finalAnchor = w.finalAnchor
           /\ ~w.ended /\ next \in User \ w.seen /\ Signs(o[next])
  <2>1. w.sequentialApprovers \in Seq(User)
    BY DEF Walk
  <2>. QED
    BY <1>1, <1>3, <2>1 DEF WalkFacts
<1>. QED
  BY <1>1, <1>2, <1>3 DEF Outcome

LEMMA WalkSound ==
  ASSUME NEW o \in [User -> Person], NEW start \in User
  PROVE  /\ walkManagerChain(o, start) \in Walk
         /\ WalkFacts(o, start, walkManagerChain(o, start))
<1>. DEFINE S == {x \in Nat \X Walk : WalkFacts(o, start, x[2])}
<1>1. <<0, Beginning(start)>> \in S
  BY BeginningFacts
<1>2. ASSUME NEW d \in 0..(MaxChainDepth - 1), NEW w, <<d, w>> \in S
      PROVE  <<d + 1, climb(o, w)>> \in S
  BY <1>2, ClimbFacts
<1>. HIDE DEF S
<1>3. <<MaxChainDepth, walkManagerChain(o, start)>> \in S
  BY <1>1, <1>2, AlongWalk
<1>. QED
  BY <1>3 DEF S

(***************************************************************************)
(* The final stage.                                                          *)
(***************************************************************************)
StrictOrder(R, T) ==
  /\ \A u \in T : <<u, u>> \notin R
  /\ \A u, v, x \in T : <<u, v>> \in R /\ <<v, x>> \in R => <<u, x>> \in R
  /\ \A u, v \in T : u # v => <<u, v>> \in R \/ <<v, u>> \in R

\* A finite set with a strict total order can be listed in that order: everybody's place is
\* the number of those before.
LEMMA Listing ==
  ASSUME NEW T, IsFiniteSet(T), NEW R, StrictOrder(R, T)
  PROVE  \E s \in [1..Cardinality(T) -> T] : \A i, j \in DOMAIN s : i < j => <<s[i], s[j]>> \in R
<1>. DEFINE n == Cardinality(T)
            before(u) == {v \in T : <<v, u>> \in R}
            rank == [u \in T |-> Cardinality(before(u)) + 1]
<1>1. n \in Nat
  BY FS_CardinalityType
<1>2. ASSUME NEW u \in T
      PROVE  IsFiniteSet(before(u)) /\ Cardinality(before(u)) \in Nat /\ rank[u] \in 1..n
  <2>1. before(u) \in SUBSET T /\ before(u) # T
    BY DEF StrictOrder
  <2>2. /\ IsFiniteSet(before(u)) /\ Cardinality(before(u)) <= n
        /\ Cardinality(before(u)) # n
    BY <2>1, FS_Subset
  <2>3. Cardinality(before(u)) \in Nat
    BY <2>2, FS_CardinalityType
  <2>. HIDE DEF before, n
  <2>. QED
    BY <1>1, <2>2, <2>3
<1>3. ASSUME NEW u \in T, NEW v \in T, <<u, v>> \in R PROVE rank[u] < rank[v]
  <2>1. before(u) \in SUBSET before(v) /\ before(u) # before(v)
    BY <1>3 DEF StrictOrder
  <2>2. Cardinality(before(u)) <= Cardinality(before(v))
        /\ Cardinality(before(u)) # Cardinality(before(v))
    BY <1>2, <2>1, FS_Subset
  <2>3. Cardinality(before(u)) \in Nat /\ Cardinality(before(v)) \in Nat
    BY <1>2
  <2>. HIDE DEF before
  <2>. QED
    BY <2>2, <2>3
<1>4. rank \in [T -> 1..n]
  <2>. HIDE DEF n, before
  <2>. QED
    BY <1>2
<1>. HIDE DEF rank
<1>5. rank \in Surjection(T, 1..n)
  <2>1. \A u, v \in T : rank[u] = rank[v] => u = v
    <3>1. ASSUME NEW u \in T, NEW v \in T, u # v PROVE rank[u] # rank[v]
      <4>1. <<u, v>> \in R \/ <<v, u>> \in R
        BY <3>1 DEF StrictOrder
      <4>2. rank[u] < rank[v] \/ rank[v] < rank[u]
        BY <1>3, <4>1
      <4>3. rank[u] \in Nat /\ rank[v] \in Nat
        <5>. HIDE DEF n, before
        <5>. QED
          BY <1>1, <1>4
      <4>. QED
        BY <4>2, <4>3
    <3>. QED
      BY <3>1
  <2>2. rank \in Injection(T, 1..n)
    BY <1>4, <2>1 DEF Injection, IsInjective
  <2>3. IsFiniteSet(1..n) /\ Cardinality(1..n) = n
    BY <1>1, FS_Interval
  <2>. QED
    BY <2>2, <2>3, FS_Injection
<1>6. \A i \in 1..n : \E u \in T : rank[u] = i
  BY <1>5 DEF Surjection
<1>. DEFINE s == [i \in 1..n |-> CHOOSE u \in T : rank[u] = i]
<1>7. \A i \in 1..n : s[i] \in T /\ rank[s[i]] = i
  BY <1>6
<1>8. s \in [1..n -> T] /\ DOMAIN s = 1..n
  BY <1>7
<1>. HIDE DEF s
<1>9. ASSUME NEW i \in 1..n, NEW j \in 1..n, i < j PROVE <<s[i], s[j]>> \in R
  <2>1. s[i] \in T /\ s[j] \in T /\ s[i] # s[j]
    BY <1>7, <1>9
  <2>2. <<s[j], s[i]>> \notin R
    <3>1. SUFFICES ASSUME <<s[j], s[i]>> \in R PROVE FALSE
      OBVIOUS
    <3>2. rank[s[j]] < rank[s[i]]
      BY <1>3, <2>1, <3>1
    <3>3. rank[s[i]] = i /\ rank[s[j]] = j
      BY <1>7
    <3>. QED
      BY <1>9, <3>2, <3>3
  <2>. QED
    BY <2>1, <2>2 DEF StrictOrder
<1>. QED
  BY <1>8, <1>9

\* The order of the final stage is one.
LEMMA PrecedesOrder ==
  ASSUME NEW o \in [User -> Person], NEW anchor, NEW T \in SUBSET User
  PROVE  StrictOrder({x \in T \X T : precedes(o, anchor, x[1], x[2])}, T)
<1>1. \A u \in User : rankOf(o[u]) \in Nat /\ scanOrder(o[u]) \in Nat /\ createdAt[u] \in Nat
  BY ChainConstants DEF rankOf, scanOrder
<1>2. \A u, v \in User : createdAt[u] = createdAt[v] => u = v
  BY ChainConstants
<1>3. \A u \in User : ~precedes(o, anchor, u, u)
  BY <1>1 DEF precedes
<1>4. \A u, v \in User : u # v => precedes(o, anchor, u, v) \/ precedes(o, anchor, v, u)
  BY <1>1, <1>2 DEF precedes
<1>5. \A u, v, x \in User :
        precedes(o, anchor, u, v) /\ precedes(o, anchor, v, x) => precedes(o, anchor, u, x)
  BY <1>1 DEF precedes
<1>. QED
  BY <1>3, <1>4, <1>5 DEF StrictOrder

\* Its levels are its members, each once, in order.
LEMMA FinalStageListed ==
  ASSUME NEW o \in [User -> Person], NEW start, NEW anchor, NEW out
  PROVE  LET T == finalMembers(o, start, out)
             s == collectFinalStageMembers(o, start, anchor, out)
         IN /\ s \in [1..Cardinality(T) -> T] /\ Cardinality(T) \in Nat
            /\ \A i, j \in DOMAIN s : i < j => precedes(o, anchor, s[i], s[j])
            /\ \A i, j \in DOMAIN s : s[i] = s[j] => i = j
<1>. SUFFICES ASSUME NEW T, T = finalMembers(o, start, out),
                     NEW s, s = collectFinalStageMembers(o, start, anchor, out)
              PROVE  /\ s \in [1..Cardinality(T) -> T] /\ Cardinality(T) \in Nat
                     /\ \A i, j \in DOMAIN s : i < j => precedes(o, anchor, s[i], s[j])
                     /\ \A i, j \in DOMAIN s : s[i] = s[j] => i = j
  OBVIOUS
<1>. DEFINE R == {x \in T \X T : precedes(o, anchor, x[1], x[2])}
<1>1. T \in SUBSET User
  BY DEF finalMembers, Active
<1>2. IsFiniteSet(T) /\ Cardinality(T) \in Nat
  BY <1>1, ChainConstants, FS_Subset, FS_CardinalityType
<1>3. StrictOrder(R, T)
  BY <1>1, PrecedesOrder
<1>. HIDE DEF R
<1>4. PICK r \in [1..Cardinality(T) -> T] : \A i, j \in DOMAIN r : i < j => <<r[i], r[j]>> \in R
  BY <1>2, <1>3, Listing
<1>5. \A i, j \in DOMAIN r : i < j => precedes(o, anchor, r[i], r[j])
  BY <1>4 DEF R
<1>6. /\ s \in [1..Cardinality(T) -> T]
      /\ \A i, j \in DOMAIN s : i < j => precedes(o, anchor, s[i], s[j])
  BY <1>4, <1>5, Zenon DEF collectFinalStageMembers
<1>7. ASSUME NEW i \in DOMAIN s, NEW j \in DOMAIN s, s[i] = s[j] PROVE i = j
  <2>1. \A u \in T : ~precedes(o, anchor, u, u)
    BY <1>3 DEF StrictOrder, R
  <2>2. i \in 1..Cardinality(T) /\ j \in 1..Cardinality(T) /\ s[i] \in T
    BY <1>6, <1>7
  <2>3. ~(i < j) /\ ~(j < i)
    BY <1>6, <1>7, <2>1, <2>2
  <2>. QED
    BY <1>2, <2>2, <2>3
<1>. QED
  BY <1>2, <1>6, <1>7

\* Nobody is left to fall back to when the final stage has no members: whoever the fallback
\* would find has a final role, and no sequential approver has.
LEMMA FinalStage ==
  ASSUME NEW o \in [User -> Person], NEW start \in User
  PROVE  LET walk == walkManagerChain(o, start)
             out == ToSet(walk.sequentialApprovers)
         IN finalStage(o, start) = collectFinalStageMembers(o, start, walk.finalAnchor, out)
<1>. SUFFICES ASSUME NEW walk, walk = walkManagerChain(o, start),
                     NEW out, out = ToSet(walk.sequentialApprovers),
                     NEW s, s = collectFinalStageMembers(o, start, walk.finalAnchor, out)
              PROVE  finalStage(o, start) = s
  OBVIOUS
<1>1. walk \in Walk /\ WalkFacts(o, start, walk)
  BY WalkSound
<1>2. \A u \in out : Signs(o[u])
  BY <1>1 DEF WalkFacts, Walk, ToSet
<1>. DEFINE T == finalMembers(o, start, out)
            rank == rankOf(o[start]) + 1
            fallback == findFallbackTopApprover(o, {start}, rank)
<1>3. s \in [1..Cardinality(T) -> T] /\ Cardinality(T) \in Nat
  BY FinalStageListed
<1>4. CASE s = <<>>
  <2>1. T = {}
    <3>1. Cardinality(T) = 0
      <4>. HIDE DEF T
      <4>. QED
        BY <1>3, <1>4
    <3>2. IsFiniteSet(T)
      BY ChainConstants, FS_Subset DEF finalMembers, Active
    <3>. QED
      BY <3>1, <3>2, FS_EmptySet
  <2>2. \A u \in Active(o) \ {start} : ~isFinalRole(o[u])
    BY <1>2, <2>1 DEF finalMembers, Signs
  <2>3. fallback = NoUser
    BY <2>2 DEF findFallbackTopApprover, isFinalRole
  <2>. QED
    BY <2>3 DEF finalStage
<1>5. CASE s # <<>>
  BY <1>5 DEF finalStage
<1>. QED
  BY <1>4, <1>5

\* The parts a chain is made of: the sequential approvers and the members of the final stage.
Assembled(start, n, m, sequential, final) ==
  [level \in 0..(n + m) |->
     IF level = 0 THEN [stage |-> 0, userId |-> start]
     ELSE IF level <= n THEN [stage |-> level, userId |-> sequential[level]]
     ELSE [stage |-> n + 1, userId |-> final[level - n]]]

ArePartsOf(o, start, n, m, sequential, final) ==
  /\ n \in Nat /\ sequential \in [1..n -> User] /\ m \in Nat /\ final \in [1..m -> User]
  /\ \A i \in 1..n : sequential[i] # start /\ Signs(o[sequential[i]])
  /\ \A i \in 1..m : final[i] # start /\ Tops(o[final[i]])
  /\ \A i, j \in 1..n : sequential[i] = sequential[j] => i = j
  /\ \A i, j \in 1..m : final[i] = final[j] => i = j

LEMMA ChainParts ==
  ASSUME NEW o \in [User -> Person], NEW start \in User
  PROVE  \E n, m, sequential, final :
           /\ ArePartsOf(o, start, n, m, sequential, final)
           /\ deriveChain(o, start) = Assembled(start, n, m, sequential, final)
<1>. DEFINE walk == walkManagerChain(o, start)
            sequential == walk.sequentialApprovers
            out == ToSet(sequential)
            final == finalStage(o, start)
            T == finalMembers(o, start, out)
            n == Len(sequential)
            m == Cardinality(T)
<1>1. walk \in Walk /\ WalkFacts(o, start, walk)
  BY WalkSound
<1>2. /\ n \in Nat /\ sequential \in [1..n -> User] /\ DOMAIN sequential = 1..n
  BY <1>1 DEF Walk
<1>3. /\ \A i \in 1..n : sequential[i] # start /\ Signs(o[sequential[i]])
      /\ \A i, j \in 1..n : sequential[i] = sequential[j] => i = j
  <2>. HIDE DEF walk
  <2>. QED
    BY <1>1, <1>2 DEF WalkFacts
<1>4. /\ final \in [1..m -> T] /\ m \in Nat
      /\ \A i, j \in DOMAIN final : final[i] = final[j] => i = j
  BY FinalStageListed, FinalStage
<1>5. \A u \in T : u \in User /\ u # start /\ Tops(o[u])
  BY DEF finalMembers, Active, Tops
<1>6. /\ final \in [1..m -> User] /\ Len(final) = m
      /\ \A i \in 1..m : final[i] # start /\ Tops(o[final[i]])
      /\ \A i, j \in 1..m : final[i] = final[j] => i = j
  <2>. HIDE DEF final, m, T
  <2>. QED
    BY <1>4, <1>5
<1>7. deriveChain(o, start) = Assembled(start, n, m, sequential, final)
  <2>1. deriveChain(o, start) = Assembled(start, n, Len(final), sequential, final)
    BY Zenon DEF deriveChain, Assembled
  <2>. QED
    BY <1>6, <2>1
<1>8. ArePartsOf(o, start, n, m, sequential, final)
  <2>. HIDE DEF n, m, sequential, final
  <2>. QED
    BY <1>2, <1>3, <1>4, <1>6 DEF ArePartsOf
<1>. HIDE DEF n, m, sequential, final
<1>. QED
  BY <1>7, <1>8

\* What ApprovalFlow assumes of the chains it is given: the derivation delivers it.
LEMMA DerivedIsChain ==
  ASSUME NEW o \in [User -> Person], NEW start \in User
  PROVE  IsChain(deriveChain(o, start), start)
<1>. SUFFICES ASSUME NEW n, NEW m, NEW sequential, NEW final,
                     ArePartsOf(o, start, n, m, sequential, final),
                     NEW c, c = Assembled(start, n, m, sequential, final)
              PROVE  IsChain(c, start)
  BY ChainParts
<1>1. n \in Nat /\ m \in Nat /\ sequential \in [1..n -> User] /\ final \in [1..m -> User]
  BY DEF ArePartsOf
<1>. DEFINE N == n + m
<1>0. N \in Nat /\ N = n + m /\ n <= N
  BY <1>1
<1>2. DOMAIN c = 0..N /\ Cardinality(DOMAIN c) - 1 = N /\ N \in Nat
  <2>1. DOMAIN c = 0..N
    BY DEF Assembled
  <2>2. Cardinality(0..N) = N + 1
    BY <1>1, FS_Interval
  <2>. QED
    BY <1>1, <2>1, <2>2
<1>3. /\ c[0] = [stage |-> 0, userId |-> start]
      /\ \A l \in 1..n : c[l].stage = l /\ c[l].userId = sequential[l]
      /\ \A l \in (n + 1)..N :
           c[l].stage = n + 1 /\ c[l].userId = final[l - n] /\ l - n \in 1..m
  BY <1>1 DEF Assembled
<1>4. \A l \in 1..N : l \in 1..n \/ l \in (n + 1)..N
  BY <1>0, <1>1
<1>5. c = [l \in 0..N |-> c[l]]
  BY <1>2 DEF Assembled
<1>. HIDE DEF N
<1>6. c \in [0..N -> [stage : Nat, userId : User]]
  <2>1. ASSUME NEW l \in 0..N PROVE c[l] \in [stage : Nat, userId : User]
    <3>1. l = 0 \/ l \in 1..n \/ l \in (n + 1)..N
      BY <1>2, <1>4
    <3>2. c[l] = [stage |-> c[l].stage, userId |-> c[l].userId]
      BY <1>0, <1>1 DEF Assembled
    <3>3. c[l].stage \in Nat /\ c[l].userId \in User
      BY <1>0, <1>1, <1>3, <3>1
    <3>. QED
      BY <3>2, <3>3
  <2>. QED
    BY <1>5, <2>1
<1>7. \A l \in 1..N : c[l].stage \in 1..N /\ c[l].userId # start
  <2>1. ASSUME NEW l \in 1..n PROVE c[l].stage \in 1..N /\ c[l].userId # start
    BY <1>0, <1>1, <1>3 DEF ArePartsOf
  <2>2. ASSUME NEW l \in (n + 1)..N PROVE c[l].stage \in 1..N /\ c[l].userId # start
    BY <1>0, <1>1, <1>3 DEF ArePartsOf
  <2>. QED
    BY <1>4, <2>1, <2>2
<1>8. ASSUME NEW k \in 1..N, NEW l \in 1..N, c[k].userId = c[l].userId PROVE k = l
  <2>1. \A i \in 1..n, j \in 1..m : sequential[i] # final[j]
    BY DEF ArePartsOf, Signs, Tops
  <2>2. CASE k \in 1..n /\ l \in 1..n
    BY <1>0, <1>1, <1>3, <1>8, <2>2 DEF ArePartsOf
  <2>3. CASE k \in (n + 1)..N /\ l \in (n + 1)..N
    <3>1. final[k - n] = final[l - n] /\ k - n \in 1..m /\ l - n \in 1..m
      BY <1>0, <1>1, <1>3, <1>8, <2>3
    <3>2. k - n = l - n
      BY <3>1 DEF ArePartsOf
    <3>. QED
      BY <1>1, <3>2
  <2>. QED
    BY <1>0, <1>1, <1>3, <1>4, <1>8, <2>1, <2>2, <2>3
<1>9. ASSUME NEW l \in 1..N, NEW s \in 1..c[l].stage PROVE \E k \in 1..N : c[k].stage = s
  <2>1. CASE s \in 1..n
    <3>1. s \in 1..N /\ c[s].stage = s
      BY <1>0, <1>1, <1>3, <2>1
    <3>. QED
      BY <3>1
  <2>2. CASE s \notin 1..n
    <3>1. l \in (n + 1)..N /\ c[l].stage = n + 1 /\ s = n + 1
      BY <1>0, <1>1, <1>3, <1>4, <2>2
    <3>. QED
      BY <3>1
  <2>. QED
    BY <2>1, <2>2
<1>10. \A k, l \in 1..N : c[k].userId = c[l].userId => k = l
  BY <1>8
<1>11. \A l \in 1..N : \A s \in 1..c[l].stage : \E k \in 1..N : c[k].stage = s
  BY <1>9
<1>. SUFFICES ASSUME NEW M, M = Cardinality(DOMAIN c) - 1
              PROVE  /\ M \in Nat
                     /\ c \in [0..M -> [stage : Nat, userId : User]]
                     /\ c[0] = [stage |-> 0, userId |-> start]
                     /\ \A l \in 1..M : c[l].stage \in 1..M /\ c[l].userId # start
                     /\ \A k, l \in 1..M : c[k].userId = c[l].userId => k = l
                     /\ \A l \in 1..M : \A s \in 1..c[l].stage : \E k \in 1..M : c[k].stage = s
  BY Zenon DEF IsChain
<1>12. M = N /\ N \in Nat
  BY <1>2
<1>. QED
  BY <1>3, <1>6, <1>7, <1>10, <1>11, <1>12, Zenon

\* Stages grow with the levels without gaps.
LEMMA StagesGrow ==
  ASSUME NEW o \in [User -> Person], NEW start \in User,
         NEW l \in DOMAIN deriveChain(o, start) \ {0}
  PROVE  /\ deriveChain(o, start)[l].stage - deriveChain(o, start)[l - 1].stage \in 0..1
         /\ deriveChain(o, start)[l].stage > 0
<1>1. PICK n, m, sequential, final :
           /\ ArePartsOf(o, start, n, m, sequential, final)
           /\ deriveChain(o, start) = Assembled(start, n, m, sequential, final)
  BY ChainParts
<1>2. n \in Nat /\ m \in Nat
  BY <1>1 DEF ArePartsOf
<1>. DEFINE c == deriveChain(o, start)
<1>3. l \in 1..(n + m) /\ l - 1 \in 0..(n + m)
  BY <1>1, <1>2 DEF Assembled
<1>4. \A k \in 0..(n + m) : c[k].stage = IF k <= n THEN k ELSE n + 1
  BY <1>1, <1>2 DEF Assembled
<1>. HIDE DEF c
<1>5. c[l].stage - c[l - 1].stage \in 0..1 /\ c[l].stage > 0
  BY <1>2, <1>3, <1>4
<1>. QED
  BY <1>5 DEF c

(***************************************************************************)
(* Organisations.                                                            *)
(***************************************************************************)
OrgType == org \in [User -> Person]

LEMMA ToggleType ==
  ASSUME OrgType, NEW u \in User, toggle(u)
  PROVE  OrgType'
<1>1. [org[u] EXCEPT !.isActive = ~@] \in Person
  BY DEF OrgType, Person
<1>. QED
  BY <1>1 DEF OrgType, toggle

LEMMA OrgTypeCorrect == Spec => []OrgType
<1>1. Init => OrgType
  BY PeopleAssumption DEF Init, OrgType
<1>2. OrgType /\ [Next]_org => OrgType'
  BY ToggleType DEF Next, OrgType
<1>. QED
  BY <1>1, <1>2, PTL DEF Spec

(* Every chain of every organisation is well formed: whatever cycles the chart   *)
(* has, whoever is deactivated in it and wherever MAX_CHAIN_DEPTH cuts the climb. *)
THEOREM ChainsWellFormed == Spec => []ChainWellFormed
<1>1. OrgType => ChainWellFormed
  <2>. SUFFICES ASSUME OrgType, NEW s \in Active(org), NEW c, c = deriveChain(org, s)
                PROVE  /\ c[0] = [stage |-> 0, userId |-> s]
                       /\ \A k, l \in DOMAIN c : c[k].userId = c[l].userId => k = l
                       /\ \A l \in DOMAIN c \ {0} :
                            c[l].stage - c[l - 1].stage \in 0..1 /\ c[l].stage > 0
    BY DEF ChainWellFormed
  <2>1. s \in User /\ org \in [User -> Person]
    BY DEF Active, OrgType
  <2>2. IsChain(c, s)
    BY <2>1, DerivedIsChain
  <2>. DEFINE n == Cardinality(DOMAIN c) - 1
  <2>3. n \in Nat /\ DOMAIN c = 0..n /\ c[0] = [stage |-> 0, userId |-> s]
    BY <2>2 DEF IsChain
  <2>4. /\ \A l \in 1..n : c[l].userId # s
        /\ \A k, l \in 1..n : c[k].userId = c[l].userId => k = l
    BY <2>2 DEF IsChain
  <2>. HIDE DEF n
  <2>5. ASSUME NEW k \in DOMAIN c, NEW l \in DOMAIN c, c[k].userId = c[l].userId
        PROVE  k = l
    <3>1. c[0].userId = s
      BY <2>3
    <3>2. (k = 0 \/ k \in 1..n) /\ (l = 0 \/ l \in 1..n)
      BY <2>3
    <3>. QED
      BY <2>4, <2>5, <3>1, <3>2
  <2>6. \A l \in DOMAIN c \ {0} : c[l].stage - c[l - 1].stage \in 0..1 /\ c[l].stage > 0
    BY <2>1, StagesGrow
  <2>. QED
    BY <2>3, <2>5, <2>6
<1>. QED
  BY <1>1, OrgTypeCorrect, PTL

(* ApprovalFlow assumes of its chains what IsChain says (ChainAssumption).  The   *)
(* derivation keeps the assumption for every chart and all profiles, so the       *)
(* theorems about the cycle hold of the cycle with the real derivation.          *)
THEOREM AssumptionDelivered ==
  ASSUME NEW place \in [User -> [managerId : User \cup {NoUser}, rows : Seq(User),
                                 primary : SUBSET User]]
  PROVE  \A profiles \in [User -> [role : {"member", "assistant_manager", "manager", "admin"},
                                   isSuperAdmin : BOOLEAN, isActive : BOOLEAN]], u \in User :
           IsChain(deriveChainFor(place, profiles, u), u)
<1>. SUFFICES ASSUME NEW profiles \in [User -> [role : {"member", "assistant_manager", "manager",
                                                       "admin"},
                                               isSuperAdmin : BOOLEAN, isActive : BOOLEAN]],
                     NEW u \in User
              PROVE  IsChain(deriveChainFor(place, profiles, u), u)
  OBVIOUS
<1>1. withProfiles(place, profiles) \in [User -> Person]
  BY DEF withProfiles, Person
<1>. QED
  BY <1>1, DerivedIsChain DEF deriveChainFor

(***************************************************************************)
(* Sequences without the elements of a set.                                   *)
(***************************************************************************)
IsFilter(f, s, gone, n) ==
  f = [i \in 0..n |-> IF i = 0 THEN <<>>
                     ELSE IF s[i] \in gone THEN f[i - 1] ELSE Append(f[i - 1], s[i])]

LEMMA FilterExists ==
  ASSUME NEW s, NEW gone, NEW n \in Nat
  PROVE  \E f : IsFilter(f, s, gone, n)
<1>. DEFINE S == {m \in Nat : \E f : IsFilter(f, s, gone, m)}
<1>1. 0 \in S
  <2>. DEFINE f == [i \in 0..0 |-> <<>>]
  <2>1. IsFilter(f, s, gone, 0)
    BY DEF IsFilter
  <2>. QED
    BY <2>1
<1>2. ASSUME NEW m \in Nat, m \in S PROVE m + 1 \in S
  <2>1. PICK f : IsFilter(f, s, gone, m)
    BY <1>2
  <2>. DEFINE next(p, i) == IF s[i] \in gone THEN p[i - 1] ELSE Append(p[i - 1], s[i])
              g == [i \in 0..(m + 1) |-> IF i = m + 1 THEN next(f, m + 1) ELSE f[i]]
              h == [i \in 0..(m + 1) |-> IF i = 0 THEN <<>> ELSE next(g, i)]
  <2>2. ASSUME NEW i \in 0..(m + 1) PROVE g[i] = h[i]
    <3>1. CASE i = 0
      BY <2>1, <3>1 DEF IsFilter
    <3>2. CASE i \in 1..m
      <4>1. i \in 0..m /\ i - 1 \in 0..m /\ i # 0 /\ i # m + 1 /\ i - 1 # m + 1
        BY <3>2
      <4>2. g[i] = f[i] /\ g[i - 1] = f[i - 1]
        BY <4>1
      <4>3. f[i] = IF s[i] \in gone THEN f[i - 1] ELSE Append(f[i - 1], s[i])
        BY <2>1, <4>1, Zenon DEF IsFilter
      <4>4. h[i] = IF s[i] \in gone THEN g[i - 1] ELSE Append(g[i - 1], s[i])
        BY <4>1, Zenon
      <4>. QED
        BY <4>2, <4>3, <4>4, Zenon
    <3>3. CASE i = m + 1
      BY <3>3
    <3>. QED
      BY <3>1, <3>2, <3>3
  <2>3. g = h
    BY <2>2
  <2>4. IsFilter(g, s, gone, m + 1)
    BY <2>3, Zenon DEF IsFilter
  <2>. QED
    BY <2>4
<1>. HIDE DEF S
<1>3. Nat \subseteq S
  BY <1>1, <1>2, Induction
<1>. QED
  BY <1>3 DEF S

Filters(f, s, gone) ==
  /\ f[0] = <<>>
  /\ \A i \in 1..Len(s) : f[i] = IF s[i] \in gone THEN f[i - 1] ELSE Append(f[i - 1], s[i])
  /\ Without(s, gone) = f[Len(s)]

LEMMA FilterSteps ==
  ASSUME NEW T, NEW s \in Seq(T), NEW gone
  PROVE  \E f : Filters(f, s, gone)
<1>. DEFINE kept[i \in 0..Len(s)] ==
              IF i = 0 THEN <<>>
              ELSE IF s[i] \in gone THEN kept[i - 1] ELSE Append(kept[i - 1], s[i])
<1>1. Len(s) \in Nat
  OBVIOUS
<1>2. Without(s, gone) = kept[Len(s)]
  BY Zenon DEF Without
<1>3. \E f : IsFilter(f, s, gone, Len(s))
  BY <1>1, FilterExists
<1>4. kept = [i \in 0..Len(s) |-> IF i = 0 THEN <<>>
                ELSE IF s[i] \in gone THEN kept[i - 1] ELSE Append(kept[i - 1], s[i])]
  BY <1>3, Zenon DEF IsFilter
<1>. HIDE DEF kept
<1>5. kept[0] = <<>>
  BY <1>1, <1>4
<1>6. \A i \in 1..Len(s) :
        kept[i] = IF s[i] \in gone THEN kept[i - 1] ELSE Append(kept[i - 1], s[i])
  <2>. TAKE i \in 1..Len(s)
  <2>1. i \in 0..Len(s) /\ i # 0
    BY <1>1
  <2>. QED
    BY <1>4, <2>1, Zenon
<1>. QED
  BY <1>2, <1>5, <1>6 DEF Filters

LEMMA WithoutEmpty == ASSUME NEW gone PROVE Without(<<>>, gone) = <<>>
<1>1. <<>> \in Seq({}) /\ Len(<<>>) = 0
  OBVIOUS
<1>2. PICK f : Filters(f, <<>>, gone)
  BY <1>1, FilterSteps, Zenon
<1>. QED
  BY <1>1, <1>2, Zenon DEF Filters

LEMMA WithoutAppend ==
  ASSUME NEW T, NEW s \in Seq(T), NEW x \in T, NEW gone
  PROVE  Without(Append(s, x), gone)
           = IF x \in gone THEN Without(s, gone) ELSE Append(Without(s, gone), x)
<1>. DEFINE t == Append(s, x)
            n == Len(s)
<1>1. /\ t \in Seq(T) /\ n \in Nat /\ Len(t) = n + 1 /\ t[n + 1] = x
      /\ \A i \in 1..n : t[i] = s[i]
  OBVIOUS
<1>2. PICK f : Filters(f, s, gone)
  BY FilterSteps
<1>. HIDE DEF t
<1>3. PICK g : Filters(g, t, gone)
  BY <1>1, FilterSteps
<1>. DEFINE S == {i \in Nat : i <= n => f[i] = g[i]}
<1>4. 0 \in S
  BY <1>2, <1>3 DEF Filters
<1>5. ASSUME NEW i \in Nat, i \in S PROVE i + 1 \in S
  <2>1. CASE i + 1 <= n
    <3>1. i + 1 \in 1..n /\ i + 1 \in 1..Len(t) /\ (i + 1) - 1 = i /\ f[i] = g[i]
      BY <1>1, <1>5, <2>1
    <3>2. f[i + 1] = IF s[i + 1] \in gone THEN f[i] ELSE Append(f[i], s[i + 1])
      BY <1>2, <3>1 DEF Filters
    <3>3. g[i + 1] = IF t[i + 1] \in gone THEN g[i] ELSE Append(g[i], t[i + 1])
      BY <1>3, <3>1 DEF Filters
    <3>. QED
      BY <1>1, <3>1, <3>2, <3>3
  <2>. QED
    BY <2>1
<1>. HIDE DEF S
<1>6. n \in S
  BY <1>1, <1>4, <1>5, Induction
<1>7. f[n] = g[n]
  BY <1>1, <1>6 DEF S
<1>8. g[n + 1] = IF x \in gone THEN g[n] ELSE Append(g[n], x)
  <2>1. n + 1 \in 1..Len(t) /\ (n + 1) - 1 = n
    BY <1>1
  <2>. QED
    BY <1>1, <1>3, <2>1 DEF Filters
<1>. QED
  BY <1>1, <1>2, <1>3, <1>7, <1>8 DEF t, Filters

\* Induction on sequences that grow at the end.
LEMMA AppendInduction ==
  ASSUME NEW T, NEW S, <<>> \in S,
         \A s \in Seq(T), x \in T : s \in S => Append(s, x) \in S
  PROVE  Seq(T) \subseteq S
<1>. DEFINE D == {n \in Nat : \A s \in Seq(T) : Len(s) = n => s \in S}
<1>1. 0 \in D
  OBVIOUS
<1>2. ASSUME NEW n \in Nat, n \in D PROVE n + 1 \in D
  <2>1. ASSUME NEW s \in Seq(T), Len(s) = n + 1 PROVE s \in S
    <3>. DEFINE front == [i \in 1..n |-> s[i]]
    <3>1. front \in Seq(T) /\ Len(front) = n /\ s[n + 1] \in T
      BY <2>1
    <3>2. s = Append(front, s[n + 1])
      BY <2>1
    <3>3. front \in S
      BY <1>2, <3>1
    <3>. QED
      BY <3>1, <3>2, <3>3
  <2>. QED
    BY <2>1
<1>. HIDE DEF D
<1>3. Nat \subseteq D
  BY <1>1, <1>2, Induction
<1>. QED
  BY <1>3 DEF D

\* What is not there cannot be taken away.
LEMMA WithoutNothing ==
  ASSUME NEW T, NEW s \in Seq(T), NEW gone, \A i \in DOMAIN s : s[i] \notin gone
  PROVE  Without(s, gone) = s
<1>. DEFINE S == {t \in Seq(T) : (\A i \in DOMAIN t : t[i] \notin gone) => Without(t, gone) = t}
<1>1. <<>> \in S
  BY WithoutEmpty
<1>2. ASSUME NEW t \in Seq(T), NEW x \in T, t \in S PROVE Append(t, x) \in S
  <2>1. SUFFICES ASSUME \A i \in DOMAIN Append(t, x) : Append(t, x)[i] \notin gone
                 PROVE  Without(Append(t, x), gone) = Append(t, x)
    <3>1. Append(t, x) \in Seq(T)
      OBVIOUS
    <3>. QED
      BY <2>1, <3>1, Zenon
  <2>2. /\ \A i \in DOMAIN t : i \in DOMAIN Append(t, x) /\ Append(t, x)[i] = t[i]
        /\ Len(t) + 1 \in DOMAIN Append(t, x) /\ Append(t, x)[Len(t) + 1] = x
    OBVIOUS
  <2>3. x \notin gone /\ Without(t, gone) = t
    BY <1>2, <2>1, <2>2
  <2>. QED
    BY <2>3, WithoutAppend
<1>. HIDE DEF S
<1>3. s \in S
  BY <1>1, <1>2, AppendInduction
<1>. QED
  BY <1>3 DEF S

(***************************************************************************)
(* Two walks from the same user, before and after u is deactivated.            *)
(***************************************************************************)
Deactivated(o, q, u) ==
  /\ u \in User /\ o[u].isActive /\ ~q[u].isActive
  /\ \A x \in User : /\ x # u => q[x] = o[x]
                     /\ q[x].managerId = o[x].managerId /\ q[x].rows = o[x].rows
                     /\ q[x].primary = o[x].primary

SideBySide(u, w, v) ==
  IF w.finalAnchor = u THEN IsPrefix(w.sequentialApprovers, v.sequentialApprovers)
  ELSE /\ v.cursor = w.cursor /\ v.seen = w.seen /\ v.finalAnchor = w.finalAnchor
       /\ v.ended = w.ended
       /\ v.sequentialApprovers = Without(w.sequentialApprovers, {u})

LEMMA PrefixGrows ==
  ASSUME NEW T, NEW s \in Seq(T), NEW t \in Seq(T), NEW x \in T
  PROVE  IsPrefix(s, s) /\ (IsPrefix(s, t) => IsPrefix(s, Append(t, x)))
<1>1. IsPrefix(s, s)
  BY DEF IsPrefix
<1>2. ASSUME IsPrefix(s, t) PROVE IsPrefix(s, Append(t, x))
  <2>1. /\ Len(s) \in Nat /\ Len(s) <= Len(t) /\ Len(t) \in Nat
        /\ SubSeq(s, 1, Len(s)) = SubSeq(t, 1, Len(s))
    BY <1>2 DEF IsPrefix
  <2>2. Len(Append(t, x)) = Len(t) + 1
    OBVIOUS
  <2>3. SubSeq(Append(t, x), 1, Len(s)) = SubSeq(t, 1, Len(s))
    BY <2>1
  <2>. QED
    BY <2>1, <2>2, <2>3 DEF IsPrefix
<1>. QED
  BY <1>1, <1>2

LEMMA SideBySideSteps ==
  ASSUME NEW o \in [User -> Person], NEW q \in [User -> Person], NEW u, Deactivated(o, q, u),
         NEW start \in User,
         NEW w \in Walk, WalkFacts(o, start, w), NEW v \in Walk, SideBySide(u, w, v)
  PROVE  SideBySide(u, climb(o, w), climb(q, v))
<1>. SUFFICES ASSUME NEW a, a = climb(o, w), NEW b, b = climb(q, v),
                     NEW next, next = Above(o, w), NEW after, after = Above(q, v)
              PROVE  SideBySide(u, a, b)
  OBVIOUS
<1>1. a \in Walk /\ Outcome(o, w, next, a) /\ b \in Walk /\ Outcome(q, v, after, b)
  BY ClimbOutcome
<1>2. w.sequentialApprovers \in Seq(User) /\ v.sequentialApprovers \in Seq(User) /\ u \in User
  BY DEF Walk, Deactivated
<1>3. CASE w.finalAnchor = u
  <2>1. w.ended
    BY <1>2, <1>3, NoUserAssumption DEF WalkFacts
  <2>2. a.finalAnchor = u /\ a.sequentialApprovers = w.sequentialApprovers
    BY <1>1, <1>3, <2>1 DEF Outcome
  <2>3. \/ b.sequentialApprovers = v.sequentialApprovers
        \/ after \in User /\ b.sequentialApprovers = Append(v.sequentialApprovers, after)
    BY <1>1 DEF Outcome
  <2>4. IsPrefix(w.sequentialApprovers, v.sequentialApprovers)
    BY <1>3 DEF SideBySide
  <2>5. IsPrefix(w.sequentialApprovers, b.sequentialApprovers)
    BY <1>2, <2>3, <2>4, PrefixGrows
  <2>. QED
    BY <2>2, <2>5 DEF SideBySide
<1>4. CASE w.finalAnchor # u
  <2>1. /\ v.cursor = w.cursor /\ v.seen = w.seen /\ v.finalAnchor = w.finalAnchor
        /\ v.ended = w.ended
        /\ v.sequentialApprovers = Without(w.sequentialApprovers, {u})
    BY <1>4 DEF SideBySide
  <2>2. next = after
    <3>. SUFFICES ASSUME NEW x \in User
                  PROVE  findPrimaryManagerId(o, x) = findPrimaryManagerId(q, x)
      BY <2>1 DEF Above, Walk
    <3>1. q[x].managerId = o[x].managerId /\ q[x].rows = o[x].rows /\ q[x].primary = o[x].primary
      BY DEF Deactivated
    <3>2. primaryRow(o, x) = primaryRow(q, x)
      BY <3>1 DEF primaryRow
    <3>. QED
      BY <3>1, <3>2 DEF findPrimaryManagerId
  <2>3. CASE w.ended \/ next = NoUser \/ next \in w.seen
    <3>0. /\ ~(~w.ended /\ next \in User \ w.seen)
          /\ ~(~v.ended /\ after \in User \ v.seen)
      BY <2>1, <2>2, <2>3, NoUserAssumption
    <3>1. /\ a.cursor = w.cursor /\ a.seen = w.seen /\ a.finalAnchor = w.finalAnchor /\ a.ended
          /\ a.sequentialApprovers = w.sequentialApprovers
      BY <1>1, <3>0 DEF Outcome
    <3>2. /\ b.cursor = v.cursor /\ b.seen = v.seen /\ b.finalAnchor = v.finalAnchor /\ b.ended
          /\ b.sequentialApprovers = v.sequentialApprovers
      BY <1>1, <3>0 DEF Outcome
    <3>. QED
      BY <1>1, <1>4, <2>1, <3>1, <3>2 DEF SideBySide, Walk
  <2>4. CASE ~w.ended /\ next \in User \ w.seen /\ next # u
    <3>1. o[next] = q[next]
      BY <2>4 DEF Deactivated
    <3>2. Without(Append(w.sequentialApprovers, next), {u})
            = Append(Without(w.sequentialApprovers, {u}), next)
      <4>1. next \in User /\ next \notin {u}
        BY <2>4
      <4>2. \A t \in Seq(User) : Without(Append(t, next), {u})
              = IF next \in {u} THEN Without(t, {u}) ELSE Append(Without(t, {u}), next)
        BY <4>1, WithoutAppend
      <4>. QED
        BY <1>2, <4>1, <4>2, Zenon
    <3>3. ~v.ended /\ after = next /\ next \in User \ v.seen /\ next # NoUser /\ next # u
      BY <2>1, <2>2, <2>4, NoUserAssumption
    <3>4. CASE ~o[next].isActive
      <4>1. /\ ~a.ended /\ a.cursor = next /\ a.seen = w.seen \cup {next}
            /\ a.sequentialApprovers = w.sequentialApprovers /\ a.finalAnchor = w.finalAnchor
        BY <1>1, <2>4, <3>3, <3>4 DEF Outcome, Tops, Signs
      <4>2. /\ ~b.ended /\ b.cursor = next /\ b.seen = v.seen \cup {next}
            /\ b.sequentialApprovers = v.sequentialApprovers /\ b.finalAnchor = v.finalAnchor
        BY <1>1, <3>1, <3>3, <3>4 DEF Outcome, Tops, Signs
      <4>. QED
        BY <1>1, <1>4, <2>1, <4>1, <4>2 DEF SideBySide, Walk
    <3>5. CASE Tops(o[next])
      <4>1. /\ a.ended /\ a.cursor = w.cursor /\ a.seen = w.seen \cup {next}
            /\ a.sequentialApprovers = w.sequentialApprovers /\ a.finalAnchor = next
        BY <1>1, <2>4, <3>3, <3>5 DEF Outcome, Tops, Signs
      <4>2. /\ b.ended /\ b.cursor = v.cursor /\ b.seen = v.seen \cup {next}
            /\ b.sequentialApprovers = v.sequentialApprovers /\ b.finalAnchor = next
        BY <1>1, <3>1, <3>3, <3>5 DEF Outcome, Tops, Signs
      <4>. QED
        BY <1>1, <2>1, <3>3, <4>1, <4>2 DEF SideBySide, Walk
    <3>6. CASE Signs(o[next])
      <4>1. /\ ~a.ended /\ a.cursor = next /\ a.seen = w.seen \cup {next}
            /\ a.sequentialApprovers = Append(w.sequentialApprovers, next)
            /\ a.finalAnchor = w.finalAnchor
        BY <1>1, <2>4, <3>3, <3>6 DEF Outcome, Tops, Signs
      <4>2. /\ ~b.ended /\ b.cursor = next /\ b.seen = v.seen \cup {next}
            /\ b.sequentialApprovers = Append(v.sequentialApprovers, next)
            /\ b.finalAnchor = v.finalAnchor
        BY <1>1, <3>1, <3>3, <3>6 DEF Outcome, Tops, Signs
      <4>. QED
        BY <1>1, <1>4, <2>1, <3>2, <4>1, <4>2 DEF SideBySide, Walk
    <3>. QED
      BY <3>4, <3>5, <3>6 DEF Tops, Signs
  <2>5. CASE ~w.ended /\ next = u /\ u \notin w.seen
    <3>1. ~q[u].isActive /\ o[u].isActive /\ u # NoUser
      BY <1>2, NoUserAssumption DEF Deactivated
    <3>2. /\ b.cursor = u /\ b.seen = v.seen \cup {u} /\ ~b.ended
          /\ b.sequentialApprovers = v.sequentialApprovers /\ b.finalAnchor = v.finalAnchor
      BY <1>1, <2>1, <2>2, <2>5, <3>1 DEF Outcome, Tops, Signs
    <3>3. CASE Signs(o[u])
      <4>1. /\ a.cursor = u /\ a.seen = w.seen \cup {u} /\ ~a.ended
            /\ a.sequentialApprovers = Append(w.sequentialApprovers, u)
            /\ a.finalAnchor = w.finalAnchor
        BY <1>1, <2>5, <3>1, <3>3 DEF Outcome, Tops, Signs
      <4>2. Without(Append(w.sequentialApprovers, u), {u}) = Without(w.sequentialApprovers, {u})
        BY <1>2, WithoutAppend
      <4>. QED
        BY <1>1, <1>4, <2>1, <3>2, <4>1, <4>2 DEF SideBySide, Walk
    <3>4. CASE Tops(o[u])
      <4>1. a.finalAnchor = u /\ a.sequentialApprovers = w.sequentialApprovers
        BY <1>1, <2>5, <3>1, <3>4 DEF Outcome, Tops, Signs
      <4>2. \A i \in DOMAIN w.sequentialApprovers : w.sequentialApprovers[i] \notin {u}
        BY <2>5 DEF WalkFacts
      <4>3. b.sequentialApprovers = w.sequentialApprovers
        BY <1>2, <2>1, <3>2, <4>2, WithoutNothing
      <4>. QED
        BY <1>2, <4>1, <4>3, PrefixGrows DEF SideBySide
    <3>. QED
      BY <3>1, <3>3, <3>4 DEF Tops, Signs
  <2>6. next \in User \cup {NoUser}
    BY ManagerType DEF Above, Walk
  <2>. QED
    BY <2>3, <2>4, <2>5, <2>6
<1>. QED
  BY <1>3, <1>4

LEMMA WalksSideBySide ==
  ASSUME NEW o \in [User -> Person], NEW q \in [User -> Person], NEW u, Deactivated(o, q, u),
         NEW start \in User
  PROVE  SideBySide(u, walkManagerChain(o, start), walkManagerChain(q, start))
<1>. DEFINE S == {x \in Walk \X Walk : /\ WalkFacts(o, start, x[1]) /\ WalkFacts(q, start, x[2])
                                       /\ SideBySide(u, x[1], x[2])}
<1>1. <<Beginning(start), Beginning(start)>> \in S
  <2>1. SideBySide(u, Beginning(start), Beginning(start))
    BY WithoutEmpty, NoUserAssumption DEF Beginning, SideBySide, Deactivated
  <2>. QED
    BY <2>1, BeginningFacts
<1>2. ASSUME NEW w, NEW v, <<w, v>> \in S PROVE <<climb(o, w), climb(q, v)>> \in S
  <2>1. /\ w \in Walk /\ v \in Walk /\ WalkFacts(o, start, w) /\ WalkFacts(q, start, v)
        /\ SideBySide(u, w, v)
    BY <1>2
  <2>2. climb(o, w) \in Walk /\ WalkFacts(o, start, climb(o, w))
    BY <2>1, ClimbFacts
  <2>3. climb(q, v) \in Walk /\ WalkFacts(q, start, climb(q, v))
    BY <2>1, ClimbFacts
  <2>4. SideBySide(u, climb(o, w), climb(q, v))
    BY <2>1, SideBySideSteps
  <2>. QED
    BY <2>2, <2>3, <2>4
<1>. HIDE DEF S
<1>3. <<walkManagerChain(o, start), walkManagerChain(q, start)>> \in S
  BY <1>1, <1>2, AlongTwoWalks
<1>. QED
  BY <1>3 DEF S

(* Deactivating somebody takes exactly that user out of the sequential part of   *)
(* everybody else's line, or, when the line ended at that user as its anchor, lets *)
(* it grow upward (walkManagerChain's inactive branch), for every chart.          *)
THEOREM DeactivationStaysLocal == Spec => DeactivationIsLocal
<1>. DEFINE Local == \A u, s \in User :
                       org[u].isActive /\ ~org'[u].isActive /\ s # u =>
                         LET before == Sequential(org, s)
                             after == Sequential(org', s)
                         IN IF walkManagerChain(org, s).finalAnchor = u
                            THEN IsPrefix(before, after)
                            ELSE after = Without(before, {u})
<1>1. OrgType /\ [Next]_org => Local
  <2>. SUFFICES ASSUME OrgType, [Next]_org, NEW u \in User, NEW s \in User,
                       org[u].isActive, ~org'[u].isActive
                PROVE  LET before == Sequential(org, s)
                           after == Sequential(org', s)
                       IN IF walkManagerChain(org, s).finalAnchor = u
                          THEN IsPrefix(before, after)
                          ELSE after = Without(before, {u})
    BY Zenon
  <2>1. PICK x \in User : toggle(x)
    BY DEF Next
  <2>2. org \in [User -> Person] /\ org' \in [User -> Person]
    BY <2>1, ToggleType DEF OrgType
  <2>3. Deactivated(org, org', u)
    BY <2>1, <2>2 DEF Deactivated, Person, toggle
  <2>4. SideBySide(u, walkManagerChain(org, s), walkManagerChain(org', s))
    BY <2>2, <2>3, WalksSideBySide
  <2>. QED
    BY <2>4, Zenon DEF SideBySide, Sequential
<1>. QED
  BY <1>1, OrgTypeCorrect, PTL DEF Spec, DeactivationIsLocal

(***************************************************************************)
(* The walk against the climbs of the chart.  Behind every state of the loop   *)
(* is the climb p it has made so far.                                          *)
(***************************************************************************)
NotSigning == {u \in User : ~org[u].isActive \/ isFinalRole(org[u])}

\* p cannot be continued.
Complete(p) ==
  \/ Len(p) >= 2 /\ Tops(org[p[Len(p)]])
  \/ findPrimaryManagerId(org, p[Len(p)]) \notin User \ {p[i] : i \in DOMAIN p}

OnClimb(s, d, w, p) ==
  /\ p \in Seq(User) /\ p # <<>> /\ IsClimb(p, s)
  /\ w.sequentialApprovers = Without(Tail(p), NotSigning)
  /\ Len(p) <= d + 1 /\ (~w.ended => Len(p) = d + 1)
  /\ w.ended => Complete(p)
  /\ IF w.finalAnchor = NoUser
     THEN /\ w.cursor = p[Len(p)] /\ w.seen = {p[i] : i \in DOMAIN p}
          /\ Len(p) >= 2 => ~Tops(org[p[Len(p)]])
     ELSE /\ w.ended /\ Len(p) >= 2
          /\ w.finalAnchor = p[Len(p)] /\ Tops(org[p[Len(p)]])

LEMMA ClimbGrows ==
  ASSUME NEW s, NEW p \in Seq(User), p # <<>>, IsClimb(p, s),
         NEW next \in User, next = findPrimaryManagerId(org, p[Len(p)]),
         \A i \in DOMAIN p : p[i] # next,
         Len(p) >= 2 => ~Tops(org[p[Len(p)]])
  PROVE  IsClimb(Append(p, next), s)
<1>. DEFINE q == Append(p, next)
            n == Len(p)
<1>1. /\ n \in Nat /\ n >= 1 /\ q \in Seq(User) /\ Len(q) = n + 1 /\ q[n + 1] = next
      /\ \A i \in 1..n : q[i] = p[i]
      /\ DOMAIN p = 1..n /\ DOMAIN q = 1..(n + 1)
  OBVIOUS
<1>2. /\ p[1] = s
      /\ \A i \in 1..(n - 1) : p[i + 1] = findPrimaryManagerId(org, p[i])
      /\ \A i, j \in 1..n : p[i] = p[j] => i = j
      /\ \A i \in 2..(n - 1) : ~(org[p[i]].isActive /\ isFinalRole(org[p[i]]))
  BY <1>1 DEF IsClimb, IsInjective
<1>3. next = findPrimaryManagerId(org, p[n]) /\ (\A i \in 1..n : p[i] # next)
  BY <1>1
<1>4. n >= 2 => ~(org[p[n]].isActive /\ isFinalRole(org[p[n]]))
  BY DEF Tops
<1>. HIDE DEF q, n
<1>5. q[1] = s
  BY <1>1, <1>2
<1>6. ASSUME NEW i \in 1..n PROVE q[i + 1] = findPrimaryManagerId(org, q[i])
  <2>1. CASE i = n
    BY <1>1, <1>3, <2>1
  <2>2. CASE i # n
    <3>1. i \in 1..(n - 1) /\ i + 1 \in 1..n
      BY <1>1, <2>2
    <3>. QED
      BY <1>1, <1>2, <3>1
  <2>. QED
    BY <2>1, <2>2
<1>7. ASSUME NEW i \in 1..(n + 1), NEW j \in 1..(n + 1), q[i] = q[j] PROVE i = j
  <2>1. (i \in 1..n \/ i = n + 1) /\ (j \in 1..n \/ j = n + 1)
    BY <1>1
  <2>. QED
    BY <1>1, <1>2, <1>3, <1>7, <2>1
<1>8. ASSUME NEW i \in 2..n PROVE ~(org[q[i]].isActive /\ isFinalRole(org[q[i]]))
  <2>1. q[i] = p[i] /\ (i = n \/ i \in 2..(n - 1))
    BY <1>1
  <2>. QED
    BY <1>1, <1>2, <1>4, <2>1
<1>9. \A i \in 1..(Len(q) - 1) : q[i + 1] = findPrimaryManagerId(org, q[i])
  BY <1>1, <1>6
<1>10. \A i \in 2..(Len(q) - 1) : ~(org[q[i]].isActive /\ isFinalRole(org[q[i]]))
  BY <1>1, <1>8
<1>11. IsInjective(q)
  BY <1>1, <1>7 DEF IsInjective
<1>12. IsClimb(q, s)
  BY <1>5, <1>9, <1>10, <1>11 DEF IsClimb
<1>. QED
  BY <1>12 DEF q

LEMMA TailGrows ==
  ASSUME NEW p \in Seq(User), p # <<>>, NEW next \in User
  PROVE  /\ Tail(p) \in Seq(User)
         /\ Without(Tail(Append(p, next)), NotSigning)
              = IF next \in NotSigning THEN Without(Tail(p), NotSigning)
                ELSE Append(Without(Tail(p), NotSigning), next)
<1>1. Tail(p) \in Seq(User) /\ Tail(Append(p, next)) = Append(Tail(p), next)
  OBVIOUS
<1>2. \A t \in Seq(User) : Without(Append(t, next), NotSigning)
        = IF next \in NotSigning THEN Without(t, NotSigning)
          ELSE Append(Without(t, NotSigning), next)
  BY WithoutAppend
<1>. QED
  BY <1>1, <1>2, Zenon

LEMMA OnClimbBegins ==
  ASSUME OrgType, NEW s \in User
  PROVE  OnClimb(s, 0, Beginning(s), <<s>>)
<1>1. /\ <<s>> \in Seq(User) /\ <<s>> # <<>> /\ Len(<<s>>) = 1 /\ <<s>>[1] = s
      /\ Tail(<<s>>) = <<>> /\ DOMAIN <<s>> = {1}
  OBVIOUS
<1>2. IsClimb(<<s>>, s)
  BY DEF IsClimb, IsInjective
<1>3. Without(Tail(<<s>>), NotSigning) = <<>>
  BY <1>1, WithoutEmpty
<1>. QED
  BY <1>1, <1>2, <1>3 DEF OnClimb, Beginning

LEMMA OnClimbSteps ==
  ASSUME OrgType, NEW s \in User, NEW d \in Nat, NEW w \in Walk, NEW p, OnClimb(s, d, w, p)
  PROVE  \E q : OnClimb(s, d + 1, climb(org, w), q)
<1>. SUFFICES ASSUME NEW v, v = climb(org, w), NEW next, next = Above(org, w)
              PROVE  \E q : OnClimb(s, d + 1, v, q)
  OBVIOUS
<1>1. org \in [User -> Person] /\ v \in Walk /\ Outcome(org, w, next, v)
  BY ClimbOutcome DEF OrgType
<1>2. /\ p \in Seq(User) /\ p # <<>> /\ IsClimb(p, s)
      /\ w.sequentialApprovers = Without(Tail(p), NotSigning)
      /\ Len(p) <= d + 1 /\ (~w.ended => Len(p) = d + 1)
      /\ w.ended => Complete(p)
      /\ w.finalAnchor = NoUser => /\ w.cursor = p[Len(p)] /\ w.seen = {p[i] : i \in DOMAIN p}
                                   /\ Len(p) >= 2 => ~Tops(org[p[Len(p)]])
      /\ w.finalAnchor # NoUser => /\ w.ended /\ Len(p) >= 2 /\ w.finalAnchor = p[Len(p)]
                                   /\ Tops(org[p[Len(p)]])
  BY DEF OnClimb
<1>3. Len(p) \in Nat /\ Len(p) >= 1 /\ p[Len(p)] \in User
  BY <1>2
<1>4. next = findPrimaryManagerId(org, w.cursor)
  BY DEF Above
<1>5. CASE w.ended \/ next = NoUser \/ next \in w.seen
  <2>1. ~(~w.ended /\ next \in User \ w.seen)
    BY <1>5, NoUserAssumption
  <2>2. /\ v.ended /\ v.cursor = w.cursor /\ v.seen = w.seen
        /\ v.sequentialApprovers = w.sequentialApprovers /\ v.finalAnchor = w.finalAnchor
    BY <1>1, <2>1 DEF Outcome
  <2>3. Complete(p)
    BY <1>2, <1>4, <1>5, NoUserAssumption DEF Complete
  <2>4. Len(p) <= (d + 1) + 1
    BY <1>2, <1>3
  <2>5. OnClimb(s, d + 1, v, p)
    BY <1>2, <2>2, <2>3, <2>4 DEF OnClimb
  <2>. QED
    BY <2>5
<1>6. CASE ~(w.ended \/ next = NoUser \/ next \in w.seen)
  <2>. DEFINE q == Append(p, next)
  <2>1. ~w.ended /\ w.finalAnchor = NoUser
    BY <1>2, <1>6
  <2>2. next \in User \ w.seen
    BY <1>1, <1>6 DEF Outcome
  <2>3. /\ next = findPrimaryManagerId(org, p[Len(p)])
        /\ \A i \in DOMAIN p : p[i] # next
    BY <1>2, <1>4, <2>1, <2>2
  <2>4. IsClimb(q, s)
    BY <1>2, <2>1, <2>2, <2>3, ClimbGrows
  <2>5. /\ q \in Seq(User) /\ q # <<>> /\ Len(q) = Len(p) + 1 /\ q[Len(q)] = next
        /\ {q[i] : i \in DOMAIN q} = {p[i] : i \in DOMAIN p} \cup {next}
    <3>1. /\ q \in Seq(User) /\ q # <<>> /\ Len(q) = Len(p) + 1 /\ q[Len(p) + 1] = next
          /\ \A i \in 1..Len(p) : q[i] = p[i]
          /\ DOMAIN p = 1..Len(p) /\ DOMAIN q = 1..(Len(p) + 1)
      BY <1>2, <2>2
    <3>. HIDE DEF q
    <3>2. \A i \in 1..(Len(p) + 1) : i \in 1..Len(p) \/ i = Len(p) + 1
      BY <1>3
    <3>3. {q[i] : i \in DOMAIN q} \subseteq {p[i] : i \in DOMAIN p} \cup {next}
      BY <3>1, <3>2
    <3>4. {p[i] : i \in DOMAIN p} \cup {next} \subseteq {q[i] : i \in DOMAIN q}
      <4>1. \A i \in 1..Len(p) : i \in DOMAIN q
        BY <1>3, <3>1
      <4>2. Len(p) + 1 \in DOMAIN q
        BY <1>3, <3>1
      <4>. QED
        BY <3>1, <4>1, <4>2
    <3>. QED
      BY <3>1, <3>3, <3>4
  <2>6. Without(Tail(q), NotSigning)
          = IF next \in NotSigning THEN Without(Tail(p), NotSigning)
            ELSE Append(Without(Tail(p), NotSigning), next)
    BY <1>2, <2>2, TailGrows
  <2>. HIDE DEF q
  <2>7. Len(q) = (d + 1) + 1 /\ Len(q) >= 2 /\ Len(q) <= (d + 1) + 1
    BY <1>2, <1>3, <2>1, <2>5
  <2>8. w.seen \cup {next} = {q[i] : i \in DOMAIN q}
    BY <1>2, <2>1, <2>5
  <2>9. next # NoUser
    BY <1>6
  <2>10. CASE ~org[next].isActive
    <3>1. /\ ~v.ended /\ v.cursor = next /\ v.seen = w.seen \cup {next}
          /\ v.sequentialApprovers = w.sequentialApprovers /\ v.finalAnchor = w.finalAnchor
      BY <1>1, <2>1, <2>2, <2>9, <2>10 DEF Outcome, Tops, Signs
    <3>2. next \in NotSigning /\ ~Tops(org[next])
      BY <2>2, <2>10 DEF NotSigning, Tops
    <3>3. v.sequentialApprovers = Without(Tail(q), NotSigning)
      BY <1>2, <2>6, <3>1, <3>2
    <3>. QED
      BY <2>1, <2>4, <2>5, <2>7, <2>8, <3>1, <3>2, <3>3 DEF OnClimb
  <2>11. CASE Tops(org[next])
    <3>1. /\ v.ended /\ v.sequentialApprovers = w.sequentialApprovers /\ v.finalAnchor = next
      BY <1>1, <2>1, <2>2, <2>9, <2>11 DEF Outcome, Tops, Signs
    <3>2. next \in NotSigning
      BY <2>2, <2>11 DEF NotSigning, Tops
    <3>3. v.sequentialApprovers = Without(Tail(q), NotSigning)
      BY <1>2, <2>6, <3>1, <3>2
    <3>4. Complete(q)
      BY <2>5, <2>7, <2>11 DEF Complete
    <3>. QED
      BY <2>1, <2>4, <2>5, <2>7, <2>9, <2>11, <3>1, <3>3, <3>4 DEF OnClimb
  <2>12. CASE Signs(org[next])
    <3>1. /\ ~v.ended /\ v.cursor = next /\ v.seen = w.seen \cup {next}
          /\ v.sequentialApprovers = Append(w.sequentialApprovers, next)
          /\ v.finalAnchor = w.finalAnchor
      BY <1>1, <2>1, <2>2, <2>9, <2>12 DEF Outcome, Tops, Signs
    <3>2. next \notin NotSigning /\ ~Tops(org[next])
      BY <2>2, <2>12 DEF NotSigning, Tops, Signs
    <3>3. v.sequentialApprovers = Without(Tail(q), NotSigning)
      BY <1>2, <2>6, <3>1, <3>2
    <3>. QED
      BY <2>1, <2>4, <2>5, <2>7, <2>8, <3>1, <3>2, <3>3 DEF OnClimb
  <2>. QED
    BY <2>10, <2>11, <2>12 DEF Tops, Signs
<1>. QED
  BY <1>5, <1>6

LEMMA WalkOnClimb ==
  ASSUME OrgType, NEW s \in User
  PROVE  \E p : OnClimb(s, MaxChainDepth, walkManagerChain(org, s), p)
<1>. DEFINE S == {x \in Nat \X Walk : \E p : OnClimb(s, x[1], x[2], p)}
<1>1. <<0, Beginning(s)>> \in S
  <2>1. OnClimb(s, 0, Beginning(s), <<s>>)
    BY OnClimbBegins
  <2>. QED
    BY <2>1, BeginningFacts DEF OrgType
<1>2. ASSUME NEW d \in 0..(MaxChainDepth - 1), NEW w, <<d, w>> \in S
      PROVE  <<d + 1, climb(org, w)>> \in S
  <2>1. w \in Walk /\ d \in Nat
    BY <1>2
  <2>2. PICK p : OnClimb(s, d, w, p)
    BY <1>2
  <2>3. \E q : OnClimb(s, d + 1, climb(org, w), q)
    BY <2>1, <2>2, OnClimbSteps
  <2>4. climb(org, w) \in Walk
    BY <2>1, ClimbOutcome DEF OrgType
  <2>. QED
    BY <2>1, <2>3, <2>4
<1>. HIDE DEF S
<1>3. <<MaxChainDepth, walkManagerChain(org, s)>> \in S
  BY <1>1, <1>2, AlongWalk
<1>. QED
  BY <1>3 DEF S

\* From the same user there is one climb of every length.
LEMMA ClimbsAgree ==
  ASSUME NEW s, NEW p \in Seq(User), IsClimb(p, s), NEW q \in Seq(User), IsClimb(q, s)
  PROVE  \A i \in DOMAIN p \cap DOMAIN q : p[i] = q[i]
<1>. DEFINE S == {i \in Nat : i + 1 \in DOMAIN p \cap DOMAIN q => p[i + 1] = q[i + 1]}
<1>1. DOMAIN p = 1..Len(p) /\ DOMAIN q = 1..Len(q) /\ Len(p) \in Nat /\ Len(q) \in Nat
  OBVIOUS
<1>2. /\ p[1] = s /\ q[1] = s
      /\ \A i \in 1..(Len(p) - 1) : p[i + 1] = findPrimaryManagerId(org, p[i])
      /\ \A i \in 1..(Len(q) - 1) : q[i + 1] = findPrimaryManagerId(org, q[i])
  BY DEF IsClimb
<1>3. 0 \in S
  BY <1>2
<1>4. ASSUME NEW i \in Nat, i \in S PROVE i + 1 \in S
  <2>1. SUFFICES ASSUME (i + 1) + 1 \in DOMAIN p \cap DOMAIN q
                 PROVE  p[(i + 1) + 1] = q[(i + 1) + 1]
    OBVIOUS
  <2>2. /\ i + 1 \in DOMAIN p \cap DOMAIN q /\ i + 1 \in 1..(Len(p) - 1)
        /\ i + 1 \in 1..(Len(q) - 1)
    BY <1>1, <2>1
  <2>3. p[i + 1] = q[i + 1]
    BY <1>4, <2>2
  <2>. HIDE DEF S
  <2>. QED
    BY <1>2, <2>2, <2>3
<1>. HIDE DEF S
<1>5. Nat \subseteq S
  BY <1>3, <1>4, Induction
<1>6. ASSUME NEW i \in DOMAIN p \cap DOMAIN q PROVE p[i] = q[i]
  <2>1. i - 1 \in Nat /\ (i - 1) + 1 = i
    BY <1>1
  <2>2. i - 1 \in S
    BY <1>5, <2>1
  <2>. QED
    BY <2>1, <2>2 DEF S
<1>. QED
  BY <1>6

\* A climb that cannot be continued is as long as any.
LEMMA CompleteIsLongest ==
  ASSUME NEW s, NEW p \in Seq(User), p # <<>>, IsClimb(p, s), Complete(p),
         NEW q \in Seq(User), IsClimb(q, s)
  PROVE  Len(q) <= Len(p)
<1>. SUFFICES ASSUME Len(p) < Len(q) PROVE FALSE
  OBVIOUS
<1>. DEFINE n == Len(p)
<1>1. /\ n \in Nat /\ n >= 1 /\ DOMAIN p = 1..n /\ DOMAIN q = 1..Len(q) /\ Len(q) \in Nat
      /\ n + 1 \in 1..Len(q) /\ n \in 1..Len(q) /\ n \in 1..(Len(q) - 1)
      /\ \A i \in 1..n : i \in 1..Len(q)
  OBVIOUS
<1>. HIDE DEF n
<1>2. \A i \in 1..n : p[i] = q[i]
  BY <1>1, ClimbsAgree
<1>3. /\ q[n + 1] = findPrimaryManagerId(org, q[n]) /\ q[n + 1] \in User
      /\ \A i \in 1..n : q[i] # q[n + 1]
  <2>1. q[n + 1] = findPrimaryManagerId(org, q[n]) /\ q[n + 1] \in User
    BY <1>1 DEF IsClimb
  <2>2. \A i, j \in DOMAIN q : q[i] = q[j] => i = j
    BY DEF IsClimb, IsInjective
  <2>3. \A i \in 1..n : i # n + 1
    BY <1>1
  <2>. QED
    BY <1>1, <2>1, <2>2, <2>3
<1>4. p[n] = q[n]
  BY <1>1, <1>2
<1>5. findPrimaryManagerId(org, p[n]) \in User \ {p[i] : i \in DOMAIN p}
  BY <1>1, <1>2, <1>3, <1>4
<1>6. n >= 2 => ~Tops(org[p[n]])
  <2>1. \A i \in 2..(Len(q) - 1) : ~(org[q[i]].isActive /\ isFinalRole(org[q[i]]))
    BY DEF IsClimb
  <2>2. n >= 2 => n \in 2..(Len(q) - 1)
    BY <1>1
  <2>. QED
    BY <1>4, <2>1, <2>2 DEF Tops
<1>. QED
  BY <1>5, <1>6 DEF Complete, n

LEMMA LengthOfClimb ==
  /\ LongestClimb \in Nat /\ LongestClimb <= MaxChainDepth + 1
  /\ \A s, p : p \in Seq(User) /\ IsClimb(p, s) /\ Len(p) <= MaxChainDepth + 1
                 => Len(p) <= LongestClimb
<1>. DEFINE M == MaxChainDepth + 1
            C == Cardinality(User)
<1>1. M \in Nat /\ C \in Nat
  BY ChainConstants, FS_CardinalityType
<1>. HIDE DEF M, C
<1>2. LongestClimb = Min({M, C})
  BY DEF LongestClimb, M, C
<1>3. LongestClimb \in {M, C} /\ LongestClimb <= M /\ LongestClimb <= C
  <2>1. \E x \in {M, C} : \A y \in {M, C} : x <= y
    <3>1. M <= C \/ C <= M
      BY <1>1
    <3>2. M <= M /\ C <= C
      BY <1>1
    <3>. QED
      BY <3>1, <3>2
  <2>2. Min({M, C}) \in {M, C} /\ \A y \in {M, C} : Min({M, C}) <= y
    BY <2>1 DEF Min
  <2>. QED
    BY <1>2, <2>2
<1>4. ASSUME NEW s, NEW p \in Seq(User), IsClimb(p, s) PROVE Len(p) <= C
  <2>1. p \in [1..Len(p) -> User] /\ Len(p) \in Nat
    OBVIOUS
  <2>2. p \in Injection(1..Len(p), User)
    BY <1>4, <2>1 DEF Injection, IsClimb, IsInjective
  <2>3. Cardinality(1..Len(p)) <= Cardinality(User)
    BY <2>2, ChainConstants, FS_Injection
  <2>4. \A n \in Nat : Cardinality(1..n) = n
    BY FS_Interval
  <2>. QED
    BY <2>1, <2>3, <2>4 DEF C
<1>5. ASSUME NEW s, NEW p \in Seq(User), IsClimb(p, s), Len(p) <= M PROVE Len(p) <= LongestClimb
  BY <1>3, <1>4, <1>5
<1>. QED
  BY <1>1, <1>3, <1>5 DEF M

LEMMA ClimbsOf ==
  ASSUME NEW s, NEW p
  PROVE  p \in Climbs(s) <=> /\ p \in Seq(User) /\ Len(p) <= LongestClimb
                             /\ p # <<>> /\ IsClimb(p, s)
<1>1. LongestClimb \in Nat
  BY LengthOfClimb
<1>2. p \in SeqOf(User, LongestClimb) <=> p \in Seq(User) /\ Len(p) <= LongestClimb
  <2>1. ASSUME p \in SeqOf(User, LongestClimb)
        PROVE  p \in Seq(User) /\ Len(p) <= LongestClimb
    <3>1. PICK m \in 0..LongestClimb : p \in [1..m -> User]
      BY <2>1 DEF SeqOf
    <3>2. p \in Seq(User) /\ Len(p) = m
      BY <1>1, <3>1
    <3>. QED
      BY <1>1, <3>2
  <2>2. ASSUME p \in Seq(User), Len(p) <= LongestClimb PROVE p \in SeqOf(User, LongestClimb)
    <3>1. p \in [1..Len(p) -> User] /\ Len(p) \in 0..LongestClimb
      BY <1>1, <2>2
    <3>. QED
      BY <3>1 DEF SeqOf
  <2>. QED
    BY <2>1, <2>2
<1>. QED
  BY <1>2 DEF Climbs

\* The climb behind the walk is the full one.
LEMMA WalkIsFullClimb ==
  ASSUME OrgType, NEW s \in User, NEW p, OnClimb(s, MaxChainDepth, walkManagerChain(org, s), p)
  PROVE  FullClimb(s) = p
<1>. DEFINE w == walkManagerChain(org, s)
<1>1. /\ p \in Seq(User) /\ p # <<>> /\ IsClimb(p, s)
      /\ Len(p) <= MaxChainDepth + 1 /\ (~w.ended => Len(p) = MaxChainDepth + 1)
      /\ w.ended => Complete(p)
  BY DEF OnClimb
<1>. HIDE DEF w
<1>2. p \in Climbs(s)
  BY <1>1, LengthOfClimb, ClimbsOf
<1>3. ASSUME NEW q \in Climbs(s) PROVE Len(q) <= Len(p)
  <2>1. q \in Seq(User) /\ Len(q) <= LongestClimb /\ IsClimb(q, s)
    BY ClimbsOf
  <2>2. CASE w.ended
    BY <1>1, <2>1, <2>2, CompleteIsLongest
  <2>3. CASE ~w.ended
    <3>1. Len(p) = MaxChainDepth + 1 /\ Len(q) \in Nat /\ MaxChainDepth \in Nat
      BY <1>1, <2>1, <2>3, ChainConstants
    <3>. QED
      BY <2>1, <3>1, LengthOfClimb
  <2>. QED
    BY <2>2, <2>3
<1>4. ASSUME NEW q \in Climbs(s), Len(p) <= Len(q) PROVE q = p
  <2>1. q \in Seq(User) /\ IsClimb(q, s) /\ Len(q) <= Len(p)
    BY <1>3, ClimbsOf
  <2>2. Len(q) = Len(p) /\ DOMAIN q = 1..Len(q) /\ DOMAIN p = 1..Len(p)
    BY <1>1, <1>4, <2>1
  <2>3. \A i \in DOMAIN p \cap DOMAIN q : p[i] = q[i]
    BY <1>1, <2>1, ClimbsAgree
  <2>. QED
    BY <1>1, <2>1, <2>2, <2>3
<1>5. FullClimb(s) \in Climbs(s) /\ \A q \in Climbs(s) : Len(q) <= Len(FullClimb(s))
  BY <1>2, <1>3 DEF FullClimb
<1>. QED
  BY <1>2, <1>4, <1>5

LEMMA LenZero == ASSUME NEW T, NEW p \in Seq(T), Len(p) = 0 PROVE p = <<>>
OBVIOUS

LEMMA LenPositive ==
  ASSUME NEW T, NEW p \in Seq(T), p # <<>>
  PROVE  Len(p) \in Nat /\ Len(p) >= 1 /\ Tail(p) \in Seq(T) /\ Len(Tail(p)) = Len(p) - 1
OBVIOUS

LEMMA TailEnd ==
  ASSUME NEW T, NEW p \in Seq(T), Len(p) >= 2
  PROVE  Tail(p) # <<>> /\ Last(Tail(p)) = p[Len(p)]
<1>1. Tail(p) \in Seq(T) /\ Len(Tail(p)) = Len(p) - 1 /\ Len(p) \in Nat
  OBVIOUS
<1>2. \A i \in 1..(Len(p) - 1) : Tail(p)[i] = p[i + 1]
  OBVIOUS
<1>3. Tail(p)[Len(p) - 1] = p[Len(p)]
  BY <1>1, <1>2
<1>4. Tail(p) # <<>>
  <2>1. Len(Tail(p)) # 0 /\ Len(<<>>) = 0
    BY <1>1
  <2>. QED
    BY <2>1, Zenon
<1>5. Last(Tail(p)) = Tail(p)[Len(p) - 1]
  BY <1>1, Zenon DEF Last
<1>. QED
  BY <1>3, <1>4, <1>5, Zenon

LEMMA FollowsLine == OrgType => WalkFollowsLine
<1>. SUFFICES ASSUME OrgType, NEW s \in User
              PROVE  LET above == Tail(FullClimb(s))
                         atTop(u) == org[u].isActive /\ isFinalRole(org[u])
                         walk == walkManagerChain(org, s)
                     IN /\ walk.sequentialApprovers
                             = Without(above, {u \in User : ~org[u].isActive
                                                            \/ isFinalRole(org[u])})
                        /\ walk.finalAnchor
                             = IF above # <<>> /\ atTop(Last(above)) THEN Last(above) ELSE NoUser
  BY Zenon DEF WalkFollowsLine
<1>. SUFFICES /\ walkManagerChain(org, s).sequentialApprovers
                   = Without(Tail(FullClimb(s)), NotSigning)
              /\ walkManagerChain(org, s).finalAnchor
                   = IF Tail(FullClimb(s)) # <<>> /\ Tops(org[Last(Tail(FullClimb(s)))])
                     THEN Last(Tail(FullClimb(s))) ELSE NoUser
  BY Zenon DEF NotSigning, Tops
<1>. SUFFICES ASSUME NEW w, w = walkManagerChain(org, s),
                     NEW above, above = Tail(FullClimb(s))
              PROVE  /\ w.sequentialApprovers = Without(above, NotSigning)
                     /\ w.finalAnchor
                          = IF above # <<>> /\ Tops(org[Last(above)]) THEN Last(above) ELSE NoUser
  OBVIOUS
<1>1. PICK p : OnClimb(s, MaxChainDepth, w, p)
  BY WalkOnClimb
<1>2. above = Tail(p)
  BY <1>1, WalkIsFullClimb
<1>3. p \in Seq(User) /\ p # <<>>
  BY <1>1 DEF OnClimb
<1>4. w.sequentialApprovers = Without(above, NotSigning)
  BY <1>1, <1>2 DEF OnClimb
<1>5. /\ above # <<>> <=> Len(p) >= 2
      /\ above # <<>> => Last(above) = p[Len(p)]
  <2>1. CASE Len(p) >= 2
    BY <1>2, <1>3, <2>1, TailEnd
  <2>2. CASE Len(p) = 1
    <3>1. above \in Seq(User) /\ Len(above) = 1 - 1
      BY <1>2, <1>3, <2>2, LenPositive, Zenon
    <3>2. above = <<>>
      BY <3>1, LenZero
    <3>3. ~(1 >= 2)
      OBVIOUS
    <3>. QED
      BY <2>2, <3>2, <3>3, Zenon
  <2>3. \A n \in Nat : n >= 1 => n >= 2 \/ n = 1
    OBVIOUS
  <2>. QED
    BY <1>3, <2>1, <2>2, <2>3, LenPositive
<1>6. CASE w.finalAnchor = NoUser
  <2>1. Len(p) >= 2 => ~Tops(org[p[Len(p)]])
    BY <1>1, <1>6 DEF OnClimb
  <2>. QED
    BY <1>4, <1>5, <1>6, <2>1
<1>7. CASE w.finalAnchor # NoUser
  <2>1. Len(p) >= 2 /\ w.finalAnchor = p[Len(p)] /\ Tops(org[p[Len(p)]])
    BY <1>1, <1>7 DEF OnClimb
  <2>. QED
    BY <1>4, <1>5, <2>1
<1>. QED
  BY <1>6, <1>7

(* The loop of walkManagerChain is the climb of the chart it stands for: its      *)
(* approvers are the active people below the top roles on the one longest climb    *)
(* from the submitter, bottom up, and its anchor is the active top-role manager    *)
(* that ended it, in every chart, with whatever cycles, and for every depth cap.   *)
THEOREM WalkIsClimb == Spec => []WalkFollowsLine
BY FollowsLine, OrgTypeCorrect, PTL
=============================================================================
