-------------------------- MODULE Hierarchy_proofs --------------------------
(***************************************************************************)
(* Theorems about Hierarchy, for every set of users, every set of super        *)
(* admins and endpoints in use, any number of requests at once and every point    *)
(* at which one stops half way.                                               *)
(***************************************************************************)
EXTENDS Hierarchy, FiniteSetTheorems, TLAPS

---------------------------------------------------------------------------
(* What is left when relations are removed: found by induction along the rows. *)

LEMMA LeastNatural ==
  ASSUME NEW S \in SUBSET Nat, S # {}
  PROVE  \E k \in S : \A j \in S : k <= j
<1>. DEFINE T == {0..k : k \in S}
<1>1. T \subseteq FiniteSubsetsOf(Nat) /\ T # {}
  <2>1. \A k \in S : 0..k \in SUBSET Nat /\ IsFiniteSet(0..k)
    BY FS_Interval
  <2>. QED
    BY <2>1 DEF FiniteSubsetsOf
<1>2. PICK x \in T : \A y \in T : <<y, x>> \notin StrictSubsetOrdering(Nat)
  BY <1>1, FS_StrictSubsetOrderingWellFounded, WFMin, Zenon
<1>3. PICK k \in S : x = 0..k
  OBVIOUS
<1>4. ASSUME NEW j \in S, j < k PROVE FALSE
  <2>1. k \in 0..k /\ k \notin 0..j
    BY <1>4
  <2>2. 0..j \subseteq Nat /\ 0..k \subseteq Nat /\ 0..j \subseteq 0..k
    BY <1>4
  <2>3. <<0..j, 0..k>> \in StrictSubsetOrdering(Nat)
    BY <2>1, <2>2, Zenon DEF StrictSubsetOrdering
  <2>. QED
    BY <1>2, <1>3, <2>3
<1>. QED
  BY <1>4

LEMMA Induction ==
  ASSUME NEW S, 0 \in S, \A n \in Nat : n \in S => n + 1 \in S
  PROVE  Nat \subseteq S
<1>. SUFFICES ASSUME Nat \ S # {} PROVE FALSE
  OBVIOUS
<1>1. PICK k \in Nat \ S : \A j \in Nat \ S : k <= j
  BY LeastNatural
<1>2. k - 1 \in Nat /\ k - 1 \in S
  BY <1>1
<1>. QED
  BY <1>1, <1>2

IsFilter(f, s, gone, n) ==
  f = [i \in 0..n |-> IF i = 0 THEN <<>>
                     ELSE IF s[i] \in gone THEN f[i - 1] ELSE Append(f[i - 1], s[i])]

LEMMA FilterExists ==
  ASSUME NEW s, NEW gone, NEW n \in Nat
  PROVE  \E f : IsFilter(f, s, gone, n)
<1>. DEFINE S == {m \in Nat : \E f : IsFilter(f, s, gone, m)}
<1>1. 0 \in S
  <2>. DEFINE f == [i \in 0..0 |-> <<>>]
  <2>1. IsFilter(f, s, gone, 0)
    BY DEF IsFilter
  <2>. QED
    BY <2>1
<1>2. ASSUME NEW m \in Nat, m \in S PROVE m + 1 \in S
  <2>1. PICK f : IsFilter(f, s, gone, m)
    BY <1>2
  <2>. DEFINE next(p, i) == IF s[i] \in gone THEN p[i - 1] ELSE Append(p[i - 1], s[i])
              g == [i \in 0..(m + 1) |-> IF i = m + 1 THEN next(f, m + 1) ELSE f[i]]
              h == [i \in 0..(m + 1) |-> IF i = 0 THEN <<>> ELSE next(g, i)]
  <2>2. ASSUME NEW i \in 0..(m + 1) PROVE g[i] = h[i]
    <3>1. CASE i = 0
      BY <2>1, <3>1 DEF IsFilter
    <3>2. CASE i \in 1..m
      <4>1. i \in 0..m /\ i - 1 \in 0..m /\ i # 0 /\ i # m + 1 /\ i - 1 # m + 1
        BY <3>2
      <4>2. g[i] = f[i] /\ g[i - 1] = f[i - 1]
        BY <4>1
      <4>3. f[i] = IF s[i] \in gone THEN f[i - 1] ELSE Append(f[i - 1], s[i])
        BY <2>1, <4>1, Zenon DEF IsFilter
      <4>4. h[i] = IF s[i] \in gone THEN g[i - 1] ELSE Append(g[i - 1], s[i])
        BY <4>1, Zenon
      <4>. QED
        BY <4>2, <4>3, <4>4, Zenon
    <3>3. CASE i = m + 1
      BY <3>3
    <3>. QED
      BY <3>1, <3>2, <3>3
  <2>3. g = h
    BY <2>2
  <2>4. IsFilter(g, s, gone, m + 1)
    BY <2>3, Zenon DEF IsFilter
  <2>. QED
    BY <2>4
<1>. HIDE DEF S
<1>3. Nat \subseteq S
  BY <1>1, <1>2, Induction
<1>. QED
  BY <1>3 DEF S

Filters(f, s, gone) ==
  /\ f[0] = <<>>
  /\ \A i \in 1..Len(s) : f[i] = IF s[i] \in gone THEN f[i - 1] ELSE Append(f[i - 1], s[i])
  /\ Without(s, gone) = f[Len(s)]

LEMMA FilterSteps ==
  ASSUME NEW T, NEW s \in Seq(T), NEW gone
  PROVE  \E f : Filters(f, s, gone)
<1>. DEFINE kept[i \in 0..Len(s)] ==
              IF i = 0 THEN <<>>
              ELSE IF s[i] \in gone THEN kept[i - 1] ELSE Append(kept[i - 1], s[i])
<1>1. Len(s) \in Nat
  OBVIOUS
<1>2. Without(s, gone) = kept[Len(s)]
  BY Zenon DEF Without
<1>3. \E f : IsFilter(f, s, gone, Len(s))
  BY <1>1, FilterExists
<1>4. kept = [i \in 0..Len(s) |-> IF i = 0 THEN <<>>
                ELSE IF s[i] \in gone THEN kept[i - 1] ELSE Append(kept[i - 1], s[i])]
  BY <1>3, Zenon DEF IsFilter
<1>. HIDE DEF kept
<1>5. kept[0] = <<>>
  BY <1>1, <1>4
<1>6. \A i \in 1..Len(s) :
        kept[i] = IF s[i] \in gone THEN kept[i - 1] ELSE Append(kept[i - 1], s[i])
  <2>. TAKE i \in 1..Len(s)
  <2>1. i \in 0..Len(s) /\ i # 0
    BY <1>1
  <2>. QED
    BY <1>4, <2>1, Zenon
<1>. QED
  BY <1>2, <1>5, <1>6 DEF Filters

\* Taking a set away from a sequence takes it away from its range.
LEMMA RowsLeft ==
  ASSUME NEW T, NEW s \in Seq(T), NEW gone
  PROVE  Without(s, gone) \in Seq(T) /\ ToSet(Without(s, gone)) = ToSet(s) \ gone
<1>. DEFINE n == Len(s)
            upTo(i) == {s[j] : j \in 1..i}
<1>1. n \in Nat /\ DOMAIN s = 1..n /\ \A j \in 1..n : s[j] \in T
  OBVIOUS
<1>2. PICK f : Filters(f, s, gone)
  BY FilterSteps
<1>. HIDE DEF n
<1>3. /\ f[0] = <<>>
      /\ \A i \in 1..n : f[i] = IF s[i] \in gone THEN f[i - 1] ELSE Append(f[i - 1], s[i])
      /\ Without(s, gone) = f[n]
  BY <1>2 DEF Filters, n
<1>. DEFINE S == {i \in Nat : i <= n => f[i] \in Seq(T) /\ ToSet(f[i]) = upTo(i) \ gone}
<1>4. 0 \in S
  <2>1. upTo(0) = {} /\ <<>> \in Seq(T) /\ ToSet(<<>>) = {}
    BY DEF ToSet
  <2>. HIDE DEF upTo
  <2>. QED
    BY <1>3, <2>1
<1>. HIDE DEF upTo
<1>5. ASSUME NEW i \in Nat, i \in S PROVE i + 1 \in S
  <2>. SUFFICES ASSUME i + 1 <= n
                PROVE  f[i + 1] \in Seq(T) /\ ToSet(f[i + 1]) = upTo(i + 1) \ gone
    OBVIOUS
  <2>1. f[i + 1] \in Seq(T) /\ ToSet(f[i + 1]) = upTo(i + 1) \ gone
    <3>0. i + 1 \in 1..n /\ (i + 1) - 1 = i /\ i <= n
      BY <1>1
    <3>1. f[i] \in Seq(T) /\ ToSet(f[i]) = upTo(i) \ gone
      BY <1>5, <3>0
    <3>2. f[i + 1] = IF s[i + 1] \in gone THEN f[i] ELSE Append(f[i], s[i + 1])
      BY <1>3, <3>0
    <3>3. upTo(i + 1) = upTo(i) \cup {s[i + 1]}
      <4>1. \A j \in 1..(i + 1) : j \in 1..i \/ j = i + 1
        OBVIOUS
      <4>2. i + 1 \in 1..(i + 1) /\ \A j \in 1..i : j \in 1..(i + 1)
        OBVIOUS
      <4>. QED
        BY <4>1, <4>2 DEF upTo
    <3>4. CASE s[i + 1] \in gone
      BY <3>1, <3>2, <3>3, <3>4
    <3>5. CASE s[i + 1] \notin gone
      <4>. DEFINE g == f[i]
                  x == s[i + 1]
      <4>1. g \in Seq(T) /\ x \in T
        BY <1>1, <3>0, <3>1
      <4>. HIDE DEF g, x
      <4>2. /\ Append(g, x) \in Seq(T)
            /\ ToSet(Append(g, x)) = ToSet(g) \cup {x}
        <5>1. /\ Append(g, x) \in Seq(T) /\ Len(g) \in Nat
              /\ DOMAIN g = 1..Len(g) /\ DOMAIN Append(g, x) = 1..(Len(g) + 1)
              /\ Append(g, x)[Len(g) + 1] = x
              /\ \A j \in 1..Len(g) : Append(g, x)[j] = g[j]
          BY <4>1
        <5>2. /\ \A j \in 1..(Len(g) + 1) : j \in 1..Len(g) \/ j = Len(g) + 1
              /\ Len(g) + 1 \in 1..(Len(g) + 1)
              /\ \A j \in 1..Len(g) : j \in 1..(Len(g) + 1)
          BY <5>1
        <5>. DEFINE h == Append(g, x)
        <5>3. h \in Seq(T) /\ DOMAIN h = 1..(Len(g) + 1) /\ h[Len(g) + 1] = x
              /\ \A j \in 1..Len(g) : h[j] = g[j]
          BY <5>1
        <5>. HIDE DEF h
        <5>4. {h[j] : j \in DOMAIN h} \subseteq {g[j] : j \in DOMAIN g} \cup {x}
          BY <5>1, <5>2, <5>3
        <5>5. {g[j] : j \in DOMAIN g} \cup {x} \subseteq {h[j] : j \in DOMAIN h}
          BY <5>1, <5>2, <5>3
        <5>6. {h[j] : j \in DOMAIN h} = {g[j] : j \in DOMAIN g} \cup {x}
          BY <5>4, <5>5
        <5>. QED
          BY <5>3, <5>6 DEF h, ToSet
      <4>3. f[i + 1] = Append(g, x)
        BY <3>2, <3>5 DEF g, x
      <4>4. ToSet(g) = upTo(i) \ gone
        BY <3>1 DEF g
      <4>5. upTo(i + 1) \ gone = (upTo(i) \ gone) \cup {x}
        BY <3>3, <3>5 DEF x
      <4>. QED
        BY <4>2, <4>3, <4>4, <4>5
    <3>. QED
      BY <3>4, <3>5
  <2>. QED
    BY <2>1
<1>. HIDE DEF S
<1>6. n \in S
  BY <1>1, <1>4, <1>5, Induction
<1>7. f[n] \in Seq(T) /\ ToSet(f[n]) = upTo(n) \ gone
  BY <1>1, <1>6 DEF S
<1>8. upTo(n) = ToSet(s)
  BY <1>1 DEF ToSet, upTo
<1>. QED
  BY <1>3, <1>7, <1>8

---------------------------------------------------------------------------
\* A row of the users table, and the flags of the relation rows there are.
Sound(place) == place \in Place /\ place.primary \cup place.typed \subseteq ToSet(place.rows)

(* What the edits do to a place. *)
LEMMA RowPlaced ==
  ASSUME NEW p, Sound(p), NEW m \in User
  PROVE  /\ Sound(withRow(p, m))
         /\ withRow(p, m).managerId = p.managerId /\ withRow(p, m).primary = p.primary
         /\ withRow(p, m).typed = p.typed
         /\ m \in ToSet(withRow(p, m).rows) /\ ToSet(p.rows) \subseteq ToSet(withRow(p, m).rows)
<1>1. CASE m \in ToSet(p.rows)
  BY <1>1 DEF withRow
<1>2. CASE m \notin ToSet(p.rows)
  <2>. DEFINE rows == Append(p.rows, m)
  <2>1. p.rows \in Seq(User)
    BY DEF Sound, Place
  <2>2. rows \in Seq(User) /\ m \in ToSet(rows) /\ ToSet(p.rows) \subseteq ToSet(rows)
    <3>1. rows \in Seq(User) /\ Len(p.rows) + 1 \in DOMAIN rows /\ rows[Len(p.rows) + 1] = m
          /\ \A j \in DOMAIN p.rows : j \in DOMAIN rows /\ rows[j] = p.rows[j]
      BY <2>1
    <3>. HIDE DEF rows
    <3>. QED
      BY <3>1 DEF ToSet
  <2>. HIDE DEF rows
  <2>3. withRow(p, m) = [p EXCEPT !.rows = rows]
    BY <1>2 DEF withRow, rows
  <2>. QED
    BY <2>2, <2>3 DEF Sound, Place
<1>. QED
  BY <1>1, <1>2

LEMMA ColumnSound ==
  ASSUME NEW p, Sound(p), NEW m \in User \cup {NoUser}
  PROVE  LET q == [p EXCEPT !.managerId = m]
         IN  Sound(q) /\ q.managerId = m /\ q.primary = p.primary
BY DEF Sound, Place

LEMMA RowsOfUsers ==
  ASSUME NEW p, Sound(p)
  PROVE  ToSet(p.rows) \subseteq User /\ p.rows \in Seq(User)
<1>1. p.rows \in Seq(User)
  BY DEF Sound, Place
<1>. QED
  BY <1>1 DEF ToSet

LEMMA PrimaryFlagsSound ==
  ASSUME NEW p, Sound(p), NEW P \in SUBSET ToSet(p.rows)
  PROVE  LET q == [p EXCEPT !.primary = P]
         IN  Sound(q) /\ q.managerId = p.managerId /\ q.primary = P
BY RowsOfUsers DEF Sound, Place

LEMMA FlagsSound ==
  ASSUME NEW p, Sound(p), NEW P \in SUBSET ToSet(p.rows), NEW T \in SUBSET ToSet(p.rows)
  PROVE  LET q == withFlags(p, P, T)
         IN  Sound(q) /\ q.managerId = p.managerId /\ q.primary = P
BY RowsOfUsers DEF Sound, Place, withFlags

LEMMA Retyped ==
  ASSUME NEW p, Sound(p), NEW m \in ToSet(p.rows), NEW T \in retyped(p, m)
  PROVE  T \in SUBSET ToSet(p.rows)
BY DEF Sound, retyped

LEMMA PrimarySound ==
  ASSUME NEW p, Sound(p), NEW m \in User
  PROVE  LET q == withPrimary(p, m)
         IN  Sound(q) /\ q.managerId = m /\ q.primary = {m}
<1>. DEFINE q == withRow(p, m)
<1>1. Sound(q) /\ m \in ToSet(q.rows)
  BY RowPlaced
<1>2. withPrimary(p, m) = [q EXCEPT !.managerId = m, !.primary = {m}, !.typed = q.typed \cup {m}]
  BY <1>1 DEF withPrimary
<1>. HIDE DEF q
<1>. DEFINE T == q.typed \cup {m}
<1>3. /\ {m} \subseteq User /\ T \subseteq User /\ {m} \cup T \subseteq ToSet(q.rows)
      /\ q \in Place
  BY <1>1 DEF Sound, Place
<1>4. withPrimary(p, m) = [q EXCEPT !.managerId = m, !.primary = {m}, !.typed = T]
  BY <1>2
<1>. HIDE DEF T
<1>5. /\ withPrimary(p, m) \in Place /\ withPrimary(p, m).rows = q.rows
      /\ withPrimary(p, m).managerId = m
      /\ withPrimary(p, m).primary = {m} /\ withPrimary(p, m).typed = T
  BY <1>3, <1>4 DEF Place
<1>. QED
  BY <1>3, <1>5, Zenon DEF Sound

LEMMA RelationSound ==
  ASSUME NEW p, Sound(p), NEW m \in User, NEW isPrimary \in BOOLEAN, NEW typed \in BOOLEAN
  PROVE  LET q == withRelation(p, m, isPrimary, typed)
         IN  /\ Sound(q) /\ q.managerId = p.managerId
             /\ q.primary = p.primary \cup {n \in {m} : isPrimary}
<1>. DEFINE q == withRow(p, m)
            P == {n \in {m} : isPrimary}
            T == {n \in {m} : typed}
<1>1. Sound(q) /\ m \in ToSet(q.rows) /\ q.managerId = p.managerId /\ q.primary = p.primary
  BY RowPlaced
<1>2. P \subseteq {m} /\ T \subseteq {m}
  OBVIOUS
<1>3. withRelation(p, m, isPrimary, typed)
        = [q EXCEPT !.primary = q.primary \cup P, !.typed = q.typed \cup T]
  BY <1>1 DEF withRelation
<1>. HIDE DEF q, P, T
<1>4. /\ Sound(withRelation(p, m, isPrimary, typed))
      /\ withRelation(p, m, isPrimary, typed).managerId = p.managerId
      /\ withRelation(p, m, isPrimary, typed).primary = p.primary \cup P
  BY <1>1, <1>2, <1>3 DEF Sound, Place
<1>. QED
  BY <1>4 DEF P

LEMMA RemovalSound ==
  ASSUME NEW p, Sound(p), NEW gone
  PROVE  LET q == withoutRows(p, gone)
         IN  Sound(q) /\ q.managerId = p.managerId /\ q.primary = p.primary \ gone
<1>. DEFINE left == Without(p.rows, gone)
<1>1. p.rows \in Seq(User)
  BY DEF Sound, Place
<1>2. left \in Seq(User) /\ ToSet(left) = ToSet(p.rows) \ gone
  BY <1>1, RowsLeft
<1>3. withoutRows(p, gone)
        = [p EXCEPT !.rows = left, !.primary = p.primary \ gone, !.typed = p.typed \ gone]
  BY DEF withoutRows
<1>. HIDE DEF left
<1>. QED
  BY <1>2, <1>3 DEF Sound, Place

---------------------------------------------------------------------------
(* Type correctness. *)

\* Which statement of which endpoint a request runs; nobody is the manager only of a
\* removal's column and of a demoted root's reports.
Authorised(r) ==
  /\ r \in Request
  /\ r.next = "set" => r.op = "setPrimaryManager"
  /\ r.next \in {"clear", "flag"} => r.op \in {"addRelation", "updateRelation"}
  /\ r.next = "create" => r.op = "addRelation"
  /\ r.next = "flag" => r.op = "updateRelation"
  /\ r.next = "column" => r.op \in {"addRelation", "updateRelation", "removeRelation"}
  /\ r.next \in {"destroy", "promote"} => r.op = "removeRelation"
  /\ r.next = "mirror" => r.op = "syncFromManagerId" /\ r.op \in use.operations
  /\ r.manager = NoUser => r.next = "move" \/ (r.op = "removeRelation" /\ r.next = "column")

ChartType ==
  /\ org = [u \in User |-> org[u]]
  /\ \A u \in User : Sound(org[u])
  /\ \A r \in inflight : Authorised(r)
  /\ use \in Uses
  /\ edits \in Nat
  /\ stale \subseteq Slots
  /\ overtaken \subseteq User /\ overlapped \subseteq User /\ drifted \subseteq User

LEMMA ChartTypeImplies == ChartType => TypeOK
<1>. SUFFICES ASSUME ChartType PROVE TypeOK
  OBVIOUS
<1>1. \A u \in User : org[u] \in Place
  BY DEF ChartType, Sound
<1>2. org \in [User -> Place]
  BY <1>1 DEF ChartType
<1>. QED
  BY <1>2 DEF ChartType, Sound, Authorised, TypeOK

\* A step by what it leaves of the organisation and of the requests.
LEMMA StepTyped ==
  ASSUME ChartType, Histories, use' = use, edits' \in {edits, edits + 1},
         org' = [u \in User |-> org'[u]], \A u \in User : Sound(org'[u]),
         \A r \in inflight' : Authorised(r)',
         drifted' \subseteq User, overtaken' \subseteq User
  PROVE  ChartType'
<1>1. stale' \subseteq Slots
  BY DEF Histories, Authorised, Request
<1>2. overlapped' \subseteq User
  BY DEF Histories, ChartType, Authorised, Request
<1>3. edits' \in Nat
  BY DEF ChartType
<1>. QED
  BY <1>1, <1>2, <1>3 DEF ChartType

\* One place is edited.
LEMMA Edited ==
  ASSUME ChartType, NEW e \in User, NEW q, Sound(q), org' = [org EXCEPT ![e] = q]
  PROVE  /\ org' = [u \in User |-> org'[u]] /\ \A u \in User : Sound(org'[u])
         /\ \A u \in User : org'[u] = IF u = e THEN q ELSE org[u]
<1>1. \A u \in User : org'[u] = IF u = e THEN q ELSE org[u]
  BY DEF ChartType
<1>2. org' = [u \in User |-> org'[u]]
  BY DEF ChartType
<1>. QED
  BY <1>1, <1>2 DEF ChartType

LEMMA Untouched ==
  ASSUME ChartType, org' = org
  PROVE  org' = [u \in User |-> org'[u]] /\ \A u \in User : Sound(org'[u])
BY DEF ChartType

\* The requests that go on are as authorised as before.
LEMMA OthersAuthorised ==
  ASSUME ChartType, use' = use
  PROVE  \A r \in inflight : Authorised(r)'
BY DEF ChartType, Authorised

LEMMA Answered ==
  ASSUME ChartType, NEW r, answer(r)
  PROVE  /\ use' = use /\ edits' = edits
         /\ inflight' \subseteq inflight
         /\ \A x \in inflight' : Authorised(x)'
BY OthersAuthorised DEF answer

\* The request with its next statement.
LEMMA NextStatement ==
  ASSUME NEW r \in Request, NEW st \in Statement
  PROVE  LET x == [r EXCEPT !.next = st]
         IN  /\ x \in Request /\ x.next = st /\ x.op = r.op /\ x.manager = r.manager
             /\ x.id = r.id /\ x.employee = r.employee /\ x.isPrimary = r.isPrimary
BY DEF Request

\* Which statement follows which.
Follows(r, st) ==
  \/ st = "column" /\ r.next = "clear"
  \/ st = "create" /\ r.op = "addRelation"
  \/ st = "flag" /\ r.op = "updateRelation"
  \/ st = "promote" /\ r.op = "removeRelation"

LEMMA Continued ==
  ASSUME ChartType, NEW r \in inflight, NEW st \in Statement, continue(r, st),
         r.manager # NoUser, Follows(r, st)
  PROVE  /\ use' = use /\ edits' = edits
         /\ inflight' \subseteq inflight \cup {[r EXCEPT !.next = st]}
         /\ \A x \in inflight' : Authorised(x)'
<1>1. Authorised(r)
  BY DEF ChartType
<1>. DEFINE x == [r EXCEPT !.next = st]
<1>2. x \in Request /\ x.next = st /\ x.op = r.op /\ x.manager = r.manager
  BY <1>1, NextStatement DEF Authorised
<1>3. use' = use /\ edits' = edits /\ inflight' = (inflight \ {r}) \cup {x}
  BY DEF continue
<1>. HIDE DEF x
<1>4. Authorised(x)'
  BY <1>1, <1>2, <1>3 DEF Authorised, Follows
<1>5. inflight' \subseteq inflight \cup {x} /\ \A y \in inflight' : Authorised(y)'
  BY <1>3, <1>4, OthersAuthorised
<1>. QED
  BY <1>3, <1>5 DEF x

LEMMA Begun ==
  ASSUME ChartType, NEW op, NEW e, NEW m, NEW isPrimary, NEW first,
         begin(op, e, m, isPrimary, first)
  PROVE  /\ org' = org /\ use' = use /\ edits' = edits + 1 /\ op \in use.operations
         /\ overtaken' = overtaken /\ drifted' = drifted
         /\ \E id \in Slots :
              inflight' = inflight \cup {[id |-> id, op |-> op, employee |-> e,
                             manager |-> m, isPrimary |-> isPrimary, next |-> first]}
BY DEF begin, accept

FirstStatement(op, first) ==
  \/ op = "setPrimaryManager" /\ first = "set"
  \/ op = "addRelation" /\ first \in {"clear", "create"}
  \/ op = "updateRelation" /\ first = "clear"
  \/ op = "removeRelation" /\ first = "destroy"
  \/ op = "syncFromManagerId" /\ first = "mirror"
  \/ op = "updateUser" /\ first = "move"

LEMMA BegunAuthorised ==
  ASSUME ChartType, use' = use,
         NEW id \in Slots, NEW op \in Operation, NEW e \in User, NEW m \in User \cup {NoUser},
         NEW isPrimary \in BOOLEAN, NEW first,
         FirstStatement(op, first),
         m = NoUser => first = "move", op \in use.operations,
         inflight' = inflight \cup {[id |-> id, op |-> op, employee |-> e, manager |-> m,
                                     isPrimary |-> isPrimary, next |-> first]}
  PROVE  \A r \in inflight' : Authorised(r)'
<1>. DEFINE r == [id |-> id, op |-> op, employee |-> e, manager |-> m, isPrimary |-> isPrimary,
                  next |-> first]
<1>1. first \in Statement
  BY DEF Statement, FirstStatement
<1>2. r \in Request /\ r.op = op /\ r.manager = m /\ r.next = first
  BY <1>1 DEF Request
<1>. HIDE DEF r
<1>3. Authorised(r)'
  BY <1>2 DEF Authorised, FirstStatement
<1>4. inflight' = inflight \cup {r}
  BY DEF r
<1>. QED
  BY <1>3, <1>4, OthersAuthorised

\* The steps of the requests, by what each does to the employee's place.
LEMMA PlacedTyped ==
  ASSUME ChartType, NEW r \in inflight, placed(r) \/ unplaced \/ unchecked(r)
  PROVE  drifted' \subseteq User /\ overtaken' \subseteq User
<1>1. r.employee \in User /\ drifted \subseteq User /\ overtaken \subseteq User
  BY DEF ChartType, Authorised, Request
<1>2. CASE placed(r)
  BY <1>1, <1>2 DEF placed
<1>3. CASE unplaced
  BY <1>1, <1>3 DEF unplaced
<1>4. CASE unchecked(r)
  BY <1>1, <1>4 DEF unchecked
<1>. QED
  BY <1>2, <1>3, <1>4

LEMMA RequestTyped ==
  ASSUME ChartType, NEW r \in inflight
  PROVE  /\ r.employee \in User /\ r.manager \in User \cup {NoUser} /\ r.isPrimary \in BOOLEAN
         /\ r.manager = NoUser => r.next = "move" \/ (r.op = "removeRelation" /\ r.next = "column")
         /\ Sound(org[r.employee])
BY DEF ChartType, Authorised, Request

LEMMA SetEdit ==
  ASSUME ChartType, NEW r \in inflight, setPrimaryManager(r)
  PROVE  LET q == withPrimary(org[r.employee], r.manager)
         IN  /\ org' = [org EXCEPT ![r.employee] = q]
             /\ Sound(q) /\ q.managerId = r.manager /\ q.primary = {r.manager}
             /\ r.manager \in User
<1>1. r.next = "set" /\ r.manager \in User
  BY RequestTyped DEF setPrimaryManager
<1>2. org' = [org EXCEPT ![r.employee] = withPrimary(org[r.employee], r.manager)]
  BY RequestTyped DEF setPrimaryManager, ChartType
<1>. QED
  BY <1>1, <1>2, RequestTyped, PrimarySound

LEMMA RemoveEdit ==
  ASSUME ChartType, NEW e \in User, removePrimaryManager(e)
  PROVE  \E q : /\ org' = [org EXCEPT ![e] = q]
                /\ Sound(q) /\ q.managerId = NoUser /\ q.primary = {}
<1>. DEFINE gone == IF org[e].primary # {} THEN org[e].primary
                    ELSE {org[e].managerId} \cap org[e].typed
<1>1. org' = [org EXCEPT ![e] = [withoutRows(org[e], gone) EXCEPT !.managerId = NoUser]]
  BY DEF removePrimaryManager, ChartType
<1>2. org[e].primary \ gone = {}
  OBVIOUS
<1>. HIDE DEF gone
<1>3. /\ Sound(withoutRows(org[e], gone))
      /\ withoutRows(org[e], gone).primary = org[e].primary \ gone
  BY RemovalSound DEF ChartType
<1>. DEFINE q == [withoutRows(org[e], gone) EXCEPT !.managerId = NoUser]
<1>4. org' = [org EXCEPT ![e] = q] /\ Sound(q) /\ q.managerId = NoUser /\ q.primary = {}
  BY <1>1, <1>2, <1>3, ColumnSound
<1>. HIDE DEF q
<1>. QED
  BY <1>4

LEMMA UnsetEdit ==
  ASSUME ChartType, NEW e \in User, NEW m \in User, unsetPrimaryRelation(e, m)
  PROVE  \E q : /\ org' = [org EXCEPT ![e] = q]
                /\ Sound(q) /\ q.managerId = org[e].managerId
                /\ q.primary \subseteq org[e].primary
<1>1. PICK P \in {org[e].primary, org[e].primary \ {m}}, T \in retyped(org[e], m) :
        org' = [org EXCEPT ![e] = withFlags(org[e], P, T)]
  BY DEF unsetPrimaryRelation
<1>2. Sound(org[e]) /\ m \in ToSet(org[e].rows)
  BY DEF unsetPrimaryRelation, ChartType
<1>3. T \in SUBSET ToSet(org[e].rows)
  BY <1>2, Retyped
<1>4. P \in SUBSET ToSet(org[e].rows) /\ P \subseteq org[e].primary
  BY <1>2 DEF Sound
<1>. DEFINE q == withFlags(org[e], P, T)
<1>5. /\ org' = [org EXCEPT ![e] = q] /\ Sound(q)
      /\ q.managerId = org[e].managerId /\ q.primary = P
  BY <1>1, <1>2, <1>3, <1>4, FlagsSound
<1>. HIDE DEF q
<1>. QED
  BY <1>4, <1>5

LEMMA ClearEdit ==
  ASSUME ChartType, NEW r \in inflight, clearPrimaries(r)
  PROVE  \E q : /\ org' = [org EXCEPT ![r.employee] = q]
                /\ Sound(q) /\ q.managerId = org[r.employee].managerId
                /\ q.primary = IF r.op = "updateRelation"
                               THEN org[r.employee].primary \cap {r.manager} ELSE {}
<1>. DEFINE P == IF r.op = "updateRelation" THEN org[r.employee].primary \cap {r.manager}
                 ELSE {}
<1>1. org' = [org EXCEPT ![r.employee] = [org[r.employee] EXCEPT !.primary = P]]
  BY RequestTyped DEF clearPrimaries, ChartType
<1>2. P \in SUBSET ToSet(org[r.employee].rows)
  BY RequestTyped DEF Sound
<1>3. P = IF r.op = "updateRelation" THEN org[r.employee].primary \cap {r.manager} ELSE {}
  OBVIOUS
<1>. HIDE DEF P
<1>. DEFINE q == [org[r.employee] EXCEPT !.primary = P]
<1>4. /\ org' = [org EXCEPT ![r.employee] = q] /\ Sound(q)
      /\ q.managerId = org[r.employee].managerId /\ q.primary = P
  BY <1>1, <1>2, RequestTyped, PrimaryFlagsSound
<1>. HIDE DEF q
<1>. QED
  BY <1>3, <1>4

LEMMA ColumnEdit ==
  ASSUME ChartType, NEW r \in inflight, writeColumn(r)
  PROVE  \E q : /\ org' = [org EXCEPT ![r.employee] = q]
                /\ Sound(q) /\ q.managerId = r.manager /\ q.primary = org[r.employee].primary
<1>1. org' = [org EXCEPT ![r.employee] = [org[r.employee] EXCEPT !.managerId = r.manager]]
  BY RequestTyped DEF writeColumn, ChartType
<1>. DEFINE q == [org[r.employee] EXCEPT !.managerId = r.manager]
<1>2. /\ org' = [org EXCEPT ![r.employee] = q] /\ Sound(q)
      /\ q.managerId = r.manager /\ q.primary = org[r.employee].primary
  BY <1>1, RequestTyped, ColumnSound
<1>. HIDE DEF q
<1>. QED
  BY <1>2

LEMMA CreateEdit ==
  ASSUME ChartType, NEW r \in inflight, createRow(r), org' # org
  PROVE  \E q : /\ org' = [org EXCEPT ![r.employee] = q]
                /\ Sound(q) /\ q.managerId = org[r.employee].managerId
                /\ q.primary = org[r.employee].primary \cup {n \in {r.manager} : r.isPrimary}
<1>1. r.next = "create" /\ r.manager \in User
  BY RequestTyped DEF createRow
<1>2. PICK typed \in BOOLEAN :
        org' = [org EXCEPT ![r.employee] = withRelation(@, r.manager, r.isPrimary, typed)]
  BY DEF createRow
<1>3. org' = [org EXCEPT ![r.employee] =
                withRelation(org[r.employee], r.manager, r.isPrimary, typed)]
  BY <1>2, RequestTyped DEF ChartType
<1>. DEFINE q == withRelation(org[r.employee], r.manager, r.isPrimary, typed)
<1>4. /\ org' = [org EXCEPT ![r.employee] = q] /\ Sound(q)
      /\ q.managerId = org[r.employee].managerId
      /\ q.primary = org[r.employee].primary \cup {n \in {r.manager} : r.isPrimary}
  BY <1>1, <1>3, RequestTyped, RelationSound
<1>. HIDE DEF q
<1>. QED
  BY <1>4

LEMMA FlagEdit ==
  ASSUME ChartType, NEW r \in inflight, flagRow(r), org' # org
  PROVE  \E q : /\ org' = [org EXCEPT ![r.employee] = q]
                /\ Sound(q) /\ q.managerId = org[r.employee].managerId
                /\ q.primary = org[r.employee].primary \cup {r.manager}
<1>. DEFINE place == org[r.employee]
<1>1. r.manager \in ToSet(place.rows) /\ Sound(place)
  BY RequestTyped DEF flagRow
<1>2. PICK T \in retyped(place, r.manager) :
        org' = [org EXCEPT ![r.employee] = withFlags(place, place.primary \cup {r.manager}, T)]
  BY DEF flagRow
<1>. HIDE DEF place
<1>3. T \in SUBSET ToSet(place.rows)
  BY <1>1, Retyped
<1>4. place.primary \cup {r.manager} \in SUBSET ToSet(place.rows)
  BY <1>1 DEF Sound
<1>5. LET q == withFlags(place, place.primary \cup {r.manager}, T)
      IN  Sound(q) /\ q.managerId = place.managerId /\ q.primary = place.primary \cup {r.manager}
  BY <1>1, <1>3, <1>4, FlagsSound
<1>. QED
  BY <1>2, <1>5 DEF place

LEMMA DestroyEdit ==
  ASSUME ChartType, NEW r \in inflight, destroyRow(r)
  PROVE  \E q : /\ org' = [org EXCEPT ![r.employee] = q]
                /\ Sound(q) /\ q.managerId = org[r.employee].managerId
                /\ q.primary = org[r.employee].primary \ {r.manager}
<1>1. org' = [org EXCEPT ![r.employee] = withoutRows(org[r.employee], {r.manager})]
  BY RequestTyped DEF destroyRow, ChartType
<1>. DEFINE q == withoutRows(org[r.employee], {r.manager})
<1>2. /\ org' = [org EXCEPT ![r.employee] = q] /\ Sound(q)
      /\ q.managerId = org[r.employee].managerId
      /\ q.primary = org[r.employee].primary \ {r.manager}
  BY <1>1, RequestTyped, RemovalSound
<1>. HIDE DEF q
<1>. QED
  BY <1>2

LEMMA PromoteEdit ==
  ASSUME ChartType, NEW r \in inflight, promoteNext(r)
  PROVE  \E q, chosen :
           /\ chosen \in User \cup {NoUser}
           /\ org' = [org EXCEPT ![r.employee] = q]
           /\ Sound(q) /\ q.managerId = org[r.employee].managerId
           /\ q.primary = org[r.employee].primary \cup ({chosen} \ {NoUser})
           /\ inflight' = (inflight \ {r}) \cup {[r EXCEPT !.manager = chosen, !.next = "column"]}
<1>. DEFINE rows == org[r.employee].rows
            chosen == IF rows = <<>> THEN NoUser ELSE rows[1]
            P == org[r.employee].primary \cup ({chosen} \ {NoUser})
<1>1. /\ org' = [org EXCEPT ![r.employee] = [org[r.employee] EXCEPT !.primary = P]]
      /\ inflight' = (inflight \ {r}) \cup {[r EXCEPT !.manager = chosen, !.next = "column"]}
  BY RequestTyped DEF promoteNext, ChartType
<1>2. /\ chosen \in User \cup {NoUser}
      /\ {chosen} \ {NoUser} \subseteq ToSet(rows)
  <2>1. rows \in Seq(User)
    BY RequestTyped, RowsOfUsers
  <2>. HIDE DEF rows
  <2>2. rows # <<>> => 1 \in DOMAIN rows /\ rows[1] \in User /\ rows[1] \in ToSet(rows)
    BY <2>1 DEF ToSet
  <2>. QED
    BY <2>2
<1>. HIDE DEF chosen
<1>3. P \in SUBSET ToSet(org[r.employee].rows)
  BY <1>2, RequestTyped DEF Sound
<1>4. P = org[r.employee].primary \cup ({chosen} \ {NoUser})
  OBVIOUS
<1>. HIDE DEF P
<1>. DEFINE q == [org[r.employee] EXCEPT !.primary = P]
<1>5. /\ org' = [org EXCEPT ![r.employee] = q] /\ Sound(q)
      /\ q.managerId = org[r.employee].managerId /\ q.primary = P
  BY <1>1, <1>3, RequestTyped, PrimaryFlagsSound
<1>. HIDE DEF q
<1>. QED
  BY <1>1, <1>2, <1>4, <1>5, Zenon

LEMMA MirrorEdit ==
  ASSUME ChartType, NEW r \in inflight, mirrorColumn(r), org' # org
  PROVE  \E q : /\ org' = [org EXCEPT ![r.employee] = q]
                /\ Sound(q) /\ q.managerId = org[r.employee].managerId
                /\ q.primary = org[r.employee].primary \cup {r.manager}
<1>1. r.manager \in User
  BY RequestTyped DEF mirrorColumn
<1>2. org' = [org EXCEPT ![r.employee] = withRelation(org[r.employee], r.manager, TRUE, TRUE)]
  BY RequestTyped DEF mirrorColumn, ChartType
<1>3. {n \in {r.manager} : TRUE} = {r.manager}
  OBVIOUS
<1>. DEFINE q == withRelation(org[r.employee], r.manager, TRUE, TRUE)
<1>4. /\ org' = [org EXCEPT ![r.employee] = q] /\ Sound(q)
      /\ q.managerId = org[r.employee].managerId
      /\ q.primary = org[r.employee].primary \cup {r.manager}
  <2>1. /\ Sound(q) /\ q.managerId = org[r.employee].managerId
        /\ q.primary = org[r.employee].primary \cup {n \in {r.manager} : TRUE}
    BY <1>1, RequestTyped, RelationSound
  <2>. HIDE DEF q
  <2>2. org' = [org EXCEPT ![r.employee] = q]
    BY <1>2 DEF q
  <2>. QED
    BY <1>3, <2>1, <2>2
<1>. HIDE DEF q
<1>. QED
  BY <1>4

LEMMA MoveEdit ==
  ASSUME ChartType, NEW r \in inflight, moveReports(r)
  PROVE  /\ org' = [u \in User |-> org'[u]] /\ \A u \in User : Sound(org'[u])
         /\ \A u \in User : /\ org'[u].primary = org[u].primary
                            /\ u \in drifted' \/ org'[u] = org[u]
         /\ drifted \subseteq drifted' /\ drifted' \subseteq User /\ overtaken' = overtaken
<1>. DEFINE reports == {u \in User : org[u].managerId = r.employee}
<1>1. /\ org' = [u \in User |-> IF u \in reports THEN [org[u] EXCEPT !.managerId = r.manager]
                                ELSE org[u]]
      /\ drifted' = drifted \cup reports /\ overtaken' = overtaken
  BY DEF moveReports
<1>2. reports \subseteq User /\ drifted \subseteq User
  BY DEF ChartType
<1>. HIDE DEF reports
<1>3. ASSUME NEW u \in User
      PROVE  /\ Sound(org'[u]) /\ org'[u].primary = org[u].primary
             /\ u \in drifted' \/ org'[u] = org[u]
  <2>1. Sound(org[u]) /\ r.manager \in User \cup {NoUser}
    BY RequestTyped DEF ChartType
  <2>2. LET q == [org[u] EXCEPT !.managerId = r.manager]
        IN  Sound(q) /\ q.primary = org[u].primary
    BY <2>1, ColumnSound
  <2>3. CASE u \in reports
    BY <1>1, <2>2, <2>3
  <2>4. CASE u \notin reports
    BY <1>1, <2>1, <2>4
  <2>. QED
    BY <2>3, <2>4
<1>4. org' = [u \in User |-> org'[u]]
  BY <1>1
<1>. QED
  BY <1>1, <1>2, <1>3, <1>4

LEMMA BeginTyped ==
  ASSUME ChartType, Histories,
         NEW op \in Operation, NEW e \in User, NEW m \in User \cup {NoUser},
         NEW isPrimary \in BOOLEAN, NEW first, begin(op, e, m, isPrimary, first),
         FirstStatement(op, first),
         m = NoUser => first = "move"
  PROVE  ChartType'
<1>1. /\ org' = org /\ use' = use /\ edits' = edits + 1 /\ op \in use.operations
      /\ overtaken' = overtaken /\ drifted' = drifted
  BY Begun
<1>2. \A r \in inflight' : Authorised(r)'
  BY <1>1, Begun, BegunAuthorised
<1>. QED
  BY <1>1, <1>2, Untouched, StepTyped DEF ChartType

\* A request runs a statement on the place of its employee, or none.
LEMMA StatementTyped ==
  ASSUME ChartType, Histories, NEW r \in inflight, placed(r) \/ unplaced \/ unchecked(r),
         use' = use, edits' = edits, \A x \in inflight' : Authorised(x)',
         org' = org \/ \E q : Sound(q) /\ org' = [org EXCEPT ![r.employee] = q]
  PROVE  ChartType'
<1>1. org' = [u \in User |-> org'[u]] /\ \A u \in User : Sound(org'[u])
  BY Untouched, Edited, RequestTyped
<1>2. drifted' \subseteq User /\ overtaken' \subseteq User
  BY PlacedTyped
<1>. QED
  BY <1>1, <1>2, StepTyped

\* A transaction or statement that is a request of its own.
LEMMA AtomicTyped ==
  ASSUME ChartType, Histories, NEW op, accept(op), NEW e \in User,
         UNCHANGED <<inflight, overtaken, drifted>>,
         \E q : Sound(q) /\ org' = [org EXCEPT ![e] = q]
  PROVE  ChartType'
<1>1. use' = use /\ edits' = edits + 1
  BY DEF accept
<1>2. \A x \in inflight' : Authorised(x)'
  BY <1>1, OthersAuthorised
<1>3. org' = [u \in User |-> org'[u]] /\ \A u \in User : Sound(org'[u])
  BY Edited
<1>. QED
  BY <1>1, <1>2, <1>3, StepTyped DEF ChartType

\* The first statement of each endpoint, and what it has checked.
Starts(op, e, manager, isPrimary, first) ==
  /\ op \in Operation /\ manager \in User \cup {NoUser} /\ isPrimary \in BOOLEAN
  /\ begin(op, e, manager, isPrimary, first)
  /\ FirstStatement(op, first)
  /\ manager = NoUser => first = "move"
  /\ first \in {"set", "clear"} => ~wouldCreateCycle(org, e, manager)
  /\ first = "create" => ~isPrimary
  /\ first = "destroy" /\ isPrimary => manager \in org[e].primary
  /\ first = "mirror" => manager = org[e].managerId

LEMMA Beginnings ==
  ASSUME ChartType, NEW e \in User, NEW m \in User, NEW p \in BOOLEAN,
         checkSetPrimaryManager(e, m) \/ addRelation(e, m, p) \/ updateRelation(e, m)
           \/ removeRelation(e, m) \/ syncFromManagerId(e) \/ demoteManager(e)
  PROVE  \E op, manager, isPrimary, first : Starts(op, e, manager, isPrimary, first)
<1>. USE DEF Operation, FirstStatement
<1>0. m # NoUser
  BY NoUserAssumption
<1>1. CASE checkSetPrimaryManager(e, m)
  <2>1. Starts("setPrimaryManager", e, m, TRUE, "set")
    BY <1>0, <1>1 DEF checkSetPrimaryManager, canEditHierarchy, Starts
  <2>. QED
    BY <2>1
<1>2. CASE addRelation(e, m, p)
  <2>1. PICK first \in {"clear", "create"} : first = IF p THEN "clear" ELSE "create"
    OBVIOUS
  <2>2. begin("addRelation", e, m, p, first) /\ canEditHierarchy(e, m)
    BY <1>2, <2>1 DEF addRelation
  <2>3. ~wouldCreateCycle(org, e, m)
    BY <1>0, <2>2 DEF canEditHierarchy
  <2>4. Starts("addRelation", e, m, p, first)
    BY <1>0, <2>1, <2>2, <2>3 DEF Starts
  <2>. QED
    BY <2>4
<1>3. CASE updateRelation(e, m)
  <2>1. Starts("updateRelation", e, m, TRUE, "clear")
    BY <1>0, <1>3 DEF updateRelation, canEditHierarchy, Starts
  <2>. QED
    BY <2>1
<1>4. CASE removeRelation(e, m)
  <2>0. (m \in org[e].primary) \in BOOLEAN
    OBVIOUS
  <2>1. PICK b : b = (m \in org[e].primary)
    OBVIOUS
  <2>2. begin("removeRelation", e, m, b, "destroy")
    BY <1>4, <2>1, Zenon DEF removeRelation
  <2>3. b \in BOOLEAN /\ (b => m \in org[e].primary)
    BY <2>0, <2>1, Zenon
  <2>4. Starts("removeRelation", e, m, b, "destroy")
    BY <1>0, <2>2, <2>3 DEF Starts
  <2>. QED
    BY <2>4
<1>5. CASE syncFromManagerId(e)
  <2>1. org[e].managerId \in User /\ org[e].managerId # NoUser
    BY <1>5 DEF syncFromManagerId, ChartType, Sound, Place
  <2>2. Starts("syncFromManagerId", e, org[e].managerId, TRUE, "mirror")
    BY <1>5, <2>1 DEF syncFromManagerId, Starts
  <2>. QED
    BY <2>2
<1>6. CASE demoteManager(e)
  <2>1. org[e].managerId \in User \cup {NoUser}
    BY DEF ChartType, Sound, Place
  <2>2. Starts("updateUser", e, org[e].managerId, FALSE, "move")
    BY <1>6, <2>1 DEF demoteManager, Starts
  <2>. QED
    BY <2>2
<1>. QED
  BY <1>1, <1>2, <1>3, <1>4, <1>5, <1>6

\* What each statement does to the requests and to the marks.
LEMMA Statements ==
  ASSUME ChartType, NEW r \in inflight,
         setPrimaryManager(r) \/ clearPrimaries(r) \/ writeColumn(r) \/ createRow(r)
           \/ flagRow(r) \/ destroyRow(r) \/ mirrorColumn(r) \/ fail(r)
  PROVE  /\ use' = use /\ edits' = edits
         /\ \A x \in inflight' : Authorised(x)'
         /\ placed(r) \/ unplaced \/ unchecked(r)
<1>. USE DEF Statement, Follows
<1>1. CASE setPrimaryManager(r) \/ createRow(r) \/ flagRow(r) \/ mirrorColumn(r) \/ fail(r)
  BY <1>1, Answered DEF setPrimaryManager, createRow, flagRow, mirrorColumn, fail
<1>2. CASE clearPrimaries(r)
  <2>1. r.next = "clear" /\ unplaced /\ continue(r, "column") /\ r.manager # NoUser
    BY <1>2, RequestTyped DEF clearPrimaries
  <2>. QED
    BY <2>1, Continued
<1>3. CASE writeColumn(r)
  <2>1. CASE r.op = "addRelation"
    <3>1. placed(r) /\ continue(r, "create") /\ r.manager # NoUser
      BY <1>3, <2>1, RequestTyped DEF writeColumn
    <3>. QED
      BY <2>1, <3>1, Continued
  <2>2. CASE r.op = "updateRelation"
    <3>1. placed(r) /\ continue(r, "flag") /\ r.manager # NoUser
      BY <1>3, <2>2, RequestTyped DEF writeColumn
    <3>. QED
      BY <2>2, <3>1, Continued
  <2>3. CASE r.op \notin {"addRelation", "updateRelation"}
    BY <1>3, <2>3, Answered DEF writeColumn
  <2>. QED
    BY <2>1, <2>2, <2>3
<1>4. CASE destroyRow(r)
  <2>1. /\ r.next = "destroy" /\ r.op = "removeRelation" /\ r.manager # NoUser /\ unplaced
        /\ continue(r, "promote") \/ answer(r)
    BY <1>4, RequestTyped DEF destroyRow, ChartType, Authorised
  <2>. QED
    BY <2>1, Continued, Answered
<1>. QED
  BY <1>1, <1>2, <1>3, <1>4

LEMMA PromotedRequest ==
  ASSUME NEW r \in Request, NEW m \in User \cup {NoUser}
  PROVE  LET x == [r EXCEPT !.manager = m, !.next = "column"]
         IN  /\ x \in Request /\ x.next = "column" /\ x.op = r.op /\ x.employee = r.employee
             /\ x.id = r.id
BY DEF Request, Statement

LEMMA NextChartType ==
  ASSUME ChartType, [Next]_vars
  PROVE  ChartType'
<1>1. CASE UNCHANGED vars
  BY <1>1 DEF vars, ChartType, Authorised
<1>. SUFFICES ASSUME Step, Histories PROVE ChartType'
  BY <1>1 DEF Next
<1>2. ASSUME NEW e \in User, NEW m \in User, NEW p \in BOOLEAN,
             checkSetPrimaryManager(e, m) \/ addRelation(e, m, p) \/ updateRelation(e, m)
               \/ removeRelation(e, m) \/ syncFromManagerId(e) \/ demoteManager(e)
      PROVE  ChartType'
  <2>1. PICK op, manager, isPrimary, first : Starts(op, e, manager, isPrimary, first)
    BY <1>2, Beginnings
  <2>. QED
    BY <2>1, BeginTyped DEF Starts
<1>3. ASSUME NEW e \in User, removePrimaryManager(e) PROVE ChartType'
  <2>1. accept("removePrimaryManager") /\ UNCHANGED <<inflight, overtaken, drifted>>
    BY <1>3 DEF removePrimaryManager
  <2>. QED
    BY <1>3, <2>1, RemoveEdit, AtomicTyped
<1>4. ASSUME NEW e \in User, NEW m \in User, unsetPrimaryRelation(e, m) PROVE ChartType'
  <2>1. accept("updateRelation") /\ UNCHANGED <<inflight, overtaken, drifted>>
    BY <1>4 DEF unsetPrimaryRelation
  <2>. QED
    BY <1>4, <2>1, UnsetEdit, AtomicTyped
<1>5. ASSUME NEW r \in inflight,
             setPrimaryManager(r) \/ clearPrimaries(r) \/ writeColumn(r) \/ createRow(r)
               \/ flagRow(r) \/ destroyRow(r) \/ mirrorColumn(r) \/ fail(r)
      PROVE  ChartType'
  <2>1. org' = org \/ \E q : Sound(q) /\ org' = [org EXCEPT ![r.employee] = q]
    <3>1. CASE setPrimaryManager(r)
      BY <3>1, SetEdit
    <3>2. CASE clearPrimaries(r)
      BY <3>2, ClearEdit
    <3>3. CASE writeColumn(r)
      BY <3>3, ColumnEdit
    <3>4. CASE createRow(r)
      BY <3>4, CreateEdit
    <3>5. CASE flagRow(r)
      BY <3>5, FlagEdit
    <3>6. CASE destroyRow(r)
      BY <3>6, DestroyEdit
    <3>7. CASE mirrorColumn(r)
      BY <3>7, MirrorEdit
    <3>8. CASE fail(r)
      BY <3>8 DEF fail
    <3>. QED
      BY <1>5, <3>1, <3>2, <3>3, <3>4, <3>5, <3>6, <3>7, <3>8
  <2>. QED
    BY <1>5, <2>1, Statements, StatementTyped
<1>6. ASSUME NEW r \in inflight, promoteNext(r) PROVE ChartType'
  <2>1. PICK q, chosen :
           /\ chosen \in User \cup {NoUser}
           /\ org' = [org EXCEPT ![r.employee] = q] /\ Sound(q)
           /\ inflight' = (inflight \ {r}) \cup {[r EXCEPT !.manager = chosen, !.next = "column"]}
    BY <1>6, PromoteEdit
  <2>2. r.next = "promote" /\ unchecked(r) /\ use' = use /\ edits' = edits
    BY <1>6 DEF promoteNext
  <2>. DEFINE x == [r EXCEPT !.manager = chosen, !.next = "column"]
  <2>3. r \in Request /\ r.op = "removeRelation"
    BY <2>2 DEF ChartType, Authorised
  <2>4. x \in Request /\ x.next = "column" /\ x.op = "removeRelation"
    BY <2>1, <2>3, PromotedRequest
  <2>5. inflight' = (inflight \ {r}) \cup {x}
    BY <2>1
  <2>. HIDE DEF x
  <2>6. Authorised(x)'
    BY <2>4 DEF Authorised
  <2>7. \A y \in inflight' : Authorised(y)'
    BY <2>2, <2>5, <2>6, OthersAuthorised
  <2>. QED
    BY <2>1, <2>2, <2>7, StatementTyped
<1>7. ASSUME NEW r \in inflight, moveReports(r) PROVE ChartType'
  <2>1. answer(r)
    BY <1>7 DEF moveReports
  <2>. QED
    BY <1>7, <2>1, Answered, MoveEdit, StepTyped DEF ChartType
<1>. QED
  BY <1>2, <1>3, <1>4, <1>5, <1>6, <1>7 DEF Step

LEMMA InitChartType == Init => ChartType
<1>. SUFFICES ASSUME Init PROVE ChartType
  OBVIOUS
<1>1. <<>> \in Seq(User) /\ Sound(Root)
  BY DEF Root, Sound, Place
<1>. QED
  BY <1>1 DEF Init, ChartType

(* Requests that run at once, in any number, stop half way or meet deleted rows    *)
(* leave no flag without its relation row, and none writes a row for nobody: the    *)
(* null manager of a removal or of a demoted root reaches the column only.        *)
THEOREM TypeCorrect == Spec => []TypeOK
<1>1. ChartType /\ [Next]_vars => ChartType'
  BY NextChartType
<1>. QED
  BY <1>1, InitChartType, ChartTypeImplies, PTL DEF Spec

---------------------------------------------------------------------------
(* The chart.  A request knows the flags it has cleared and the column it has     *)
(* written, as long as no other writes about the same employee (overlapped); and    *)
(* its climb still holds, as long as nobody else got another manager (stale).      *)
(* Neither asks what the other requests do: each step disturbs at most what its     *)
(* histories record.                                                           *)
Alone == "syncFromManagerId" \notin use.operations

AtMostOne(S) == \A x, y \in S : x = y

SinglePrimary ==
  \A u \in User : u \notin overlapped /\ (u \in drifted => Alone) => AtMostOne(org[u].primary)

\* A request that has checked a manager and not yet written the column.
Placing(r) ==
  r.next = "set" \/ (r.next \in {"clear", "column"} /\ r.op \in {"addRelation", "updateRelation"})

Climbed(r) ==
  Placing(r) /\ r.id \notin stale => ~wouldCreateCycle(org, r.employee, r.manager)

Written(r) ==
  /\ r.op = "addRelation" /\ r.next = "column" => org[r.employee].primary = {}
  /\ r.next = "create" /\ r.isPrimary =>
       org[r.employee].primary = {} /\ org[r.employee].managerId = r.manager
  /\ r.op = "updateRelation" /\ r.next = "column" => org[r.employee].primary \subseteq {r.manager}
  /\ r.next = "flag" =>
       /\ org[r.employee].primary \subseteq {r.manager}
       /\ org[r.employee].managerId = r.manager
  /\ r.next = "destroy" /\ r.isPrimary => r.manager \in org[r.employee].primary
  /\ r.next = "promote" /\ Alone => org[r.employee].primary = {}
  /\ r.next = "mirror" => org[r.employee].managerId = r.manager

Midway(r) == Climbed(r) /\ (r.employee \notin overlapped => Written(r))

ChartInv ==
  /\ SinglePrimary
  /\ ColumnFollowsPrimary
  /\ Acyclic
  /\ \A r \in inflight : Midway(r)

\* What a step does not disturb of the requests that did not take it.
LEMMA OthersMidway ==
  ASSUME ChartInv, Histories, use' = use
  PROVE  \A q \in inflight : q \in inflight' => Midway(q)'
<1>. SUFFICES ASSUME NEW q \in inflight, q \in inflight' PROVE Midway(q)'
  OBVIOUS
<1>1. Midway(q) /\ waits(q)
  BY DEF ChartInv, waits
<1>2. Climbed(q)'
  <2>. SUFFICES ASSUME Placing(q), q.id \notin stale'
                PROVE  ~wouldCreateCycle(org', q.employee, q.manager)
    BY DEF Climbed, Placing
  <2>1. q.id \notin stale /\ ~reparented
    BY <1>1 DEF Histories
  <2>2. PICK A \in SUBSET User :
          /\ q.manager \in A /\ q.employee \notin A
          /\ \A u \in A : getPrimaryManagerId(org, u) \cap (A \cup {NoUser}) # {}
    BY <1>1, <2>1 DEF Midway, Climbed, wouldCreateCycle
  <2>3. \A u \in User : \/ getPrimaryManagerId(org', u) = getPrimaryManagerId(org, u)
                        \/ NoUser \in getPrimaryManagerId(org', u)
    BY <2>1 DEF reparented
  <2>4. \A u \in A : getPrimaryManagerId(org', u) \cap (A \cup {NoUser}) # {}
    BY <2>2, <2>3
  <2>. QED
    BY <2>2, <2>4 DEF wouldCreateCycle
<1>3. ASSUME q.employee \notin overlapped' PROVE Written(q)'
  <2>1. q.employee \notin overlapped /\ (q.next = "move" \/ org'[q.employee] = org[q.employee])
    BY <1>1, <1>3 DEF Histories
  <2>2. Written(q)
    BY <1>1, <2>1 DEF Midway
  <2>. QED
    BY <2>1, <2>2 DEF Written, Alone
<1>. QED
  BY <1>2, <1>3 DEF Midway

\* Histories only grow, but for what a placement takes back.
LEMMA Growing ==
  ASSUME Histories
  PROVE  overlapped \subseteq overlapped'
BY DEF Histories

\* Users whose column stays or is emptied make no new loop.
LEMMA ColumnsKept ==
  ASSUME Acyclic,
         \A u \in User :
           \/ u \in apart' \cup overtaken'
           \/ /\ u \notin apart \cup overtaken
              /\ org'[u].managerId = org[u].managerId \/ org'[u].managerId = NoUser
  PROVE  Acyclic'
<1>. SUFFICES ASSUME NEW S \in SUBSET User, S # {}, S \cap (apart' \cup overtaken') = {},
                     \A u \in S : org'[u].managerId \in S
              PROVE  FALSE
  BY DEF Acyclic
<1>1. \A u \in S : u \notin apart \cup overtaken /\ org'[u].managerId # NoUser
  BY NoUserAssumption
<1>2. \A u \in S : org[u].managerId \in S
  BY <1>1
<1>. QED
  BY <1>1, <1>2 DEF Acyclic

\* Placing an employee below a manager whose climb still misses them makes none either.
LEMMA CheckedPlacement ==
  ASSUME ChartType, ChartInv, Histories, NEW r \in inflight, Placing(r), placed(r),
         \A u \in User : org'[u].managerId = IF u = r.employee THEN r.manager ELSE org[u].managerId
  PROVE  Acyclic'
<1>. DEFINE e == r.employee
<1>1. overlapped \subseteq overlapped'
  BY Growing
<1>2. CASE r.id \in stale
  <2>1. e \in overtaken' /\ overtaken \subseteq overtaken' /\ drifted \ {e} \subseteq drifted'
    BY <1>2 DEF placed
  <2>. QED
    BY <1>1, <2>1, ColumnsKept DEF apart, ChartInv
<1>3. CASE r.id \notin stale
  <2>1. PICK A \in SUBSET User :
          /\ r.manager \in A /\ e \notin A
          /\ \A u \in A : getPrimaryManagerId(org, u) \cap (A \cup {NoUser}) # {}
    BY <1>3 DEF ChartInv, Midway, Climbed, wouldCreateCycle
  <2>2. SUFFICES ASSUME NEW S \in SUBSET User, S # {}, S \cap (apart' \cup overtaken') = {},
                        \A u \in S : org'[u].managerId \in S
                 PROVE  FALSE
    BY DEF Acyclic
  <2>3. \A u \in S : u # e => u \notin apart \cup overtaken
    BY <1>1, <1>3, <2>2 DEF apart, placed
  <2>4. e \in S
    <3>. SUFFICES ASSUME e \notin S PROVE FALSE
      OBVIOUS
    <3>1. \A u \in S : org[u].managerId \in S /\ u \notin apart \cup overtaken
      BY <2>2, <2>3
    <3>. QED
      BY <2>2, <3>1 DEF ChartInv, Acyclic
  <2>5. r.manager \in S \cap A
    BY <2>1, <2>2, <2>4
  <2>6. ASSUME NEW u \in S \cap A PROVE org[u].managerId \in S \cap A /\ u \notin apart \cup overtaken
    <3>1. u # e /\ u \in User /\ u \notin apart \cup overtaken
      BY <2>1, <2>3
    <3>2. org[u].managerId \in S /\ org[u].managerId # NoUser
      BY <2>2, <3>1, NoUserAssumption
    <3>3. getPrimaryManagerId(org, u) = {org[u].managerId}
      BY <3>1 DEF ChartInv, ColumnFollowsPrimary, getPrimaryManagerId
    <3>4. getPrimaryManagerId(org, u) \cap (A \cup {NoUser}) # {}
      BY <2>1
    <3>. QED
      BY <3>1, <3>2, <3>3, <3>4
  <2>. QED
    BY <2>5, <2>6 DEF ChartInv, Acyclic
<1>. QED
  BY <1>2, <1>3

\* The records after an edit of one place.
LEMMA OnePlace ==
  ASSUME ChartType, ChartInv, Histories, use' = use, NEW e \in User, NEW q,
         \A u \in User : org'[u] = IF u = e THEN q ELSE org[u],
         \A u \in User : u # e => (u \in drifted' <=> u \in drifted),
         e \notin overlapped' /\ (e \in drifted' => Alone) => AtMostOne(q.primary),
         e \notin apart' => (q.primary # {} => q.primary = {q.managerId})
  PROVE  SinglePrimary' /\ ColumnFollowsPrimary'
<1>1. overlapped \subseteq overlapped'
  BY Growing
<1>2. Alone' <=> Alone
  BY DEF Alone
<1>3. SinglePrimary'
  BY <1>1, <1>2 DEF ChartInv, SinglePrimary
<1>4. ColumnFollowsPrimary'
  BY <1>1 DEF ChartInv, ColumnFollowsPrimary, apart
<1>. QED
  BY <1>3, <1>4

\* A step that writes nothing about anybody.
LEMMA Unmoved ==
  ASSUME ChartInv, Histories, org' = org, use' = use, overtaken' = overtaken, drifted' = drifted
  PROVE  SinglePrimary' /\ ColumnFollowsPrimary' /\ Acyclic'
<1>1. overlapped \subseteq overlapped'
  BY Growing
<1>2. SinglePrimary' /\ ColumnFollowsPrimary'
  BY <1>1 DEF ChartInv, SinglePrimary, ColumnFollowsPrimary, apart, Alone
<1>3. Acyclic'
  BY <1>1 DEF ChartInv, Acyclic, apart
<1>. QED
  BY <1>2, <1>3

\* The marks of a statement, but for other users.
LEMMA OneMarked ==
  ASSUME ChartType, NEW r \in inflight, placed(r) \/ unplaced \/ unchecked(r)
  PROVE  /\ \A u \in User : u # r.employee =>
              (u \in drifted' <=> u \in drifted) /\ (u \in overtaken' <=> u \in overtaken)
         /\ unplaced => drifted' = drifted /\ overtaken' = overtaken
         /\ unchecked(r) => r.employee \in drifted' /\ drifted \subseteq drifted'
                            /\ overtaken' = overtaken
BY DEF placed, unplaced, unchecked

---------------------------------------------------------------------------
(* A request that begins has passed its check and not written yet. *)
LEMMA BeginKeeps ==
  ASSUME ChartType, ChartInv, Histories, NEW e \in User, NEW m \in User, NEW p \in BOOLEAN,
         checkSetPrimaryManager(e, m) \/ addRelation(e, m, p) \/ updateRelation(e, m)
           \/ removeRelation(e, m) \/ syncFromManagerId(e) \/ demoteManager(e)
  PROVE  ChartInv'
<1>1. PICK op, manager, isPrimary, first : Starts(op, e, manager, isPrimary, first)
  BY Beginnings
<1>2. /\ org' = org /\ use' = use /\ overtaken' = overtaken /\ drifted' = drifted
  BY <1>1, Begun DEF Starts
<1>3. PICK id \in Slots :
        inflight' = inflight \cup {[id |-> id, op |-> op, employee |-> e, manager |-> manager,
                                    isPrimary |-> isPrimary, next |-> first]}
  BY <1>1, Begun DEF Starts
<1>. DEFINE r == [id |-> id, op |-> op, employee |-> e, manager |-> manager,
                  isPrimary |-> isPrimary, next |-> first]
<1>4. /\ r.op = op /\ r.employee = e /\ r.manager = manager /\ r.isPrimary = isPrimary
      /\ r.next = first /\ inflight' = inflight \cup {r}
  BY <1>3
<1>. HIDE DEF r
<1>5. Climbed(r)'
  <2>1. Placing(r) => first \in {"set", "clear"}
    BY <1>1, <1>4 DEF Placing, Starts, FirstStatement
  <2>. QED
    BY <1>1, <1>2, <1>4, <2>1 DEF Climbed, Placing, Starts
<1>6. Written(r)'
  <2>1. first \in {"set", "clear", "create", "destroy", "mirror", "move"}
    BY <1>1 DEF Starts, FirstStatement
  <2>. QED
    BY <1>1, <1>2, <1>4, <2>1 DEF Written, Starts
<1>7. Midway(r)'
  BY <1>5, <1>6 DEF Midway
<1>. QED
  BY <1>2, <1>4, <1>7, OthersMidway, Unmoved DEF ChartInv

\* The requests after one that is atomic, or after an answer.
LEMMA Left ==
  ASSUME ChartInv, Histories, use' = use, inflight' \subseteq inflight,
         SinglePrimary' /\ ColumnFollowsPrimary' /\ Acyclic'
  PROVE  ChartInv'
BY OthersMidway DEF ChartInv

\* ... and after one that goes on.
LEMMA Onward ==
  ASSUME ChartInv, Histories, use' = use, NEW x, inflight' \subseteq inflight \cup {x},
         Midway(x)', SinglePrimary' /\ ColumnFollowsPrimary' /\ Acyclic'
  PROVE  ChartInv'
BY OthersMidway DEF ChartInv

(* The transaction of setPrimaryManager writes both records. *)
LEMMA SetKeeps ==
  ASSUME ChartType, ChartInv, Histories, NEW r \in inflight, setPrimaryManager(r)
  PROVE  ChartInv'
<1>1. PICK q : /\ org' = [org EXCEPT ![r.employee] = q]
               /\ Sound(q) /\ q.managerId = r.manager /\ q.primary = {r.manager}
  BY SetEdit
<1>2. /\ r.next = "set" /\ placed(r) /\ answer(r) /\ use' = use /\ inflight' \subseteq inflight
      /\ r.employee \in User
  BY RequestTyped DEF setPrimaryManager, answer
<1>3. \A u \in User : org'[u] = IF u = r.employee THEN q ELSE org[u]
  BY <1>1, <1>2, Edited
<1>4. SinglePrimary' /\ ColumnFollowsPrimary'
  BY <1>1, <1>2, <1>3, OneMarked, OnePlace DEF AtMostOne
<1>5. Acyclic'
  BY <1>1, <1>2, <1>3, CheckedPlacement DEF Placing
<1>. QED
  BY <1>2, <1>4, <1>5, Left

(* The primary rows go with the column. *)
LEMMA RemoveKeeps ==
  ASSUME ChartType, ChartInv, Histories, NEW e \in User, removePrimaryManager(e)
  PROVE  ChartInv'
<1>1. PICK q : /\ org' = [org EXCEPT ![e] = q]
               /\ Sound(q) /\ q.managerId = NoUser /\ q.primary = {}
  BY RemoveEdit
<1>2. use' = use /\ inflight' = inflight /\ drifted' = drifted /\ overtaken' = overtaken
  BY DEF removePrimaryManager, accept
<1>3. \A u \in User : org'[u] = IF u = e THEN q ELSE org[u]
  BY <1>1, Edited
<1>4. SinglePrimary' /\ ColumnFollowsPrimary'
  BY <1>1, <1>2, <1>3, OnePlace DEF AtMostOne
<1>5. Acyclic'
  BY <1>1, <1>2, <1>3, Growing, ColumnsKept DEF ChartInv, apart
<1>. QED
  BY <1>2, <1>4, <1>5, Left

(* A flag taken back leaves the column. *)
LEMMA UnsetKeeps ==
  ASSUME ChartType, ChartInv, Histories, NEW e \in User, NEW m \in User,
         unsetPrimaryRelation(e, m)
  PROVE  ChartInv'
<1>1. PICK q : /\ org' = [org EXCEPT ![e] = q]
               /\ Sound(q) /\ q.managerId = org[e].managerId /\ q.primary \subseteq org[e].primary
  BY UnsetEdit
<1>2. use' = use /\ inflight' = inflight /\ drifted' = drifted /\ overtaken' = overtaken
  BY DEF unsetPrimaryRelation, accept
<1>3. \A u \in User : org'[u] = IF u = e THEN q ELSE org[u]
  BY <1>1, Edited
<1>4. SinglePrimary' /\ ColumnFollowsPrimary'
  <2>1. e \notin overlapped' /\ (e \in drifted' => Alone) => AtMostOne(q.primary)
    BY <1>1, <1>2, Growing DEF ChartInv, SinglePrimary, AtMostOne
  <2>2. e \notin apart' => (q.primary # {} => q.primary = {q.managerId})
    BY <1>1, <1>2, Growing DEF ChartInv, ColumnFollowsPrimary, apart
  <2>. QED
    BY <1>2, <1>3, <2>1, <2>2, OnePlace
<1>5. Acyclic'
  BY <1>1, <1>2, <1>3, Growing, ColumnsKept DEF ChartInv, apart
<1>. QED
  BY <1>2, <1>4, <1>5, Left

(* Clearing the other flags leaves at most the one about to be set. *)
LEMMA ClearKeeps ==
  ASSUME ChartType, ChartInv, Histories, NEW r \in inflight, clearPrimaries(r)
  PROVE  ChartInv'
<1>1. PICK q : /\ org' = [org EXCEPT ![r.employee] = q]
               /\ Sound(q) /\ q.managerId = org[r.employee].managerId
               /\ q.primary = IF r.op = "updateRelation"
                              THEN org[r.employee].primary \cap {r.manager} ELSE {}
  BY ClearEdit
<1>2. /\ r.next = "clear" /\ unplaced /\ continue(r, "column") /\ r.employee \in User
      /\ r.manager # NoUser /\ Follows(r, "column")
  BY RequestTyped DEF clearPrimaries, Follows
<1>3. PICK x : x = [r EXCEPT !.next = "column"]
  OBVIOUS
<1>4. use' = use /\ inflight' \subseteq inflight \cup {x} /\ x \in inflight'
  BY <1>2, <1>3 DEF continue
<1>5. /\ x.next = "column" /\ x.op = r.op /\ x.manager = r.manager
      /\ x.id = r.id /\ x.employee = r.employee
      /\ r.op \in {"addRelation", "updateRelation"}
  BY <1>2, <1>3, NextStatement DEF ChartType, Authorised, Statement
<1>6. drifted' = drifted /\ overtaken' = overtaken
  BY <1>2 DEF unplaced
<1>7. \A u \in User : org'[u] = IF u = r.employee THEN q ELSE org[u]
  BY <1>1, <1>2, Edited
<1>8. q.primary \subseteq org[r.employee].primary /\ q.primary \subseteq {r.manager}
  BY <1>1
<1>9. SinglePrimary' /\ ColumnFollowsPrimary'
  <2>1. AtMostOne(q.primary)
    BY <1>8 DEF AtMostOne
  <2>2. r.employee \notin apart' => (q.primary # {} => q.primary = {q.managerId})
    BY <1>1, <1>2, <1>6, <1>8, Growing DEF ChartInv, ColumnFollowsPrimary, apart
  <2>. QED
    BY <1>2, <1>4, <1>6, <1>7, <2>1, <2>2, OnePlace
<1>10. Acyclic'
  BY <1>1, <1>6, <1>7, Growing, ColumnsKept DEF ChartInv, apart
<1>11. Climbed(x)'
  <2>. SUFFICES ASSUME x.id \notin stale' PROVE ~wouldCreateCycle(org', r.employee, r.manager)
    BY <1>5 DEF Climbed
  <2>1. r.id \notin stale
    BY <1>4, <1>5 DEF Histories
  <2>2. PICK A \in SUBSET User :
          /\ r.manager \in A /\ r.employee \notin A
          /\ \A u \in A : getPrimaryManagerId(org, u) \cap (A \cup {NoUser}) # {}
    BY <1>2, <1>5, <2>1 DEF ChartInv, Midway, Climbed, Placing, wouldCreateCycle
  <2>3. \A u \in A : getPrimaryManagerId(org', u) = getPrimaryManagerId(org, u)
    BY <1>7, <2>2 DEF getPrimaryManagerId
  <2>. QED
    BY <2>2, <2>3 DEF wouldCreateCycle
<1>12. Written(x)'
  BY <1>1, <1>2, <1>5, <1>7, <1>8 DEF Written
<1>13. Midway(x)'
  BY <1>11, <1>12 DEF Midway
<1>. QED
  BY <1>4, <1>9, <1>10, <1>13, Onward

(* The column is written after the check, with no other primary row left; or      *)
(* after a promotion, unchecked.                                               *)
LEMMA ColumnKeeps ==
  ASSUME ChartType, ChartInv, Histories, NEW r \in inflight, writeColumn(r)
  PROVE  ChartInv'
<1>1. PICK q : /\ org' = [org EXCEPT ![r.employee] = q]
               /\ Sound(q) /\ q.managerId = r.manager /\ q.primary = org[r.employee].primary
  BY ColumnEdit
<1>2. /\ r.next = "column" /\ r.employee \in User
      /\ r.op \in {"addRelation", "updateRelation", "removeRelation"}
      /\ Midway(r)
  BY RequestTyped DEF writeColumn, ChartType, Authorised, ChartInv
<1>3. \A u \in User : org'[u] = IF u = r.employee THEN q ELSE org[u]
  BY <1>1, <1>2, Edited
<1>4. overlapped \subseteq overlapped'
  BY Growing
<1>5. ASSUME NEW s \in {"create", "flag"}, placed(r), continue(r, s),
             s = "create" => r.op = "addRelation", s = "flag" => r.op = "updateRelation"
      PROVE  ChartInv'
  <2>1. PICK x : x = [r EXCEPT !.next = s]
    OBVIOUS
  <2>2. use' = use /\ inflight' \subseteq inflight \cup {x}
    BY <1>5, <2>1 DEF continue
  <2>3. /\ x.next = s /\ x.op = r.op /\ x.manager = r.manager
        /\ x.employee = r.employee
    BY <2>1, NextStatement DEF ChartType, Authorised, Statement
  <2>4. r.employee \notin overlapped' =>
          /\ r.op = "addRelation" => q.primary = {}
          /\ q.primary \subseteq {r.manager}
    BY <1>1, <1>2, <1>4, <1>5 DEF Midway, Written
  <2>5. SinglePrimary' /\ ColumnFollowsPrimary'
    <3>1. r.employee \notin overlapped' => AtMostOne(q.primary)
      BY <2>4 DEF AtMostOne
    <3>2. r.employee \notin apart' => (q.primary # {} => q.primary = {q.managerId})
      BY <1>1, <2>4 DEF apart
    <3>. QED
      BY <1>2, <1>3, <1>5, <2>2, <3>1, <3>2, OneMarked, OnePlace
  <2>6. Acyclic'
    BY <1>1, <1>2, <1>3, <1>5, CheckedPlacement DEF Placing
  <2>7. Midway(x)'
    <3>1. Climbed(x)'
      BY <2>3 DEF Climbed, Placing
    <3>2. x.employee \notin overlapped' => Written(x)'
      BY <1>1, <1>2, <1>3, <1>5, <2>3, <2>4 DEF Written
    <3>. QED
      BY <3>1, <3>2 DEF Midway
  <2>. QED
    BY <2>2, <2>5, <2>6, <2>7, Onward
<1>6. ASSUME r.op = "removeRelation" PROVE ChartInv'
  <2>1. unchecked(r) /\ use' = use /\ inflight' \subseteq inflight
    BY <1>6 DEF writeColumn, answer
  <2>2. SinglePrimary' /\ ColumnFollowsPrimary'
    <3>1. r.employee \notin overlapped' /\ (r.employee \in drifted' => Alone) => AtMostOne(q.primary)
      BY <1>1, <1>2, <1>4, <2>1 DEF ChartInv, SinglePrimary, unchecked
    <3>2. r.employee \in apart'
      BY <2>1 DEF unchecked, apart
    <3>. QED
      BY <1>2, <1>3, <2>1, <3>1, <3>2, OneMarked, OnePlace
  <2>3. Acyclic'
    BY <1>1, <1>3, <1>4, <2>1, ColumnsKept DEF ChartInv, unchecked, apart
  <2>. QED
    BY <2>1, <2>2, <2>3, Left
<1>7. CASE r.op = "addRelation"
  BY <1>5, <1>7 DEF writeColumn
<1>8. CASE r.op = "updateRelation"
  BY <1>5, <1>8 DEF writeColumn
<1>. QED
  BY <1>2, <1>6, <1>7, <1>8

(* The row is created when no other is primary and the column is written. *)
LEMMA CreateKeeps ==
  ASSUME ChartType, ChartInv, Histories, NEW r \in inflight, createRow(r)
  PROVE  ChartInv'
<1>1. /\ r.next = "create" /\ unplaced /\ use' = use /\ inflight' \subseteq inflight
      /\ r.employee \in User /\ Midway(r)
      /\ drifted' = drifted /\ overtaken' = overtaken
  BY RequestTyped DEF createRow, answer, unplaced, ChartInv
<1>2. CASE org' = org
  BY <1>1, <1>2, Unmoved, Left
<1>3. CASE org' # org
  <2>1. PICK q : /\ org' = [org EXCEPT ![r.employee] = q]
                 /\ Sound(q) /\ q.managerId = org[r.employee].managerId
                 /\ q.primary = org[r.employee].primary \cup {n \in {r.manager} : r.isPrimary}
    BY <1>3, CreateEdit
  <2>2. \A u \in User : org'[u] = IF u = r.employee THEN q ELSE org[u]
    BY <1>1, <2>1, Edited
  <2>3. r.employee \notin overlapped =>
          \/ q.primary = org[r.employee].primary
          \/ q.primary = {r.manager} /\ q.managerId = r.manager
    BY <1>1, <2>1 DEF Midway, Written
  <2>4. SinglePrimary' /\ ColumnFollowsPrimary'
    <3>1. r.employee \notin overlapped' /\ (r.employee \in drifted' => Alone) => AtMostOne(q.primary)
      BY <1>1, <2>3, Growing DEF ChartInv, SinglePrimary, AtMostOne
    <3>2. r.employee \notin apart' => (q.primary # {} => q.primary = {q.managerId})
      BY <1>1, <2>1, <2>3, Growing DEF ChartInv, ColumnFollowsPrimary, apart
    <3>. QED
      BY <1>1, <2>2, <3>1, <3>2, OnePlace
  <2>5. Acyclic'
    BY <1>1, <2>1, <2>2, Growing, ColumnsKept DEF ChartInv, apart
  <2>. QED
    BY <1>1, <2>4, <2>5, Left
<1>. QED
  BY <1>2, <1>3

(* The flag is set where at most it was left and the column agrees. *)
LEMMA FlagKeeps ==
  ASSUME ChartType, ChartInv, Histories, NEW r \in inflight, flagRow(r)
  PROVE  ChartInv'
<1>1. /\ r.next = "flag" /\ unplaced /\ use' = use /\ inflight' \subseteq inflight
      /\ r.employee \in User /\ Midway(r)
      /\ drifted' = drifted /\ overtaken' = overtaken
  BY RequestTyped DEF flagRow, answer, unplaced, ChartInv
<1>2. CASE org' = org
  BY <1>1, <1>2, Unmoved, Left
<1>3. CASE org' # org
  <2>1. PICK q : /\ org' = [org EXCEPT ![r.employee] = q]
                 /\ Sound(q) /\ q.managerId = org[r.employee].managerId
                 /\ q.primary = org[r.employee].primary \cup {r.manager}
    BY <1>3, FlagEdit
  <2>2. \A u \in User : org'[u] = IF u = r.employee THEN q ELSE org[u]
    BY <1>1, <2>1, Edited
  <2>3. r.employee \notin overlapped' => q.primary = {r.manager} /\ q.managerId = r.manager
    BY <1>1, <2>1, Growing DEF Midway, Written
  <2>4. SinglePrimary' /\ ColumnFollowsPrimary'
    <3>1. r.employee \notin overlapped' => AtMostOne(q.primary)
      BY <2>3 DEF AtMostOne
    <3>2. r.employee \notin apart' => (q.primary # {} => q.primary = {q.managerId})
      BY <2>3 DEF apart
    <3>. QED
      BY <1>1, <2>2, <3>1, <3>2, OnePlace
  <2>5. Acyclic'
    BY <1>1, <2>1, <2>2, Growing, ColumnsKept DEF ChartInv, apart
  <2>. QED
    BY <1>1, <2>4, <2>5, Left
<1>. QED
  BY <1>2, <1>3

(* A relation is destroyed; the row of the primary manager takes the flag with it. *)
LEMMA DestroyKeeps ==
  ASSUME ChartType, ChartInv, Histories, NEW r \in inflight, destroyRow(r)
  PROVE  ChartInv'
<1>1. PICK q : /\ org' = [org EXCEPT ![r.employee] = q]
               /\ Sound(q) /\ q.managerId = org[r.employee].managerId
               /\ q.primary = org[r.employee].primary \ {r.manager}
  BY DestroyEdit
<1>2. /\ r.next = "destroy" /\ use' = use /\ r.employee \in User /\ Midway(r)
      /\ drifted' = drifted /\ overtaken' = overtaken
  BY RequestTyped DEF destroyRow, answer, continue, unplaced, ChartInv
<1>3. \A u \in User : org'[u] = IF u = r.employee THEN q ELSE org[u]
  BY <1>1, <1>2, Edited
<1>4. SinglePrimary' /\ ColumnFollowsPrimary'
  <2>1. r.employee \notin overlapped' /\ (r.employee \in drifted' => Alone) => AtMostOne(q.primary)
    BY <1>1, <1>2, Growing DEF ChartInv, SinglePrimary, AtMostOne
  <2>2. r.employee \notin apart' => (q.primary # {} => q.primary = {q.managerId})
    BY <1>1, <1>2, Growing DEF ChartInv, ColumnFollowsPrimary, apart
  <2>. QED
    BY <1>2, <1>3, <2>1, <2>2, OnePlace
<1>5. Acyclic'
  BY <1>1, <1>2, <1>3, Growing, ColumnsKept DEF ChartInv, apart
<1>6. CASE ~r.isPrimary
  BY <1>2, <1>4, <1>5, <1>6, Left DEF destroyRow, answer
<1>7. CASE r.isPrimary
  <2>1. PICK x : x = [r EXCEPT !.next = "promote"]
    OBVIOUS
  <2>2. inflight' \subseteq inflight \cup {x}
    BY <1>7, <2>1 DEF destroyRow, continue
  <2>3. x.next = "promote" /\ x.employee = r.employee
    BY <2>1, NextStatement DEF ChartType, Authorised, Statement
  <2>4. ASSUME r.employee \notin overlapped', Alone PROVE q.primary = {}
    <3>1. AtMostOne(org[r.employee].primary) /\ r.manager \in org[r.employee].primary
      BY <1>2, <1>7, <2>4, Growing DEF ChartInv, SinglePrimary, Midway, Written
    <3>. QED
      BY <1>1, <3>1 DEF AtMostOne
  <2>5. Midway(x)'
    <3>1. Climbed(x)'
      BY <2>3 DEF Climbed, Placing
    <3>2. x.employee \notin overlapped' => Written(x)'
      BY <1>2, <1>3, <2>3, <2>4 DEF Written, Alone
    <3>. QED
      BY <3>1, <3>2 DEF Midway
  <2>. QED
    BY <1>2, <1>4, <1>5, <2>2, <2>5, Onward
<1>. QED
  BY <1>6, <1>7

(* The promoted row becomes the only primary one. *)
LEMMA PromoteKeeps ==
  ASSUME ChartType, ChartInv, Histories, NEW r \in inflight, promoteNext(r)
  PROVE  ChartInv'
<1>1. PICK q, chosen :
        /\ chosen \in User \cup {NoUser}
        /\ org' = [org EXCEPT ![r.employee] = q]
        /\ Sound(q) /\ q.managerId = org[r.employee].managerId
        /\ q.primary = org[r.employee].primary \cup ({chosen} \ {NoUser})
        /\ inflight' = (inflight \ {r}) \cup {[r EXCEPT !.manager = chosen, !.next = "column"]}
  BY PromoteEdit
<1>2. /\ r.next = "promote" /\ unchecked(r) /\ use' = use /\ r.employee \in User /\ Midway(r)
      /\ r \in Request /\ r.op = "removeRelation"
  BY RequestTyped DEF promoteNext, ChartInv, ChartType, Authorised
<1>3. \A u \in User : org'[u] = IF u = r.employee THEN q ELSE org[u]
  BY <1>1, <1>2, Edited
<1>4. PICK x : x = [r EXCEPT !.manager = chosen, !.next = "column"]
  OBVIOUS
<1>5. /\ x.next = "column" /\ x.op = "removeRelation" /\ x.employee = r.employee
      /\ inflight' \subseteq inflight \cup {x}
  BY <1>1, <1>2, <1>4, PromotedRequest
<1>6. SinglePrimary' /\ ColumnFollowsPrimary'
  <2>1. r.employee \notin overlapped' /\ (r.employee \in drifted' => Alone) => AtMostOne(q.primary)
    BY <1>1, <1>2, Growing DEF Midway, Written, AtMostOne, unchecked
  <2>2. r.employee \in apart'
    BY <1>2 DEF unchecked, apart
  <2>. QED
    BY <1>2, <1>3, <2>1, <2>2, OneMarked, OnePlace
<1>7. Acyclic'
  BY <1>1, <1>2, <1>3, Growing, ColumnsKept DEF ChartInv, unchecked, apart
<1>8. Midway(x)'
  BY <1>5 DEF Midway, Climbed, Placing, Written
<1>. QED
  BY <1>2, <1>5, <1>6, <1>7, <1>8, Onward

(* A column without row gets the primary one: the only one, for had the user      *)
(* another primary row it would be the column's.                              *)
LEMMA MirrorKeeps ==
  ASSUME ChartType, ChartInv, Histories, NEW r \in inflight, mirrorColumn(r)
  PROVE  ChartInv'
<1>1. /\ r.next = "mirror" /\ use' = use /\ inflight' \subseteq inflight
      /\ r.employee \in User /\ Midway(r) /\ ~Alone
      /\ drifted' = drifted /\ overtaken' = overtaken
  BY RequestTyped DEF mirrorColumn, answer, unplaced, ChartInv, ChartType, Authorised, Alone
<1>2. CASE org' = org
  BY <1>1, <1>2, Unmoved, Left
<1>3. CASE org' # org
  <2>1. PICK q : /\ org' = [org EXCEPT ![r.employee] = q]
                 /\ Sound(q) /\ q.managerId = org[r.employee].managerId
                 /\ q.primary = org[r.employee].primary \cup {r.manager}
    BY <1>3, MirrorEdit
  <2>2. \A u \in User : org'[u] = IF u = r.employee THEN q ELSE org[u]
    BY <1>1, <2>1, Edited
  <2>3. r.employee \notin apart' => q.primary = {r.manager} /\ q.managerId = r.manager
    BY <1>1, <2>1, Growing DEF Midway, Written, ChartInv, ColumnFollowsPrimary, apart
  <2>4. SinglePrimary' /\ ColumnFollowsPrimary'
    <3>1. r.employee \notin overlapped' /\ (r.employee \in drifted' => Alone) => AtMostOne(q.primary)
      BY <1>1, <2>3 DEF AtMostOne, apart
    <3>2. r.employee \notin apart' => (q.primary # {} => q.primary = {q.managerId})
      BY <2>3
    <3>. QED
      BY <1>1, <2>2, <3>1, <3>2, OnePlace
  <2>5. Acyclic'
    BY <1>1, <2>1, <2>2, Growing, ColumnsKept DEF ChartInv, apart
  <2>. QED
    BY <1>1, <2>4, <2>5, Left
<1>. QED
  BY <1>2, <1>3

(* A demotion moves columns only; the users moved are marked. *)
LEMMA MoveKeeps ==
  ASSUME ChartType, ChartInv, Histories, NEW r \in inflight, moveReports(r)
  PROVE  ChartInv'
<1>1. use' = use /\ inflight' \subseteq inflight
  BY DEF moveReports, answer
<1>2. /\ \A u \in User : /\ org'[u].primary = org[u].primary
                         /\ u \in drifted' \/ org'[u] = org[u]
      /\ drifted \subseteq drifted' /\ overtaken' = overtaken
  BY MoveEdit
<1>3. overlapped \subseteq overlapped'
  BY Growing
<1>4. SinglePrimary'
  BY <1>1, <1>2, <1>3 DEF ChartInv, SinglePrimary, Alone
<1>5. ColumnFollowsPrimary'
  BY <1>2, <1>3 DEF ChartInv, ColumnFollowsPrimary, apart
<1>6. Acyclic'
  BY <1>2, <1>3, ColumnsKept DEF ChartInv, apart
<1>. QED
  BY <1>1, <1>4, <1>5, <1>6, Left

---------------------------------------------------------------------------
Inv == ChartType /\ ChartInv

(* Every statement, and every request that stops after one, keeps the chart. *)
LEMMA NextInv ==
  ASSUME Inv, [Next]_vars
  PROVE  Inv'
<1>1. ChartType'
  BY NextChartType DEF Inv
<1>2. ChartInv'
  <2>1. CASE UNCHANGED vars
    BY <2>1 DEF vars, Inv, ChartInv, SinglePrimary, ColumnFollowsPrimary, Acyclic, apart,
                Midway, Climbed, Placing, Written, Alone
  <2>. SUFFICES ASSUME ChartType, ChartInv, Step, Histories PROVE ChartInv'
    BY <2>1 DEF Inv, Next
  <2>2. ASSUME NEW r \in inflight, fail(r) PROVE ChartInv'
    <3>1. /\ org' = org /\ use' = use /\ inflight' \subseteq inflight
          /\ drifted' = drifted /\ overtaken' = overtaken
      BY <2>2 DEF fail, answer, unplaced
    <3>. QED
      BY <3>1, Unmoved, Left
  <2>3. \A e, m \in User : \A p \in BOOLEAN :
          checkSetPrimaryManager(e, m) \/ addRelation(e, m, p) \/ updateRelation(e, m)
            \/ removeRelation(e, m) \/ syncFromManagerId(e) \/ demoteManager(e) => ChartInv'
    BY BeginKeeps
  <2>4. TRUE \in BOOLEAN
    OBVIOUS
  <2>. QED
    BY <2>2, <2>3, <2>4, RemoveKeeps, UnsetKeeps, SetKeeps, ClearKeeps, ColumnKeeps, CreateKeeps,
       FlagKeeps, DestroyKeeps, PromoteKeeps, MirrorKeeps, MoveKeeps, Zenon DEF Step
<1>. QED
  BY <1>1, <1>2 DEF Inv

(* An organisation without managers satisfies all of it. *)
LEMMA InitInv == Init => Inv
<1>. SUFFICES ASSUME Init PROVE Inv
  OBVIOUS
<1>1. \A u \in User : org[u].managerId = NoUser /\ org[u].primary = {}
  BY DEF Init, Root
<1>2. Acyclic
  BY <1>1, NoUserAssumption DEF Acyclic
<1>. QED
  BY <1>1, <1>2, InitChartType
     DEF Init, Inv, ChartInv, SinglePrimary, ColumnFollowsPrimary, AtMostOne

(* Whatever runs at once and stops half way, the check at write time                 *)
(* (canEditHierarchy, hierarchyService.js:96) keeps everybody out of a loop of          *)
(* managers but the users the code lets through: promoted or moved without a check,      *)
(* written by two requests at once, or placed after the climb was overtaken.          *)
THEOREM NoCycle == Spec => []Acyclic
<1>1. Inv => Acyclic
  BY DEF Inv, ChartInv
<1>2. Inv /\ [Next]_vars => Inv'
  BY NextInv
<1>. QED
  BY <1>1, <1>2, InitInv, PTL DEF Spec

(* Clear, then set: no two primary rows of anybody about whom requests ran one at        *)
(* a time, finished or not, whatever others ran meanwhile (managerRelationController.js,  *)
(* hierarchyService.js).                                                           *)
THEOREM AtMostOnePrimary == Spec => []OnePrimary
<1>1. Inv => OnePrimary
  <2>. SUFFICES ASSUME Inv, NEW u \in User, u \notin overlapped, u \in drifted => Alone
                PROVE  Cardinality(org[u].primary) <= 1
    BY DEF OnePrimary, Alone
  <2>0. \A x, y \in org[u].primary : x = y
    BY DEF Inv, ChartInv, SinglePrimary, AtMostOne
  <2>1. CASE org[u].primary = {}
    <3>1. Cardinality({}) = 0
      BY FS_EmptySet
    <3>. QED
      BY <2>1, <3>1
  <2>2. CASE org[u].primary # {}
    <3>1. PICK m : org[u].primary = {m}
      BY <2>0, <2>2
    <3>2. Cardinality({m}) = 1
      BY FS_Singleton
    <3>. QED
      BY <3>1, <3>2
  <2>. QED
    BY <2>1, <2>2
<1>2. Inv /\ [Next]_vars => Inv'
  BY NextInv
<1>. QED
  BY <1>1, <1>2, InitInv, PTL DEF Spec

(* Whoever has a primary row has its manager in the column too, after every            *)
(* statement of the requests about them: the two services that read one record          *)
(* before the other agree on who is whose manager (hierarchyService.js:12).          *)
THEOREM RecordsAgree == Spec => []ColumnFollowsPrimary
<1>1. Inv => ColumnFollowsPrimary
  BY DEF Inv, ChartInv
<1>2. Inv /\ [Next]_vars => Inv'
  BY NextInv
<1>. QED
  BY <1>1, <1>2, InitInv, PTL DEF Spec
=============================================================================
