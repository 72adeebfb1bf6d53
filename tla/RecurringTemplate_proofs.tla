---------------------- MODULE RecurringTemplate_proofs ----------------------
(***************************************************************************)
(* Theorems about RecurringTemplate, for every set of schedules, any calendar, *)
(* any backfill cap and any number of edits and restarts.                     *)
(***************************************************************************)
EXTENDS RecurringTemplate, FiniteSetTheorems, WellFoundedInduction, TLAPS

-----------------------------------------------------------------------------
\* Dates

\* A nonempty set of days has a first one.
LEMMA FirstDay ==
  ASSUME NEW S \in SUBSET Nat, S # {}
  PROVE  Min(S) \in S /\ \A y \in S : Min(S) <= y
<1> DEFINE T == {0..k : k \in S}
<1>1. T \subseteq FiniteSubsetsOf(Nat) /\ T # {}
  <2>1. \A k \in S : 0..k \in SUBSET Nat /\ IsFiniteSet(0..k)
    BY FS_Interval
  <2>2. QED
    BY <2>1 DEF FiniteSubsetsOf
<1>2. PICK x \in T : \A y \in T : <<y, x>> \notin StrictSubsetOrdering(Nat)
  BY <1>1, FS_StrictSubsetOrderingWellFounded, WFMin, Zenon
<1>3. PICK k \in S : x = 0..k
  OBVIOUS
<1>4. ASSUME NEW j \in S, j < k PROVE FALSE
  <2>1. k \in 0..k /\ k \notin 0..j /\ 0..j \subseteq 0..k /\ 0..j \subseteq Nat /\ 0..k \subseteq Nat
    BY <1>4
  <2>2. 0..j # 0..k
    BY <2>1
  <2>3. <<0..j, 0..k>> \in StrictSubsetOrdering(Nat)
    BY <2>1, <2>2, Zenon DEF StrictSubsetOrdering
  <2>4. QED
    BY <1>2, <1>3, <2>3
<1>5. \A y \in S : k <= y
  BY <1>4
<1>6. QED
  BY <1>5 DEF Min

\* The later of two dates.
LEMMA LaterOf ==
  ASSUME NEW a \in Int, NEW b \in Int
  PROVE  Max({a, b}) = IF a >= b THEN a ELSE b
BY DEF Max

\* The earlier of two dates.
LEMMA EarlierOf ==
  ASSUME NEW a \in Int, NEW b \in Int
  PROVE  Min({a, b}) = IF a <= b THEN a ELSE b
BY DEF Min

\* The calendar is a set of naturals, and the pseudo-dates lie outside it.
LEMMA Calendar ==
  /\ Day \subseteq Nat /\ None \in Nat /\ Never \in Nat /\ None \notin Day /\ Never \notin Day
  /\ \A d \in Day : 1 <= d /\ d < Never
  /\ Day # {} /\ IsFiniteSet(Day) /\ 1 \in Day
<1>1. LastDay \in Nat \ {0}
  BY RecurringConstants
<1>2. Day \subseteq Nat /\ None \in Nat /\ Never \in Nat /\ None \notin Day /\ Never \notin Day
  BY <1>1 DEF Day, None, Never
<1>3. 1 \in Day /\ \A d \in Day : 1 <= d /\ d < Never
  BY <1>1 DEF Day, Never
<1>4. IsFiniteSet(Day)
  BY <1>1, FS_Interval DEF Day
<1>5. QED
  BY <1>2, <1>3, <1>4

\* The next occurrence is an occurrence and none is skipped, or there is none left.
LEMMA NextOccurrence ==
  ASSUME NEW s \in Schedules, NEW from \in Nat
  PROVE  /\ occurrences(s) \subseteq Day
         /\ LET n == nextOccurrenceDate(s, from) IN
            /\ n \in Day \cup {Never}
            /\ n # Never => n \in occurrences(s) /\ from <= n
            /\ \A d \in occurrences(s) : from <= d => n # Never /\ n <= d
<1>1. s.days \subseteq Day
  BY RecurringConstants
<1>2. occurrences(s) \subseteq Day
  BY <1>1 DEF occurrences
<1> DEFINE ahead == {d \in occurrences(s) : from <= d}
<1>3. ahead \in SUBSET Nat
  BY <1>2, Calendar
<1>4. nextOccurrenceDate(s, from) = IF ahead = {} THEN Never ELSE Min(ahead)
  BY DEF nextOccurrenceDate
<1>5. ahead # {} => Min(ahead) \in ahead /\ \A d \in ahead : Min(ahead) <= d
  BY <1>3, FirstDay
<1>6. QED
  BY <1>2, <1>4, <1>5, Calendar

-----------------------------------------------------------------------------
\* Types.  Every change of the schedule spends an event, so the changes are bounded too.

TypeInv == TypeOK /\ updates <= events

\* A fresh copy of the row.
LEMMA LoadedRun ==
  ASSUME day \in Day, NEW r \in Row, NEW a \in {"walk", "seed", "reschedule", "recompute", "close"},
         NEW todo \in SUBSET Day, NEW seeds \in BOOLEAN, NEW x, x = loaded(r, a, todo, seeds)
  PROVE  /\ x \in Run /\ x.at = a /\ x.copy = r /\ x.today = day /\ x.todo = todo
         /\ x.touched = None /\ x.seeds = seeds
BY DEF loaded, Run

\* A worker at rest holds nothing.
LEMMA IdleRun ==
  ASSUME Schedules # {}
  PROVE  Idle \in Run /\ Idle.at = "idle" /\ Idle.todo = {} /\ Idle.touched = None /\ Idle.seeds = FALSE
<1>1. NoCopy \in Row
  BY DEF NoCopy, Row
<1> HIDE DEF NoCopy
<1>2. QED
  BY <1>1, Calendar DEF Idle, Run

\* The backlog consists of occurrences up to today.
LEMMA Backlog ==
  ASSUME day \in Day, NEW c \in Row
  PROVE  /\ backlog(c) \subseteq occurrences(c.schedule) /\ backlog(c) \subseteq Day
         /\ \A d \in backlog(c) : d <= day
         /\ \A d \in occurrences(c.schedule), e \in backlog(c) : c.last < d /\ d <= e => d \in backlog(c)
<1>1. /\ c.schedule \in Schedules /\ c.last \in Nat /\ c.schedule.start \in Nat /\ day \in Nat
      /\ BACKFILL_CAP \in Nat
  BY Calendar, RecurringConstants DEF Row
<1>2. occurrences(c.schedule) \subseteq Day
  BY <1>1, Calendar, NextOccurrence
<1>3. walkStart(c) \in Nat /\ \A d \in occurrences(c.schedule) : c.last < d /\ d <= day => walkStart(c) <= d
  <2> DEFINE m == Max({c.schedule.start, c.last + 1})
  <2>1. m = IF c.schedule.start >= c.last + 1 THEN c.schedule.start ELSE c.last + 1
    BY <1>1, LaterOf
  <2>2. m \in Nat
    BY <1>1, <2>1
  <2>3. walkStart(c) = Min({day, m})
    BY DEF walkStart
  <2> HIDE DEF m
  <2>4. walkStart(c) = IF day <= m THEN day ELSE m
    BY <1>1, <2>2, <2>3, EarlierOf
  <2>5. ASSUME NEW d \in occurrences(c.schedule), c.last < d, d <= day PROVE walkStart(c) <= d
    <3>1. c.schedule.start <= d /\ d \in Nat
      BY <1>2, Calendar DEF occurrences
    <3>2. m <= d
      BY <1>1, <2>1, <2>5, <3>1
    <3>3. QED
      BY <1>1, <2>2, <2>4, <2>5, <3>1, <3>2
  <2>6. QED
    BY <1>1, <2>2, <2>4, <2>5
<1>4. /\ backlog(c) \subseteq occurrences(c.schedule)
      /\ \A d \in backlog(c) : d <= day /\ d < walkStart(c) + BACKFILL_CAP
  BY DEF backlog
<1>5. ASSUME NEW d \in occurrences(c.schedule), NEW e \in backlog(c), c.last < d, d <= e
      PROVE  d \in backlog(c)
  <2>1. /\ d \in Nat /\ e \in Nat /\ e <= day /\ e < walkStart(c) + BACKFILL_CAP
    BY <1>2, <1>4, Calendar
  <2>2. d <= day
    BY <1>1, <1>5, <2>1
  <2>3. walkStart(c) <= d
    BY <1>3, <1>5, <2>2
  <2>4. d < walkStart(c) + BACKFILL_CAP
    BY <1>1, <1>3, <1>5, <2>1
  <2>5. QED
    BY <2>2, <2>3, <2>4 DEF backlog
<1>6. QED
  BY <1>2, <1>4, <1>5

\* When a pass or a seed computes the next run, it is a date or none.
LEMMA NextRunDate ==
  ASSUME TypeOK, NEW w \in Worker
  PROVE  nextRun(w) \in Day \cup {Never}
<1>1. run[w] \in Run /\ run[w].copy.schedule \in Schedules /\ run[w].today \in Nat /\ run[w].copy.last \in Nat
  BY Calendar DEF TypeOK, Run, Row
<1> DEFINE m == Max({run[w].today, run[w].copy.last + 1})
<1>2. m \in Nat
  BY <1>1, LaterOf
<1> HIDE DEF m
<1>3. QED
  BY <1>1, <1>2, NextOccurrence DEF nextRun, m

\* The seed is a day that generates, today or the first later one, or there is none.
LEMMA SeedDay ==
  ASSUME NEW c \in Row, NEW late \in BOOLEAN, day \in Day
  PROVE  LET d == seedDate(c, late) IN
         /\ d \in Day \cup {Never}
         /\ d # Never => d \in occurrences(c.schedule)
         /\ d # Never /\ d > day => d = nextOccurrenceDate(c.schedule, day + 1)
<1> DEFINE s == c.schedule
           first == nextOccurrenceDate(s, day)
           later == nextOccurrenceDate(s, day + 1)
<1>1. s \in Schedules /\ day \in Nat /\ day + 1 \in Nat
  BY Calendar DEF Row
<1>2. /\ first \in Day \cup {Never} /\ (first # Never => first \in occurrences(s) /\ day <= first)
      /\ \A d \in occurrences(s) : day <= d => first # Never /\ first <= d
  BY <1>1, NextOccurrence
<1>3. /\ later \in Day \cup {Never} /\ (later # Never => later \in occurrences(s) /\ day + 1 <= later)
      /\ \A d \in occurrences(s) : day + 1 <= d => later # Never /\ later <= d
  BY <1>1, NextOccurrence
<1>4. seedDate(c, late) = IF first = day /\ late /\ later # Never THEN later ELSE first
  BY DEF seedDate
<1> HIDE DEF s, first, later
<1>5. ASSUME first # Never, first > day PROVE first = later
  <2>1. first \in occurrences(s) /\ first \in Nat /\ day + 1 <= first
    BY <1>1, <1>2, <1>5, Calendar
  <2>2. later # Never /\ later <= first
    BY <1>3, <2>1
  <2>3. later \in occurrences(s) /\ later \in Nat /\ day <= later
    BY <1>1, <1>3, <2>2, Calendar
  <2>4. first <= later
    BY <1>2, <2>3
  <2>5. QED
    BY <2>1, <2>2, <2>3, <2>4
<1>6. seedDate(c, late) \in {first, later}
  BY <1>4
<1>7. QED
  BY <1>2, <1>3, <1>4, <1>5, <1>6 DEF s, later

\* One worker moves on to x.
Moves(w, x) == x \in Run /\ run' = [run EXCEPT ![w] = x]

\* The others stay where they are.
LEMMA Moved ==
  ASSUME TypeOK, NEW w \in Worker, NEW x, Moves(w, x)
  PROVE  run' \in [Worker -> Run] /\ run'[w] = x /\ \A v \in Worker \ {w} : run'[v] = run[v]
BY DEF TypeOK, Moves

\* What x keeps of the run it continues.
Continues(w, x) == x.copy.schedule = run[w].copy.schedule /\ x.today = run[w].today /\ x.seeds = run[w].seeds

\* One step of the walk.
LEMMA Generates ==
  ASSUME TypeOK, NEW w \in Worker, generateInstance(w)
  PROVE  \E x, d : /\ Moves(w, x) /\ Continues(w, x) /\ x.copy = run[w].copy /\ run[w].at = "walk"
                   /\ d \in run[w].todo /\ d \in Day /\ (\A e \in run[w].todo : d <= e)
                   /\ x.at = "walk" /\ x.todo = run[w].todo \ {d} /\ x.touched = d
                   /\ instances' = instances \cup {d}
                   /\ UNCHANGED <<day, row, blocked, told, updates, events, forgone>>
<1> DEFINE d == Min(run[w].todo)
           x == [run[w] EXCEPT !.todo = @ \ {d}, !.touched = d]
<1>1. run[w] \in Run /\ run[w].todo \subseteq Day /\ run[w].todo # {}
  BY DEF TypeOK, Run, generateInstance
<1>2. d \in run[w].todo /\ (\A e \in run[w].todo : d <= e) /\ d \in Day
  BY <1>1, FirstDay, Calendar
<1>3. run' = [run EXCEPT ![w] = x]
  BY DEF generateInstance
<1>4. /\ run[w].at = "walk" /\ instances' = instances \cup {d}
      /\ UNCHANGED <<day, row, blocked, told, updates, events, forgone>>
  BY DEF generateInstance, at
<1> HIDE DEF d
<1>5. /\ x \in Run /\ x.copy = run[w].copy /\ x.today = run[w].today /\ x.seeds = run[w].seeds
      /\ x.at = run[w].at /\ x.todo = run[w].todo \ {d} /\ x.touched = d
  BY <1>1, <1>2 DEF Run
<1> HIDE DEF x
<1>6. QED
  BY <1>2, <1>3, <1>4, <1>5 DEF Moves, Continues

\* The walk ends early.
LEMMA Refuses ==
  ASSUME TypeOK, NEW w \in Worker, refuse(w)
  PROVE  \E x : /\ Moves(w, x) /\ Continues(w, x) /\ x.copy.last = run[w].copy.last /\ run[w].at = "walk"
                /\ x.at = "walk" /\ x.todo = {} /\ x.touched = run[w].touched
                /\ row' \in Row /\ row'.schedule = row.schedule /\ row'.last = row.last
                /\ told' \in BOOLEAN
                /\ UNCHANGED <<day, instances, blocked, updates, events, forgone>>
<1>1. run[w] \in Run /\ row \in Row /\ run[w].copy \in Row /\ told \in BOOLEAN /\ Never \in Day \cup {Never}
  BY DEF TypeOK, Run
<1>2. run[w].at = "walk" /\ UNCHANGED <<day, instances, blocked, updates, events, forgone>>
  BY DEF refuse, at
<1>3. CASE /\ told' = TRUE
           /\ row' = IF run[w].copy.next # Never THEN [row EXCEPT !.next = Never] ELSE row
           /\ run' = [run EXCEPT ![w].todo = {}, ![w].copy.next = Never]
  <2> DEFINE k == [run[w].copy EXCEPT !.next = Never]
             x == [run[w] EXCEPT !.todo = {}, !.copy = k]
  <2>1. run' = [run EXCEPT ![w] = x]
    BY <1>3
  <2>2. k \in Row /\ k.schedule = run[w].copy.schedule /\ k.last = run[w].copy.last
    BY <1>1 DEF Row
  <2> HIDE DEF k
  <2>3. /\ x \in Run /\ x.copy = k /\ x.today = run[w].today /\ x.seeds = run[w].seeds
        /\ x.at = run[w].at /\ x.todo = {} /\ x.touched = run[w].touched
    BY <1>1, <2>2 DEF Run
  <2> HIDE DEF x
  <2>4. row' \in Row /\ row'.schedule = row.schedule /\ row'.last = row.last
    BY <1>1, <1>3 DEF Row
  <2>5. QED
    BY <1>2, <1>3, <2>1, <2>2, <2>3, <2>4 DEF Moves, Continues
<1>4. CASE run' = [run EXCEPT ![w].todo = {}] /\ UNCHANGED <<row, told>>
  <2> DEFINE x == [run[w] EXCEPT !.todo = {}]
  <2>1. run' = [run EXCEPT ![w] = x]
    BY <1>4
  <2>2. /\ x \in Run /\ x.copy = run[w].copy /\ x.today = run[w].today /\ x.seeds = run[w].seeds
        /\ x.at = run[w].at /\ x.todo = {} /\ x.touched = run[w].touched
    BY <1>1 DEF Run
  <2> HIDE DEF x
  <2>3. QED
    BY <1>1, <1>2, <1>4, <2>1, <2>2 DEF Moves, Continues
<1>5. QED
  BY <1>3, <1>4 DEF refuse

\* lastGeneratedDate is brought forward.
LEMMA Marks ==
  ASSUME TypeOK, NEW w \in Worker, markGenerated(w)
  PROVE  \E x : /\ Moves(w, x) /\ Continues(w, x) /\ run[w].at = "walk" /\ run[w].todo = {}
                /\ x.at = "recompute" /\ x.todo = {}
                /\ row' \in Row /\ row'.schedule = row.schedule
                /\ row'.last = IF advances(w) THEN run[w].touched ELSE row.last
                /\ forgone' = forgone \cup jumped(w) /\ jumped(w) \subseteq Day
                /\ UNCHANGED <<day, instances, blocked, told, updates, events>>
<1>1. /\ run[w] \in Run /\ row \in Row /\ run[w].copy \in Row
      /\ run[w].touched \in Day \cup {None} /\ run[w].copy.last \in Day \cup {None}
  BY DEF TypeOK, Run, Row
<1>2. /\ run[w].at = "walk" /\ run[w].todo = {} /\ UNCHANGED <<day, instances, blocked, told, updates, events>>
      /\ forgone' = forgone \cup jumped(w)
      /\ row' = IF advances(w) THEN [row EXCEPT !.last = run[w].touched] ELSE row
  BY DEF markGenerated, at
<1> DEFINE n == IF advances(w) THEN run[w].touched ELSE run[w].copy.last
           k == [run[w].copy EXCEPT !.last = n]
           x == [run[w] EXCEPT !.at = "recompute", !.copy = k]
<1>3. run' = [run EXCEPT ![w] = x]
  BY DEF markGenerated
<1>4. n \in Day \cup {None}
  BY <1>1
<1> HIDE DEF n
<1>5. k \in Row /\ k.schedule = run[w].copy.schedule
  BY <1>1, <1>4 DEF Row
<1> HIDE DEF k
<1>6. /\ x \in Run /\ x.copy = k /\ x.today = run[w].today /\ x.seeds = run[w].seeds
      /\ x.at = "recompute" /\ x.todo = run[w].todo
  BY <1>1, <1>5 DEF Run
<1> HIDE DEF x
<1>7. /\ row' \in Row /\ row'.schedule = row.schedule
      /\ row'.last = IF advances(w) THEN run[w].touched ELSE row.last
  <2>1. advances(w) => row' = [row EXCEPT !.last = run[w].touched]
    BY <1>2
  <2>2. ~advances(w) => row' = row
    BY <1>2
  <2>3. QED
    BY <1>1, <2>1, <2>2 DEF Row
<1>8. jumped(w) \subseteq Day
  <2>1. occurrences(row.schedule) \subseteq Day
    BY <1>1, Calendar, NextOccurrence DEF Row
  <2>2. QED
    BY <2>1 DEF jumped
<1>9. QED
  BY <1>2, <1>3, <1>5, <1>6, <1>7, <1>8 DEF Moves, Continues

\* The last step of a pass.
LEMMA Ends ==
  ASSUME TypeOK, NEW w \in Worker, recomputeNextRunAt(w) \/ closeTemplate(w)
  PROVE  /\ Moves(w, Idle)
         /\ row' \in Row /\ row'.schedule = row.schedule /\ row'.last = row.last
         /\ UNCHANGED <<day, instances, blocked, told, updates, events, forgone>>
<1>1. row \in Row /\ Schedules # {}
  BY DEF TypeOK, Row
<1>2. /\ run' = [run EXCEPT ![w] = Idle]
      /\ UNCHANGED <<day, instances, blocked, told, updates, events, forgone>>
  BY DEF recomputeNextRunAt, closeTemplate, rest
<1>3. \E n \in Day \cup {Never} : row' = [row EXCEPT !.next = n] \/ row' = row
  BY NextRunDate DEF recomputeNextRunAt, closeTemplate, writeNextRun
<1>4. row' \in Row /\ row'.schedule = row.schedule /\ row'.last = row.last
  BY <1>1, <1>3 DEF Row
<1>5. QED
  BY <1>1, <1>2, <1>4, IdleRun DEF Moves

\* A pass begins, on the row as it is.
LEMMA PassBegins ==
  ASSUME TypeOK, NEW w \in Worker, runTemplateOnce(w)
  PROVE  \E x : /\ Moves(w, x) /\ x.copy = row /\ x.today = day /\ ~x.seeds /\ x.touched = None
                /\ \/ x.at \in {"recompute", "close"} /\ x.todo = {}
                   \/ x.at = "walk" /\ x.todo = backlog(row)
                /\ UNCHANGED <<day, row, instances, blocked, told, updates, events, forgone>>
<1>1. row \in Row /\ day \in Day
  BY DEF TypeOK
<1>2. UNCHANGED <<day, row, instances, blocked, told, updates, events, forgone>>
  BY DEF runTemplateOnce
<1>3. PICK x : /\ run' = [run EXCEPT ![w] = x]
               /\ \/ x = loaded(row, "recompute", {}, FALSE)
                  \/ x = loaded(row, "close", {}, FALSE)
                  \/ x = loaded(row, "walk", backlog(row), FALSE)
  BY DEF runTemplateOnce
<1>4. backlog(row) \in SUBSET Day
  BY <1>1, Backlog
<1>5. ASSUME NEW a \in {"walk", "recompute", "close"}, NEW todo \in SUBSET Day,
             x = loaded(row, a, todo, FALSE)
      PROVE  /\ x \in Run /\ x.at = a /\ x.copy = row /\ x.today = day /\ x.todo = todo
             /\ x.touched = None /\ ~x.seeds
  BY <1>1, <1>5 DEF loaded, Run
<1>6. {} \in SUBSET Day
  OBVIOUS
<1>7. /\ x \in Run /\ x.copy = row /\ x.today = day /\ ~x.seeds /\ x.touched = None
      /\ \/ x.at \in {"recompute", "close"} /\ x.todo = {}
         \/ x.at = "walk" /\ x.todo = backlog(row)
  <2>1. CASE x = loaded(row, "walk", backlog(row), FALSE)
    BY <1>4, <1>5, <2>1
  <2>2. CASE x = loaded(row, "recompute", {}, FALSE)
    BY <1>5, <1>6, <2>2
  <2>3. CASE x = loaded(row, "close", {}, FALSE)
    BY <1>5, <1>6, <2>3
  <2>4. QED
    BY <1>3, <2>1, <2>2, <2>3
<1>8. QED
  BY <1>2, <1>3, <1>7 DEF Moves

\* The editor has written the row.
LEMMA Edits ==
  ASSUME TypeOK, NEW r \in Row, NEW seeds \in BOOLEAN, edit(r, seeds)
  PROVE  \E x : /\ Moves("request", x) /\ x.at = "reschedule" /\ x.copy = r /\ x.todo = {} /\ x.today = day
                /\ row' = r /\ events' \in 0..MaxEvents /\ events' = events + 1
                /\ UNCHANGED <<day, instances, blocked, told>>
<1> DEFINE x == loaded(r, "reschedule", {}, seeds)
<1>1. x \in Run /\ x.at = "reschedule" /\ x.copy = r /\ x.todo = {} /\ x.today = day
  BY DEF loaded, Run, TypeOK
<1>2. /\ run' = [run EXCEPT !["request"] = x] /\ row' = r
      /\ UNCHANGED <<day, instances, blocked, told>>
  BY DEF edit
<1>3. events' \in 0..MaxEvents /\ events' = events + 1
  BY RecurringConstants DEF edit, disturb, TypeOK
<1> HIDE DEF x
<1>4. QED
  BY <1>1, <1>2, <1>3 DEF Moves

\* nextRunAt is computed, and the row reloaded to seed an instance.
LEMMA Reschedules ==
  ASSUME TypeOK, reschedule
  PROVE  \E x : /\ Moves("request", x) /\ run["request"].at = "reschedule" /\ x.todo = {}
                /\ x.at = "idle" \/ (x.at = "seed" /\ x.seeds /\ x.copy.schedule = row.schedule)
                /\ row' \in Row /\ row'.schedule = row.schedule /\ row'.last = row.last
                /\ UNCHANGED <<day, instances, blocked, told, updates, events, forgone>>
<1>1. row \in Row /\ day \in Day /\ Schedules # {} /\ "request" \in Worker
  BY DEF TypeOK, Row, Worker
<1>2. /\ run["request"].at = "reschedule"
      /\ UNCHANGED <<day, instances, blocked, told, updates, events, forgone>>
  BY DEF reschedule, at
<1>3. \E n \in Day \cup {Never} : row' = [row EXCEPT !.next = n] \/ row' = row
  BY <1>1, NextRunDate DEF reschedule, writeNextRun
<1>4. row' \in Row /\ row'.schedule = row.schedule /\ row'.last = row.last
  BY <1>1, <1>3 DEF Row
<1>5. CASE run' = [run EXCEPT !["request"] = Idle]
  BY <1>1, <1>2, <1>4, <1>5, IdleRun DEF Moves
<1>6. CASE run' = [run EXCEPT !["request"] = loaded(row', "seed", {}, TRUE)]
  <2> DEFINE y == row'
  <2>1. y \in Row /\ y.schedule = row.schedule
    BY <1>4
  <2> HIDE DEF y
  <2>2. PICK x : x = loaded(y, "seed", {}, TRUE)
    OBVIOUS
  <2>3. x \in Run /\ x.at = "seed" /\ x.copy = y /\ x.todo = {} /\ x.seeds
    BY <1>1, <2>1, <2>2 DEF loaded, Run
  <2>4. run' = [run EXCEPT !["request"] = x]
    BY <1>6, <2>2 DEF y
  <2>5. QED
    BY <1>2, <1>4, <2>1, <2>3, <2>4 DEF Moves
<1>7. QED
  BY <1>5, <1>6 DEF reschedule, rest

\* The seed.
LEMMA Seeds ==
  ASSUME TypeOK, NEW late \in BOOLEAN, seedNextUpcomingInstance(late)
  PROVE  \E x, d : /\ Moves("request", x) /\ Continues("request", x) /\ run["request"].at = "seed"
                   /\ x.copy = run["request"].copy /\ x.todo = run["request"].todo
                   /\ \/ /\ d \in Day /\ d \in occurrences(run["request"].copy.schedule)
                         /\ d > day => d = nextOccurrenceDate(run["request"].copy.schedule, day + 1)
                         /\ instances' = instances \cup {d} /\ x.touched = d /\ x.at = "walk"
                      \/ instances' = instances /\ x.at = "recompute"
                   /\ UNCHANGED <<day, row, blocked, told, updates, events, forgone>>
<1> DEFINE c == run["request"].copy
           d == seedDate(c, late)
           seeded == d # Never /\ validateTemplateForGeneration(c)
           a == IF seeded THEN "walk" ELSE "recompute"
           t == IF seeded THEN d ELSE None
           x == [run["request"] EXCEPT !.at = a, !.touched = t]
<1>1. run["request"] \in Run /\ c \in Row /\ day \in Day
  BY DEF TypeOK, Run, Worker
<1>2. /\ d \in Day \cup {Never} /\ (d # Never => d \in occurrences(c.schedule))
      /\ d # Never /\ d > day => d = nextOccurrenceDate(c.schedule, day + 1)
  BY <1>1, SeedDay
<1>3. /\ run["request"].at = "seed" /\ instances' = (IF seeded THEN instances \cup {d} ELSE instances)
      /\ UNCHANGED <<day, row, blocked, told, updates, events, forgone>>
  BY DEF seedNextUpcomingInstance, at
<1>4. run' = [run EXCEPT !["request"] = x]
  BY DEF seedNextUpcomingInstance
<1>5. seeded => d # Never
  OBVIOUS
<1>6. a \in {"walk", "recompute"} /\ t \in Day \cup {None} /\ (seeded => t = d /\ a = "walk")
      /\ (~seeded => a = "recompute")
  BY <1>2
<1> HIDE DEF a, t, seeded, d
<1>7. /\ x \in Run /\ x.copy = c /\ x.today = run["request"].today /\ x.seeds = run["request"].seeds
      /\ x.at = a /\ x.todo = run["request"].todo /\ x.touched = t
  BY <1>1, <1>6 DEF Run
<1> HIDE DEF x
<1>8. QED
  BY <1>2, <1>3, <1>4, <1>5, <1>6, <1>7 DEF Moves, Continues

\* What happens besides the workers.
LEMMA Surroundings ==
  ASSUME TypeOK
  PROVE  /\ archiveTemplate => /\ row' \in Row /\ row'.schedule = row.schedule /\ row'.last = row.last
                               /\ UNCHANGED <<day, instances, blocked, told, run, updates, events, forgone>>
         /\ passTime => /\ day' \in Day /\ day' = day + 1
                        /\ UNCHANGED <<row, instances, blocked, told, run, updates, events, forgone>>
         /\ block => /\ blocked' \in BOOLEAN /\ events' \in 0..MaxEvents /\ events <= events'
                     /\ UNCHANGED <<day, row, instances, told, run, updates, forgone>>
<1>1. row \in Row /\ day \in Day /\ events \in 0..MaxEvents
  BY DEF TypeOK
<1>2. archiveTemplate => /\ row' \in Row /\ row'.schedule = row.schedule /\ row'.last = row.last
                         /\ UNCHANGED <<day, instances, blocked, told, run, updates, events, forgone>>
  BY <1>1 DEF archiveTemplate, Row
<1>3. passTime => /\ day' \in Day /\ day' = day + 1
                  /\ UNCHANGED <<row, instances, blocked, told, run, updates, events, forgone>>
  BY <1>1, RecurringConstants DEF passTime, Day
<1>4. block => /\ blocked' \in BOOLEAN /\ events' \in 0..MaxEvents /\ events <= events'
               /\ UNCHANGED <<day, row, instances, told, run, updates, forgone>>
  BY <1>1, RecurringConstants DEF block, disturb
<1>5. QED
  BY <1>2, <1>3, <1>4

\* A worker stops, and forgets what it was doing.
LEMMA Stops ==
  ASSUME TypeOK, NEW w \in Worker, stop(w)
  PROVE  /\ Moves(w, Idle) /\ events' \in 0..MaxEvents /\ events <= events'
         /\ UNCHANGED <<day, row, instances, blocked, told, updates, forgone>>
<1>1. Schedules # {} /\ events \in 0..MaxEvents
  BY DEF TypeOK, Row
<1>2. /\ run' = [run EXCEPT ![w] = Idle] /\ events' \in 0..MaxEvents /\ events <= events'
      /\ UNCHANGED <<day, row, instances, blocked, told, updates, forgone>>
  BY <1>1, RecurringConstants DEF stop, disturb, rest
<1>3. QED
  BY <1>1, <1>2, IdleRun DEF Moves

\* The days only the new schedule has, if lastGeneratedDate has passed them.
Overtaken(s) == {d \in occurrences(s) \ occurrences(row.schedule) : d <= row.last} \ instances

\* A change of the schedule is counted, and gives up the days behind it.
LEMMA Updates ==
  ASSUME TypeOK, NEW s \in Schedules, NEW active \in BOOLEAN, updateTemplate(s, active)
  PROVE  \E r \in Row : /\ edit(r, TRUE) /\ r.schedule = s /\ r.last = row.last /\ idle("request")
                        /\ updates' = IF s = row.schedule THEN updates ELSE updates + 1
                        /\ forgone' = forgone \cup Overtaken(s)
<1> DEFINE r == [row EXCEPT !.schedule = s, !.active = active]
<1>1. r \in Row /\ r.schedule = s /\ r.last = row.last
  BY DEF TypeOK, Row
<1>2. /\ edit(r, TRUE) /\ idle("request")
      /\ updates' = IF s = row.schedule THEN updates ELSE updates + 1
      /\ forgone' = forgone \cup Overtaken(s)
  BY DEF updateTemplate, Overtaken
<1> HIDE DEF r
<1>3. QED
  BY <1>1, <1>2

\* A pause or a resumption leaves the schedule alone.
LEMMA Pauses ==
  ASSUME TypeOK, NEW makeActive \in BOOLEAN, togglePause(makeActive)
  PROVE  \E r \in Row : /\ edit(r, makeActive) /\ r.schedule = row.schedule /\ r.last = row.last
                        /\ idle("request") /\ UNCHANGED <<updates, forgone>>
<1> DEFINE r == [row EXCEPT !.active = makeActive]
<1>1. r \in Row /\ r.schedule = row.schedule /\ r.last = row.last
  BY DEF TypeOK, Row
<1>2. edit(r, makeActive) /\ idle("request") /\ UNCHANGED <<updates, forgone>>
  BY DEF togglePause
<1> HIDE DEF r
<1>3. QED
  BY <1>1, <1>2

\* The initial states are well typed, and the editor is about to compute nextRunAt.
LEMMA TypeInit ==
  Init => /\ TypeInv /\ row.last = None /\ run["cron"] = Idle
          /\ run["request"].at = "reschedule" /\ run["request"].todo = {} /\ run["request"].copy = row
<1> SUFFICES ASSUME Init
             PROVE  /\ TypeInv /\ row.last = None /\ run["cron"] = Idle
                    /\ run["request"].at = "reschedule" /\ run["request"].todo = {}
                    /\ run["request"].copy = row
  OBVIOUS
<1>1. row \in Row /\ row.last = None /\ Schedules # {} /\ day \in Day
  BY Calendar DEF Init, Row
<1> DEFINE x == loaded(row, "reschedule", {}, TRUE)
<1>2. x \in Run /\ x.at = "reschedule" /\ x.todo = {} /\ x.copy = row
  BY <1>1 DEF loaded, Run
<1>3. run = [w \in Worker |-> IF w = "request" THEN x ELSE Idle]
  BY DEF Init
<1> HIDE DEF x
<1>4. /\ run \in [Worker -> Run] /\ run["cron"] = Idle
      /\ run["request"].at = "reschedule" /\ run["request"].todo = {} /\ run["request"].copy = row
  BY <1>1, <1>2, <1>3, IdleRun DEF Worker
<1>5. /\ instances \subseteq Day /\ forgone \subseteq Day /\ blocked \in BOOLEAN /\ told \in BOOLEAN
      /\ updates = 0 /\ events = 0
  BY DEF Init
<1>6. updates \in 0..MaxEvents /\ events \in 0..MaxEvents /\ updates <= events
  BY <1>5, RecurringConstants
<1>7. QED
  BY <1>1, <1>4, <1>5, <1>6 DEF TypeInv, TypeOK

\* The steps that continue a pass.
LEMMA StepTypes ==
  ASSUME TypeInv, NEW w \in Worker, step(w) PROVE TypeInv'
<1>1. TypeOK /\ updates <= events
  BY DEF TypeInv
<1>2. CASE generateInstance(w)
  BY <1>1, <1>2, Generates, Moved DEF TypeInv, TypeOK
<1>3. CASE refuse(w)
  BY <1>1, <1>3, Refuses, Moved DEF TypeInv, TypeOK
<1>4. CASE markGenerated(w)
  BY <1>1, <1>4, Marks, Moved DEF TypeInv, TypeOK
<1>5. CASE recomputeNextRunAt(w) \/ closeTemplate(w)
  BY <1>1, <1>5, Ends, Moved DEF TypeInv, TypeOK
<1>6. QED
  BY <1>2, <1>3, <1>4, <1>5 DEF step

\* Every step keeps the types.
LEMMA TypeStep == TypeInv /\ [Next]_vars => TypeInv'
<1> SUFFICES ASSUME TypeInv, [Next]_vars PROVE TypeInv'
  OBVIOUS
<1>1. TypeOK /\ updates <= events /\ updates \in Nat /\ events \in Nat /\ "cron" \in Worker /\ "request" \in Worker
  BY RecurringConstants DEF TypeInv, TypeOK, Worker
<1>2. CASE \E w \in Worker : runTemplateOnce(w)
  BY <1>1, <1>2, PassBegins, Moved DEF TypeInv, TypeOK
<1>3. CASE \E w \in Worker : step(w)
  BY <1>3, StepTypes
<1>4. ASSUME NEW s \in Schedules, NEW active \in BOOLEAN, updateTemplate(s, active) PROVE TypeInv'
  <2>1. PICK r \in Row : /\ edit(r, TRUE)
                         /\ updates' = IF s = row.schedule THEN updates ELSE updates + 1
                         /\ forgone' = forgone \cup Overtaken(s)
    BY <1>1, <1>4, Updates
  <2>2. \E x : /\ Moves("request", x) /\ row' = r /\ events' \in 0..MaxEvents /\ events' = events + 1
               /\ UNCHANGED <<day, instances, blocked, told>>
    BY <1>1, <2>1, Edits
  <2>3. run' \in [Worker -> Run]
    BY <1>1, <2>2, Moved
  <2>4. updates' \in 0..MaxEvents /\ updates' <= events'
    BY <1>1, <2>1, <2>2, RecurringConstants
  <2>5. forgone' \subseteq Day
    <3>1. occurrences(s) \subseteq Day
      BY Calendar, NextOccurrence
    <3>2. QED
      BY <1>1, <2>1, <3>1 DEF TypeOK, Overtaken
  <2>6. QED
    BY <1>1, <2>2, <2>3, <2>4, <2>5 DEF TypeInv, TypeOK
<1>5. ASSUME NEW makeActive \in BOOLEAN, togglePause(makeActive) PROVE TypeInv'
  <2>1. PICK r \in Row : edit(r, makeActive) /\ UNCHANGED <<updates, forgone>>
    BY <1>1, <1>5, Pauses
  <2>2. \E x : /\ Moves("request", x) /\ row' = r /\ events' \in 0..MaxEvents /\ events' = events + 1
               /\ UNCHANGED <<day, instances, blocked, told>>
    BY <1>1, <2>1, Edits
  <2>3. run' \in [Worker -> Run]
    BY <1>1, <2>2, Moved
  <2>4. updates' <= events'
    BY <1>1, <2>1, <2>2
  <2>5. QED
    BY <1>1, <2>1, <2>2, <2>3, <2>4 DEF TypeInv, TypeOK
<1>6. CASE reschedule
  BY <1>1, <1>6, Reschedules, Moved DEF TypeInv, TypeOK
<1>7. CASE \E late \in BOOLEAN : seedNextUpcomingInstance(late)
  BY <1>1, <1>7, Seeds, Moved DEF TypeInv, TypeOK
<1>8. CASE archiveTemplate \/ passTime \/ block
  <2>1. CASE archiveTemplate
    BY <1>1, <2>1, Surroundings DEF TypeInv, TypeOK
  <2>2. CASE passTime
    BY <1>1, <2>2, Surroundings DEF TypeInv, TypeOK
  <2>3. CASE block
    BY <1>1, <2>3, Surroundings, RecurringConstants DEF TypeInv, TypeOK
  <2>4. QED
    BY <1>8, <2>1, <2>2, <2>3
<1>9. CASE \E w \in Worker : stop(w)
  BY <1>1, <1>9, Stops, Moved, RecurringConstants DEF TypeInv, TypeOK
<1>10. CASE UNCHANGED vars
  BY <1>10 DEF vars, TypeInv, TypeOK
<1>11. QED
  BY <1>1, <1>2, <1>3, <1>4, <1>5, <1>6, <1>7, <1>8, <1>9, <1>10 DEF Next, tickOnce, generateNow, idleTick

\* Every reachable state is well typed: a seed never files an instance under no date.
THEOREM TypeCorrect == Spec => []TypeOK
<1>1. TypeInv => TypeOK
  BY DEF TypeInv
<1>2. QED
  BY <1>1, TypeInit, TypeStep, PTL DEF Spec

-----------------------------------------------------------------------------
\* What a worker at work holds: a walk goes up its backlog, which lies behind the day it began,
\* a seed has nothing to walk, and only the cron pass can be on a schedule that was changed since.
Serves(w) ==
  LET c == run[w] IN
  /\ c.todo \subseteq occurrences(c.copy.schedule)
  /\ c.at # "walk" => c.todo = {}
  /\ c.at \in {"reschedule", "seed"} => w = "request"
  /\ c.at = "seed" => c.seeds
  /\ c.at = "walk" /\ c.seeds => c.todo = {}
  /\ c.at = "walk" /\ ~c.seeds => /\ c.touched <= c.today /\ c.today <= day
                                  /\ \A d \in c.todo : c.touched < d /\ d <= c.today
  /\ c.at = "walk" => c.touched \in instances \cup {None}
  /\ w = "request" /\ c.at # "idle" => c.copy.schedule = row.schedule

ServeInv == \A w \in Worker : Serves(w)

\* Instances stay and days pass: a worker that does not move serves on.
LEMMA StillServes ==
  ASSUME TypeOK, day' \in Day, NEW w \in Worker, Serves(w), run'[w] = run[w],
         instances \subseteq instances', day <= day',
         row'.schedule = row.schedule \/ w = "cron" \/ idle(w)
  PROVE  Serves(w)'
<1>1. run[w] \in Run /\ run[w].today \in Nat /\ day \in Nat /\ day' \in Nat
  BY Calendar DEF TypeOK, Run
<1>2. run[w].at = "walk" /\ ~run[w].seeds => run[w].today <= day'
  BY <1>1 DEF Serves
<1>3. w = "cron" => w # "request"
  OBVIOUS
<1>4. QED
  BY <1>2, <1>3 DEF Serves, idle

\* One worker moves, under the schedule that was.
LEMMA MoveServes ==
  ASSUME TypeOK, ServeInv, NEW w \in Worker, NEW x, Moves(w, x), Serves(w)',
         instances \subseteq instances', day' = day, row'.schedule = row.schedule
  PROVE  ServeInv'
<1>1. day \in Day /\ day <= day'
  BY Calendar DEF TypeOK
<1>2. \A v \in Worker \ {w} : run'[v] = run[v]
  BY Moved
<1>3. ASSUME NEW v \in Worker \ {w} PROVE Serves(v)'
  BY <1>1, <1>2, StillServes DEF ServeInv
<1>4. QED
  BY <1>3 DEF ServeInv

\* The steps that continue a pass serve.
LEMMA StepServes ==
  ASSUME TypeOK, ServeInv, NEW w \in Worker, step(w)
  PROVE  ServeInv'
<1>1. Serves(w)
  BY DEF ServeInv
<1>2. CASE generateInstance(w)
  <2>1. PICK x, d : /\ Moves(w, x) /\ Continues(w, x) /\ x.copy = run[w].copy /\ run[w].at = "walk"
                    /\ d \in run[w].todo /\ d \in Day /\ (\A e \in run[w].todo : d <= e)
                    /\ x.at = "walk" /\ x.todo = run[w].todo \ {d} /\ x.touched = d
                    /\ instances' = instances \cup {d}
                    /\ UNCHANGED <<day, row, blocked, told, updates, events, forgone>>
    BY <1>2, Generates
  <2>2. run'[w] = x /\ run[w].todo \subseteq Nat
    BY <2>1, Moved, Calendar DEF TypeOK, Run
  <2>3. ~x.seeds => /\ x.touched <= x.today /\ x.today <= day
                    /\ \A e \in x.todo : x.touched < e /\ e <= x.today
    <3>1. \A e \in x.todo : e \in run[w].todo /\ e # d /\ d <= e /\ e \in Nat
      BY <2>1, <2>2
    <3>2. \A e \in x.todo : d < e
      BY <2>1, <2>2, <3>1
    <3>3. QED
      BY <1>1, <2>1, <3>1, <3>2 DEF Serves, Continues
  <2>4. Serves(w)'
    BY <1>1, <2>1, <2>2, <2>3 DEF Serves, Continues
  <2>5. QED
    BY <2>1, <2>4, MoveServes
<1>3. CASE refuse(w)
  <2>1. PICK x : /\ Moves(w, x) /\ Continues(w, x) /\ run[w].at = "walk"
                 /\ x.at = "walk" /\ x.todo = {} /\ x.touched = run[w].touched
                 /\ row'.schedule = row.schedule /\ UNCHANGED <<day, instances>>
    BY <1>3, Refuses
  <2>2. run'[w] = x
    BY <2>1, Moved
  <2>3. Serves(w)'
    BY <1>1, <2>1, <2>2 DEF Serves, Continues
  <2>4. QED
    BY <2>1, <2>3, MoveServes
<1>4. CASE markGenerated(w)
  <2>1. PICK x : /\ Moves(w, x) /\ Continues(w, x) /\ run[w].at = "walk" /\ x.at = "recompute"
                 /\ x.todo = {} /\ row'.schedule = row.schedule /\ UNCHANGED <<day, instances>>
    BY <1>4, Marks
  <2>2. run'[w] = x
    BY <2>1, Moved
  <2>3. Serves(w)'
    BY <1>1, <2>1, <2>2 DEF Serves, Continues
  <2>4. QED
    BY <2>1, <2>3, MoveServes
<1>5. CASE recomputeNextRunAt(w) \/ closeTemplate(w)
  <2>1. Moves(w, Idle) /\ row'.schedule = row.schedule /\ UNCHANGED <<day, instances>>
    BY <1>5, Ends
  <2>2. run'[w] = Idle /\ Idle.at = "idle" /\ Idle.todo = {}
    BY <2>1, Moved, IdleRun, ZenonT(60) DEF TypeOK, Row
  <2>3. Serves(w)'
    BY <2>2 DEF Serves
  <2>4. QED
    BY <2>1, <2>3, MoveServes
<1>6. QED
  BY <1>2, <1>3, <1>4, <1>5 DEF step

\* Every step keeps what the workers hold.
LEMMA ServeStep == TypeInv /\ ServeInv /\ [Next]_vars => ServeInv'
<1> SUFFICES ASSUME TypeInv, ServeInv, [Next]_vars PROVE ServeInv'
  OBVIOUS
<1>1. /\ TypeOK /\ "cron" \in Worker /\ "request" \in Worker /\ day \in Day /\ row \in Row
      /\ \A w \in Worker : w = "cron" \/ w = "request"
  BY DEF TypeInv, TypeOK, Worker
<1>2. ASSUME NEW w \in Worker, runTemplateOnce(w) PROVE ServeInv'
  <2>1. PICK x : /\ Moves(w, x) /\ x.copy = row /\ x.today = day /\ ~x.seeds /\ x.touched = None
                 /\ \/ x.at \in {"recompute", "close"} /\ x.todo = {}
                    \/ x.at = "walk" /\ x.todo = backlog(row)
                 /\ UNCHANGED <<day, row, instances, blocked, told, updates, events, forgone>>
    BY <1>1, <1>2, PassBegins
  <2>2. run'[w] = x
    BY <1>1, <2>1, Moved
  <2>3. /\ x.todo \subseteq occurrences(row.schedule) /\ x.todo \subseteq Day
        /\ \A d \in x.todo : d <= day
    BY <1>1, <2>1, Backlog
  <2>4. None <= day /\ day <= day /\ \A d \in x.todo : None < d
    <3>1. day \in Nat /\ \A d \in Day : d \in Nat /\ 1 <= d
      BY <1>1, Calendar
    <3>2. QED
      BY <2>3, <3>1 DEF None
  <2>5. Serves(w)'
    BY <2>1, <2>2, <2>3, <2>4 DEF Serves
  <2>6. QED
    BY <1>1, <2>1, <2>5, MoveServes
<1>3. CASE \E w \in Worker : step(w)
  BY <1>1, <1>3, StepServes
<1>4. ASSUME NEW r \in Row, NEW seeds \in BOOLEAN, edit(r, seeds) PROVE ServeInv'
  <2>1. PICK x : /\ Moves("request", x) /\ x.at = "reschedule" /\ x.copy = r /\ x.todo = {}
                 /\ row' = r /\ UNCHANGED <<day, instances>>
    BY <1>1, <1>4, Edits
  <2>2. run'["request"] = x /\ run'["cron"] = run["cron"] /\ day <= day'
    BY <1>1, <2>1, Moved, Calendar
  <2>3. Serves("request")'
    BY <2>1, <2>2 DEF Serves
  <2>4. Serves("cron")'
    BY <1>1, <2>1, <2>2, StillServes DEF ServeInv
  <2>5. QED
    BY <1>1, <2>3, <2>4 DEF ServeInv
<1>5. CASE \E s \in Schedules, active \in BOOLEAN : updateTemplate(s, active)
  <2>1. \E r \in Row : edit(r, TRUE)
    BY <1>1, <1>5, Updates
  <2>2. QED
    BY <1>4, <2>1
<1>6. CASE \E makeActive \in BOOLEAN : togglePause(makeActive)
  BY <1>1, <1>4, <1>6, Pauses
<1>7. CASE reschedule
  <2>1. PICK x : /\ Moves("request", x) /\ x.todo = {}
                 /\ x.at = "idle" \/ (x.at = "seed" /\ x.seeds /\ x.copy.schedule = row.schedule)
                 /\ row'.schedule = row.schedule /\ UNCHANGED <<day, instances>>
    BY <1>1, <1>7, Reschedules
  <2>2. run'["request"] = x
    BY <1>1, <2>1, Moved
  <2>3. Serves("request")'
    BY <2>1, <2>2 DEF Serves
  <2>4. QED
    BY <1>1, <2>1, <2>3, MoveServes
<1>8. CASE \E late \in BOOLEAN : seedNextUpcomingInstance(late)
  <2>1. PICK x, d : /\ Moves("request", x) /\ Continues("request", x) /\ run["request"].at = "seed"
                    /\ x.todo = run["request"].todo
                    /\ \/ instances' = instances \cup {d} /\ x.touched = d /\ x.at = "walk"
                       \/ instances' = instances /\ x.at = "recompute"
                    /\ UNCHANGED <<day, row, blocked, told, updates, events, forgone>>
    BY <1>1, <1>8, Seeds
  <2>2. run'["request"] = x
    BY <1>1, <2>1, Moved
  <2>3. /\ run["request"].todo = {} /\ run["request"].seeds
        /\ run["request"].copy.schedule = row.schedule
    BY <1>1, <2>1 DEF ServeInv, Serves
  <2>4. Serves("request")'
    BY <2>1, <2>2, <2>3 DEF Serves, Continues
  <2>5. QED
    BY <1>1, <2>1, <2>4, MoveServes
<1>9. CASE archiveTemplate \/ passTime \/ block \/ UNCHANGED vars
  <2>1. /\ run' = run /\ instances' = instances /\ row'.schedule = row.schedule /\ day' \in Day
        /\ day' = day \/ day' = day + 1
    BY <1>1, <1>9, Surroundings DEF vars
  <2>2. day <= day'
    BY <1>1, <2>1, Calendar
  <2>3. QED
    BY <1>1, <2>1, <2>2, StillServes DEF ServeInv
<1>10. CASE \E w \in Worker : stop(w)
  <2>1. PICK w \in Worker : Moves(w, Idle) /\ UNCHANGED <<day, row, instances>>
    BY <1>1, <1>10, Stops
  <2>2. run'[w] = Idle /\ Idle.at = "idle" /\ Idle.todo = {}
    BY <1>1, <2>1, Moved, IdleRun DEF Row
  <2>3. Serves(w)'
    BY <2>2 DEF Serves
  <2>4. QED
    BY <1>1, <2>1, <2>3, MoveServes
<1>11. QED
  BY <1>1, <1>2, <1>3, <1>5, <1>6, <1>7, <1>8, <1>9, <1>10 DEF Next, tickOnce, generateNow, idleTick

\* What the workers hold, throughout.
LEMMA ServeCorrect == Spec => [](TypeInv /\ ServeInv)
<1>1. Init => ServeInv
  <2> SUFFICES ASSUME Init PROVE ServeInv
    OBVIOUS
  <2>1. /\ Idle.at = "idle" /\ Idle.todo = {} /\ run["cron"] = Idle
        /\ run["request"].at = "reschedule" /\ run["request"].todo = {} /\ run["request"].copy = row
    BY TypeInit, IdleRun DEF TypeInv, TypeOK, Row
  <2>2. Serves("cron") /\ Serves("request")
    BY <2>1 DEF Serves
  <2>3. QED
    BY <2>2 DEF ServeInv, Worker
<1>2. QED
  BY <1>1, TypeInit, TypeStep, ServeStep, PTL DEF Spec

-----------------------------------------------------------------------------
\* lastGeneratedDate tells the truth.

\* Nothing of a schedule is missing up to a day.
Upto(s, t) == \A d \in occurrences(s) : d <= t => d \in instances \cup forgone

\* A walk leaves no hole behind it: of the schedule it works on nothing is missing up to where
\* it began, and every day since is there or still on its list.
Tracks(w) ==
  LET c == run[w] IN
  c.at = "walk" /\ ~c.seeds =>
    /\ Upto(c.copy.schedule, c.copy.last)
    /\ \A d \in occurrences(c.copy.schedule), e \in c.todo \cup {c.touched} :
         c.copy.last < d /\ d <= e => d \in instances \cup forgone \cup c.todo

GapInv == NoGap /\ \A w \in Worker : Tracks(w)

\* Instances and given-up days stay: what held of them still holds.
LEMMA StillTracks ==
  ASSUME instances \subseteq instances', forgone \subseteq forgone',
         NEW w \in Worker, Tracks(w), run'[w] = run[w]
  PROVE  Tracks(w)'
<1>1. CASE ~(run[w].at = "walk" /\ ~run[w].seeds)
  BY <1>1 DEF Tracks
<1>2. CASE run[w].at = "walk" /\ ~run[w].seeds
  <2> DEFINE S == occurrences(run[w].copy.schedule)
  <2>1. \A d \in S : d <= run[w].copy.last => d \in instances' \cup forgone'
    BY <1>2 DEF Tracks, Upto
  <2>2. \A d \in S, e \in run[w].todo \cup {run[w].touched} :
          run[w].copy.last < d /\ d <= e => d \in instances' \cup forgone' \cup run[w].todo
    BY <1>2 DEF Tracks
  <2>3. QED
    BY <1>2, <2>1, <2>2 DEF Tracks, Upto, occurrences
<1>3. QED
  BY <1>1, <1>2

\* One worker moves, and lastGeneratedDate stays.
LEMMA MoveTracks ==
  ASSUME TypeOK, GapInv, NEW w \in Worker, NEW x, Moves(w, x), Tracks(w)',
         instances \subseteq instances', forgone \subseteq forgone',
         row'.schedule = row.schedule, row'.last = row.last
  PROVE  GapInv'
<1>1. \A v \in Worker \ {w} : run'[v] = run[v]
  BY Moved
<1>2. ASSUME NEW v \in Worker \ {w} PROVE Tracks(v)'
  BY <1>1, StillTracks DEF GapInv
<1>3. NoGap'
  BY DEF GapInv, NoGap
<1>4. QED
  BY <1>2, <1>3 DEF GapInv

\* The walk.
LEMMA WalkTracks ==
  ASSUME TypeOK, ServeInv, GapInv, NEW w \in Worker, generateInstance(w) \/ refuse(w)
  PROVE  GapInv'
<1>1. Serves(w) /\ Tracks(w)
  BY DEF ServeInv, GapInv
<1>2. CASE generateInstance(w)
  <2>1. PICK x, d : /\ Moves(w, x) /\ Continues(w, x) /\ x.copy = run[w].copy /\ run[w].at = "walk"
                    /\ d \in run[w].todo /\ d \in Day /\ (\A e \in run[w].todo : d <= e)
                    /\ x.at = "walk" /\ x.todo = run[w].todo \ {d} /\ x.touched = d
                    /\ instances' = instances \cup {d}
                    /\ UNCHANGED <<day, row, blocked, told, updates, events, forgone>>
    BY <1>2, Generates
  <2>2. run'[w] = x
    BY <2>1, Moved
  <2>3. ASSUME x.seeds PROVE Tracks(w)'
    BY <2>2, <2>3 DEF Tracks
  <2>5. ASSUME ~x.seeds PROVE Tracks(w)'
    <3>0. /\ ~run[w].seeds
          /\ Upto(run[w].copy.schedule, run[w].copy.last)
          /\ \A a \in occurrences(run[w].copy.schedule), e \in run[w].todo \cup {run[w].touched} :
               run[w].copy.last < a /\ a <= e => a \in instances \cup forgone \cup run[w].todo
      BY <1>1, <2>1, <2>5 DEF Tracks, Continues
    <3>1. \A a \in occurrences(x.copy.schedule) : a <= x.copy.last => a \in instances' \cup forgone'
      BY <2>1, <3>0 DEF Upto
    <3>2. ASSUME NEW a \in occurrences(x.copy.schedule), NEW e \in x.todo \cup {x.touched},
                 x.copy.last < a, a <= e
          PROVE  a \in instances' \cup forgone' \cup x.todo
      <4>1. e \in run[w].todo /\ a \in instances \cup forgone \cup run[w].todo
        BY <2>1, <3>0, <3>2
      <4>2. QED
        BY <2>1, <4>1
    <3>3. QED
      BY <2>1, <2>2, <3>1, <3>2 DEF Tracks, Upto, occurrences
  <2>6. Tracks(w)'
    BY <2>3, <2>5
  <2>7. QED
    BY <2>1, <2>6, MoveTracks
<1>3. CASE refuse(w)
  <2>1. PICK x : /\ Moves(w, x) /\ Continues(w, x) /\ x.copy.last = run[w].copy.last /\ run[w].at = "walk"
                 /\ x.at = "walk" /\ x.todo = {} /\ x.touched = run[w].touched
                 /\ row'.schedule = row.schedule /\ row'.last = row.last
                 /\ UNCHANGED <<day, instances, blocked, updates, events, forgone>>
    BY <1>3, Refuses
  <2>2. run'[w] = x /\ run[w].seeds = x.seeds
    BY <2>1, Moved DEF Continues
  <2>3. ASSUME x.seeds PROVE Tracks(w)'
    BY <2>2, <2>3 DEF Tracks
  <2>4. ASSUME ~x.seeds PROVE Tracks(w)'
    <3>0. /\ ~run[w].seeds /\ x.copy.schedule = run[w].copy.schedule
          /\ Upto(run[w].copy.schedule, run[w].copy.last)
          /\ \A a \in occurrences(run[w].copy.schedule), e \in run[w].todo \cup {run[w].touched} :
               run[w].copy.last < a /\ a <= e => a \in instances \cup forgone \cup run[w].todo
      BY <1>1, <2>1, <2>2, <2>4 DEF Tracks, Continues
    <3>1. \A a \in occurrences(x.copy.schedule) : a <= x.copy.last => a \in instances' \cup forgone'
      BY <2>1, <3>0 DEF Upto
    <3>2. ASSUME NEW a \in occurrences(x.copy.schedule), x.copy.last < a, a <= x.touched
          PROVE  a \in instances' \cup forgone'
      <4>1. a \in instances \cup forgone \cup run[w].todo
        BY <2>1, <3>0, <3>2
      <4>2. a \notin run[w].todo
        <5>1. a \in Nat /\ x.touched \in Nat
          <6>1. x.copy.schedule \in Schedules /\ x.touched \in Day \cup {None}
            BY <2>1 DEF TypeOK, Row, Moves, Run
          <6>2. occurrences(x.copy.schedule) \subseteq Day
            BY <6>1, Calendar, NextOccurrence
          <6>3. QED
            BY <6>1, <6>2, Calendar
        <5>2. a \in run[w].todo => run[w].touched < a
          BY <1>1, <2>1, <2>2, <2>4 DEF Serves
        <5>3. QED
          BY <2>1, <3>2, <5>1, <5>2
      <4>3. QED
        BY <2>1, <4>1, <4>2
    <3>3. QED
      BY <2>1, <2>2, <3>1, <3>2 DEF Tracks, Upto, occurrences
  <2>5. Tracks(w)'
    BY <2>3, <2>4
  <2>6. QED
    BY <2>1, <2>5, MoveTracks
<1>4. QED
  BY <1>2, <1>3

\* lastGeneratedDate is brought forward to a day behind which nothing is missing.
LEMMA MarkTracks ==
  ASSUME TypeOK, ServeInv, GapInv, NEW w \in Worker, markGenerated(w)
  PROVE  GapInv'
<1>1. Serves(w) /\ Tracks(w) /\ row \in Row /\ run[w] \in Run
  BY DEF ServeInv, GapInv, TypeOK
<1>2. PICK x : /\ Moves(w, x) /\ run[w].at = "walk" /\ run[w].todo = {}
               /\ x.at = "recompute" /\ row'.schedule = row.schedule
               /\ row'.last = IF advances(w) THEN run[w].touched ELSE row.last
               /\ forgone' = forgone \cup jumped(w)
               /\ UNCHANGED <<day, instances, blocked, told, updates, events>>
  BY Marks
<1>3. run'[w] = x /\ forgone \subseteq forgone' /\ instances \subseteq instances'
  BY <1>2, Moved
<1>4. Tracks(w)'
  BY <1>2, <1>3 DEF Tracks
<1>5. CASE ~advances(w)
  BY <1>2, <1>3, <1>4, <1>5, MoveTracks
<1>6. CASE advances(w)
  <2>1. /\ run[w].touched > run[w].copy.last /\ run[w].copy.last \in Nat /\ run[w].touched \in Nat
        /\ run[w].today \in Nat /\ occurrences(row.schedule) \subseteq Day
    BY <1>1, <1>6, Calendar, NextOccurrence, ZenonT(60) DEF advances, Run, Row
  <2>2. run[w].touched \in instances
    <3>1. run[w].touched # None
      BY <2>1 DEF None
    <3>2. QED
      BY <1>1, <1>2, <3>1 DEF Serves
  <2>3. ASSUME NEW d \in occurrences(row.schedule), d <= run[w].touched
        PROVE  d \in instances' \cup forgone'
    <3>1. d \in Day /\ d \in Nat
      BY <2>1, Calendar
    <3>2. CASE d = run[w].touched
      BY <1>2, <2>2, <3>2
    <3>3. CASE d < run[w].touched /\ (run[w].seeds \/ run[w].copy.schedule # row.schedule)
      BY <1>2, <1>6, <3>3 DEF jumped
    <3>4. CASE d < run[w].touched /\ ~run[w].seeds /\ run[w].copy.schedule = row.schedule
      <4>1. /\ Upto(row.schedule, run[w].copy.last)
            /\ \A a \in occurrences(row.schedule), e \in run[w].todo \cup {run[w].touched} :
                 run[w].copy.last < a /\ a <= e => a \in instances \cup forgone \cup run[w].todo
        BY <1>1, <1>2, <3>4 DEF Tracks
      <4>2. CASE d <= run[w].copy.last
        BY <1>3, <4>1, <4>2 DEF Upto
      <4>3. CASE run[w].copy.last < d
        BY <1>2, <1>3, <2>3, <4>1, <4>3
      <4>4. QED
        BY <2>1, <3>1, <4>2, <4>3
    <3>5. QED
      BY <2>1, <2>3, <3>1, <3>2, <3>3, <3>4
  <2>4. NoGap'
    BY <1>2, <1>6, <2>3 DEF NoGap
  <2>5. \A v \in Worker \ {w} : run'[v] = run[v]
    BY <1>2, Moved
  <2>6. ASSUME NEW v \in Worker \ {w} PROVE Tracks(v)'
    BY <1>3, <2>5, StillTracks DEF GapInv
  <2>7. QED
    BY <1>4, <2>4, <2>6 DEF GapInv
<1>7. QED
  BY <1>5, <1>6

\* Every step keeps lastGeneratedDate truthful.
LEMMA GapStep == TypeInv /\ ServeInv /\ GapInv /\ [Next]_vars => GapInv'
<1> SUFFICES ASSUME TypeInv, ServeInv, GapInv, [Next]_vars PROVE GapInv'
  OBVIOUS
<1>1. /\ TypeOK /\ "cron" \in Worker /\ "request" \in Worker /\ day \in Day /\ row \in Row
      /\ \A w \in Worker : w = "cron" \/ w = "request"
  BY DEF TypeInv, TypeOK, Worker
<1>2. ASSUME NEW w \in Worker, runTemplateOnce(w) PROVE GapInv'
  <2>1. PICK x : /\ Moves(w, x) /\ x.copy = row /\ x.today = day /\ ~x.seeds /\ x.touched = None
                 /\ \/ x.at \in {"recompute", "close"} /\ x.todo = {}
                    \/ x.at = "walk" /\ x.todo = backlog(row)
                 /\ UNCHANGED <<day, row, instances, blocked, told, updates, events, forgone>>
    BY <1>1, <1>2, PassBegins
  <2>2. run'[w] = x
    BY <1>1, <2>1, Moved
  <2>3. CASE x.at # "walk"
    <3>1. Tracks(w)'
      BY <2>2, <2>3 DEF Tracks
    <3>2. QED
      BY <1>1, <2>1, <3>1, MoveTracks
  <2>4. CASE x.at = "walk" /\ x.todo = backlog(row)
    <3>1. \A d \in occurrences(row.schedule) : d <= row.last => d \in instances \cup forgone
      BY DEF GapInv, NoGap
    <3>2. ASSUME NEW d \in occurrences(row.schedule), NEW e \in x.todo \cup {x.touched},
                 row.last < d, d <= e
          PROVE  d \in x.todo
      <4>1. CASE e = None
        <5>1. d \in Day
          BY <1>1, Calendar, NextOccurrence DEF Row
        <5>2. d \in Nat /\ 1 <= d /\ d <= 0
          BY <3>2, <4>1, <5>1, Calendar DEF None
        <5>3. QED
          BY <5>2
      <4>2. CASE e \in backlog(row)
        BY <1>1, <2>4, <3>2, <4>2, Backlog
      <4>3. QED
        BY <2>1, <2>4, <3>2, <4>1, <4>2
    <3>3. Tracks(w)'
      BY <2>1, <2>2, <3>1, <3>2 DEF Tracks, Upto
    <3>4. QED
      BY <1>1, <2>1, <3>3, MoveTracks
  <2>5. QED
    BY <2>1, <2>3, <2>4
<1>3. ASSUME NEW w \in Worker, NEW x, Moves(w, x), x.at # "walk" \/ x.seeds,
             instances \subseteq instances', forgone \subseteq forgone',
             row'.schedule = row.schedule, row'.last = row.last
      PROVE  GapInv'
  <2>1. run'[w] = x
    BY <1>1, <1>3, Moved
  <2>2. Tracks(w)'
    BY <1>3, <2>1 DEF Tracks
  <2>3. QED
    BY <1>1, <1>3, <2>2, MoveTracks
<1>4. CASE \E w \in Worker : step(w)
  <2>1. PICK w \in Worker : step(w)
    BY <1>4
  <2>2. CASE generateInstance(w) \/ refuse(w)
    BY <1>1, <2>2, WalkTracks
  <2>3. CASE markGenerated(w)
    BY <1>1, <2>3, MarkTracks
  <2>4. CASE recomputeNextRunAt(w) \/ closeTemplate(w)
    <3>1. /\ Moves(w, Idle) /\ row'.schedule = row.schedule /\ row'.last = row.last
          /\ UNCHANGED <<instances, forgone>>
      BY <1>1, <2>4, Ends
    <3>2. Idle.at # "walk"
      BY <1>1, IdleRun DEF Row
    <3>3. QED
      BY <1>3, <3>1, <3>2
  <2>5. QED
    BY <2>1, <2>2, <2>3, <2>4 DEF step
<1>5. ASSUME NEW s \in Schedules, NEW active \in BOOLEAN, updateTemplate(s, active) PROVE GapInv'
  <2>1. PICK r \in Row : /\ edit(r, TRUE) /\ r.schedule = s /\ r.last = row.last
                         /\ forgone' = forgone \cup Overtaken(s)
    BY <1>1, <1>5, Updates
  <2>2. PICK x : /\ Moves("request", x) /\ x.at = "reschedule" /\ row' = r /\ UNCHANGED <<day, instances>>
    BY <1>1, <2>1, Edits
  <2>3. run'["request"] = x /\ run'["cron"] = run["cron"]
    BY <1>1, <2>2, Moved
  <2>4. NoGap'
    <3>1. ASSUME NEW d \in occurrences(s), d <= row.last PROVE d \in instances' \cup forgone'
      <4>1. CASE d \in occurrences(row.schedule)
        BY <2>1, <2>2, <3>1, <4>1 DEF GapInv, NoGap
      <4>2. CASE d \notin occurrences(row.schedule)
        BY <2>1, <2>2, <3>1, <4>2 DEF Overtaken
      <4>3. QED
        BY <4>1, <4>2
    <3>2. QED
      BY <2>1, <2>2, <3>1 DEF NoGap
  <2>6. Tracks("request")'
    BY <2>2, <2>3 DEF Tracks
  <2>7. Tracks("cron")'
    BY <1>1, <2>1, <2>2, <2>3, StillTracks DEF GapInv
  <2>8. QED
    BY <1>1, <2>4, <2>6, <2>7 DEF GapInv
<1>6. CASE \E makeActive \in BOOLEAN : togglePause(makeActive)
  <2>1. PICK r \in Row, makeActive \in BOOLEAN :
          /\ edit(r, makeActive) /\ r.schedule = row.schedule /\ r.last = row.last /\ UNCHANGED forgone
    BY <1>1, <1>6, Pauses
  <2>2. PICK x : /\ Moves("request", x) /\ x.at = "reschedule" /\ row' = r /\ UNCHANGED instances
    BY <1>1, <2>1, Edits
  <2>3. QED
    BY <1>1, <1>3, <2>1, <2>2
<1>7. CASE reschedule
  <2>1. PICK x : /\ Moves("request", x) /\ x.at # "walk" /\ row'.schedule = row.schedule
                 /\ row'.last = row.last /\ UNCHANGED <<instances, forgone>>
    BY <1>1, <1>7, Reschedules
  <2>2. QED
    BY <1>1, <1>3, <2>1
<1>8. CASE \E late \in BOOLEAN : seedNextUpcomingInstance(late)
  <2>1. PICK x, d : /\ Moves("request", x) /\ Continues("request", x) /\ run["request"].at = "seed"
                    /\ \/ instances' = instances \cup {d} \/ instances' = instances
                    /\ UNCHANGED <<row, forgone>>
    BY <1>1, <1>8, Seeds
  <2>2. x.seeds
    BY <1>1, <2>1 DEF ServeInv, Serves, Continues
  <2>3. QED
    BY <1>1, <1>3, <2>1, <2>2
<1>9. CASE archiveTemplate \/ passTime \/ block \/ UNCHANGED vars
  <2>1. /\ run' = run /\ instances' = instances /\ forgone' = forgone
        /\ row'.schedule = row.schedule /\ row'.last = row.last
    BY <1>1, <1>9, Surroundings DEF vars
  <2>2. \A w \in Worker : Tracks(w)'
    BY <2>1, StillTracks DEF GapInv
  <2>3. NoGap'
    BY <2>1 DEF GapInv, NoGap
  <2>4. QED
    BY <2>2, <2>3 DEF GapInv
<1>10. CASE \E w \in Worker : stop(w)
  <2>1. PICK w \in Worker : Moves(w, Idle) /\ UNCHANGED <<row, instances, forgone>>
    BY <1>1, <1>10, Stops
  <2>2. Idle.at # "walk"
    BY <1>1, IdleRun DEF Row
  <2>3. QED
    BY <1>3, <2>1, <2>2
<1>11. QED
  BY <1>1, <1>2, <1>4, <1>5, <1>6, <1>7, <1>8, <1>9, <1>10 DEF Next, tickOnce, generateNow, idleTick

\* No occurrence up to lastGeneratedDate is missing, other than those a seed jumped and those of
\* a schedule adopted after them or under a running pass: however passes, requests and restarts interleave, the backfill,
\* which starts after that date, jumps over no day of its own accord.
THEOREM NothingSkipped == Spec => []NoGap
<1>1. Init => GapInv
  <2> SUFFICES ASSUME Init PROVE GapInv
    OBVIOUS
  <2>1. /\ row.last = None /\ row.schedule \in Schedules /\ run["cron"] = Idle /\ Schedules # {}
        /\ run["request"].at = "reschedule"
    BY TypeInit DEF TypeInv, TypeOK, Row
  <2>2. ASSUME NEW d \in occurrences(row.schedule), d <= row.last PROVE FALSE
    <3>1. d \in Day
      BY <2>1, Calendar, NextOccurrence
    <3>2. d \in Nat /\ 1 <= d /\ d <= 0
      BY <2>1, <2>2, <3>1, Calendar DEF None
    <3>3. QED
      BY <3>2
  <2>3. NoGap
    BY <2>2 DEF NoGap
  <2>4. Idle.at = "idle"
    BY <2>1, IdleRun
  <2>5. Tracks("cron") /\ Tracks("request")
    BY <2>1, <2>4 DEF Tracks
  <2>6. QED
    BY <2>3, <2>5 DEF GapInv, Worker
<1>2. GapInv => NoGap
  BY DEF GapInv
<1>3. QED
  BY <1>1, <1>2, ServeCorrect, GapStep, PTL DEF Spec

-----------------------------------------------------------------------------
\* The instances and the schedule.

\* Until the schedule is changed, everybody works on it, and every instance is one of its days.
WithinInv ==
  updates = 0 => /\ instances \subseteq occurrences(row.schedule)
                 /\ \A w \in Worker : ~idle(w) => run[w].copy.schedule = row.schedule

\* The tasks ahead of their day, other than the next occurrence, stem from earlier schedules.
Astray == {d \in instances : day < d /\ d # nextOccurrenceDate(row.schedule, day + 1)}
AheadInv == Cardinality(Astray) <= updates

\* Few tasks are astray: what is a subset of them is fewer still.
LEMMA FewerAstray ==
  ASSUME TypeOK, AheadInv, NEW T, T \subseteq Astray
  PROVE  IsFiniteSet(T) /\ Cardinality(T) \in Nat /\ Cardinality(T) <= updates
<1>1. IsFiniteSet(Astray) /\ Cardinality(Astray) \in Nat
  BY Calendar, FS_Subset, FS_CardinalityType DEF Astray, TypeOK
<1>2. IsFiniteSet(T) /\ Cardinality(T) <= Cardinality(Astray) /\ Cardinality(T) \in Nat
  BY <1>1, FS_Subset, FS_CardinalityType
<1>3. updates \in Nat
  BY RecurringConstants DEF TypeOK
<1>4. QED
  BY <1>1, <1>2, <1>3 DEF AheadInv

\* A worker moves on under the schedule that was, and files no instance but a day that
\* generates, and ahead of its day only the next one.
LEMMA MoveWithin ==
  ASSUME TypeOK, WithinInv, AheadInv, NEW w \in Worker, NEW x, Moves(w, x),
         x.at # "idle" /\ updates = 0 => x.copy.schedule = row.schedule,
         instances' = instances \/ \E d \in Day : /\ instances' = instances \cup {d}
                                                  /\ updates = 0 => d \in occurrences(row.schedule)
                                                  /\ d > day => d = nextOccurrenceDate(row.schedule, day + 1),
         row'.schedule = row.schedule, UNCHANGED <<day, updates>>
  PROVE  WithinInv' /\ AheadInv'
<1>1. run'[w] = x /\ \A v \in Worker \ {w} : run'[v] = run[v]
  BY Moved
<1>2. updates = 0 => \A v \in Worker : run'[v].at # "idle" => run'[v].copy.schedule = row.schedule
  BY <1>1 DEF WithinInv, idle
<1>3. updates = 0 => instances' \subseteq occurrences(row.schedule)
  BY DEF WithinInv
<1>4. WithinInv'
  BY <1>2, <1>3 DEF WithinInv, idle
<1>5. Astray' \subseteq Astray
  <2>1. day \in Nat /\ Day \subseteq Nat
    BY Calendar DEF TypeOK
  <2>2. QED
    BY <2>1 DEF Astray
<1>6. Cardinality(Astray') <= updates
  BY <1>5, FewerAstray
<1>7. QED
  BY <1>4, <1>6 DEF AheadInv

\* The schedule is changed: the task of the old next occurrence goes astray, too.
LEMMA UpdateAhead ==
  ASSUME TypeOK, AheadInv, instances' = instances, day' = day, updates' = updates + 1
  PROVE  AheadInv'
<1> DEFINE n == nextOccurrenceDate(row.schedule, day + 1)
           T == Astray \cup {n}
<1>1. IsFiniteSet(Astray) /\ Cardinality(Astray) \in Nat /\ Cardinality(Astray) <= updates
  BY FewerAstray
<1>2. Astray' \subseteq T
  BY DEF Astray
<1> HIDE DEF n
<1>3. IsFiniteSet(T) /\ Cardinality(T) <= Cardinality(Astray) + 1 /\ Cardinality(T) \in Nat
  <2>1. IsFiniteSet(T)
        /\ Cardinality(T) = IF n \in Astray THEN Cardinality(Astray) ELSE Cardinality(Astray) + 1
    BY <1>1, FS_AddElement
  <2>2. QED
    BY <1>1, <2>1
<1> HIDE DEF T
<1>4. Cardinality(Astray') <= Cardinality(T) /\ Cardinality(Astray') \in Nat
  BY <1>2, <1>3, FS_Subset, FS_CardinalityType
<1>5. updates \in Nat
  BY RecurringConstants DEF TypeOK
<1>6. Cardinality(Astray') <= updates'
  BY <1>1, <1>3, <1>4, <1>5
<1>7. QED
  BY <1>6 DEF AheadInv

\* A day passes: the next occurrence is either reached, or still the next one.
LEMMA DayAhead ==
  ASSUME TypeOK, AheadInv, passTime
  PROVE  AheadInv'
<1>1. /\ day' \in Day /\ day' = day + 1 /\ UNCHANGED <<row, instances, run, updates>>
      /\ day \in Nat /\ row.schedule \in Schedules /\ instances \subseteq Day
  BY Surroundings, Calendar DEF TypeOK, Row
<1> DEFINE s == row.schedule
           n == nextOccurrenceDate(s, day + 1)
           m == nextOccurrenceDate(s, day + 2)
<1>2. /\ n \in Day \cup {Never} /\ (n # Never => n \in occurrences(s) /\ day + 1 <= n)
      /\ \A d \in occurrences(s) : day + 1 <= d => n # Never /\ n <= d
  BY <1>1, NextOccurrence
<1>3. /\ m \in Day \cup {Never} /\ (m # Never => m \in occurrences(s) /\ day + 2 <= m)
      /\ \A d \in occurrences(s) : day + 2 <= d => m # Never /\ m <= d
  <2>1. day + 2 \in Nat
    BY <1>1
  <2>2. QED
    BY <1>1, <2>1, NextOccurrence
<1>4. Astray' = {d \in instances : day + 1 < d /\ d # m}
  <2>1. nextOccurrenceDate(s, day' + 1) = m
    BY <1>1
  <2>2. QED
    BY <1>1, <2>1 DEF Astray
<1> HIDE DEF n, m, s
<1>5. ASSUME NEW d \in Day, day + 1 < d, d = n PROVE d = m
  <2>1. d \in Nat /\ n # Never /\ n \in occurrences(s) /\ n \in Nat /\ day + 2 <= n
    BY <1>1, <1>2, <1>5, Calendar
  <2>2. m # Never /\ m <= n
    BY <1>3, <2>1
  <2>3. m \in occurrences(s) /\ m \in Nat /\ day + 1 <= m
    BY <1>1, <1>3, <2>2, Calendar
  <2>4. n <= m
    BY <1>2, <2>3
  <2>5. QED
    BY <1>5, <2>1, <2>2, <2>3, <2>4
<1>6. ASSUME NEW d \in Astray' PROVE d \in Astray
  <2>1. d \in instances /\ day + 1 < d /\ d # m /\ d \in Day /\ d \in Nat
    BY <1>1, <1>4, <1>6, Calendar
  <2>2. d # n /\ day < d
    BY <1>1, <1>5, <2>1
  <2>3. QED
    BY <2>1, <2>2 DEF Astray, n, s
<1>7. Cardinality(Astray') <= updates
  BY <1>6, FewerAstray
<1>8. QED
  BY <1>1, <1>7 DEF AheadInv

\* Every step keeps the instances within the schedule, and few of them ahead.
LEMMA WithinStep == TypeInv /\ ServeInv /\ WithinInv /\ AheadInv /\ [Next]_vars => WithinInv' /\ AheadInv'
<1> SUFFICES ASSUME TypeInv, ServeInv, WithinInv, AheadInv, [Next]_vars PROVE WithinInv' /\ AheadInv'
  OBVIOUS
<1>1. /\ TypeOK /\ "cron" \in Worker /\ "request" \in Worker /\ day \in Day /\ row \in Row
      /\ updates \in Nat /\ Idle.at = "idle" /\ Day \subseteq Nat
  <2>1. TypeOK /\ "cron" \in Worker /\ "request" \in Worker /\ day \in Day /\ row \in Row
    BY DEF TypeInv, TypeOK, Worker
  <2>2. updates \in Nat
    BY RecurringConstants DEF TypeInv, TypeOK
  <2>3. Idle.at = "idle"
    BY <2>1, IdleRun DEF Row
  <2>4. QED
    BY <2>1, <2>2, <2>3, Calendar
<1>2. ASSUME NEW w \in Worker, runTemplateOnce(w) PROVE WithinInv' /\ AheadInv'
  <2>1. PICK x : /\ Moves(w, x) /\ x.copy = row
                 /\ UNCHANGED <<day, row, instances, blocked, told, updates, events, forgone>>
    BY <1>1, <1>2, PassBegins
  <2>2. QED
    BY <1>1, <2>1, MoveWithin
<1>3. ASSUME NEW w \in Worker, step(w) PROVE WithinInv' /\ AheadInv'
  <2>1. Serves(w) /\ (run[w].at = "walk" /\ updates = 0 => run[w].copy.schedule = row.schedule)
    BY DEF ServeInv, WithinInv, idle
  <2>2. CASE generateInstance(w)
    <3>1. PICK x, d : /\ Moves(w, x) /\ Continues(w, x) /\ run[w].at = "walk"
                      /\ d \in run[w].todo /\ d \in Day /\ instances' = instances \cup {d}
                      /\ UNCHANGED <<day, row, blocked, told, updates, events, forgone>>
      BY <1>1, <2>2, Generates
    <3>2. d <= day
      <4>1. ~run[w].seeds /\ d <= run[w].today /\ run[w].today <= day
        BY <2>1, <3>1 DEF Serves
      <4>2. run[w].today \in Nat /\ d \in Nat /\ day \in Nat
        BY <1>1, <3>1 DEF TypeOK, Run
      <4>3. QED
        BY <4>1, <4>2
    <3>3. ~(d > day)
      BY <1>1, <3>1, <3>2
    <3>4. updates = 0 => d \in occurrences(row.schedule) /\ x.copy.schedule = row.schedule
      BY <2>1, <3>1 DEF Serves, Continues
    <3>5. QED
      BY <1>1, <3>1, <3>3, <3>4, MoveWithin
  <2>3. CASE refuse(w)
    <3>1. PICK x : /\ Moves(w, x) /\ Continues(w, x) /\ run[w].at = "walk"
                   /\ row'.schedule = row.schedule /\ UNCHANGED <<day, instances, updates>>
      BY <1>1, <2>3, Refuses
    <3>2. QED
      BY <1>1, <2>1, <3>1, MoveWithin DEF Continues
  <2>4. CASE markGenerated(w)
    <3>1. PICK x : /\ Moves(w, x) /\ Continues(w, x) /\ run[w].at = "walk"
                   /\ row'.schedule = row.schedule /\ UNCHANGED <<day, instances, updates>>
      BY <1>1, <2>4, Marks
    <3>2. QED
      BY <1>1, <2>1, <3>1, MoveWithin DEF Continues
  <2>5. CASE recomputeNextRunAt(w) \/ closeTemplate(w)
    <3>1. Moves(w, Idle) /\ row'.schedule = row.schedule /\ UNCHANGED <<day, instances, updates>>
      BY <1>1, <2>5, Ends
    <3>2. QED
      BY <1>1, <3>1, MoveWithin
  <2>6. QED
    BY <1>3, <2>2, <2>3, <2>4, <2>5 DEF step
<1>4. ASSUME NEW s \in Schedules, NEW active \in BOOLEAN, updateTemplate(s, active)
      PROVE  WithinInv' /\ AheadInv'
  <2>1. PICK r \in Row : /\ edit(r, TRUE) /\ r.schedule = s
                         /\ updates' = IF s = row.schedule THEN updates ELSE updates + 1
    BY <1>1, <1>4, Updates
  <2>2. PICK x : /\ Moves("request", x) /\ x.copy = r /\ row' = r /\ UNCHANGED <<day, instances>>
    BY <1>1, <2>1, Edits
  <2>3. CASE s # row.schedule
    <3>1. updates' # 0
      BY <1>1, <2>1, <2>3
    <3>2. QED
      BY <1>1, <2>1, <2>2, <2>3, <3>1, UpdateAhead DEF WithinInv
  <2>4. CASE s = row.schedule
    <3>1. run'["request"] = x /\ run'["cron"] = run["cron"]
      BY <1>1, <2>2, Moved
    <3>2. ASSUME updates' = 0
          PROVE  /\ instances' \subseteq occurrences(row'.schedule)
                 /\ \A w \in Worker : run'[w].at # "idle" => run'[w].copy.schedule = row'.schedule
      <4>1. row'.schedule = row.schedule /\ updates = 0 /\ instances' = instances
        BY <2>1, <2>2, <2>4, <3>2
      <4>2. /\ instances \subseteq occurrences(row.schedule)
            /\ run["cron"].at # "idle" => run["cron"].copy.schedule = row.schedule
        BY <1>1, <4>1 DEF WithinInv, idle
      <4>3. QED
        BY <2>1, <2>2, <2>4, <3>1, <4>1, <4>2 DEF Worker
    <3>5. WithinInv'
      BY <3>2 DEF WithinInv, idle, occurrences
    <3>3. AheadInv'
      BY <2>1, <2>2, <2>4 DEF AheadInv, Astray
    <3>4. QED
      BY <3>3, <3>5
  <2>5. QED
    BY <2>3, <2>4
<1>5. CASE \E makeActive \in BOOLEAN : togglePause(makeActive)
  <2>1. PICK r \in Row, makeActive \in BOOLEAN :
          edit(r, makeActive) /\ r.schedule = row.schedule /\ UNCHANGED updates
    BY <1>1, <1>5, Pauses
  <2>2. PICK x : /\ Moves("request", x) /\ x.copy = r /\ row' = r /\ UNCHANGED <<day, instances>>
    BY <1>1, <2>1, Edits
  <2>3. QED
    BY <1>1, <2>1, <2>2, MoveWithin
<1>6. CASE reschedule
  <2>1. PICK x : /\ Moves("request", x)
                 /\ x.at = "idle" \/ (x.at = "seed" /\ x.seeds /\ x.copy.schedule = row.schedule)
                 /\ row'.schedule = row.schedule /\ UNCHANGED <<day, instances, updates>>
    BY <1>1, <1>6, Reschedules
  <2>2. QED
    BY <1>1, <2>1, MoveWithin
<1>7. CASE \E late \in BOOLEAN : seedNextUpcomingInstance(late)
  <2>1. PICK x, d : /\ Moves("request", x) /\ Continues("request", x) /\ run["request"].at = "seed"
                    /\ \/ /\ d \in Day /\ d \in occurrences(run["request"].copy.schedule)
                          /\ d > day => d = nextOccurrenceDate(run["request"].copy.schedule, day + 1)
                          /\ instances' = instances \cup {d}
                       \/ instances' = instances
                    /\ UNCHANGED <<day, row, updates>>
    BY <1>1, <1>7, Seeds
  <2>2. run["request"].copy.schedule = row.schedule
    BY <1>1, <2>1 DEF ServeInv, Serves
  <2>3. QED
    BY <1>1, <2>1, <2>2, MoveWithin DEF Continues
<1>8. CASE archiveTemplate \/ block \/ UNCHANGED vars
  <2>1. UNCHANGED <<run, instances, day, updates>> /\ row'.schedule = row.schedule
    BY <1>1, <1>8, Surroundings DEF vars
  <2>2. Astray' = Astray
    BY <2>1 DEF Astray
  <2>3. QED
    BY <2>1, <2>2 DEF WithinInv, AheadInv, idle
<1>9. CASE passTime
  <2>1. UNCHANGED <<run, instances, row, updates>>
    BY <1>1, <1>9, Surroundings
  <2>2. QED
    BY <1>1, <1>9, <2>1, DayAhead DEF WithinInv, idle
<1>10. CASE \E w \in Worker : stop(w)
  <2>1. PICK w \in Worker : Moves(w, Idle) /\ UNCHANGED <<day, row, instances, updates>>
    BY <1>1, <1>10, Stops
  <2>2. QED
    BY <1>1, <2>1, MoveWithin
<1>11. QED
  BY <1>1, <1>2, <1>3, <1>4, <1>5, <1>6, <1>7, <1>8, <1>9, <1>10
     DEF Next, tickOnce, generateNow, idleTick

\* Both invariants hold throughout.
LEMMA WithinCorrect == Spec => [](TypeInv /\ WithinInv /\ AheadInv)
<1>1. Init => WithinInv /\ AheadInv
  <2> SUFFICES ASSUME Init PROVE WithinInv /\ AheadInv
    OBVIOUS
  <2>1. run["request"].copy = row /\ run["cron"] = Idle /\ instances = {} /\ updates = 0 /\ Schedules # {}
    BY TypeInit DEF Init, TypeInv, TypeOK, Row
  <2>2. Idle.at = "idle"
    BY <2>1, IdleRun
  <2>3. WithinInv
    BY <2>1, <2>2 DEF WithinInv, idle, Worker
  <2>4. Astray = {}
    BY <2>1 DEF Astray
  <2>5. QED
    BY <2>1, <2>3, <2>4, FS_EmptySet DEF AheadInv
<1>2. QED
  BY <1>1, ServeCorrect, WithinStep, PTL DEF Spec

\* Under one schedule every instance, generated or seeded, is one of its occurrences.
THEOREM StaysWithin == Spec => []WithinSchedule
<1>1. WithinInv => WithinSchedule
  BY DEF WithinInv, WithinSchedule
<1>2. QED
  BY <1>1, WithinCorrect, PTL

\* However often it is paused, resumed, run by hand and restarted, a template has at most one
\* task ahead of its day for each schedule it has had.
THEOREM OneAhead == Spec => []OneUpcoming
<1>1. TypeInv /\ AheadInv => OneUpcoming
  <2> SUFFICES ASSUME TypeOK, AheadInv PROVE OneUpcoming
    BY DEF TypeInv
  <2> DEFINE n == nextOccurrenceDate(row.schedule, day + 1)
             T == Astray \cup {n}
             U == {d \in instances : day < d}
  <2>1. IsFiniteSet(Astray) /\ Cardinality(Astray) \in Nat /\ Cardinality(Astray) <= updates
    BY FewerAstray
  <2>2. IsFiniteSet(T) /\ Cardinality(T) <= Cardinality(Astray) + 1 /\ Cardinality(T) \in Nat
    BY <2>1, FS_AddElement, FS_CardinalityType
  <2>3. U \subseteq T
    BY DEF Astray
  <2>4. Cardinality(U) <= Cardinality(T) /\ Cardinality(U) \in Nat
    BY <2>2, <2>3, FS_Subset, FS_CardinalityType
  <2>5. updates \in Nat
    BY RecurringConstants DEF TypeOK
  <2>6. Cardinality(U) <= 1 + updates
    BY <2>1, <2>2, <2>4, <2>5
  <2>7. QED
    BY <2>6 DEF OneUpcoming
<1>2. QED
  BY <1>1, WithinCorrect, PTL
=============================================================================
