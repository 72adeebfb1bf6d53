------------------------- MODULE RecurringTemplate -------------------------
(***************************************************************************)
(* One recurring task template and the instances generated from it: the cron *)
(* pass (recurringTemplateGenerationJob.js), the admin's generate-now and the *)
(* editor's requests (recurringTemplateController.js), all through            *)
(* recurringTaskService.js.                                                  *)
(*                                                                         *)
(* A date is a day number in the template's time zone; generation time is 00:05, *)
(* here the start of the day.  A worker loads the     *)
(* template row once and works on that copy, statement by statement; the       *)
(* instance with its assignee and owner rows is one transaction.  The copy     *)
(* writes only the columns an update names and changes (Sequelize).            *)
(***************************************************************************)
EXTENDS Integers, FiniteSets, FiniteSetsExt

CONSTANTS
  LastDay,       \* bound on the calendar
  Schedules,     \* what the frequency, start and end of a template may be
  BACKFILL_CAP,  \* days one pass walks at most
  MaxEvents      \* bound on edits, pauses, blocks and restarts together

Day == 1..LastDay
None == 0               \* lastGeneratedDate of a template that never generated
Never == LastDay + 1    \* nextRunAt NULL, and an open end

occurrences(s) == {d \in s.days : s.start <= d /\ d <= s.end}

(* The cap spans the longest gap between two occurrences, as 31 days span any    *)
(* gap of the frequencies.                                                    *)
ASSUME RecurringConstants ==
  /\ LastDay \in Nat \ {0} /\ BACKFILL_CAP \in Nat \ {0}
  /\ MaxEvents \in Nat
  /\ Schedules \subseteq [days : SUBSET Day, start : Day, end : Day \cup {Never}]
  /\ \A s \in Schedules : \A d \in occurrences(s) :
       d - BACKFILL_CAP < s.start \/ \E c \in occurrences(s) : d - BACKFILL_CAP <= c /\ c < d

(* The cron pass, and one request at a time. *)
Worker == {"cron", "request"}

VARIABLES
  day,          \* the date
  row,          \* recurring_task_templates
  instances,    \* the days whose task exists
  blocked,      \* the board is archived or the assignee deactivated
  told,         \* the creator was told that generation has stopped
  run,          \* what each worker is doing, on which copy
  updates,      \* schedule changes so far
  events,       \* edits, pauses, blocks and restarts so far
  forgone       \* history: days lastGeneratedDate has passed without their task

vars == <<day, row, instances, blocked, told, run, updates, events, forgone>>

Row == [active : BOOLEAN, archived : BOOLEAN, last : Day \cup {None},
        next : Day \cup {Never}, schedule : Schedules]

(* seeds: the request is to seed an instance, now or after the reload. *)
Run == [at : {"idle", "walk", "seed", "reschedule", "recompute", "close"},
        copy : Row, today : Day, todo : SUBSET Day, touched : Day \cup {None}, seeds : BOOLEAN]

TypeOK ==
  /\ day \in Day
  /\ row \in Row
  /\ instances \subseteq Day
  /\ blocked \in BOOLEAN /\ told \in BOOLEAN
  /\ run \in [Worker -> Run]
  /\ updates \in 0..MaxEvents /\ events \in 0..MaxEvents
  /\ forgone \subseteq Day

idle(w) == run[w].at = "idle"
at(w, a) == run[w].at = a

loaded(r, a, todo, seeds) ==
  [at |-> a, copy |-> r, today |-> day, todo |-> todo, touched |-> None, seeds |-> seeds]

(* Done with the request: the copy no longer matters. *)
NoCopy == [active |-> FALSE, archived |-> FALSE, last |-> None, next |-> Never,
           schedule |-> CHOOSE s \in Schedules : TRUE]
Idle == [at |-> "idle", copy |-> NoCopy, today |-> 1, todo |-> {}, touched |-> None, seeds |-> FALSE]
rest(w) == run' = [run EXCEPT ![w] = Idle]

(* createTemplate has inserted the row and goes on. *)
Init ==
  /\ day = 1
  /\ \E s \in Schedules, a \in BOOLEAN :
       row = [active |-> a, archived |-> FALSE, last |-> None, next |-> Never, schedule |-> s]
  /\ instances = {} /\ blocked = FALSE /\ told = FALSE
  /\ run = [w \in Worker |->
              IF w = "request" THEN loaded(row, "reschedule", {}, TRUE) ELSE Idle]
  /\ updates = 0 /\ events = 0
  /\ forgone = {}

---------------------------------------------------------------------------
nextOccurrenceDate(s, from) ==
  LET ahead == {d \in occurrences(s) : from <= d} IN IF ahead = {} THEN Never ELSE Min(ahead)

walkStart_skipsOne(c) == Min({day, Max({c.schedule.start, c.last + 2})})

walkStart(c) == Min({day, Max({c.schedule.start, c.last + 1})})

backlog(c) ==
  {d \in occurrences(c.schedule) : walkStart(c) <= d /\ d <= day /\ d < walkStart(c) + BACKFILL_CAP}

runTemplateOnce(w) ==
  /\ run' = [run EXCEPT ![w] =
       IF day < row.schedule.start THEN loaded(row, "recompute", {}, FALSE)
       ELSE IF day > row.schedule.end THEN loaded(row, "close", {}, FALSE)
       ELSE loaded(row, "walk", backlog(row), FALSE)]
  /\ UNCHANGED <<day, row, instances, blocked, told, updates, events, forgone>>

(* nextRunAt <= now. *)
candidate == row.active /\ ~row.archived /\ row.next <= day

tickOnce ==
  /\ idle("cron")
  /\ candidate
  /\ runTemplateOnce("cron")

generateNow ==
  /\ idle("request")
  /\ row.active /\ ~row.archived
  /\ runTemplateOnce("request")

(* The template's flags as loaded, the board and the assignee as they are. *)
validateTemplateForGeneration(c) == c.active /\ ~c.archived /\ ~blocked

(* One step of the walk.  The unique index makes the day's instance one. *)
generateInstance(w) ==
  LET d == Min(run[w].todo) IN
  /\ at(w, "walk") /\ run[w].todo # {}
  /\ validateTemplateForGeneration(run[w].copy)
  /\ instances' = instances \cup {d}
  /\ run' = [run EXCEPT ![w].todo = @ \ {d}, ![w].touched = d]
  /\ UNCHANGED <<day, row, blocked, told, updates, events, forgone>>

(* Preflight failed: the walk ends.  notifyPreflightFailureOnce clears nextRunAt  *)
(* and tells the creator, unless this process has done so before.                *)
refuse(w) ==
  /\ at(w, "walk") /\ run[w].todo # {}
  /\ ~validateTemplateForGeneration(run[w].copy)
  /\ \/ /\ blocked
        /\ told' = TRUE
        /\ row' = IF run[w].copy.next # Never THEN [row EXCEPT !.next = Never] ELSE row
        /\ run' = [run EXCEPT ![w].todo = {}, ![w].copy.next = Never]
     \/ /\ blocked => told
        /\ run' = [run EXCEPT ![w].todo = {}]
        /\ UNCHANGED <<row, told>>
  /\ UNCHANGED <<day, instances, blocked, updates, events, forgone>>

(* lastGeneratedDate moves forward only, as far as the copy knows. *)
advances(w) == run[w].touched > run[w].copy.last

(* History: a seed passes the days still to be backfilled, and a pass on a          *)
(* schedule that was changed under it those of the new one.                        *)
jumped(w) ==
  IF advances(w) /\ (run[w].seeds \/ run[w].copy.schedule # row.schedule)
  THEN {d \in occurrences(row.schedule) : d < run[w].touched} \ instances ELSE {}

markGenerated(w) ==
  /\ at(w, "walk") /\ run[w].todo = {}
  /\ row' = IF advances(w) THEN [row EXCEPT !.last = run[w].touched] ELSE row
  /\ run' = [run EXCEPT ![w].at = "recompute",
                        ![w].copy.last = IF advances(w) THEN run[w].touched ELSE @]
  /\ forgone' = forgone \cup jumped(w)
  /\ UNCHANGED <<day, instances, blocked, told, updates, events>>

nextRun_afterToday(w) ==
  nextOccurrenceDate(run[w].copy.schedule, Max({run[w].today + 1, run[w].copy.last + 1}))

nextRun(w) == nextOccurrenceDate(run[w].copy.schedule, Max({run[w].today, run[w].copy.last + 1}))

writeNextRun(w) ==
  row' = IF nextRun(w) # run[w].copy.next THEN [row EXCEPT !.next = nextRun(w)] ELSE row

(* The last step of every pass and every seed. *)
recomputeNextRunAt(w) ==
  /\ at(w, "recompute")
  /\ writeNextRun(w)
  /\ rest(w)
  /\ UNCHANGED <<day, instances, blocked, told, updates, events, forgone>>

(* After the end date there is nothing left to run. *)
closeTemplate(w) ==
  /\ at(w, "close")
  /\ row' = IF run[w].copy.next # Never THEN [row EXCEPT !.next = Never] ELSE row
  /\ rest(w)
  /\ UNCHANGED <<day, instances, blocked, told, updates, events, forgone>>

---------------------------------------------------------------------------
(* The editor's requests.  Each loads the row and writes it in the first step. *)

disturb == events < MaxEvents /\ events' = events + 1   \* a bound

edit(r, seeds) ==
  /\ disturb
  /\ row' = r
  /\ run' = [run EXCEPT !["request"] = loaded(r, "reschedule", {}, seeds)]
  /\ UNCHANGED <<day, instances, blocked, told>>

(* PATCH that names a schedule field, s the same schedule if only the due time is    *)
(* new, and possibly isActive.  History: days only the new schedule has, if they    *)
(* lie behind lastGeneratedDate, have no task.                                     *)
updateTemplate(s, active) ==
  /\ idle("request")
  /\ edit([row EXCEPT !.schedule = s, !.active = active], TRUE)
  /\ updates' = IF s = row.schedule THEN updates ELSE updates + 1
  /\ forgone' = forgone \cup
       ({d \in occurrences(s) \ occurrences(row.schedule) : d <= row.last} \ instances)

togglePause(makeActive) ==
  /\ idle("request")
  /\ ~row.archived /\ row.active # makeActive
  /\ edit([row EXCEPT !.active = makeActive], makeActive)
  /\ UNCHANGED <<updates, forgone>>

archiveTemplate ==
  /\ idle("request") /\ ~row.archived
  /\ row' = [row EXCEPT !.archived = TRUE, !.active = FALSE, !.next = Never]
  /\ UNCHANGED <<day, instances, blocked, told, run, updates, events, forgone>>

(* recomputeNextRunAt, then reload. *)
reschedule ==
  /\ at("request", "reschedule")
  /\ writeNextRun("request")
  /\ IF run["request"].seeds /\ row'.active /\ ~row'.archived
     THEN run' = [run EXCEPT !["request"] = loaded(row', "seed", {}, TRUE)]
     ELSE rest("request")
  /\ UNCHANGED <<day, instances, blocked, told, updates, events, forgone>>

seedDate_afterLast(c, late) == nextOccurrenceDate(c.schedule, Max({day, c.last + 1}))

(* Today, unless its due time has passed and there is a later day. *)
seedDate(c, late) ==
  LET first == nextOccurrenceDate(c.schedule, day)
      later == nextOccurrenceDate(c.schedule, day + 1)
  IN IF first = day /\ late /\ later # Never THEN later ELSE first

seedNextUpcomingInstance_unchecked(late) ==
  LET c == run["request"].copy
      d == seedDate(c, late)
      seeded == validateTemplateForGeneration(c)
  IN
  /\ at("request", "seed")
  /\ instances' = IF seeded THEN instances \cup {d} ELSE instances
  /\ run' = [run EXCEPT !["request"].at = IF seeded THEN "walk" ELSE "recompute",
                        !["request"].touched = IF seeded THEN d ELSE None]
  /\ UNCHANGED <<day, row, blocked, told, updates, events, forgone>>

seedNextUpcomingInstance(late) ==
  LET c == run["request"].copy
      d == seedDate(c, late)
      seeded == d # Never /\ validateTemplateForGeneration(c)
  IN
  /\ at("request", "seed")
  /\ instances' = IF seeded THEN instances \cup {d} ELSE instances
  /\ run' = [run EXCEPT !["request"].at = IF seeded THEN "walk" ELSE "recompute",
                        !["request"].touched = IF seeded THEN d ELSE None]
  /\ UNCHANGED <<day, row, blocked, told, updates, events, forgone>>

---------------------------------------------------------------------------
(* A pass that finds nothing due does nothing. *)
idleTick == idle("cron") /\ ~candidate /\ UNCHANGED vars

passTime ==
  /\ day < LastDay
  /\ day' = day + 1
  /\ UNCHANGED <<row, instances, blocked, told, run, updates, events, forgone>>

(* The board is archived, or the assignee deactivated, and back. *)
block ==
  /\ blocked' = ~blocked
  /\ IF blocked THEN UNCHANGED events ELSE disturb
  /\ UNCHANGED <<day, row, instances, told, run, updates, forgone>>

(* The process stops, or a statement throws: nothing written so far is undone. *)
stop(w) ==
  /\ ~idle(w)
  /\ disturb
  /\ rest(w)
  /\ UNCHANGED <<day, row, instances, blocked, told, updates, forgone>>

step(w) ==
  \/ generateInstance(w)
  \/ refuse(w)
  \/ markGenerated(w)
  \/ recomputeNextRunAt(w)
  \/ closeTemplate(w)

Next ==
  \/ tickOnce
  \/ idleTick
  \/ generateNow
  \/ \E w \in Worker : step(w)
  \/ \E s \in Schedules, active \in BOOLEAN : updateTemplate(s, active)
  \/ \E makeActive \in BOOLEAN : togglePause(makeActive)
  \/ archiveTemplate
  \/ reschedule
  \/ \E late \in BOOLEAN : seedNextUpcomingInstance(late)
  \/ passTime
  \/ block
  \/ \E w \in Worker : stop(w)

(* The job fires every ten minutes, and a worker waits for the database only. *)
Fairness ==
  /\ WF_vars(tickOnce)
  /\ WF_vars(step("cron")) /\ WF_vars(step("request"))
  /\ WF_vars(reschedule) /\ WF_vars(\E late \in BOOLEAN : seedNextUpcomingInstance(late))

Spec == Init /\ [][Next]_vars /\ Fairness

---------------------------------------------------------------------------
(* lastGeneratedDate tells the truth: no occurrence up to it is missing, other   *)
(* than those a seed jumped ("Forward-only", recurringTaskService.js:957) and     *)
(* those of a schedule adopted when it had passed them, or under a running pass.   *)
(* A pass, the backfill included, jumps over none of its own accord, whatever       *)
(* stops it; it starts after lastGeneratedDate and would never come back.            *)
NoGap ==
  \A d \in occurrences(row.schedule) :
    d <= row.last => d \in instances \cup forgone

(* "Generate the NEXT eligible occurrence" (recurringTaskService.js:834): however    *)
(* often it is paused and resumed, a template has one task ahead of its day, plus    *)
(* one for each change of its schedule.                                            *)
OneUpcoming == Cardinality({d \in instances : day < d}) <= 1 + updates

(* "Generation never happens before this date" and stops after the end date: under      *)
(* one schedule every instance is one of its occurrences.                           *)
WithinSchedule == updates = 0 => instances \subseteq occurrences(row.schedule)

(* No pass is at work on a schedule that was changed under it. *)
InForce ==
  /\ row.active /\ ~row.archived /\ ~blocked /\ day <= row.schedule.end
  /\ \A w \in Worker : idle(w) \/ run[w].copy.schedule = row.schedule

(* "if cron was offline across one or more eligible days, walk forward ... and         *)
(* generate each missing eligible occurrence" (recurringTaskService.js:1035): a due     *)
(* template that stays in force gets every task up to that day that no seed takes       *)
(* from the backfill.  A seed does: a resumption or a PATCH that names a schedule       *)
(* field, changed or not, in a backlog moves lastGeneratedDate past all of it           *)
(* (:959) and the walk never comes back; restarts and other requests do not.             *)
CatchesUp ==
  [](candidate /\ (\A w \in Worker : idle(w)) /\ []InForce
       => <>(\A d \in occurrences(row.schedule) : d <= day => d \in instances \cup forgone))
=============================================================================
