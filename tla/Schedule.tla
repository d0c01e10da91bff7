------------------------------ MODULE Schedule ------------------------------
(***************************************************************************)
(* The cadence of automations (packages/sdk/src/automations/schedule.ts):  *)
(* when does a schedule fire next after its last run?  Times are counted   *)
(* in milliseconds from the epoch, all of them UTC; how long minutes,      *)
(* hours and days are is left open, a week has seven days, and the epoch   *)
(* was a Thursday.                                                         *)
(***************************************************************************)
EXTENDS Integers

CONSTANTS
    MS_PER_MINUTE, MinutesPerHour, HoursPerDay,
    CronDays,        \* how far ahead a cron expression is searched
    Schedules,       \* the cadences of automations
    Weeks,           \* bound on the time
    MaxLate          \* bound on the lateness of a run

(* The times a schedule names are those the pickers offer (IntervalPicker.tsx:118-132). *)
ASSUME ScheduleConstantsOK ==
    /\ {MS_PER_MINUTE, MinutesPerHour, HoursPerDay} \subseteq Nat \ {0}
    /\ CronDays \in Nat /\ CronDays >= 7 /\ Weeks \in Nat \ {0} /\ MaxLate \in Nat
    /\ \A s \in Schedules :
          /\ s.kind \in {"interval", "daily", "weekly", "cron"}
          /\ s.kind = "interval" => s.everyMin \in Int
          /\ s.kind \in {"daily", "weekly"} => s.hour \in 0..(HoursPerDay - 1) /\ s.minute \in 0..(MinutesPerHour - 1)
          /\ s.kind = "weekly" => s.weekday \in 0..6

MS_PER_HOUR == MinutesPerHour * MS_PER_MINUTE
MS_PER_DAY == HoursPerDay * MS_PER_HOUR
MS_PER_WEEK == 7 * MS_PER_DAY

Never == -1     \* null

VARIABLES
    schedule,
    lastRunAt

tvars == <<schedule, lastRunAt>>

ScheduleInit == schedule \in Schedules /\ lastRunAt \in 0..(MS_PER_WEEK - 1)

floor(t, unit) == (t \div unit) * unit

(* Sunday is 0. *)
dayOfWeek(t) == (((t \div MS_PER_DAY) % 7) + 4 + 7) % 7

timeOfDayOffset(hour, minute) == hour * MS_PER_HOUR + minute * MS_PER_MINUTE

(* A faulty form: the candidate may be the last run itself. *)
NotBefore(candidate, step, from) ==
    CHOOSE t \in {candidate + k * step : k \in 0..1} :
        t >= from /\ (t = candidate \/ t - step < from)

(* while (candidate <= from) candidate += step, for a candidate of the same day or week. *)
PushedPast(candidate, step, from) ==
    CHOOSE t \in {candidate + k * step : k \in 0..1} :
        t > from /\ (t = candidate \/ t - step <= from)

nextDaily(s, from) ==
    PushedPast(floor(from, MS_PER_DAY) + timeOfDayOffset(s.hour, s.minute), MS_PER_DAY, from)

nextWeekly(s, from) ==
    LET daysUntil == (((s.weekday - dayOfWeek(from)) % 7) + 7) % 7
    IN PushedPast(floor(from, MS_PER_DAY) + daysUntil * MS_PER_DAY + timeOfDayOffset(s.hour, s.minute),
                  MS_PER_WEEK, from)

(* A field is any value, every n-th, or one of a list. *)
matchCronField(field, value) ==
    \/ field.kind = "any"
    \/ field.kind = "step" /\ value % field.n = 0
    \/ field.kind = "list" /\ value \in field.of

MatchesCron(s, t) ==
    /\ matchCronField(s.fields.minute, (t \div MS_PER_MINUTE) % MinutesPerHour)
    /\ matchCronField(s.fields.hour, (t \div MS_PER_HOUR) % HoursPerDay)
    /\ matchCronField(s.fields.weekday, dayOfWeek(t))

(* Minute after minute, from the first that begins after `from'. *)
nextCron(s, from) ==
    LET candidate(i) == floor(from, MS_PER_MINUTE) + (i + 1) * MS_PER_MINUTE
        tries == 0..(CronDays * HoursPerDay * MinutesPerHour - 1)
        hits == {i \in tries : MatchesCron(s, candidate(i))}
    IN IF hits = {} THEN Never ELSE candidate(CHOOSE i \in hits : \A j \in hits : i <= j)

nextScheduledRunAt(s, from) ==
    CASE s.kind = "interval" -> IF s.everyMin <= 0 THEN Never ELSE from + s.everyMin * MS_PER_MINUTE
      [] s.kind = "daily" -> nextDaily(s, from)
      [] s.kind = "weekly" -> nextWeekly(s, from)
      [] s.kind = "cron" -> nextCron(s, from)

(* The automation runs when it is due, or later: a wake is late, a device was asleep. *)
Run(late) ==
    LET next == nextScheduledRunAt(schedule, lastRunAt)
    IN /\ next # Never
       /\ next + late <= Weeks * MS_PER_WEEK
       /\ lastRunAt' = next + late
       /\ UNCHANGED schedule

(* The owner edits the cadence; the time of the last run stays. *)
updateAutomatedRoom(s) == schedule' = s /\ UNCHANGED lastRunAt

ScheduleNext == (\E late \in 0..MaxLate : Run(late)) \/ (\E s \in Schedules : updateAutomatedRoom(s))

ScheduleSpec == ScheduleInit /\ [][ScheduleNext]_tvars

----------------------------------------------------------------------------

ScheduleTypeOK == schedule \in Schedules /\ lastRunAt \in 0..(Weeks * MS_PER_WEEK)

(* The instants a calendar schedule names, said without computing any. *)
Fires(s, t) ==
    CASE s.kind = "daily" -> t % MS_PER_DAY = timeOfDayOffset(s.hour, s.minute)
      [] s.kind = "weekly" -> t % MS_PER_WEEK = ((s.weekday + 3) % 7) * MS_PER_DAY
                                                + timeOfDayOffset(s.hour, s.minute)
      [] s.kind = "cron" -> t % MS_PER_MINUTE = 0 /\ MatchesCron(s, t)

(* "The next fire time STRICTLY after fromMs" (schedule.ts:109): of all instants the
   schedule names, the first one later than the last run, however late in its
   minute, day or week the last run was; and never, if there is none. *)
FiresNext ==
    LET next == nextScheduledRunAt(schedule, lastRunAt)
        later == {t \in (lastRunAt + 1)..(lastRunAt + MS_PER_WEEK) : Fires(schedule, t)}
    IN schedule.kind # "interval" =>
           IF next = Never THEN later = {}
           ELSE next \in later /\ \A t \in later : next <= t
=============================================================================
