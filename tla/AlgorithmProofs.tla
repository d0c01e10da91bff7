--------------------------- MODULE AlgorithmProofs ---------------------------
(***************************************************************************)
(* Proofs about what the client computes: the next run of an automation,   *)
(* for every cadence and whatever the length of a minute, an hour and a    *)
(* day; and what a screen folds from reactions, edits and pins, and what a *)
(* tap toggles, for every log of events.                                   *)
(*                                                                         *)
(* Both go through numbers one by one.  Induction is used as a statement   *)
(* about sets of numbers: one that misses a number misses a least one.     *)
(***************************************************************************)
EXTENDS Schedule, MessageView, FiniteSetTheorems, WellFoundedInduction, TLAPS

----------------------------------------------------------------------------
(* Numbers. *)

Below == OpToRel(<, Nat)

(* The least-number principle, which stands in for induction: the theorem on well-founded
   relations that it is drawn from is about sets and not about operators. *)
LEMMA Least ==
  ASSUME NEW S \in SUBSET Nat, S # {}
  PROVE  \E n \in S : \A m \in S : n <= m
<1>1. \A m, n \in Nat : <<m, n>> \in Below <=> m < n
  BY DEF Below, OpToRel
<1>2. IsWellFoundedOn(Below, Nat)
  BY NatLessThanWellFounded DEF Below
<1>3. PICK n \in S : \A m \in S : <<m, n>> \notin Below
  BY <1>2, WFMin
<1>4. ASSUME NEW m \in S PROVE n <= m
  <2>1. m \in Nat /\ n \in Nat /\ <<m, n>> \notin Below
    BY <1>3
  <2>2. ~(m < n)
    BY <1>1, <2>1
  <2> QED
    BY <2>1, <2>2
<1> QED
  BY <1>4

(* Induction up to a bound, for a set. *)
LEMMA Upward ==
  ASSUME NEW N \in Nat, NEW S, 0 \in S, \A n \in 1..N : n - 1 \in S => n \in S
  PROVE  0..N \subseteq S
<1> DEFINE missing == (0..N) \ S
<1> SUFFICES ASSUME missing # {} PROVE FALSE
  OBVIOUS
<1>1. missing \in SUBSET Nat
  OBVIOUS
<1>2. PICK n \in missing : \A m \in missing : n <= m
  BY <1>1, Least
<1>3. n \in 1..N /\ n - 1 \in 0..N /\ n - 1 \notin missing
  BY <1>2
<1> QED
  BY <1>2, <1>3

(* Division, its uniqueness, and what multiples of the divisor add to it. *)
LEMMA Divides ==
  ASSUME NEW n \in Nat \ {0}, NEW a \in Int
  PROVE  /\ a \div n \in Int /\ a % n \in 0..(n - 1)
         /\ a = (a \div n) * n + (a % n)
  OBVIOUS

LEMMA DividedOnce ==
  ASSUME NEW n \in Nat \ {0}, NEW q \in Int, NEW r \in 0..(n - 1)
  PROVE  (q * n + r) \div n = q /\ (q * n + r) % n = r
  OBVIOUS

LEMMA Shifted ==
  ASSUME NEW n \in Nat \ {0}, NEW a \in Int, NEW k \in Int
  PROVE  (a + k * n) \div n = (a \div n) + k /\ (a + k * n) % n = a % n
<1> DEFINE q == a \div n
<1> DEFINE r == a % n
<1>1. q \in Int /\ r \in 0..(n - 1) /\ a = q * n + r
  BY Divides
<1> HIDE DEF q, r
<1>2. a + k * n = (q + k) * n + r
  BY <1>1
<1>3. ((q + k) * n + r) \div n = q + k /\ ((q + k) * n + r) % n = r
  BY <1>1, DividedOnce
<1> QED
  BY <1>2, <1>3 DEF q, r

(* Two numbers with the same remainder that differ by less than the divisor are one. *)
LEMMA SameRemainder ==
  ASSUME NEW n \in Nat \ {0}, NEW a \in Int, NEW b \in Int, a % n = b % n, a <= b, b - a < n
  PROVE  a = b
<1> DEFINE p == a \div n
<1> DEFINE q == b \div n
<1>1. p \in Int /\ q \in Int /\ a = p * n + (a % n) /\ b = q * n + (a % n) /\ a % n \in Int
  BY Divides
<1> HIDE DEF p, q
<1>2. b - a = (q - p) * n
  BY <1>1
<1>3. q - p < 1
  <2>1. q - p >= 1 => (q - p) * n >= n
    BY <1>1
  <2> QED
    BY <1>1, <1>2, <2>1
<1>4. q - p > -1
  <2>1. q - p <= -1 => (q - p) * n <= -n
    BY <1>1
  <2> QED
    BY <1>1, <1>2, <2>1
<1>5. q = p
  BY <1>1, <1>3, <1>4
<1> QED
  BY <1>1, <1>5

----------------------------------------------------------------------------
(* The cadence of automations. *)

(* The units of time. *)
LEMMA Units ==
  /\ MS_PER_MINUTE \in Nat \ {0} /\ MS_PER_HOUR \in Nat \ {0}
  /\ MS_PER_DAY \in Nat \ {0} /\ MS_PER_WEEK \in Nat \ {0}
  /\ MinutesPerHour \in Nat \ {0} /\ HoursPerDay \in Nat \ {0}
  /\ MS_PER_WEEK = 7 * MS_PER_DAY
  BY ScheduleConstantsOK DEF MS_PER_HOUR, MS_PER_DAY, MS_PER_WEEK

(* A time of the day is within the day. *)
LEMMA WithinTheDay ==
  ASSUME NEW hour \in 0..(HoursPerDay - 1), NEW minute \in 0..(MinutesPerHour - 1)
  PROVE  timeOfDayOffset(hour, minute) \in 0..(MS_PER_DAY - 1)
<1>1. minute * MS_PER_MINUTE >= 0 /\ minute * MS_PER_MINUTE <= (MinutesPerHour - 1) * MS_PER_MINUTE
  BY Units
<1>2. hour * MS_PER_HOUR >= 0 /\ hour * MS_PER_HOUR <= (HoursPerDay - 1) * MS_PER_HOUR
  BY Units
<1>3. (MinutesPerHour - 1) * MS_PER_MINUTE = MS_PER_HOUR - MS_PER_MINUTE
  BY Units DEF MS_PER_HOUR
<1>4. (HoursPerDay - 1) * MS_PER_HOUR = MS_PER_DAY - MS_PER_HOUR
  BY Units DEF MS_PER_DAY
<1>5. hour * MS_PER_HOUR \in Int /\ minute * MS_PER_MINUTE \in Int
  BY Units
<1> QED
  BY <1>1, <1>2, <1>3, <1>4, <1>5, Units DEF timeOfDayOffset

(* The candidate, or the one a day or a week later. *)
LEMMA PushedOnce ==
  ASSUME NEW candidate \in Int, NEW step \in Nat \ {0}, NEW from \in Int,
         candidate + step > from
  PROVE  PushedPast(candidate, step, from) = IF candidate > from THEN candidate ELSE candidate + step
<1> DEFINE Ok(t) == t > from /\ (t = candidate \/ t - step <= from)
<1> DEFINE T == {candidate + k * step : k \in 0..1}
<1>1. T = {candidate, candidate + step}
  <2>1. candidate + 0 * step = candidate /\ candidate + 1 * step = candidate + step /\ 0..1 = {0, 1}
    OBVIOUS
  <2> QED
    BY <2>1
<1> HIDE DEF T
<1>2. CASE candidate > from
  <2>1. \A t \in T : Ok(t) <=> t = candidate
    BY <1>1, <1>2
  <2>2. candidate \in T
    BY <1>1
  <2>3. (CHOOSE t \in T : Ok(t)) = candidate
    BY <2>1, <2>2
  <2> QED
    BY <1>2, <2>3 DEF PushedPast, T
<1>3. CASE ~(candidate > from)
  <2>1. \A t \in T : Ok(t) <=> t = candidate + step
    BY <1>1, <1>3
  <2>2. candidate + step \in T
    BY <1>1
  <2>3. (CHOOSE t \in T : Ok(t)) = candidate + step
    BY <2>1, <2>2
  <2> QED
    BY <1>3, <2>3 DEF PushedPast, T
<1> QED
  BY <1>2, <1>3

(* Whatever has a remainder, and comes after `from' by one period at most, is the first
   with that remainder. *)
LEMMA FirstOfPeriod ==
  ASSUME NEW n \in Nat \ {0}, NEW from \in Int, NEW t \in Int, t > from, t <= from + n,
         NEW u \in Int, u > from, u % n = t % n
  PROVE  t <= u
<1> SUFFICES ASSUME u < t PROVE FALSE
  OBVIOUS
<1>1. t - u < n /\ u <= t
  OBVIOUS
<1>2. u = t
  BY <1>1, SameRemainder, Zenon
<1> QED
  BY <1>2

(* What is next for a daily cadence, for a weekly one, and for a cron expression. *)
LEMMA DailyFires ==
  ASSUME NEW s \in Schedules, s.kind = "daily", NEW from \in Nat
  PROVE  /\ nextDaily(s, from) \in (from + 1)..(from + MS_PER_DAY)
         /\ nextDaily(s, from) % MS_PER_DAY = timeOfDayOffset(s.hour, s.minute)
<1> DEFINE off == timeOfDayOffset(s.hour, s.minute)
<1> DEFINE day == from \div MS_PER_DAY
<1>1. off \in 0..(MS_PER_DAY - 1)
  BY ScheduleConstantsOK, WithinTheDay
<1>2. day \in Int /\ from % MS_PER_DAY \in 0..(MS_PER_DAY - 1) /\ from = day * MS_PER_DAY + (from % MS_PER_DAY)
  BY Units, Divides
<1>3. nextDaily(s, from) = PushedPast(day * MS_PER_DAY + off, MS_PER_DAY, from)
  BY DEF nextDaily, floor
<1> HIDE DEF off, day
<1> DEFINE c == day * MS_PER_DAY + off
<1>4. c \in Int /\ c + MS_PER_DAY > from /\ c < from + MS_PER_DAY
  BY <1>1, <1>2, Units
<1>5. c % MS_PER_DAY = off /\ (c + MS_PER_DAY) % MS_PER_DAY = off
  <2>1. c % MS_PER_DAY = off
    BY <1>1, <1>2, Units, DividedOnce
  <2>2. c + MS_PER_DAY = c + 1 * MS_PER_DAY
    BY <1>4, Units
  <2>3. (c + 1 * MS_PER_DAY) % MS_PER_DAY = c % MS_PER_DAY
    <3>1. 1 \in Int
      OBVIOUS
    <3> HIDE DEF c
    <3> QED
      BY <1>4, <3>1, Units, Shifted, Zenon
  <2> QED
    BY <2>1, <2>2, <2>3
<1> HIDE DEF c
<1>6. nextDaily(s, from) = IF c > from THEN c ELSE c + MS_PER_DAY
  <2>1. from \in Int /\ nextDaily(s, from) = PushedPast(c, MS_PER_DAY, from)
    BY <1>3 DEF c
  <2>2. PushedPast(c, MS_PER_DAY, from) = IF c > from THEN c ELSE c + MS_PER_DAY
    BY <1>4, <2>1, PushedOnce, Units, Zenon
  <2> QED
    BY <2>1, <2>2
<1> QED
  BY <1>4, <1>5, <1>6, Units DEF off

LEMMA WeeklyFires ==
  ASSUME NEW s \in Schedules, s.kind = "weekly", NEW from \in Nat
  PROVE  /\ nextWeekly(s, from) \in (from + 1)..(from + MS_PER_WEEK)
         /\ nextWeekly(s, from) % MS_PER_WEEK
              = ((s.weekday + 3) % 7) * MS_PER_DAY + timeOfDayOffset(s.hour, s.minute)
<1> DEFINE off == timeOfDayOffset(s.hour, s.minute)
<1> DEFINE day == from \div MS_PER_DAY
<1> DEFINE until == (((s.weekday - dayOfWeek(from)) % 7) + 7) % 7
<1> DEFINE wd == (s.weekday + 3) % 7
<1> DEFINE week == (day + until) \div 7
<1>1. off \in 0..(MS_PER_DAY - 1) /\ s.weekday \in 0..6
  BY ScheduleConstantsOK, WithinTheDay
<1>2. day \in Int /\ from % MS_PER_DAY \in 0..(MS_PER_DAY - 1) /\ from = day * MS_PER_DAY + (from % MS_PER_DAY)
  BY Units, Divides
<1>3. nextWeekly(s, from) = PushedPast(day * MS_PER_DAY + until * MS_PER_DAY + off, MS_PER_WEEK, from)
  BY DEF nextWeekly, floor
<1>4. dayOfWeek(from) = ((day % 7) + 11) % 7
  BY <1>2 DEF dayOfWeek
<1> HIDE DEF off, day
<1>5. until \in 0..6 /\ wd \in 0..6 /\ (day + until) % 7 = wd
  BY <1>1, <1>2, <1>4
<1> HIDE DEF until, wd
<1>6. week \in Int /\ day + until = week * 7 + wd
  BY <1>2, <1>5
<1> HIDE DEF week
<1> DEFINE c == day * MS_PER_DAY + until * MS_PER_DAY + off
<1>7. c = week * MS_PER_WEEK + (wd * MS_PER_DAY + off)
  <2>1. c = (week * 7 + wd) * MS_PER_DAY + off
    BY <1>1, <1>2, <1>5, <1>6, Units
  <2> QED
    BY <1>1, <1>5, <1>6, <2>1, Units
<1>8. wd * MS_PER_DAY + off \in 0..(MS_PER_WEEK - 1)
  BY <1>1, <1>5, Units
<1>9. c \in Int /\ c + MS_PER_WEEK > from /\ c < from + MS_PER_WEEK
  <2>1. until * MS_PER_DAY \in 0..(6 * MS_PER_DAY)
    BY <1>5, Units
  <2>2. day * MS_PER_DAY \in Int
    BY <1>2, Units
  <2> QED
    BY <1>1, <1>2, <2>1, <2>2, Units
<1>10. c % MS_PER_WEEK = wd * MS_PER_DAY + off /\ (c + MS_PER_WEEK) % MS_PER_WEEK = wd * MS_PER_DAY + off
  <2>1. c % MS_PER_WEEK = wd * MS_PER_DAY + off
    <3> DEFINE rest == wd * MS_PER_DAY + off
    <3>1. c = week * MS_PER_WEEK + rest /\ rest \in 0..(MS_PER_WEEK - 1)
      BY <1>7, <1>8
    <3> HIDE DEF c, rest
    <3>2. (week * MS_PER_WEEK + rest) % MS_PER_WEEK = rest
      BY <1>6, <3>1, Units, DividedOnce, Zenon
    <3> QED
      BY <3>1, <3>2 DEF rest
  <2>2. c + MS_PER_WEEK = c + 1 * MS_PER_WEEK
    BY <1>9, Units
  <2>3. (c + 1 * MS_PER_WEEK) % MS_PER_WEEK = c % MS_PER_WEEK
    <3>1. 1 \in Int
      OBVIOUS
    <3> HIDE DEF c
    <3> QED
      BY <1>9, <3>1, Units, Shifted, Zenon
  <2> QED
    BY <2>1, <2>2, <2>3
<1> HIDE DEF c
<1>11. nextWeekly(s, from) = IF c > from THEN c ELSE c + MS_PER_WEEK
  <2>1. from \in Int /\ nextWeekly(s, from) = PushedPast(c, MS_PER_WEEK, from)
    BY <1>3 DEF c
  <2>2. PushedPast(c, MS_PER_WEEK, from) = IF c > from THEN c ELSE c + MS_PER_WEEK
    BY <1>9, <2>1, PushedOnce, Units, Zenon
  <2> QED
    BY <2>1, <2>2
<1> QED
  BY <1>9, <1>10, <1>11, Units DEF off, wd

(* A cron expression names the same instants every week. *)
LEMMA CronEveryWeek ==
  ASSUME NEW s, NEW t \in Int, NEW k \in Int
  PROVE  MatchesCron(s, t + k * MS_PER_WEEK) = MatchesCron(s, t)
<1> DEFINE u == t + k * MS_PER_WEEK
<1>1. u \in Int /\ t \div MS_PER_MINUTE \in Int /\ t \div MS_PER_HOUR \in Int /\ t \div MS_PER_DAY \in Int
  BY Units, Divides
<1>2. (u \div MS_PER_MINUTE) % MinutesPerHour = (t \div MS_PER_MINUTE) % MinutesPerHour
  <2> DEFINE hours == k * (7 * HoursPerDay)
  <2>1. hours \in Int /\ hours * MinutesPerHour \in Int
    BY Units
  <2>2. u = t + (hours * MinutesPerHour) * MS_PER_MINUTE
    <3>1. MS_PER_WEEK = ((7 * HoursPerDay) * MinutesPerHour) * MS_PER_MINUTE
      BY Units DEF MS_PER_WEEK, MS_PER_DAY, MS_PER_HOUR
    <3> QED
      BY <3>1, Units
  <2> HIDE DEF u, hours
  <2>3. u \div MS_PER_MINUTE = (t \div MS_PER_MINUTE) + hours * MinutesPerHour
    BY <2>1, <2>2, Units, Shifted, Zenon
  <2>4. ((t \div MS_PER_MINUTE) + hours * MinutesPerHour) % MinutesPerHour = (t \div MS_PER_MINUTE) % MinutesPerHour
    BY <1>1, <2>1, Units, Shifted, Zenon
  <2> QED
    BY <2>3, <2>4
<1>3. (u \div MS_PER_HOUR) % HoursPerDay = (t \div MS_PER_HOUR) % HoursPerDay
  <2> DEFINE days == k * 7
  <2>1. days \in Int /\ days * HoursPerDay \in Int
    BY Units
  <2>2. u = t + (days * HoursPerDay) * MS_PER_HOUR
    <3>1. MS_PER_WEEK = (7 * HoursPerDay) * MS_PER_HOUR
      BY Units DEF MS_PER_WEEK, MS_PER_DAY
    <3> QED
      BY <3>1, Units
  <2> HIDE DEF u, days
  <2>3. u \div MS_PER_HOUR = (t \div MS_PER_HOUR) + days * HoursPerDay
    BY <2>1, <2>2, Units, Shifted, Zenon
  <2>4. ((t \div MS_PER_HOUR) + days * HoursPerDay) % HoursPerDay = (t \div MS_PER_HOUR) % HoursPerDay
    BY <1>1, <2>1, Units, Shifted, Zenon
  <2> QED
    BY <2>3, <2>4
<1>4. (u \div MS_PER_DAY) % 7 = (t \div MS_PER_DAY) % 7
  <2>1. k * 7 \in Int /\ 7 \in Nat \ {0}
    OBVIOUS
  <2>2. u = t + (k * 7) * MS_PER_DAY
    BY Units
  <2> HIDE DEF u
  <2>3. u \div MS_PER_DAY = (t \div MS_PER_DAY) + k * 7
    BY <2>1, <2>2, Units, Shifted, Zenon
  <2>4. ((t \div MS_PER_DAY) + k * 7) % 7 = (t \div MS_PER_DAY) % 7
    BY <1>1, <2>1, Shifted, Zenon
  <2> QED
    BY <2>3, <2>4
<1> QED
  BY <1>2, <1>3, <1>4, Zenon DEF MatchesCron, dayOfWeek

(* The search of nextCron goes through the minutes in turn; it looks a week ahead at
   least, and what a cron expression names at all it names within a week. *)
LEMMA CronFires ==
  ASSUME NEW s, NEW from \in Nat,
         NEW later, later = {t \in (from + 1)..(from + MS_PER_WEEK) : t % MS_PER_MINUTE = 0 /\ MatchesCron(s, t)}
  PROVE  IF nextCron(s, from) = Never THEN later = {}
         ELSE nextCron(s, from) \in later /\ \A t \in later : nextCron(s, from) <= t
<1> DEFINE first == from \div MS_PER_MINUTE
<1> DEFINE candidate(i) == first * MS_PER_MINUTE + (i + 1) * MS_PER_MINUTE
<1> DEFINE tries == 0..(CronDays * HoursPerDay * MinutesPerHour - 1)
<1> DEFINE hits == {i \in tries : MatchesCron(s, candidate(i))}
<1> DEFINE week == 7 * HoursPerDay * MinutesPerHour
<1>1. nextCron(s, from) = IF hits = {} THEN Never ELSE candidate(CHOOSE i \in hits : \A j \in hits : i <= j)
  BY DEF nextCron, floor
<1>2. first \in Int /\ first * MS_PER_MINUTE <= from /\ from < (first + 1) * MS_PER_MINUTE
  BY Units, Divides
<1>3. week \in Nat /\ MS_PER_WEEK = week * MS_PER_MINUTE /\ 0..(week - 1) \subseteq tries
  <2>1. HoursPerDay * MinutesPerHour \in Nat
    BY Units
  <2>2. CronDays * (HoursPerDay * MinutesPerHour) >= 7 * (HoursPerDay * MinutesPerHour)
    BY <2>1, ScheduleConstantsOK
  <2>3. CronDays * HoursPerDay * MinutesPerHour = CronDays * (HoursPerDay * MinutesPerHour)
    BY Units, ScheduleConstantsOK
  <2>4. MS_PER_WEEK = week * MS_PER_MINUTE
    BY Units DEF MS_PER_WEEK, MS_PER_DAY, MS_PER_HOUR
  <2> QED
    BY <2>1, <2>2, <2>3, <2>4, ScheduleConstantsOK
<1>4. first \in Nat
  BY <1>2, Units
<1> HIDE DEF first, week
<1>5. \A i \in Nat : candidate(i) \in Nat /\ candidate(i) > from /\ candidate(i) % MS_PER_MINUTE = 0
  <2> SUFFICES ASSUME NEW i \in Nat
               PROVE  candidate(i) \in Nat /\ candidate(i) > from /\ candidate(i) % MS_PER_MINUTE = 0
    OBVIOUS
  <2>1. candidate(i) = (first + i + 1) * MS_PER_MINUTE + 0
    BY <1>4, Units
  <2>2. 0 \in 0..(MS_PER_MINUTE - 1) /\ first + i + 1 \in Int
    BY <1>4, Units
  <2>3. ((first + i + 1) * MS_PER_MINUTE + 0) % MS_PER_MINUTE = 0
    BY <2>2, Units, DividedOnce, Zenon
  <2>4. (first + i + 1) * MS_PER_MINUTE >= (first + 1) * MS_PER_MINUTE
    BY <1>4, Units
  <2>5. (first + i + 1) * MS_PER_MINUTE \in Nat /\ (first + 1) * MS_PER_MINUTE \in Nat
    BY <1>4, Units
  <2> HIDE DEF candidate
  <2> QED
    BY <1>2, <2>1, <2>3, <2>4, <2>5
<1>6. \A i \in Nat : i < week <=> candidate(i) <= from + MS_PER_WEEK
  <2> SUFFICES ASSUME NEW i \in Nat
               PROVE  i < week <=> candidate(i) <= from + MS_PER_WEEK
    OBVIOUS
  <2>1. CASE i < week
    <3>1. (i + 1) * MS_PER_MINUTE <= week * MS_PER_MINUTE
      BY <1>3, <2>1, Units
    <3>2. (i + 1) * MS_PER_MINUTE \in Int /\ week * MS_PER_MINUTE \in Int /\ first * MS_PER_MINUTE \in Int
      BY <1>3, <1>4, Units
    <3> QED
      BY <1>2, <1>3, <2>1, <3>1, <3>2
  <2>2. CASE ~(i < week)
    <3>1. (i + 1) * MS_PER_MINUTE >= (week + 1) * MS_PER_MINUTE
      BY <1>3, <2>2, Units
    <3>2. (week + 1) * MS_PER_MINUTE = week * MS_PER_MINUTE + MS_PER_MINUTE
          /\ (first + 1) * MS_PER_MINUTE = first * MS_PER_MINUTE + MS_PER_MINUTE
      BY <1>3, <1>4, Units
    <3>3. (i + 1) * MS_PER_MINUTE \in Int /\ week * MS_PER_MINUTE \in Int /\ first * MS_PER_MINUTE \in Int
      BY <1>3, <1>4, Units
    <3> QED
      BY <1>2, <1>3, <2>2, <3>1, <3>2, <3>3, Units
  <2> QED
    BY <2>1, <2>2
<1>7. \A t \in later : \E i \in hits : t = candidate(i)
  <2> SUFFICES ASSUME NEW t \in later PROVE \E i \in hits : t = candidate(i)
    OBVIOUS
  <2> DEFINE q == t \div MS_PER_MINUTE
  <2>1. t \in Int /\ t > from /\ t <= from + MS_PER_WEEK /\ t % MS_PER_MINUTE = 0 /\ MatchesCron(s, t)
    BY Units
  <2>2. q \in Int /\ t = q * MS_PER_MINUTE + (t % MS_PER_MINUTE)
    BY <2>1, Units, Divides, Zenon
  <2>3. t = q * MS_PER_MINUTE
    BY <2>1, <2>2, Units
  <2> HIDE DEF q
  <2>4. q > first
    <3>1. q <= first => q * MS_PER_MINUTE <= first * MS_PER_MINUTE
      BY <1>4, <2>2, Units
    <3>2. first * MS_PER_MINUTE \in Int
      BY <1>4, Units
    <3> QED
      BY <1>2, <1>4, <2>1, <2>2, <2>3, <3>1, <3>2
  <2> DEFINE i == q - first - 1
  <2>5. i \in Nat
    BY <1>4, <2>2, <2>4
  <2>6. t = candidate(i)
    BY <1>4, <2>2, <2>3, Units
  <2> HIDE DEF i, candidate
  <2>7. i < week
    BY <1>6, <2>1, <2>5, <2>6
  <2>8. i \in tries
    BY <1>3, <2>5, <2>7
  <2> QED
    BY <2>1, <2>6, <2>8
<1>8. CASE hits = {}
  BY <1>1, <1>7, <1>8
<1>9. CASE hits # {}
  <2>1. hits \in SUBSET Nat
    BY Units, ScheduleConstantsOK
  <2>2. \E n \in hits : \A m \in hits : n <= m
    BY <1>9, <2>1, Least, Zenon
  <2> DEFINE m == CHOOSE i \in hits : \A j \in hits : i <= j
  <2>3. m \in hits /\ \A j \in hits : m <= j
    BY <2>2, Zenon
  <2> HIDE DEF m
  <2>4. m \in Nat /\ MatchesCron(s, candidate(m)) /\ m \in tries
    BY <2>1, <2>3
  <2>5. m < week
    <3> SUFFICES ASSUME m >= week PROVE FALSE
      BY <1>3, <2>4
    <3> DEFINE i == m - week
    <3>1. i \in Nat /\ i <= m /\ i \in tries
      <4> DEFINE last == CronDays * HoursPerDay * MinutesPerHour - 1
      <4>1. last \in Int /\ m <= last
        BY <2>4, Units, ScheduleConstantsOK
      <4> HIDE DEF last
      <4>2. i \in Nat /\ i <= m /\ i \in 0..last
        BY <1>3, <2>4, <4>1
      <4> QED
        BY <4>2 DEF last
    <3>2. candidate(m) = candidate(i) + 1 * MS_PER_WEEK
      BY <1>3, <1>4, <2>4, Units
    <3>3. candidate(i) \in Int /\ 1 \in Int
      BY <1>5, <3>1
    <3> HIDE DEF i, candidate
    <3>4. MatchesCron(s, candidate(i) + 1 * MS_PER_WEEK) = MatchesCron(s, candidate(i))
      BY <3>3, CronEveryWeek, Zenon
    <3>5. i \in hits
      BY <2>4, <3>1, <3>2, <3>4
    <3>6. i < m
      <4>1. week > 0
        BY Units DEF week
      <4> QED
        BY <1>3, <2>4, <4>1 DEF i
    <3> QED
      BY <2>3, <2>4, <3>1, <3>5, <3>6
  <2>6. nextCron(s, from) = candidate(m)
    BY <1>1, <1>9 DEF m
  <2>7. candidate(m) \in later
    <3> HIDE DEF candidate
    <3> QED
      BY <1>5, <1>6, <2>4, <2>5, Units
  <2>8. \A t \in later : candidate(m) <= t
    <3> SUFFICES ASSUME NEW t \in later PROVE candidate(m) <= t
      OBVIOUS
    <3>1. PICK i \in hits : t = candidate(i)
      BY <1>7
    <3>2. i \in Nat /\ m <= i
      BY <2>1, <2>3, <3>1
    <3>3. (m + 1) * MS_PER_MINUTE <= (i + 1) * MS_PER_MINUTE
      BY <2>4, <3>2, Units
    <3> QED
      BY <1>4, <2>4, <3>1, <3>2, <3>3, Units
  <2>9. candidate(m) # Never
    BY <1>5, <2>4 DEF Never
  <2> QED
    BY <2>6, <2>7, <2>8, <2>9
<1> QED
  BY <1>8, <1>9

(* What a calendar schedule names next, for every schedule and every last run. *)
LEMMA NextIsFirst ==
  ASSUME NEW s \in Schedules, s.kind # "interval", NEW from \in Nat,
         NEW later, later = {t \in (from + 1)..(from + MS_PER_WEEK) : Fires(s, t)}
  PROVE  IF nextScheduledRunAt(s, from) = Never THEN later = {}
         ELSE nextScheduledRunAt(s, from) \in later /\ \A t \in later : nextScheduledRunAt(s, from) <= t
<1> DEFINE next == nextScheduledRunAt(s, from)
<1>1. s.kind \in {"daily", "weekly", "cron"}
  BY ScheduleConstantsOK
<1>2. CASE s.kind = "daily"
  <2>1. next = nextDaily(s, from) /\ \A t : Fires(s, t) <=> t % MS_PER_DAY = timeOfDayOffset(s.hour, s.minute)
    BY <1>2 DEF nextScheduledRunAt, Fires
  <2> HIDE DEF next
  <2>2. next \in (from + 1)..(from + MS_PER_DAY) /\ next % MS_PER_DAY = timeOfDayOffset(s.hour, s.minute)
    BY <1>2, <2>1, DailyFires, Zenon
  <2>3. next # Never /\ next \in (from + 1)..(from + MS_PER_WEEK)
    BY <2>2, Units DEF Never
  <2>4. next \in later
    BY <2>1, <2>2, <2>3
  <2>5. ASSUME NEW t \in later PROVE next <= t
    <3>1. t \in Int /\ t > from /\ next \in Int /\ next > from /\ next <= from + MS_PER_DAY /\ from \in Int
      BY <2>2, Units
    <3>2. t % MS_PER_DAY = next % MS_PER_DAY
      BY <2>1, <2>2
    <3> QED
      BY <3>1, <3>2, Units, FirstOfPeriod, Zenon
  <2> QED
    BY <2>3, <2>4, <2>5 DEF next
<1>3. CASE s.kind = "weekly"
  <2> DEFINE rest == ((s.weekday + 3) % 7) * MS_PER_DAY + timeOfDayOffset(s.hour, s.minute)
  <2>1. next = nextWeekly(s, from) /\ \A t : Fires(s, t) <=> t % MS_PER_WEEK = rest
    BY <1>3 DEF nextScheduledRunAt, Fires
  <2>2. nextWeekly(s, from) \in (from + 1)..(from + MS_PER_WEEK) /\ nextWeekly(s, from) % MS_PER_WEEK = rest
    BY <1>3, WeeklyFires, Zenon
  <2> HIDE DEF next, rest
  <2>3. next # Never /\ next \in (from + 1)..(from + MS_PER_WEEK) /\ next % MS_PER_WEEK = rest
    BY <2>1, <2>2, Units DEF Never
  <2>4. next \in later
    BY <2>1, <2>3
  <2>5. ASSUME NEW t \in later PROVE next <= t
    <3>1. t \in Int /\ t > from /\ next \in Int /\ next > from /\ next <= from + MS_PER_WEEK /\ from \in Int
      BY <2>3, Units
    <3>2. t % MS_PER_WEEK = next % MS_PER_WEEK
      BY <2>1, <2>3
    <3> QED
      BY <3>1, <3>2, Units, FirstOfPeriod, Zenon
  <2> QED
    BY <2>3, <2>4, <2>5 DEF next
<1>4. CASE s.kind = "cron"
  <2>1. next = nextCron(s, from) /\ \A t : Fires(s, t) <=> t % MS_PER_MINUTE = 0 /\ MatchesCron(s, t)
    BY <1>4 DEF nextScheduledRunAt, Fires
  <2>2. later = {t \in (from + 1)..(from + MS_PER_WEEK) : t % MS_PER_MINUTE = 0 /\ MatchesCron(s, t)}
    BY <2>1
  <2>3. IF nextCron(s, from) = Never THEN later = {}
        ELSE nextCron(s, from) \in later /\ \A t \in later : nextCron(s, from) <= t
    BY <2>2, CronFires, Zenon
  <2> QED
    BY <2>1, <2>3
<1> QED
  BY <1>1, <1>2, <1>3, <1>4

(* And it is later than the last run. *)
LEMMA NextIsLater ==
  ASSUME NEW s \in Schedules, NEW from \in Nat, nextScheduledRunAt(s, from) # Never
  PROVE  nextScheduledRunAt(s, from) \in Int /\ nextScheduledRunAt(s, from) > from
<1>1. CASE s.kind = "interval"
  <2>1. s.everyMin \in Int
    BY <1>1, ScheduleConstantsOK
  <2>2. s.everyMin > 0 /\ nextScheduledRunAt(s, from) = from + s.everyMin * MS_PER_MINUTE
    BY <1>1, <2>1 DEF nextScheduledRunAt
  <2>3. s.everyMin * MS_PER_MINUTE \in Nat \ {0}
    BY <2>1, <2>2, Units
  <2> QED
    BY <2>2, <2>3
<1>2. CASE s.kind # "interval"
  <2> DEFINE later == {t \in (from + 1)..(from + MS_PER_WEEK) : Fires(s, t)}
  <2>1. nextScheduledRunAt(s, from) \in later
    BY <1>2, NextIsFirst
  <2> QED
    BY <2>1, Units
<1> QED
  BY <1>1, <1>2

LEMMA InitSchedule == ScheduleInit => ScheduleTypeOK
<1>1. ASSUME ScheduleInit PROVE ScheduleTypeOK
  <2>1. lastRunAt \in Nat /\ lastRunAt < MS_PER_WEEK /\ schedule \in Schedules
    BY <1>1, Units DEF ScheduleInit
  <2>2. Weeks * MS_PER_WEEK \in Nat /\ MS_PER_WEEK <= Weeks * MS_PER_WEEK
    BY Units, ScheduleConstantsOK
  <2> QED
    BY <2>1, <2>2, Units DEF ScheduleTypeOK
<1> QED
  BY <1>1

LEMMA NextSchedule == ScheduleTypeOK /\ [ScheduleNext]_tvars => ScheduleTypeOK'
<1> SUFFICES ASSUME ScheduleTypeOK, [ScheduleNext]_tvars PROVE ScheduleTypeOK'
  OBVIOUS
<1> DEFINE end == Weeks * MS_PER_WEEK
<1>1. end \in Nat
  BY Units, ScheduleConstantsOK
<1>2. lastRunAt \in Nat /\ schedule \in Schedules /\ lastRunAt \in 0..end
  BY <1>1 DEF ScheduleTypeOK
<1> HIDE DEF end
<1>3. ASSUME NEW late \in 0..MaxLate, Run(late) PROVE ScheduleTypeOK'
  <2> DEFINE next == nextScheduledRunAt(schedule, lastRunAt)
  <2>1. next # Never /\ next + late <= end /\ lastRunAt' = next + late /\ schedule' = schedule
    BY <1>3 DEF Run, end
  <2>2. next \in Int /\ next > lastRunAt
    BY <1>2, <2>1, NextIsLater
  <2> HIDE DEF next
  <2>3. lastRunAt' \in 0..end
    BY <1>1, <1>2, <2>1, <2>2, ScheduleConstantsOK
  <2>4. MS_PER_WEEK' = MS_PER_WEEK
    BY DEF MS_PER_WEEK, MS_PER_DAY, MS_PER_HOUR
  <2> QED
    BY <1>2, <2>1, <2>3 DEF ScheduleTypeOK, end
<1>4. ASSUME NEW s \in Schedules, updateAutomatedRoom(s) PROVE ScheduleTypeOK'
  BY <1>2, <1>4 DEF ScheduleTypeOK, updateAutomatedRoom, end
<1>5. CASE UNCHANGED tvars
  BY <1>2, <1>5 DEF ScheduleTypeOK, tvars, end
<1> QED
  BY <1>3, <1>4, <1>5 DEF ScheduleNext

(* Type correctness of the cadence: the last run is an instant of the bounded time. *)
THEOREM ScheduleTypes == ScheduleSpec => []ScheduleTypeOK
  BY InitSchedule, NextSchedule, PTL DEF ScheduleSpec

(* nextScheduledRunAt is the first of the instants that the cadence names after the last
   run, however late that run was, for every length of a minute, an hour and a day. *)
THEOREM FiresAtTheNext == ScheduleSpec => []FiresNext
<1>1. ScheduleTypeOK => FiresNext
  <2> SUFFICES ASSUME ScheduleTypeOK, schedule.kind # "interval"
               PROVE  LET next == nextScheduledRunAt(schedule, lastRunAt)
                          later == {t \in (lastRunAt + 1)..(lastRunAt + MS_PER_WEEK) : Fires(schedule, t)}
                      IN IF next = Never THEN later = {}
                         ELSE next \in later /\ \A t \in later : next <= t
    BY DEF FiresNext
  <2>1. schedule \in Schedules /\ lastRunAt \in Nat
    BY Units, ScheduleConstantsOK DEF ScheduleTypeOK
  <2> QED
    BY <2>1, NextIsFirst
<1> QED
  BY <1>1, ScheduleTypes, PTL

----------------------------------------------------------------------------
(* Folds. *)

(* The states that a list of N elements takes a fold through. *)
FoldOf(f, N, D, base, step) ==
    f \in [0..N -> D] /\ f[0] = base /\ \A n \in 1..N : f[n] = step[n][f[n - 1]]

(* A fold over a list of N elements has a value, and it stays in its domain. *)
LEMMA FoldExists ==
  ASSUME NEW N \in Nat, NEW D, NEW base \in D, NEW step, \A n \in 1..N : \A x \in D : step[n][x] \in D
  PROVE  \E f : FoldOf(f, N, D, base, step)
<1> DEFINE Is(f, m) == f[0] = base /\ \A n \in 1..m : f[n] = step[n][f[n - 1]]
<1> DEFINE S == {m \in 0..N : \E f \in [0..m -> D] : Is(f, m)}
<1>1. 0 \in S
  <2> DEFINE g == [n \in 0..0 |-> base]
  <2>1. g \in [0..0 -> D] /\ g[0] = base /\ 1..0 = {}
    OBVIOUS
  <2> HIDE DEF g
  <2>2. Is(g, 0) /\ 0 \in 0..N
    BY <2>1
  <2> QED
    BY <2>1, <2>2
<1>2. ASSUME NEW m \in 1..N, m - 1 \in S PROVE m \in S
  <2>1. PICK f \in [0..(m - 1) -> D] : Is(f, m - 1)
    BY <1>2
  <2> DEFINE g == [n \in 0..m |-> IF n = m THEN step[m][f[m - 1]] ELSE f[n]]
  <2>2. g \in [0..m -> D]
    OBVIOUS
  <2>3. Is(g, m)
    <3>1. g[0] = base
      BY <2>1
    <3>2. ASSUME NEW n \in 1..m PROVE g[n] = step[n][g[n - 1]]
      <4>1. g[n - 1] = f[n - 1]
        OBVIOUS
      <4>2. CASE n = m
        BY <4>1, <4>2
      <4>3. CASE n # m
        <5>1. n \in 1..(m - 1)
          BY <4>3
        <5> QED
          BY <2>1, <4>1, <4>3, <5>1
      <4> QED
        BY <4>2, <4>3
    <3> QED
      BY <3>1, <3>2
  <2> HIDE DEF g
  <2>4. m \in 0..N
    OBVIOUS
  <2> QED
    BY <2>2, <2>3, <2>4
<1> HIDE DEF S
<1>3. 0..N \subseteq S
  BY <1>1, <1>2, Upward
<1>4. N \in S
  BY <1>3
<1> QED
  BY <1>4 DEF S, FoldOf

LEMMA FoldTyped ==
  ASSUME NEW N \in Nat, NEW D, NEW f, f = [n \in 0..N |-> f[n]],
         f[0] \in D, \A n \in 1..N : f[n - 1] \in D => f[n] \in D
  PROVE  f \in [0..N -> D]
<1> DEFINE S == {n \in 0..N : f[n] \in D}
<1>1. 0 \in S
  OBVIOUS
<1>2. \A n \in 1..N : n - 1 \in S => n \in S
  OBVIOUS
<1> HIDE DEF S
<1>3. 0..N \subseteq S
  BY <1>1, <1>2, Upward
<1>4. \A n \in 0..N : f[n] \in D
  BY <1>3 DEF S
<1> QED
  BY <1>4

(* A value that changes with the items of `own' only is, in the end, what the last of
   them made of it. *)
OnlyBy(own, N, o, val) == \A n \in 1..N : o[n] \notin own => val[n] = val[n - 1]

LastBy(own, N, o, val) ==
    \/ val[N] = val[0] /\ \A l \in 1..N : o[l] \notin own
    \/ \E k \in 1..N : o[k] \in own /\ val[N] = val[k] /\ \A l \in 1..N : o[l] \in own => l <= k

LEMMA LastChange ==
  ASSUME NEW N \in Nat, NEW o, NEW own, NEW val, OnlyBy(own, N, o, val)
  PROVE  LastBy(own, N, o, val)
<1> DEFINE Last(m) == \/ val[m] = val[0] /\ \A l \in 1..m : o[l] \notin own
                      \/ \E k \in 1..m : o[k] \in own /\ val[m] = val[k] /\ \A l \in 1..m : o[l] \in own => l <= k
<1> DEFINE S == {m \in 0..N : Last(m)}
<1>1. 0 \in S
  OBVIOUS
<1>2. ASSUME NEW m \in 1..N, m - 1 \in S PROVE m \in S
  <2>1. CASE o[m] \in own
    BY <2>1
  <2>2. CASE o[m] \notin own
    <3>1. val[m] = val[m - 1] /\ 1..m = (1..(m - 1)) \cup {m}
      BY <2>2 DEF OnlyBy
    <3>2. Last(m - 1)
      BY <1>2
    <3>3. CASE val[m - 1] = val[0] /\ \A l \in 1..(m - 1) : o[l] \notin own
      BY <2>2, <3>1, <3>3
    <3>4. CASE \E k \in 1..(m - 1) : /\ o[k] \in own /\ val[m - 1] = val[k]
                                     /\ \A l \in 1..(m - 1) : o[l] \in own => l <= k
      BY <2>2, <3>1, <3>4
    <3> QED
      BY <3>2, <3>3, <3>4
  <2> QED
    BY <2>1, <2>2
<1> HIDE DEF S
<1>3. 0..N \subseteq S
  BY <1>1, <1>2, Upward
<1>4. N \in S
  BY <1>3
<1> QED
  BY <1>4 DEF S, LastBy

----------------------------------------------------------------------------
(* Events. *)

(* What an event is made of. *)
LEMMA EventFields ==
  ASSUME NEW e \in Events
  PROVE  /\ e.t \in {"reaction", "edit", "pin"} /\ e.msg \in MessageIds /\ e.user \in Readers /\ e.ts \in Nat
         /\ e.t = "reaction" => e.kind \in {"add", "remove"}
         /\ e.t = "edit" => e.kind \in {"edit", "delete"}
         /\ e.t = "pin" => e.kind \in {"pin", "unpin"}
<1>1. DOMAIN KindsOf = {"reaction", "edit", "pin"}
  BY DEF KindsOf
<1>2. PICK t \in DOMAIN KindsOf :
        e \in [t : {t}, msg : MessageIds, user : Readers, kind : KindsOf[t], ts : 1..MaxTime]
  BY DEF Events
<1>3. e.t = t /\ e.msg \in MessageIds /\ e.user \in Readers /\ e.ts \in 1..MaxTime /\ e.kind \in KindsOf[t]
  BY <1>2
<1> QED
  BY <1>1, <1>3, MessageViewConstantsOK DEF KindsOf

(* The events of a list are totally ordered. *)
LEMMA Ordered ==
  ASSUME NEW events \in Seq(Events)
  PROVE  /\ \A i \in DOMAIN events : NotAfter(events, i, i)
         /\ \A i, j \in DOMAIN events : NotAfter(events, i, j) \/ NotAfter(events, j, i)
         /\ \A i, j \in DOMAIN events : NotAfter(events, i, j) /\ NotAfter(events, j, i) => i = j
         /\ \A i, j, k \in DOMAIN events : NotAfter(events, i, j) /\ NotAfter(events, j, k) => NotAfter(events, i, k)
<1>1. \A i \in DOMAIN events : events[i].ts \in Nat /\ i \in Nat
  BY EventFields
<1> QED
  BY <1>1 DEF NotAfter

(* Sorted, the events of a set stand in their order, each of them once. *)
LEMMA Sorted ==
  ASSUME NEW events \in Seq(Events), NEW its \in SUBSET DOMAIN events
  PROVE  /\ Cardinality(its) \in Nat
         /\ \E o \in [1..Cardinality(its) -> its] :
               /\ ByTime(events, its) = [k \in 1..Cardinality(its) |-> events[o[k]]]
               /\ \A i \in its : \E k \in 1..Cardinality(its) : o[k] = i
               /\ \A k, l \in 1..Cardinality(its) : k <= l => NotAfter(events, o[k], o[l])
<1> DEFINE N == Cardinality(its)
<1> DEFINE upTo(i) == {j \in its : NotAfter(events, j, i)}
<1> DEFINE place == [i \in its |-> Cardinality(upTo(i))]
<1> DEFINE o == [k \in 1..N |-> CHOOSE i \in its : place[i] = k]
<1>1. IsFiniteSet(its) /\ N \in Nat
  <2>1. Len(events) \in Nat /\ DOMAIN events = 1..Len(events)
    OBVIOUS
  <2>2. IsFiniteSet(1..Len(events))
    BY <2>1, FS_Interval
  <2> QED
    BY <2>1, <2>2, FS_Subset, FS_CardinalityType
<1>2. \A i \in its : IsFiniteSet(upTo(i)) /\ Cardinality(upTo(i)) \in 1..N
  <2> SUFFICES ASSUME NEW i \in its PROVE IsFiniteSet(upTo(i)) /\ Cardinality(upTo(i)) \in 1..N
    OBVIOUS
  <2>1. upTo(i) \in SUBSET its /\ i \in upTo(i)
    BY Ordered
  <2> HIDE DEF upTo
  <2>2. IsFiniteSet(upTo(i)) /\ Cardinality(upTo(i)) <= N
    BY <1>1, <2>1, FS_Subset
  <2>3. Cardinality(upTo(i)) \in Nat /\ Cardinality(upTo(i)) # 0
    BY <2>1, <2>2, FS_CardinalityType, FS_EmptySet
  <2> QED
    BY <1>1, <2>2, <2>3
<1>3. \A i, j \in its : NotAfter(events, i, j) /\ i # j => Cardinality(upTo(i)) < Cardinality(upTo(j))
  <2> SUFFICES ASSUME NEW i \in its, NEW j \in its, NotAfter(events, i, j), i # j
               PROVE  Cardinality(upTo(i)) < Cardinality(upTo(j))
    OBVIOUS
  <2>1. upTo(i) \in SUBSET upTo(j)
    BY Ordered
  <2>2. j \in upTo(j) /\ j \notin upTo(i)
    BY Ordered
  <2> HIDE DEF upTo
  <2>3. Cardinality(upTo(i)) <= Cardinality(upTo(j)) /\ Cardinality(upTo(i)) # Cardinality(upTo(j))
    BY <1>2, <2>1, <2>2, FS_Subset
  <2> QED
    BY <1>2, <2>3
<1> HIDE DEF N, upTo
<1>4. place \in Injection(its, 1..N)
  <2>1. place \in [its -> 1..N]
    BY <1>2
  <2>2. \A i, j \in its : place[i] = place[j] => i = j
    <3> SUFFICES ASSUME NEW i \in its, NEW j \in its, i # j, place[i] = place[j] PROVE FALSE
      OBVIOUS
    <3>1. NotAfter(events, i, j) \/ NotAfter(events, j, i)
      BY Ordered
    <3>2. Cardinality(upTo(i)) < Cardinality(upTo(j)) \/ Cardinality(upTo(j)) < Cardinality(upTo(i))
      BY <1>3, <3>1
    <3> QED
      BY <1>2, <3>2
  <2> HIDE DEF place
  <2> QED
    BY <2>1, <2>2 DEF Injection, IsInjective
<1>5. place \in Surjection(its, 1..N)
  <2>1. IsFiniteSet(1..N) /\ Cardinality(1..N) = N
    <3>1. 1 \in Int /\ N \in Int
      BY <1>1
    <3>2. IsFiniteSet(1..N) /\ Cardinality(1..N) = IF 1 > N THEN 0 ELSE N - 1 + 1
      BY <3>1, FS_Interval
    <3> QED
      BY <1>1, <3>2
  <2> HIDE DEF place
  <2> QED
    BY <1>1, <1>4, <2>1, FS_Injection DEF N
<1>6. \A k \in 1..N : o[k] \in its /\ place[o[k]] = k
  <2> HIDE DEF place
  <2>1. \A k \in 1..N : \E i \in its : place[i] = k
    BY <1>5 DEF Surjection
  <2> QED
    BY <2>1
<1>7. ByTime(events, its) = [k \in 1..N |-> events[o[k]]]
  <2> DEFINE at(k) == CHOOSE i \in its : Cardinality(upTo(i)) = k
  <2>1. \A k \in 1..N : o[k] = at(k)
    OBVIOUS
  <2>2. ByTime(events, its) = [k \in 1..N |-> events[at(k)]]
    BY Zenon DEF ByTime, N, upTo
  <2> HIDE DEF o, place, at
  <2> QED
    BY <2>1, <2>2
<1>8. o \in [1..N -> its]
  BY <1>6
<1>9. \A i \in its : \E k \in 1..N : o[k] = i
  <2> SUFFICES ASSUME NEW i \in its PROVE o[place[i]] = i /\ place[i] \in 1..N
    BY Zenon
  <2> HIDE DEF o, place
  <2>1. place[i] \in 1..N
    BY <1>4 DEF Injection
  <2> QED
    BY <1>4, <1>6, <2>1 DEF Injection, IsInjective
<1>10. \A k, l \in 1..N : k <= l => NotAfter(events, o[k], o[l])
  <2> SUFFICES ASSUME NEW k \in 1..N, NEW l \in 1..N, k <= l, ~NotAfter(events, o[k], o[l])
               PROVE  FALSE
    BY Zenon
  <2>1. o[k] \in its /\ o[l] \in its /\ Cardinality(upTo(o[k])) = k /\ Cardinality(upTo(o[l])) = l
    BY <1>6
  <2> HIDE DEF o, place
  <2>2. NotAfter(events, o[l], o[k]) /\ o[l] # o[k]
    BY <2>1, Ordered
  <2>3. l < k
    BY <1>3, <2>1, <2>2
  <2> QED
    BY <2>3
<1> HIDE DEF o, place
<1> QED
  BY <1>1, <1>7, <1>8, <1>9, <1>10 DEF N

(* The events with the numbers `its', in their order. *)
InOrder(events, its, N, o) ==
    /\ N \in Nat /\ o \in [1..N -> its]
    /\ \A i \in its : \E k \in 1..N : o[k] = i
    /\ \A k, l \in 1..N : k <= l => NotAfter(events, o[k], o[l])

LEMMA SortedList ==
  ASSUME NEW events \in Seq(Events), NEW its \in SUBSET DOMAIN events
  PROVE  \E N, o : /\ InOrder(events, its, N, o)
                   /\ ByTime(events, its) \in Seq(Events) /\ Len(ByTime(events, its)) = N
                   /\ \A k \in 1..N : ByTime(events, its)[k] = events[o[k]] /\ events[o[k]] \in Events
<1> DEFINE N == Cardinality(its)
<1> DEFINE list == ByTime(events, its)
<1>1. PICK o \in [1..N -> its] :
        /\ list = [k \in 1..N |-> events[o[k]]]
        /\ \A i \in its : \E k \in 1..N : o[k] = i
        /\ \A k, l \in 1..N : k <= l => NotAfter(events, o[k], o[l])
  BY Sorted
<1>2. N \in Nat
  BY Sorted
<1> HIDE DEF N, list
<1>3. \A k \in 1..N : list[k] = events[o[k]] /\ events[o[k]] \in Events
  BY <1>1
<1>4. list \in Seq(Events) /\ Len(list) = N
  <2>1. list \in [1..N -> Events]
    BY <1>1, <1>3
  <2> QED
    BY <1>2, <2>1
<1> QED
  <2>1. InOrder(events, its, N, o)
    BY <1>1, <1>2 DEF InOrder
  <2> QED
    BY <1>3, <1>4, <2>1, Zenon DEF list

(* What has been made of the events of one kind, one message and one writer, if no others
   count, was made of the one which no other of them comes after. *)
Own(t, msg, w) == By(elog, About(elog, t, msg), w)

Decided(t, msg, w, N, o, val) ==
    \/ Latest(t, msg, {w}) = {} /\ val[N] = val[0]
    \/ \E k \in 1..N : o[k] \in Own(t, msg, w) /\ val[N] = val[k] /\ Latest(t, msg, {w}) = {elog[o[k]]}

LEMMA LatestDecides ==
  ASSUME elog \in Seq(Events), NEW its \in SUBSET DOMAIN elog, NEW N, NEW o, InOrder(elog, its, N, o),
         NEW t, NEW msg, NEW w, Own(t, msg, w) \subseteq its, NEW val, OnlyBy(Own(t, msg, w), N, o, val)
  PROVE  Decided(t, msg, w, N, o, val)
<1> DEFINE own == Own(t, msg, w)
<1> HIDE DEF own
<1>1. N \in Nat
  BY DEF InOrder
<1>2. \/ val[N] = val[0] /\ \A l \in 1..N : o[l] \notin own
      \/ \E k \in 1..N : o[k] \in own /\ val[N] = val[k] /\ \A l \in 1..N : o[l] \in own => l <= k
  <2>1. LastBy(own, N, o, val)
    BY <1>1, LastChange DEF own
  <2> QED
    BY <2>1, Zenon DEF LastBy
<1>3. own = {i \in DOMAIN elog : elog[i].t = t /\ elog[i].msg = msg /\ elog[i].user \in {w}}
  BY DEF own, Own, By, About, Of
<1>4. Latest(t, msg, {w}) = {elog[i] : i \in {i \in own : \A j \in own : NotAfter(elog, j, i)}}
  BY <1>3, Zenon DEF Latest
<1>5. CASE val[N] = val[0] /\ \A l \in 1..N : o[l] \notin own
  <2>1. own = {}
    BY <1>5 DEF InOrder, own
  <2>2. Latest(t, msg, {w}) = {}
    BY <1>4, <2>1
  <2> QED
    BY <1>5, <2>1, <2>2 DEF Decided
<1>6. ASSUME NEW k \in 1..N, o[k] \in own, val[N] = val[k], \A l \in 1..N : o[l] \in own => l <= k
      PROVE  Latest(t, msg, {w}) = {elog[o[k]]}
  <2>1. o[k] \in own
    BY <1>6
  <2>2. \A l \in 1..N : o[l] \in own => NotAfter(elog, o[l], o[k])
    BY <1>6 DEF InOrder
  <2>3. \A j \in own : NotAfter(elog, j, o[k])
    BY <2>2 DEF InOrder, own
  <2>4. \A i \in own : NotAfter(elog, o[k], i) => i = o[k]
    BY <2>1, <2>3, <1>3, Ordered
  <2>5. {i \in own : \A j \in own : NotAfter(elog, j, i)} = {o[k]}
    BY <2>1, <2>3, <2>4
  <2> QED
    BY <1>4, <2>5
<1> QED
  BY <1>2, <1>5, <1>6 DEF own, Decided

----------------------------------------------------------------------------
(* What the folds amount to. *)

(* What is listed are events. *)
LEMMA ListedEvents ==
  ASSUME NEW events \in Seq(Events), NEW its \in SUBSET DOMAIN events
  PROVE  /\ Len(ByTime(events, its)) \in Nat
         /\ \A n \in 1..Len(ByTime(events, its)) : ByTime(events, its)[n] \in Events
<1>1. PICK N, o : /\ InOrder(events, its, N, o) /\ Len(ByTime(events, its)) = N
                  /\ \A k \in 1..N : ByTime(events, its)[k] = events[o[k]] /\ events[o[k]] \in Events
  BY SortedList, Zenon
<1>2. N \in Nat
  BY <1>1, Zenon DEF InOrder
<1> QED
  BY <1>1, <1>2

(* Each recursive function is a fold, over the events of its kind in their order. *)
LEMMA ReactionsFolded ==
  ASSUME NEW events \in Seq(Events), NEW msg
  PROVE  LET list == ByTime(events, About(events, "reaction", msg))
         IN \E users \in [0..Len(list) -> SUBSET Readers] :
               /\ users[0] = {}
               /\ \A n \in 1..Len(list) : users[n] = Reacted(users[n - 1], list[n])
               /\ aggregateReactions(events, msg) = users[Len(list)]
<1> DEFINE list == ByTime(events, About(events, "reaction", msg))
<1> DEFINE N == Len(list)
<1> DEFINE Step(x, n) == Reacted(x, list[n])
<1> DEFINE Is(f) == f = [n \in 0..N |-> IF n = 0 THEN {} ELSE Step(f[n - 1], n)]
<1> DEFINE users == CHOOSE f : Is(f)
<1>1. aggregateReactions(events, msg) = users[N]
  BY Zenon DEF aggregateReactions
<1>2. N \in Nat /\ \A n \in 1..N : list[n] \in Events
  <2>1. About(events, "reaction", msg) \in SUBSET DOMAIN events
    BY DEF About, Of
  <2> QED
    BY <2>1, ListedEvents
<1> DEFINE D == SUBSET Readers
<1> DEFINE base == {}
<1> DEFINE step == [n \in 1..N |-> [x \in D |-> Step(x, n)]]
<1> HIDE DEF Is, users, list
<1>3. base \in D /\ \A n \in 1..N : \A x \in D : Step(x, n) \in D
  BY <1>2, EventFields DEF Reacted
<1> HIDE DEF Step, D, base
<1>4. \A n \in 1..N : \A x \in D : step[n][x] = Step(x, n)
  OBVIOUS
<1>5. \A n \in 1..N : \A x \in D : step[n][x] \in D
  BY <1>3, <1>4
<1> HIDE DEF N, step
<1>6. PICK f : FoldOf(f, N, D, base, step)
  BY <1>2, <1>3, <1>5, FoldExists, Zenon
<1>7. f \in [0..N -> D] /\ f[0] = base /\ \A n \in 1..N : f[n] = Step(f[n - 1], n)
  <2>1. f \in [0..N -> D] /\ f[0] = base /\ \A n \in 1..N : f[n] = step[n][f[n - 1]]
    BY <1>6, Zenon DEF FoldOf
  <2> QED
    BY <1>2, <1>4, <2>1
<1>8. Is(f)
  <2> DEFINE g == [n \in 0..N |-> IF n = 0 THEN base ELSE Step(f[n - 1], n)]
  <2>1. \A n \in 0..N : f[n] = g[n]
    BY <1>2, <1>7
  <2>2. f = g
    BY <1>7, <2>1
  <2> QED
    BY <2>2 DEF Is, base
<1>9. Is(users)
  BY <1>8, Zenon DEF users
<1>10. /\ users = [n \in 0..N |-> users[n]]
       /\ users[0] = base
       /\ \A n \in 1..N : users[n] = Step(users[n - 1], n)
  <2>1. users = [n \in 0..N |-> IF n = 0 THEN base ELSE Step(users[n - 1], n)]
    BY <1>9 DEF Is, base
  <2>2. \A n \in 0..N : users[n] = IF n = 0 THEN base ELSE Step(users[n - 1], n)
    BY <2>1
  <2>3. 0 \in 0..N /\ \A n \in 1..N : n \in 0..N /\ n # 0
    BY <1>2
  <2> QED
    BY <2>1, <2>2, <2>3
<1>11. users \in [0..N -> D]
  <2>1. users[0] \in D /\ \A n \in 1..N : users[n - 1] \in D => users[n] \in D
    BY <1>3, <1>10
  <2> QED
    BY <1>2, <1>10, <2>1, FoldTyped, Zenon
<1> QED
  BY <1>1, <1>10, <1>11, Zenon DEF N, D, list, base, Step

LEMMA AllReactionsFolded ==
  ASSUME NEW events \in Seq(Events)
  PROVE  LET list == ByTime(events, Of(events, "reaction"))
         IN \E shown \in [0..Len(list) -> [MessageIds -> SUBSET Readers]] :
               /\ shown[0] = [m \in MessageIds |-> {}]
               /\ \A n \in 1..Len(list) : shown[n] = [shown[n - 1] EXCEPT ![list[n].msg] = Reacted(@, list[n])]
               /\ aggregateAllReactions(events) = shown[Len(list)]
<1> DEFINE list == ByTime(events, Of(events, "reaction"))
<1> DEFINE N == Len(list)
<1> DEFINE Step(x, n) == [x EXCEPT ![list[n].msg] = Reacted(@, list[n])]
<1> DEFINE Is(f) == f = [n \in 0..N |-> IF n = 0 THEN [m \in MessageIds |-> {}] ELSE Step(f[n - 1], n)]
<1> DEFINE shown == CHOOSE f : Is(f)
<1>1. aggregateAllReactions(events) = shown[N]
  BY Zenon DEF aggregateAllReactions
<1>2. N \in Nat /\ \A n \in 1..N : list[n] \in Events
  <2>1. Of(events, "reaction") \in SUBSET DOMAIN events
    BY DEF About, Of
  <2> QED
    BY <2>1, ListedEvents
<1> DEFINE D == [MessageIds -> SUBSET Readers]
<1> DEFINE base == [m \in MessageIds |-> {}]
<1> DEFINE step == [n \in 1..N |-> [x \in D |-> Step(x, n)]]
<1> HIDE DEF Is, shown, list
<1>3. base \in D /\ \A n \in 1..N : \A x \in D : Step(x, n) \in D
  BY <1>2, EventFields DEF Reacted
<1> HIDE DEF Step, D, base
<1>4. \A n \in 1..N : \A x \in D : step[n][x] = Step(x, n)
  OBVIOUS
<1>5. \A n \in 1..N : \A x \in D : step[n][x] \in D
  BY <1>3, <1>4
<1> HIDE DEF N, step
<1>6. PICK f : FoldOf(f, N, D, base, step)
  BY <1>2, <1>3, <1>5, FoldExists, Zenon
<1>7. f \in [0..N -> D] /\ f[0] = base /\ \A n \in 1..N : f[n] = Step(f[n - 1], n)
  <2>1. f \in [0..N -> D] /\ f[0] = base /\ \A n \in 1..N : f[n] = step[n][f[n - 1]]
    BY <1>6, Zenon DEF FoldOf
  <2> QED
    BY <1>2, <1>4, <2>1
<1>8. Is(f)
  <2> DEFINE g == [n \in 0..N |-> IF n = 0 THEN base ELSE Step(f[n - 1], n)]
  <2>1. \A n \in 0..N : f[n] = g[n]
    BY <1>2, <1>7
  <2>2. f = g
    BY <1>7, <2>1
  <2> QED
    BY <2>2 DEF Is, base
<1>9. Is(shown)
  BY <1>8, Zenon DEF shown
<1>10. /\ shown = [n \in 0..N |-> shown[n]]
       /\ shown[0] = base
       /\ \A n \in 1..N : shown[n] = Step(shown[n - 1], n)
  <2>1. shown = [n \in 0..N |-> IF n = 0 THEN base ELSE Step(shown[n - 1], n)]
    BY <1>9 DEF Is, base
  <2>2. \A n \in 0..N : shown[n] = IF n = 0 THEN base ELSE Step(shown[n - 1], n)
    BY <2>1
  <2>3. 0 \in 0..N /\ \A n \in 1..N : n \in 0..N /\ n # 0
    BY <1>2
  <2> QED
    BY <2>1, <2>2, <2>3
<1>11. shown \in [0..N -> D]
  <2>1. shown[0] \in D /\ \A n \in 1..N : shown[n - 1] \in D => shown[n] \in D
    BY <1>3, <1>10
  <2> QED
    BY <1>2, <1>10, <2>1, FoldTyped, Zenon
<1> QED
  BY <1>1, <1>10, <1>11, Zenon DEF N, D, list, base, Step

LEMMA EditsFolded ==
  ASSUME NEW events \in Seq(Events)
  PROVE  LET list == ByTime(events, Of(events, "edit"))
         IN \E latest \in [0..Len(list) -> [MessageIds -> Events \cup {NoEvent}]] :
               /\ latest[0] = [m \in MessageIds |-> NoEvent]
               /\ \A n \in 1..Len(list) : latest[n] = (IF list[n].user = AuthorOf[list[n].msg] THEN [latest[n - 1] EXCEPT ![list[n].msg] = list[n]] ELSE latest[n - 1])
               /\ resolveEdits(events) = latest[Len(list)]
<1> DEFINE list == ByTime(events, Of(events, "edit"))
<1> DEFINE N == Len(list)
<1> DEFINE Step(x, n) == (IF list[n].user = AuthorOf[list[n].msg] THEN [x EXCEPT ![list[n].msg] = list[n]] ELSE x)
<1> DEFINE Is(f) == f = [n \in 0..N |-> IF n = 0 THEN [m \in MessageIds |-> NoEvent] ELSE Step(f[n - 1], n)]
<1> DEFINE latest == CHOOSE f : Is(f)
<1>1. resolveEdits(events) = latest[N]
  BY Zenon DEF resolveEdits
<1>2. N \in Nat /\ \A n \in 1..N : list[n] \in Events
  <2>1. Of(events, "edit") \in SUBSET DOMAIN events
    BY DEF About, Of
  <2> QED
    BY <2>1, ListedEvents
<1> DEFINE D == [MessageIds -> Events \cup {NoEvent}]
<1> DEFINE base == [m \in MessageIds |-> NoEvent]
<1> DEFINE step == [n \in 1..N |-> [x \in D |-> Step(x, n)]]
<1> HIDE DEF Is, latest, list
<1>3. base \in D /\ \A n \in 1..N : \A x \in D : Step(x, n) \in D
  BY <1>2, EventFields
<1> HIDE DEF Step, D, base
<1>4. \A n \in 1..N : \A x \in D : step[n][x] = Step(x, n)
  OBVIOUS
<1>5. \A n \in 1..N : \A x \in D : step[n][x] \in D
  BY <1>3, <1>4
<1> HIDE DEF N, step
<1>6. PICK f : FoldOf(f, N, D, base, step)
  BY <1>2, <1>3, <1>5, FoldExists, Zenon
<1>7. f \in [0..N -> D] /\ f[0] = base /\ \A n \in 1..N : f[n] = Step(f[n - 1], n)
  <2>1. f \in [0..N -> D] /\ f[0] = base /\ \A n \in 1..N : f[n] = step[n][f[n - 1]]
    BY <1>6, Zenon DEF FoldOf
  <2> QED
    BY <1>2, <1>4, <2>1
<1>8. Is(f)
  <2> DEFINE g == [n \in 0..N |-> IF n = 0 THEN base ELSE Step(f[n - 1], n)]
  <2>1. \A n \in 0..N : f[n] = g[n]
    BY <1>2, <1>7
  <2>2. f = g
    BY <1>7, <2>1
  <2> QED
    BY <2>2 DEF Is, base
<1>9. Is(latest)
  BY <1>8, Zenon DEF latest
<1>10. /\ latest = [n \in 0..N |-> latest[n]]
       /\ latest[0] = base
       /\ \A n \in 1..N : latest[n] = Step(latest[n - 1], n)
  <2>1. latest = [n \in 0..N |-> IF n = 0 THEN base ELSE Step(latest[n - 1], n)]
    BY <1>9 DEF Is, base
  <2>2. \A n \in 0..N : latest[n] = IF n = 0 THEN base ELSE Step(latest[n - 1], n)
    BY <2>1
  <2>3. 0 \in 0..N /\ \A n \in 1..N : n \in 0..N /\ n # 0
    BY <1>2
  <2> QED
    BY <2>1, <2>2, <2>3
<1>11. latest \in [0..N -> D]
  <2>1. latest[0] \in D /\ \A n \in 1..N : latest[n - 1] \in D => latest[n] \in D
    BY <1>3, <1>10
  <2> QED
    BY <1>2, <1>10, <2>1, FoldTyped, Zenon
<1> QED
  BY <1>1, <1>10, <1>11, Zenon DEF N, D, list, base, Step

LEMMA PinsFolded ==
  ASSUME NEW events \in Seq(Events)
  PROVE  LET list == ByTime(events, Of(events, "pin"))
         IN \E kinds \in [0..Len(list) -> [MessageIds -> {"pin", "unpin", "add", "remove", "edit", "delete"}]] :
               /\ kinds[0] = [m \in MessageIds |-> "unpin"]
               /\ \A n \in 1..Len(list) : kinds[n] = (IF list[n].user = SpaceOwner THEN [kinds[n - 1] EXCEPT ![list[n].msg] = list[n].kind] ELSE kinds[n - 1])
               /\ resolvePinnedSet(events) = {m \in MessageIds : kinds[Len(list)][m] = "pin"}
<1> DEFINE list == ByTime(events, Of(events, "pin"))
<1> DEFINE N == Len(list)
<1> DEFINE Step(x, n) == (IF list[n].user = SpaceOwner THEN [x EXCEPT ![list[n].msg] = list[n].kind] ELSE x)
<1> DEFINE Is(f) == f = [n \in 0..N |-> IF n = 0 THEN [m \in MessageIds |-> "unpin"] ELSE Step(f[n - 1], n)]
<1> DEFINE kinds == CHOOSE f : Is(f)
<1>1. resolvePinnedSet(events) = {m \in MessageIds : kinds[N][m] = "pin"}
  BY Zenon DEF resolvePinnedSet
<1>2. N \in Nat /\ \A n \in 1..N : list[n] \in Events
  <2>1. Of(events, "pin") \in SUBSET DOMAIN events
    BY DEF About, Of
  <2> QED
    BY <2>1, ListedEvents
<1> DEFINE D == [MessageIds -> {"pin", "unpin", "add", "remove", "edit", "delete"}]
<1> DEFINE base == [m \in MessageIds |-> "unpin"]
<1> DEFINE step == [n \in 1..N |-> [x \in D |-> Step(x, n)]]
<1> HIDE DEF Is, kinds, list
<1>3. base \in D /\ \A n \in 1..N : \A x \in D : Step(x, n) \in D
  BY <1>2, EventFields
<1> HIDE DEF Step, D, base
<1>4. \A n \in 1..N : \A x \in D : step[n][x] = Step(x, n)
  OBVIOUS
<1>5. \A n \in 1..N : \A x \in D : step[n][x] \in D
  BY <1>3, <1>4
<1> HIDE DEF N, step
<1>6. PICK f : FoldOf(f, N, D, base, step)
  BY <1>2, <1>3, <1>5, FoldExists, Zenon
<1>7. f \in [0..N -> D] /\ f[0] = base /\ \A n \in 1..N : f[n] = Step(f[n - 1], n)
  <2>1. f \in [0..N -> D] /\ f[0] = base /\ \A n \in 1..N : f[n] = step[n][f[n - 1]]
    BY <1>6, Zenon DEF FoldOf
  <2> QED
    BY <1>2, <1>4, <2>1
<1>8. Is(f)
  <2> DEFINE g == [n \in 0..N |-> IF n = 0 THEN base ELSE Step(f[n - 1], n)]
  <2>1. \A n \in 0..N : f[n] = g[n]
    BY <1>2, <1>7
  <2>2. f = g
    BY <1>7, <2>1
  <2> QED
    BY <2>2 DEF Is, base
<1>9. Is(kinds)
  BY <1>8, Zenon DEF kinds
<1>10. /\ kinds = [n \in 0..N |-> kinds[n]]
       /\ kinds[0] = base
       /\ \A n \in 1..N : kinds[n] = Step(kinds[n - 1], n)
  <2>1. kinds = [n \in 0..N |-> IF n = 0 THEN base ELSE Step(kinds[n - 1], n)]
    BY <1>9 DEF Is, base
  <2>2. \A n \in 0..N : kinds[n] = IF n = 0 THEN base ELSE Step(kinds[n - 1], n)
    BY <2>1
  <2>3. 0 \in 0..N /\ \A n \in 1..N : n \in 0..N /\ n # 0
    BY <1>2
  <2> QED
    BY <2>1, <2>2, <2>3
<1>11. kinds \in [0..N -> D]
  <2>1. kinds[0] \in D /\ \A n \in 1..N : kinds[n - 1] \in D => kinds[n] \in D
    BY <1>3, <1>10
  <2> QED
    BY <1>2, <1>10, <2>1, FoldTyped, Zenon
<1> QED
  BY <1>1, <1>10, <1>11, Zenon DEF N, D, list, base, Step

----------------------------------------------------------------------------
(* Fold by fold: it has kept what the latest event says. *)

(* The numbers of events that the folds select. *)
LEMMA Numbers ==
  ASSUME elog \in Seq(Events), NEW t, NEW msg, NEW w
  PROVE  /\ Of(elog, t) \in SUBSET DOMAIN elog /\ About(elog, t, msg) \in SUBSET DOMAIN elog
         /\ Own(t, msg, w) \subseteq About(elog, t, msg) /\ Own(t, msg, w) \subseteq Of(elog, t)
         /\ \A i \in DOMAIN elog : elog[i] \in Events
  BY DEF Own, By, About, Of

(* The users that reactions leave: those whose latest event adds theirs. *)
LEMMA ReactionsLatest ==
  ASSUME elog \in Seq(Events), NEW msg \in MessageIds
  PROVE  aggregateReactions(elog, msg) = {u \in Readers : \E e \in Latest("reaction", msg, {u}) : e.kind = "add"}
<1> DEFINE its == About(elog, "reaction", msg)
<1> DEFINE list == ByTime(elog, its)
<1>1. PICK users \in [0..Len(list) -> SUBSET Readers] :
        /\ users[0] = {} /\ \A n \in 1..Len(list) : users[n] = Reacted(users[n - 1], list[n])
        /\ aggregateReactions(elog, msg) = users[Len(list)]
  BY ReactionsFolded, Zenon
<1>2. its \in SUBSET DOMAIN elog
  BY Numbers
<1>3. PICK N, o : /\ InOrder(elog, its, N, o) /\ Len(list) = N
                  /\ \A k \in 1..N : list[k] = elog[o[k]] /\ elog[o[k]] \in Events
  BY <1>2, SortedList, Zenon
<1> HIDE DEF list
<1>4. N \in Nat /\ \A k \in 1..N : o[k] \in its
  BY <1>3 DEF InOrder
<1>5. /\ users \in [0..N -> SUBSET Readers] /\ users[0] = {}
      /\ \A n \in 1..N : users[n] = Reacted(users[n - 1], elog[o[n]])
      /\ aggregateReactions(elog, msg) = users[N]
  BY <1>1, <1>3
<1>6. ASSUME NEW u \in Readers
      PROVE  u \in users[N] <=> \E e \in Latest("reaction", msg, {u}) : e.kind = "add"
  <2> DEFINE own == Own("reaction", msg, u)
  <2> DEFINE val == [n \in 0..N |-> users[n] \cap {u}]
  <2>1. OnlyBy(own, N, o, val)
    <3> SUFFICES ASSUME NEW n \in 1..N, o[n] \notin own PROVE val[n] = val[n - 1]
      BY DEF OnlyBy
    <3>1. elog[o[n]].user # u
      BY <1>4 DEF Own, By
    <3>2. n \in 0..N /\ n - 1 \in 0..N /\ users[n] = Reacted(users[n - 1], elog[o[n]])
      BY <1>4, <1>5
    <3>3. val[n] = users[n] \cap {u} /\ val[n - 1] = users[n - 1] \cap {u}
      BY <3>2
    <3> HIDE DEF val
    <3> QED
      BY <3>1, <3>2, <3>3 DEF Reacted
  <2>2. own \subseteq its
    BY Numbers
  <2> HIDE DEF own, val, its
  <2>3. \/ Latest("reaction", msg, {u}) = {} /\ val[N] = val[0]
        \/ \E k \in 1..N : o[k] \in own /\ val[N] = val[k] /\ Latest("reaction", msg, {u}) = {elog[o[k]]}
    <3>1. Decided("reaction", msg, u, N, o, val)
      BY <1>2, <1>3, <2>1, <2>2, LatestDecides DEF own
    <3> QED
      BY <3>1, Zenon DEF Decided, own
  <2>4. N \in 0..N /\ val[N] = users[N] \cap {u} /\ val[0] = {}
    BY <1>4, <1>5 DEF val
  <2>5. CASE Latest("reaction", msg, {u}) = {} /\ val[N] = val[0]
    BY <2>4, <2>5
  <2>6. ASSUME NEW k \in 1..N, o[k] \in own, val[N] = val[k], Latest("reaction", msg, {u}) = {elog[o[k]]}
        PROVE  u \in users[N] <=> \E e \in Latest("reaction", msg, {u}) : e.kind = "add"
    <3>1. val[k] = users[k] \cap {u} /\ users[k] = Reacted(users[k - 1], elog[o[k]])
      BY <1>4, <1>5 DEF val
    <3>2. elog[o[k]].user = u
      BY <2>6 DEF own, Own, By
    <3>3. u \in users[k] <=> elog[o[k]].kind = "add"
      BY <3>1, <3>2 DEF Reacted
    <3>4. u \in users[N] <=> u \in users[k]
      BY <2>4, <2>6, <3>1
    <3> QED
      BY <2>6, <3>3, <3>4
  <2> QED
    BY <2>3, <2>5, <2>6
<1>7. users[N] \in SUBSET Readers
  BY <1>4, <1>5
<1> QED
  BY <1>5, <1>6, <1>7

(* The same from the index. *)
LEMMA AllReactionsLatest ==
  ASSUME elog \in Seq(Events), NEW msg \in MessageIds
  PROVE  aggregateAllReactions(elog)[msg]
            = {u \in Readers : \E e \in Latest("reaction", msg, {u}) : e.kind = "add"}
<1> DEFINE its == Of(elog, "reaction")
<1> DEFINE list == ByTime(elog, its)
<1>1. PICK shown \in [0..Len(list) -> [MessageIds -> SUBSET Readers]] :
        /\ shown[0] = [m \in MessageIds |-> {}]
        /\ \A n \in 1..Len(list) : shown[n] = [shown[n - 1] EXCEPT ![list[n].msg] = Reacted(@, list[n])]
        /\ aggregateAllReactions(elog) = shown[Len(list)]
  BY AllReactionsFolded, Zenon
<1>2. its \in SUBSET DOMAIN elog
  BY Numbers
<1>3. PICK N, o : /\ InOrder(elog, its, N, o) /\ Len(list) = N
                  /\ \A k \in 1..N : list[k] = elog[o[k]] /\ elog[o[k]] \in Events
  BY <1>2, SortedList, Zenon
<1> HIDE DEF list
<1>4. N \in Nat /\ \A k \in 1..N : o[k] \in its
  BY <1>3 DEF InOrder
<1>5. /\ shown \in [0..N -> [MessageIds -> SUBSET Readers]] /\ shown[0][msg] = {}
      /\ aggregateAllReactions(elog) = shown[N]
  BY <1>1, <1>3
<1>6. \A n \in 1..N : shown[n][msg] = IF elog[o[n]].msg = msg THEN Reacted(shown[n - 1][msg], elog[o[n]])
                                      ELSE shown[n - 1][msg]
  <2> SUFFICES ASSUME NEW n \in 1..N
               PROVE  shown[n][msg] = IF elog[o[n]].msg = msg THEN Reacted(shown[n - 1][msg], elog[o[n]])
                                      ELSE shown[n - 1][msg]
    OBVIOUS
  <2>1. n \in 0..N /\ n - 1 \in 0..N /\ list[n] = elog[o[n]]
    BY <1>3, <1>4
  <2>2. shown[n] = [shown[n - 1] EXCEPT ![elog[o[n]].msg] = Reacted(@, elog[o[n]])]
    BY <1>1, <1>3, <2>1
  <2>3. shown[n - 1] \in [MessageIds -> SUBSET Readers]
    BY <1>5, <2>1
  <2> QED
    BY <2>2, <2>3
<1>7. ASSUME NEW u \in Readers
      PROVE  u \in shown[N][msg] <=> \E e \in Latest("reaction", msg, {u}) : e.kind = "add"
  <2> DEFINE own == Own("reaction", msg, u)
  <2> DEFINE val == [n \in 0..N |-> shown[n][msg] \cap {u}]
  <2>1. OnlyBy(own, N, o, val)
    <3> SUFFICES ASSUME NEW n \in 1..N, o[n] \notin own PROVE val[n] = val[n - 1]
      BY DEF OnlyBy
    <3>1. elog[o[n]].msg # msg \/ elog[o[n]].user # u
      BY <1>4 DEF Own, By, About
    <3>2. n \in 0..N /\ n - 1 \in 0..N
      BY <1>4
    <3>3. val[n] = shown[n][msg] \cap {u} /\ val[n - 1] = shown[n - 1][msg] \cap {u}
      BY <3>2
    <3> HIDE DEF val
    <3> QED
      BY <1>6, <3>1, <3>3 DEF Reacted
  <2>2. own \subseteq its
    BY Numbers
  <2> HIDE DEF own, val, its
  <2>3. \/ Latest("reaction", msg, {u}) = {} /\ val[N] = val[0]
        \/ \E k \in 1..N : o[k] \in own /\ val[N] = val[k] /\ Latest("reaction", msg, {u}) = {elog[o[k]]}
    <3>1. Decided("reaction", msg, u, N, o, val)
      BY <1>2, <1>3, <2>1, <2>2, LatestDecides DEF own
    <3> QED
      BY <3>1, Zenon DEF Decided, own
  <2>4. N \in 0..N /\ val[N] = shown[N][msg] \cap {u} /\ val[0] = {}
    BY <1>4, <1>5 DEF val
  <2>5. CASE Latest("reaction", msg, {u}) = {} /\ val[N] = val[0]
    BY <2>4, <2>5
  <2>6. ASSUME NEW k \in 1..N, o[k] \in own, val[N] = val[k], Latest("reaction", msg, {u}) = {elog[o[k]]}
        PROVE  u \in shown[N][msg] <=> \E e \in Latest("reaction", msg, {u}) : e.kind = "add"
    <3>1. val[k] = shown[k][msg] \cap {u}
      BY <1>4 DEF val
    <3>2. elog[o[k]].user = u /\ elog[o[k]].msg = msg
      BY <2>6 DEF own, Own, By, About
    <3>3. u \in shown[k][msg] <=> elog[o[k]].kind = "add"
      BY <1>6, <3>2 DEF Reacted
    <3>4. u \in shown[N][msg] <=> u \in shown[k][msg]
      BY <2>4, <2>6, <3>1
    <3> QED
      BY <2>6, <3>3, <3>4
  <2> QED
    BY <2>3, <2>5, <2>6
<1>8. shown[N][msg] \in SUBSET Readers
  BY <1>4, <1>5
<1> QED
  BY <1>5, <1>7, <1>8

(* The last of a sorted list of events of one kind, one message and one writer. *)
LEMMA LastLatest ==
  ASSUME elog \in Seq(Events), NEW t, NEW msg, NEW w
  PROVE  LET last == LastOr(ByTime(elog, Own(t, msg, w)), NoEvent)
         IN \/ Latest(t, msg, {w}) = {} /\ last = NoEvent
            \/ Latest(t, msg, {w}) = {last} /\ last \in Events
<1> DEFINE its == Own(t, msg, w)
<1> DEFINE list == ByTime(elog, its)
<1>1. its \in SUBSET DOMAIN elog
  BY DEF Own, By, About, Of
<1>2. PICK N, o : /\ InOrder(elog, its, N, o) /\ list \in Seq(Events) /\ Len(list) = N
                  /\ \A k \in 1..N : list[k] = elog[o[k]] /\ elog[o[k]] \in Events
  BY <1>1, SortedList, Zenon
<1>3. N \in Nat /\ \A k \in 1..N : o[k] \in its
  BY <1>2 DEF InOrder
<1> DEFINE val == [n \in 0..N |-> n]
<1>4. OnlyBy(its, N, o, val)
  BY <1>3 DEF OnlyBy
<1>5. list = <<>> <=> N = 0
  <2> HIDE DEF list
  <2> QED
    BY <1>2
<1> HIDE DEF its, list, val
<1>6. \/ Latest(t, msg, {w}) = {} /\ val[N] = val[0]
      \/ \E k \in 1..N : o[k] \in its /\ val[N] = val[k] /\ Latest(t, msg, {w}) = {elog[o[k]]}
  <2>1. its \subseteq its
    OBVIOUS
  <2>2. Decided(t, msg, w, N, o, val)
    BY <1>1, <1>2, <1>4, <2>1, LatestDecides DEF its
  <2> QED
    BY <2>2, Zenon DEF Decided, its
<1>7. CASE Latest(t, msg, {w}) = {} /\ val[N] = val[0]
  <2>1. N = 0
    BY <1>3, <1>7 DEF val
  <2> QED
    BY <1>5, <1>7, <2>1 DEF LastOr, list, its
<1>8. ASSUME NEW k \in 1..N, val[N] = val[k], Latest(t, msg, {w}) = {elog[o[k]]}
      PROVE  LastOr(list, NoEvent) = elog[o[k]] /\ elog[o[k]] \in Events
  <2>1. k = N /\ N # 0
    BY <1>3, <1>8 DEF val
  <2> QED
    BY <1>2, <1>5, <1>8, <2>1 DEF LastOr
<1> QED
  BY <1>6, <1>7, <1>8 DEF list, its

(* The latest edit, row by row and from the index. *)
LEMMA EditsLatest ==
  ASSUME elog \in Seq(Events), NEW msg \in MessageIds
  PROVE  LET kept == resolveEdits(elog)[msg]
         IN \/ Latest("edit", msg, {AuthorOf[msg]}) = {} /\ kept = NoEvent
            \/ Latest("edit", msg, {AuthorOf[msg]}) = {kept} /\ kept \in Events
<1> DEFINE its == Of(elog, "edit")
<1> DEFINE list == ByTime(elog, its)
<1> DEFINE writer == AuthorOf[msg]
<1>1. PICK latest \in [0..Len(list) -> [MessageIds -> Events \cup {NoEvent}]] :
        /\ latest[0] = [m \in MessageIds |-> NoEvent]
        /\ \A n \in 1..Len(list) :
              latest[n] = IF list[n].user = AuthorOf[list[n].msg] THEN [latest[n - 1] EXCEPT ![list[n].msg] = list[n]]
                          ELSE latest[n - 1]
        /\ resolveEdits(elog) = latest[Len(list)]
  BY EditsFolded, Zenon
<1>2. its \in SUBSET DOMAIN elog
  BY Numbers
<1>3. PICK N, o : /\ InOrder(elog, its, N, o) /\ list \in Seq(Events) /\ Len(list) = N
                  /\ \A k \in 1..N : list[k] = elog[o[k]] /\ elog[o[k]] \in Events
  BY <1>2, SortedList, Zenon
<1> HIDE DEF list
<1>4. N \in Nat /\ \A k \in 1..N : o[k] \in its
  BY <1>3 DEF InOrder
<1>5. latest \in [0..N -> [MessageIds -> Events \cup {NoEvent}]] /\ latest[0][msg] = NoEvent /\ resolveEdits(elog) = latest[N]
  BY <1>1, <1>3
<1>6. \A n \in 1..N : latest[n][msg] = IF elog[o[n]].msg = msg /\ elog[o[n]].user = writer THEN elog[o[n]]
                                       ELSE latest[n - 1][msg]
  <2> SUFFICES ASSUME NEW n \in 1..N
               PROVE  latest[n][msg] = IF elog[o[n]].msg = msg /\ elog[o[n]].user = writer THEN elog[o[n]]
                                       ELSE latest[n - 1][msg]
    OBVIOUS
  <2>1. n \in 0..N /\ n - 1 \in 0..N /\ list[n] = elog[o[n]]
    BY <1>3, <1>4
  <2>2. latest[n] = IF elog[o[n]].user = AuthorOf[elog[o[n]].msg] THEN [latest[n - 1] EXCEPT ![elog[o[n]].msg] = elog[o[n]]]
                    ELSE latest[n - 1]
    <3>1. latest[n] = IF list[n].user = AuthorOf[list[n].msg] THEN [latest[n - 1] EXCEPT ![list[n].msg] = list[n]]
                      ELSE latest[n - 1]
      BY <1>1, <1>3
    <3> QED
      BY <2>1, <3>1
  <2>3. latest[n - 1] \in [MessageIds -> Events \cup {NoEvent}]
    BY <1>5, <2>1
  <2> QED
    BY <2>2, <2>3
<1> DEFINE own == Own("edit", msg, writer)
<1> DEFINE val == [n \in 0..N |-> latest[n][msg]]
<1>7. OnlyBy(own, N, o, val)
  <2> SUFFICES ASSUME NEW n \in 1..N, o[n] \notin own PROVE val[n] = val[n - 1]
    BY DEF OnlyBy
  <2>1. elog[o[n]].msg # msg \/ elog[o[n]].user # writer
    BY <1>4 DEF Own, By, About
  <2>2. n \in 0..N /\ n - 1 \in 0..N
    BY <1>4
  <2> QED
    BY <1>6, <2>1, <2>2
<1>8. own \subseteq its
  BY Numbers
<1> HIDE DEF own, val, its
<1>9. \/ Latest("edit", msg, {writer}) = {} /\ val[N] = val[0]
      \/ \E k \in 1..N : o[k] \in own /\ val[N] = val[k] /\ Latest("edit", msg, {writer}) = {elog[o[k]]}
  <2>1. Decided("edit", msg, writer, N, o, val)
    BY <1>2, <1>3, <1>7, <1>8, LatestDecides DEF own
  <2> QED
    BY <2>1, Zenon DEF Decided, own
<1>10. latest[N][msg] = val[N] /\ val[0] = NoEvent
  BY <1>4, <1>5 DEF val
<1>11. ASSUME NEW k \in 1..N, o[k] \in own, val[N] = val[k] PROVE latest[N][msg] = elog[o[k]] /\ elog[o[k]] \in Events
  <2>1. val[k] = latest[k][msg]
    BY <1>4 DEF val
  <2>2. elog[o[k]].user = writer /\ elog[o[k]].msg = msg
    BY <1>11 DEF own, Own, By, About
  <2> QED
    BY <1>3, <1>6, <1>10, <1>11, <2>1, <2>2
<1> QED
  BY <1>5, <1>9, <1>10, <1>11
(* What is pinned, row by row and from the index. *)
LEMMA PinsLatest ==
  ASSUME elog \in Seq(Events), NEW msg \in MessageIds
  PROVE  msg \in resolvePinnedSet(elog) <=> \E e \in Latest("pin", msg, {SpaceOwner}) : e.kind = "pin"
<1> DEFINE its == Of(elog, "pin")
<1> DEFINE list == ByTime(elog, its)
<1> DEFINE writer == SpaceOwner
<1>1. PICK kinds \in [0..Len(list) -> [MessageIds -> {"pin", "unpin", "add", "remove", "edit", "delete"}]] :
        /\ kinds[0] = [m \in MessageIds |-> "unpin"]
        /\ \A n \in 1..Len(list) :
              kinds[n] = IF list[n].user = SpaceOwner THEN [kinds[n - 1] EXCEPT ![list[n].msg] = list[n].kind]
                          ELSE kinds[n - 1]
        /\ resolvePinnedSet(elog) = {m \in MessageIds : kinds[Len(list)][m] = "pin"}
  BY PinsFolded, Zenon
<1>2. its \in SUBSET DOMAIN elog
  BY Numbers
<1>3. PICK N, o : /\ InOrder(elog, its, N, o) /\ list \in Seq(Events) /\ Len(list) = N
                  /\ \A k \in 1..N : list[k] = elog[o[k]] /\ elog[o[k]] \in Events
  BY <1>2, SortedList, Zenon
<1> HIDE DEF list
<1>4. N \in Nat /\ \A k \in 1..N : o[k] \in its
  BY <1>3 DEF InOrder
<1>5. kinds \in [0..N -> [MessageIds -> {"pin", "unpin", "add", "remove", "edit", "delete"}]] /\ kinds[0][msg] = "unpin" /\ resolvePinnedSet(elog) = {m \in MessageIds : kinds[N][m] = "pin"}
  BY <1>1, <1>3
<1>6. \A n \in 1..N : kinds[n][msg] = IF elog[o[n]].msg = msg /\ elog[o[n]].user = writer THEN elog[o[n]].kind
                                       ELSE kinds[n - 1][msg]
  <2> SUFFICES ASSUME NEW n \in 1..N
               PROVE  kinds[n][msg] = IF elog[o[n]].msg = msg /\ elog[o[n]].user = writer THEN elog[o[n]].kind
                                       ELSE kinds[n - 1][msg]
    OBVIOUS
  <2>1. n \in 0..N /\ n - 1 \in 0..N /\ list[n] = elog[o[n]]
    BY <1>3, <1>4
  <2>2. kinds[n] = IF elog[o[n]].user = SpaceOwner THEN [kinds[n - 1] EXCEPT ![elog[o[n]].msg] = elog[o[n]].kind]
                    ELSE kinds[n - 1]
    <3>1. kinds[n] = IF list[n].user = SpaceOwner THEN [kinds[n - 1] EXCEPT ![list[n].msg] = list[n].kind]
                      ELSE kinds[n - 1]
      BY <1>1, <1>3
    <3> QED
      BY <2>1, <3>1
  <2>3. kinds[n - 1] \in [MessageIds -> {"pin", "unpin", "add", "remove", "edit", "delete"}]
    BY <1>5, <2>1
  <2> QED
    BY <2>2, <2>3
<1> DEFINE own == Own("pin", msg, writer)
<1> DEFINE val == [n \in 0..N |-> kinds[n][msg]]
<1>7. OnlyBy(own, N, o, val)
  <2> SUFFICES ASSUME NEW n \in 1..N, o[n] \notin own PROVE val[n] = val[n - 1]
    BY DEF OnlyBy
  <2>1. elog[o[n]].msg # msg \/ elog[o[n]].user # writer
    BY <1>4 DEF Own, By, About
  <2>2. n \in 0..N /\ n - 1 \in 0..N
    BY <1>4
  <2> QED
    BY <1>6, <2>1, <2>2
<1>8. own \subseteq its
  BY Numbers
<1> HIDE DEF own, val, its
<1>9. \/ Latest("pin", msg, {writer}) = {} /\ val[N] = val[0]
      \/ \E k \in 1..N : o[k] \in own /\ val[N] = val[k] /\ Latest("pin", msg, {writer}) = {elog[o[k]]}
  <2>1. Decided("pin", msg, writer, N, o, val)
    BY <1>2, <1>3, <1>7, <1>8, LatestDecides DEF own
  <2> QED
    BY <2>1, Zenon DEF Decided, own
<1>10. kinds[N][msg] = val[N] /\ val[0] = "unpin"
  BY <1>4, <1>5 DEF val
<1>11. ASSUME NEW k \in 1..N, o[k] \in own, val[N] = val[k] PROVE kinds[N][msg] = elog[o[k]].kind /\ elog[o[k]] \in Events
  <2>1. val[k] = kinds[k][msg]
    BY <1>4 DEF val
  <2>2. elog[o[k]].user = writer /\ elog[o[k]].msg = msg
    BY <1>11 DEF own, Own, By, About
  <2> QED
    BY <1>3, <1>6, <1>10, <1>11, <2>1, <2>2
<1>12. msg \in resolvePinnedSet(elog) <=> kinds[N][msg] = "pin"
  BY <1>5
<1> QED
  BY <1>9, <1>10, <1>11, <1>12

(* Row by row or from the index, on every log: what the latest events say. *)
LEMMA Agree == elog \in Seq(Events) => FoldsAgree
<1> SUFFICES ASSUME elog \in Seq(Events), NEW msg \in MessageIds
             PROVE  LET row == toDisplayMessage(elog, msg)
                    IN /\ toDisplayMessageIndexed(buildMessageIndex(elog), msg) = row
                       /\ row.reactions = {u \in Readers : \E e \in Latest("reaction", msg, {u}) : e.kind = "add"}
                       /\ {row.edit} \ {NoEvent} = Latest("edit", msg, {AuthorOf[msg]})
                       /\ row.pinned = (\E e \in Latest("pin", msg, {SpaceOwner}) : e.kind = "pin")
  BY Zenon DEF FoldsAgree
<1> DEFINE row == toDisplayMessage(elog, msg)
<1> DEFINE idx == buildMessageIndex(elog)
<1>1. /\ row.reactions = aggregateReactions(elog, msg) /\ row.edit = resolveEdit(elog, msg)
      /\ row.pinned = resolvePinned(elog, msg)
      /\ row = [reactions |-> row.reactions, edit |-> row.edit, pinned |-> row.pinned]
  BY DEF toDisplayMessage
<1>2. toDisplayMessageIndexed(idx, msg)
        = [reactions |-> aggregateAllReactions(elog)[msg], edit |-> resolveEdits(elog)[msg],
           pinned |-> msg \in resolvePinnedSet(elog)]
  BY DEF toDisplayMessageIndexed, buildMessageIndex
<1> HIDE DEF row, idx
<1>3. \A e \in Events : e # NoEvent
  <2>1. NoEvent.kind = "none"
    BY DEF NoEvent
  <2> QED
    BY <2>1, EventFields
<1>4. \/ Latest("edit", msg, {AuthorOf[msg]}) = {} /\ resolveEdit(elog, msg) = NoEvent
      \/ Latest("edit", msg, {AuthorOf[msg]}) = {resolveEdit(elog, msg)} /\ resolveEdit(elog, msg) \in Events
  BY LastLatest, Zenon DEF resolveEdit, Own
<1>5. \/ Latest("edit", msg, {AuthorOf[msg]}) = {} /\ resolveEdits(elog)[msg] = NoEvent
      \/ Latest("edit", msg, {AuthorOf[msg]}) = {resolveEdits(elog)[msg]} /\ resolveEdits(elog)[msg] \in Events
  BY EditsLatest, Zenon
<1>6. resolveEdits(elog)[msg] = resolveEdit(elog, msg) /\ {resolveEdit(elog, msg)} \ {NoEvent} = Latest("edit", msg, {AuthorOf[msg]})
  BY <1>3, <1>4, <1>5
<1>7. resolvePinned(elog, msg) = (\E e \in Latest("pin", msg, {SpaceOwner}) : e.kind = "pin")
  <2> DEFINE last == LastOr(ByTime(elog, Own("pin", msg, SpaceOwner)), NoEvent)
  <2>1. \/ Latest("pin", msg, {SpaceOwner}) = {} /\ last = NoEvent
        \/ Latest("pin", msg, {SpaceOwner}) = {last} /\ last \in Events
    BY LastLatest, Zenon
  <2>2. resolvePinned(elog, msg) = (last.kind = "pin")
    BY Zenon DEF resolvePinned, Own
  <2> HIDE DEF last
  <2>3. NoEvent.kind # "pin"
    BY DEF NoEvent
  <2>4. last.kind = "pin" <=> \E e \in Latest("pin", msg, {SpaceOwner}) : e.kind = "pin"
    BY <2>1, <2>3
  <2> QED
    BY <2>2, <2>4, Zenon
<1>8. (msg \in resolvePinnedSet(elog)) = (\E e \in Latest("pin", msg, {SpaceOwner}) : e.kind = "pin")
  <2>1. msg \in resolvePinnedSet(elog) <=> \E e \in Latest("pin", msg, {SpaceOwner}) : e.kind = "pin"
    BY PinsLatest, Zenon
  <2> DEFINE shown == msg \in resolvePinnedSet(elog)
  <2> DEFINE pinned == \E e \in Latest("pin", msg, {SpaceOwner}) : e.kind = "pin"
  <2>2. shown \in BOOLEAN
    OBVIOUS
  <2>3. pinned \in BOOLEAN
    OBVIOUS
  <2>4. shown <=> pinned
    BY <2>1, Zenon
  <2> HIDE DEF shown, pinned
  <2>5. shown = pinned
    BY <2>2, <2>3, <2>4
  <2> QED
    BY <2>5, Zenon DEF shown, pinned
<1>9. aggregateReactions(elog, msg) = {u \in Readers : \E e \in Latest("reaction", msg, {u}) : e.kind = "add"}
  BY ReactionsLatest, Zenon
<1>10. aggregateAllReactions(elog)[msg] = aggregateReactions(elog, msg)
  BY <1>9, AllReactionsLatest, Zenon
<1>11. toDisplayMessageIndexed(idx, msg) = row
  BY <1>1, <1>2, <1>6, <1>7, <1>8, <1>10, Zenon
<1> QED
  BY <1>1, <1>6, <1>7, <1>9, <1>11, Zenon DEF row, idx

----------------------------------------------------------------------------
(* Taps. *)

(* The latest events of a set, and how many of them are of a kind. *)
LatestIn(events, its) == {events[i] : i \in {i \in its : \A j \in its : NotAfter(events, j, i)}}

CountOf(events, its, kind) == Cardinality({i \in its : events[i].kind = kind})

(* One add more than removals if the latest is an add, as many if not. *)
Alternating(events, its) ==
    CountOf(events, its, "add")
        = CountOf(events, its, "remove") + (IF \E e \in LatestIn(events, its) : e.kind = "add" THEN 1 ELSE 0)

(* The two ways of saying which event is the latest of one's own. *)
LEMMA LatestOwn ==
  ASSUME NEW t, NEW msg, NEW w
  PROVE  Latest(t, msg, {w}) = LatestIn(elog, Own(t, msg, w))
<1> DEFINE own == Own(t, msg, w)
<1>1. own = {i \in DOMAIN elog : elog[i].t = t /\ elog[i].msg = msg /\ elog[i].user \in {w}}
  BY DEF Own, By, About, Of
<1> HIDE DEF own
<1> QED
  BY <1>1, Zenon DEF Latest, LatestIn, own

(* Events of a list can be counted. *)
LEMMA Countable ==
  ASSUME NEW events \in Seq(Events), NEW its \in SUBSET DOMAIN events, NEW kind
  PROVE  IsFiniteSet({i \in its : events[i].kind = kind}) /\ CountOf(events, its, kind) \in Nat
<1> DEFINE T == {i \in its : events[i].kind = kind}
<1>1. IsFiniteSet(1..Len(events)) /\ DOMAIN events = 1..Len(events)
  BY FS_Interval
<1>2. T \in SUBSET (1..Len(events))
  BY <1>1
<1> HIDE DEF T
<1>3. IsFiniteSet(T)
  BY <1>1, <1>2, FS_Subset
<1> QED
  BY <1>3, FS_CardinalityType DEF T, CountOf

(* What is appended changes nothing of what was there. *)
LEMMA AppendedElsewhere ==
  ASSUME NEW events \in Seq(Events), NEW e \in Events, NEW its \in SUBSET DOMAIN events, Alternating(events, its)
  PROVE  Alternating(Append(events, e), its)
<1> DEFINE longer == Append(events, e)
<1>1. \A i \in its : longer[i] = events[i]
  OBVIOUS
<1> HIDE DEF longer
<1>2. \A kind : CountOf(longer, its, kind) = CountOf(events, its, kind)
  <2> SUFFICES ASSUME NEW kind PROVE CountOf(longer, its, kind) = CountOf(events, its, kind)
    OBVIOUS
  <2>1. {i \in its : longer[i].kind = kind} = {i \in its : events[i].kind = kind}
    BY <1>1
  <2> QED
    BY <2>1, Zenon DEF CountOf
<1>3. LatestIn(longer, its) = LatestIn(events, its)
  <2>1. \A i, j \in its : NotAfter(longer, j, i) <=> NotAfter(events, j, i)
    BY <1>1 DEF NotAfter
  <2>2. {i \in its : \A j \in its : NotAfter(longer, j, i)} = {i \in its : \A j \in its : NotAfter(events, j, i)}
    BY <2>1
  <2> QED
    BY <1>1, <2>2 DEF LatestIn
<1>4. Alternating(longer, its)
  BY <1>2, <1>3 DEF Alternating
<1> QED
  BY <1>4 DEF longer

(* The opposite of what counts as one's own, stamped no earlier than all of it. *)
LEMMA AppendedOpposite ==
  ASSUME NEW events \in Seq(Events), NEW e \in Events, NEW its \in SUBSET DOMAIN events, Alternating(events, its),
         e.kind = Toggle(events, its), \A i \in its : events[i].ts <= e.ts
  PROVE  Alternating(Append(events, e), its \cup {Len(events) + 1})
<1> DEFINE longer == Append(events, e)
<1> DEFINE n == Len(events) + 1
<1> DEFINE more == its \cup {n}
<1>1. n \in Nat /\ (\A i \in its : longer[i] = events[i] /\ i \in Nat /\ i < n) /\ longer[n] = e /\ n \notin its
  OBVIOUS
<1>2. \A i \in its : events[i] \in Events
  OBVIOUS
<1>3. \A kind : CountOf(events, its, kind) \in Nat /\ IsFiniteSet({i \in its : events[i].kind = kind})
  BY Countable
<1> HIDE DEF longer, n
<1>4. \A kind : CountOf(longer, more, kind) = CountOf(events, its, kind) + (IF e.kind = kind THEN 1 ELSE 0)
  <2> SUFFICES ASSUME NEW kind
               PROVE  CountOf(longer, more, kind) = CountOf(events, its, kind) + (IF e.kind = kind THEN 1 ELSE 0)
    OBVIOUS
  <2> DEFINE T == {i \in its : events[i].kind = kind}
  <2> DEFINE U == {i \in more : longer[i].kind = kind}
  <2>1. IsFiniteSet(T) /\ Cardinality(T) \in Nat
    BY <1>3 DEF CountOf
  <2>2. U = IF e.kind = kind THEN T \cup {n} ELSE T
    BY <1>1
  <2>3. n \notin T
    BY <1>1
  <2> HIDE DEF T, U
  <2>4. Cardinality(T \cup {n}) = Cardinality(T) + 1
    BY <2>1, <2>3, FS_AddElement
  <2>5. Cardinality(U) = Cardinality(T) + (IF e.kind = kind THEN 1 ELSE 0)
    BY <2>1, <2>2, <2>4
  <2> QED
    BY <2>5, Zenon DEF T, U, CountOf
<1>5. LatestIn(longer, more) = {e}
  <2>1. \A i \in its : events[i].ts \in Nat /\ e.ts \in Nat
    BY <1>2, EventFields
  <2>2. \A j \in more : NotAfter(longer, j, n)
    BY <1>1, <2>1, EventFields DEF NotAfter
  <2>3. \A i \in its : ~NotAfter(longer, n, i)
    BY <1>1, <2>1 DEF NotAfter
  <2>4. {i \in more : \A j \in more : NotAfter(longer, j, i)} = {n}
    BY <2>2, <2>3
  <2> HIDE DEF more
  <2> QED
    BY <1>1, <2>4 DEF LatestIn
<1> HIDE DEF more
<1>6. (\E x \in LatestIn(longer, more) : x.kind = "add") <=> e.kind = "add"
  BY <1>5
<1> DEFINE adds == CountOf(events, its, "add")
<1> DEFINE removes == CountOf(events, its, "remove")
<1>7. adds \in Nat /\ removes \in Nat /\ (adds = removes \/ adds = removes + 1)
  <2> DEFINE one == IF \E x \in LatestIn(events, its) : x.kind = "add" THEN 1 ELSE 0
  <2>1. adds = removes + one
    BY Zenon DEF Alternating
  <2>2. one = 0 \/ one = 1
    OBVIOUS
  <2>3. adds \in Nat /\ removes \in Nat
    BY <1>3
  <2> HIDE DEF one, adds, removes
  <2> QED
    BY <2>1, <2>2, <2>3
<1>8. e.kind = IF adds > removes THEN "remove" ELSE "add"
  BY Zenon DEF Toggle, CountOf
<1>9. /\ CountOf(longer, more, "add") = adds + (IF e.kind = "add" THEN 1 ELSE 0)
      /\ CountOf(longer, more, "remove") = removes + (IF e.kind = "remove" THEN 1 ELSE 0)
  BY <1>4
<1> HIDE DEF adds, removes
<1>10. Alternating(longer, more)
  <2>1. CASE adds > removes
    <3>1. e.kind = "remove" /\ e.kind # "add" /\ adds = removes + 1
      BY <1>7, <1>8, <2>1
    <3> QED
      BY <1>6, <1>7, <1>9, <3>1 DEF Alternating
  <2>2. CASE ~(adds > removes)
    <3>1. e.kind = "add" /\ e.kind # "remove" /\ adds = removes
      BY <1>7, <1>8, <2>2
    <3> QED
      BY <1>6, <1>7, <1>9, <3>1 DEF Alternating
  <2> QED
    BY <2>1, <2>2
<1> QED
  BY <1>10 DEF longer, more, n

(* The own reactions to a message in a log to which an event has been appended. *)
LEMMA OwnAppended ==
  ASSUME NEW events \in Seq(Events), NEW e \in Events, NEW t, NEW msg, NEW w
  PROVE  LET Mine(log) == By(log, About(log, t, msg), w)
         IN Mine(Append(events, e)) = IF e.t = t /\ e.msg = msg /\ e.user = w
                                      THEN Mine(events) \cup {Len(events) + 1} ELSE Mine(events)
<1> DEFINE longer == Append(events, e)
<1> DEFINE n == Len(events) + 1
<1>1. /\ n \in Nat /\ n \notin DOMAIN events /\ DOMAIN longer = (DOMAIN events) \cup {n}
      /\ longer[n] = e /\ \A i \in DOMAIN events : longer[i] = events[i]
  OBVIOUS
<1> HIDE DEF longer, n
<1>2. By(longer, About(longer, t, msg), w)
        = {i \in DOMAIN longer : longer[i].t = t /\ longer[i].msg = msg /\ longer[i].user = w}
  BY DEF By, About, Of
<1>3. By(events, About(events, t, msg), w)
        = {i \in DOMAIN events : events[i].t = t /\ events[i].msg = msg /\ events[i].user = w}
  BY DEF By, About, Of
<1>4. CASE e.t = t /\ e.msg = msg /\ e.user = w
  BY <1>1, <1>2, <1>3, <1>4 DEF longer, n
<1>5. CASE ~(e.t = t /\ e.msg = msg /\ e.user = w)
  BY <1>1, <1>2, <1>3, <1>5 DEF longer
<1> QED
  BY <1>4, <1>5

(* A screen that has loaded all one's own reactions counts as the whole log does. *)
LEMMA LoadedCounts ==
  ASSUME NEW events \in Seq(Events), NEW n \in 0..Len(events), NEW msg, NEW user,
         \A i \in By(events, About(events, "reaction", msg), user) : i <= n
  PROVE  reactionToggleEvent(SubSeq(events, 1, n), msg, user)
            = Toggle(events, By(events, About(events, "reaction", msg), user))
<1> DEFINE loaded == SubSeq(events, 1, n)
<1> DEFINE own == By(events, About(events, "reaction", msg), user)
<1> DEFINE seen == By(loaded, About(loaded, "reaction", msg), user)
<1>1. DOMAIN loaded = 1..n /\ \A i \in 1..n : loaded[i] = events[i]
  OBVIOUS
<1>2. DOMAIN events = 1..Len(events) /\ Len(events) \in Nat
  OBVIOUS
<1>3. own = {i \in DOMAIN events : events[i].t = "reaction" /\ events[i].msg = msg /\ events[i].user = user}
  BY DEF By, About, Of
<1> HIDE DEF loaded
<1>4. seen = {i \in DOMAIN loaded : loaded[i].t = "reaction" /\ loaded[i].msg = msg /\ loaded[i].user = user}
  BY DEF By, About, Of
<1>5. \A i \in own : i <= n
  OBVIOUS
<1> HIDE DEF own, seen
<1>6. seen = own /\ \A i \in own : loaded[i] = events[i]
  BY <1>1, <1>2, <1>3, <1>4, <1>5
<1>7. \A kind : {i \in seen : loaded[i].kind = kind} = {i \in own : events[i].kind = kind}
  BY <1>6
<1>8. Toggle(loaded, seen) = Toggle(events, own)
  BY <1>7, Zenon DEF Toggle
<1> QED
  BY <1>8, Zenon DEF reactionToggleEvent, loaded, seen, own

(* The adds and removals of whoever has not crossed alternate. *)
Tapped ==
    \A user \in Readers, msg \in MessageIds :
        <<user, msg>> \notin crossed => Alternating(elog, Own("reaction", msg, user))

ViewInv == MessageViewTypeOK /\ Tapped

(* Nobody has reacted to begin with. *)
LEMMA InitView == MessageViewInit => ViewInv
<1> SUFFICES ASSUME MessageViewInit PROVE ViewInv
  OBVIOUS
<1>1. elog = <<>> /\ crossed = {} /\ elog \in Seq(Events)
  BY DEF MessageViewInit
<1>2. ASSUME NEW user \in Readers, NEW msg \in MessageIds PROVE Alternating(elog, Own("reaction", msg, user))
  <2> DEFINE own == Own("reaction", msg, user)
  <2>1. own = {}
    BY <1>1 DEF Own, By, About, Of
  <2> HIDE DEF own
  <2>2. \A kind : CountOf(elog, own, kind) = 0
    <3> SUFFICES ASSUME NEW kind PROVE CountOf(elog, own, kind) = 0
      OBVIOUS
    <3>1. {i \in own : elog[i].kind = kind} = {}
      BY <2>1
    <3> QED
      BY <3>1, FS_EmptySet, Zenon DEF CountOf
  <2>3. LatestIn(elog, own) = {}
    BY <2>1 DEF LatestIn
  <2>4. Alternating(elog, own)
    BY <2>2, <2>3 DEF Alternating
  <2> QED
    BY <2>4 DEF own
<1> QED
  BY <1>1, <1>2 DEF ViewInv, MessageViewTypeOK, Tapped

(* An event is made of its fields. *)
LEMMA EventOf ==
  ASSUME NEW t \in DOMAIN KindsOf, NEW msg \in MessageIds, NEW user \in Readers, NEW kind \in KindsOf[t],
         NEW ts \in 1..MaxTime
  PROVE  [t |-> t, msg |-> msg, user |-> user, kind |-> kind, ts |-> ts] \in Events
<1>1. [t |-> t, msg |-> msg, user |-> user, kind |-> kind, ts |-> ts]
        \in [t : {t}, msg : MessageIds, user : Readers, kind : KindsOf[t], ts : 1..MaxTime]
  OBVIOUS
<1> QED
  BY <1>1 DEF Events

LEMMA KindsKnown ==
  /\ DOMAIN KindsOf = {"reaction", "edit", "pin"}
  /\ KindsOf["reaction"] = {"add", "remove"} /\ KindsOf.edit = KindsOf["edit"] /\ KindsOf.pin = KindsOf["pin"]
  BY DEF KindsOf

(* An event leaves the reactions of those alone who did not write it, or not to this
   message, or did not react. *)
LEMMA OthersAlternate ==
  ASSUME ViewInv, NEW e \in Events, elog' = Append(elog, e), NEW user \in Readers, NEW msg \in MessageIds,
         <<user, msg>> \notin crossed, ~(e.t = "reaction" /\ e.msg = msg /\ e.user = user)
  PROVE  Alternating(elog, Own("reaction", msg, user))'
<1> DEFINE own == By(elog, About(elog, "reaction", msg), user)
<1>1. elog \in Seq(Events) /\ Alternating(elog, own) /\ own \in SUBSET DOMAIN elog
  BY DEF ViewInv, MessageViewTypeOK, Tapped, Own, By, About, Of
<1>2. By(Append(elog, e), About(Append(elog, e), "reaction", msg), user) = own
  BY <1>1, OwnAppended
<1> HIDE DEF own
<1>3. Alternating(Append(elog, e), own)
  BY <1>1, AppendedElsewhere
<1> QED
  BY <1>2, <1>3, Zenon DEF Own

(* A step keeps the invariant: an event that is appended is either that of somebody
   else, or the opposite of what counts as one's own. *)
LEMMA NextView == ViewInv /\ [MessageViewNext]_viewvars => ViewInv'
<1> SUFFICES ASSUME ViewInv, [MessageViewNext]_viewvars PROVE ViewInv'
  OBVIOUS
<1>1. elog \in Seq(Events) /\ crossed \subseteq Readers \X MessageIds
  BY DEF ViewInv, MessageViewTypeOK
<1>2. ASSUME NEW e \in Events, elog' = Append(elog, e), e.t # "reaction", UNCHANGED crossed PROVE ViewInv'
  <2>1. MessageViewTypeOK'
    BY <1>1, <1>2 DEF MessageViewTypeOK
  <2>2. ASSUME NEW user \in Readers, NEW msg \in MessageIds, <<user, msg>> \notin crossed'
        PROVE  Alternating(elog, Own("reaction", msg, user))'
    <3>1. <<user, msg>> \notin crossed /\ ~(e.t = "reaction" /\ e.msg = msg /\ e.user = user)
      BY <1>2, <2>2
    <3> QED
      BY <1>2, <3>1, OthersAlternate
  <2> QED
    BY <2>1, <2>2 DEF ViewInv, Tapped
<1>3. ASSUME NEW user \in Readers, NEW msg \in MessageIds, NEW ts \in 1..MaxTime, NEW n \in 0..Len(elog),
             toggleReaction(user, msg, n, ts)
      PROVE  ViewInv'
  <2> DEFINE kind == reactionToggleEvent(SubSeq(elog, 1, n), msg, user)
  <2> DEFINE e == [t |-> "reaction", msg |-> msg, user |-> user, kind |-> kind, ts |-> ts]
  <2> DEFINE crosses == \E i \in DOMAIN elog : /\ elog[i].t = "reaction" /\ elog[i].msg = msg /\ elog[i].user = user
                                               /\ i > n \/ elog[i].ts > ts
  <2>1. elog' = Append(elog, e) /\ crossed' = IF crosses THEN crossed \cup {<<user, msg>>} ELSE crossed
    BY <1>3, Zenon DEF toggleReaction, EventAppended
  <2>2. e \in Events
    <3>1. kind \in {"add", "remove"}
      BY DEF reactionToggleEvent, Toggle
    <3> HIDE DEF kind
    <3> QED
      BY <3>1, EventOf, KindsKnown
  <2>3. e.t = "reaction" /\ e.msg = msg /\ e.user = user /\ e.kind = kind /\ e.ts = ts
    OBVIOUS
  <2> HIDE DEF e, crosses
  <2>4. MessageViewTypeOK'
    BY <1>1, <2>1, <2>2 DEF MessageViewTypeOK
  <2>5. ASSUME NEW u \in Readers, NEW m \in MessageIds, <<u, m>> \notin crossed'
        PROVE  Alternating(elog, Own("reaction", m, u))'
    <3>1. <<u, m>> \notin crossed
      BY <2>1, <2>5
    <3>2. CASE ~(m = msg /\ u = user)
      BY <2>1, <2>2, <2>3, <3>1, <3>2, OthersAlternate
    <3>3. CASE m = msg /\ u = user
      <4> DEFINE own == By(elog, About(elog, "reaction", msg), user)
      <4>1. ~crosses
        BY <2>1, <2>5, <3>3
      <4>2. own = {i \in DOMAIN elog : elog[i].t = "reaction" /\ elog[i].msg = msg /\ elog[i].user = user}
        BY DEF By, About, Of
      <4>3. Alternating(elog, own)
        BY <3>1, <3>3 DEF ViewInv, Tapped, Own
      <4>4. By(Append(elog, e), About(Append(elog, e), "reaction", msg), user) = own \cup {Len(elog) + 1}
        BY <1>1, <2>2, <2>3, OwnAppended
      <4> HIDE DEF own
      <4>5. \A i \in own : i \in Nat /\ elog[i] \in Events /\ i <= n /\ elog[i].ts <= ts
        <5> SUFFICES ASSUME NEW i \in own PROVE i \in Nat /\ elog[i] \in Events /\ i <= n /\ elog[i].ts <= ts
          OBVIOUS
        <5>1. i \in DOMAIN elog /\ ~(i > n \/ elog[i].ts > ts)
          BY <4>1, <4>2 DEF crosses
        <5>2. i \in Nat /\ elog[i] \in Events
          BY <1>1, <5>1
        <5>3. elog[i].ts \in Nat
          BY <5>2, EventFields
        <5> QED
          BY <1>1, <5>1, <5>2, <5>3
      <4>6. kind = Toggle(elog, own)
        <5>1. \A i \in By(elog, About(elog, "reaction", msg), user) : i <= n
          BY <4>5 DEF own
        <5> QED
          BY <1>1, <5>1, LoadedCounts DEF own
      <4>7. own \in SUBSET DOMAIN elog /\ \A i \in own : elog[i].ts <= e.ts
        BY <2>3, <4>2, <4>5
      <4>8. e.kind = Toggle(elog, own)
        BY <2>3, <4>6
      <4>9. Alternating(Append(elog, e), own \cup {Len(elog) + 1})
        BY <1>1, <2>2, <4>3, <4>7, <4>8, AppendedOpposite
      <4> QED
        BY <2>1, <3>3, <4>4, <4>9, Zenon DEF Own
    <3> QED
      BY <3>2, <3>3
  <2> QED
    BY <2>4, <2>5 DEF ViewInv, Tapped
<1>4. ASSUME NEW user \in Readers, NEW msg \in MessageIds, NEW ts \in 1..MaxTime, NEW kind \in KindsOf.edit,
             editMessage(user, msg, kind, ts)
      PROVE  ViewInv'
  <2> DEFINE e == [t |-> "edit", msg |-> msg, user |-> user, kind |-> kind, ts |-> ts]
  <2>1. e \in Events
    BY EventOf, KindsKnown
  <2>2. elog' = Append(elog, e) /\ e.t # "reaction" /\ UNCHANGED crossed
    BY <1>4 DEF editMessage, EventAppended
  <2> QED
    BY <1>2, <2>1, <2>2
<1>5. ASSUME NEW user \in Readers, NEW msg \in MessageIds, NEW ts \in 1..MaxTime, NEW kind \in KindsOf.pin,
             pinMessage(user, msg, kind, ts)
      PROVE  ViewInv'
  <2> DEFINE e == [t |-> "pin", msg |-> msg, user |-> user, kind |-> kind, ts |-> ts]
  <2>1. e \in Events
    BY EventOf, KindsKnown
  <2>2. elog' = Append(elog, e) /\ e.t # "reaction" /\ UNCHANGED crossed
    BY <1>5 DEF pinMessage, EventAppended
  <2> QED
    BY <1>2, <2>1, <2>2
<1>6. CASE UNCHANGED viewvars
  BY <1>6 DEF viewvars, ViewInv, MessageViewTypeOK, Tapped, Own
<1> QED
  BY <1>3, <1>4, <1>5, <1>6 DEF MessageViewNext

(* The invariant holds in every state. *)
LEMMA ViewInvariant == MessageViewSpec => []ViewInv
  BY InitView, NextView, PTL DEF MessageViewSpec

(* Type correctness of the log of events. *)
THEOREM ViewTypes == MessageViewSpec => []MessageViewTypeOK
<1>1. ViewInv => MessageViewTypeOK
  BY DEF ViewInv
<1> QED
  BY <1>1, ViewInvariant, PTL

(* Row by row or from the index, a screen shows the same, and it is what the latest event
   of each one says who has a say in it. *)
THEOREM OneView == MessageViewSpec => []FoldsAgree
<1>1. ViewInv => FoldsAgree
  BY Agree DEF ViewInv, MessageViewTypeOK
<1> QED
  BY <1>1, ViewInvariant, PTL

(* A tap that counts adds and removals is the opposite of what the screen shows, until own
   reactions to the message cross. *)
THEOREM TapsToggle == MessageViewSpec => []TapIsOpposite
<1>1. ViewInv => TapIsOpposite
  <2> SUFFICES ASSUME ViewInv, NEW user \in Readers, NEW msg \in MessageIds, <<user, msg>> \notin crossed
               PROVE  (reactionToggleEvent(elog, msg, user) = "remove") = (user \in aggregateReactions(elog, msg))
    BY DEF TapIsOpposite
  <2> DEFINE own == Own("reaction", msg, user)
  <2> DEFINE last == \E e \in Latest("reaction", msg, {user}) : e.kind = "add"
  <2>1. elog \in Seq(Events) /\ own \in SUBSET DOMAIN elog /\ Alternating(elog, own)
    BY Numbers DEF ViewInv, MessageViewTypeOK, Tapped
  <2>2. reactionToggleEvent(elog, msg, user) = Toggle(elog, own)
    BY Zenon DEF reactionToggleEvent, Own
  <2>3. user \in aggregateReactions(elog, msg) <=> last
    BY <2>1, ReactionsLatest
  <2>4. CountOf(elog, own, "add") = CountOf(elog, own, "remove") + (IF last THEN 1 ELSE 0)
    BY <2>1, LatestOwn, Zenon DEF Alternating
  <2>5. CountOf(elog, own, "add") \in Nat /\ CountOf(elog, own, "remove") \in Nat
    BY <2>1, Countable
  <2> HIDE DEF own, last
  <2>6. Toggle(elog, own) = IF CountOf(elog, own, "add") > CountOf(elog, own, "remove") THEN "remove" ELSE "add"
    BY Zenon DEF Toggle, CountOf
  <2>7. Toggle(elog, own) = "remove" <=> last
    BY <2>4, <2>5, <2>6
  <2> DEFINE removes == reactionToggleEvent(elog, msg, user) = "remove"
  <2> DEFINE shown == user \in aggregateReactions(elog, msg)
  <2>8. removes \in BOOLEAN
    OBVIOUS
  <2>9. shown \in BOOLEAN
    OBVIOUS
  <2>10. removes <=> shown
    BY <2>2, <2>3, <2>7
  <2> HIDE DEF removes, shown
  <2>11. removes = shown
    BY <2>8, <2>9, <2>10
  <2> QED
    BY <2>11 DEF removes, shown
<1> QED
  BY <1>1, ViewInvariant, PTL
=============================================================================
