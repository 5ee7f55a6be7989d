----------------------------- MODULE CronProofs -----------------------------
(***************************************************************************)
(* Proofs about the search of nextRun, for every calendar and every set of *)
(* expressions.  That the search ends is checked by TLC only.              *)
(***************************************************************************)
EXTENDS Cron, TLAPS

SameDate(a, b) == a.year = b.year /\ a.month = b.month /\ a.day = b.day

(* An instant is a date that exists, with a time.                          *)
LEMMA InstantIsValid ==
  ASSUME NEW t \in Instants
  PROVE  t \in Fields /\ t.day <= DaysIn(t.year, t.month) /\ DaysIn(t.year, t.month) \in Int
<1>1. t \in [year : Years, month : Months, day : 1 .. LongestMonth, hour : Hours, minute : Minutes]
  BY DEF Instants
<1>2. t.day <= DaysIn(t.year, t.month)
  BY DEF Instants, Valid
<1>3. Years \subseteq Int /\ 1 .. LongestMonth \subseteq Nat \ {0}
  BY CalendarAssumption
<1>4. t \in Fields
  BY <1>1, <1>3 DEF Fields
<1>5. t.year \in Years /\ t.month \in 1 .. MonthsPerYear
  BY <1>1 DEF Months
<1>6. DaysIn(t.year, t.month) \in 1 .. LongestMonth
  BY <1>5, CalendarAssumption
<1> QED
  BY <1>2, <1>4, <1>6, CalendarAssumption

LEMMA AtIsField ==
  ASSUME NEW year \in Int, NEW month \in Months, NEW day \in Nat \ {0},
         NEW hour \in Hours, NEW minute \in Minutes
  PROVE  At(year, month, day, hour, minute) \in Fields
BY DEF At, Fields

LEMMA FieldTypes ==
  ASSUME NEW t \in Fields
  PROVE  /\ t.year \in Int /\ t.month \in Months /\ t.day \in Nat \ {0}
         /\ t.hour \in Hours /\ t.minute \in Minutes
         /\ Months \subseteq Nat \ {0} /\ Hours \subseteq Nat /\ Minutes \subseteq Nat
         /\ 1 \in Months /\ 0 \in Hours /\ 0 \in Minutes
BY CalendarAssumption DEF Fields, Months, Hours, Minutes

(* The first minute of the next day comes later, and every instant before  *)
(* it is earlier than t or on the same day.                                *)
LEMMA NextDateIsNext ==
  ASSUME NEW t \in Fields
  PROVE  /\ NextDate(t) \in Fields
         /\ NextDate(t).hour = 0 /\ NextDate(t).minute = 0
         /\ Before(t, NextDate(t))
         /\ \A u \in Instants : Before(u, NextDate(t)) => Before(u, t) \/ SameDate(u, t)
<1> DEFINE last == ~(t.day < DaysIn(t.year, t.month))
<1>1. CASE ~last
  <2>1. NextDate(t) = At(t.year, t.month, t.day + 1, 0, 0)
    BY <1>1 DEF NextDate
  <2>2. t.day + 1 \in Nat \ {0}
    BY FieldTypes
  <2>3. NextDate(t) \in Fields
    BY <2>1, <2>2, FieldTypes, AtIsField
  <2>4. ASSUME NEW u \in Instants, Before(u, NextDate(t)) PROVE Before(u, t) \/ SameDate(u, t)
    BY <2>1, <2>4, FieldTypes, InstantIsValid DEF At, Before, SameDate
  <2> QED
    BY <2>1, <2>3, <2>4, FieldTypes DEF At, Before
<1>2. CASE last /\ t.month < MonthsPerYear
  <2>1. NextDate(t) = At(t.year, t.month + 1, 1, 0, 0)
    BY <1>2 DEF NextDate
  <2>2. t.month + 1 \in Months
    BY <1>2, FieldTypes, CalendarAssumption DEF Months
  <2>3. NextDate(t) \in Fields
    BY <2>1, <2>2, FieldTypes, AtIsField
  <2>4. ASSUME NEW u \in Instants, Before(u, NextDate(t)) PROVE Before(u, t) \/ SameDate(u, t)
    <3>1. u \in Fields /\ u.day <= DaysIn(u.year, u.month)
      BY InstantIsValid
    <3>2. CASE u.year = t.year /\ u.month = t.month
      <4>1. u.day <= DaysIn(t.year, t.month) /\ DaysIn(t.year, t.month) \in Int
        BY <3>2, InstantIsValid
      <4>2. u.day <= t.day
        BY <4>1, <3>1, <1>2, FieldTypes
      <4> QED
        BY <4>2, <3>1, <3>2, FieldTypes DEF Before, SameDate
    <3>3. CASE ~(u.year = t.year /\ u.month = t.month)
      BY <2>1, <2>4, <3>1, <3>3, FieldTypes DEF At, Before
    <3> QED
      BY <3>2, <3>3
  <2> QED
    BY <2>1, <2>3, <2>4, FieldTypes DEF At, Before
<1>3. CASE last /\ ~(t.month < MonthsPerYear)
  <2>1. NextDate(t) = At(t.year + 1, 1, 1, 0, 0)
    BY <1>3 DEF NextDate
  <2>2. t.year + 1 \in Int
    BY FieldTypes
  <2>3. NextDate(t) \in Fields
    BY <2>1, <2>2, FieldTypes, AtIsField
  <2>4. ASSUME NEW u \in Instants, Before(u, NextDate(t)) PROVE Before(u, t) \/ SameDate(u, t)
    <3>1. u \in Fields /\ u.day <= DaysIn(u.year, u.month)
      BY InstantIsValid
    <3>2. CASE u.year = t.year /\ u.month = t.month
      <4>1. u.day <= DaysIn(t.year, t.month) /\ DaysIn(t.year, t.month) \in Int
        BY <3>2, InstantIsValid
      <4>2. u.day <= t.day
        BY <4>1, <3>1, <1>3, FieldTypes
      <4> QED
        BY <4>2, <3>1, <3>2, FieldTypes DEF Before, SameDate
    <3>3. CASE ~(u.year = t.year /\ u.month = t.month)
      <4>1. u.month <= t.month
        BY <3>1, <1>3, FieldTypes, CalendarAssumption DEF Months
      <4> QED
        BY <2>1, <2>4, <3>1, <3>3, <4>1, FieldTypes DEF At, Before
    <3> QED
      BY <3>2, <3>3
  <2> QED
    BY <2>1, <2>3, <2>4, FieldTypes DEF At, Before
<1> QED
  BY <1>1, <1>2, <1>3

LEMMA BeforeTransitive ==
  ASSUME NEW a \in Fields, NEW b \in Fields, NEW c \in Fields, Before(a, b), Before(b, c)
  PROVE  Before(a, c)
BY FieldTypes DEF Before

LEMMA BeforeTotal ==
  ASSUME NEW a \in Fields, NEW b \in Fields, NEW c \in Fields, ~Before(a, b), Before(a, c)
  PROVE  Before(b, c)
BY FieldTypes DEF Before

(* The same for the first minute of the next hour ...                      *)
LEMMA NextHourIsNext ==
  ASSUME NEW t \in Fields
  PROVE  /\ NextHour(t) \in Fields
         /\ Before(t, NextHour(t))
         /\ \A u \in Instants : Before(u, NextHour(t)) =>
              Before(u, t) \/ (SameDate(u, t) /\ u.hour = t.hour)
<1>1. CASE t.hour + 1 < HoursPerDay
  <2>1. NextHour(t) = At(t.year, t.month, t.day, t.hour + 1, 0)
    BY <1>1 DEF NextHour
  <2>2. t.hour + 1 \in Hours
    BY <1>1, FieldTypes, CalendarAssumption DEF Hours
  <2>3. NextHour(t) \in Fields
    BY <2>1, <2>2, FieldTypes, AtIsField
  <2> QED
    BY <2>1, <2>3, FieldTypes, InstantIsValid DEF At, Before, SameDate
<1>2. CASE ~(t.hour + 1 < HoursPerDay)
  <2>1. NextHour(t) = NextDate(t)
    BY <1>2 DEF NextHour
  <2>2. ASSUME NEW u \in Instants, Before(u, NextDate(t))
        PROVE  Before(u, t) \/ (SameDate(u, t) /\ u.hour = t.hour)
    <3>1. Before(u, t) \/ SameDate(u, t)
      BY <2>2, NextDateIsNext
    <3>2. u.hour <= t.hour
      BY <1>2, InstantIsValid, FieldTypes, CalendarAssumption DEF Hours
    <3> QED
      BY <3>1, <3>2, InstantIsValid, FieldTypes DEF Before, SameDate
  <2> QED
    BY <2>1, <2>2, NextDateIsNext
<1> QED
  BY <1>1, <1>2

(* ... and for the next minute: no instant lies between it and t.          *)
LEMMA NextMinuteIsNext ==
  ASSUME NEW t \in Fields
  PROVE  /\ NextMinute(t) \in Fields
         /\ Before(t, NextMinute(t))
         /\ \A u \in Instants : Before(u, NextMinute(t)) => ~Before(t, u)
<1>1. CASE t.minute + 1 < MinutesPerHour
  <2>1. NextMinute(t) = At(t.year, t.month, t.day, t.hour, t.minute + 1)
    BY <1>1 DEF NextMinute
  <2>2. t.minute + 1 \in Minutes
    BY <1>1, FieldTypes, CalendarAssumption DEF Minutes
  <2>3. NextMinute(t) \in Fields
    BY <2>1, <2>2, FieldTypes, AtIsField
  <2> QED
    BY <2>1, <2>3, FieldTypes, InstantIsValid DEF At, Before
<1>2. CASE ~(t.minute + 1 < MinutesPerHour)
  <2>1. NextMinute(t) = NextHour(t)
    BY <1>2 DEF NextMinute
  <2>2. ASSUME NEW u \in Instants, Before(u, NextHour(t))
        PROVE  ~Before(t, u)
    <3>1. Before(u, t) \/ (SameDate(u, t) /\ u.hour = t.hour)
      BY <2>2, NextHourIsNext
    <3>2. u.minute <= t.minute
      BY <1>2, InstantIsValid, FieldTypes, CalendarAssumption DEF Minutes
    <3> QED
      BY <3>1, <3>2, InstantIsValid, FieldTypes DEF Before, SameDate
  <2> QED
    BY <2>1, <2>2, NextHourIsNext
<1> QED
  BY <1>1, <1>2

-----------------------------------------------------------------------------
(* One jump of the cursor: it goes forward, and the instants it passes do  *)
(* not match.                                                              *)
GoodJump(s, c, d) ==
  /\ d \in Fields
  /\ Before(c, d)
  /\ \A u \in Instants : ~Before(u, c) /\ Before(u, d) => ~Matches(s, u)

LEMMA SameDaySameMatch ==
  ASSUME NEW s, NEW t, NEW u, SameDate(t, u), DayMatches(s, t)
  PROVE  DayMatches(s, u)
BY DEF SameDate, DayMatches

LEMMA MonthJump ==
  ASSUME NEW s, NEW c \in Fields, c.month \notin s.months, NEW m \in Months,
         NEW d,
         \/ FirstAfter(s.months, c.month, m) /\ d = At(c.year, m, 1, 0, 0)
         \/ /\ \A x \in s.months : x <= c.month
            /\ FirstAfter(s.months, 0, m)
            /\ d = At(c.year + 1, m, 1, 0, 0)
  PROVE  GoodJump(s, c, d)
<1> USE FieldTypes
<1>1. CASE FirstAfter(s.months, c.month, m) /\ d = At(c.year, m, 1, 0, 0)
  <2>1. d \in Fields
    BY <1>1, AtIsField
  <2>2. Before(c, d)
    BY <1>1 DEF FirstAfter, At, Before
  <2>3. ASSUME NEW u \in Instants, ~Before(u, c), Before(u, d) PROVE u.month \notin s.months
    <3>1. u \in Fields
      BY InstantIsValid
    <3>2. u.year = c.year /\ c.month <= u.month /\ u.month < m
      BY <1>1, <2>3, <3>1 DEF At, Before
    <3> QED
      BY <1>1, <3>1, <3>2 DEF FirstAfter
  <2> QED
    BY <2>1, <2>2, <2>3 DEF GoodJump, Matches
<1>2. CASE /\ \A x \in s.months : x <= c.month
           /\ FirstAfter(s.months, 0, m)
           /\ d = At(c.year + 1, m, 1, 0, 0)
  <2>1. d \in Fields
    BY <1>2, AtIsField
  <2>2. Before(c, d)
    BY <1>2 DEF At, Before
  <2>3. ASSUME NEW u \in Instants, ~Before(u, c), Before(u, d) PROVE u.month \notin s.months
    <3>1. u \in Fields
      BY InstantIsValid
    <3>2. \/ u.year = c.year /\ c.month <= u.month
          \/ u.month < m
      BY <1>2, <2>3, <3>1 DEF At, Before
    <3> QED
      BY <1>2, <3>1, <3>2 DEF FirstAfter
  <2> QED
    BY <2>1, <2>2, <2>3 DEF GoodJump, Matches
<1> QED
  BY <1>1, <1>2

LEMMA DayJump ==
  ASSUME NEW s, NEW c \in Fields, ~DayMatches(s, c)
  PROVE  GoodJump(s, c, NextDate(c))
<1>1. ASSUME NEW u \in Instants, ~Before(u, c), Before(u, NextDate(c)) PROVE ~Matches(s, u)
  <2>1. SameDate(u, c)
    BY <1>1, NextDateIsNext
  <2>2. ~DayMatches(s, u)
    BY <2>1, SameDaySameMatch
  <2> QED
    BY <2>2 DEF Matches
<1> QED
  BY <1>1, NextDateIsNext DEF GoodJump

LEMMA HourJump ==
  ASSUME NEW s, NEW c \in Fields, c.hour \notin s.hours, NEW h \in Hours,
         NEW d,
         \/ FirstAfter(s.hours, c.hour, h) /\ d = At(c.year, c.month, c.day, h, 0)
         \/ /\ \A x \in s.hours : x <= c.hour
            /\ FirstAfter(s.hours, -1, h)
            /\ d = LET next == NextDate(c) IN At(next.year, next.month, next.day, h, 0)
  PROVE  GoodJump(s, c, d)
<1> USE FieldTypes
<1>1. CASE FirstAfter(s.hours, c.hour, h) /\ d = At(c.year, c.month, c.day, h, 0)
  <2>1. d \in Fields
    BY <1>1, AtIsField
  <2>2. Before(c, d)
    BY <1>1 DEF FirstAfter, At, Before
  <2>3. ASSUME NEW u \in Instants, ~Before(u, c), Before(u, d) PROVE u.hour \notin s.hours
    <3>1. u \in Fields
      BY InstantIsValid
    <3>2. c.hour <= u.hour /\ u.hour < h
      BY <1>1, <2>3, <3>1 DEF At, Before
    <3> QED
      BY <1>1, <3>1, <3>2 DEF FirstAfter
  <2> QED
    BY <2>1, <2>2, <2>3 DEF GoodJump, Matches
<1>2. CASE /\ \A x \in s.hours : x <= c.hour
           /\ FirstAfter(s.hours, -1, h)
           /\ d = LET next == NextDate(c) IN At(next.year, next.month, next.day, h, 0)
  <2> DEFINE next == NextDate(c)
  <2>1. next \in Fields /\ next.hour = 0 /\ next.minute = 0 /\ Before(c, next)
    BY NextDateIsNext
  <2>2. d = At(next.year, next.month, next.day, h, 0)
    BY <1>2
  <2>3. d \in Fields
    BY <2>1, <2>2, AtIsField
  <2> HIDE DEF next
  <2>4. Before(c, d)
    BY <2>1, <2>2 DEF At, Before
  <2>5. ASSUME NEW u \in Instants, ~Before(u, c), Before(u, d) PROVE u.hour \notin s.hours
    <3>1. u \in Fields
      BY InstantIsValid
    <3>2. CASE Before(u, next)
      <4>1. SameDate(u, c)
        BY <2>5, <3>2, NextDateIsNext DEF next
      <4>2. c.hour <= u.hour
        BY <2>5, <3>1, <4>1 DEF SameDate, Before
      <4> QED
        BY <1>2, <3>1, <4>2
    <3>3. CASE ~Before(u, next)
      <4>1. u.hour < h
        BY <2>1, <2>2, <2>5, <3>1, <3>3 DEF At, Before
      <4> QED
        BY <1>2, <3>1, <4>1 DEF FirstAfter
    <3> QED
      BY <3>2, <3>3
  <2> QED
    BY <2>3, <2>4, <2>5 DEF GoodJump, Matches
<1> QED
  BY <1>1, <1>2

LEMMA MinuteJump ==
  ASSUME NEW s, NEW c \in Fields, c.minute \notin s.minutes, NEW d,
         \/ \E m \in Minutes : /\ FirstAfter(s.minutes, c.minute, m)
                               /\ d = At(c.year, c.month, c.day, c.hour, m)
         \/ (\A x \in s.minutes : x <= c.minute) /\ d = NextHour(c)
  PROVE  GoodJump(s, c, d)
<1> USE FieldTypes
<1>1. ASSUME NEW m \in Minutes, FirstAfter(s.minutes, c.minute, m),
             d = At(c.year, c.month, c.day, c.hour, m)
      PROVE  GoodJump(s, c, d)
  <2>1. d \in Fields
    BY <1>1, AtIsField
  <2>2. Before(c, d)
    BY <1>1 DEF FirstAfter, At, Before
  <2>3. ASSUME NEW u \in Instants, ~Before(u, c), Before(u, d) PROVE u.minute \notin s.minutes
    <3>1. u \in Fields
      BY InstantIsValid
    <3>2. c.minute <= u.minute /\ u.minute < m
      BY <1>1, <2>3, <3>1 DEF At, Before
    <3> QED
      BY <1>1, <3>1, <3>2 DEF FirstAfter
  <2> QED
    BY <2>1, <2>2, <2>3 DEF GoodJump, Matches
<1>2. CASE (\A x \in s.minutes : x <= c.minute) /\ d = NextHour(c)
  <2>1. ASSUME NEW u \in Instants, ~Before(u, c), Before(u, d) PROVE u.minute \notin s.minutes
    <3>1. u \in Fields /\ SameDate(u, c) /\ u.hour = c.hour
      BY <1>2, <2>1, InstantIsValid, NextHourIsNext
    <3>2. c.minute <= u.minute
      BY <2>1, <3>1 DEF SameDate, Before
    <3> QED
      BY <1>2, <3>1, <3>2
  <2> QED
    BY <1>2, <2>1, NextHourIsNext DEF GoodJump, Matches
<1> QED
  BY <1>1, <1>2

-----------------------------------------------------------------------------
(* Parsing                                                                 *)

LEMMA StepsAreMultiples ==
  ASSUME NEW step \in Nat \ {0}, NEW n \in Nat
  PROVE  /\ n % step = 0 => \E k \in 0 .. n : n = k * step
         /\ \A k \in Nat : n = k * step => n % step = 0
<1>1. n % step = 0 => \E k \in 0 .. n : n = k * step
  OBVIOUS
<1>2. ASSUME NEW k \in Nat, n = k * step PROVE n % step = 0
  BY <1>2
<1> QED
  BY <1>1, <1>2

(* The values that parsePart enumerates are those the part allows.         *)
LEMMA ParsePartIsAllowed ==
  ASSUME NEW part \in Parts, NEW min \in Nat, NEW max \in Nat, min <= max,
         NEW bounds, bounds = [min |-> min, max |-> max],
         ~BadPart(part, bounds), NEW n \in Int
  PROVE  n \in ParsePart(part, bounds) <=> PartAllows(part, bounds, n)
<1> DEFINE step == IF part.step = NoStep THEN 1 ELSE part.step
           start == Start(part, bounds)
           end == End(part, bounds)
<1>1. step \in Nat \ {0}
  BY DEF Parts, NoStep, BadPart
<1>2. start \in min .. max
  BY DEF Parts, Start, BadPart
<1>3. end \in 0 .. max
  BY DEF Parts, End, BadPart
<1>4. ParsePart(part, bounds) = {start + k * step : k \in 0 .. max} \cap (0 .. end)
  BY DEF ParsePart
<1>5. PartAllows(part, bounds, n) <=> start <= n /\ n <= end /\ (n - start) % step = 0
  <2>1. part.step = NoStep => (n - start) % 1 = 0
    BY <1>2
  <2> QED
    BY <2>1 DEF PartAllows
<1> HIDE DEF step, start, end
<1>6. ASSUME n \in ParsePart(part, bounds) PROVE start <= n /\ n <= end /\ (n - start) % step = 0
  <2>1. PICK k \in 0 .. max : n = start + k * step /\ n \in 0 .. end
    BY <1>4, <1>6
  <2>2. k * step \in Nat
    BY <1>1
  <2>3. n - start = k * step /\ n - start \in Nat
    BY <2>1, <2>2, <1>2
  <2> QED
    BY <2>1, <2>3, <1>1, <1>2, <1>3, StepsAreMultiples
<1>7. ASSUME start <= n, n <= end, (n - start) % step = 0 PROVE n \in ParsePart(part, bounds)
  <2>1. n - start \in 0 .. max
    BY <1>2, <1>3, <1>7
  <2> DEFINE offset == n - start
  <2>2. \A d \in Nat : d % step = 0 => \E k \in 0 .. d : d = k * step
    BY <1>1, StepsAreMultiples
  <2>3. offset \in Nat /\ offset % step = 0
    BY <1>7, <2>1
  <2>4. PICK k \in 0 .. offset : offset = k * step
    BY <2>2, <2>3
  <2>5. k \in 0 .. max /\ n = start + k * step
    BY <2>1, <2>4, <1>1, <1>2
  <2> QED
    BY <2>5, <1>2, <1>3, <1>4, <1>7
<1> QED
  BY <1>5, <1>6, <1>7

LEMMA ParseFieldIsAllowed ==
  ASSUME NEW field \in SUBSET Parts, NEW min \in Nat, NEW max \in Nat, min <= max,
         NEW bounds, bounds = [min |-> min, max |-> max],
         \A part \in field : ~BadPart(part, bounds), NEW n \in Int
  PROVE  n \in ParseField(field, bounds) <=> FieldAllows(field, bounds, n)
<1>1. \A part \in field : n \in ParsePart(part, bounds) <=> PartAllows(part, bounds, n)
  BY ParsePartIsAllowed
<1> QED
  BY <1>1 DEF ParseField, FieldAllows

(* A minute matches the schedule if and only if the expression allows it:  *)
(* this is where day 7 of the week has to be Sunday, and a field without   *)
(* restrictions has to leave the choice of the day to the other one.       *)
LEMMA MatchesIsAllowed ==
  ASSUME NEW e \in Expressions, ~Rejects(e), NEW t \in Fields,
         t.day <= LongestMonth, Weekday(t.year, t.month, t.day) \in 0 .. DaysPerWeek - 1
  PROVE  Matches(ParseCron(e), t) <=> Allows(e, t)
<1> DEFINE s == ParseCron(e)
           weekday == Weekday(t.year, t.month, t.day)
<1>1. \A f \in {e.minute, e.hour, e.dom, e.month, e.dow} : f \in SUBSET Parts
  BY FieldsAssumption DEF Expressions
<1>2. t.minute \in s.minutes <=> FieldAllows(e.minute, MINUTE, t.minute)
  <2>1. MinutesPerHour - 1 \in Nat /\ t.minute \in Int
    BY FieldTypes, CalendarAssumption
  <2> QED
    BY <1>1, <2>1, ParseFieldIsAllowed DEF ParseCron, Rejects, MINUTE
<1>3. t.hour \in s.hours <=> FieldAllows(e.hour, HOUR, t.hour)
  <2>1. HoursPerDay - 1 \in Nat /\ t.hour \in Int
    BY FieldTypes, CalendarAssumption
  <2> QED
    BY <1>1, <2>1, ParseFieldIsAllowed DEF ParseCron, Rejects, HOUR
<1>4. t.day \in s.doms <=> FieldAllows(e.dom, DOM, t.day)
  <2>1. LongestMonth \in Nat /\ 1 <= LongestMonth /\ t.day \in Int
    BY FieldTypes, CalendarAssumption
  <2> QED
    BY <1>1, <2>1, ParseFieldIsAllowed DEF ParseCron, Rejects, DOM
<1>5. t.month \in s.months <=> FieldAllows(e.month, MONTH, t.month)
  <2>1. MonthsPerYear \in Nat /\ 1 <= MonthsPerYear /\ t.month \in Int
    BY FieldTypes, CalendarAssumption
  <2> QED
    BY <1>1, <2>1, ParseFieldIsAllowed DEF ParseCron, Rejects, MONTH
<1>6. weekday \in s.dows <=> \/ FieldAllows(e.dow, DOW, weekday)
                             \/ weekday = 0 /\ FieldAllows(e.dow, DOW, DaysPerWeek)
  <2>1. DaysPerWeek \in Nat /\ 0 <= DaysPerWeek
    BY CalendarAssumption
  <2>2. \A n \in Int : n \in ParseField(e.dow, DOW) <=> FieldAllows(e.dow, DOW, n)
    BY <1>1, <2>1, ParseFieldIsAllowed DEF Rejects, DOW
  <2>3. s.dows = {IF d = DaysPerWeek THEN 0 ELSE d : d \in ParseField(e.dow, DOW)}
    BY DEF ParseCron
  <2>4. weekday \in Int /\ weekday # DaysPerWeek
    BY <2>1
  <2> QED
    BY <2>1, <2>2, <2>3, <2>4
<1>7. s.domAny = (e.dom = Star) /\ s.dowAny = (e.dow = Star)
  BY DEF ParseCron
<1>8. s.domAny => t.day \in s.doms
  <2>1. SUFFICES ASSUME e.dom = Star PROVE FieldAllows(e.dom, DOM, t.day)
    BY <1>4, <1>7
  <2> QED
    BY <2>1, FieldTypes DEF FieldAllows, PartAllows, Star, Start, End, DOM, NoStep
<1>9. s.dowAny => weekday \in s.dows
  <2>1. SUFFICES ASSUME e.dow = Star PROVE FieldAllows(e.dow, DOW, weekday)
    BY <1>6, <1>7
  <2> QED
    BY <2>1, CalendarAssumption DEF FieldAllows, PartAllows, Star, Start, End, DOW, NoStep
<1> HIDE DEF s
<1>10. DayMatches(s, t) <=> DayAllowed(e, t)
  BY <1>4, <1>6, <1>7, <1>8, <1>9 DEF DayMatches, DayAllowed
<1> QED
  BY <1>2, <1>3, <1>5, <1>10 DEF Matches, Allows, s

-----------------------------------------------------------------------------
(* No jump leads to a date that does not exist.                            *)

StaysValid(c, d) == (c.year \in Years => Valid(c)) => (d.year \in Years => Valid(d))

LEMMA DayOneExists ==
  ASSUME NEW year \in Years, NEW month \in Months
  PROVE  1 <= DaysIn(year, month) /\ DaysIn(year, month) \in Int /\ DaysIn(year, month) <= LongestMonth
BY CalendarAssumption DEF Months

LEMMA NextDateIsValid ==
  ASSUME NEW t \in Fields
  PROVE  StaysValid(t, NextDate(t))
<1> USE FieldTypes
<1>1. CASE t.day < DaysIn(t.year, t.month)
  <2>1. NextDate(t) = At(t.year, t.month, t.day + 1, 0, 0)
    BY <1>1 DEF NextDate
  <2>2. t.year \in Years => t.day + 1 <= DaysIn(t.year, t.month)
    BY <1>1, DayOneExists
  <2> QED
    BY <2>1, <2>2 DEF StaysValid, Valid, At
<1>2. CASE ~(t.day < DaysIn(t.year, t.month)) /\ t.month < MonthsPerYear
  <2>1. NextDate(t) = At(t.year, t.month + 1, 1, 0, 0)
    BY <1>2 DEF NextDate
  <2>2. t.month + 1 \in Months
    BY <1>2, CalendarAssumption DEF Months
  <2> QED
    BY <2>1, <2>2, DayOneExists DEF StaysValid, Valid, At
<1>3. CASE ~(t.day < DaysIn(t.year, t.month)) /\ ~(t.month < MonthsPerYear)
  <2>1. NextDate(t) = At(t.year + 1, 1, 1, 0, 0)
    BY <1>3 DEF NextDate
  <2> QED
    BY <2>1, DayOneExists DEF StaysValid, Valid, At
<1> QED
  BY <1>1, <1>2, <1>3

LEMMA NextMinuteIsValid ==
  ASSUME NEW t \in Fields
  PROVE  StaysValid(t, NextHour(t)) /\ StaysValid(t, NextMinute(t))
<1>1. StaysValid(t, NextHour(t))
  <2>1. CASE t.hour + 1 < HoursPerDay
    BY <2>1 DEF NextHour, StaysValid, Valid, At
  <2>2. CASE ~(t.hour + 1 < HoursPerDay)
    BY <2>2, NextDateIsValid DEF NextHour
  <2> QED
    BY <2>1, <2>2
<1>2. StaysValid(t, NextMinute(t))
  <2>1. CASE t.minute + 1 < MinutesPerHour
    BY <2>1 DEF NextMinute, StaysValid, Valid, At
  <2>2. CASE ~(t.minute + 1 < MinutesPerHour)
    BY <1>1, <2>2 DEF NextMinute
  <2> QED
    BY <2>1, <2>2
<1> QED
  BY <1>1, <1>2

-----------------------------------------------------------------------------
(* What the search keeps: nothing was jumped over, and the schedule is the *)
(* meaning of the expression.                                              *)
CronInv ==
  /\ expr \in Expressions /\ from \in Froms /\ deadline = DaysLater(from, SearchDays)
  /\ CronTypeOK
  /\ NothingJumpedOver
  /\ phase \in {"search", "found", "none"} => schedule = ParseCron(expr) /\ ~Rejects(expr)
  /\ phase = "found" => Matches(schedule, cursor) /\ ~Before(deadline, cursor)
  /\ phase = "none" => Before(deadline, cursor)

LEMMA CronInit == Init => CronInv
BY FromsAssumption DEF Init, CronInv, CronTypeOK, NothingJumpedOver

(* Every jump keeps the invariant.                                         *)
LEMMA JumpKeepsInv ==
  ASSUME CronInv, phase = "search", NEW d, JumpTo(d),
         GoodJump(schedule, cursor, d), StaysValid(cursor, d)
  PROVE  CronInv'
<1>1. cursor' = d /\ UNCHANGED <<expr, from, phase, schedule, deadline>>
  BY DEF JumpTo
<1>2. from \in Fields /\ cursor \in Fields /\ d \in Fields
  BY DEF CronInv, CronTypeOK, GoodJump
<1>3. Before(from, d)
  BY <1>2, BeforeTransitive DEF CronInv, NothingJumpedOver, GoodJump
<1>4. ASSUME NEW t \in Instants, Before(from, t), Before(t, d) PROVE ~Matches(schedule, t)
  BY <1>4 DEF CronInv, NothingJumpedOver, GoodJump
<1>5. CronTypeOK'
  BY <1>1, <1>2 DEF CronInv, CronTypeOK, StaysValid
<1>6. NothingJumpedOver'
  BY <1>1, <1>3, <1>4 DEF NothingJumpedOver
<1> QED
  BY <1>1, <1>5, <1>6 DEF CronInv

LEMMA CronStep ==
  CronInv /\ [Next]_vars => CronInv'
<1> SUFFICES ASSUME CronInv, [Next]_vars PROVE CronInv'
  OBVIOUS
<1>0. cursor \in Fields
  BY DEF CronInv, CronTypeOK
<1>1. CASE Reject
  BY <1>1 DEF Reject, CronInv, CronTypeOK, NothingJumpedOver
<1>2. CASE Begin
  <2>1. from \in Fields /\ Valid(from)
    BY DEF CronInv, CronTypeOK
  <2>2. CronTypeOK'
    BY <1>2, <2>1, NextMinuteIsNext, NextMinuteIsValid
       DEF Begin, CronInv, CronTypeOK, StaysValid
  <2>3. NothingJumpedOver'
    BY <1>2, <2>1, NextMinuteIsNext DEF Begin, NothingJumpedOver
  <2> QED
    BY <1>2, <2>2, <2>3 DEF Begin, CronInv
<1>3. CASE AdvanceToNextMonth
  <2>1. phase = "search" /\ cursor.month \notin schedule.months
    BY <1>3 DEF AdvanceToNextMonth, Searching
  <2>2. ASSUME NEW m \in Months, NEW d, JumpTo(d),
               \/ FirstAfter(schedule.months, cursor.month, m) /\ d = At(cursor.year, m, 1, 0, 0)
               \/ /\ \A x \in schedule.months : x <= cursor.month
                  /\ FirstAfter(schedule.months, 0, m)
                  /\ d = At(cursor.year + 1, m, 1, 0, 0)
        PROVE  CronInv'
    <3>1. GoodJump(schedule, cursor, d)
      BY <1>0, <2>1, <2>2, MonthJump
    <3>2. StaysValid(cursor, d)
      BY <2>2, DayOneExists DEF StaysValid, Valid, At
    <3> QED
      BY <2>1, <2>2, <3>1, <3>2, JumpKeepsInv
  <2> QED
    BY <1>3, <2>2 DEF AdvanceToNextMonth
<1>4. CASE AdvanceOneDay
  <2>1. phase = "search" /\ ~DayMatches(schedule, cursor) /\ JumpTo(NextDate(cursor))
    BY <1>4 DEF AdvanceOneDay, Searching
  <2> QED
    BY <1>0, <2>1, DayJump, NextDateIsValid, JumpKeepsInv
<1>5. CASE AdvanceToNextHour
  <2> DEFINE next == NextDate(cursor)
  <2>1. phase = "search" /\ cursor.hour \notin schedule.hours
    BY <1>5 DEF AdvanceToNextHour, Searching
  <2>2. ASSUME NEW h \in Hours, FirstAfter(schedule.hours, cursor.hour, h),
               JumpTo(At(cursor.year, cursor.month, cursor.day, h, 0))
        PROVE  CronInv'
    <3>1. GoodJump(schedule, cursor, At(cursor.year, cursor.month, cursor.day, h, 0))
      BY <1>0, <2>1, <2>2, HourJump
    <3>2. StaysValid(cursor, At(cursor.year, cursor.month, cursor.day, h, 0))
      BY DEF StaysValid, Valid, At
    <3> QED
      BY <2>1, <2>2, <3>1, <3>2, JumpKeepsInv
  <2>3. ASSUME NEW h \in Hours, \A x \in schedule.hours : x <= cursor.hour,
               FirstAfter(schedule.hours, -1, h),
               JumpTo(At(next.year, next.month, next.day, h, 0))
        PROVE  CronInv'
    <3>1. GoodJump(schedule, cursor, At(next.year, next.month, next.day, h, 0))
      BY <1>0, <2>1, <2>3, HourJump
    <3>2. StaysValid(cursor, At(next.year, next.month, next.day, h, 0))
      BY <1>0, NextDateIsValid DEF StaysValid, Valid, At
    <3> QED
      BY <2>1, <2>3, <3>1, <3>2, JumpKeepsInv
  <2> QED
    BY <1>5, <2>2, <2>3 DEF AdvanceToNextHour
<1>6. CASE AdvanceToNextMinute
  <2>1. phase = "search" /\ cursor.minute \notin schedule.minutes
    BY <1>6 DEF AdvanceToNextMinute, Searching
  <2>2. ASSUME NEW m \in Minutes, FirstAfter(schedule.minutes, cursor.minute, m),
               JumpTo(At(cursor.year, cursor.month, cursor.day, cursor.hour, m))
        PROVE  CronInv'
    <3>1. GoodJump(schedule, cursor, At(cursor.year, cursor.month, cursor.day, cursor.hour, m))
      BY <1>0, <2>1, <2>2, MinuteJump
    <3>2. StaysValid(cursor, At(cursor.year, cursor.month, cursor.day, cursor.hour, m))
      BY DEF StaysValid, Valid, At
    <3> QED
      BY <2>1, <2>2, <3>1, <3>2, JumpKeepsInv
  <2>3. ASSUME \A x \in schedule.minutes : x <= cursor.minute, JumpTo(NextHour(cursor))
        PROVE  CronInv'
    <3>1. GoodJump(schedule, cursor, NextHour(cursor))
      BY <1>0, <2>1, <2>3, MinuteJump
    <3> QED
      BY <1>0, <2>1, <2>3, <3>1, NextMinuteIsValid, JumpKeepsInv
  <2> QED
    BY <1>6, <2>2, <2>3 DEF AdvanceToNextMinute
<1>7. CASE Return
  BY <1>7 DEF Return, Searching, CronInv, CronTypeOK, NothingJumpedOver
<1>8. CASE GiveUp
  BY <1>8 DEF GiveUp, CronInv, CronTypeOK, NothingJumpedOver
<1>9. CASE UNCHANGED vars
  BY <1>9 DEF vars, CronInv, CronTypeOK, NothingJumpedOver
<1> QED
  BY <1>1, <1>2, <1>3, <1>4, <1>5, <1>6, <1>7, <1>8, <1>9 DEF Next

LEMMA CronInvAlways == Spec => []CronInv
BY CronInit, CronStep, PTL DEF Spec

(* The cursor is always a date that exists, whatever the lengths of the    *)
(* months.                                                                 *)
THEOREM CronTypeCorrect == Spec => []CronTypeOK
<1>1. CronInv => CronTypeOK
  BY DEF CronInv
<1> QED
  BY <1>1, CronInvAlways, PTL

(* The search passes no minute that matches the schedule.                  *)
THEOREM NothingIsJumpedOver == Spec => []NothingJumpedOver
<1>1. CronInv => NothingJumpedOver
  BY DEF CronInv
<1> QED
  BY <1>1, CronInvAlways, PTL

(* At an instant, the schedule and the expression agree.                   *)
LEMMA InRangeIsAllowed ==
  ASSUME CronInv, phase \in {"search", "found", "none"}, NEW t \in Instants
  PROVE  Matches(schedule, t) <=> Allows(expr, t)
<1>1. t \in Fields /\ t.day \in 1 .. LongestMonth /\ t.year \in Years /\ t.month \in 1 .. MonthsPerYear
  BY InstantIsValid DEF Instants, Months
<1>2. Weekday(t.year, t.month, t.day) \in 0 .. DaysPerWeek - 1
  BY <1>1, CalendarAssumption
<1>3. t.day <= LongestMonth
  BY <1>1, CalendarAssumption
<1>4. schedule = ParseCron(expr) /\ ~Rejects(expr) /\ expr \in Expressions
  BY DEF CronInv
<1> QED
  BY <1>1, <1>2, <1>3, <1>4, MatchesIsAllowed

(* What nextRun returns is the first minute after from that the expression *)
(* allows.                                                                 *)
THEOREM FoundIsFirstAllowed == Spec => []FoundIsAllowed
<1>1. ASSUME CronInv, phase = "found" PROVE Allows(expr, cursor)
  <2>1. cursor \in Fields /\ from \in Fields /\ Before(from, cursor) /\ ~Before(deadline, cursor)
    BY <1>1 DEF CronInv, CronTypeOK, NothingJumpedOver
  <2>2. deadline \in Fields /\ from.year .. deadline.year \subseteq Years
    BY <1>1, DeadlineAssumption DEF CronInv
  <2>3. cursor.year \in from.year .. deadline.year
    BY <2>1, <2>2, FieldTypes DEF Before
  <2>4. Valid(cursor) /\ cursor.year \in Years
    BY <1>1, <2>2, <2>3 DEF CronInv, CronTypeOK
  <2>5. cursor.day \in 1 .. LongestMonth
    BY <2>1, <2>4, FieldTypes, DayOneExists, CalendarAssumption DEF Valid
  <2>6. cursor \in Instants
    BY <2>1, <2>4, <2>5 DEF Instants, Fields
  <2> QED
    BY <1>1, <2>6, InRangeIsAllowed DEF CronInv
<1>2. CronInv => FoundIsAllowed
  BY <1>1, InRangeIsAllowed DEF FoundIsAllowed, CronInv, NothingJumpedOver
<1> QED
  BY <1>2, CronInvAlways, PTL

(* nextRun throws only if no minute up to its deadline is allowed.         *)
THEOREM GivesUpRightly == Spec => []GivesUpForGoodReason
<1>1. ASSUME CronInv, phase = "none", NEW t \in Instants, Before(from, t), ~Before(deadline, t)
      PROVE  ~Allows(expr, t)
  <2>1. deadline \in Fields /\ cursor \in Fields /\ t \in Fields /\ Before(deadline, cursor)
    BY <1>1, DeadlineAssumption, InstantIsValid DEF CronInv, CronTypeOK
  <2>2. Before(t, cursor)
    BY <1>1, <2>1, BeforeTotal
  <2> QED
    BY <1>1, <2>2, InRangeIsAllowed DEF CronInv, NothingJumpedOver
<1>2. CronInv => GivesUpForGoodReason
  BY <1>1 DEF GivesUpForGoodReason
<1> QED
  BY <1>2, CronInvAlways, PTL
=============================================================================
