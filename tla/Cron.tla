-------------------------------- MODULE Cron --------------------------------
(***************************************************************************)
(* parseCron and nextRun: from a five-field expression to the next minute  *)
(* that it allows.  An expression is given as its fields, a field as the   *)
(* parts of its comma list.  nextRun is a search: the cursor starts at the *)
(* minute after from and jumps, one step per round of the while loop, over *)
(* months, days, hours and minutes that the schedule excludes.             *)
(*                                                                         *)
(* The calendar is a parameter: nothing here depends on the length of an   *)
(* hour, of a month or of a week.  from is a whole minute; the seconds     *)
(* that the code cuts off change neither the first cursor nor the test     *)
(* against the deadline.                                                   *)
(***************************************************************************)
EXTENDS Integers

CONSTANTS
  MinutesPerHour, HoursPerDay, DaysPerWeek, MonthsPerYear,
  LongestMonth,      \* 31
  DaysIn(_, _),      \* days of a month, by year and month
  Weekday(_, _, _),  \* getUTCDay(), by year, month and day; 0 is Sunday
  Years,             \* the years that properties speak about
  SearchDays,        \* 5 * 366, after which the search gives up
  MinuteFields, HourFields, DomFields, MonthFields, DowFields,
  Froms              \* the instants from which a next run is asked for

ASSUME CalendarAssumption ==
  /\ MinutesPerHour \in Nat \ {0} /\ HoursPerDay \in Nat \ {0}
  /\ DaysPerWeek \in Nat \ {0} /\ MonthsPerYear \in Nat \ {0}
  /\ LongestMonth \in Nat /\ SearchDays \in Nat
  /\ Years \subseteq Int
  /\ \A y \in Years, m \in 1 .. MonthsPerYear :
       /\ DaysIn(y, m) \in 1 .. LongestMonth
       /\ \A d \in 1 .. LongestMonth : Weekday(y, m, d) \in 0 .. DaysPerWeek - 1

Minutes == 0 .. MinutesPerHour - 1
Hours   == 0 .. HoursPerDay - 1
Months  == 1 .. MonthsPerYear

Fields == [year : Int, month : Months, day : Nat \ {0}, hour : Hours, minute : Minutes]

At(year, month, day, hour, minute) ==
  [year |-> year, month |-> month, day |-> day, hour |-> hour, minute |-> minute]

(* A date that exists.                                                     *)
Valid(t) == t.day <= DaysIn(t.year, t.month)

Instants ==
  {t \in [year : Years, month : Months, day : 1 .. LongestMonth, hour : Hours, minute : Minutes] :
     Valid(t)}

ASSUME FromsAssumption == \A t \in Froms : t \in Fields /\ Valid(t)

Before(a, b) ==
  \/ a.year < b.year
  \/ /\ a.year = b.year
     /\ \/ a.month < b.month
        \/ /\ a.month = b.month
           /\ \/ a.day < b.day
              \/ /\ a.day = b.day
                 /\ \/ a.hour < b.hour
                    \/ a.hour = b.hour /\ a.minute < b.minute

(* setUTCDate(getUTCDate() + 1) and setUTCHours(0, 0, 0, 0).               *)
NextDate(t) ==
  IF t.day < DaysIn(t.year, t.month) THEN At(t.year, t.month, t.day + 1, 0, 0)
  ELSE IF t.month < MonthsPerYear    THEN At(t.year, t.month + 1, 1, 0, 0)
                                     ELSE At(t.year + 1, 1, 1, 0, 0)

(* setUTCHours(getUTCHours() + 1, 0, 0, 0)                                 *)
NextHour(t) ==
  IF t.hour + 1 < HoursPerDay THEN At(t.year, t.month, t.day, t.hour + 1, 0) ELSE NextDate(t)

(* setUTCMinutes(getUTCMinutes() + 1)                                      *)
NextMinute(t) ==
  IF t.minute + 1 < MinutesPerHour THEN At(t.year, t.month, t.day, t.hour, t.minute + 1)
                                   ELSE NextHour(t)

DaysLater(t, days) ==
  LET later[n \in 0 .. days] ==
        IF n = 0 THEN t
        ELSE [NextDate(later[n - 1]) EXCEPT !.hour = t.hour, !.minute = t.minute]
  IN  later[days]

ASSUME DeadlineAssumption ==
  \A t \in Froms : LET last == DaysLater(t, SearchDays)
                   IN  last \in Fields /\ t.year .. last.year \subseteq Years

-----------------------------------------------------------------------------
(* parseCron                                                               *)

NoStep == -1

(* "*", "lo" or "lo-hi", each with an optional "/step".                    *)
Parts == [base : {"*", "n", "n-n"}, lo : Nat, hi : Nat, step : Nat \cup {NoStep}]

ASSUME FieldsAssumption ==
  \A field \in MinuteFields \cup HourFields \cup DomFields \cup MonthFields \cup DowFields :
    field # {} /\ \A part \in field : part \in Parts

(* The field is "*" and nothing else.  A part that is written twice is one *)
(* part of the set, but for "*": "*,*" is not the text "*", so for the day *)
(* rule it is a field with every value, which is given as "*/1" here.      *)
Star == {[base |-> "*", lo |-> 0, hi |-> 0, step |-> NoStep]}

MINUTE == [min |-> 0, max |-> MinutesPerHour - 1]
HOUR   == [min |-> 0, max |-> HoursPerDay - 1]
DOM    == [min |-> 1, max |-> LongestMonth]
MONTH  == [min |-> 1, max |-> MonthsPerYear]
DOW    == [min |-> 0, max |-> DaysPerWeek]

Start(part, bounds) == IF part.base = "*" THEN bounds.min ELSE part.lo

(* Mutant: a single value with a step is that value only.                  *)
EndIgnoresStep(part, bounds) ==
  CASE part.base = "*"   -> bounds.max
    [] part.base = "n-n" -> part.hi
    [] part.base = "n"   -> part.lo

(* A single value with a step runs up to the maximum.                      *)
End(part, bounds) ==
  CASE part.base = "*"   -> bounds.max
    [] part.base = "n-n" -> part.hi
    [] part.base = "n"   -> IF part.step = NoStep THEN part.lo ELSE bounds.max

(* The SyntaxErrors of parsePart and parseToken.                           *)
BadPart(part, bounds) ==
  \/ part.step = 0
  \/ part.base # "*" /\ part.lo \notin bounds.min .. bounds.max
  \/ part.base = "n-n" /\ (part.hi \notin bounds.min .. bounds.max \/ part.lo > part.hi)

ParsePart(part, bounds) ==
  LET step == IF part.step = NoStep THEN 1 ELSE part.step
  IN  {Start(part, bounds) + k * step : k \in 0 .. bounds.max} \cap (0 .. End(part, bounds))

ParseField(field, bounds) == UNION {ParsePart(part, bounds) : part \in field}

Rejects(e) ==
  \/ \E part \in e.minute : BadPart(part, MINUTE)
  \/ \E part \in e.hour   : BadPart(part, HOUR)
  \/ \E part \in e.dom    : BadPart(part, DOM)
  \/ \E part \in e.month  : BadPart(part, MONTH)
  \/ \E part \in e.dow    : BadPart(part, DOW)

(* Day 7 of the week is Sunday, too.                                       *)
ParseCron(e) ==
  [minutes |-> ParseField(e.minute, MINUTE),
   hours   |-> ParseField(e.hour, HOUR),
   doms    |-> ParseField(e.dom, DOM),
   months  |-> ParseField(e.month, MONTH),
   dows    |-> {IF d = DaysPerWeek THEN 0 ELSE d : d \in ParseField(e.dow, DOW)},
   domAny  |-> e.dom = Star,
   dowAny  |-> e.dow = Star]

NoSchedule == [minutes |-> {}, hours |-> {}, doms |-> {}, months |-> {}, dows |-> {},
               domAny |-> FALSE, dowAny |-> FALSE]

-----------------------------------------------------------------------------
VARIABLES
  expr, from,  \* the arguments
  phase,       \* what nextRun is doing, or how it ended
  schedule,    \* the parsed expression
  cursor,
  deadline

vars == <<expr, from, phase, schedule, cursor, deadline>>

Expressions == [minute : MinuteFields, hour : HourFields, dom : DomFields,
                month : MonthFields, dow : DowFields]

Init ==
  /\ expr \in Expressions
  /\ from \in Froms
  /\ phase = "parse"
  /\ schedule = NoSchedule
  /\ cursor = from
  /\ deadline = DaysLater(from, SearchDays)

Reject ==
  /\ phase = "parse"
  /\ Rejects(expr)
  /\ phase' = "rejected"
  /\ UNCHANGED <<expr, from, schedule, cursor, deadline>>

Begin ==
  /\ phase = "parse"
  /\ ~Rejects(expr)
  /\ phase' = "search"
  /\ schedule' = ParseCron(expr)
  /\ cursor' = NextMinute(from)
  /\ UNCHANGED <<expr, from, deadline>>

(* Mutant: a restricted day of the month and of the week must both match.  *)
DayMatchesBoth(s, t) ==
  /\ s.domAny \/ t.day \in s.doms
  /\ s.dowAny \/ Weekday(t.year, t.month, t.day) \in s.dows

(* If both days are restricted, either is enough.                          *)
DayMatches(s, t) ==
  LET domOk == t.day \in s.doms
      dowOk == Weekday(t.year, t.month, t.day) \in s.dows
  IN  \/ s.domAny /\ s.dowAny
      \/ s.domAny /\ dowOk
      \/ s.dowAny /\ domOk
      \/ ~s.domAny /\ ~s.dowAny /\ (domOk \/ dowOk)

Matches(s, t) ==
  t.month \in s.months /\ DayMatches(s, t) /\ t.hour \in s.hours /\ t.minute \in s.minutes

(* n is the first element after m of the sorted list of the elements of S. *)
FirstAfter(S, m, n) == n \in S /\ n > m /\ \A x \in S : x > m => n <= x

Searching == phase = "search" /\ ~Before(deadline, cursor)

JumpTo(t) == cursor' = t /\ UNCHANGED <<expr, from, phase, schedule, deadline>>

(* Mutants: the jump keeps the day of the month, or the year.              *)
AdvanceKeepsDay ==
  /\ Searching
  /\ cursor.month \notin schedule.months
  /\ \/ \E m \in Months : /\ FirstAfter(schedule.months, cursor.month, m)
                          /\ JumpTo(At(cursor.year, m, cursor.day, 0, 0))
     \/ /\ \A m \in schedule.months : m <= cursor.month
        /\ \E m \in Months : /\ FirstAfter(schedule.months, 0, m)
                             /\ JumpTo(At(cursor.year + 1, m, cursor.day, 0, 0))

AdvanceKeepsYear ==
  /\ Searching
  /\ cursor.month \notin schedule.months
  /\ \E m \in Months : /\ \/ FirstAfter(schedule.months, cursor.month, m)
                          \/ /\ \A x \in schedule.months : x <= cursor.month
                             /\ FirstAfter(schedule.months, 0, m)
                       /\ JumpTo(At(cursor.year, m, 1, 0, 0))

AdvanceToNextMonth ==
  /\ Searching
  /\ cursor.month \notin schedule.months
  /\ \E m \in Months :
       \/ /\ FirstAfter(schedule.months, cursor.month, m)
          /\ JumpTo(At(cursor.year, m, 1, 0, 0))
       \/ /\ \A x \in schedule.months : x <= cursor.month
          /\ FirstAfter(schedule.months, 0, m)
          /\ JumpTo(At(cursor.year + 1, m, 1, 0, 0))

(* Mutant: the new day does not begin at midnight.                         *)
AdvanceKeepsHour ==
  /\ Searching
  /\ cursor.month \in schedule.months /\ ~DayMatches(schedule, cursor)
  /\ LET next == NextDate(cursor)
     IN  JumpTo(At(next.year, next.month, next.day, cursor.hour, 0))

AdvanceOneDay ==
  /\ Searching
  /\ cursor.month \in schedule.months
  /\ ~DayMatches(schedule, cursor)
  /\ JumpTo(NextDate(cursor))

AdvanceToNextHour ==
  /\ Searching
  /\ cursor.month \in schedule.months /\ DayMatches(schedule, cursor)
  /\ cursor.hour \notin schedule.hours
  /\ \E h \in Hours :
       \/ /\ FirstAfter(schedule.hours, cursor.hour, h)
          /\ JumpTo(At(cursor.year, cursor.month, cursor.day, h, 0))
       \/ /\ \A x \in schedule.hours : x <= cursor.hour
          /\ FirstAfter(schedule.hours, -1, h)
          /\ LET next == NextDate(cursor) IN JumpTo(At(next.year, next.month, next.day, h, 0))

AdvanceToNextMinute ==
  /\ Searching
  /\ cursor.month \in schedule.months /\ DayMatches(schedule, cursor)
  /\ cursor.hour \in schedule.hours
  /\ cursor.minute \notin schedule.minutes
  /\ \/ \E m \in Minutes : /\ FirstAfter(schedule.minutes, cursor.minute, m)
                           /\ JumpTo(At(cursor.year, cursor.month, cursor.day, cursor.hour, m))
     \/ /\ \A x \in schedule.minutes : x <= cursor.minute
        /\ JumpTo(NextHour(cursor))

Return ==
  /\ Searching
  /\ Matches(schedule, cursor)
  /\ phase' = "found"
  /\ UNCHANGED <<expr, from, schedule, cursor, deadline>>

(* RangeError: no next run within 5 years.                                 *)
GiveUp ==
  /\ phase = "search"
  /\ Before(deadline, cursor)
  /\ phase' = "none"
  /\ UNCHANGED <<expr, from, schedule, cursor, deadline>>

Ended == phase \in {"rejected", "found", "none"}

Next ==
  \/ Reject \/ Begin
  \/ AdvanceToNextMonth \/ AdvanceOneDay \/ AdvanceToNextHour \/ AdvanceToNextMinute
  \/ Return \/ GiveUp

Spec == Init /\ [][Next]_vars

(* nextRun is a synchronous function: once called it goes on.              *)
FairSpec == Spec /\ WF_vars(Next)

-----------------------------------------------------------------------------
(* Properties                                                              *)

CronTypeOK ==
  /\ phase \in {"parse", "search", "rejected", "found", "none"}
  /\ from \in Fields /\ Valid(from)
  /\ cursor \in Fields /\ (cursor.year \in Years => Valid(cursor))

(* What an expression means, read off the table at the head of cron.ts.    *)
PartAllows(part, bounds, n) ==
  /\ n >= Start(part, bounds) /\ n <= End(part, bounds)
  /\ part.step # NoStep => (n - Start(part, bounds)) % part.step = 0

FieldAllows(field, bounds, n) == \E part \in field : PartAllows(part, bounds, n)

DayAllowed(e, t) ==
  LET weekday == Weekday(t.year, t.month, t.day)
      dom == FieldAllows(e.dom, DOM, t.day)
      dow == \/ FieldAllows(e.dow, DOW, weekday)
             \/ weekday = 0 /\ FieldAllows(e.dow, DOW, DaysPerWeek)
  IN  IF e.dom # Star /\ e.dow # Star THEN dom \/ dow ELSE dom /\ dow

Allows(e, t) ==
  /\ FieldAllows(e.minute, MINUTE, t.minute) /\ FieldAllows(e.hour, HOUR, t.hour)
  /\ FieldAllows(e.month, MONTH, t.month) /\ DayAllowed(e, t)

(* "strictly after from" and the order of the jumps: what nextRun returns  *)
(* is allowed by the expression as it is written, comes after from, and no *)
(* allowed minute in between has been jumped over.                         *)
FoundIsAllowed ==
  phase = "found" => /\ Allows(expr, cursor)
                     /\ \A t \in Instants : Before(from, t) /\ Before(t, cursor) => ~Allows(expr, t)

(* At no time of the search has the cursor passed a matching minute,       *)
(* whatever it jumped over: excluded months, days, hours or minutes, the   *)
(* ends of months of any length, and leap days.                            *)
NothingJumpedOver ==
  phase \in {"search", "found", "none"} =>
    /\ Before(from, cursor)
    /\ \A t \in Instants : Before(from, t) /\ Before(t, cursor) => ~Matches(schedule, t)

(* The search gives up only if no minute matches before its deadline.      *)
GivesUpForGoodReason ==
  phase = "none" =>
    \A t \in Instants : Before(from, t) /\ ~Before(deadline, t) => ~Allows(expr, t)

(* Every call returns or throws: the cursor does not go round in circles,  *)
(* not for expressions that never match either.                            *)
SearchEnds == <>Ended
=============================================================================
