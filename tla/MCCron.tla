------------------------------- MODULE MCCron -------------------------------
(* A small calendar and small fields for TLC: years of two months, a leap  *)
(* day at the end of the second one every fourth year, but not in year 4:  *)
(* from year 1 to year 8 there is none, longer than the search goes on.    *)
EXTENDS Cron

MCDaysIn(year, month) == IF month = 2 /\ year % 4 = 0 /\ year # 4 THEN 3 ELSE 2

LeapDaysBefore(year) == IF year = 0 THEN 0 ELSE IF year <= 8 THEN 1 ELSE 2
MCWeekday(year, month, day) == (4 * year + LeapDaysBefore(year) + 2 * (month - 1) + day) % 3

MCYears == 0 .. 9

MCFroms == {t \in Instants : t.year \in {0, 3} /\ t.day # 1}

Part(base, lo, hi, step) == [base |-> base, lo |-> lo, hi |-> hi, step |-> step]
One(n)        == {Part("n", n, 0, NoStep)}
Step(n)       == {Part("*", 0, 0, n)}
Range(lo, hi) == {Part("n-n", lo, hi, NoStep)}

MCMinutes == {Star, One(1), One(2)}
MCHours   == {Star, One(0), One(1)}
MCDoms    == {Star, Step(1), One(2) \cup One(3), One(3), {Part("n", 2, 0, 1)}, Range(2, 1)}
MCMonths  == {One(1), One(2), Star}
MCDows    == {Star, One(0), One(3), Range(1, 2), Step(2), Step(0)}
=============================================================================
