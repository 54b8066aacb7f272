-------------------------------- MODULE Cron --------------------------------
(***************************************************************************)
(* scheduler/Cron.h: Cron, an expression of five fields, and cron_to_next, *)
(* the search for the next minute that matches it.  The search works on a  *)
(* broken-down time and normalises it with mktime and localtime when it    *)
(* adds a day, an hour or a minute, but not when it moves to the next      *)
(* month.                                                                  *)
(*                                                                         *)
(* The calendar is a parameter; there is no daylight saving.  Times are    *)
(* minutes, Star is the field "*".                                         *)
(***************************************************************************)
EXTENDS Integers

CONSTANTS Months,       \* months in a year, 12
          DaysBefore,   \* days of a year before each month, from month 0; then its days
          Week,         \* days in a week, 7
          DayHours,     \* hours in a day, 24
          HourMins,     \* minutes in an hour, 60
          Froms,        \* times asked about
          MaxYear       \* bound: years searched

ASSUME CronAssumption ==
    /\ Months \in Nat \ {0} /\ DaysBefore \in [0 .. Months -> Nat] /\ DaysBefore[0] = 0
    /\ \A m \in 0 .. Months : \A k \in 0 .. m - 1 : DaysBefore[k] < DaysBefore[m]
    /\ Week \in Nat \ {0} /\ DayHours \in Nat \ {0} /\ HourMins \in Nat \ {0}
    /\ Froms \subseteq Nat /\ MaxYear \in Nat

Star == -1
YearDays == DaysBefore[Months]
MonthDays(mon) == DaysBefore[mon + 1] - DaysBefore[mon]
LongestMonth == CHOOSE d \in {MonthDays(m) : m \in 0 .. Months - 1} :
                    \A m \in 0 .. Months - 1 : MonthDays(m) <= d

VARIABLES cron,     \* the fields, once made; or the constructor has thrown
          from,     \* the argument of cron_to_next
          next,     \* its tm
          found     \* its result, Star while it searches

cronVars == <<cron, from, next, found>>

\* mktime and localtime
MkTime(t) == ((t.year * YearDays + DaysBefore[t.mon] + t.mday - 1) * DayHours + t.hour) * HourMins
                 + t.min
LocalTime(m) ==
    LET day == m \div (DayHours * HourMins)
        inYear == day % YearDays
        mon == CHOOSE k \in 0 .. Months - 1 : DaysBefore[k] <= inYear /\ inYear < DaysBefore[k + 1]
    IN  [year |-> day \div YearDays, mon |-> mon, mday |-> inYear - DaysBefore[mon] + 1,
         hour |-> (m \div HourMins) % DayHours, min |-> m % HourMins, wday |-> day % Week]

\* add
Add(t, minutes) == LocalTime(MkTime(t) + minutes)

CronInit == /\ cron = [made |-> "no"] /\ from = 0 /\ next = LocalTime(0) /\ found = Star

-----------------------------------------------------------------------------

\* verify_and_set
Verify(token, lower, upper) == token = Star \/ token \in lower .. upper

\* Cron(expression): the month is kept from 0; a field outside its bounds throws.
Construct(mi, h, d, mo, dow) ==
    /\ cron.made = "no"
    /\ cron' = IF /\ Verify(mi, 0, HourMins - 1) /\ Verify(h, 0, DayHours - 1)
                  /\ Verify(d, 1, LongestMonth)
                  /\ Verify(mo, 1, Months) /\ Verify(dow, 0, Week - 1)
               THEN [made |-> "yes", minute |-> mi, hour |-> h, day |-> d,
                     month |-> IF mo = Star THEN Star ELSE mo - 1, dow |-> dow]
               ELSE [made |-> "thrown"]
    /\ \E f \in Froms : /\ from' = f
                        /\ next' = LocalTime(f + 1)
    /\ UNCHANGED found

Differs(field, x) == field # Star /\ x # field

\* "add a month": the day of the week is left as it was.
NextMonth == [next EXCEPT !.mon = IF next.mon + 1 > Months - 1 THEN 0 ELSE @ + 1,
                          !.year = IF next.mon + 1 > Months - 1 THEN @ + 1 ELSE @,
                          !.mday = 1, !.hour = 0, !.min = 0]
\* Mutant: the hour is kept when a day is added.
NextDay_KeepsHour == [Add(next, DayHours * HourMins) EXCEPT !.min = 0]

NextDay == [Add(next, DayHours * HourMins) EXCEPT !.hour = 0, !.min = 0]
NextHour == [Add(next, HourMins) EXCEPT !.min = 0]

\* One turn of the search, which has no end when no date matches.
Search == /\ cron.made = "yes" /\ found = Star /\ next.year <= MaxYear
          /\ LET moved == \/ Differs(cron.month, next.mon) \/ Differs(cron.day, next.mday)
                          \/ Differs(cron.dow, next.wday) \/ Differs(cron.hour, next.hour)
                          \/ Differs(cron.minute, next.min)
             IN  IF moved
                 THEN /\ next' = IF Differs(cron.month, next.mon) THEN NextMonth
                                 ELSE IF \/ Differs(cron.day, next.mday)
                                         \/ Differs(cron.dow, next.wday) THEN NextDay
                                 ELSE IF Differs(cron.hour, next.hour) THEN NextHour
                                 ELSE Add(next, 1)
                      /\ UNCHANGED found
                 ELSE found' = MkTime(next) /\ UNCHANGED next
          /\ UNCHANGED <<cron, from>>

CronNext == \/ Search
            \/ \E mi \in -1 .. HourMins, h \in -1 .. DayHours - 1, d \in -1 .. LongestMonth,
                  mo \in -1 .. Months, dow \in -1 .. Week - 1 :
                   Construct(mi, h, d, mo, dow)

CronSpec == CronInit /\ [][CronNext]_cronVars

-----------------------------------------------------------------------------

Matches(m) == LET t == LocalTime(m)
              IN  ~ \/ Differs(cron.minute, t.min) \/ Differs(cron.hour, t.hour)
                    \/ Differs(cron.day, t.mday) \/ Differs(cron.month, t.mon)
                    \/ Differs(cron.dow, t.wday)

\* cron_to_next returns the first minute after from that matches every field, over the
\* ends of hours, days, months and years, unless both a month and a day of the week are
\* given: the move to the next month leaves tm_wday as it was, and the test of the day
\* of the week that follows reads it.
NextMatch == found # Star /\ (cron.month = Star \/ cron.dow = Star) =>
                 /\ found > from /\ Matches(found)
                 /\ \A m \in from + 1 .. found - 1 : ~Matches(m)
=============================================================================
