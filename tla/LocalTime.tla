----------------------------- MODULE LocalTime -----------------------------
(***************************************************************************)
(* Which time of day the clock takes a second of UTC for: the seconds of   *)
(* an NTP packet (ntp.c), the daylight saving rules and the local time     *)
(* (clock.c).  The code computes each from a formula.  The specification   *)
(* walks the real calendar one day at a time and compares.                 *)
(*                                                                         *)
(* An instant is the number of minutes since 1 January 1970 UTC: no rule   *)
(* and no time zone is finer.  NTP's 32-bit seconds are counted in a unit  *)
(* that divides the day, its era and the distance of 1900 from 1970.       *)
(***************************************************************************)
EXTENDS Integers

CONSTANTS
  Era,       \* 2^32 seconds
  NtpDelta,  \* NTP_DELTA
  DayLength, \* 86400 seconds
  Rules,     \* the rules looked at, of DstRule
  tz,        \* flash_config.tz_offset_mins
  Starts,    \* the first days of the walk: 1 January of some years
  LastYears  \* the years the walk ends with

DstRule == {"NONE", "NA", "EU", "AU", "NZ", "CL", "IL"}

ASSUME TimeAssumption ==
  /\ Era \in Nat /\ NtpDelta \in 1 .. (Era - 1) /\ DayLength \in Nat \ {0}
  /\ Rules \subseteq DstRule
  /\ tz \in Int
  /\ Starts \subseteq [year : Nat, weekday : 0 .. 6, epoch_day : Nat]
  /\ LastYears \subseteq Nat

VARIABLES
  rule,        \* flash_config.dst_rule
  year, month, day,
  weekday,     \* 0 is Sunday
  epoch_day,   \* days since 1 January 1970
  ntp_seconds, \* what an NTP server sends at 00:00 UTC
  summer       \* whether summer time is in force at 00:00

vars == <<rule, year, month, day, weekday, epoch_day, ntp_seconds, summer>>

-----------------------------------------------------------------------------
(* ntp_recv_callback. *)

(* Mutant of SecondsSince1970: there is one era only. *)
MutantOneEra(seconds_since_1900) == seconds_since_1900 - NtpDelta

(* The seconds start again at 0 in 2036. *)
SecondsSince1970(seconds_since_1900) ==
  IF seconds_since_1900 < NtpDelta
  THEN seconds_since_1900 + Era - NtpDelta
  ELSE seconds_since_1900 - NtpDelta

-----------------------------------------------------------------------------
(* Mutant of DayOfWeek: January and February stay in their year. *)
MutantNoYearShift(d, m, y) ==
  LET mm == IF m < 3 THEN m + 12 ELSE m
      K == y % 100
      J == y \div 100
  IN (((d + (13 * (mm + 1)) \div 5 + K + K \div 4 + J \div 4 + 5 * J) % 7) + 6) % 7

(* day_of_week: Zeller's congruence, 0 for Sunday. *)
DayOfWeek(d, m, y) ==
  LET mm == IF m < 3 THEN m + 12 ELSE m
      yy == IF m < 3 THEN y - 1 ELSE y
      K == yy % 100
      J == yy \div 100
  IN (((d + (13 * (mm + 1)) \div 5 + K + K \div 4 + J \div 4 + 5 * J) % 7) + 6) % 7

IsLeap(y) == y % 4 = 0 /\ (y % 100 # 0 \/ y % 400 = 0)

DaysInMonth(m, y) ==
  IF m = 2 /\ IsLeap(y) THEN 29
  ELSE <<31, 28, 31, 30, 31, 30, 31, 31, 30, 31, 30, 31>>[m]

(* Mutant of NthWeekday: a fifth one on the last day is not seen. *)
MutantFourAtMost(n, target, m, y) ==
  LET first == 1 + ((target - DayOfWeek(1, m, y) + 7) % 7)
  IN IF n > 0 THEN first + (n - 1) * 7
     ELSE IF first + 28 >= DaysInMonth(m, y) THEN first + 21 ELSE first + 28

(* nth_weekday: the n-th one of a month, or the last one if n is -1. *)
NthWeekday(n, target, m, y) ==
  LET first == 1 + ((target - DayOfWeek(1, m, y) + 7) % 7)
  IN IF n > 0 THEN first + (n - 1) * 7
     ELSE IF first + 28 > DaysInMonth(m, y) THEN first + 21 ELSE first + 28

(* tm_to_epoch: mktime of a UTC date. *)
DaysBefore(y) ==
  365 * (y - 1970) + (y - 1969) \div 4 - (y - 1901) \div 100
    + (y - 1601) \div 400

Epoch(y, m, d, minute) ==
  LET before == <<0, 31, 59, 90, 120, 151, 181, 212, 243, 273, 304, 334>>[m]
                  + (IF m > 2 /\ IsLeap(y) THEN 1 ELSE 0)
  IN 1440 * (DaysBefore(y) + before + d - 1) + minute

(* A walk begins on a 1 January from 1970 on, which was a Thursday. *)
ASSUME StartAssumption ==
  \A s \in Starts : /\ s.year >= 1970
                    /\ s.epoch_day = DaysBefore(s.year)
                    /\ s.weekday = (s.epoch_day + 4) % 7

(* gmtime_r: the UTC year of an instant. *)
YearOf(utc) ==
  LET least == 1970 + (utc \div 1440) \div 366
  IN CHOOSE y \in {least, least + 1} :
       Epoch(y, 1, 1, 0) <= utc /\ utc < Epoch(y + 1, 1, 1, 0)

(* get_dst_bounds, for the rules that have any. *)
DstStart(r, y) ==
  CASE r = "NA" -> Epoch(y, 3, NthWeekday(2, 0, 3, y), 120)
    [] r = "EU" -> Epoch(y, 3, NthWeekday(-1, 0, 3, y), 60)
    [] r = "AU" -> Epoch(y, 10, NthWeekday(1, 0, 10, y), 120)
    [] r = "NZ" -> Epoch(y, 9, NthWeekday(-1, 0, 9, y), 120)
    [] r = "CL" -> Epoch(y, 9, NthWeekday(1, 6, 9, y), 1439)
    [] r = "IL" -> Epoch(y, 3, NthWeekday(-1, 0, 3, y) - 2, 120)

DstEnd(r, y) ==
  CASE r = "NA" -> Epoch(y, 11, NthWeekday(1, 0, 11, y), 120)
    [] r = "EU" -> Epoch(y, 10, NthWeekday(-1, 0, 10, y), 60)
    [] r \in {"AU", "NZ"} -> Epoch(y, 4, NthWeekday(1, 0, 4, y), 180)
    [] r = "CL" -> Epoch(y, 4, NthWeekday(1, 6, 4, y), 1439)
    [] r = "IL" -> Epoch(y, 10, NthWeekday(-1, 0, 10, y), 120)

(* time_is_dst. *)
TimeIsDst(utc) ==
  /\ rule # "NONE"
  /\ LET start == DstStart(rule, YearOf(utc))
         end == DstEnd(rule, YearOf(utc))
     IN IF start < end THEN start <= utc /\ utc < end
        ELSE start <= utc \/ utc < end

(* calculate_local_time. *)
LocalTime(utc) == utc + tz + (IF TimeIsDst(utc) THEN 60 ELSE 0)

-----------------------------------------------------------------------------
(* The calendar, and the rules as README.md and the boundary tests of      *)
(* tests.c state them: on which day, told by the day of the week that      *)
(* follows from the day before, and at which minute.                       *)
Nth(n, wday, m) == month = m /\ weekday = wday /\ (day - 1) \div 7 = n - 1

Last(wday, m) ==
  month = m /\ weekday = wday /\ day + 7 > DaysInMonth(month, year)

ForwardDay ==
  CASE rule = "NA" -> Nth(2, 0, 3)
    [] rule = "EU" -> Last(0, 3)
    [] rule = "AU" -> Nth(1, 0, 10)
    [] rule = "NZ" -> Last(0, 9)
    [] rule = "CL" -> Nth(1, 6, 9)
    [] rule = "IL" -> month = 3 /\ weekday = 5 /\ day + 2 \in 25 .. 31
    [] OTHER -> FALSE

BackDay ==
  CASE rule = "NA" -> Nth(1, 0, 11)
    [] rule \in {"EU", "IL"} -> Last(0, 10)
    [] rule \in {"AU", "NZ"} -> Nth(1, 0, 4)
    [] rule = "CL" -> Nth(1, 6, 4)
    [] OTHER -> FALSE

ForwardMinute ==
  CASE rule = "EU" -> 60 [] rule = "CL" -> 1439 [] OTHER -> 120

BackMinute ==
  CASE rule = "EU" -> 60
    [] rule \in {"AU", "NZ"} -> 180
    [] rule = "CL" -> 1439
    [] OTHER -> 120

Init ==
  /\ rule \in Rules
  /\ \E s \in Starts : /\ year = s.year
                       /\ weekday = s.weekday
                       /\ epoch_day = s.epoch_day
  /\ month = 1 /\ day = 1
  /\ ntp_seconds = (DayLength * epoch_day + NtpDelta) % Era
  /\ summer = (rule \in {"AU", "NZ", "CL"})

MonthEnds == day = DaysInMonth(month, year)
YearEnds == month = 12 /\ MonthEnds

NextDay ==
  /\ ~(YearEnds /\ year \in LastYears)
  /\ day' = IF MonthEnds THEN 1 ELSE day + 1
  /\ month' = IF ~MonthEnds THEN month ELSE IF YearEnds THEN 1 ELSE month + 1
  /\ year' = IF YearEnds THEN year + 1 ELSE year
  /\ weekday' = (weekday + 1) % 7
  /\ epoch_day' = epoch_day + 1
  /\ ntp_seconds' = (ntp_seconds + DayLength) % Era
  /\ summer' = IF ForwardDay THEN TRUE ELSE IF BackDay THEN FALSE ELSE summer
  /\ UNCHANGED rule

(* The walk is over. *)
LastDay == YearEnds /\ year \in LastYears /\ UNCHANGED vars

Next == NextDay \/ LastDay

Spec == Init /\ [][Next]_vars
-----------------------------------------------------------------------------
(* WeekdayRight: day_of_week agrees with counting the days, in leap years, *)
(* in January and February, and across a century that is no leap year.     *)
WeekdayRight == DayOfWeek(day, month, year) = weekday

(* The minutes of a day around which any rule changes. *)
Probes == {0, 59, 60, 61, 119, 120, 121, 179, 180, 181, 1438, 1439}

(* DstAsDocumented: time_is_dst, which looks at the bounds of one year,    *)
(* changes on the documented day and minute (of UTC) of every year, and at *)
(* no other time, on either side of the equator.                           *)
DstAsDocumented ==
  \A m \in Probes :
    TimeIsDst(1440 * epoch_day + m)
      <=> IF summer THEN ~(BackDay /\ m >= BackMinute)
          ELSE ForwardDay /\ m >= ForwardMinute

(* EraConverted: the 32-bit seconds of NTP give the right time in both of  *)
(* the eras that fit a time since 1970.                                    *)
EraConverted == SecondsSince1970(ntp_seconds) = DayLength * epoch_day

(* ForwardInLocalTime: README.md gives the hours at which the clocks go    *)
(* forward in local time ("2nd Sunday in March at 02:00"), in UTC for      *)
(* Europe only: the minute before, the clock shows standard time, and then *)
(* an hour more.                                                           *)
ForwardInLocalTime ==
  ForwardDay /\ rule \in {"NA", "AU", "NZ"}
    => LET local == 1440 * epoch_day + ForwardMinute
       IN /\ LocalTime(local - tz - 1) = local - 1
          /\ LocalTime(local - tz) = local + 60
=============================================================================
