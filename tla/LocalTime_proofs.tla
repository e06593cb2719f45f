-------------------------- MODULE LocalTime_proofs --------------------------
(***************************************************************************)
(* Facts about the conversions of LocalTime for every second of two NTP    *)
(* eras and for every month of every year, of which the walk looks at some *)
(* decades.                                                                *)
(***************************************************************************)
EXTENDS LocalTime, TLAPS

(* What most proofs need of the assumption. *)
LEMMA Eras == Era \in Nat \ {0} /\ NtpDelta \in 1 .. (Era - 1) /\ DayLength \in Nat
BY TimeAssumption

(* Below two eras a remainder takes away one era or none. *)
LEMMA EraMod ==
  ASSUME NEW a \in 0 .. (2 * Era - 1)
  PROVE  a % Era = IF a < Era THEN a ELSE a - Era
BY Eras

(* The 32-bit seconds of NTP, which start again in 2036, give back every   *)
(* time from 1970 until 2^32 seconds later.                                *)
LEMMA EraRoundTrip ==
  ASSUME NEW t \in 0 .. (Era - 1)
  PROVE  SecondsSince1970((t + NtpDelta) % Era) = t
<1>1. (t + NtpDelta) % Era
        = IF t + NtpDelta < Era THEN t + NtpDelta ELSE t + NtpDelta - Era
  BY EraMod, Eras
<1>2. QED
  BY <1>1, Eras DEF SecondsSince1970

(* Adding a day's seconds to what a server sent is sending them a day      *)
(* later, before or after the end of the era.                              *)
LEMMA EraStep ==
  ASSUME NEW t \in Nat, NEW d \in Nat, t + d < Era
  PROVE  (((t + NtpDelta) % Era) + d) % Era = (t + d + NtpDelta) % Era
<1>1. (t + NtpDelta) % Era
        = IF t + NtpDelta < Era THEN t + NtpDelta ELSE t + NtpDelta - Era
  BY EraMod, Eras
<1>2. CASE t + NtpDelta < Era
  <2>1. (t + NtpDelta) + d = t + d + NtpDelta
    BY Eras
  <2>2. (t + NtpDelta) % Era = t + NtpDelta
    BY <1>1, <1>2
  <2>3. QED
    BY <2>1, <2>2
<1>3. CASE t + NtpDelta >= Era
  <2>1. (t + d + NtpDelta) % Era = t + d + NtpDelta - Era
    BY <1>3, EraMod, Eras
  <2>2. (t + NtpDelta - Era + d) % Era = t + NtpDelta - Era + d
    BY <1>3, EraMod, Eras
  <2>3. (t + NtpDelta) % Era = t + NtpDelta - Era
    BY <1>1, <1>3, Eras
  <2>4. QED
    BY <2>1, <2>2, <2>3, Eras
<1>4. QED
  BY <1>2, <1>3, Eras

(* The seconds of the walk, as long as 32 bits hold the time since 1970. *)
SecondsInv ==
  /\ epoch_day \in Nat
  /\ DayLength * epoch_day < Era
       => ntp_seconds = (DayLength * epoch_day + NtpDelta) % Era

(* The walk begins with what a server sends on its first day. *)
LEMMA SecondsInit == Init => SecondsInv
<1> SUFFICES ASSUME Init PROVE SecondsInv
  OBVIOUS
<1>1. epoch_day \in Nat
  BY TimeAssumption DEF Init
<1>2. QED
  BY <1>1 DEF Init, SecondsInv

(* A day later the server has sent a day's seconds more. *)
LEMMA SecondsNext == SecondsInv /\ [Next]_vars => SecondsInv'
<1> SUFFICES ASSUME SecondsInv, [Next]_vars
             PROVE  SecondsInv'
  OBVIOUS
<1>1. CASE NextDay
  <2> DEFINE t == DayLength * epoch_day
  <2>1. epoch_day' = epoch_day + 1 /\ ntp_seconds' = (ntp_seconds + DayLength) % Era
    BY <1>1 DEF NextDay
  <2>2. epoch_day \in Nat /\ t \in Nat /\ DayLength * (epoch_day + 1) = t + DayLength
    BY Eras DEF SecondsInv
  <2>3. ASSUME t + DayLength < Era
        PROVE  ntp_seconds' = (t + DayLength + NtpDelta) % Era
    <3>1. t < Era
      BY <2>2, <2>3, Eras
    <3>2. ntp_seconds = (t + NtpDelta) % Era
      BY <3>1 DEF SecondsInv
    <3> HIDE DEF t
    <3>3. (((t + NtpDelta) % Era) + DayLength) % Era = (t + DayLength + NtpDelta) % Era
      BY <2>2, <2>3, EraStep, Eras
    <3>4. QED
      BY <2>1, <3>2, <3>3
  <2>4. QED
    BY <2>1, <2>2, <2>3 DEF SecondsInv
<1>2. CASE LastDay \/ UNCHANGED vars
  BY <1>2 DEF LastDay, vars, SecondsInv
<1>3. QED
  BY <1>1, <1>2 DEF Next

(* ntp_recv_callback turns the 32-bit seconds of NTP, which start again in *)
(* 2036, into the time since 1970 on every day that 32 bits reach.         *)
THEOREM EraCorrect == Spec => [](DayLength * epoch_day < Era => EraConverted)
<1>1. SecondsInv => (DayLength * epoch_day < Era => EraConverted)
  <2> SUFFICES ASSUME SecondsInv, DayLength * epoch_day < Era
               PROVE  EraConverted
    OBVIOUS
  <2> DEFINE t == DayLength * epoch_day
  <2>1. t \in 0 .. (Era - 1) /\ ntp_seconds = (t + NtpDelta) % Era
    BY Eras DEF SecondsInv
  <2>2. SecondsSince1970((t + NtpDelta) % Era) = t
    <3> HIDE DEF t
    <3> QED
      BY <2>1, EraRoundTrip
  <2>3. QED
    BY <2>1, <2>2 DEF EraConverted
<1>2. QED
  BY <1>1, SecondsInit, SecondsNext, PTL DEF Spec
-----------------------------------------------------------------------------
(* The leap days of the years up to y. *)
LeapDays(y) == y \div 4 - y \div 100 + y \div 400

(* A leap year adds one.                                                   *)
LEMMA LeapStep ==
  ASSUME NEW y \in Int
  PROVE  LeapDays(y) = LeapDays(y - 1) + (IF IsLeap(y) THEN 1 ELSE 0)
<1>1. y \div 4 = (y - 1) \div 4 + (IF y % 4 = 0 THEN 1 ELSE 0)
  OBVIOUS
<1>2. y \div 100 = (y - 1) \div 100 + (IF y % 100 = 0 THEN 1 ELSE 0)
  OBVIOUS
<1>3. y \div 400 = (y - 1) \div 400 + (IF y % 400 = 0 THEN 1 ELSE 0)
  OBVIOUS
<1>4. (y % 400 = 0 => y % 100 = 0) /\ (y % 100 = 0 => y % 4 = 0)
  OBVIOUS
<1>5. QED
  BY <1>1, <1>2, <1>3, <1>4 DEF LeapDays, IsLeap

(* The days before a year, counted from 1970, in terms of leap days.       *)
LEMMA DaysBeforeLeap ==
  ASSUME NEW y \in Int
  PROVE  DaysBefore(y) = 365 * (y - 1970) + LeapDays(y - 1) - 477
<1>1. (y - 1969) \div 4 = (y - 1) \div 4 - 492
  OBVIOUS
<1>2. (y - 1901) \div 100 = (y - 1) \div 100 - 19
  OBVIOUS
<1>3. (y - 1601) \div 400 = (y - 1) \div 400 - 4
  OBVIOUS
<1>4. QED
  BY <1>1, <1>2, <1>3 DEF DaysBefore, LeapDays

(* A year has 365 days, or 366.                                            *)
LEMMA DaysBeforeNext ==
  ASSUME NEW y \in Int
  PROVE  /\ DaysBefore(y) \in Int
         /\ DaysBefore(y + 1) = DaysBefore(y) + 365 + (IF IsLeap(y) THEN 1 ELSE 0)
<1>1. DaysBefore(y + 1) = 365 * (y + 1 - 1970) + LeapDays(y + 1 - 1) - 477
  BY DaysBeforeLeap
<1>2. y + 1 - 1 = y
  OBVIOUS
<1>3. \A n \in Int : LeapDays(n) \in Int
  BY DEF LeapDays
<1>4. QED
  BY <1>1, <1>2, <1>3, DaysBeforeLeap, LeapStep, SMT

(* The terms of Zeller's congruence that depend on the year are, but for a *)
(* multiple of 7, the year and its leap days.                              *)
LEMMA ZellerYear ==
  ASSUME NEW y \in Int
  PROVE  (y % 100) + (y % 100) \div 4 + (y \div 100) \div 4 + 5 * (y \div 100)
           = y + LeapDays(y) - 119 * (y \div 100)
<1> DEFINE J == y \div 100
           K == y % 100
<1>1. J \in Int /\ K \in 0 .. 99 /\ y = 100 * J + K
  OBVIOUS
<1>3. y \div 400 = J \div 4
  OBVIOUS
<1> HIDE DEF J, K
<1>2. y \div 4 = 25 * J + K \div 4
  BY <1>1
<1>4. QED
  BY <1>1, <1>2, <1>3 DEF LeapDays, J, K
-----------------------------------------------------------------------------
(* The days of the year before the month and the date. *)
MonthStart(m, y) ==
  <<0, 31, 59, 90, 120, 151, 181, 212, 243, 273, 304, 334>>[m]
    + (IF m > 2 /\ IsLeap(y) THEN 1 ELSE 0)

DayOfYear(y, m, d) == MonthStart(m, y) + d - 1

(* A month begins where the one before it ends, and December ends the      *)
(* year.                                                                   *)
LEMMA MonthStarts ==
  ASSUME NEW m \in 1 .. 12, NEW y \in Int
  PROVE  /\ MonthStart(m, y) \in 0 .. 335
         /\ m < 12 => MonthStart(m + 1, y) = MonthStart(m, y) + DaysInMonth(m, y)
         /\ m = 12 => MonthStart(m, y) + DaysInMonth(m, y)
                        = 365 + (IF IsLeap(y) THEN 1 ELSE 0)
<1> DEFINE leap == IF IsLeap(y) THEN 1 ELSE 0
<1>1. /\ MonthStart(1, y) = 0 /\ MonthStart(2, y) = 31
      /\ MonthStart(3, y) = 59 + leap /\ MonthStart(4, y) = 90 + leap
      /\ MonthStart(5, y) = 120 + leap /\ MonthStart(6, y) = 151 + leap
      /\ MonthStart(7, y) = 181 + leap /\ MonthStart(8, y) = 212 + leap
      /\ MonthStart(9, y) = 243 + leap /\ MonthStart(10, y) = 273 + leap
      /\ MonthStart(11, y) = 304 + leap /\ MonthStart(12, y) = 334 + leap
  BY DEF MonthStart
<1>2. /\ DaysInMonth(1, y) = 31 /\ DaysInMonth(2, y) = 28 + leap
      /\ DaysInMonth(3, y) = 31 /\ DaysInMonth(4, y) = 30
      /\ DaysInMonth(5, y) = 31 /\ DaysInMonth(6, y) = 30
      /\ DaysInMonth(7, y) = 31 /\ DaysInMonth(8, y) = 31
      /\ DaysInMonth(9, y) = 30 /\ DaysInMonth(10, y) = 31
      /\ DaysInMonth(11, y) = 30 /\ DaysInMonth(12, y) = 31
  BY DEF DaysInMonth
<1>3. leap \in {0, 1}
  OBVIOUS
<1> HIDE DEF leap
<1>4. m \in {1, 2, 3, 4, 5, 6, 7, 8, 9, 10, 11, 12}
  OBVIOUS
<1>5. QED
  BY <1>1, <1>2, <1>3, <1>4 DEF leap

(* The type of MonthStart.                                                 *)
LEMMA MonthStartInt ==
  ASSUME NEW m \in 1 .. 12, NEW y \in Int
  PROVE  MonthStart(m, y) \in Int
<1>1. m \in {1, 2, 3, 4, 5, 6, 7, 8, 9, 10, 11, 12}
  OBVIOUS
<1>2. QED
  BY <1>1 DEF MonthStart

(* Epoch counts whole days and the minutes of the last one.                *)
LEMMA EpochIsDays ==
  ASSUME NEW m \in 1 .. 12, NEW y \in Int, NEW d \in Int, NEW minute \in Int
  PROVE  Epoch(y, m, d, minute)
           = 1440 * (DaysBefore(y) + DayOfYear(y, m, d)) + minute
<1>1. MonthStart(m, y) \in Int /\ DaysBefore(y) \in Int
  BY MonthStartInt, DaysBeforeNext
<1>2. Epoch(y, m, d, minute) = 1440 * (DaysBefore(y) + MonthStart(m, y) + d - 1) + minute
  BY DEF Epoch, MonthStart
<1>3. QED
  BY <1>1, <1>2 DEF DayOfYear

(* The two remainders at the end of day_of_week are one.                   *)
LEMMA ZellerMod ==
  ASSUME NEW n \in Int
  PROVE  ((n % 7) + 6) % 7 = (n + 6) % 7
OBVIOUS

(* day_of_week is right for every date of every year, January and          *)
(* February, which Zeller counts to the year before, and the centuries     *)
(* included: it is the number of days from 1 January 1970, a Thursday, to  *)
(* the date, by the calendar of mktime.                                    *)
THEOREM DayOfWeekCounts ==
  ASSUME NEW m \in 1 .. 12, NEW y \in Int, NEW d \in Int
  PROVE  DayOfWeek(d, m, y) = (DaysBefore(y) + DayOfYear(y, m, d) + 4) % 7
<1> DEFINE mm == IF m < 3 THEN m + 12 ELSE m
           yy == IF m < 3 THEN y - 1 ELSE y
           J == yy \div 100
           sum == d + (13 * (mm + 1)) \div 5 + (yy % 100) + (yy % 100) \div 4
                    + J \div 4 + 5 * J
           days == DaysBefore(y) + DayOfYear(y, m, d) + 4
<1>1. DayOfWeek(d, m, y) = ((sum % 7) + 6) % 7
  BY DEF DayOfWeek
<1>2. yy \in Int /\ J \in Int /\ LeapDays(y) \in Int /\ LeapDays(y - 1) \in Int
      /\ LeapDays(yy) \in Int /\ DaysBefore(y) \in Int
  BY DaysBeforeNext DEF LeapDays
<1>3. (yy % 100) + (yy % 100) \div 4 + J \div 4 + 5 * J = yy + LeapDays(yy) - 119 * J
  BY <1>2, ZellerYear
<1>4. sum = d + (13 * (mm + 1)) \div 5 + yy + LeapDays(yy) - 119 * J
  <2> DEFINE a == (13 * (mm + 1)) \div 5
             b == yy % 100
             c == b \div 4
             e == J \div 4
             v == yy + LeapDays(yy) - 119 * J
  <2>1. a \in Int /\ b \in Int /\ c \in Int /\ e \in Int /\ v \in Int
    BY <1>2
  <2>2. sum = d + a + b + c + e + 5 * J /\ b + c + e + 5 * J = v
    BY <1>3
  <2> HIDE DEF a, b, c, e, v, sum, J
  <2>3. sum = d + a + v
    BY <1>2, <2>1, <2>2
  <2> QED
    BY <1>2, <2>1, <2>3 DEF a, v
<1>5. LeapDays(yy) = IF m < 3 THEN LeapDays(y - 1) ELSE LeapDays(y)
  OBVIOUS
<1>6. /\ DaysBefore(y) = 365 * (y - 1970) + LeapDays(y - 1) - 477
      /\ LeapDays(y) = LeapDays(y - 1) + (IF IsLeap(y) THEN 1 ELSE 0)
  BY DaysBeforeLeap, LeapStep
<1>7. m \in {1, 2, 3, 4, 5, 6, 7, 8, 9, 10, 11, 12}
  OBVIOUS
<1>8. \E c \in Int : days = sum + 6 + 7 * c
  <2> DEFINE k == <<102795, 102791, 102783, 102779, 102775, 102771,
                    102767, 102763, 102759, 102755, 102751, 102747>>[m]
             c == 52 * y + 17 * J - k
  <2>0. k \in Int /\ c \in Int
    BY <1>2, <1>7
  <2>1. days = sum + 6 + 7 * c
    <3> HIDE DEF J, sum
    <3> QED
      BY <1>2, <1>4, <1>5, <1>6, <1>7 DEF DayOfYear, MonthStart
  <2> QED
    BY <2>0, <2>1
<1>9. sum \in Int /\ days \in Int
  <2>0. MonthStart(m, y) \in Int
    BY MonthStartInt
  <2>1. DayOfYear(y, m, d) \in Int
    BY <2>0 DEF DayOfYear
  <2> HIDE DEF J
  <2>2. QED
    BY <1>2, <1>4, <2>1
<1> HIDE DEF sum, days
<1>10. (sum + 6) % 7 = days % 7
  BY <1>8, <1>9
<1>11. QED
  BY <1>1, <1>9, <1>10, ZellerMod DEF days
-----------------------------------------------------------------------------
(* The days of the year that are over.                                     *)
Doy == DayOfYear(year, month, day)

(* A date of the calendar.                                                 *)
DateInv ==
  /\ year \in Nat /\ year >= 1970
  /\ month \in 1 .. 12
  /\ day \in 1 .. DaysInMonth(month, year)

(* The days since 1970 and the weekday are those of the date.              *)
CalendarInv ==
  /\ DateInv
  /\ epoch_day = DaysBefore(year) + Doy
  /\ weekday = (epoch_day + 4) % 7

(* A month has 28 to 31 days.                                              *)
LEMMA MonthLength ==
  ASSUME NEW m \in 1 .. 12, NEW y \in Int
  PROVE  DaysInMonth(m, y) \in 28 .. 31
BY DEF DaysInMonth

(* The types of a date and of what is counted from it.                     *)
LEMMA DateTypes ==
  ASSUME DateInv
  PROVE  /\ year \in Int /\ year >= 1970 /\ month \in 1 .. 12 /\ day \in Int
         /\ day \in 1 .. DaysInMonth(month, year)
         /\ DaysInMonth(month, year) \in 28 .. 31
         /\ MonthStart(month, year) \in Int
         /\ DaysBefore(year) \in Int
         /\ Doy \in Int
<1>1. year \in Int /\ year >= 1970 /\ month \in 1 .. 12
  BY DEF DateInv
<1>2. DaysInMonth(month, year) \in 28 .. 31
  BY <1>1, MonthLength
<1>3. MonthStart(month, year) \in Int
  <2>1. \A m \in 1 .. 12, y \in Int : MonthStart(m, y) \in Int
    BY MonthStartInt
  <2>2. year \in Int /\ month \in 1 .. 12
    BY <1>1
  <2>3. QED
    BY <2>1, <2>2
<1>4. DaysBefore(year) \in Int
  BY <1>1, DaysBeforeNext
<1>5. day \in 1 .. DaysInMonth(month, year) /\ day \in Int
  BY <1>2 DEF DateInv
<1>6. Doy \in Int
  BY <1>3, <1>5 DEF Doy, DayOfYear
<1>7. QED
  BY <1>1, <1>2, <1>3, <1>4, <1>5, <1>6

(* The walk begins on a date.                                              *)
LEMMA CalendarInit == Init => CalendarInv
<1> SUFFICES ASSUME Init PROVE CalendarInv
  OBVIOUS
<1>1. PICK s \in Starts : year = s.year /\ weekday = s.weekday /\ epoch_day = s.epoch_day
  BY DEF Init
<1>2. /\ s.year \in Nat /\ s.year >= 1970
      /\ s.epoch_day = DaysBefore(s.year)
      /\ s.weekday = (s.epoch_day + 4) % 7
  BY StartAssumption, TimeAssumption
<1>3. month = 1 /\ day = 1
  BY DEF Init
<1>4. MonthStart(1, year) = 0
  BY DEF MonthStart
<1>5. Doy = 0
  BY <1>3, <1>4 DEF Doy, DayOfYear
<1>6. DaysBefore(year) \in Int /\ DaysInMonth(month, year) \in 28 .. 31
  BY <1>1, <1>2, <1>3, DaysBeforeNext, MonthLength
<1>7. DateInv
  BY <1>1, <1>2, <1>3, <1>6 DEF DateInv
<1>8. epoch_day = DaysBefore(year) + Doy
  BY <1>1, <1>2, <1>5, <1>6
<1> QED
  BY <1>1, <1>2, <1>7, <1>8 DEF CalendarInv

(* The next day is one further into the year, or the first of the next.    *)
LEMMA DoyStep ==
  ASSUME CalendarInv, NextDay
  PROVE  /\ DateInv'
         /\ Doy' = IF YearEnds THEN 0 ELSE Doy + 1
         /\ YearEnds => Doy = 364 + (IF IsLeap(year) THEN 1 ELSE 0)
<1>1. /\ day' = IF day = DaysInMonth(month, year) THEN 1 ELSE day + 1
      /\ month' = IF day # DaysInMonth(month, year) THEN month
                  ELSE IF month = 12 THEN 1 ELSE month + 1
      /\ year' = IF month = 12 /\ day = DaysInMonth(month, year) THEN year + 1 ELSE year
  BY DEF NextDay, MonthEnds, YearEnds
<1>2. /\ year \in Nat /\ year >= 1970 /\ year + 1 \in Nat /\ month \in 1 .. 12
      /\ day \in 1 .. DaysInMonth(month, year)
      /\ DaysInMonth(month, year) \in 28 .. 31
      /\ MonthStart(month, year) \in Int
  BY DateTypes DEF CalendarInv
<1>3. /\ MonthStart(1, year + 1) = 0
      /\ \A m \in 1 .. 12, y \in Int : DaysInMonth(m, y) \in 28 .. 31
  BY MonthLength DEF MonthStart
<1>4. CASE day # DaysInMonth(month, year)
  <2>1. day' = day + 1 /\ month' = month /\ year' = year /\ ~YearEnds
    BY <1>1, <1>4 DEF YearEnds, MonthEnds
  <2>2. QED
    BY <1>2, <1>4, <2>1 DEF DateInv, Doy, DayOfYear
<1>5. CASE day = DaysInMonth(month, year) /\ month < 12
  <2>1. day' = 1 /\ month' = month + 1 /\ year' = year /\ ~YearEnds
    BY <1>1, <1>2, <1>5 DEF YearEnds, MonthEnds
  <2>2. MonthStart(month + 1, year) = MonthStart(month, year) + DaysInMonth(month, year)
    BY <1>2, <1>5, MonthStarts
  <2>3. month + 1 \in 1 .. 12
    BY <1>2, <1>5
  <2>4. QED
    BY <1>2, <1>3, <1>5, <2>1, <2>2, <2>3 DEF DateInv, Doy, DayOfYear
<1>6. CASE day = DaysInMonth(month, year) /\ month = 12
  <2>1. day' = 1 /\ month' = 1 /\ year' = year + 1 /\ YearEnds
    BY <1>1, <1>6 DEF YearEnds, MonthEnds
  <2>2. MonthStart(month, year) + DaysInMonth(month, year)
          = 365 + (IF IsLeap(year) THEN 1 ELSE 0)
    BY <1>2, <1>6, MonthStarts
  <2>3. QED
    BY <1>2, <1>3, <1>6, <2>1, <2>2 DEF DateInv, Doy, DayOfYear
<1>7. QED
  BY <1>2, <1>4, <1>5, <1>6

(* A day later the date, the days since 1970 and the weekday still agree.  *)
LEMMA CalendarNext == CalendarInv /\ [Next]_vars => CalendarInv'
<1> SUFFICES ASSUME CalendarInv, [Next]_vars PROVE CalendarInv'
  OBVIOUS
<1>1. CASE NextDay
  <2>1. epoch_day' = epoch_day + 1 /\ weekday' = (weekday + 1) % 7
        /\ year' = IF YearEnds THEN year + 1 ELSE year
    BY <1>1 DEF NextDay
  <2>2. /\ year \in Int /\ DaysBefore(year) \in Int /\ Doy \in Int
        /\ DaysBefore(year + 1) = DaysBefore(year) + 365 + (IF IsLeap(year) THEN 1 ELSE 0)
    <3>1. year \in Int /\ Doy \in Int
      BY DateTypes DEF CalendarInv
    <3>2. QED
      BY <3>1, DaysBeforeNext
  <2>3. epoch_day' = DaysBefore(year') + Doy'
    BY <1>1, <2>1, <2>2, DoyStep DEF CalendarInv
  <2>4. epoch_day \in Int
    BY <2>2 DEF CalendarInv
  <2>5. weekday' = (epoch_day' + 4) % 7
    BY <2>1, <2>4 DEF CalendarInv
  <2>6. QED
    BY <1>1, <2>3, <2>5, DoyStep DEF CalendarInv
<1>2. CASE LastDay \/ UNCHANGED vars
  BY <1>2 DEF LastDay, vars, CalendarInv, DateInv, Doy
<1>3. QED
  BY <1>1, <1>2 DEF Next

(* Whatever the years the walk starts in, day_of_week agrees with counting *)
(* the days, on every day of every year it reaches.                        *)
THEOREM WeekdayCorrect == Spec => []WeekdayRight
<1>1. CalendarInv => WeekdayRight
  <2> SUFFICES ASSUME CalendarInv PROVE WeekdayRight
    OBVIOUS
  <2>1. year \in Int /\ month \in 1 .. 12 /\ day \in Int
    BY DateTypes DEF CalendarInv
  <2>2. DayOfWeek(day, month, year) = (DaysBefore(year) + Doy + 4) % 7
    BY <2>1, DayOfWeekCounts DEF Doy
  <2>3. QED
    BY <2>2 DEF WeekdayRight, CalendarInv
<1>2. QED
  BY <1>1, CalendarInit, CalendarNext, PTL DEF Spec
(* Zeller's congruence gives a day of the week. *)
LEMMA DayOfWeekRange ==
  ASSUME NEW d \in Int, NEW m \in 1 .. 12, NEW y \in Int
  PROVE  DayOfWeek(d, m, y) \in 0 .. 6
<1> DEFINE mm == IF m < 3 THEN m + 12 ELSE m
           yy == IF m < 3 THEN y - 1 ELSE y
           sum == d + (13 * (mm + 1)) \div 5 + (yy % 100) + (yy % 100) \div 4
                    + (yy \div 100) \div 4 + 5 * (yy \div 100)
<1>1. sum \in Int
  OBVIOUS
<1>2. \A n \in Int : ((n % 7) + 6) % 7 \in 0 .. 6
  OBVIOUS
<1>3. DayOfWeek(d, m, y) = ((sum % 7) + 6) % 7
  BY DEF DayOfWeek
<1>4. QED
  BY <1>1, <1>2, <1>3

(* nth_weekday(-1, ...) is the last such weekday of every month of every   *)
(* year: it lies in the month, a week later does not, and it is on the     *)
(* weekday asked for, counted from the first of the month.                 *)
THEOREM LastWeekdayIsLast ==
  ASSUME NEW m \in 1 .. 12, NEW y \in Int, NEW target \in 0 .. 6
  PROVE  LET d == NthWeekday(-1, target, m, y)
         IN /\ d \in 1 .. DaysInMonth(m, y)
            /\ d + 7 > DaysInMonth(m, y)
            /\ (DayOfWeek(1, m, y) + d - 1) % 7 = target
<1> DEFINE w == DayOfWeek(1, m, y)
           length == DaysInMonth(m, y)
           first == 1 + ((target - w + 7) % 7)
<1>1. w \in 0 .. 6 /\ length \in 28 .. 31
  BY DayOfWeekRange, MonthLength
<1>2. NthWeekday(-1, target, m, y)
        = IF first + 28 > length THEN first + 21 ELSE first + 28
  BY DEF NthWeekday
<1> HIDE DEF w, length
<1>3. first \in 1 .. 7 /\ (w + first - 1) % 7 = target
  BY <1>1
<1>4. (w + (first + 21) - 1) % 7 = target /\ (w + (first + 28) - 1) % 7 = target
  BY <1>1, <1>3
<1> DEFINE d == NthWeekday(-1, target, m, y)
<1>5. d \in 1 .. length /\ d + 7 > length /\ (w + d - 1) % 7 = target
  <2>1. CASE first + 28 > length
    BY <1>1, <1>2, <1>3, <1>4, <2>1
  <2>2. CASE ~(first + 28 > length)
    BY <1>1, <1>2, <1>3, <1>4, <2>2
  <2>3. QED
    BY <2>1, <2>2
<1>6. QED
  BY <1>5, Zenon DEF w, length

(* nth_weekday(n, ...) for the first to the fourth is the n-th one: it     *)
(* lies in the n-th seven days of the month, on the weekday asked for.     *)
THEOREM NthWeekdayIsNth ==
  ASSUME NEW m \in 1 .. 12, NEW y \in Int, NEW target \in 0 .. 6,
         NEW n \in 1 .. 4
  PROVE  LET d == NthWeekday(n, target, m, y)
         IN /\ d \in 1 .. DaysInMonth(m, y)
            /\ (d - 1) \div 7 = n - 1
            /\ (DayOfWeek(1, m, y) + d - 1) % 7 = target
<1> DEFINE w == DayOfWeek(1, m, y)
           length == DaysInMonth(m, y)
           first == 1 + ((target - w + 7) % 7)
<1>1. w \in 0 .. 6 /\ length \in 28 .. 31
  BY DayOfWeekRange, MonthLength
<1>2. NthWeekday(n, target, m, y) = first + (n - 1) * 7
  BY DEF NthWeekday
<1> HIDE DEF w, length
<1>3. first \in 1 .. 7 /\ (w + first - 1) % 7 = target
  BY <1>1
<1>4. /\ (first + (n - 1) * 7 - 1) \div 7 = n - 1
      /\ (w + (first + (n - 1) * 7) - 1) % 7 = target
  BY <1>1, <1>3
<1> DEFINE d == NthWeekday(n, target, m, y)
<1>5. d \in 1 .. length /\ (d - 1) \div 7 = n - 1 /\ (w + d - 1) % 7 = target
  BY <1>1, <1>2, <1>3, <1>4
<1>6. QED
  BY <1>5, Zenon DEF w, length
-----------------------------------------------------------------------------
(* A later month begins after an earlier one has ended.                    *)
LEMMA LaterMonth ==
  ASSUME NEW m \in 1 .. 12, NEW n \in 1 .. 12, m < n, NEW y \in Int
  PROVE  MonthStart(n, y) >= MonthStart(m, y) + DaysInMonth(m, y)
<1> DEFINE leap == IF IsLeap(y) THEN 1 ELSE 0
<1>1. MonthStart(m, y) = <<0, 31, 59, 90, 120, 151, 181, 212, 243, 273, 304, 334>>[m]
                         + (IF m > 2 THEN leap ELSE 0)
      /\ MonthStart(n, y) = <<0, 31, 59, 90, 120, 151, 181, 212, 243, 273, 304, 334>>[n]
                         + (IF n > 2 THEN leap ELSE 0)
  BY DEF MonthStart
<1>2. DaysInMonth(m, y) = <<31, 28, 31, 30, 31, 30, 31, 31, 30, 31, 30, 31>>[m]
                         + (IF m = 2 THEN leap ELSE 0)
  BY DEF DaysInMonth
<1>3. leap \in {0, 1}
  OBVIOUS
<1> HIDE DEF leap
<1>4. m \in {1, 2, 3, 4, 5, 6, 7, 8, 9, 10, 11, 12}
      /\ n \in {1, 2, 3, 4, 5, 6, 7, 8, 9, 10, 11, 12}
  OBVIOUS
<1>5. QED
  BY <1>1, <1>2, <1>3, <1>4

(* The weekday of the walk, counted from day_of_week of the first of the   *)
(* month.                                                                  *)
LEMMA WeekdayFromFirst ==
  ASSUME CalendarInv
  PROVE  weekday = (DayOfWeek(1, month, year) + day - 1) % 7
<1>1. /\ year \in Int /\ month \in 1 .. 12 /\ day \in Int
      /\ MonthStart(month, year) \in Int /\ DaysBefore(year) \in Int
  BY DateTypes DEF CalendarInv
<1>2. DayOfWeek(1, month, year) = (DaysBefore(year) + DayOfYear(year, month, 1) + 4) % 7
  BY <1>1, DayOfWeekCounts
<1>3. weekday = (DaysBefore(year) + DayOfYear(year, month, day) + 4) % 7
  BY DEF CalendarInv, Doy
<1> DEFINE a == DaysBefore(year) + MonthStart(month, year) + 4
<1>4. a \in Int /\ DayOfWeek(1, month, year) = a % 7 /\ weekday = (a + day - 1) % 7
  BY <1>1, <1>2, <1>3 DEF DayOfYear
<1> HIDE DEF a
<1>5. QED
  BY <1>1, <1>4

(* The n-th such weekday of a month, found by walking, is the one          *)
(* nth_weekday computes.                                                   *)
LEMMA IsNth ==
  ASSUME CalendarInv, NEW n \in 1 .. 4, NEW w \in 0 .. 6, NEW m \in 1 .. 12
  PROVE  Nth(n, w, m) <=> month = m /\ day = NthWeekday(n, w, m, year)
<1>1. /\ year \in Int /\ month \in 1 .. 12 /\ day \in Int /\ day >= 1
  BY DateTypes DEF CalendarInv
<1> DEFINE d == NthWeekday(n, w, m, year)
           first == DayOfWeek(1, m, year)
<1>2. /\ d \in 1 .. DaysInMonth(m, year) /\ (d - 1) \div 7 = n - 1
      /\ (first + d - 1) % 7 = w
  BY <1>1, NthWeekdayIsNth
<1>3. first \in 0 .. 6 /\ DaysInMonth(m, year) \in 28 .. 31
  BY <1>1, DayOfWeekRange, MonthLength
<1>4. month = m => weekday = (first + day - 1) % 7
  BY WeekdayFromFirst
<1> HIDE DEF d, first
<1>5. (day - 1) \div 7 = n - 1 /\ (first + day - 1) % 7 = w <=> day = d
  BY <1>1, <1>2, <1>3
<1>6. QED
  BY <1>4, <1>5 DEF Nth, d

(* So is the last one.                                                     *)
LEMMA IsLast ==
  ASSUME CalendarInv, NEW w \in 0 .. 6, NEW m \in 1 .. 12
  PROVE  Last(w, m) <=> month = m /\ day = NthWeekday(-1, w, m, year)
<1>1. /\ year \in Int /\ month \in 1 .. 12 /\ day \in Int /\ day >= 1
      /\ day \in 1 .. DaysInMonth(month, year)
  BY DateTypes DEF CalendarInv
<1> DEFINE d == NthWeekday(-1, w, m, year)
           first == DayOfWeek(1, m, year)
           length == DaysInMonth(m, year)
<1>2. /\ d \in 1 .. length /\ d + 7 > length
      /\ (first + d - 1) % 7 = w
  BY <1>1, LastWeekdayIsLast
<1>3. first \in 0 .. 6 /\ length \in 28 .. 31
  BY <1>1, DayOfWeekRange, MonthLength
<1>4. month = m => weekday = (first + day - 1) % 7 /\ day \in 1 .. length
  BY <1>1, WeekdayFromFirst
<1>5. Last(w, m) <=> month = m /\ weekday = w /\ day + 7 > length
  BY DEF Last
<1> HIDE DEF d, first, length
<1>6. day \in 1 .. length => (day + 7 > length /\ (first + day - 1) % 7 = w <=> day = d)
  BY <1>1, <1>2, <1>3
<1>7. QED
  BY <1>4, <1>5, <1>6 DEF d
-----------------------------------------------------------------------------
(* The days of the year on which the rule in force changes. *)
ForwardMonth == CASE rule \in {"NA", "EU", "IL"} -> 3 [] rule = "AU" -> 10 [] OTHER -> 9
BackMonth == CASE rule = "NA" -> 11 [] rule \in {"EU", "IL"} -> 10 [] OTHER -> 4

ForwardDate ==
  CASE rule = "NA" -> NthWeekday(2, 0, 3, year)
    [] rule = "EU" -> NthWeekday(-1, 0, 3, year)
    [] rule = "AU" -> NthWeekday(1, 0, 10, year)
    [] rule = "NZ" -> NthWeekday(-1, 0, 9, year)
    [] rule = "CL" -> NthWeekday(1, 6, 9, year)
    [] rule = "IL" -> NthWeekday(-1, 0, 3, year) - 2

BackDate ==
  CASE rule = "NA" -> NthWeekday(1, 0, 11, year)
    [] rule \in {"EU", "IL"} -> NthWeekday(-1, 0, 10, year)
    [] rule \in {"AU", "NZ"} -> NthWeekday(1, 0, 4, year)
    [] rule = "CL" -> NthWeekday(1, 6, 4, year)

ForwardDoy == DayOfYear(year, ForwardMonth, ForwardDate)
BackDoy == DayOfYear(year, BackMonth, BackDate)

(* What nth_weekday returns lies in the month.                             *)
LEMMA NthInMonth ==
  ASSUME NEW m \in 1 .. 12, NEW y \in Int, NEW target \in 0 .. 6,
         NEW n \in {-1, 1, 2, 3, 4}
  PROVE  NthWeekday(n, target, m, y) \in 1 .. DaysInMonth(m, y)
<1>1. CASE n = -1
  BY <1>1, LastWeekdayIsLast
<1>2. CASE n \in 1 .. 4
  BY <1>2, NthWeekdayIsNth
<1>3. QED
  BY <1>1, <1>2

(* The dates get_dst_bounds works with exist.                              *)
LEMMA DatesInMonth ==
  ASSUME CalendarInv, rule \in DstRule \ {"NONE"}
  PROVE  /\ ForwardMonth \in 1 .. 12 /\ BackMonth \in 1 .. 12
         /\ ForwardDate \in 1 .. DaysInMonth(ForwardMonth, year)
         /\ BackDate \in 1 .. DaysInMonth(BackMonth, year)
<1>1. year \in Int
  BY DateTypes DEF CalendarInv
<1>2. \A m \in 1 .. 12, t \in 0 .. 6, n \in {-1, 1, 2, 3, 4} :
        NthWeekday(n, t, m, year) \in 1 .. DaysInMonth(m, year)
  BY <1>1, NthInMonth
<1>3. CASE rule = "NA"
  <2>1. ForwardDate = NthWeekday(2, 0, 3, year) /\ ForwardMonth = 3
        /\ BackDate = NthWeekday(1, 0, 11, year) /\ BackMonth = 11
    BY <1>3 DEF ForwardDate, BackDate, ForwardMonth, BackMonth
  <2>2. QED
    BY <1>2, <2>1
<1>4. CASE rule = "EU"
  <2>1. ForwardDate = NthWeekday(-1, 0, 3, year) /\ ForwardMonth = 3
        /\ BackDate = NthWeekday(-1, 0, 10, year) /\ BackMonth = 10
    BY <1>4 DEF ForwardDate, BackDate, ForwardMonth, BackMonth
  <2>2. QED
    BY <1>2, <2>1
<1>5. CASE rule = "AU"
  <2>1. ForwardDate = NthWeekday(1, 0, 10, year) /\ ForwardMonth = 10
        /\ BackDate = NthWeekday(1, 0, 4, year) /\ BackMonth = 4
    BY <1>5 DEF ForwardDate, BackDate, ForwardMonth, BackMonth
  <2>2. QED
    BY <1>2, <2>1
<1>6. CASE rule = "NZ"
  <2>1. ForwardDate = NthWeekday(-1, 0, 9, year) /\ ForwardMonth = 9
        /\ BackDate = NthWeekday(1, 0, 4, year) /\ BackMonth = 4
    BY <1>6 DEF ForwardDate, BackDate, ForwardMonth, BackMonth
  <2>2. QED
    BY <1>2, <2>1
<1>7. CASE rule = "CL"
  <2>1. ForwardDate = NthWeekday(1, 6, 9, year) /\ ForwardMonth = 9
        /\ BackDate = NthWeekday(1, 6, 4, year) /\ BackMonth = 4
    BY <1>7 DEF ForwardDate, BackDate, ForwardMonth, BackMonth
  <2>2. QED
    BY <1>2, <2>1
<1>8. CASE rule = "IL"
  <2>1. ForwardDate = NthWeekday(-1, 0, 3, year) - 2 /\ ForwardMonth = 3
        /\ BackDate = NthWeekday(-1, 0, 10, year) /\ BackMonth = 10
    BY <1>8 DEF ForwardDate, BackDate, ForwardMonth, BackMonth
  <2>2. /\ NthWeekday(-1, 0, 3, year) \in 1 .. DaysInMonth(3, year)
        /\ NthWeekday(-1, 0, 3, year) + 7 > DaysInMonth(3, year)
        /\ DaysInMonth(3, year) \in 28 .. 31
    BY <1>1, LastWeekdayIsLast, MonthLength
  <2>3. NthWeekday(-1, 0, 10, year) \in 1 .. DaysInMonth(10, year)
    BY <1>2
  <2>4. QED
    BY <2>1, <2>2, <2>3
<1>9. QED
  BY <1>3, <1>4, <1>5, <1>6, <1>7, <1>8 DEF DstRule

(* get_dst_bounds returns the minute of the change on those days.          *)
LEMMA BoundDays ==
  ASSUME CalendarInv, rule \in DstRule \ {"NONE"}
  PROVE  /\ ForwardDoy \in Int /\ BackDoy \in Int
         /\ DstStart(rule, year) = 1440 * (DaysBefore(year) + ForwardDoy) + ForwardMinute
         /\ DstEnd(rule, year) = 1440 * (DaysBefore(year) + BackDoy) + BackMinute
<1>1. year \in Int
  BY DateTypes DEF CalendarInv
<1>2. \A m \in 1 .. 12 : DaysInMonth(m, year) \in 28 .. 31 /\ MonthStart(m, year) \in Int
  BY <1>1, MonthLength, MonthStartInt
<1>3. ForwardDate \in Int /\ BackDate \in Int
  BY <1>2, DatesInMonth
<1>4. ForwardDoy \in Int /\ BackDoy \in Int
  BY <1>2, <1>3, DatesInMonth DEF ForwardDoy, BackDoy, DayOfYear
<1>5. ForwardMinute \in Int /\ BackMinute \in Int
  BY DEF ForwardMinute, BackMinute
<1>6. DstStart(rule, year) = Epoch(year, ForwardMonth, ForwardDate, ForwardMinute)
  BY DEF DstStart, ForwardMonth, ForwardDate, ForwardMinute, DstRule
<1>7. DstEnd(rule, year) = Epoch(year, BackMonth, BackDate, BackMinute)
  BY DEF DstEnd, BackMonth, BackDate, BackMinute, DstRule
<1>8. QED
  BY <1>1, <1>3, <1>4, <1>5, <1>6, <1>7, DatesInMonth, EpochIsDays
    DEF ForwardDoy, BackDoy

(* The day the clocks go forward is the documented one.                    *)
LEMMA ForwardIs ==
  ASSUME CalendarInv, rule \in DstRule \ {"NONE"}
  PROVE  ForwardDay <=> month = ForwardMonth /\ day = ForwardDate
<1>1. CASE rule = "NA"
  <2>1. ForwardDate = NthWeekday(2, 0, 3, year) /\ ForwardMonth = 3
    BY <1>1 DEF ForwardDate, ForwardMonth
  <2>2. ForwardDay <=> Nth(2, 0, 3)
    BY <1>1 DEF ForwardDay
  <2>3. QED
    BY <2>1, <2>2, IsNth
<1>2. CASE rule = "EU"
  <2>1. ForwardDate = NthWeekday(-1, 0, 3, year) /\ ForwardMonth = 3
    BY <1>2 DEF ForwardDate, ForwardMonth
  <2>2. ForwardDay <=> Last(0, 3)
    BY <1>2 DEF ForwardDay
  <2>3. QED
    BY <2>1, <2>2, IsLast
<1>3. CASE rule = "AU"
  <2>1. ForwardDate = NthWeekday(1, 0, 10, year) /\ ForwardMonth = 10
    BY <1>3 DEF ForwardDate, ForwardMonth
  <2>2. ForwardDay <=> Nth(1, 0, 10)
    BY <1>3 DEF ForwardDay
  <2>3. QED
    BY <2>1, <2>2, IsNth
<1>4. CASE rule = "NZ"
  <2>1. ForwardDate = NthWeekday(-1, 0, 9, year) /\ ForwardMonth = 9
    BY <1>4 DEF ForwardDate, ForwardMonth
  <2>2. ForwardDay <=> Last(0, 9)
    BY <1>4 DEF ForwardDay
  <2>3. QED
    BY <2>1, <2>2, IsLast
<1>5. CASE rule = "CL"
  <2>1. ForwardDate = NthWeekday(1, 6, 9, year) /\ ForwardMonth = 9
    BY <1>5 DEF ForwardDate, ForwardMonth
  <2>2. ForwardDay <=> Nth(1, 6, 9)
    BY <1>5 DEF ForwardDay
  <2>3. QED
    BY <2>1, <2>2, IsNth
<1>6. CASE rule = "IL"
  <2>1. ForwardDate = NthWeekday(-1, 0, 3, year) - 2 /\ ForwardMonth = 3
    BY <1>6 DEF ForwardDate, ForwardMonth
  <2>2. ForwardDay <=> month = 3 /\ weekday = 5 /\ day + 2 \in 25 .. 31
    BY <1>6 DEF ForwardDay
  <2> DEFINE d == NthWeekday(-1, 0, 3, year)
             first == DayOfWeek(1, 3, year)
  <2>3. year \in Int /\ day \in Int /\ day >= 1
    BY DateTypes DEF CalendarInv
  <2>4. DaysInMonth(3, year) = 31
    BY DEF DaysInMonth
  <2>5. d \in 1 .. 31 /\ d + 7 > 31 /\ (first + d - 1) % 7 = 0
    <3>1. /\ d \in 1 .. DaysInMonth(3, year) /\ d + 7 > DaysInMonth(3, year)
          /\ (first + d - 1) % 7 = 0
      <4>1. 3 \in 1 .. 12 /\ 0 \in 0 .. 6
        OBVIOUS
      <4>2. QED
        BY <2>3, <4>1, LastWeekdayIsLast
    <3>2. QED
      BY <2>4, <3>1
  <2>6. first \in 0 .. 6
    BY <2>3, DayOfWeekRange
  <2>7. month = 3 => weekday = (first + day - 1) % 7
    BY WeekdayFromFirst
  <2> HIDE DEF d, first
  <2>8. (first + day - 1) % 7 = 5 /\ day + 2 \in 25 .. 31 <=> day = d - 2
    BY <2>3, <2>5, <2>6
  <2>9. QED
    BY <2>1, <2>2, <2>7, <2>8 DEF d
<1>7. QED
  BY <1>1, <1>2, <1>3, <1>4, <1>5, <1>6 DEF DstRule

(* And so is the day they go back.                                         *)
LEMMA BackIs ==
  ASSUME CalendarInv, rule \in DstRule \ {"NONE"}
  PROVE  BackDay <=> month = BackMonth /\ day = BackDate
<1>1. CASE rule = "NA"
  <2>1. BackDate = NthWeekday(1, 0, 11, year) /\ BackMonth = 11
    BY <1>1 DEF BackDate, BackMonth
  <2>2. BackDay <=> Nth(1, 0, 11)
    BY <1>1 DEF BackDay
  <2>3. QED
    BY <2>1, <2>2, IsNth
<1>2. CASE rule \in {"EU", "IL"}
  <2>1. BackDate = NthWeekday(-1, 0, 10, year) /\ BackMonth = 10
    BY <1>2 DEF BackDate, BackMonth
  <2>2. BackDay <=> Last(0, 10)
    BY <1>2 DEF BackDay
  <2>3. QED
    BY <2>1, <2>2, IsLast
<1>3. CASE rule \in {"AU", "NZ"}
  <2>1. BackDate = NthWeekday(1, 0, 4, year) /\ BackMonth = 4
    BY <1>3 DEF BackDate, BackMonth
  <2>2. BackDay <=> Nth(1, 0, 4)
    BY <1>3 DEF BackDay
  <2>3. QED
    BY <2>1, <2>2, IsNth
<1>4. CASE rule = "CL"
  <2>1. BackDate = NthWeekday(1, 6, 4, year) /\ BackMonth = 4
    BY <1>4 DEF BackDate, BackMonth
  <2>2. BackDay <=> Nth(1, 6, 4)
    BY <1>4 DEF BackDay
  <2>3. QED
    BY <2>1, <2>2, IsNth
<1>5. QED
  BY <1>1, <1>2, <1>3, <1>4 DEF DstRule

(* The rules whose summer does not span the end of the year.               *)
North == rule \in {"NA", "EU", "IL"}

(* Both changes lie inside a year, in the order of the hemisphere.         *)
LEMMA ChangeDays ==
  ASSUME CalendarInv, rule \in DstRule \ {"NONE"}
  PROVE  /\ ForwardDay <=> Doy = ForwardDoy
         /\ BackDay <=> Doy = BackDoy
         /\ ForwardDoy \in 0 .. 363 /\ BackDoy \in 0 .. 363
         /\ North <=> ForwardDoy < BackDoy
         /\ ~North <=> BackDoy < ForwardDoy
<1>1. /\ year \in Int /\ month \in 1 .. 12
      /\ day \in 1 .. DaysInMonth(month, year)
  BY DateTypes DEF CalendarInv
<1>2. /\ Doy = ForwardDoy <=> month = ForwardMonth /\ day = ForwardDate
      /\ Doy = BackDoy <=> month = BackMonth /\ day = BackDate
  <2>1. \A n \in 1 .. 12 : \A e \in 1 .. DaysInMonth(n, year) :
          DayOfYear(year, month, day) = DayOfYear(year, n, e) <=> month = n /\ day = e
    <3>1. SUFFICES ASSUME NEW n \in 1 .. 12, NEW e \in 1 .. DaysInMonth(n, year)
                   PROVE  DayOfYear(year, month, day) = DayOfYear(year, n, e)
                            <=> month = n /\ day = e
      OBVIOUS
    <3>2. year \in Int /\ month \in 1 .. 12 /\ n \in 1 .. 12
      BY <1>1
    <3>3. day \in 1 .. DaysInMonth(month, year) /\ e \in 1 .. DaysInMonth(n, year)
      BY <1>1
    <3>4. DaysInMonth(month, year) \in 28 .. 31 /\ DaysInMonth(n, year) \in 28 .. 31
      BY <3>2, MonthLength
    <3>5. MonthStart(month, year) \in Int /\ MonthStart(n, year) \in Int
      <4>1. \A k \in 1 .. 12 : MonthStart(k, year) \in Int
        BY <3>2, MonthStartInt
      <4>2. QED
        BY <3>2, <4>1
    <3>6. /\ month < n => MonthStart(n, year) >= MonthStart(month, year) + DaysInMonth(month, year)
          /\ n < month => MonthStart(month, year) >= MonthStart(n, year) + DaysInMonth(n, year)
      BY <3>2, LaterMonth
    <3>7. QED
      BY <3>2, <3>3, <3>4, <3>5, <3>6 DEF DayOfYear
  <2>2. QED
    BY <2>1, DatesInMonth DEF Doy, ForwardDoy, BackDoy
<1> DEFINE start(m) == MonthStart(m, year)
           length(m) == DaysInMonth(m, year)
<1>3. /\ start(3) \in 59 .. 60 /\ length(3) = 31 /\ start(4) \in 90 .. 91 /\ length(4) = 30
      /\ start(9) \in 243 .. 244 /\ length(9) = 30
      /\ start(10) \in 273 .. 274 /\ length(10) = 31
      /\ start(11) \in 304 .. 305 /\ length(11) = 30
  BY DEF MonthStart, DaysInMonth
<1>4. /\ ForwardDoy = start(ForwardMonth) + ForwardDate - 1
      /\ BackDoy = start(BackMonth) + BackDate - 1
  BY DEF ForwardDoy, BackDoy, DayOfYear
<1>5. /\ ForwardDate \in 1 .. length(ForwardMonth)
      /\ BackDate \in 1 .. length(BackMonth)
  BY DatesInMonth
<1>6. \/ North /\ ForwardMonth = 3 /\ BackMonth \in {10, 11}
      \/ ~North /\ ForwardMonth \in {9, 10} /\ BackMonth = 4
  BY DEF North, ForwardMonth, BackMonth, DstRule
<1> HIDE DEF start, length
<1>7. /\ ForwardDoy \in 0 .. 363 /\ BackDoy \in 0 .. 363
      /\ North => ForwardDoy < BackDoy
      /\ ~North => BackDoy < ForwardDoy
  BY <1>3, <1>4, <1>5, <1>6
<1>8. QED
  BY <1>2, <1>7, ForwardIs, BackIs
-----------------------------------------------------------------------------
(* From 1970 to 2400 the days of n years are between 365 n and 366 n, and  *)
(* no year short of 366 n.                                                 *)
LEMMA DaysBeforeBounds ==
  ASSUME NEW y \in 1970 .. 2400
  PROVE  /\ DaysBefore(y) >= 365 * (y - 1970)
         /\ DaysBefore(y) <= 366 * (y - 1970)
         /\ DaysBefore(y) >= 366 * (y - 1971)
BY DEF DaysBefore

(* gmtime_r finds the year of every minute of the walk until 2400.         *)
LEMMA YearFound ==
  ASSUME CalendarInv, year <= 2400, NEW minute \in 0 .. 1439
  PROVE  YearOf(1440 * epoch_day + minute) = year
<1> DEFINE utc == 1440 * epoch_day + minute
           least == 1970 + (utc \div 1440) \div 366
           Right(y) == Epoch(y, 1, 1, 0) <= utc /\ utc < Epoch(y + 1, 1, 1, 0)
<1>1. /\ year \in 1970 .. 2400 /\ DaysBefore(year) \in Int /\ Doy \in Int
      /\ epoch_day = DaysBefore(year) + Doy
  BY DateTypes DEF CalendarInv
<1>2. Doy \in 0 .. (364 + (IF IsLeap(year) THEN 1 ELSE 0))
  <2>1. /\ month \in 1 .. 12 /\ day \in 1 .. DaysInMonth(month, year)
        /\ DaysInMonth(month, year) \in 28 .. 31
    BY DateTypes DEF CalendarInv
  <2>2. MonthStart(month, year) >= 0 /\ MonthStart(month, year) \in Int
        /\ MonthStart(month, year) + DaysInMonth(month, year)
              <= 365 + (IF IsLeap(year) THEN 1 ELSE 0)
    <3>1. MonthStart(12, year) + DaysInMonth(12, year)
            = 365 + (IF IsLeap(year) THEN 1 ELSE 0)
      BY <1>1, MonthStarts
    <3>2. month < 12 => MonthStart(12, year) >= MonthStart(month, year) + DaysInMonth(month, year)
      BY <1>1, <2>1, LaterMonth
    <3>3. MonthStart(month, year) \in 0 .. 335 /\ DaysInMonth(12, year) = 31
          /\ MonthStart(12, year) \in Int
      <4>1. \A m \in 1 .. 12, y \in Int : MonthStart(m, y) \in 0 .. 335
        BY MonthStarts
      <4>2. 12 \in 1 .. 12
        OBVIOUS
      <4>3. year \in Int
        BY <1>1
      <4>4. MonthStart(month, year) \in 0 .. 335 /\ MonthStart(12, year) \in 0 .. 335
        <5>1. month \in 1 .. 12
          BY <2>1
        <5>2. MonthStart(month, year) \in 0 .. 335
          BY <5>1, <4>1, <4>3
        <5>3. MonthStart(12, year) \in 0 .. 335
          BY <4>1, <4>2, <4>3
        <5>4. QED
          BY <5>2, <5>3
      <4>5. QED
        BY <4>4 DEF DaysInMonth
    <3>4. QED
      BY <2>1, <3>1, <3>2, <3>3
  <2>3. QED
    BY <2>1, <2>2 DEF Doy, DayOfYear
<1>3. /\ DaysBefore(year - 1) \in Int
      /\ DaysBefore(year) = DaysBefore(year - 1) + 365 + (IF IsLeap(year - 1) THEN 1 ELSE 0)
      /\ DaysBefore(year + 1) = DaysBefore(year) + 365 + (IF IsLeap(year) THEN 1 ELSE 0)
  <2>1. year - 1 \in Int /\ year - 1 + 1 = year
    BY <1>1
  <2>2. QED
    BY <1>1, <2>1, DaysBeforeNext
<1>4. \A y \in Int : Epoch(y, 1, 1, 0) = 1440 * DaysBefore(y)
  <2>1. TAKE y \in Int
  <2>2. DayOfYear(y, 1, 1) = 0
    BY DEF DayOfYear, MonthStart
  <2>3. Epoch(y, 1, 1, 0) = 1440 * (DaysBefore(y) + DayOfYear(y, 1, 1)) + 0
    BY EpochIsDays
  <2>4. DaysBefore(y) \in Int
    BY DaysBeforeNext
  <2>5. QED
    BY <2>2, <2>3, <2>4
<1>5. utc \in Int /\ utc \div 1440 = epoch_day /\ epoch_day \in Int
  BY <1>1
<1>6. least \in {year - 1, year}
  <2>1. least = 1970 + epoch_day \div 366
    BY <1>5
  <2>2. epoch_day >= 366 * (year - 1971) /\ epoch_day < 366 * (year - 1969)
    BY <1>1, <1>2, DaysBeforeBounds
  <2>3. epoch_day \div 366 \in {year - 1971, year - 1970}
    BY <1>1, <1>5, <2>2
  <2>4. QED
    BY <1>1, <2>1, <2>3
<1>7. Right(year)
  <2>1. 1440 * DaysBefore(year) <= utc /\ utc < 1440 * DaysBefore(year + 1)
    BY <1>1, <1>2, <1>3
  <2>2. QED
    BY <1>1, <1>4, <2>1
<1>8. ~Right(year - 1) /\ ~Right(year + 1)
  <2>1. Epoch(year - 1 + 1, 1, 1, 0) = 1440 * DaysBefore(year)
        /\ Epoch(year + 1, 1, 1, 0) = 1440 * DaysBefore(year + 1)
    BY <1>1, <1>4
  <2>2. 1440 * DaysBefore(year) <= utc /\ utc < 1440 * DaysBefore(year + 1)
    BY <1>1, <1>2, <1>3
  <2> HIDE DEF utc
  <2>3. ~(utc < 1440 * DaysBefore(year)) /\ ~(1440 * DaysBefore(year + 1) <= utc)
    BY <1>1, <1>3, <1>5, <2>2
  <2>4. QED
    BY <2>1, <2>3
<1>9. YearOf(utc) = CHOOSE y \in {least, least + 1} : Right(y)
  BY DEF YearOf
<1> HIDE DEF Right, utc, least
<1>10. {least, least + 1} \subseteq {year - 1, year, year + 1}
       /\ year \in {least, least + 1}
  BY <1>1, <1>6
<1>11. \A y \in {least, least + 1} : Right(y) <=> y = year
  BY <1>7, <1>8, <1>10
<1>12. QED
  BY <1>9, <1>10, <1>11 DEF utc
-----------------------------------------------------------------------------
(* Summer time at 00:00, told by the day of the year. *)
SummerInv ==
  summer <=> IF rule = "NONE" THEN FALSE
             ELSE IF North THEN ForwardDoy < Doy /\ Doy <= BackDoy
             ELSE ~(BackDoy < Doy /\ Doy <= ForwardDoy)

DstInv == CalendarInv /\ rule \in DstRule /\ summer \in BOOLEAN /\ SummerInv

(* time_is_dst is what the rule says at a minute of the day.               *)
RightAt(minute) ==
  TimeIsDst(1440 * epoch_day + minute)
    <=> IF summer THEN ~(BackDay /\ minute >= BackMinute)
        ELSE ForwardDay /\ minute >= ForwardMinute

(* Within a day, time_is_dst changes where the rule does.                  *)
LEMMA DstIsRight ==
  ASSUME DstInv, year <= 2400, NEW minute \in 0 .. 1439
  PROVE  RightAt(minute)
<1> USE DEF RightAt
<1>1. CASE rule = "NONE"
  BY <1>1 DEF DstInv, SummerInv, TimeIsDst, ForwardDay
<1>2. CASE rule # "NONE"
  <2> DEFINE utc == 1440 * epoch_day + minute
  <2>1. CalendarInv /\ rule \in DstRule \ {"NONE"}
    BY <1>2 DEF DstInv
  <2>2. YearOf(utc) = year
    BY <2>1, YearFound
  <2>3. TimeIsDst(utc) <=> IF DstStart(rule, year) < DstEnd(rule, year)
                           THEN DstStart(rule, year) <= utc /\ utc < DstEnd(rule, year)
                           ELSE DstStart(rule, year) <= utc \/ utc < DstEnd(rule, year)
    <3> HIDE DEF utc
    <3> QED
      BY <1>2, <2>2 DEF TimeIsDst
  <2>4. /\ DaysBefore(year) \in Int /\ Doy \in Int /\ ForwardDoy \in Int /\ BackDoy \in Int
        /\ ForwardMinute \in 0 .. 1439 /\ BackMinute \in 0 .. 1439
        /\ epoch_day = DaysBefore(year) + Doy
    <3>1. ForwardMinute \in 0 .. 1439 /\ BackMinute \in 0 .. 1439
      BY DEF ForwardMinute, BackMinute
    <3>2. DaysBefore(year) \in Int /\ Doy \in Int /\ epoch_day = DaysBefore(year) + Doy
      BY <2>1, DateTypes DEF CalendarInv
    <3>3. ForwardDoy \in Int /\ BackDoy \in Int
      BY <2>1, BoundDays
    <3>4. QED
      BY <3>1, <3>2, <3>3
  <2>5. /\ DstStart(rule, year) = 1440 * (DaysBefore(year) + ForwardDoy) + ForwardMinute
        /\ DstEnd(rule, year) = 1440 * (DaysBefore(year) + BackDoy) + BackMinute
    BY <2>1, BoundDays
  <2>6. /\ ForwardDay <=> Doy = ForwardDoy
        /\ BackDay <=> Doy = BackDoy
        /\ North <=> ForwardDoy < BackDoy
        /\ ~North <=> BackDoy < ForwardDoy
    BY <2>1, ChangeDays
  <2> HIDE DEF utc
  <2>7. /\ utc = 1440 * (DaysBefore(year) + Doy) + minute
        /\ DstStart(rule, year) < DstEnd(rule, year) <=> ForwardDoy < BackDoy
        /\ DstStart(rule, year) <= utc
             <=> ForwardDoy < Doy \/ (ForwardDoy = Doy /\ ForwardMinute <= minute)
        /\ utc < DstEnd(rule, year)
             <=> Doy < BackDoy \/ (Doy = BackDoy /\ minute < BackMinute)
    <3>1. utc = 1440 * (DaysBefore(year) + Doy) + minute
      BY <2>4 DEF utc
    <3>2. ForwardDoy # BackDoy
      BY <2>4, <2>6
    <3>3. /\ DaysBefore(year) \in Int /\ Doy \in Int /\ ForwardDoy \in Int
          /\ BackDoy \in Int /\ ForwardMinute \in 0 .. 1439 /\ BackMinute \in 0 .. 1439
          /\ ForwardDoy # BackDoy
      BY <2>4, <3>2
    <3>4. /\ DstStart(rule, year) = 1440 * (DaysBefore(year) + ForwardDoy) + ForwardMinute
          /\ DstEnd(rule, year) = 1440 * (DaysBefore(year) + BackDoy) + BackMinute
      BY <2>5
    <3>5. DstStart(rule, year) < DstEnd(rule, year) <=> ForwardDoy < BackDoy
      BY <3>3, <3>4
    <3>6. DstStart(rule, year) <= utc
             <=> ForwardDoy < Doy \/ (ForwardDoy = Doy /\ ForwardMinute <= minute)
      BY <3>1, <3>3, <3>4
    <3>7. utc < DstEnd(rule, year)
             <=> Doy < BackDoy \/ (Doy = BackDoy /\ minute < BackMinute)
      BY <3>1, <3>3, <3>4
    <3>8. QED
      BY <3>1, <3>5, <3>6, <3>7
  <2>8. CASE North
    <3>1. summer <=> ForwardDoy < Doy /\ Doy <= BackDoy
      BY <1>2, <2>8 DEF DstInv, SummerInv
    <3>2. TimeIsDst(utc) <=> DstStart(rule, year) <= utc /\ utc < DstEnd(rule, year)
      BY <2>3, <2>6, <2>7, <2>8
    <3>3. QED
      BY <2>4, <2>6, <2>7, <2>8, <3>1, <3>2 DEF utc
  <2>9. CASE ~North
    <3>1. summer <=> ~(BackDoy < Doy /\ Doy <= ForwardDoy)
      BY <1>2, <2>9 DEF DstInv, SummerInv
    <3>2. ~(ForwardDoy < BackDoy)
      BY <2>4, <2>6, <2>9
    <3>3. TimeIsDst(utc) <=> DstStart(rule, year) <= utc \/ utc < DstEnd(rule, year)
      BY <2>3, <2>7, <3>2
    <3>4. QED
      BY <2>4, <2>6, <2>7, <2>9, <3>1, <3>3 DEF utc
  <2>10. QED
    BY <2>8, <2>9
<1>3. QED
  BY <1>1, <1>2

(* ChangeDays as an implication, to be taken one step later.               *)
LEMMA ChangeRange ==
  CalendarInv /\ rule \in DstRule \ {"NONE"}
    => ForwardDoy \in 0 .. 363 /\ BackDoy \in 0 .. 363
BY ChangeDays

(* The walk begins in winter or in summer as the hemisphere says.          *)
LEMMA DstInit == Init => DstInv
<1> SUFFICES ASSUME Init PROVE DstInv
  OBVIOUS
<1>1. CalendarInv
  BY CalendarInit
<1>2. /\ rule \in DstRule /\ summer = (rule \in {"AU", "NZ", "CL"})
  BY TimeAssumption DEF Init
<1>3. Doy = 0
  BY DEF Init, Doy, DayOfYear, MonthStart
<1>4. SummerInv
  <2>1. CASE rule = "NONE"
    BY <1>2, <2>1 DEF SummerInv
  <2>2. CASE rule # "NONE"
    <3>1. ForwardDoy \in 0 .. 363 /\ BackDoy \in 0 .. 363
      BY <1>1, <1>2, <2>2, ChangeDays
    <3>2. North <=> rule \notin {"AU", "NZ", "CL"}
      BY <1>2, <2>2 DEF North, DstRule
    <3>3. summer <=> ~North
      BY <1>2, <3>2
    <3>4. SummerInv <=> (summer <=> IF North THEN ForwardDoy < Doy /\ Doy <= BackDoy
                                    ELSE ~(BackDoy < Doy /\ Doy <= ForwardDoy))
      BY <2>2 DEF SummerInv
    <3>5. QED
      BY <1>3, <3>1, <3>3, <3>4
  <2>3. QED
    BY <2>1, <2>2
<1>5. summer \in BOOLEAN
  BY <1>2
<1>6. QED
  BY <1>1, <1>2, <1>4, <1>5 DEF DstInv

(* A day later it is summer time if the day was that of the change         *)
(* forward, and so on round the year.                                      *)
LEMMA DstNext == DstInv /\ [Next]_vars => DstInv'
<1> SUFFICES ASSUME DstInv, [Next]_vars PROVE DstInv'
  OBVIOUS
<1>1. CalendarInv /\ CalendarInv'
  BY CalendarNext DEF DstInv
<1>2. CASE NextDay
  <2>1. /\ rule' = rule /\ rule \in DstRule
        /\ summer' = (IF ForwardDay THEN TRUE ELSE IF BackDay THEN FALSE ELSE summer)
        /\ year' = IF YearEnds THEN year + 1 ELSE year
    BY <1>2 DEF NextDay, DstInv
  <2>2. summer' \in BOOLEAN
    BY <2>1 DEF DstInv
  <2>3. SummerInv'
    <3>1. CASE rule = "NONE"
      <4>1. ~ForwardDay /\ ~summer
        BY <3>1 DEF ForwardDay, DstInv, SummerInv
      <4>2. ~summer'
        BY <2>1, <4>1
      <4>3. QED
        BY <2>1, <3>1, <4>2 DEF SummerInv
    <3>2. CASE rule # "NONE"
      <4>1. /\ ForwardDay <=> Doy = ForwardDoy
            /\ BackDay <=> Doy = BackDoy
            /\ ForwardDoy \in 0 .. 363 /\ BackDoy \in 0 .. 363
            /\ North <=> ForwardDoy < BackDoy
            /\ ~North <=> BackDoy < ForwardDoy
        BY <1>1, <2>1, <3>2, ChangeDays
      <4>2. (ForwardDoy \in 0 .. 363 /\ BackDoy \in 0 .. 363)'
        <5>1. (CalendarInv /\ rule \in DstRule \ {"NONE"})'
          BY <1>1, <2>1, <3>2
        <5>2. (CalendarInv /\ rule \in DstRule \ {"NONE"}
                => ForwardDoy \in 0 .. 363 /\ BackDoy \in 0 .. 363)'
          BY ChangeRange, PTL
        <5>3. QED
          BY <5>1, <5>2
      <4>3. /\ Doy' = IF YearEnds THEN 0 ELSE Doy + 1
            /\ YearEnds => Doy >= 364
            /\ Doy \in Int
        BY <1>1, <1>2, DoyStep, DateTypes DEF CalendarInv
      <4>4. ~YearEnds => ForwardDoy' = ForwardDoy /\ BackDoy' = BackDoy
        BY <2>1 DEF ForwardDoy, BackDoy, ForwardMonth, BackMonth, ForwardDate, BackDate
      <4>5. North' <=> North
        BY <2>1 DEF North
      <4>6. SummerInv' <=> (summer' <=> IF North THEN ForwardDoy' < Doy' /\ Doy' <= BackDoy'
                                        ELSE ~(BackDoy' < Doy' /\ Doy' <= ForwardDoy'))
        BY <2>1, <3>2, <4>5 DEF SummerInv
      <4>7. summer <=> IF North THEN ForwardDoy < Doy /\ Doy <= BackDoy
                       ELSE ~(BackDoy < Doy /\ Doy <= ForwardDoy)
        BY <3>2 DEF DstInv, SummerInv
      <4>8. CASE YearEnds
        BY <2>1, <4>1, <4>2, <4>3, <4>6, <4>7, <4>8
      <4>9. CASE ~YearEnds
        BY <2>1, <4>1, <4>3, <4>4, <4>6, <4>7, <4>9
      <4>10. QED
        BY <4>8, <4>9
    <3>3. QED
      BY <3>1, <3>2
  <2>4. QED
    BY <1>1, <2>1, <2>2, <2>3 DEF DstInv
<1>3. CASE LastDay \/ UNCHANGED vars
  <2>1. UNCHANGED vars
    BY <1>3 DEF LastDay
  <2>2. QED
    BY <1>1, <2>1 DEF vars, DstInv, SummerInv, Doy, North, ForwardDoy, BackDoy,
                      ForwardMonth, BackMonth, ForwardDate, BackDate
<1>4. QED
  BY <1>2, <1>3 DEF Next

(* Until 2400 time_is_dst changes at the documented minute (of UTC) of the *)
(* documented day of each year and at no other minute, for every rule and  *)
(* on either side of the equator.  (The bound is YearOf's search; NTP's 32 *)
(* bits reach 2106.)                                                       *)
THEOREM DstEveryMinute == Spec => [](year <= 2400 => \A m \in 0 .. 1439 : RightAt(m))
<1>1. DstInv => (year <= 2400 => \A m \in 0 .. 1439 : RightAt(m))
  <2>1. SUFFICES ASSUME DstInv, year <= 2400, NEW m \in 0 .. 1439
                 PROVE  RightAt(m)
    OBVIOUS
  <2>2. QED
    BY <2>1, DstIsRight
<1>2. QED
  BY <1>1, DstInit, DstNext, PTL DEF Spec

(* In particular at the minutes the run looks at.                          *)
THEOREM DstCorrect == Spec => [](year <= 2400 => DstAsDocumented)
<1>1. (\A m \in 0 .. 1439 : RightAt(m)) => DstAsDocumented
  <2>1. \A m \in Probes : m \in 0 .. 1439
    BY DEF Probes
  <2>2. (\A m \in 0 .. 1439 : RightAt(m)) => \A m \in Probes : RightAt(m)
    <3>1. SUFFICES ASSUME \A m \in 0 .. 1439 : RightAt(m), NEW m \in Probes
                   PROVE  RightAt(m)
      OBVIOUS
    <3>2. m \in 0 .. 1439
      BY <2>1
    <3>3. QED
      BY <3>1, <3>2
  <2>3. QED
    BY <2>2, Zenon DEF RightAt, DstAsDocumented
<1>2. QED
  BY <1>1, DstEveryMinute, PTL
=============================================================================
