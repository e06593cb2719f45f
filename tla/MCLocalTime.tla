---------------------------- MODULE MCLocalTime ----------------------------
(* Two stretches of the calendar for LocalTime: one across the end of the  *)
(* first NTP era in 2036, one across 2100, which is no leap year.  NTP's   *)
(* seconds are counted by 128: 2^32, NTP_DELTA and a day are multiples.    *)
EXTENDS LocalTime

MCEra == 33554432
MCNtpDelta == 17257725
MCDayLength == 675

MCStarts == {[year |-> 2024, weekday |-> 1, epoch_day |-> 19723],
             [year |-> 2096, weekday |-> 0, epoch_day |-> 46021]}
MCNewYork == -300
=============================================================================
