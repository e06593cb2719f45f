------------------------------ MODULE Display ------------------------------
(***************************************************************************)
(* What the seven displays show.  clock_task redraws a display only when   *)
(* its character changes, and the icons on the first display only when any *)
(* character changes: what stands on the glass must nevertheless be the    *)
(* time of the last tick and the error of the last reset.                  *)
(*                                                                         *)
(* A display is the set of characters drawn since it was cleared (one is   *)
(* drawn over another, narrower or wider, and leaves its edges) and the    *)
(* status messages on it.  Colours, fonts and SPI transfers are left out.  *)
(***************************************************************************)
EXTENDS Naturals, Sequences

CONSTANTS
  Times,      \* a sequence of local times [day, hour, min], in their order
  Synced,     \* index of the first time more than WATCHDOG_ICON_INTERVAL
              \* after 1970 began; the times from there on are a cycle
  NtpErrors, WifiErrors   \* without NTP_OK and WIFI_OK

ASSUME DisplayAssumption == Synced \in 2 .. Len(Times)

VARIABLES
  place,                 \* "off", "start", "ap", "run" or "reset"
  screens,               \* what was drawn on each display
  icons,                 \* the three icons on the first display
  current_lcd_digits,
  first_clock_tick,
  watchdog_reset_error,
  local_time,            \* index of the local time
  shown                  \* index of the time of the last tick

vars == <<place, screens, icons, current_lcd_digits, first_clock_tick,
          watchdog_reset_error, local_time, shown>>

-----------------------------------------------------------------------------
Lcds == 0 .. 6

DayOfWeekStr == <<<<"S", "u", "n">>, <<"M", "o", "n">>, <<"T", "u", "e">>,
                  <<"W", "e", "d">>, <<"T", "h", "u">>, <<"F", "r", "i">>,
                  <<"S", "a", "t">>>>

Numeral(n) == <<"0", "1", "2", "3", "4", "5", "6", "7", "8", "9">>[n + 1]

(* lcd_digits: the characters of a local time. *)
Digits(n) ==
  LET t == Times[n]
      text == DayOfWeekStr[t.day + 1]
              \o <<Numeral(t.hour \div 10), Numeral(t.hour % 10),
                   Numeral(t.min \div 10), Numeral(t.min % 10)>>
  IN [ii \in Lcds |-> text[ii + 1]]

Blank == [glyphs |-> {}, messages |-> {}]
AllBlank == [ii \in Lcds |-> Blank]
NoDigits == [ii \in Lcds |-> ""]
NoIcons == [watchdog |-> "none", ntp |-> "none", wifi |-> "none"]

LcdPrintClockDigit(screen, char) == [screen EXCEPT !.glyphs = @ \cup {char}]

LcdPrintLine(msgs) == [screens EXCEPT ![0].messages = @ \cup msgs]

(* Mutant of Redraw: the digit is drawn over the old one. *)
MutantNoClear(screen, char) == LcdPrintClockDigit(screen, char)

(* Clear the display and print its character. *)
Redraw(screen, char) == LcdPrintClockDigit(Blank, char)

(* lcd_update_icons draws nothing for WATCHDOG_OK and so leaves the icon   *)
(* that stands there.                                                      *)
LcdUpdateIcons(on, watchdog, ntp, wifi) ==
  [watchdog |-> IF watchdog = "WATCHDOG_OK" THEN on.watchdog ELSE watchdog,
   ntp |-> ntp, wifi |-> wifi]

Later(n) == IF n = Len(Times) THEN Synced ELSE n + 1

-----------------------------------------------------------------------------
(* clock_init clears all displays and the clock's state, and shows what    *)
(* the last reset recorded; no error of its own means the watchdog bit.    *)
ClockInit(ntp, wifi) ==
  /\ place \in {"off", "reset"}
  /\ place' = "start"
  /\ current_lcd_digits' = NoDigits
  /\ first_clock_tick' = TRUE
  /\ shown' = 0
  /\ local_time' = 1
  /\ IF place = "off"
     THEN /\ screens' = [AllBlank EXCEPT ![0].messages = {"INIT_OK"}]
          /\ icons' = NoIcons
          /\ watchdog_reset_error' = "WATCHDOG_OK"
     ELSE /\ screens' = AllBlank
          /\ watchdog_reset_error' = IF ntp # "NTP_OK" THEN "WATCHDOG_NTP"
                                     ELSE IF wifi # "WIFI_OK" THEN "WATCHDOG_WIFI"
                                     ELSE "WATCHDOG_RESET"
          /\ icons' = LcdUpdateIcons(NoIcons, watchdog_reset_error', ntp, wifi)

(* No configuration: two messages, and the access point until a reboot. *)
FlashCheckFails ==
  /\ place = "start"
  /\ place' = "ap"
  /\ screens' = LcdPrintLine({"FLASH_ERROR", "WIFI_ERROR"})
  /\ UNCHANGED <<icons, current_lcd_digits, first_clock_tick, watchdog_reset_error,
                 local_time, shown>>

(* The access point is done, or the watchdog bites. *)
SystemReboot ==
  /\ place \in {"ap", "run"}
  /\ place' = "reset"
  /\ UNCHANGED <<screens, icons, current_lcd_digits, first_clock_tick,
                 watchdog_reset_error, local_time, shown>>

(* clock_start: Wi-Fi is up.  A cold boot has no watchdog error. *)
ClockStart ==
  /\ place = "start"
  /\ place' = "run"
  /\ screens' = IF "INIT_OK" \in screens[0].messages THEN LcdPrintLine({"WIFI_OK"})
                                                     ELSE screens
  /\ icons' = LcdUpdateIcons(icons, watchdog_reset_error, "NTP_OK", "WIFI_OK")
  /\ UNCHANGED <<current_lcd_digits, first_clock_tick, watchdog_reset_error,
                 local_time, shown>>

(* An error ends the run: its icons stand until the displays are reset. *)
FatalReset(ntp, wifi) ==
  /\ place \in {"start", "run"}
  /\ place' = "reset"
  /\ icons' = LcdUpdateIcons(icons, "WATCHDOG_RESET", ntp, wifi)
  /\ UNCHANGED <<screens, current_lcd_digits, first_clock_tick, watchdog_reset_error,
                 local_time, shown>>

(* The first answer sets the time of day. *)
SetTimeOfDay(n) ==
  /\ place = "run"
  /\ local_time < Synced
  /\ local_time' = n
  /\ UNCHANGED <<place, screens, icons, current_lcd_digits, first_clock_tick,
                 watchdog_reset_error, shown>>

Changed(ii, n) == current_lcd_digits[ii] # Digits(n)[ii] \/ first_clock_tick

(* Mutant of IconsAfter: only the character's part is cleared. *)
MutantKeepsIcons(n, watchdog, ntp) ==
  IF \E ii \in Lcds : Changed(ii, n)
  THEN LcdUpdateIcons(icons, watchdog, ntp, "WIFI_OK") ELSE icons

(* Mutant of IconsAfter: the icons are drawn, then the display cleared. *)
MutantIconsFirst(n, watchdog, ntp) ==
  CASE Changed(0, n) -> NoIcons
    [] ~Changed(0, n) /\ (\E ii \in Lcds : Changed(ii, n)) ->
         LcdUpdateIcons(icons, watchdog, ntp, "WIFI_OK")
    [] OTHER -> icons

(* The icons after a tick: redrawn whenever any character changes, after   *)
(* the first display was cleared if its own character did.                 *)
IconsAfter(n, watchdog, ntp) ==
  IF \E ii \in Lcds : Changed(ii, n)
  THEN LcdUpdateIcons(IF Changed(0, n) THEN NoIcons ELSE icons, watchdog, ntp, "WIFI_OK")
  ELSE icons

(* clock_task after a tick; ntp is the error in its copy of the state. *)
Tick(n, ntp) ==
  /\ place = "run"
  /\ local_time' = n
  /\ shown' = n
  /\ watchdog_reset_error' = IF n >= Synced THEN "WATCHDOG_OK" ELSE watchdog_reset_error
  /\ screens' = [ii \in Lcds |-> IF Changed(ii, n) THEN Redraw(screens[ii], Digits(n)[ii])
                                                   ELSE screens[ii]]
  /\ icons' = IconsAfter(n, watchdog_reset_error', ntp)
  /\ current_lcd_digits' = Digits(n)
  /\ first_clock_tick' = FALSE
  /\ UNCHANGED place

-----------------------------------------------------------------------------
Init ==
  /\ place = "off"
  /\ screens = AllBlank
  /\ icons = NoIcons
  /\ current_lcd_digits = NoDigits
  /\ first_clock_tick = TRUE
  /\ watchdog_reset_error = "WATCHDOG_OK"
  /\ local_time = 1
  /\ shown = 0

(* The displays go dark and RAM is lost. *)
PowerCut ==
  /\ place # "off"
  /\ place' = "off"
  /\ screens' = AllBlank
  /\ icons' = NoIcons
  /\ current_lcd_digits' = NoDigits
  /\ first_clock_tick' = TRUE
  /\ watchdog_reset_error' = "WATCHDOG_OK"
  /\ local_time' = 1
  /\ shown' = 0

(* One error or none, as fatal_reset's callers give it. *)
Reasons == (NtpErrors \X {"WIFI_OK"}) \cup ({"NTP_OK"} \X (WifiErrors \cup {"WIFI_OK"}))

Next ==
  \/ \E r \in Reasons : ClockInit(r[1], r[2])
  \/ FlashCheckFails \/ SystemReboot \/ ClockStart \/ PowerCut
  \/ \E r \in Reasons \ {<<"NTP_OK", "WIFI_OK">>} : FatalReset(r[1], r[2])
  \/ \E n \in Synced .. Len(Times) : SetTimeOfDay(n)
  \/ \E ntp \in NtpErrors \cup {"NTP_OK"}, n \in {local_time, Later(local_time)} : Tick(n, ntp)

Spec == Init /\ [][Next]_vars

(* The clock's timer runs for as long as the clock does, and time passes.  *)
TimePasses == \E ntp \in NtpErrors \cup {"NTP_OK"} : Tick(Later(local_time), ntp)

-----------------------------------------------------------------------------
(* After a tick, each display shows the character of that tick's local     *)
(* time and nothing else: no rest of an earlier one, no message of the     *)
(* boot (clock.c:449-470, where only what differs is redrawn).             *)
DigitsShown ==
  place = "run" /\ ~first_clock_tick =>
    \A ii \in Lcds : screens[ii] = [glyphs |-> {Digits(shown)[ii]}, messages |-> {}]

(* While the clock remembers why the watchdog reset it, the icon that says *)
(* so stands on the first display, however often that is cleared           *)
(* (clock.c:383 and 466-468).                                              *)
WatchdogShown ==
  place = "run" /\ watchdog_reset_error # "WATCHDOG_OK" =>
    icons.watchdog = watchdog_reset_error

(* Once the error is forgotten the icon goes, or the clock does            *)
(* (clock.c:434-437): at the latest when the weekday's first letter        *)
(* changes.                                                                *)
IconGoes ==
  (place = "run" /\ watchdog_reset_error = "WATCHDOG_OK")
    ~> (icons.watchdog = "none" \/ place # "run")
=============================================================================
