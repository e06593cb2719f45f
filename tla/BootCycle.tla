----------------------------- MODULE BootCycle -----------------------------
(***************************************************************************)
(* The clock from boot to boot: clock_init, the shape of clock_start and   *)
(* of main's loop, fatal_reset and system_reboot, the configuration in     *)
(* flash and the persistent_state that lies in uninitialised RAM and       *)
(* survives a watchdog reset but not a power cut.  The Wi-Fi connection    *)
(* that a start waits for is WifiConnect's loop; what happens inside one   *)
(* run of the clock is ClockTask's subject and is one step here.           *)
(***************************************************************************)
EXTENDS WifiConnect

CONSTANTS
  Configs,       \* configurations a user can save
  NoConfig,      \* a flash page without CONFIG_MAGIC
  Torn,          \* a page cut off while being programmed, magic in place
  NtpErrors,     \* the ntp_error_t values but NTP_OK
  Junk,          \* RAM contents that are no enumeration value
  IconInterval   \* WATCHDOG_ICON_INTERVAL

ASSUME BootAssumption ==
  /\ NoConfig \notin Configs
  /\ Torn \notin Configs /\ Torn # NoConfig
  /\ "OK" \notin NtpErrors
  /\ Junk # "OK"
  /\ IconInterval \in Nat

VARIABLES
  phase,                \* how far the program has come
  flash,                \* the page at FLASH_TARGET_OFFSET
  writing,              \* what config_store_handler is about to program
  persistent_state,     \* [ntp_error, wifi_error] in .uninitialized_data
  watchdog_reason,      \* watchdog_caused_reboot()
  cold_boot,            \* clock_state.cold_boot
  watchdog_reset_error, \* clock_state.watchdog_reset_error
  ntp_reset_error,      \* clock_state.ntp_reset_error
  wifi_reset_error,     \* clock_state.wifi_reset_error
  flash_config,         \* clock_state.flash_config
  clock_set,            \* the system time came from NTP
  uptime,               \* seconds the clock has been running
  fault,                \* history: the errors the last run ended with
  initialised,          \* history: a run has ended since power-on, or the
                        \*   boot was cold: persistent_state was written
  saved,                \* history: what the user last asked to be in flash
  interrupted           \* history: power failed during the last write

pageVars == <<flash, writing>>
errorVars == <<watchdog_reset_error, ntp_reset_error, wifi_reset_error>>
runVars == <<clock_set, uptime>>
pastVars == <<fault, initialised, saved, interrupted>>
ramVars == <<cold_boot, errorVars, flash_config, runVars>>
vars == <<phase, pageVars, persistent_state, watchdog_reason, ramVars,
          wifiVars, pastVars>>

-----------------------------------------------------------------------------
Phases == {"off", "boot", "flash_check", "start", "wifi", "running",
           "access_point", "erase", "program", "stored", "reset"}

NoErrors == [ntp_error |-> "OK", wifi_error |-> "OK"]

(* What power-up can leave in persistent_state. *)
Garbage == [ntp_error : NtpErrors \cup {"OK", Junk},
            wifi_error : WifiErrors \cup {"OK", Junk}]

(* A bug: the last else is missing and watchdog_error is uninitialised. *)
MutantUninitialised(p) ==
  IF p.ntp_error # "OK" THEN "WATCHDOG_NTP"
  ELSE IF p.wifi_error # "OK" THEN "WATCHDOG_WIFI"
  ELSE Junk

(* The reason a warm boot shows for the errors it finds. *)
WatchdogError(p) ==
  IF p.ntp_error # "OK" THEN "WATCHDOG_NTP"
  ELSE IF p.wifi_error # "OK" THEN "WATCHDOG_WIFI"
  ELSE "WATCHDOG_RESET"

(* The page holds CONFIG_MAGIC. *)
Valid(page) == page # NoConfig

(* Every bit of clock_state is zeroed at the start of clock_init, and the  *)
(* buffers of the last run are gone.                                       *)
ClearRam ==
  /\ writing' = NoConfig
  /\ cold_boot' = FALSE
  /\ watchdog_reset_error' = "WATCHDOG_OK"
  /\ ntp_reset_error' = "OK"
  /\ wifi_reset_error' = "OK"
  /\ flash_config' = NoConfig
  /\ clock_set' = FALSE
  /\ uptime' = 0
  /\ ResetLocals

-----------------------------------------------------------------------------
(* clock_init, as far as the choice of boot. *)

(* The button is held for the whole of the start-up: an empty              *)
(* configuration without the magic goes to flash.  persistent_state is not *)
(* touched on this path.                                                   *)
FactoryReset ==
  /\ phase = "boot"
  /\ phase' = "erase"
  /\ cold_boot' = ~watchdog_reason
  /\ writing' = NoConfig
  /\ saved' = NoConfig
  /\ UNCHANGED <<flash, persistent_state, watchdog_reason, errorVars,
                 flash_config, runVars, wifiVars, fault, initialised,
                 interrupted>>

ColdBoot ==
  /\ phase = "boot"
  /\ ~watchdog_reason
  /\ phase' = "flash_check"
  /\ cold_boot' = TRUE
  /\ persistent_state' = NoErrors
  /\ initialised' = TRUE
  /\ UNCHANGED <<pageVars, watchdog_reason, errorVars, flash_config,
                 runVars, wifiVars, fault, saved, interrupted>>

(* The errors are kept for display and cleared; cleared is what the state  *)
(* becomes.                                                                *)
WarmBootTo(cleared) ==
  /\ phase = "boot"
  /\ watchdog_reason
  /\ phase' = "flash_check"
  /\ cold_boot' = FALSE
  /\ watchdog_reset_error' = WatchdogError(persistent_state)
  /\ ntp_reset_error' = persistent_state.ntp_error
  /\ wifi_reset_error' = persistent_state.wifi_error
  /\ persistent_state' = cleared
  /\ UNCHANGED <<pageVars, watchdog_reason, flash_config, runVars, wifiVars,
                 pastVars>>

(* A bug: the Wi-Fi error is left for the next boot to show again. *)
MutantKeepsError == WarmBootTo([persistent_state EXCEPT !.ntp_error = "OK"])

WarmBoot == WarmBootTo(NoErrors)

(* The rest of clock_init: a valid configuration is copied to RAM, without *)
(* one the access point starts.                                            *)
FlashCheckTo(without) ==
  /\ phase = "flash_check"
  /\ IF Valid(flash)
     THEN phase' = "start" /\ flash_config' = flash
     ELSE phase' = without /\ UNCHANGED flash_config
  /\ UNCHANGED <<pageVars, persistent_state, watchdog_reason, cold_boot,
                 errorVars, runVars, wifiVars, pastVars>>

(* A bug: without a configuration the clock reboots and tries again. *)
MutantNoAccessPoint == FlashCheckTo("reset")

FlashCheck == FlashCheckTo("access_point")

-----------------------------------------------------------------------------
(* Resets. *)

(* The run ends with these errors. *)
EndRun(errors) ==
  /\ phase' = "reset"
  /\ fault' = errors
  /\ initialised' = TRUE
  /\ ResetLocals
  /\ UNCHANGED <<pageVars, watchdog_reason, ramVars, saved, interrupted>>

(* fatal_reset records both errors; the watchdog resets the chip. *)
FatalReset(ntp, wifi) ==
  /\ persistent_state' = [ntp_error |-> ntp, wifi_error |-> wifi]
  /\ EndRun([ntp_error |-> ntp, wifi_error |-> wifi])

(* system_reboot records nothing, and neither does a watchdog that bites. *)
SystemReboot == EndRun(NoErrors) /\ UNCHANGED persistent_state

(* The chip comes out of a watchdog reset. *)
Reboot ==
  /\ phase = "reset"
  /\ phase' = "boot"
  /\ watchdog_reason' = TRUE
  /\ ClearRam
  /\ UNCHANGED <<flash, persistent_state, pastVars>>

-----------------------------------------------------------------------------
(* clock_start: Wi-Fi, then NTP and the timers. *)
WifiInit ==
  /\ phase = "start"
  /\ \/ FatalReset("OK", "WIFI_INIT_ERROR")
     \/ /\ phase' = "wifi"
        /\ UNCHANGED <<pageVars, persistent_state, watchdog_reason, ramVars,
                       wifiVars, pastVars>>

WifiRetry ==
  /\ phase = "wifi"
  /\ \E a \in Attempts : Retry(a)
  /\ UNCHANGED <<phase, pageVars, persistent_state, watchdog_reason,
                 ramVars, pastVars>>

WifiFails ==
  /\ phase = "wifi"
  /\ \E a \in Attempts : /\ a.ret # "OK" /\ ~TriesAgain(a)
                         /\ FatalReset("OK", Returned[a.ret])

(* Connected: the request to NTP and the timers fail or the clock runs. *)
WifiConnected ==
  /\ phase = "wifi"
  /\ \/ \E n \in NtpErrors : FatalReset(n, "OK")
     \/ /\ phase' = "running"
        /\ ResetLocals
        /\ UNCHANGED <<pageVars, persistent_state, watchdog_reason, ramVars,
                       pastVars>>

(* The running clock sets the time of day from NTP. *)
NtpSync ==
  /\ phase = "running"
  /\ clock_set' = TRUE
  /\ UNCHANGED <<phase, pageVars, persistent_state, watchdog_reason,
                 cold_boot, errorVars, flash_config, uptime, wifiVars,
                 pastVars>>

(* The time of day is past the icon interval: always once NTP has set it,  *)
(* and otherwise counted from boot.  last_watchdog_error_time is 0.        *)
PastIconInterval == clock_set \/ uptime > IconInterval

(* A tick of clock_task clears the watchdog icon.  Uptime counts to just   *)
(* past the icon interval.                                                 *)
Tick ==
  /\ phase = "running"
  /\ uptime' = IF uptime > IconInterval THEN uptime ELSE uptime + 1
  /\ watchdog_reset_error' =
       IF PastIconInterval THEN "WATCHDOG_OK" ELSE watchdog_reset_error
  /\ UNCHANGED <<phase, pageVars, persistent_state, watchdog_reason,
                 cold_boot, ntp_reset_error, wifi_reset_error, flash_config,
                 clock_set, wifiVars, pastVars>>

NtpFailure ==
  /\ phase = "running"
  /\ \E n \in NtpErrors : FatalReset(n, "OK")

WatchdogBites == phase = "running" /\ SystemReboot

(* The button is held while the clock runs. *)
ApMode ==
  /\ phase = "running"
  /\ phase' = "access_point"
  /\ UNCHANGED <<pageVars, persistent_state, watchdog_reason, ramVars,
                 wifiVars, pastVars>>

-----------------------------------------------------------------------------
(* start_wifi_access_point.  It fails and returns; or a form is saved,     *)
(* after which the loop that waits for it may sleep for a second more, and *)
(* another form may arrive; both callers then reboot.                      *)
ApFails == phase = "access_point" /\ SystemReboot

ApSave ==
  /\ phase \in {"access_point", "stored"}
  /\ phase' = "erase"
  /\ \E c \in Configs : writing' = c /\ saved' = c
  /\ UNCHANGED <<flash, persistent_state, watchdog_reason, ramVars,
                 wifiVars, fault, initialised, interrupted>>

ApDone == phase = "stored" /\ SystemReboot

(* config_store_handler: erase the sector, then program the page.  An      *)
(* invalidation reboots, the form's handler answers and goes on.           *)
FlashErase ==
  /\ phase = "erase"
  /\ phase' = "program"
  /\ flash' = NoConfig
  /\ UNCHANGED <<writing, persistent_state, watchdog_reason, ramVars,
                 wifiVars, pastVars>>

FlashProgramTo(page, next) ==
  /\ phase = "program"
  /\ phase' = next
  /\ flash' = page
  /\ interrupted' = FALSE
  /\ UNCHANGED <<writing, persistent_state, watchdog_reason, ramVars,
                 wifiVars, fault, initialised, saved>>

(* A bug: the configuration that was in use is stored again. *)
MutantStoresOld ==
  FlashProgramTo(IF Valid(writing) /\ Valid(flash_config)
                 THEN flash_config ELSE writing,
                 IF Valid(writing) THEN "stored" ELSE "reset")

(* A bug: the access point goes on waiting after a form is stored. *)
MutantNeverCompletes ==
  FlashProgramTo(writing, IF Valid(writing) THEN "access_point" ELSE "reset")

FlashProgram ==
  FlashProgramTo(writing, IF Valid(writing) THEN "stored" ELSE "reset")

-----------------------------------------------------------------------------
(* Power.  What a cut in the middle of a write leaves of the page. *)
Remains ==
  CASE phase = "erase" -> {flash, NoConfig}
                          \cup IF Valid(flash) THEN {Torn} ELSE {}
    [] phase = "program" -> {NoConfig, writing}
                            \cup IF Valid(writing) THEN {Torn} ELSE {}
    [] OTHER -> {flash}

PowerCut ==
  /\ phase # "off"
  /\ phase' = "off"
  /\ flash' \in Remains
  /\ interrupted' = (interrupted \/ phase \in {"erase", "program"})
  /\ fault' = NoErrors
  /\ ResetLocals
  /\ UNCHANGED <<writing, persistent_state, watchdog_reason, ramVars,
                 initialised, saved>>

PowerOn ==
  /\ phase = "off"
  /\ phase' = "boot"
  /\ persistent_state' \in Garbage
  /\ initialised' = FALSE
  /\ watchdog_reason' = FALSE
  /\ ClearRam
  /\ UNCHANGED <<flash, fault, saved, interrupted>>

(* A new clock: nothing in flash, no power. *)
Init ==
  /\ phase = "off"
  /\ flash = NoConfig
  /\ writing = NoConfig
  /\ persistent_state = NoErrors
  /\ watchdog_reason = FALSE
  /\ cold_boot = FALSE
  /\ watchdog_reset_error = "WATCHDOG_OK"
  /\ ntp_reset_error = "OK"
  /\ wifi_reset_error = "OK"
  /\ flash_config = NoConfig
  /\ clock_set = FALSE
  /\ uptime = 0
  /\ elapsed = 0 /\ bad_auth_count = 0
  /\ fault = NoErrors
  /\ initialised = FALSE
  /\ saved = NoConfig
  /\ interrupted = FALSE

Boot == ColdBoot \/ WarmBoot
Program == FlashCheck \/ WifiInit \/ WifiRetry \/ WifiFails \/ WifiConnected
           \/ FlashErase \/ FlashProgram \/ ApDone \/ Reboot
Events == NtpSync \/ Tick \/ NtpFailure \/ WatchdogBites \/ ApMode
          \/ ApFails \/ ApSave
Next == FactoryReset \/ Boot \/ Program \/ Events \/ PowerCut \/ PowerOn

Spec == Init /\ [][Next]_vars

(* The program runs on, power comes back, nobody holds the button through  *)
(* every boot, and the second the access point's loop sleeps ends however  *)
(* many forms arrive in it.                                                *)
FairSpec == Spec /\ WF_vars(Program) /\ WF_vars(PowerOn) /\ SF_vars(Boot)
                 /\ SF_vars(ApDone)

-----------------------------------------------------------------------------
(* Properties. *)

(* TypeOK: every variable has a value of its C type or of the page it      *)
(* stands for; the error fields may hold what power-up left in them.       *)
TypeOK ==
  /\ phase \in Phases
  /\ flash \in Configs \cup {NoConfig, Torn}
  /\ writing \in Configs \cup {NoConfig}
  /\ persistent_state \in Garbage
  /\ watchdog_reason \in BOOLEAN
  /\ cold_boot \in BOOLEAN
  /\ watchdog_reset_error \in {"WATCHDOG_OK", "WATCHDOG_RESET",
                               "WATCHDOG_NTP", "WATCHDOG_WIFI"}
  /\ ntp_reset_error \in NtpErrors \cup {"OK", Junk}
  /\ wifi_reset_error \in WifiErrors \cup {"OK", Junk}
  /\ flash_config \in Configs \cup {NoConfig, Torn}
  /\ clock_set \in BOOLEAN
  /\ uptime \in 0 .. (IconInterval + 1)
  /\ elapsed \in Nat /\ bad_auth_count \in 0 .. (BadAuthRetryCount - 1)
  /\ fault \in Garbage
  /\ initialised \in BOOLEAN
  /\ saved \in Configs \cup {NoConfig}
  /\ interrupted \in BOOLEAN

(* The phases in which the errors of the last run are on display. *)
Shown == {"flash_check", "start", "wifi", "running", "access_point", "stored"}

(* The errors on display are those the last run ended with. *)
ShowsFault ==
  /\ ntp_reset_error = fault.ntp_error
  /\ wifi_reset_error = fault.wifi_error
  /\ watchdog_reset_error \in {"WATCHDOG_OK", WatchdogError(fault)}
  /\ phase \in {"flash_check", "start", "wifi"}
       => watchdog_reset_error = WatchdogError(fault)

(* ReasonShown: after a watchdog reset clock_init shows exactly the errors *)
(* fatal_reset recorded before it (pico_main.c:11-12), however many        *)
(* factory resets, plain reboots and failures came before, as long as      *)
(* persistent_state was written since power-on.                            *)
ReasonShown == phase \in Shown /\ ~cold_boot /\ initialised => ShowsFault

(* ConfigIsLastSaved: unless power failed in the middle of the last write, *)
(* the clock starts and runs with what the user saved last, and does not   *)
(* start after a factory reset (clock.c:248-266, 356-360).                 *)
ConfigIsLastSaved ==
  phase \in {"start", "wifi", "running"} /\ ~interrupted
    => flash_config = saved /\ saved \in Configs

(* ConnectBounded: however timeouts and refusals alternate, no attempt to  *)
(* connect starts later than the abandon timeout and the time that the     *)
(* refusals tolerated cost (config.h:25-28, wifi.c:75-107).                *)
ConnectBounded ==
  elapsed <= AbandonTimeout
             + bad_auth_count * (ConnectTimeout + BadAuthRetryDelay)

(* OffersWay: the program never reboots for ever without trying to start   *)
(* the clock or offering the configuration page, whatever is in flash      *)
(* (clock.c:356-368).                                                      *)
OffersWay == []<>(phase \in {"start", "running", "access_point", "off"})

(* FormTakesEffect: a stored form leads to a start of the clock, unless    *)
(* another form is stored, the button held or the power cut first          *)
(* (wifi.c:509-512, 597-608).                                              *)
FormTakesEffect ==
  (flash = writing /\ Valid(flash) /\ phase \in {"access_point", "stored"})
    ~> (phase \in {"start", "erase", "off"})
=============================================================================
