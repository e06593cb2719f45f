----------------------------- MODULE ClockTask -----------------------------
(***************************************************************************)
(* The running clock: the main loop of pico_main.c with clock_start and    *)
(* clock_task of clock.c, preempted by the one-second clock timer and by   *)
(* the NTP callbacks of module Ntp, and watched by the hardware watchdog.  *)
(* pc is the main loop's place; one step of it is the code between two     *)
(* accesses to what an interrupt also touches.                             *)
(*                                                                         *)
(* time(NULL) is not kept as a number: the code only compares it with      *)
(* ntp_last_sync, so age is time(NULL) - ntp_last_sync, and sys_time is    *)
(* the time settimeofday was last given.                                   *)
(***************************************************************************)
EXTENDS Ntp

CONSTANTS
  SyncInterval,    \* NTP_SYNC_INTERVAL_SEC, in timer periods
  IntervalWrap,    \* size of the uint32_t ntp_interval, scaled down
  KodLimit,        \* bound: no KoD arrives once ntp_interval is this large
  WatchdogTimeout, \* WATCHDOG_TIMEOUT_MS, in timer periods
  HoldTime         \* FACTORY_RESET_HOLD_TIME_MS / 1000

ASSUME ClockAssumption ==
  /\ SyncInterval \in Nat \ {0}
  /\ IntervalWrap \in Nat /\ SyncInterval < IntervalWrap
  /\ KodLimit \in Nat
  /\ WatchdogTimeout \in Nat \ {0}
  /\ HoldTime \in Nat \ {0}
  /\ NtpTimeout + 2 * (WatchdogTimeout - 1) < MsWrap - 1

VARIABLES
  pc,                   \* where the main loop is
  caller,               \* who called ntp_request_async
  snap,                 \* clock_task's ntp_atomic_state
  utc_age,              \* clock_task's utc_now, less ntp_last_sync
  age,                  \* time(NULL) - ntp_last_sync
  sys_time,             \* what settimeofday was last given
  ntp_interval,         \* clock_state.ntp_interval
  clock_tick_updated,   \* clock_state.clock_tick_updated
  ap_mode_triggered,    \* clock_state.ap_mode_triggered
  button_hold_seconds,  \* static of clock_timer_callback
  startup_led_active,   \* the LED is still pulsing, in main
  watchdog,             \* timer periods begun since watchdog_update
  cause,                \* why the Pico is resetting
  persistent_ntp_error  \* persistent_state.ntp_error

mainVars == <<caller, snap, utc_age, age, ntp_interval, sys_time,
              startup_led_active>>
timerVars == <<clock_tick_updated, ap_mode_triggered, button_hold_seconds>>
resetVars == <<cause, persistent_ntp_error>>
otherVars == <<timerVars, resetVars, watchdog, ms>>
vars == <<ntpVars, pc, mainVars, otherVars>>

-----------------------------------------------------------------------------
NoSnap == [status |-> "IDLE", error |-> "OK", request_start_ms |-> 0]

(* The places of the main loop.  The first four are clock_start's and      *)
(* ntp_request_async's; "task" to "check" are clock_task's; "loop" is the  *)
(* rest of main's loop.                                                    *)
Places == {"request", "lookup", "send", "arm",
           "task", "update", "set_time", "tick", "show", "check",
           "loop", "reset"}

(* The one-second timer and the watchdog run from the end of clock_start. *)
Armed == caller = "clock_task"

(* The core executes code. *)
Running == pc # "reset"

(* One step of the main loop. *)
Go(from, to) ==
  /\ Running
  /\ pc = from
  /\ pc' = to

(* clock_task returns, or calls ntp_request_async as the last thing it     *)
(* does: its copies are gone.                                              *)
Leave(to) ==
  /\ Go("check", to)
  /\ snap' = NoSnap
  /\ utc_age' = 0

-----------------------------------------------------------------------------
(* fatal_reset, which does not return. *)
FatalReset(from, e) ==
  /\ Go(from, "reset")
  /\ cause' = "fatal"
  /\ persistent_ntp_error' = e
  /\ UNCHANGED <<ntpVars, mainVars, timerVars, watchdog, ms>>

-----------------------------------------------------------------------------
(* ntp_request_async.  It returns into clock_start, which goes on to start *)
(* the timers, or into clock_task, which is then done.                     *)
AfterRequest == IF caller = "clock_start" THEN "arm" ELSE "loop"

RequestBegin ==
  /\ Go("request", "lookup")
  /\ NtpRequestBegin
  /\ UNCHANGED <<mainVars, otherVars>>

RequestLookup ==
  \/ /\ \/ Go("lookup", "send") /\ NtpLookupCached
        \/ Go("lookup", AfterRequest) /\ NtpLookupStarted
     /\ UNCHANGED <<mainVars, otherVars>>
  \/ FatalReset("lookup", "DNS")

RequestSend ==
  /\ Go("send", AfterRequest)
  /\ NtpStartUdpRequest
  /\ UNCHANGED <<timeVars, ntp_server_address, dns_pending, began, mainVars,
                 otherVars>>

-----------------------------------------------------------------------------
(* The end of clock_start: the watchdog and the two timers. *)
ClockStart ==
  \/ /\ Go("arm", "task")
     /\ caller' = "clock_task"
     /\ UNCHANGED <<ntpVars, snap, utc_age, age, ntp_interval, sys_time,
                    startup_led_active, otherVars>>
  \/ FatalReset("arm", "INIT")

-----------------------------------------------------------------------------
(* clock_task. *)

(* The NTP state is read once; all of clock_task works on this copy. *)
TaskSnapshot ==
  /\ Go("task", "update")
  /\ snap' = NtpAtomicState
  /\ UNCHANGED <<ntpVars, caller, utc_age, age, ntp_interval, sys_time,
                 startup_led_active, otherVars>>

(* An announced time is taken: first the flag is cleared ... *)
TaskUpdate ==
  /\ Go("update", IF ntp_time_updated THEN "set_time" ELSE "tick")
  /\ ntp_time_updated' = FALSE
  /\ UNCHANGED <<stateVars, linkVars, pastVars, ntp_time, mainVars, otherVars>>

(* ... then the time is read and set, and counts as the last sync. *)
TaskSetTime ==
  /\ Go("set_time", "tick")
  /\ sys_time' = ntp_time
  /\ age' = 0
  /\ UNCHANGED <<ntpVars, caller, snap, utc_age, ntp_interval,
                 startup_led_active, otherVars>>

(* Without a tick clock_task is over. *)
TaskNoTick ==
  /\ Go("tick", "loop")
  /\ ~clock_tick_updated
  /\ snap' = NoSnap
  /\ UNCHANGED <<ntpVars, caller, utc_age, age, ntp_interval, sys_time,
                 startup_led_active, otherVars>>

(* Mutant of TaskTick: the NTP flag is cleared with the tick's. *)
MutantClearsBothFlags ==
  /\ Go("tick", "show")
  /\ clock_tick_updated
  /\ clock_tick_updated' = FALSE
  /\ ntp_time_updated' = FALSE
  /\ watchdog' = 0
  /\ UNCHANGED <<stateVars, linkVars, pastVars, ntp_time, mainVars,
                 ap_mode_triggered, button_hold_seconds, resetVars, ms>>

(* With a tick the watchdog is fed. *)
TaskTick ==
  /\ Go("tick", "show")
  /\ clock_tick_updated
  /\ clock_tick_updated' = FALSE
  /\ watchdog' = 0
  /\ UNCHANGED <<ntpVars, mainVars, ap_mode_triggered, button_hold_seconds,
                 resetVars, ms>>

(* utc_now is read and the displays are redrawn from it. *)
TaskShow ==
  /\ Go("show", "check")
  /\ utc_age' = age
  /\ UNCHANGED <<ntpVars, caller, snap, age, ntp_interval, sys_time,
                 startup_led_active, otherVars>>

TimeIsUp == MsSince(ms, snap.request_start_ms) > NtpTimeout

(* Mutant of TaskCheckPending: no timeout. *)
MutantNeverTimesOut ==
  /\ snap.status = "PENDING"
  /\ Leave("loop")
  /\ UNCHANGED <<ntpVars, caller, age, ntp_interval, sys_time,
                 startup_led_active, otherVars>>

(* The copy says PENDING: the request may have run out of time. *)
TaskCheckPending ==
  /\ snap.status = "PENDING"
  /\ \/ TimeIsUp /\ FatalReset("check", "TIMEOUT")
     \/ /\ ~TimeIsUp
        /\ Leave("loop")
        /\ UNCHANGED <<ntpVars, caller, age, ntp_interval, sys_time,
                       startup_led_active, otherVars>>

(* Mutant of TaskCheckFailed: the error is read again, not from the copy. *)
MutantRereadsError ==
  /\ snap.status = "FAILED"
  /\ FatalReset("check", error)

(* The copy says FAILED: reboot with the error of the copy. *)
TaskCheckFailed ==
  /\ snap.status = "FAILED"
  /\ FatalReset("check", snap.error)

(* After a KoD the interval doubles, in 32 bits. *)
NextInterval ==
  IF snap.status = "KOD" THEN (2 * ntp_interval) % IntervalWrap
  ELSE ntp_interval

(* Mutant of TaskCheckAnswered: a success leaves the status as it is. *)
MutantSuccessStays ==
  /\ snap.status \in {"KOD", "SUCCESS"}
  /\ Leave("loop")
  /\ NtpAtomicStatus(IF snap.status = "KOD" THEN "IDLE" ELSE NULL_STATUS,
                     NULL_ERROR, 0)
  /\ ForgetAnswer
  /\ ntp_interval' = NextInterval
  /\ UNCHANGED <<timeVars, linkVars, caller, age, sys_time,
                 startup_led_active, otherVars>>

(* Mutant of TaskCheckAnswered: every answer doubles the interval. *)
MutantAlwaysBacksOff ==
  /\ snap.status \in {"KOD", "SUCCESS"}
  /\ Leave("loop")
  /\ NtpAtomicStatus("IDLE", NULL_ERROR, 0)
  /\ ForgetAnswer
  /\ ntp_interval' = (2 * ntp_interval) % IntervalWrap
  /\ UNCHANGED <<timeVars, linkVars, caller, age, sys_time,
                 startup_led_active, otherVars>>

(* The copy says KOD or SUCCESS: back to IDLE. *)
TaskCheckAnswered ==
  /\ snap.status \in {"KOD", "SUCCESS"}
  /\ Leave("loop")
  /\ NtpAtomicStatus("IDLE", NULL_ERROR, 0)
  /\ ForgetAnswer
  /\ ntp_interval' = NextInterval
  /\ UNCHANGED <<timeVars, linkVars, caller, age, sys_time,
                 startup_led_active, otherVars>>

(* Mutant of TaskCheckIdle: ntp_last_sync is set before it is compared. *)
MutantForgetsSync ==
  /\ snap.status = "IDLE"
  /\ Leave("loop")
  /\ age' = age - utc_age
  /\ UNCHANGED <<ntpVars, caller, ntp_interval, sys_time, startup_led_active,
                 otherVars>>

(* The copy says IDLE: once the interval since the last sync is over, the  *)
(* time is asked for, and ntp_last_sync becomes utc_now.                   *)
TaskCheckIdle ==
  LET due == utc_age >= ntp_interval
  IN /\ snap.status = "IDLE"
     /\ Leave(IF due THEN "request" ELSE "loop")
     /\ age' = IF due THEN age - utc_age ELSE age
     /\ UNCHANGED <<ntpVars, caller, ntp_interval, sys_time,
                    startup_led_active, otherVars>>

TaskCheck == TaskCheckPending \/ TaskCheckFailed \/ TaskCheckAnswered
             \/ TaskCheckIdle

-----------------------------------------------------------------------------
(* The rest of main's loop: the access point if the button was held (and a *)
(* reboot when that is over), else the start-up LED and a sleep.           *)
LoopAccessPoint ==
  /\ Go("loop", "reset")
  /\ ap_mode_triggered
  /\ ap_mode_triggered' = FALSE
  /\ cause' = "access_point"
  /\ UNCHANGED <<ntpVars, mainVars, clock_tick_updated, button_hold_seconds,
                 persistent_ntp_error, watchdog, ms>>

(* Mutant of LoopSleep: any end of the request stops the LED. *)
MutantLedOnAnyEnd ==
  /\ Go("loop", "task")
  /\ ~ap_mode_triggered
  /\ startup_led_active' = (startup_led_active /\ status = "PENDING")
  /\ UNCHANGED <<ntpVars, caller, snap, utc_age, age, ntp_interval, sys_time,
                 otherVars>>

LoopSleep ==
  /\ Go("loop", "task")
  /\ ~ap_mode_triggered
  /\ startup_led_active' = (startup_led_active /\ status # "IDLE")
  /\ UNCHANGED <<ntpVars, caller, snap, utc_age, age, ntp_interval, sys_time,
                 otherVars>>

-----------------------------------------------------------------------------
(* What a timer period leaves alone and what it counts. *)
Period ==
  /\ ms' = NextMs
  /\ age' = age + 1
  /\ watchdog' = watchdog + 1
  /\ UNCHANGED <<ntpVars, pc, caller, snap, utc_age, ntp_interval, sys_time,
                 startup_led_active, resetVars>>

(* The period that is starting is the last one the watchdog allows. *)
Expiring == watchdog + 1 = WatchdogTimeout

Held(pressed) == IF pressed THEN button_hold_seconds + 1 ELSE 0

(* Mutant of ClockTimerCallback: releasing the button takes the trigger back. *)
MutantReleaseCancels(pressed) ==
  /\ Running /\ Armed /\ ~Expiring
  /\ button_hold_seconds' = IF Held(pressed) >= HoldTime THEN 0
                            ELSE Held(pressed)
  /\ ap_mode_triggered' = (Held(pressed) >= HoldTime)
  /\ clock_tick_updated' = TRUE
  /\ Period

(* clock_timer_callback, once per period; the period itself passes here. *)
ClockTimerCallback(pressed) ==
  /\ Running /\ Armed /\ ~Expiring
  /\ button_hold_seconds' = IF Held(pressed) >= HoldTime THEN 0
                            ELSE Held(pressed)
  /\ ap_mode_triggered' = (ap_mode_triggered \/ Held(pressed) >= HoldTime)
  /\ clock_tick_updated' = TRUE
  /\ Period

(* The lwIP interrupt, between any two steps of the main loop. *)
NtpInterrupt ==
  /\ Running
  /\ \/ NtpDnsCallback
     \/ \E d \in Datagrams :
          /\ NtpRecvCallback(d)
          /\ status' = "KOD" => ntp_interval < KodLimit
  /\ UNCHANGED <<pc, mainVars, otherVars>>

(* The hardware watchdog, when it was not fed for its timeout. *)
WatchdogReset ==
  /\ Running /\ Armed /\ Expiring
  /\ pc' = "reset"
  /\ cause' = "watchdog"
  /\ UNCHANGED <<ntpVars, mainVars, timerVars, persistent_ntp_error, watchdog,
                 ms>>

-----------------------------------------------------------------------------
(* clock_init and clock_start up to the first request, on a Pico whose     *)
(* flash holds a configuration and whose Wi-Fi connects.                   *)
Init ==
  /\ NtpInit
  /\ pc = "request"
  /\ caller = "clock_start"
  /\ snap = NoSnap
  /\ utc_age = 0
  /\ age = 0
  /\ sys_time = NoTime
  /\ ntp_interval = SyncInterval
  /\ clock_tick_updated = FALSE
  /\ ap_mode_triggered = FALSE
  /\ button_hold_seconds = 0
  /\ startup_led_active = TRUE
  /\ watchdog = 0
  /\ cause = "none"
  /\ persistent_ntp_error = "OK"

(* The Pico comes up again; RAM is initialised afresh. *)
Restart ==
  /\ pc = "reset"
  /\ pc' = "request"
  /\ status' = "IDLE" /\ error' = "OK" /\ request_start_ms' = 0
  /\ ntp_server_address' = NoServer
  /\ ntp_time' = NoTime /\ ntp_time_updated' = FALSE
  /\ dns_pending' = FALSE /\ pcb_bound' = FALSE
  /\ ms' = BootMs /\ began' = BootMs /\ answer' = "no_request"
  /\ caller' = "clock_start"
  /\ snap' = NoSnap
  /\ utc_age' = 0 /\ age' = 0
  /\ sys_time' = NoTime
  /\ ntp_interval' = SyncInterval
  /\ clock_tick_updated' = FALSE
  /\ ap_mode_triggered' = FALSE
  /\ button_hold_seconds' = 0
  /\ startup_led_active' = TRUE
  /\ watchdog' = 0
  /\ cause' = "none"
  /\ persistent_ntp_error' = "OK"

Main == RequestBegin \/ RequestLookup \/ RequestSend \/ ClockStart
        \/ TaskSnapshot \/ TaskUpdate \/ TaskSetTime \/ TaskNoTick
        \/ TaskTick \/ TaskShow \/ TaskCheck \/ LoopAccessPoint \/ LoopSleep

Timer == \E pressed \in BOOLEAN : ClockTimerCallback(pressed)

Next == Main \/ Timer \/ NtpInterrupt \/ WatchdogReset \/ Restart

Spec == Init /\ [][Next]_vars

(* The core runs, the timer keeps firing, the hardware resets and boots.   *)
(* Nothing is assumed of the network.                                      *)
Fairness == WF_vars(Main) /\ WF_vars(Timer) /\ WF_vars(WatchdogReset)
            /\ WF_vars(Restart)

FairSpec == Spec /\ Fairness
-----------------------------------------------------------------------------
(* Properties. *)

SnapType == [status : NtpStatus, error : NtpError,
             request_start_ms : 0 .. (MsWrap - 1)]

(* TypeOK: every variable has a value of its C type, with the fields of    *)
(* ntp_state_t and of its copy in clock_task drawn from the enumerations   *)
(* of ntp.h.                                                               *)
TypeOK ==
  /\ status \in NtpStatus
  /\ error \in NtpError
  /\ request_start_ms \in 0 .. (MsWrap - 1)
  /\ ntp_server_address \in Servers \cup {NoServer}
  /\ ntp_time \in Times \cup {NoTime}
  /\ ntp_time_updated \in BOOLEAN
  /\ dns_pending \in BOOLEAN
  /\ pcb_bound \in BOOLEAN
  /\ ms \in 0 .. (MsWrap - 1)
  /\ began \in 0 .. (MsWrap - 1)
  /\ answer \in {"no_request", "none", "answered"}
  /\ pc \in Places
  /\ caller \in {"clock_start", "clock_task"}
  /\ snap \in SnapType
  /\ utc_age \in Nat
  /\ age \in Nat
  /\ sys_time \in Times \cup {NoTime}
  /\ ntp_interval \in 0 .. (IntervalWrap - 1)
  /\ clock_tick_updated \in BOOLEAN
  /\ ap_mode_triggered \in BOOLEAN
  /\ button_hold_seconds \in 0 .. (HoldTime - 1)
  /\ startup_led_active \in BOOLEAN
  /\ watchdog \in 0 .. (WatchdogTimeout - 1)
  /\ cause \in {"none", "fatal", "access_point", "watchdog"}
  /\ persistent_ntp_error \in NtpError

(* NoLostUpdate: whenever no new time is announced and clock_task is not   *)
(* just taking one, the system clock was set from the newest ntp_time.  A  *)
(* datagram that lands anywhere in clock_task is applied or still flagged, *)
(* because clock_task clears the flag before it reads the time and the     *)
(* callback writes the time before it sets the flag.                       *)
NoLostUpdate ==
  ~ntp_time_updated /\ pc \notin {"set_time", "reset"}
    => sys_time = ntp_time

(* StatusTruthful: the shared status is PENDING exactly while a request is *)
(* unanswered.  clock_task works on a stale copy and writes IDLE back, and *)
(* callbacks fire between announcing a request and sending it: neither     *)
(* hides an outstanding request nor resurrects an answered one.            *)
StatusTruthful == status = "PENDING" <=> answer = "none"

TimedOut == cause = "fatal" /\ persistent_ntp_error = "TIMEOUT"

(* TimeoutJustified: the clock resets for an NTP timeout only when more    *)
(* than ntp_timeout has passed since the request, across the wrap of the   *)
(* uint32_t millisecond counter, except for a request made in the very     *)
(* millisecond 0 after a wrap.                                             *)
TimeoutJustified ==
  TimedOut => MsSince(ms, began) > NtpTimeout \/ began = 0

(* PendingBounded: while the core runs no request stays unanswered for     *)
(* longer than ntp_timeout and two watchdog periods: missed and coalesced  *)
(* ticks cannot put the timeout off any further (same exception).          *)
PendingBounded ==
  Running /\ status = "PENDING"
    => MsSince(ms, began) <= NtpTimeout + 2 * (WatchdogTimeout - 1) \/ began = 0

(* SyncBounded: while the core runs, the time since the last sync (or the  *)
(* last request for one) never passes ntp_interval by more than the slack  *)
(* a request's timeout and the watchdog leave.                             *)
SyncBounded ==
  Running => age <= ntp_interval + NtpTimeout + 2 * WatchdogTimeout

(* FailureReasonKept: a fatal_reset leaves an NTP error in                 *)
(* persistent_state, never NTP_OK: status and error are written and copied *)
(* as a pair, so the copy that says FAILED also says why.                  *)
FailureReasonKept == cause = "fatal" => persistent_ntp_error # "OK"

(* LedTruthful: the start-up LED stops pulsing only after an NTP server    *)
(* could be asked, although main tests the IDLE that ntp_state also holds  *)
(* before the first request.                                               *)
LedTruthful == ~startup_led_active => pcb_bound

(* NoStaleError: the icons are "coloured red for errors and green for      *)
(* normal status" (README.md): once a request has been answered and the    *)
(* answer dealt with, ntp_state holds no error, or the display would show  *)
(* one until the next request, a day later.                                *)
NoStaleError == status = "IDLE" => error = "OK"

(* BackoffRespected: "NTP syncs start at once per day and respect back-off *)
(* requests from the server" (README): the 32-bit interval is never below  *)
(* a day, for fewer KoDs than it takes to overflow it.                     *)
BackoffRespected == ntp_interval >= SyncInterval

(* The abstract clock: a request is open while the status says PENDING.    *)
Clock == INSTANCE SyncedClock WITH
  request <- IF pc = "reset" THEN "down"
             ELSE IF status = "PENDING" THEN "open" ELSE "none",
  heard <- ntp_time,
  taken <- sys_time

(* ImplementsClock: whatever the interrupts do between its steps, the code *)
(* behaves as SyncedClock: clock_task opens no request over an open one,   *)
(* never sets the clock to anything but the newest time heard, and, though *)
(* the network may stay silent and ticks may be missed, every request ends *)
(* and every announced time is taken, or the Pico reboots.                 *)
ImplementsClock == Clock!FairSpec

(* KeepsSyncing: the clock forever asks for the time or sets it, whatever  *)
(* the network delivers.                                                   *)
KeepsSyncing == []<>(pc \in {"request", "set_time"})

(* ButtonServed: a button held for three seconds leads to the access point *)
(* or to some other reset.                                                 *)
ButtonServed == ap_mode_triggered ~> pc = "reset"
=============================================================================
