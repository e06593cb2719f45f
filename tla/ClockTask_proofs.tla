-------------------------- MODULE ClockTask_proofs --------------------------
(***************************************************************************)
(* Proofs about ClockTask for every number of servers, times and           *)
(* datagrams and every value of the time constants.                        *)
(***************************************************************************)
EXTENDS ClockTask, TLAPS

(* utc_now is read between "show" and "check" and is never in the future,  *)
(* so ntp_last_sync = utc_now leaves a non-negative age.                   *)
UtcNotAhead ==
  /\ utc_age <= age
  /\ pc \notin {"check", "reset"} => utc_age = 0

TypeInv == TypeOK /\ UtcNotAhead

(* The flags, which are proved apart from the rest. *)
FlagsOK ==
  /\ ntp_time_updated \in BOOLEAN
  /\ dns_pending \in BOOLEAN
  /\ pcb_bound \in BOOLEAN
  /\ clock_tick_updated \in BOOLEAN
  /\ ap_mode_triggered \in BOOLEAN
  /\ startup_led_active \in BOOLEAN

(* The initial state is well typed. *)
LEMMA TypeInit == Init => TypeInv
<1> SUFFICES ASSUME Init PROVE TypeInv
  OBVIOUS
<1>1. FlagsOK
  BY Zenon DEF Init, NtpInit, FlagsOK
<1>2. QED
  BY <1>1, NtpAssumption, ClockAssumption
     DEF Init, NtpInit, TypeInv, TypeOK, UtcNotAhead, NtpStatus, NtpError,
         Places, SnapType, NoSnap, FlagsOK

(* The doubled interval still fits its 32 bits. *)
LEMMA DoubledInterval ==
  ASSUME NEW i \in 0 .. (IntervalWrap - 1)
  PROVE  (2 * i) % IntervalWrap \in 0 .. (IntervalWrap - 1)
BY ClockAssumption

(* A callback posts a verdict of the enumerations. *)
LEMMA VerdictType ==
  ASSUME NEW d \in Datagrams
  PROVE  \/ NtpVerdict(d) = <<"FAILED", "DNS">>
         \/ NtpVerdict(d) = <<"FAILED", "PROTOCOL">>
         \/ NtpVerdict(d) = <<"KOD", "OK">>
         \/ NtpVerdict(d) = <<"SUCCESS", "OK">>
BY DEF NtpVerdict

(* Every step keeps the flags Boolean. *)
LEMMA FlagsNext == FlagsOK /\ [Next]_vars => FlagsOK'
<1> SUFFICES ASSUME FlagsOK, [Next]_vars
             PROVE  FlagsOK'
  OBVIOUS
<1> USE DEF FlagsOK, ntpVars, stateVars, timeVars, linkVars, pastVars,
            mainVars, timerVars, resetVars, otherVars, Leave, FatalReset, Period
<1>1. CASE RequestBegin
  BY <1>1, Zenon DEF RequestBegin, Go, NtpRequestBegin, NtpAtomicStatus
<1>2. CASE RequestLookup
  BY <1>2, Zenon DEF RequestLookup, Go, NtpLookupCached, NtpLookupStarted, FatalReset
<1>3. CASE RequestSend
  BY <1>3, Zenon DEF RequestSend, Go, NtpStartUdpRequest, NtpSendOk, NtpSendFails
<1>4. CASE ClockStart
  BY <1>4, Zenon DEF ClockStart, Go, FatalReset
<1>5. CASE TaskSnapshot
  BY <1>5, Zenon DEF TaskSnapshot, Go
<1>6. CASE TaskUpdate
  BY <1>6, Zenon DEF TaskUpdate, Go
<1>7. CASE TaskSetTime
  BY <1>7, Zenon DEF TaskSetTime, Go
<1>8. CASE TaskNoTick \/ TaskTick
  BY <1>8, Zenon DEF TaskNoTick, TaskTick, Go
<1>9. CASE TaskShow
  BY <1>9, Zenon DEF TaskShow, Go
<1>10. CASE TaskCheck
  BY <1>10, Zenon DEF TaskCheck, TaskCheckPending, TaskCheckFailed,
              TaskCheckAnswered, TaskCheckIdle, Go, FatalReset
<1>11. CASE LoopAccessPoint
  BY <1>11, Zenon DEF LoopAccessPoint, Go
<1>12. CASE LoopSleep
  BY <1>12, Zenon DEF LoopSleep, Go
<1>13. CASE Timer
  BY <1>13, Zenon DEF Timer, ClockTimerCallback, Period
<1>14. CASE NtpInterrupt
  BY <1>14, Zenon DEF NtpInterrupt, NtpDnsCallback, NtpDnsFound, NtpDnsNotFound,
              NtpStartUdpRequest, NtpSendOk, NtpSendFails, NtpRecvCallback,
              NtpTimerCallback
<1>15. CASE WatchdogReset
  BY <1>15, Zenon DEF WatchdogReset
<1>16. CASE Restart
  BY <1>16, Zenon DEF Restart
<1>17. CASE UNCHANGED vars
  BY <1>17, Zenon DEF vars
<1>18. QED
  BY <1>1, <1>2, <1>3, <1>4, <1>5, <1>6, <1>7, <1>8, <1>9, <1>10, <1>11, <1>12, <1>13, <1>14, <1>15, <1>16, <1>17 DEF Next, Main

(* Every step keeps the types: one case per action. *)
LEMMA TypeNext == TypeInv /\ [Next]_vars => TypeInv'
<1> SUFFICES ASSUME TypeInv, [Next]_vars
             PROVE  TypeInv'
  OBVIOUS
<1> FlagsOK'
  BY FlagsNext DEF TypeInv, TypeOK, FlagsOK
<1> USE NtpAssumption, ClockAssumption
        DEF FlagsOK, TypeInv, TypeOK, UtcNotAhead, NtpStatus, NtpError, Places,
            SnapType, ntpVars, stateVars, timeVars, linkVars, pastVars,
            mainVars, timerVars, resetVars, otherVars
<1>1. CASE RequestBegin
  BY <1>1 DEF RequestBegin, Go, NtpRequestBegin, NtpAtomicStatus,
              NULL_STATUS, NULL_ERROR
<1>2. CASE RequestLookup
  BY <1>2 DEF RequestLookup, Go, NtpLookupCached, NtpLookupStarted,
              FatalReset, AfterRequest
<1>3. CASE RequestSend
  BY <1>3 DEF RequestSend, Go, NtpStartUdpRequest, NtpSendOk, NtpSendFails,
              NtpAtomicStatus, NULL_STATUS, NULL_ERROR, NoteAnswer,
              AfterRequest
<1>4. CASE ClockStart
  BY <1>4 DEF ClockStart, Go, FatalReset
<1>5. CASE TaskSnapshot
  BY <1>5 DEF TaskSnapshot, Go, NtpAtomicState
<1>6. CASE TaskUpdate
  BY <1>6 DEF TaskUpdate, Go
<1>7. CASE TaskSetTime
  BY <1>7 DEF TaskSetTime, Go
<1>8. CASE TaskNoTick \/ TaskTick
  BY <1>8 DEF TaskNoTick, TaskTick, Go, NoSnap
<1>9. CASE TaskShow
  BY <1>9 DEF TaskShow, Go
<1>10. CASE TaskCheckPending
  BY <1>10 DEF TaskCheckPending, TimeIsUp, Leave, Go, FatalReset, NoSnap
<1>11. CASE TaskCheckFailed
  BY <1>11 DEF TaskCheckFailed, Go, FatalReset
<1>12. CASE TaskCheckAnswered
  BY <1>12, DoubledInterval
     DEF TaskCheckAnswered, Leave, ForgetAnswer, NextInterval, Go, NtpAtomicStatus, NULL_STATUS, NULL_ERROR,
         NoSnap
<1>13. CASE TaskCheckIdle
  BY <1>13 DEF TaskCheckIdle, Leave, Go, NoSnap
<1>14. CASE LoopAccessPoint
  BY <1>14 DEF LoopAccessPoint, Go
<1>15. CASE LoopSleep
  BY <1>15 DEF LoopSleep, Go
<1>16. ASSUME NEW pressed \in BOOLEAN, ClockTimerCallback(pressed)
       PROVE  TypeInv'
  BY <1>16 DEF ClockTimerCallback, Held, Period, Expiring, Running, NextMs
<1>17. CASE NtpInterrupt /\ NtpDnsCallback
  BY <1>17 DEF NtpInterrupt, NtpDnsCallback, NtpDnsFound, NtpDnsNotFound,
               NtpStartUdpRequest, NtpSendOk, NtpSendFails, NtpAtomicStatus,
               NULL_STATUS, NULL_ERROR, NoteAnswer
<1>18. ASSUME NEW d \in Datagrams, NtpRecvCallback(d),
              UNCHANGED <<pc, mainVars, otherVars>>
       PROVE  TypeInv'
  <2>1. d.time \in Times
    BY DEF Datagram
  <2>2. QED
    BY <1>18, <2>1, VerdictType
       DEF NtpRecvCallback, NtpTimerCallback, NtpAtomicStatus, NULL_STATUS,
           NULL_ERROR, NoteAnswer
<1>19. CASE WatchdogReset
  BY <1>19 DEF WatchdogReset, Running
<1>20. CASE Restart
  BY <1>20 DEF Restart, NoSnap
<1>21. CASE UNCHANGED vars
  BY <1>21 DEF vars
<1>22. QED
  BY <1>1, <1>2, <1>3, <1>4, <1>5, <1>6, <1>7, <1>8, <1>9, <1>10, <1>11,
     <1>12, <1>13, <1>14, <1>15, <1>16, <1>17, <1>18, <1>19, <1>20, <1>21
     DEF Next, Main, TaskCheck, Timer, NtpInterrupt

(* Type correctness: in every reachable state each field of clock_state    *)
(* and ntp_state that the main loop and the interrupts share has a value   *)
(* of its C type, and ntp_last_sync is never after the present.            *)
THEOREM TypeCorrect == Spec => [](TypeOK /\ UtcNotAhead)
<1>1. Init => TypeInv
  BY TypeInit
<1>2. TypeInv /\ [Next]_vars => TypeInv'
  BY TypeNext
<1>3. QED
  BY <1>1, <1>2, PTL DEF Spec, TypeInv
-----------------------------------------------------------------------------
(* The copy taken by clock_task is in use between "update" and "check". *)
InTask == pc \in {"update", "set_time", "tick", "show", "check"}

(* A failure and its reason travel together, in the shared state and in    *)
(* the copy, and no callback reports the errors that are fatal_reset's own. *)
ErrorInv ==
  /\ status = "FAILED" => error # "OK"
  /\ snap.status = "FAILED" => snap.error # "OK"
  /\ error # "TIMEOUT"
  /\ snap.error # "TIMEOUT"

(* Only a request makes the status PENDING, and none is made while a copy  *)
(* is in use.                                                              *)
CopyInv == InTask /\ status = "PENDING" => snap.status = "PENDING"

(* The start time of the outstanding request, in the shared state and in   *)
(* the copy, is the true one unless the request began in millisecond 0.    *)
StartInv ==
  /\ status = "PENDING" => request_start_ms = began \/ began = 0
  /\ InTask /\ snap.status = "PENDING"
       => snap.request_start_ms = began \/ began = 0

(* Nothing moves in a Pico that is resetting. *)
ResetInv ==
  /\ cause = "none" <=> pc # "reset"

(* The request was heard by a server whenever the status is not that of a  *)
(* pending or failed request.                                              *)
ReachedInv ==
  /\ status \in {"SUCCESS", "KOD"} => pcb_bound
  /\ status = "IDLE" /\ pc \notin {"request", "reset"} => pcb_bound
  /\ InTask /\ snap.status \in {"SUCCESS", "KOD"} => pcb_bound

(* How long the outstanding request has been waiting, counted against the  *)
(* watchdog: outside "show" and "check" the last look at the request was   *)
(* no earlier than the last feeding.                                       *)
WaitInv ==
  status = "PENDING" /\ began # 0 /\ pc # "reset"
    => MsSince(ms, began) <= NtpTimeout + watchdog
         + (IF pc \in {"show", "check"} THEN WatchdogTimeout - 1 ELSE 0)

(* The properties and what they rest on, but for the waiting time. *)
ControlInv ==
  /\ ErrorInv
  /\ CopyInv
  /\ StartInv
  /\ ResetInv
  /\ ReachedInv
  /\ NoLostUpdate
  /\ StatusTruthful
  /\ TimeoutJustified
  /\ FailureReasonKept
  /\ LedTruthful

(* The inductive invariant. *)
SafetyInv == TypeInv /\ ControlInv /\ WaitInv

(* Every step keeps the properties: one case per action. *)
LEMMA ControlNext == SafetyInv /\ [Next]_vars => ControlInv'
<1> SUFFICES ASSUME SafetyInv, [Next]_vars
             PROVE  ControlInv'
  OBVIOUS
<1> TypeInv' /\ FlagsOK'
  BY TypeNext, FlagsNext DEF SafetyInv, TypeInv, TypeOK, FlagsOK
<1> USE DEF SafetyInv, ControlInv, InTask, ntpVars, stateVars, timeVars,
            linkVars, pastVars, mainVars, timerVars, resetVars, otherVars, NULL_STATUS, NULL_ERROR,
            ErrorInv, CopyInv, StartInv, ResetInv, ReachedInv, NoLostUpdate,
            StatusTruthful, TimeoutJustified, TimedOut, FailureReasonKept,
            LedTruthful, TypeInv, TypeOK, SnapType, FlagsOK
<1>1. CASE RequestBegin
  BY <1>1 DEF RequestBegin, Go, NtpRequestBegin, NtpAtomicStatus
<1>2. CASE RequestLookup
  BY <1>2 DEF RequestLookup, Go, NtpLookupCached, NtpLookupStarted,
              FatalReset, AfterRequest
<1>3. CASE RequestSend
  BY <1>3 DEF RequestSend, Go, NtpStartUdpRequest, NtpSendOk, NtpSendFails,
              NtpAtomicStatus, NoteAnswer, AfterRequest
<1>4. CASE ClockStart
  BY <1>4 DEF ClockStart, Go, FatalReset
<1>5. CASE TaskSnapshot
  BY <1>5 DEF TaskSnapshot, Go, NtpAtomicState
<1>6. CASE TaskUpdate
  BY <1>6 DEF TaskUpdate, Go
<1>7. CASE TaskSetTime
  BY <1>7 DEF TaskSetTime, Go
<1>8. CASE TaskNoTick \/ TaskTick
  BY <1>8 DEF TaskNoTick, TaskTick, Go, NoSnap
<1>9. CASE TaskShow
  BY <1>9 DEF TaskShow, Go
<1>10. CASE TaskCheckPending
  BY <1>10 DEF TaskCheckPending, TimeIsUp, Leave, Go, FatalReset, NoSnap
<1>11. CASE TaskCheckFailed
  BY <1>11 DEF TaskCheckFailed, Go, FatalReset
<1>12. CASE TaskCheckAnswered
  BY <1>12 DEF TaskCheckAnswered, Leave, ForgetAnswer, NextInterval, Go, NtpAtomicStatus, NoSnap
<1>13. CASE TaskCheckIdle
  BY <1>13 DEF TaskCheckIdle, Leave, Go, NoSnap
<1>14. CASE LoopAccessPoint
  BY <1>14 DEF LoopAccessPoint, Go
<1>15. CASE LoopSleep
  BY <1>15 DEF LoopSleep, Go
<1>16. CASE Timer
  BY <1>16 DEF Timer, ClockTimerCallback, Period, Expiring, Running
<1>17. CASE NtpInterrupt /\ NtpDnsCallback
  BY <1>17 DEF NtpInterrupt, NtpDnsCallback, NtpDnsFound, NtpDnsNotFound,
              NtpStartUdpRequest, NtpSendOk, NtpSendFails, NtpAtomicStatus,
              NoteAnswer, Running
<1>18. ASSUME NEW d \in Datagrams, NtpRecvCallback(d), Running,
              UNCHANGED <<pc, mainVars, otherVars>>
       PROVE  ControlInv'
  BY <1>18, VerdictType
     DEF NtpRecvCallback, NtpTimerCallback, NtpAtomicStatus, NoteAnswer,
         Running
<1>19. CASE WatchdogReset
  BY <1>19 DEF WatchdogReset, Running
<1>20. CASE Restart
  BY <1>20 DEF Restart, NoSnap
<1>21. CASE UNCHANGED vars
  BY <1>21 DEF vars
<1>22. QED
  BY <1>1, <1>2, <1>3, <1>4, <1>5, <1>6, <1>7, <1>8, <1>9, <1>10, <1>11,
     <1>12, <1>13, <1>14, <1>15, <1>16, <1>17, <1>18, <1>19, <1>20, <1>21
     DEF Next, Main, TaskCheck, NtpInterrupt

(* One timer period makes the modular difference one larger, as long as it *)
(* is not about to wrap itself.                                            *)
LEMMA SinceStep ==
  ASSUME NEW a \in 0 .. (MsWrap - 1), NEW b \in 0 .. (MsWrap - 1),
         MsSince(a, b) < MsWrap - 1
  PROVE  MsSince(IF a = MsWrap - 1 THEN 0 ELSE a + 1, b) = MsSince(a, b) + 1
BY NtpAssumption DEF MsSince

(* Every step keeps the bound on the wait.  A request begins with no wait; *)
(* a timer period adds one to the wait and one to the watchdog; feeding    *)
(* the watchdog trades its count for the allowance of "show" and "check";  *)
(* the check ends that allowance or resets.                                *)
LEMMA WaitNext == SafetyInv /\ [Next]_vars => WaitInv'
<1> SUFFICES ASSUME SafetyInv, [Next]_vars
             PROVE  WaitInv'
  OBVIOUS
<1> TypeInv'
  BY TypeNext DEF SafetyInv
<1> USE NtpAssumption, ClockAssumption
        DEF SafetyInv, WaitInv, TypeInv, TypeOK, ntpVars, stateVars, pastVars,
            mainVars, otherVars, NULL_STATUS,
            NULL_ERROR
<1>1. CASE RequestBegin
  BY <1>1 DEF RequestBegin, Go, NtpRequestBegin, MsSince
<1>2. CASE RequestLookup \/ RequestSend \/ ClockStart
  <2>1. status' = "PENDING" /\ pc' # "reset"
          => status = "PENDING" /\ pc # "reset"
    BY <1>2 DEF RequestLookup, RequestSend, ClockStart, Go, FatalReset,
                NtpLookupCached, NtpLookupStarted, NtpStartUdpRequest, NtpSendOk, NtpSendFails, NtpAtomicStatus
  <2>2. UNCHANGED <<ms, began, watchdog>>
    BY <1>2 DEF RequestLookup, RequestSend, ClockStart, FatalReset,
                NtpLookupCached, NtpLookupStarted
  <2>3. pc \notin {"show", "check"}
    BY <1>2 DEF RequestLookup, RequestSend, ClockStart, FatalReset, Go
  <2>4. QED
    BY <2>1, <2>2, <2>3 DEF MsSince
<1>3. CASE TaskSnapshot \/ TaskUpdate \/ TaskSetTime \/ LoopSleep
  BY <1>3 DEF TaskSnapshot, TaskUpdate, TaskSetTime, LoopSleep, Go, MsSince
<1>4. CASE TaskNoTick \/ TaskTick
  <2>1. UNCHANGED <<ms, began, status>>
    BY <1>4 DEF TaskNoTick, TaskTick
  <2>2. MsSince(ms, began) \in Int /\ MsSince(ms, began)' = MsSince(ms, began)
    BY <2>1 DEF MsSince
  <2>3. CASE TaskNoTick
    BY <2>1, <2>2, <2>3 DEF TaskNoTick, Go
  <2>4. CASE TaskTick
    BY <2>1, <2>2, <2>4 DEF TaskTick, Go, Running
  <2>5. QED
    BY <1>4, <2>3, <2>4
<1>5. CASE TaskShow
  BY <1>5 DEF TaskShow, Go, MsSince
<1>6. CASE TaskCheckPending
  <2> SUFFICES ASSUME status' = "PENDING", began' # 0, pc' # "reset"
               PROVE  MsSince(ms', began') <= NtpTimeout + watchdog'
    BY <1>6 DEF TaskCheckPending, Leave, FatalReset, Go
  <2>1. pc = "check" /\ UNCHANGED <<ms, began, watchdog>>
    BY <1>6 DEF TaskCheckPending, TimeIsUp, Leave, Go, FatalReset
  <2>2. snap.request_start_ms = began
    BY <1>6, <2>1 DEF TaskCheckPending, Leave, FatalReset, Go, ControlInv, StartInv, InTask
  <2>3. ~(MsSince(ms, began) > NtpTimeout)
    BY <1>6, <2>2 DEF TaskCheckPending, TimeIsUp, FatalReset, Go
  <2>4. QED
    BY <2>1, <2>3 DEF MsSince
<1>7. CASE TaskCheckFailed \/ LoopAccessPoint \/ WatchdogReset
  BY <1>7 DEF TaskCheckFailed, LoopAccessPoint, WatchdogReset, FatalReset, Go
<1>8. CASE TaskCheckAnswered \/ TaskCheckIdle
  BY <1>8 DEF TaskCheckAnswered, TaskCheckIdle, Leave, ForgetAnswer, MsSince, Go,
              NtpAtomicStatus,
              ControlInv, CopyInv, InTask
<1>9. ASSUME NEW pressed \in BOOLEAN, ClockTimerCallback(pressed),
             status = "PENDING", began # 0
      PROVE  WaitInv'
  <2>1. MsSince(ms, began) \in Int
    BY DEF MsSince
  <2>2. MsSince(ms, began) < MsWrap - 1
    BY <1>9, <2>1 DEF ClockTimerCallback, Period, Expiring, Running
  <2>3. MsSince(ms', began) = MsSince(ms, began) + 1
    BY <1>9, <2>2, SinceStep DEF ClockTimerCallback, Period, NextMs
  <2>4. QED
    BY <1>9, <2>1, <2>3 DEF ClockTimerCallback, Period, Expiring, Running
<1>10. CASE Timer
  BY <1>9, <1>10 DEF Timer, ClockTimerCallback, Period
<1>11. CASE NtpInterrupt
  <2>1. status' = "PENDING" => status = "PENDING"
    BY <1>11, VerdictType
       DEF NtpInterrupt, NtpDnsCallback, NtpDnsFound, NtpDnsNotFound,
           NtpStartUdpRequest, NtpSendOk, NtpSendFails, NtpAtomicStatus,
           NtpRecvCallback
  <2>2. UNCHANGED <<ms, began, watchdog, pc>>
    BY <1>11 DEF NtpInterrupt, NtpDnsCallback, NtpDnsFound, NtpDnsNotFound,
                 NtpRecvCallback
  <2>3. QED
    BY <2>1, <2>2 DEF MsSince
<1>12. CASE Restart
  BY <1>12 DEF Restart
<1>13. CASE UNCHANGED vars
  BY <1>13 DEF vars, MsSince
<1>14. QED
  BY <1>1, <1>2, <1>3, <1>4, <1>5, <1>6, <1>7, <1>8, <1>10, <1>11, <1>12,
     <1>13 DEF Next, Main, TaskCheck

(* The initial state satisfies the inductive invariant. *)
LEMMA SafetyInit == Init => SafetyInv
<1> SUFFICES ASSUME Init PROVE SafetyInv
  OBVIOUS
<1>1. TypeInv
  BY TypeInit
<1>2. ControlInv /\ WaitInv
  BY DEF Init, NtpInit, NoSnap, ControlInv, ErrorInv, CopyInv, StartInv,
         InTask, ResetInv, ReachedInv, NoLostUpdate, StatusTruthful,
         TimeoutJustified, TimedOut, FailureReasonKept, LedTruthful, WaitInv
<1>3. QED
  BY <1>1, <1>2 DEF SafetyInv

(* The inductive invariant holds in every reachable state. *)
LEMMA SafetyAlways == Spec => []SafetyInv
<1>1. SafetyInv /\ [Next]_vars => SafetyInv'
  BY TypeNext, ControlNext, WaitNext DEF SafetyInv
<1>2. QED
  BY SafetyInit, <1>1, PTL DEF Spec

(* No time an NTP answer brings is lost between the receive callback and   *)
(* clock_task, wherever the one interrupts the other.                      *)
THEOREM UpdatesApplied == Spec => []NoLostUpdate
<1>1. SafetyInv => NoLostUpdate
  BY DEF SafetyInv, ControlInv
<1>2. QED
  BY SafetyAlways, <1>1, PTL

(* The status clock_task acts on is PENDING exactly while a request is     *)
(* outstanding, although it acts on a stale copy.                          *)
THEOREM StatusCorrect == Spec => []StatusTruthful
<1>1. SafetyInv => StatusTruthful
  BY DEF SafetyInv, ControlInv
<1>2. QED
  BY SafetyAlways, <1>1, PTL

(* clock_task never calls a request timed out early, for any width of the  *)
(* millisecond counter, unless it began in millisecond 0.                  *)
THEOREM TimeoutsJustified == Spec => []TimeoutJustified
<1>1. SafetyInv => TimeoutJustified
  BY DEF SafetyInv, ControlInv
<1>2. QED
  BY SafetyAlways, <1>1, PTL

(* No request waits longer than ntp_timeout and two watchdog periods,      *)
(* however the ticks that look at it are delayed or coalesced.             *)
THEOREM WaitBounded == Spec => []PendingBounded
<1>1. SafetyInv => PendingBounded
  <2> SUFFICES ASSUME SafetyInv, Running, status = "PENDING", began # 0
               PROVE  MsSince(ms, began) <= NtpTimeout + 2 * (WatchdogTimeout - 1)
    BY DEF PendingBounded
  <2> QED
    BY NtpAssumption, ClockAssumption
       DEF SafetyInv, WaitInv, TypeInv, TypeOK, Running, MsSince
<1>2. QED
  BY SafetyAlways, <1>1, PTL

(* A fatal_reset of clock_task never records NTP_OK as its reason.         *)
THEOREM ReasonRecorded == Spec => []FailureReasonKept
<1>1. SafetyInv => FailureReasonKept
  BY DEF SafetyInv, ControlInv
<1>2. QED
  BY SafetyAlways, <1>1, PTL

(* The start-up LED of pico_main.c stops only once a server was reached.   *)
THEOREM LedCorrect == Spec => []LedTruthful
<1>1. SafetyInv => LedTruthful
  BY DEF SafetyInv, ControlInv
<1>2. QED
  BY SafetyAlways, <1>1, PTL
-----------------------------------------------------------------------------
(* A KoD is in the shared state or in the copy only while the interval is  *)
(* still short enough to double, and answering it takes it out of both.    *)
IntervalInv ==
  /\ ntp_interval >= SyncInterval
  /\ status = "KOD" => ntp_interval < KodLimit
  /\ InTask /\ snap.status = "KOD" => ntp_interval < KodLimit

(* Every step keeps the interval a day or longer. *)
LEMMA IntervalNext ==
  ASSUME 2 * KodLimit <= IntervalWrap
  PROVE  TypeInv /\ IntervalInv /\ [Next]_vars => IntervalInv'
<1> SUFFICES ASSUME TypeInv, IntervalInv, [Next]_vars
             PROVE  IntervalInv'
  OBVIOUS
<1> USE DEF IntervalInv, InTask, ntpVars, stateVars, mainVars, NULL_STATUS
<1>1. CASE RequestBegin \/ RequestSend
  BY <1>1 DEF RequestBegin, RequestSend, Go, NtpRequestBegin,
              NtpStartUdpRequest, NtpSendOk, NtpSendFails, NtpAtomicStatus,
              AfterRequest
<1>2. CASE RequestLookup \/ ClockStart
  BY <1>2 DEF RequestLookup, ClockStart, Go, FatalReset, NtpLookupCached,
              NtpLookupStarted, AfterRequest
<1>3. CASE TaskSnapshot
  BY <1>3 DEF TaskSnapshot, Go, NtpAtomicState
<1>4. CASE TaskUpdate \/ TaskSetTime \/ TaskNoTick \/ TaskTick \/ TaskShow
  BY <1>4 DEF TaskUpdate, TaskSetTime, TaskNoTick, TaskTick, TaskShow, Go,
              NoSnap
<1>5. CASE TaskCheckPending \/ TaskCheckFailed \/ TaskCheckIdle
  BY <1>5 DEF TaskCheckPending, TaskCheckFailed, TaskCheckIdle, Leave, Go,
              FatalReset
<1>6. CASE TaskCheckAnswered
  <2>1. status' = "IDLE" /\ pc' = "loop" /\ pc = "check"
    BY <1>6 DEF TaskCheckAnswered, Leave, Go, NtpAtomicStatus
  <2>2. CASE snap.status = "KOD"
    <3>1. ntp_interval \in Nat /\ 2 * ntp_interval < IntervalWrap
      BY <2>1, <2>2, ClockAssumption DEF TypeInv, TypeOK
    <3>2. (2 * ntp_interval) % IntervalWrap = 2 * ntp_interval
      BY <3>1, ClockAssumption
    <3>3. ntp_interval' = 2 * ntp_interval
      BY <1>6, <2>2, <3>2 DEF TaskCheckAnswered, NextInterval
    <3>4. QED
      BY <2>1, <3>1, <3>3, ClockAssumption
  <2>3. CASE snap.status # "KOD"
    BY <1>6, <2>1, <2>3 DEF TaskCheckAnswered, NextInterval
  <2>4. QED
    BY <2>2, <2>3
<1>7. CASE LoopAccessPoint \/ LoopSleep \/ WatchdogReset
  BY <1>7 DEF LoopAccessPoint, LoopSleep, WatchdogReset, Go
<1>8. CASE Timer
  BY <1>8 DEF Timer, ClockTimerCallback, Period
<1>9. CASE NtpInterrupt
  BY <1>9 DEF NtpInterrupt, NtpDnsCallback, NtpDnsFound, NtpDnsNotFound,
              NtpStartUdpRequest, NtpSendOk, NtpSendFails, NtpAtomicStatus
<1>10. CASE Restart
  BY <1>10, ClockAssumption DEF Restart, NoSnap
<1>11. CASE UNCHANGED vars
  BY <1>11 DEF vars
<1>12. QED
  BY <1>1, <1>2, <1>3, <1>4, <1>5, <1>6, <1>7, <1>8, <1>9, <1>10, <1>11
     DEF Next, Main, TaskCheck

(* Until so many KoDs have come that doubling ntp_interval would overflow  *)
(* its 32 bits, ntp_interval is never below NTP_SYNC_INTERVAL_SEC, however *)
(* clock_task's copy and the callbacks interleave.                         *)
THEOREM BackoffKept ==
  ASSUME 2 * KodLimit <= IntervalWrap
  PROVE  Spec => []BackoffRespected
<1>1. Init => IntervalInv
  BY ClockAssumption DEF Init, NtpInit, NoSnap, IntervalInv, InTask
<1>2. TypeInv /\ IntervalInv /\ [Next]_vars => IntervalInv'
  BY IntervalNext
<1>3. IntervalInv => BackoffRespected
  BY DEF IntervalInv, BackoffRespected
<1>4. Spec => []TypeInv
  BY TypeCorrect DEF TypeInv
<1>5. QED
  BY <1>1, <1>2, <1>3, <1>4, PTL DEF Spec
-----------------------------------------------------------------------------
(* The most that can have passed since clock_task last looked at the       *)
(* status: what the watchdog counts, and between the feeding and the look  *)
(* also what it had counted before.                                        *)
SinceLook ==
  watchdog + (IF pc \in {"show", "check"} THEN WatchdogTimeout - 1 ELSE 0)

(* The wait by the recorded start, which is another than the true one for  *)
(* a request of millisecond 0.                                             *)
Wait == MsSince(ms, request_start_ms)

(* The copy has the start of the request that it says is outstanding.      *)
CopyStartInv ==
  InTask /\ snap.status = "PENDING" /\ status = "PENDING"
    => snap.request_start_ms = request_start_ms

(* ntp_last_sync became utc_now, which was read after the feeding. *)
RequestAgeInv ==
  /\ pc = "request" => age <= watchdog
  /\ pc = "check" => age <= utc_age + watchdog

(* A pending request was not looked at yet, or it was on time by the       *)
(* recorded start when it was.                                             *)
PendingAgeInv ==
  status = "PENDING" =>
    \/ age <= SinceLook
    \/ /\ Wait <= NtpTimeout + SinceLook
       /\ age <= Wait + 2 * (WatchdogTimeout - 1)

(* A success that is not announced any more was taken. *)
TakenAgeInv ==
  /\ status = "SUCCESS" /\ ~ntp_time_updated /\ pc # "set_time" =>
       age <= SinceLook + (IF InTask /\ snap.status # "SUCCESS" THEN 0
                           ELSE WatchdogTimeout - 1)
  /\ InTask /\ snap.status = "SUCCESS" =>
       \/ pc = "update" /\ ntp_time_updated
       \/ pc = "set_time"
       \/ age <= SinceLook + WatchdogTimeout - 1

(* A copy that still says PENDING when the request was answered delays the *)
(* next request by one look; without one the interval is kept.             *)
StaleAgeInv ==
  status # "PENDING" =>
    IF InTask /\ snap.status = "PENDING"
    THEN age <= NtpTimeout + 2 * (WatchdogTimeout - 1) + SinceLook
    ELSE age < ntp_interval + NtpTimeout + SinceLook

(* The time since the last sync, whatever has become of the last request.  *)
AgeInv ==
  /\ CopyStartInv
  /\ Running => RequestAgeInv /\ PendingAgeInv /\ TakenAgeInv /\ StaleAgeInv

(* At boot the age is 0. *)
LEMMA AgeInit == Init => AgeInv
BY ClockAssumption, NtpAssumption
   DEF Init, NtpInit, NoSnap, AgeInv, CopyStartInv, RequestAgeInv,
       PendingAgeInv, TakenAgeInv, StaleAgeInv, InTask, SinceLook

(* A timer period adds one to the wait. *)
LEMMA WaitStep ==
  ASSUME TypeInv, Wait < MsWrap - 1, ms' = NextMs,
         UNCHANGED request_start_ms
  PROVE  Wait' = Wait + 1
BY SinceStep DEF TypeInv, TypeOK, Wait, NextMs, MsSince

(* What an interrupt does to what AgeInv speaks of. *)
Interrupted ==
  /\ Running
  /\ UNCHANGED <<pc, mainVars, otherVars, request_start_ms>>
  /\ \/ status' # "PENDING" /\ status' # "SUCCESS"
        /\ UNCHANGED ntp_time_updated
     \/ status' = "SUCCESS" /\ ntp_time_updated' = TRUE
     \/ UNCHANGED <<status, ntp_time_updated>>

(* Every step keeps it.  A look that finds a KoD does not compare the age  *)
(* with the interval, but the interval it doubles makes up for that.       *)
LEMMA AgeNext ==
  ASSUME 3 * (WatchdogTimeout - 1) < SyncInterval, 2 * KodLimit <= IntervalWrap
  PROVE  SafetyInv /\ IntervalInv /\ AgeInv /\ [Next]_vars => AgeInv'
<1> SUFFICES ASSUME SafetyInv, IntervalInv, AgeInv, [Next]_vars
             PROVE  AgeInv'
  OBVIOUS
<1>a. TypeInv /\ TypeInv' /\ CopyInv
  BY TypeNext DEF SafetyInv, ControlInv
<1>b. Wait \in Nat /\ SinceLook \in Nat
  BY <1>a, ClockAssumption, NtpAssumption
     DEF Wait, SinceLook, TypeInv, TypeOK, MsSince
<1> USE DEF AgeInv, CopyStartInv, RequestAgeInv, PendingAgeInv, TakenAgeInv,
            StaleAgeInv, InTask, Running
<1>1. CASE RequestBegin
  BY <1>1, <1>a, ClockAssumption
     DEF RequestBegin, Go, NtpRequestBegin, NtpAtomicStatus, mainVars,
         otherVars, SinceLook, TypeInv, TypeOK, timeVars, NULL_STATUS
<1>2. CASE RequestLookup
  BY <1>2, <1>a, ClockAssumption
     DEF RequestLookup, Go, FatalReset, NtpLookupCached, NtpLookupStarted,
         AfterRequest, mainVars, otherVars, ntpVars, stateVars, timeVars,
         SinceLook, TypeInv, TypeOK, Wait
<1>3. CASE RequestSend
  BY <1>3, <1>a, <1>b, ClockAssumption, NtpAssumption
     DEF RequestSend, Go, NtpStartUdpRequest, NtpSendOk, NtpSendFails,
         NtpAtomicStatus, AfterRequest, mainVars, otherVars, ntpVars,
         stateVars, timeVars, SinceLook, TypeInv, TypeOK, Wait, NULL_STATUS,
         IntervalInv
<1>4. CASE ClockStart
  BY <1>4, <1>a, ClockAssumption
     DEF ClockStart, Go, FatalReset, mainVars, otherVars, ntpVars, stateVars,
         timeVars, SinceLook, TypeInv, TypeOK, Wait
<1>5. CASE TaskSnapshot
  BY <1>5, <1>a, <1>b, ClockAssumption
     DEF TaskSnapshot, Go, NtpAtomicState, mainVars, otherVars, ntpVars,
         stateVars, timeVars, SinceLook, TypeInv, TypeOK, Wait
<1>6. CASE TaskUpdate
  BY <1>6, <1>a, <1>b, ClockAssumption
     DEF TaskUpdate, Go, mainVars, otherVars, ntpVars, stateVars, timeVars,
         SinceLook, TypeInv, TypeOK, Wait
<1>7. CASE TaskSetTime
  BY <1>7, <1>a, <1>b, ClockAssumption, NtpAssumption
     DEF TaskSetTime, Go, mainVars, otherVars, ntpVars, stateVars, timeVars,
         SinceLook, TypeInv, TypeOK, Wait
<1>8. CASE TaskNoTick
  BY <1>8, <1>a, <1>b, ClockAssumption, NtpAssumption
     DEF TaskNoTick, Go, mainVars, otherVars, ntpVars, stateVars, timeVars,
         SinceLook, TypeInv, TypeOK, Wait, NoSnap, IntervalInv
<1>9. CASE TaskTick
  BY <1>9, <1>a, <1>b, ClockAssumption, NtpAssumption
     DEF TaskTick, Go, mainVars, otherVars, ntpVars, stateVars, timeVars,
         SinceLook, TypeInv, TypeOK, Wait
<1>10. CASE TaskShow
  BY <1>10, <1>a, <1>b, ClockAssumption, NtpAssumption
     DEF TaskShow, Go, mainVars, otherVars, ntpVars, stateVars, timeVars,
         SinceLook, TypeInv, TypeOK, Wait
<1>11. CASE TaskCheckPending
  <2>1. /\ snap.status = "PENDING" /\ pc = "check"
        /\ UNCHANGED <<status, request_start_ms, ms, age, watchdog>>
        /\ UNCHANGED <<ntp_interval, ntp_time_updated>>
    BY <1>11
       DEF TaskCheckPending, Leave, Go, FatalReset, mainVars, otherVars,
           ntpVars, stateVars, timeVars
  <2>2. CASE pc' = "reset"
    BY <2>2
  <2>3. CASE ~TimeIsUp /\ pc' = "loop"
    <3>1. SinceLook' = watchdog /\ SinceLook = watchdog + WatchdogTimeout - 1
      BY <2>1, <2>3, <1>a, ClockAssumption DEF SinceLook, TypeInv, TypeOK
    <3>2. Wait' = Wait
      BY <2>1 DEF Wait
    <3>3. age \in Nat /\ watchdog \in 0 .. (WatchdogTimeout - 1)
      BY <1>a DEF TypeInv, TypeOK
    <3>4. ntp_interval \in Nat /\ ntp_interval >= SyncInterval
      BY <1>a, ClockAssumption DEF TypeInv, TypeOK, IntervalInv
    <3>5. CASE status = "PENDING"
      <4>1. Wait <= NtpTimeout
        BY <2>1, <2>3, <3>5, <1>b, NtpAssumption DEF TimeIsUp, Wait
      <4>2. age <= Wait + 2 * (WatchdogTimeout - 1)
        BY <2>1, <3>1, <3>3, <3>5, <1>b, ClockAssumption
      <4>3. PendingAgeInv'
        BY <2>1, <3>1, <3>2, <3>3, <4>1, <4>2, <1>b, NtpAssumption
      <4>4. QED
        BY <2>1, <2>3, <3>5, <4>3
    <3>6. CASE status # "PENDING"
      <4>1. age <= NtpTimeout + 2 * (WatchdogTimeout - 1) + SinceLook
        BY <2>1, <3>6
      <4>2. age < ntp_interval + NtpTimeout + SinceLook'
        BY <4>1, <3>1, <3>3, <3>4, <1>b, ClockAssumption, NtpAssumption
      <4>3. StaleAgeInv'
        BY <2>1, <2>3, <4>2
      <4>4. TakenAgeInv'
        BY <2>1, <2>3, <3>1, <3>3, ClockAssumption
      <4>5. QED
        BY <2>1, <2>3, <3>6, <4>3, <4>4
    <3>7. QED
      BY <3>5, <3>6
  <2>4. QED
    BY <1>11, <2>2, <2>3 DEF TaskCheckPending, Leave, Go, FatalReset
<1>12. CASE TaskCheckFailed
  BY <1>12 DEF TaskCheckFailed, Go, FatalReset
<1>13. CASE TaskCheckAnswered
  <2>1. /\ snap.status \in {"KOD", "SUCCESS"} /\ pc = "check" /\ pc' = "loop"
        /\ status # "PENDING" /\ status' = "IDLE"
        /\ UNCHANGED <<age, watchdog>> /\ ntp_interval' = NextInterval
    BY <1>13, <1>a
       DEF TaskCheckAnswered, CopyInv, Leave, Go, NtpAtomicStatus, mainVars,
           otherVars, NULL_STATUS
  <2>2. SinceLook' = watchdog /\ SinceLook = watchdog + WatchdogTimeout - 1
    BY <2>1, <1>a, ClockAssumption DEF SinceLook, TypeInv, TypeOK
  <2>3. age \in Nat /\ watchdog \in 0 .. (WatchdogTimeout - 1)
    BY <1>a DEF TypeInv, TypeOK
  <2>4. ntp_interval \in Nat /\ ntp_interval >= SyncInterval
    BY <1>a, ClockAssumption DEF TypeInv, TypeOK, IntervalInv
  <2>5. age < ntp_interval' + NtpTimeout + SinceLook'
    <3>1. CASE snap.status = "KOD"
      <4>1. 2 * ntp_interval < IntervalWrap
        BY <2>1, <2>4, <3>1, ClockAssumption DEF IntervalInv
      <4>2. ntp_interval' = 2 * ntp_interval
        BY <2>1, <2>4, <3>1, <4>1, ClockAssumption DEF NextInterval
      <4>3. age < ntp_interval + NtpTimeout + SinceLook
        BY <2>1, <3>1
      <4>4. QED
        BY <4>2, <4>3, <2>2, <2>3, <2>4, ClockAssumption, NtpAssumption
    <3>2. CASE snap.status = "SUCCESS"
      <4>1. age <= SinceLook + WatchdogTimeout - 1
        BY <2>1, <3>2
      <4>2. ntp_interval' = ntp_interval
        BY <2>1, <3>2 DEF NextInterval
      <4>3. QED
        BY <4>1, <4>2, <2>2, <2>3, <2>4, ClockAssumption, NtpAssumption
    <3>3. QED
      BY <2>1, <3>1, <3>2
  <2>6. QED
    BY <2>1, <2>5
<1>14. CASE TaskCheckIdle
  BY <1>14, <1>a, <1>b, ClockAssumption, NtpAssumption
     DEF TaskCheckIdle, Leave, Go, NoSnap, mainVars, otherVars, ntpVars,
         stateVars, timeVars, SinceLook, TypeInv, TypeOK, Wait, IntervalInv,
         CopyInv
<1>15. CASE LoopAccessPoint \/ WatchdogReset
  BY <1>15 DEF LoopAccessPoint, WatchdogReset, Go, ntpVars, stateVars, mainVars
<1>16. CASE LoopSleep
  BY <1>16, <1>a, <1>b
     DEF LoopSleep, Go, mainVars, otherVars, ntpVars, stateVars, timeVars,
         SinceLook, TypeInv, TypeOK, Wait
<1>17. ASSUME NEW pressed \in BOOLEAN, ClockTimerCallback(pressed)
       PROVE  AgeInv'
  <2>1. /\ age' = age + 1 /\ watchdog' = watchdog + 1 /\ ms' = NextMs
        /\ UNCHANGED <<status, request_start_ms, pc, snap, utc_age>>
        /\ UNCHANGED <<ntp_interval, ntp_time_updated>>
    BY <1>17 DEF ClockTimerCallback, Period, ntpVars, stateVars, timeVars
  <2>2. /\ age \in Nat /\ utc_age \in Nat
        /\ watchdog \in Nat /\ ntp_interval \in Nat
    BY <1>a DEF TypeInv, TypeOK
  <2>3. SinceLook' = SinceLook + 1
    BY <2>1, <2>2, ClockAssumption DEF SinceLook
  <2>4. SinceLook <= 2 * (WatchdogTimeout - 1)
    BY <1>a, ClockAssumption DEF SinceLook, TypeInv, TypeOK
  <2>5. Wait < MsWrap - 1 => Wait' = Wait + 1
    BY <2>1, <1>a, WaitStep
  <2>6. Running
    BY <1>17 DEF ClockTimerCallback
  <2>7. CopyStartInv'
    BY <2>1
  <2>8. RequestAgeInv'
    BY <2>1, <2>2, <2>6
  <2>9. PendingAgeInv'
    BY <2>1, <2>2, <2>3, <2>4, <2>5, <2>6, <1>b, ClockAssumption, NtpAssumption
  <2>10. TakenAgeInv'
    BY <2>1, <2>2, <2>3, <2>6, <1>b, ClockAssumption
  <2>11. StaleAgeInv'
    BY <2>1, <2>2, <2>3, <2>6, <1>b, ClockAssumption, NtpAssumption
  <2>12. QED
    BY <2>7, <2>8, <2>9, <2>10, <2>11
<1>18. ASSUME Interrupted PROVE AgeInv'
  <2>1. UNCHANGED <<pc, age, utc_age, watchdog, snap, ntp_interval, ms>>
    BY <1>18 DEF Interrupted, mainVars, otherVars
  <2>2. SinceLook' = SinceLook /\ Wait' = Wait
    BY <1>18, <2>1 DEF Interrupted, SinceLook, Wait
  <2>3. /\ age \in Nat /\ watchdog \in Nat /\ ntp_interval \in Nat
        /\ ntp_interval >= SyncInterval
    BY <1>a, ClockAssumption DEF TypeInv, TypeOK, IntervalInv
  <2>4. CopyStartInv' /\ RequestAgeInv' /\ PendingAgeInv'
    BY <1>18, <2>1, <2>2 DEF Interrupted
  <2>5. TakenAgeInv'
    BY <1>18, <2>1, <2>2 DEF Interrupted
  <2>6. status = "PENDING"
          => age <= NtpTimeout + 2 * (WatchdogTimeout - 1) + SinceLook
    BY <1>18, <2>3, <1>b, ClockAssumption, NtpAssumption DEF Interrupted
  <2>7. StaleAgeInv'
    BY <1>18, <1>a, <1>b, <2>1, <2>2, <2>3, <2>6, ClockAssumption,
       NtpAssumption
       DEF Interrupted, CopyInv
  <2>8. QED
    BY <2>4, <2>5, <2>7
<1>19. CASE NtpInterrupt
  <2>1. CASE NtpDnsCallback
    <3>1. /\ UNCHANGED <<request_start_ms, ntp_time_updated>>
          /\ status' = "FAILED" \/ status' = status
      BY <2>1 DEF NtpDnsCallback, NtpDnsFound, NtpDnsNotFound,
                  NtpStartUdpRequest, NtpSendOk, NtpSendFails,
                  NtpAtomicStatus, timeVars, NULL_STATUS
    <3>2. QED
      BY <1>18, <1>19, <3>1 DEF NtpInterrupt, Interrupted
  <2>2. ASSUME NEW d \in Datagrams, NtpRecvCallback(d)
        PROVE  AgeInv'
    <3>1. CASE NtpVerdict(d)[1] = "SUCCESS"
      BY <1>18, <1>19, <2>2, <3>1
         DEF NtpInterrupt, Interrupted, NtpRecvCallback, NtpTimerCallback,
             NtpAtomicStatus, NULL_STATUS
    <3>2. CASE NtpVerdict(d)[1] \in {"KOD", "FAILED"}
      BY <1>18, <1>19, <2>2, <3>2
         DEF NtpInterrupt, Interrupted, NtpRecvCallback, NtpAtomicStatus,
             NULL_STATUS, timeVars
    <3>3. QED
      BY <3>1, <3>2, VerdictType
  <2>3. QED
    BY <1>19, <2>1, <2>2 DEF NtpInterrupt
<1>20. CASE Restart
  BY <1>20, ClockAssumption, NtpAssumption DEF Restart, NoSnap, SinceLook
<1>21. CASE UNCHANGED vars
  BY <1>21
     DEF vars, mainVars, otherVars, ntpVars, stateVars, timeVars, SinceLook,
         Wait
<1>22. QED
  BY <1>1, <1>2, <1>3, <1>4, <1>5, <1>6, <1>7, <1>8, <1>9, <1>10, <1>11,
     <1>12, <1>13, <1>14, <1>15, <1>16, <1>17, <1>18, <1>19, <1>20, <1>21
     DEF Next, Main, TaskCheck, NtpInterrupt, Timer

(* Whatever the network delivers and whenever the ticks that look at it    *)
(* come, clock_task syncs, or asks for the time, an interval after the     *)
(* last time it did, the timeout and two watchdog periods aside.  Unlike   *)
(* the bound on the wait this one knows no exception: a request of         *)
(* millisecond 0 is measured by an older start, but it is measured.  The   *)
(* interval must be longer than three watchdog periods, and no KoD come    *)
(* once doubling it would overflow its 32 bits.                            *)
THEOREM SyncsInTime ==
  ASSUME 3 * (WatchdogTimeout - 1) < SyncInterval,
         2 * KodLimit <= IntervalWrap
  PROVE  Spec => []SyncBounded
<1>1. Init => IntervalInv /\ AgeInv
  BY AgeInit, ClockAssumption DEF Init, NtpInit, NoSnap, IntervalInv, InTask
<1>2. /\ SafetyInv /\ IntervalInv /\ AgeInv /\ [Next]_vars
           => IntervalInv' /\ AgeInv'
  BY AgeNext, IntervalNext DEF SafetyInv
<1>3. SafetyInv /\ IntervalInv /\ AgeInv => SyncBounded
  <2> SUFFICES ASSUME SafetyInv, IntervalInv, AgeInv, Running
               PROVE  age <= ntp_interval + NtpTimeout + 2 * WatchdogTimeout
    BY DEF SyncBounded
  <2>1. /\ age \in Nat /\ ntp_interval \in Nat
        /\ ntp_interval >= SyncInterval
        /\ watchdog \in 0 .. (WatchdogTimeout - 1)
    BY ClockAssumption DEF SafetyInv, TypeInv, TypeOK, IntervalInv
  <2>2. SinceLook \in Nat /\ SinceLook <= 2 * (WatchdogTimeout - 1)
    BY <2>1, ClockAssumption DEF SinceLook
  <2>3. Wait \in Nat
    BY NtpAssumption DEF SafetyInv, TypeInv, TypeOK, Wait, MsSince
  <2>4. CASE status = "PENDING"
    BY <2>1, <2>2, <2>3, <2>4, ClockAssumption, NtpAssumption
       DEF AgeInv, PendingAgeInv
  <2>5. CASE status # "PENDING"
    BY <2>1, <2>2, <2>5, ClockAssumption, NtpAssumption
       DEF AgeInv, StaleAgeInv
  <2>6. QED
    BY <2>4, <2>5
<1>4. QED
  BY <1>1, <1>2, <1>3, SafetyAlways, PTL DEF Spec
=============================================================================
