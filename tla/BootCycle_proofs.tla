-------------------------- MODULE BootCycle_proofs --------------------------
(***************************************************************************)
(* BootCycle's invariants hold for every set of configurations and errors  *)
(* and every icon interval.  ReasonShown and ConfigIsLastSaved speak of    *)
(* the running clock only; to be inductive they need what the reset and    *)
(* the two steps of a write carry from one run to the next.                *)
(***************************************************************************)
EXTENDS BootCycle, TLAPS

(* A form, not a factory reset, is being written. *)
FormWrite == phase \in {"erase", "program"} /\ Valid(writing)
ResetWrite == phase \in {"erase", "program"} /\ ~Valid(writing)

(* ErrorsCarried: while a run lasts persistent_state is clear; from its end *)
(* to the next boot, a factory reset in between included, it holds the     *)
(* errors the run ended with.                                              *)
ErrorsCarried ==
  /\ (phase \in Shown \/ FormWrite) => persistent_state = NoErrors
  /\ (phase \in {"boot", "reset"} \/ ResetWrite) /\ initialised
       => persistent_state = fault
  /\ (phase \in Shown \/ FormWrite) /\ ~cold_boot /\ initialised => ShowsFault

(* PageCarried: outside a write the page is what was asked for last.       *)
PageCarried ==
  /\ phase \in {"erase", "program"} => writing = saved
  /\ phase \notin {"erase", "program"} /\ ~interrupted => flash = saved
  /\ phase \in {"start", "wifi", "running"} => flash_config = flash /\ Valid(flash)

BootInv == TypeOK /\ ErrorsCarried /\ PageCarried

(* TypeOK in two halves: SMT is at home in the data, Zenon in the flags. *)
DataOK ==
  /\ phase \in Phases
  /\ flash \in Configs \cup {NoConfig, Torn}
  /\ writing \in Configs \cup {NoConfig}
  /\ persistent_state \in Garbage
  /\ watchdog_reset_error \in {"WATCHDOG_OK", "WATCHDOG_RESET",
                               "WATCHDOG_NTP", "WATCHDOG_WIFI"}
  /\ ntp_reset_error \in NtpErrors \cup {"OK", Junk}
  /\ wifi_reset_error \in WifiErrors \cup {"OK", Junk}
  /\ flash_config \in Configs \cup {NoConfig, Torn}
  /\ uptime \in 0 .. (IconInterval + 1)
  /\ elapsed \in Nat /\ bad_auth_count \in 0 .. (BadAuthRetryCount - 1)
  /\ fault \in Garbage
  /\ saved \in Configs \cup {NoConfig}

FlagsOK ==
  /\ watchdog_reason \in BOOLEAN
  /\ cold_boot \in BOOLEAN
  /\ clock_set \in BOOLEAN
  /\ initialised \in BOOLEAN
  /\ interrupted \in BOOLEAN

LEMMA TypeSplit == TypeOK <=> DataOK /\ FlagsOK
  BY Zenon DEF TypeOK, DataOK, FlagsOK

-----------------------------------------------------------------------------
(* The initial state satisfies the inductive invariant. *)
LEMMA InitBoot == Init => BootInv
<1> SUFFICES ASSUME Init PROVE BootInv
  OBVIOUS
<1>1. DataOK
  BY BootAssumption, WifiAssumption DEF Init, DataOK, Phases, Garbage, NoErrors
<1>2. FlagsOK
  BY Zenon DEF Init, FlagsOK
<1>3. ErrorsCarried
  BY DEF Init, ErrorsCarried, Shown, FormWrite, ResetWrite, Valid
<1>4. PageCarried
  BY DEF Init, PageCarried, Valid
<1> QED
  BY <1>1, <1>2, <1>3, <1>4, TypeSplit DEF BootInv

-----------------------------------------------------------------------------
(* Every step keeps the data within its types. *)
LEMMA DataStep == DataOK /\ [Next]_vars => DataOK'
<1> SUFFICES ASSUME DataOK, [Next]_vars PROVE DataOK'
  OBVIOUS
<1> USE BootAssumption, WifiAssumption DEF DataOK, Phases, Garbage, NoErrors,
       pageVars, errorVars, runVars, pastVars, ramVars,
       wifiVars, ResetLocals
<1>1. CASE FactoryReset
  BY <1>1 DEF FactoryReset
<1>2. CASE ColdBoot
  BY <1>2 DEF ColdBoot
<1>3. CASE WarmBoot
  BY <1>3 DEF WarmBoot, WarmBootTo, WatchdogError
<1>4. CASE FlashCheck
  BY <1>4 DEF FlashCheck, FlashCheckTo
<1>5. CASE WifiInit
  BY <1>5 DEF WifiInit, FatalReset, EndRun, WifiErrors
<1>6. CASE WifiRetry
  <2>1. elapsed' \in Nat /\ bad_auth_count' \in 0 .. (BadAuthRetryCount - 1)
    BY <1>6 DEF WifiRetry, Retry, Attempts, TriesAgain
  <2> QED
    BY <1>6, <2>1 DEF WifiRetry
<1>21. CASE WifiFails
  BY <1>21 DEF WifiFails, FatalReset, EndRun, WifiErrors, Attempts,
                Returned
<1>22. CASE WifiConnected
  BY <1>22, WifiAssumption DEF WifiConnected, FatalReset, EndRun
<1>7. CASE FlashErase
  BY <1>7 DEF FlashErase
<1>8. CASE FlashProgram
  BY <1>8 DEF FlashProgram, FlashProgramTo
<1>9. CASE ApDone
  BY <1>9 DEF ApDone, SystemReboot, EndRun
<1>10. CASE Reboot
  BY <1>10 DEF Reboot, ClearRam
<1>11. CASE NtpSync
  BY <1>11 DEF NtpSync
<1>12. CASE Tick
  BY <1>12 DEF Tick
<1>13. CASE NtpFailure
  BY <1>13 DEF NtpFailure, FatalReset, EndRun
<1>14. CASE WatchdogBites
  BY <1>14 DEF WatchdogBites, SystemReboot, EndRun
<1>15. CASE ApMode
  BY <1>15 DEF ApMode
<1>16. CASE ApFails
  BY <1>16 DEF ApFails, SystemReboot, EndRun
<1>17. CASE ApSave
  BY <1>17 DEF ApSave
<1>18. CASE PowerCut
  BY <1>18 DEF PowerCut, Remains
<1>19. CASE PowerOn
  BY <1>19 DEF PowerOn, ClearRam
<1>20. CASE UNCHANGED vars
  BY <1>20 DEF vars
<1> QED
  BY <1>1, <1>2, <1>3, <1>4, <1>5, <1>6, <1>7, <1>8, <1>9, <1>10, <1>11,
     <1>12, <1>13, <1>14, <1>15, <1>16, <1>17, <1>18, <1>19, <1>20,
     <1>21, <1>22
  DEF Next, Boot, Program, Events

(* Every step keeps the flags Boolean. *)
LEMMA FlagsStep == FlagsOK /\ [Next]_vars => FlagsOK'
<1> SUFFICES ASSUME FlagsOK, [Next]_vars PROVE FlagsOK'
  OBVIOUS
<1> USE DEF FlagsOK, pageVars, errorVars, runVars, pastVars, ramVars,
       wifiVars, ResetLocals
<1>1. CASE FactoryReset
  BY <1>1, Zenon DEF FactoryReset
<1>2. CASE ColdBoot
  BY <1>2, Zenon DEF ColdBoot
<1>3. CASE WarmBoot
  BY <1>3, Zenon DEF WarmBoot, WarmBootTo
<1>4. CASE FlashCheck
  BY <1>4, Zenon DEF FlashCheck, FlashCheckTo
<1>5. CASE WifiInit
  BY <1>5, Zenon DEF WifiInit, FatalReset, EndRun
<1>6. CASE WifiRetry
  BY <1>6, Zenon DEF WifiRetry, Retry
<1>21. CASE WifiFails
  BY <1>21, Zenon DEF WifiFails, FatalReset, EndRun
<1>22. CASE WifiConnected
  BY <1>22, Zenon DEF WifiConnected, FatalReset, EndRun
<1>7. CASE FlashErase
  BY <1>7, Zenon DEF FlashErase
<1>8. CASE FlashProgram
  BY <1>8, Zenon DEF FlashProgram, FlashProgramTo
<1>9. CASE ApDone
  BY <1>9, Zenon DEF ApDone, SystemReboot, EndRun
<1>10. CASE Reboot
  BY <1>10, Zenon DEF Reboot, ClearRam
<1>11. CASE NtpSync
  BY <1>11, Zenon DEF NtpSync
<1>12. CASE Tick
  BY <1>12, Zenon DEF Tick
<1>13. CASE NtpFailure
  BY <1>13, Zenon DEF NtpFailure, FatalReset, EndRun
<1>14. CASE WatchdogBites
  BY <1>14, Zenon DEF WatchdogBites, SystemReboot, EndRun
<1>15. CASE ApMode
  BY <1>15, Zenon DEF ApMode
<1>16. CASE ApFails
  BY <1>16, Zenon DEF ApFails, SystemReboot, EndRun
<1>17. CASE ApSave
  BY <1>17, Zenon DEF ApSave
<1>18. CASE PowerCut
  BY <1>18, Zenon DEF PowerCut
<1>19. CASE PowerOn
  BY <1>19, Zenon DEF PowerOn, ClearRam
<1>20. CASE UNCHANGED vars
  BY <1>20, Zenon DEF vars
<1> QED
  BY <1>1, <1>2, <1>3, <1>4, <1>5, <1>6, <1>7, <1>8, <1>9, <1>10, <1>11,
     <1>12, <1>13, <1>14, <1>15, <1>16, <1>17, <1>18, <1>19, <1>20,
     <1>21, <1>22
  DEF Next, Boot, Program, Events

(* Every step carries the errors from the end of one run to the display of *)
(* the next.                                                               *)
LEMMA ErrorsStep == BootInv /\ [Next]_vars => ErrorsCarried'
<1> SUFFICES ASSUME BootInv, [Next]_vars PROVE ErrorsCarried'
  OBVIOUS
<1> USE BootAssumption DEF BootInv, TypeOK, ErrorsCarried, ShowsFault, Shown,
       FormWrite, ResetWrite, Valid, Phases,
       pageVars, errorVars, runVars, pastVars, ramVars,
       wifiVars, ResetLocals
<1>1. CASE FactoryReset
  BY <1>1 DEF FactoryReset
<1>2. CASE ColdBoot
  BY <1>2 DEF ColdBoot
<1>3. CASE WarmBoot
  BY <1>3 DEF WarmBoot, WarmBootTo
<1>4. CASE FlashCheck
  BY <1>4 DEF FlashCheck, FlashCheckTo
<1>5. CASE WifiInit
  BY <1>5 DEF WifiInit, FatalReset, EndRun
<1>6. CASE WifiRetry
  BY <1>6 DEF WifiRetry, Retry
<1>21. CASE WifiFails
  BY <1>21 DEF WifiFails, FatalReset, EndRun
<1>22. CASE WifiConnected
  BY <1>22 DEF WifiConnected, FatalReset, EndRun
<1>7. CASE FlashErase
  BY <1>7 DEF FlashErase
<1>8. CASE FlashProgram
  BY <1>8 DEF FlashProgram, FlashProgramTo
<1>9. CASE ApDone
  BY <1>9 DEF ApDone, SystemReboot, EndRun
<1>10. CASE Reboot
  BY <1>10 DEF Reboot, ClearRam
<1>11. CASE NtpSync
  BY <1>11 DEF NtpSync
<1>12. CASE Tick
  BY <1>12 DEF Tick
<1>13. CASE NtpFailure
  BY <1>13 DEF NtpFailure, FatalReset, EndRun
<1>14. CASE WatchdogBites
  BY <1>14 DEF WatchdogBites, SystemReboot, EndRun
<1>15. CASE ApMode
  BY <1>15 DEF ApMode
<1>16. CASE ApFails
  BY <1>16 DEF ApFails, SystemReboot, EndRun
<1>17. CASE ApSave
  BY <1>17 DEF ApSave
<1>18. CASE PowerCut
  BY <1>18 DEF PowerCut
<1>19. CASE PowerOn
  BY <1>19 DEF PowerOn, ClearRam
<1>20. CASE UNCHANGED vars
  BY <1>20 DEF vars
<1> QED
  BY <1>1, <1>2, <1>3, <1>4, <1>5, <1>6, <1>7, <1>8, <1>9, <1>10, <1>11,
     <1>12, <1>13, <1>14, <1>15, <1>16, <1>17, <1>18, <1>19, <1>20,
     <1>21, <1>22
  DEF Next, Boot, Program, Events

(* Every step keeps the page in step with what was asked for. *)
LEMMA PageStep == BootInv /\ [Next]_vars => PageCarried'
<1> SUFFICES ASSUME BootInv, [Next]_vars PROVE PageCarried'
  OBVIOUS
<1> USE BootAssumption DEF BootInv, TypeOK, PageCarried, Valid, Phases,
       pageVars, errorVars, runVars, pastVars, ramVars,
       wifiVars, ResetLocals
<1>1. CASE FactoryReset
  BY <1>1 DEF FactoryReset
<1>2. CASE ColdBoot
  BY <1>2 DEF ColdBoot
<1>3. CASE WarmBoot
  BY <1>3 DEF WarmBoot, WarmBootTo
<1>4. CASE FlashCheck
  BY <1>4 DEF FlashCheck, FlashCheckTo
<1>5. CASE WifiInit
  BY <1>5 DEF WifiInit, FatalReset, EndRun
<1>6. CASE WifiRetry
  BY <1>6 DEF WifiRetry, Retry
<1>21. CASE WifiFails
  BY <1>21 DEF WifiFails, FatalReset, EndRun
<1>22. CASE WifiConnected
  BY <1>22 DEF WifiConnected, FatalReset, EndRun
<1>7. CASE FlashErase
  BY <1>7 DEF FlashErase
<1>8. CASE FlashProgram
  BY <1>8 DEF FlashProgram, FlashProgramTo
<1>9. CASE ApDone
  BY <1>9 DEF ApDone, SystemReboot, EndRun
<1>10. CASE Reboot
  BY <1>10 DEF Reboot, ClearRam
<1>11. CASE NtpSync
  BY <1>11 DEF NtpSync
<1>12. CASE Tick
  BY <1>12 DEF Tick
<1>13. CASE NtpFailure
  BY <1>13 DEF NtpFailure, FatalReset, EndRun
<1>14. CASE WatchdogBites
  BY <1>14 DEF WatchdogBites, SystemReboot, EndRun
<1>15. CASE ApMode
  BY <1>15 DEF ApMode
<1>16. CASE ApFails
  BY <1>16 DEF ApFails, SystemReboot, EndRun
<1>17. CASE ApSave
  BY <1>17 DEF ApSave
<1>18. CASE PowerCut
  BY <1>18 DEF PowerCut, Remains
<1>19. CASE PowerOn
  BY <1>19 DEF PowerOn, ClearRam
<1>20. CASE UNCHANGED vars
  BY <1>20 DEF vars
<1> QED
  BY <1>1, <1>2, <1>3, <1>4, <1>5, <1>6, <1>7, <1>8, <1>9, <1>10, <1>11,
     <1>12, <1>13, <1>14, <1>15, <1>16, <1>17, <1>18, <1>19, <1>20,
     <1>21, <1>22
  DEF Next, Boot, Program, Events

-----------------------------------------------------------------------------
(* The inductive invariant holds in every reachable state. *)
LEMMA BootInvHolds == Spec => []BootInv
<1>1. BootInv /\ [Next]_vars => BootInv'
  BY TypeSplit, DataStep, FlagsStep, ErrorsStep, PageStep, PTL DEF BootInv
<1> QED
  BY InitBoot, <1>1, PTL DEF Spec

(* BootTypes: TypeOK in every reachable state, for any configurations,     *)
(* errors and icon interval (clock_state and persistent_state of clock.h   *)
(* and flash_config.h).                                                    *)
THEOREM BootTypes == Spec => []TypeOK
  BY BootInvHolds, PTL DEF BootInv

(* FaultReported: what fatal_reset recorded (pico_main.c:11-12) is what    *)
(* clock_init shows after the reset (clock.c:335-354), whatever resets,    *)
(* factory resets, stored forms and power cuts came before.                *)
THEOREM FaultReported == Spec => []ReasonShown
<1>1. BootInv => ReasonShown
  BY DEF BootInv, ErrorsCarried, ReasonShown
<1> QED
  BY BootInvHolds, <1>1, PTL

(* ConfigKept: the clock runs with the configuration last saved, or the    *)
(* write of it was cut short by a power failure (clock.c:248-266,          *)
(* 356-360).                                                               *)
THEOREM ConfigKept == Spec => []ConfigIsLastSaved
<1>1. BootInv => ConfigIsLastSaved
  BY BootAssumption DEF BootInv, TypeOK, PageCarried, ConfigIsLastSaved, Valid
<1> QED
  BY BootInvHolds, <1>1, PTL

(* Only connect_to_wifi's loop counts time and refusals.                   *)
LEMMA LoopOnly == [Next]_vars => ResetLocals \/ UNCHANGED wifiVars
                                 \/ \E a \in Attempts : Retry(a)
  BY DEF Next, Boot, Program, Events, vars, FactoryReset, ColdBoot, WarmBoot,
     WarmBootTo, FlashCheck, FlashCheckTo, WifiInit, WifiRetry, WifiFails,
     WifiConnected, FlashErase, FlashProgram, FlashProgramTo, ApDone, Reboot,
     ClearRam, NtpSync, Tick, NtpFailure, WatchdogBites, ApMode, ApFails,
     ApSave, PowerCut, PowerOn, FatalReset, SystemReboot, EndRun

(* WifiBounded: whatever the radio does, connect_to_wifi never begins an   *)
(* attempt later than its two limits allow together (wifi.c:75-107), for   *)
(* any timeouts and any number of refusals tolerated.                      *)
THEOREM WifiBounded == Spec => []ConnectBounded
<1> DEFINE Cost == ConnectTimeout + BadAuthRetryDelay
           I == TypeOK /\ ConnectBounded
<1>1. Init => ConnectBounded
  BY WifiAssumption DEF Init, ConnectBounded
<1>2. ASSUME I, [Next]_vars
      PROVE ConnectBounded'
  <2> USE WifiAssumption
  <2> Cost \in Nat /\ bad_auth_count \in Nat /\ elapsed \in Nat
    BY <1>2 DEF TypeOK
  <2>1. CASE ResetLocals
    BY <2>1 DEF ResetLocals, ConnectBounded
  <2>2. CASE UNCHANGED wifiVars
    BY <1>2, <2>2 DEF wifiVars, ConnectBounded
  <2>3. CASE \E a \in Attempts : Retry(a)
    <3>1. PICK a \in Attempts : Retry(a)
      BY <2>3
    <3>2. CASE a.ret = "TIMEOUT"
      <4>1. elapsed' <= AbandonTimeout /\ bad_auth_count' = bad_auth_count
        BY <3>1, <3>2 DEF Retry, TriesAgain, Attempts
      <4>2. bad_auth_count * Cost >= 0 /\ elapsed' \in Nat
        BY <3>1, <3>2 DEF Retry, Attempts
      <4> QED
        BY <4>1, <4>2 DEF ConnectBounded
    <3>3. CASE a.ret = "BADAUTH"
      <4>1. /\ elapsed' = elapsed + a.time + BadAuthRetryDelay
            /\ bad_auth_count' = bad_auth_count + 1
            /\ a.time \in 0 .. ConnectTimeout
        BY <3>1, <3>3 DEF Retry, Attempts
      <4>2. (bad_auth_count + 1) * Cost = bad_auth_count * Cost + Cost
        OBVIOUS
      <4> QED
        BY <1>2, <4>1, <4>2 DEF ConnectBounded
    <3> QED
      BY <3>1, <3>2, <3>3 DEF Retry, TriesAgain
  <2> QED
    BY <1>2, <2>1, <2>2, <2>3, LoopOnly
<1>3. Spec => []TypeOK
  BY BootInvHolds, PTL DEF BootInv
<1> QED
  BY <1>1, <1>2, <1>3, PTL DEF Spec
=============================================================================
