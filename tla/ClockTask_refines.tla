------------------------- MODULE ClockTask_refines -------------------------
(***************************************************************************)
(* The safety half of the refinement, for every value of the constants:    *)
(* each step of the NTP client, the clock and their interrupts is a step   *)
(* of SyncedClock or changes nothing it sees.  That the promised things    *)
(* also happen (ImplementsClock) is model-checked.                         *)
(***************************************************************************)
EXTENDS ClockTask_proofs

(* A request is made only when none is outstanding: the callbacks, which   *)
(* may end a request at any moment, never start one.                       *)
AskInv == pc = "request" => status # "PENDING"

(* The initial state makes its first request. *)
LEMMA AskInit == Init => AskInv
BY DEF Init, NtpInit, AskInv

(* Only clock_task and a restart lead to a request; clock_task does so on  *)
(* a copy that says IDLE, and then the status is not PENDING either.       *)
LEMMA AskNext == SafetyInv /\ AskInv /\ [Next]_vars => AskInv'
<1> SUFFICES ASSUME SafetyInv, AskInv, [Next]_vars
             PROVE  AskInv'
  OBVIOUS
<1> USE DEF AskInv, ntpVars, stateVars, mainVars
<1>1. CASE RequestBegin
  BY <1>1 DEF RequestBegin, Go
<1>2. CASE RequestLookup \/ RequestSend \/ ClockStart
  BY <1>2 DEF RequestLookup, RequestSend, ClockStart, Go, FatalReset,
              AfterRequest
<1>3. CASE TaskSnapshot \/ TaskUpdate \/ TaskSetTime \/ TaskNoTick
           \/ TaskTick \/ TaskShow
  BY <1>3 DEF TaskSnapshot, TaskUpdate, TaskSetTime, TaskNoTick, TaskTick,
              TaskShow, Go
<1>4. CASE TaskCheckPending \/ TaskCheckFailed \/ TaskCheckAnswered
  BY <1>4 DEF TaskCheckPending, TaskCheckFailed, TaskCheckAnswered,
              FatalReset, Leave, Go
<1>5. CASE TaskCheckIdle
  BY <1>5 DEF TaskCheckIdle, Leave, Go, SafetyInv, ControlInv, CopyInv, InTask
<1>6. CASE LoopAccessPoint \/ LoopSleep \/ WatchdogReset
  BY <1>6 DEF LoopAccessPoint, LoopSleep, WatchdogReset, Go
<1>7. CASE Timer
  BY <1>7 DEF Timer, ClockTimerCallback, Period
<1>8. CASE NtpInterrupt
  BY <1>8, VerdictType
     DEF NtpInterrupt, NtpDnsCallback, NtpDnsFound, NtpDnsNotFound,
         NtpStartUdpRequest, NtpSendOk, NtpSendFails, NtpAtomicStatus,
         NtpRecvCallback, NULL_STATUS
<1>9. CASE Restart
  BY <1>9 DEF Restart
<1>10. CASE UNCHANGED vars
  BY <1>10 DEF vars
<1>11. QED
  BY <1>1, <1>2, <1>3, <1>4, <1>5, <1>6, <1>7, <1>8, <1>9, <1>10
     DEF Next, Main, TaskCheck

-----------------------------------------------------------------------------
(* What SyncedClock sees of the code. *)
Request == IF pc = "reset" THEN "down"
           ELSE IF status = "PENDING" THEN "open" ELSE "none"

(* A step that changes none of it. *)
Unseen == UNCHANGED <<Request, ntp_time, sys_time>>

(* An unseen step is a stuttering step of SyncedClock. *)
LEMMA UnseenStutters == Unseen => UNCHANGED Clock!vars
BY DEF Unseen, Request, Clock!vars

(* A reset takes the clock down from wherever it was. *)
LEMMA ResetGoesDown ==
  ASSUME pc # "reset", pc' = "reset", UNCHANGED <<ntp_time, sys_time>>
  PROVE  Clock!Next
BY DEF Clock!Next, Clock!GoDown

(* A request that ends without a time is refused. *)
LEMMA EndWithoutTime ==
  ASSUME pc # "reset", pc' = pc, UNCHANGED <<ntp_time, sys_time>>,
         status' # "PENDING"
  PROVE  [Clock!Next]_(Clock!vars)
<1>1. CASE status = "PENDING"
  BY <1>1 DEF Clock!Next, Clock!Refuse
<1>2. CASE status # "PENDING"
  BY <1>2, UnseenStutters DEF Unseen, Request
<1>3. QED
  BY <1>1, <1>2

(* The initial state of the code is one of SyncedClock. *)
LEMMA RefinesInit == Init => Clock!Init
BY DEF Init, NtpInit, Clock!Init

(* Every step of the code is a step of SyncedClock or a stutter: one case  *)
(* per group of actions with the same effect on it.                        *)
LEMMA RefinesNext ==
  SafetyInv /\ AskInv /\ [Next]_vars => [Clock!Next]_(Clock!vars)
<1> SUFFICES ASSUME SafetyInv, AskInv, [Next]_vars
             PROVE  [Clock!Next]_(Clock!vars)
  OBVIOUS
<1> USE DEF ntpVars, stateVars, timeVars, mainVars
<1>1. CASE RequestBegin
  BY <1>1 DEF RequestBegin, Go, NtpRequestBegin, NtpAtomicStatus,
              NULL_STATUS, AskInv, Clock!Next, Clock!Ask
<1>2. ASSUME NEW place \in Places, NEW e, FatalReset(place, e)
      PROVE  Clock!Next
  BY <1>2, ResetGoesDown DEF FatalReset, Go, Running
<1>3. CASE RequestLookup
  <2>1. CASE FatalReset("lookup", "DNS")
    BY <2>1, <1>2 DEF Places
  <2>2. CASE Unseen
    BY <2>2, UnseenStutters
  <2>3. QED
    BY <1>3, <2>1, <2>2
       DEF RequestLookup, Go, Running, AfterRequest, NtpLookupCached,
           NtpLookupStarted, Unseen, Request
<1>4. CASE RequestSend
  <2>1. CASE status' = status
    BY <1>4, <2>1, UnseenStutters
       DEF RequestSend, Go, Running, AfterRequest, Unseen, Request
  <2>2. CASE status' = "FAILED"
    BY <1>4, <2>2, UnseenStutters
       DEF RequestSend, Go, Running, AfterRequest, Unseen, Request,
           Clock!Next, Clock!Refuse
  <2>3. QED
    BY <1>4, <2>1, <2>2
       DEF RequestSend, NtpStartUdpRequest, NtpSendOk, NtpSendFails,
           NtpAtomicStatus, NULL_STATUS
<1>5. CASE ClockStart
  <2>1. CASE FatalReset("arm", "INIT")
    BY <2>1, <1>2 DEF Places
  <2>2. CASE Unseen
    BY <2>2, UnseenStutters
  <2>3. QED
    BY <1>5, <2>1, <2>2 DEF ClockStart, Go, Running, Unseen, Request
<1>6. CASE TaskSnapshot \/ TaskUpdate \/ TaskNoTick \/ TaskTick \/ TaskShow
           \/ LoopSleep
  BY <1>6, UnseenStutters
     DEF TaskSnapshot, TaskUpdate, TaskNoTick, TaskTick, TaskShow, LoopSleep,
         Go, Running, Unseen, Request
<1>7. CASE TaskSetTime
  BY <1>7 DEF TaskSetTime, Go, Running, Clock!Next, Clock!Take
<1>8. CASE TaskCheckPending
  <2>1. CASE FatalReset("check", "TIMEOUT")
    BY <2>1, <1>2 DEF Places
  <2>2. CASE Unseen
    BY <2>2, UnseenStutters
  <2>3. QED
    BY <1>8, <2>1, <2>2
       DEF TaskCheckPending, Leave, Go, Running, Unseen, Request
<1>9. CASE TaskCheckFailed
  BY <1>9, <1>2 DEF TaskCheckFailed, Places
<1>10. CASE TaskCheckAnswered
  <2>1. status # "PENDING"
    BY <1>10 DEF TaskCheckAnswered, Leave, Go, SafetyInv, ControlInv, CopyInv,
                 InTask
  <2>2. Unseen
    BY <1>10, <2>1
       DEF TaskCheckAnswered, Leave, Go, Running, NtpAtomicStatus,
           NULL_STATUS, Unseen, Request
  <2>3. QED
    BY <2>2, UnseenStutters
<1>11. CASE TaskCheckIdle
  BY <1>11, UnseenStutters
     DEF TaskCheckIdle, Leave, Go, Running, Unseen, Request
<1>12. CASE LoopAccessPoint \/ WatchdogReset
  BY <1>12, ResetGoesDown DEF LoopAccessPoint, WatchdogReset, Go, Running
<1>13. CASE Timer
  BY <1>13, UnseenStutters
     DEF Timer, ClockTimerCallback, Period, Unseen, Request
<1>14. CASE NtpInterrupt /\ NtpDnsCallback
  <2>1. pc # "reset" /\ pc' = pc /\ UNCHANGED <<ntp_time, sys_time>>
    BY <1>14 DEF NtpInterrupt, Running, NtpDnsCallback, NtpDnsFound,
                 NtpDnsNotFound
  <2>2. CASE status' = status
    BY <2>1, <2>2, UnseenStutters DEF Unseen, Request
  <2>3. CASE status' = "FAILED"
    BY <2>1, <2>3, EndWithoutTime
  <2>4. QED
    BY <1>14, <2>2, <2>3
       DEF NtpDnsCallback, NtpDnsFound, NtpDnsNotFound, NtpStartUdpRequest,
           NtpSendOk, NtpSendFails, NtpAtomicStatus, NULL_STATUS
<1>15. ASSUME NEW d \in Datagrams, NtpRecvCallback(d), Running,
              UNCHANGED <<pc, mainVars>>
       PROVE  [Clock!Next]_(Clock!vars)
  <2>1. d.time \in Times
    BY NtpAssumption DEF Datagram
  <2>2. CASE NtpVerdict(d) = <<"SUCCESS", "OK">>
    <3>1. ntp_time' = d.time /\ status' = "SUCCESS"
      BY <1>15, <2>2 DEF NtpRecvCallback, NtpTimerCallback, NtpAtomicStatus,
                         NULL_STATUS
    <3>2. Clock!Hear(d.time)
      BY <1>15, <3>1 DEF Running, Clock!Hear
    <3>3. QED
      BY <2>1, <3>2 DEF Clock!Next
  <2>3. CASE NtpVerdict(d)[1] \in {"FAILED", "KOD"}
    <3>1. status' = NtpVerdict(d)[1] /\ UNCHANGED <<ntp_time, sys_time>>
      BY <1>15, <2>3 DEF NtpRecvCallback, NtpAtomicStatus, NULL_STATUS
    <3>2. QED
      BY <1>15, <2>3, <3>1, EndWithoutTime DEF Running
  <2>4. QED
    BY <2>2, <2>3, VerdictType
<1>16. CASE Restart
  BY <1>16 DEF Restart, Clock!Next, Clock!Boot
<1>17. CASE UNCHANGED vars
  BY <1>17, UnseenStutters DEF vars, Unseen, Request
<1>18. QED
  BY <1>1, <1>3, <1>4, <1>5, <1>6, <1>7, <1>8, <1>9, <1>10, <1>11, <1>12,
     <1>13, <1>14, <1>15, <1>16, <1>17
     DEF Next, Main, TaskCheck, NtpInterrupt

(* No request is made over an outstanding one: clock_task, which decides   *)
(* on a stale copy of ntp_state, calls ntp_request_async only when the     *)
(* shared status is not PENDING.                                           *)
THEOREM AsksOnce == Spec => []AskInv
<1>1. SafetyInv /\ AskInv /\ [Next]_vars => AskInv'
  BY AskNext
<1>2. QED
  BY AskInit, SafetyAlways, <1>1, PTL DEF Spec

(* The clock implements SyncedClock's safety: the time set is always the   *)
(* newest heard, and requests open and end as promised, however the main   *)
(* loop, clock_timer_callback, ntp_dns_callback and ntp_recv_callback      *)
(* interleave.                                                             *)
THEOREM Refines == Spec => Clock!Spec
<1>1. SafetyInv /\ AskInv /\ [Next]_vars => [Clock!Next]_(Clock!vars)
  BY RefinesNext
<1>2. QED
  BY RefinesInit, SafetyAlways, AsksOnce, <1>1, PTL DEF Spec, Clock!Spec
=============================================================================
