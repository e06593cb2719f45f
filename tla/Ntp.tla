-------------------------------- MODULE Ntp --------------------------------
(***************************************************************************)
(* The asynchronous NTP client, ntp.c, as the main loop and the network    *)
(* stack share it.  The functions of ntp.c run in two contexts of one      *)
(* core: ntp_request_async in the main loop, and ntp_dns_callback and      *)
(* ntp_recv_callback in the lwIP background interrupt                      *)
(* (pico_cyw43_arch_lwip_threadsafe_background), which preempts the main   *)
(* loop anywhere outside a cyw43_arch_lwip_begin/end or interrupts-off     *)
(* section and is never preempted by it.  A callback is therefore one      *)
(* action, and the main loop's path through ntp_request_async is cut into  *)
(* the steps between which an interrupt can land.                          *)
(*                                                                         *)
(* DATA.  A server is a model value, a time is a model value, a datagram   *)
(* carries just what ntp_recv_callback tests.  Time is counted in periods  *)
(* of the one-second clock timer; the uint32_t milliseconds since boot     *)
(* become a counter modulo MsWrap.                                         *)
(***************************************************************************)
EXTENDS Integers

CONSTANTS
  Servers,     \* addresses the NTP host name can resolve to
  Times,       \* times a datagram can carry
  NoTime,      \* ntp_time before the first answer (the zero of memset)
  NoServer,    \* ntp_server_address before the first lookup (0.0.0.0)
  MsWrap,      \* size of the uint32_t millisecond counter, scaled down
  BootMs,      \* its value when the first request is made
  NtpTimeout,  \* flash_config.ntp_timeout, in the same unit
  Datagrams    \* the datagrams the network can deliver

(* What ntp_recv_callback looks at in a datagram: its source address,      *)
(* whether port, length and mode are those of an NTP response, whether     *)
(* stratum is 0, whether the leap indicator is 3, and the time.            *)
Datagram == [src : Servers, response_valid : BOOLEAN, stratum_zero : BOOLEAN,
             leap_alarm : BOOLEAN, time : Times]

ASSUME NtpAssumption ==
  /\ NoTime \notin Times
  /\ NoServer \notin Servers
  /\ MsWrap \in Nat
  /\ BootMs \in 1 .. (MsWrap - 1)
  /\ NtpTimeout \in Nat
  /\ Datagrams \subseteq Datagram

VARIABLES
  status,             \* ntp_state.status
  error,              \* ntp_state.error
  request_start_ms,   \* ntp_state.request_start_ms
  ntp_server_address, \* ntp_state.ntp_server_address
  ntp_time,           \* clock_state.ntp_time
  ntp_time_updated,   \* clock_state.ntp_time_updated
  dns_pending,        \* lwIP will call ntp_dns_callback
  pcb_bound,          \* ntp_pcb has a port: datagrams can reach it
  ms,                 \* to_ms_since_boot(get_absolute_time())
  began,              \* history: ms when the last request began
  answer              \* history: what became of the last request

stateVars == <<status, error, request_start_ms>>
timeVars == <<ntp_time, ntp_time_updated>>
linkVars == <<ntp_server_address, dns_pending, pcb_bound>>
pastVars == <<began, answer>>
ntpVars == <<stateVars, timeVars, linkVars, pastVars>>

-----------------------------------------------------------------------------
(* The enumerations of ntp.h. *)

NtpStatus == {"IDLE", "KOD", "SUCCESS", "PENDING", "FAILED"}
NtpError == {"OK", "INIT", "DNS", "TIMEOUT", "PROTOCOL", "MEMORY"}
NULL_STATUS == "NULL_STATUS"
NULL_ERROR == "NULL_ERROR"

(* Differences of uint32_t millisecond values. *)
MsSince(later, earlier) ==
  IF later >= earlier THEN later - earlier ELSE later - earlier + MsWrap

(* The millisecond counter one timer period later. *)
NextMs == IF ms = MsWrap - 1 THEN 0 ELSE ms + 1

-----------------------------------------------------------------------------
(* Mutant of NtpAtomicStatus: NTP_NULL_ERROR is stored like any error. *)
MutantStoresNull(s, e, start) ==
  /\ status' = IF s = NULL_STATUS THEN status ELSE s
  /\ error' = e
  /\ request_start_ms' = IF start = 0 THEN request_start_ms ELSE start

(* ntp_atomic_status as a write: NULL values leave a field alone, and so   *)
(* does a start time of 0.                                                 *)
NtpAtomicStatus(s, e, start) ==
  /\ status' = IF s = NULL_STATUS THEN status ELSE s
  /\ error' = IF e = NULL_ERROR THEN error ELSE e
  /\ request_start_ms' = IF start = 0 THEN request_start_ms ELSE start

(* ntp_atomic_status as a read, with interrupts off: the three fields of   *)
(* one moment.                                                             *)
NtpAtomicState ==
  [status |-> status, error |-> error, request_start_ms |-> request_start_ms]

(* History: whether the last request has been answered; forgotten when     *)
(* clock_task has dealt with the answer.                                   *)
NoteAnswer ==
  answer' = IF answer = "none" THEN "answered" ELSE answer

ForgetAnswer ==
  /\ answer' = IF answer = "none" THEN "none" ELSE "no_request"
  /\ began' = IF answer = "none" THEN began ELSE BootMs

-----------------------------------------------------------------------------
(* Mutant of NtpSendOk: PENDING is announced when the request has left. *)
MutantAnnouncesLate ==
  /\ pcb_bound' = TRUE
  /\ NtpAtomicStatus("PENDING", NULL_ERROR, 0)
  /\ UNCHANGED answer

(* ntp_start_udp_request: the request leaves, or the failure is posted in  *)
(* the status.  It runs under the lwIP lock in either context.             *)
NtpSendOk ==
  /\ pcb_bound' = TRUE
  /\ UNCHANGED <<status, error, request_start_ms, answer>>

NtpSendFails(e) ==
  /\ NtpAtomicStatus("FAILED", e, 0)
  /\ NoteAnswer
  /\ UNCHANGED pcb_bound

NtpStartUdpRequest ==
  \/ NtpSendOk
  \/ NtpSendFails("MEMORY")     \* pbuf_alloc returned NULL
  \/ NtpSendFails("PROTOCOL")   \* udp_sendto returned an error

-----------------------------------------------------------------------------
(* ntp_request_async, in the main loop. *)

(* Mutant of NtpRequestBegin: the start time is not recorded. *)
MutantNoStartTime ==
  /\ NtpAtomicStatus("PENDING", "OK", 0)
  /\ began' = ms
  /\ answer' = "none"
  /\ UNCHANGED <<timeVars, linkVars>>

(* The request is announced before anything can answer it. *)
NtpRequestBegin ==
  /\ NtpAtomicStatus("PENDING", "OK", ms)
  /\ began' = ms
  /\ answer' = "none"
  /\ UNCHANGED <<timeVars, linkVars>>

(* dns_gethostbyname finds the address in its cache (ERR_OK). *)
NtpLookupCached ==
  /\ ntp_server_address' \in Servers
  /\ UNCHANGED <<stateVars, timeVars, pastVars, dns_pending, pcb_bound>>

(* dns_gethostbyname sends a query and will call back (ERR_INPROGRESS). *)
NtpLookupStarted ==
  /\ dns_pending' = TRUE
  /\ UNCHANGED <<stateVars, timeVars, pastVars, ntp_server_address, pcb_bound>>

-----------------------------------------------------------------------------
(* The lwIP interrupt. *)

(* ntp_dns_callback with an address: go on to the UDP request. *)
NtpDnsFound ==
  /\ dns_pending
  /\ dns_pending' = FALSE
  /\ ntp_server_address' \in Servers
  /\ NtpStartUdpRequest
  /\ UNCHANGED <<timeVars, began>>

(* ntp_dns_callback with none. *)
NtpDnsNotFound ==
  /\ dns_pending
  /\ dns_pending' = FALSE
  /\ NtpAtomicStatus("FAILED", "DNS", 0)
  /\ NoteAnswer
  /\ UNCHANGED <<timeVars, ntp_server_address, pcb_bound, began>>

NtpDnsCallback == NtpDnsFound \/ NtpDnsNotFound

(* ntp_timer_callback, the time_handler of clock.c: ntp_time is written    *)
(* before the flag that announces it.                                      *)
NtpTimerCallback(t) ==
  /\ ntp_time' = t
  /\ ntp_time_updated' = TRUE

(* The verdict of ntp_recv_callback, in the order the code tests. *)
NtpVerdict(d) ==
  IF d.src # ntp_server_address THEN <<"FAILED", "DNS">>
  ELSE IF ~d.response_valid THEN <<"FAILED", "PROTOCOL">>
  ELSE IF d.stratum_zero THEN <<"KOD", "OK">>
  ELSE IF d.leap_alarm THEN <<"FAILED", "PROTOCOL">>
  ELSE <<"SUCCESS", "OK">>

(* ntp_recv_callback.  Nothing ties a datagram to a request: one that is   *)
(* late, repeated or from elsewhere is judged like any other.              *)
NtpRecvCallback(d) ==
  LET verdict == NtpVerdict(d)
  IN /\ pcb_bound
     /\ NtpAtomicStatus(verdict[1], verdict[2], 0)
     /\ NoteAnswer
     /\ IF verdict[1] = "SUCCESS"
        THEN NtpTimerCallback(d.time)
        ELSE UNCHANGED timeVars
     /\ UNCHANGED <<linkVars, began>>

-----------------------------------------------------------------------------
(* ntp_init on the zeroed clock_state. *)
NtpInit ==
  /\ status = "IDLE"
  /\ error = "OK"
  /\ request_start_ms = 0
  /\ ntp_server_address = NoServer
  /\ ntp_time = NoTime
  /\ ntp_time_updated = FALSE
  /\ dns_pending = FALSE
  /\ pcb_bound = FALSE
  /\ ms = BootMs
  /\ began = BootMs
  /\ answer = "no_request"
=============================================================================
