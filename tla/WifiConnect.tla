---------------------------- MODULE WifiConnect ----------------------------
(***************************************************************************)
(* connect_to_wifi: attempts that block the program, each for at most      *)
(* WIFI_CONNECT_TIMEOUT_MS, until one succeeds, the time is up, or the     *)
(* access point has refused the password too often.  BootCycle calls it.   *)
(***************************************************************************)
EXTENDS Integers

CONSTANTS
  ConnectTimeout,    \* WIFI_CONNECT_TIMEOUT_MS
  AbandonTimeout,    \* WIFI_ABANDON_TIMEOUT_MS
  BadAuthRetryCount, \* WIFI_BAD_AUTH_RETRY_COUNT
  BadAuthRetryDelay, \* WIFI_BAD_AUTH_RETRY_DELAY_MS
  Lateness           \* how late the driver may return from a timeout

ASSUME WifiAssumption ==
  /\ ConnectTimeout \in Nat \ {0}
  /\ AbandonTimeout \in Nat
  /\ BadAuthRetryCount \in Nat \ {0}
  /\ BadAuthRetryDelay \in Nat
  /\ Lateness \in Nat

VARIABLES
  elapsed,           \* time since start_time_us
  bad_auth_count

wifiVars == <<elapsed, bad_auth_count>>

-----------------------------------------------------------------------------
(* How the driver's attempt can end, and how long that can take. *)
Attempts ==
  [ret : {"TIMEOUT"}, time : ConnectTimeout .. (ConnectTimeout + Lateness)]
  \cup [ret : {"OK", "BADAUTH", "CONNECT_FAILED", "UNKNOWN"},
        time : 0 .. ConnectTimeout]

(* The wifi_error_t values but WIFI_OK. *)
WifiErrors == {"WIFI_INIT_ERROR", "WIFI_TIMEOUT_ERROR", "WIFI_AUTH_ERROR",
               "WIFI_CONNECT_ERROR", "WIFI_UNKNOWN_ERROR"}

(* What connect_to_wifi returns after the last attempt. *)
Returned == [OK |-> "OK", TIMEOUT |-> "WIFI_TIMEOUT_ERROR",
             BADAUTH |-> "WIFI_AUTH_ERROR",
             CONNECT_FAILED |-> "WIFI_CONNECT_ERROR",
             UNKNOWN |-> "WIFI_UNKNOWN_ERROR"]

(* Mutant of TriesAgain: the start time is taken again at every attempt. *)
MutantRestartsClock(a) ==
  \/ a.ret = "TIMEOUT" /\ a.time <= AbandonTimeout
  \/ a.ret = "BADAUTH" /\ bad_auth_count + 1 < BadAuthRetryCount

(* The loop takes another turn after an attempt. *)
TriesAgain(a) ==
  \/ a.ret = "TIMEOUT" /\ elapsed + a.time <= AbandonTimeout
  \/ a.ret = "BADAUTH" /\ bad_auth_count + 1 < BadAuthRetryCount

(* The locals before the first turn, and when the function has returned. *)
ResetLocals == elapsed' = 0 /\ bad_auth_count' = 0

(* The next turn of the loop begins. *)
Retry(a) ==
  /\ TriesAgain(a)
  /\ IF a.ret = "BADAUTH"
     THEN /\ bad_auth_count' = bad_auth_count + 1
          /\ elapsed' = elapsed + a.time + BadAuthRetryDelay
     ELSE /\ elapsed' = elapsed + a.time
          /\ UNCHANGED bad_auth_count
=============================================================================
