---------------------------- MODULE SyncedClock ----------------------------
(***************************************************************************)
(* What the NTP client and the clock promise together, without callbacks,  *)
(* flags and copies: at most one request is outstanding, a request ends by *)
(* an answer, a refusal or a reboot, and the newest time heard is the one  *)
(* the clock takes.  ClockTask implements it.                              *)
(***************************************************************************)

CONSTANTS Times, NoTime

VARIABLES
  request,  \* "none", "open", or "down" while the Pico reboots
  heard,    \* the newest time a server has sent
  taken     \* the time the clock was last set to

vars == <<request, heard, taken>>

TypeOK ==
  /\ request \in {"none", "open", "down"}
  /\ heard \in Times \cup {NoTime}
  /\ taken \in Times \cup {NoTime}

Boot ==
  /\ request' = "none"
  /\ heard' = NoTime
  /\ taken' = NoTime

Ask ==
  /\ request = "none"
  /\ request' = "open"
  /\ UNCHANGED <<heard, taken>>

(* A time arrives, asked for or not. *)
Hear(t) ==
  /\ request # "down"
  /\ request' = "none"
  /\ heard' = t
  /\ UNCHANGED taken

(* The request fails, or the server asks for patience. *)
Refuse ==
  /\ request = "open"
  /\ request' = "none"
  /\ UNCHANGED <<heard, taken>>

Take ==
  /\ request # "down"
  /\ taken' = heard
  /\ UNCHANGED <<request, heard>>

GoDown ==
  /\ request # "down"
  /\ request' = "down"
  /\ UNCHANGED <<heard, taken>>

EndRequest ==
  /\ request = "open"
  /\ Refuse \/ GoDown \/ \E t \in Times : Hear(t)

-----------------------------------------------------------------------------
Init == request = "none" /\ heard = NoTime /\ taken = NoTime

Next == Ask \/ Refuse \/ Take \/ GoDown \/ (\E t \in Times : Hear(t))
        \/ (request = "down" /\ Boot)

Spec == Init /\ [][Next]_vars

(* Every request ends, every time heard is taken unless a newer one comes  *)
(* or the Pico goes down, and the Pico comes up again.                     *)
FairSpec == /\ Spec
            /\ WF_vars(EndRequest)
            /\ WF_vars(Take)
            /\ WF_vars(request = "down" /\ Boot)
=============================================================================
