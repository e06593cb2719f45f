---------------------------- MODULE MCClockTask ----------------------------
(* Small instances of ClockTask for TLC.  No definition tells one server   *)
(* or one time from another, so the safety run may take them as symmetric. *)
EXTENDS ClockTask, TLC

(* One datagram for each path through ntp_recv_callback, from each server, *)
(* and a good one for each time.                                           *)
Reply(s, valid, kod, alarm, t) ==
  [src |-> s, response_valid |-> valid, stratum_zero |-> kod,
   leap_alarm |-> alarm, time |-> t]

MCDatagrams ==
  LET t0 == CHOOSE t \in Times : TRUE
  IN UNION {{Reply(s, FALSE, FALSE, FALSE, t0), Reply(s, TRUE, TRUE, TRUE, t0),
             Reply(s, TRUE, FALSE, TRUE, t0)} : s \in Servers}
     \cup {Reply(s, TRUE, FALSE, FALSE, t) : s \in Servers, t \in Times}

(* A good answer and a KoD only. *)
MCAnswers == {Reply(s, TRUE, kod, FALSE, t) : s \in Servers, kod \in BOOLEAN,
                                              t \in Times}

Symmetry == Permutations(Servers) \cup Permutations(Times)
=============================================================================
