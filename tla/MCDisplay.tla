----------------------------- MODULE MCDisplay -----------------------------
(* A small instance for TLC of Display and Backlight.  They share no state *)
(* (the callback only sets a PWM level), so that the light is looked at    *)
(* while the displays are off and the displays before the light is read.   *)
(*                                                                         *)
(* Two times after power-on and a week with the changes that redraw all,   *)
(* some or one of the displays; days that follow each other with the same  *)
(* first letter, and with different ones.                                  *)
EXTENDS Display, Backlight

MCTimes ==
  LET at(d, h, m) == [day |-> d, hour |-> h, min |-> m]
  IN <<at(4, 0, 0), at(4, 0, 1),
       at(6, 23, 59), at(0, 0, 0), at(1, 9, 59), at(1, 10, 0), at(2, 11, 11),
       at(3, 0, 0), at(4, 19, 59), at(4, 20, 0), at(5, 0, 0), at(6, 0, 0)>>

MCInit == Init /\ LightInit
MCNext == \/ steady = 0 /\ Next /\ UNCHANGED lightVars
          \/ place = "off" /\ LightNext /\ UNCHANGED vars
MCSpec == MCInit /\ [][MCNext]_<<vars, lightVars>>
          /\ WF_<<vars, lightVars>>(steady = 0 /\ TimePasses /\ UNCHANGED lightVars)
=============================================================================
