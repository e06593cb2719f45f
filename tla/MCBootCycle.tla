---------------------------- MODULE MCBootCycle ----------------------------
(* A small instance of BootCycle for TLC: two configurations, so that an   *)
(* old and a new one can be told apart, and an error of NTP.  Three        *)
(* timeouts in a row just reach the abandon timeout, as in config.h.       *)
EXTENDS BootCycle

MCNtpErrors == {"NTP_TIMEOUT_ERROR"}
=============================================================================
