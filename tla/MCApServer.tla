----------------------------- MODULE MCApServer -----------------------------
(* Small instances of ApServer for TLC: a form that announces its length   *)
(* and has a trailing line break, one with a number out of bounds, one     *)
(* with a malformed length, one too long for the buffer, one whose length  *)
(* header is spelt in another way, and the pages.                          *)
EXTENDS ApServer

Post(length, body, extra, valid) ==
  [method |-> "POST", content_length |-> length, body |-> body,
   extra |-> extra, valid |-> valid]

Get(method) == [method |-> method, content_length |-> "none", body |-> 0,
                extra |-> 0, valid |-> TRUE]

MCRequests == {Post("ok", 1, 1, TRUE), Post("ok", 1, 0, FALSE),
               Post("bad", 0, 0, TRUE), Post("ok", 3, 0, TRUE),
               Post("none", 1, 0, TRUE), Get("GET_CONFIG"), Get("GET_OTHER")}
=============================================================================
