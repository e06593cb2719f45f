------------------------------ MODULE MCPortal ------------------------------
(* A small instance for TLC of the two servers of the portal that parse:   *)
(* DnsServer and ConfigForm.  lwIP runs one callback at a time and the two *)
(* share no state, so that queries are looked at when no form has been     *)
(* sent yet, and forms when the DNS server is not up.                      *)
(*                                                                         *)
(* Names of at most eight bytes and labels of at most three.               *)
(*                                                                         *)
(* Texts of at most two characters, or four, where the form lets one more  *)
(* be typed, numbers at and beyond their bounds, forms as browsers send    *)
(* them, with and without the LED's box, and shorter ones in another order *)
(* as the tests send them.                                                 *)
EXTENDS ConfigForm, DnsServer

(* The length bytes of names that end with 0, and of some that do not.     *)
Names == {Append(n, 0) : n \in BoundedSeq(1 .. 4, 3)}
         \cup {<<4>>, <<3, 4>>, <<1, 3>>, <<2, 2, 2, 2>>, <<1, 1, 1, 1, 1, 1, 1, 1, 1>>}

(* A message that is cut before its last length byte would not have it.    *)
MCQueries ==
  {q \in [len : 0 .. 22, standard : BOOLEAN, count : 0 .. 2, labels : Names] :
     /\ Last(q.labels) # 0 => q.len <= HeaderLen + NameLen(q)
     /\ (~q.standard \/ q.count = 0) => q.labels = <<1, 0>>}

MCInit == Init /\ DnsInit
MCNext == \/ result = "none" /\ DnsNext /\ UNCHANGED vars
          \/ dns_state = "none" /\ Next /\ UNCHANGED dnsVars
MCSpec == MCInit /\ [][MCNext]_<<vars, dnsVars>>

MCMaxLen == [ssid |-> 2, pwd |-> 1, ntp |-> 4]

Between(low, high) == [min |-> low, max |-> high]
MCBounds == [tz |-> Between(-720, 840), cto |-> Between(1000, 60000),
             port |-> Between(1, 65535)]
MCNumberOf == ("-721" :> -721) @@ ("-720" :> -720) @@ ("0" :> 0) @@ ("1" :> 1)
  @@ ("123" :> 123) @@ ("840" :> 840) @@ ("841" :> 841) @@ ("999" :> 999)
  @@ ("1000" :> 1000) @@ ("10000" :> 10000) @@ ("60000" :> 60000)
  @@ ("60001" :> 60001) @@ ("65535" :> 65535) @@ ("65536" :> 65536)

MCChars == {"a", "b", "n", "&", "=", "%", "+", " ", "x", "100"}
           \cup DOMAIN MCNumberOf \cup DstRules

MCTemplate ==
  LET text == [key |-> "", length |-> 3]
      place(key) == [key |-> key, length |-> 1]
  IN <<text, place("ssid"), text, place("pwd"), text, place("ntp"), text>>

MCDefaultServer == <<"n">>
MCConfig == [ssid |-> <<"a", "+">>, pwd |-> <<"b">>, ntp |-> <<"n", "n", "n", "n">>,
             tz |-> 60, dst |-> "EU", cto |-> 10000, port |-> 123, led_on |-> TRUE]

MCConfigs == {NoConfig, MCConfig}

Text(n) == BoundedSeq({"a", "&", "=", "%", "+", " "}, n)
MCEdits ==
  [ssid : Text(3) \ {<<>>}, pwd : {<<"a">>}]
  \cup [ssid : {<<"a">>}, pwd : {<<"b">>, <<"%", "&">>}, ntp : Text(1)]
  \cup [ssid : {<<"a">>}, pwd : {<<"b">>}, tz : {<<"-720">>, <<"840">>, <<"841">>, <<"-721">>},
        cto : {<<"1000">>, <<"60001">>}, port : {<<"0">>, <<"65535">>, <<"x">>},
        dst : {<<"NONE">>, <<"NA">>}]

MCForms ==
  {<<"ssid", "pwd", "tz", "dst", "bl", "led_on", "ntp", "port", "cto">>,
   <<"ssid", "pwd", "tz", "dst", "bl", "ntp", "port", "cto">>,
   <<"port", "ssid", "cto", "led_on", "pwd">>}
=============================================================================
