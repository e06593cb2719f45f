----------------------------- MODULE ConfigForm -----------------------------
(***************************************************************************)
(* The configuration form from the page to the page's answer in flash: the *)
(* template expanded with the configuration in use, the user's browser,    *)
(* and tcp_server_recv taking the fields of the POST one by one (wifi.c).  *)
(* How the request arrives in packets is ApServer's subject.               *)
(*                                                                         *)
(* A text is a sequence of characters and a request's body a sequence of   *)
(* symbols: a character, an escape such as "%26", a key or a numeral.      *)
(***************************************************************************)
EXTENDS Integers, Sequences, SequencesExt

CONSTANTS
  Chars,         \* the characters of texts, and the numerals
  MaxLen,        \* WIFI_SSID_MAX_LEN, WIFI_PASSWORD_MAX_LEN, HOSTNAME_MAX_LEN
  NumberOf,      \* what strtol makes of the numerals
  Bounds,        \* the least and the greatest number of a field
  Template,      \* form.html: lengths of literal text, and keys
  Configs,       \* configurations that may be in use, NoConfig among them
  NoConfig,      \* the access point was started without one
  DefaultServer, \* NTP_DEFAULT_SERVER
  Edits,         \* what users may change of the fields of the page
  Forms          \* the keys that requests send, in their order

TextKeys == {"ssid", "pwd", "ntp"}
NumberKeys == {"tz", "cto", "port"}
DstRules == {"NONE", "NA", "EU", "AU", "NZ", "CL", "IL"}

Fields == TextKeys \cup NumberKeys \cup {"dst", "led_on"}

(* The values of the fields of the page without a placeholder. *)
FixedValues == [tz |-> <<"0">>, dst |-> <<"NONE">>, cto |-> <<"10000">>,
                port |-> <<"123">>, led_on |-> <<"1">>, bl |-> <<"100">>]

(* A text of a configuration ends within its array. *)
IsConfig(c) ==
  /\ DOMAIN c = Fields
  /\ \A key \in TextKeys : c[key] \in Seq(Chars) /\ Len(c[key]) <= MaxLen[key]

(* The page lets every field be changed but the box and the slider, the    *)
(* rule to one of its options.                                             *)
IsEdit(edit) ==
  /\ DOMAIN edit \subseteq Fields \ {"led_on"}
  /\ \A key \in DOMAIN edit : edit[key] \in Seq(Chars)
  /\ "dst" \in DOMAIN edit => edit["dst"] \in {<<rule>> : rule \in DstRules}

ASSUME FormAssumption ==
  /\ MaxLen \in [TextKeys -> Nat \ {0}]
  /\ \A key \in NumberKeys : Bounds[key].min \in Int /\ Bounds[key].max \in Int
  /\ \A n \in DOMAIN NumberOf : NumberOf[n] \in Int
  /\ Chars \cap {"\n", "%26", "%3D", "%25", "%2B"} = {}
  /\ \A key \in DOMAIN FixedValues : FixedValues[key] \in Seq(Chars)
  /\ \A c \in Configs \ {NoConfig} : IsConfig(c)
  /\ \A edit \in Edits : IsEdit(edit)
  /\ Forms \subseteq Seq(Fields \cup {"bl"}) \ {<<>>}

(* A placeholder of the template is longer than nothing, and every text    *)
(* has one at most.                                                        *)
ASSUME TemplateAssumption ==
  /\ Template \in Seq([key : TextKeys \cup {""}, length : Nat])
  /\ \A i \in DOMAIN Template : Template[i].key # "" =>
       /\ Template[i].length > 0
       /\ \A j \in DOMAIN Template : Template[j].key = Template[i].key => i = j

VARIABLES
  flash_config, \* con_state->flash_config
  stored,       \* the configuration in flash
  body,         \* what is left of the POST's body
  config,       \* the configuration being put together
  result,       \* where the request is: "none", "taking", 200 or 400
  entered       \* history: the fields the user sent

vars == <<flash_config, stored, body, config, result, entered>>

-----------------------------------------------------------------------------
(* expand_html_template. *)

(* Mutant of FormMaxLength: room for two of the three texts. *)
MutantTwoTexts(keyLength) == keyLength + MaxLen["ssid"] + MaxLen["pwd"]

(* HTML_FORM_MAX_LENGTH; the template's length counts the placeholders.    *)
FormMaxLength(templateLength) ==
  templateLength + MaxLen["ssid"] + MaxLen["pwd"] + MaxLen["ntp"]

(* What replaces a placeholder. *)
Replacement(key) == IF flash_config = NoConfig THEN <<>> ELSE flash_config[key]

PartLength(part) ==
  IF part.key = "" THEN part.length ELSE Len(Replacement(part.key))

(* The length of the first parts of the template. *)
TemplateLength ==
  LET upTo[i \in 0 .. Len(Template)] ==
        IF i = 0 THEN 0 ELSE upTo[i - 1] + Template[i].length
  IN upTo

(* The length of the page they make, or -1 when one of them does not fit.  *)
PageLength ==
  LET max == FormMaxLength(TemplateLength[Len(Template)])
      upTo[i \in 0 .. Len(Template)] ==
        IF i = 0 THEN 0
        ELSE IF upTo[i - 1] < 0 \/ upTo[i - 1] + PartLength(Template[i]) >= max
             THEN -1 ELSE upTo[i - 1] + PartLength(Template[i])
  IN upTo

Expanded == PageLength[Len(Template)]

(* The fields the browser shows; those without a placeholder are the same  *)
(* in every page.                                                          *)
Shown ==
  [key \in TextKeys \cup DOMAIN FixedValues |->
     IF key \in TextKeys THEN Replacement(key) ELSE FixedValues[key]]

-----------------------------------------------------------------------------
(* The browser: a form's values with the special characters escaped.       *)
Special == [c \in {"&", "=", "%", "+"} |->
              CASE c = "&" -> "%26" [] c = "=" -> "%3D"
                [] c = "%" -> "%25" [] c = "+" -> "%2B"]

Escape(c) ==
  IF c \in DOMAIN Special THEN Special[c] ELSE IF c = " " THEN "+" ELSE c

Field(key, value) ==
  <<key, "=">> \o [i \in DOMAIN value |-> Escape(value[i])]

(* The last fields of a form, by their number. *)
Encode(values, keys) ==
  LET last[n \in 0 .. Len(keys)] ==
        LET key == keys[Len(keys) - n + 1]
        IN IF n = 0 THEN <<>>
           ELSE Field(key, values[key])
                  \o (IF n = 1 THEN <<>> ELSE <<"&">> \o last[n - 1])
  IN last

-----------------------------------------------------------------------------
(* urldecode_inplace. *)
Unescape(s) ==
  IF \E c \in DOMAIN Special : Special[c] = s
  THEN CHOOSE c \in DOMAIN Special : Special[c] = s
  ELSE IF s = "+" THEN " " ELSE s

(* Without the line ends that follow the last visible character. *)
Stripped(text) ==
  SubSeq(text, 1, SelectLastInSeq(text, LAMBDA c : c # "\n"))

Decode(value) == Stripped([i \in DOMAIN value |-> Unescape(value[i])])

(* Mutant of ParsesBounded: the greatest number is left out. *)
MutantBelowMax(value, key) ==
  /\ Len(value) = 1 /\ value[1] \in DOMAIN NumberOf
  /\ NumberOf[value[1]] \in Bounds[key].min .. (Bounds[key].max - 1)

(* parse_long_bounded. *)
ParsesBounded(value, key) ==
  /\ Len(value) = 1 /\ value[1] \in DOMAIN NumberOf
  /\ NumberOf[value[1]] \in Bounds[key].min .. Bounds[key].max

FirstOf(text, n) == SubSeq(text, 1, IF Len(text) < n THEN Len(text) ELSE n)

(* strncpy into a field of zeros one byte longer than the text may be.     *)
Truncated(text, key) == FirstOf(text, MaxLen[key])

(* What no rule is called is taken as none. *)
Rule(value) ==
  IF Len(value) = 1 /\ value[1] \in DstRules THEN value[1] ELSE "NONE"

(* The value of the box when it is checked. *)
Ticked(value) == value # <<>> /\ value[1] = "1"

(* The value a field of the configuration gets. *)
FieldValue(key, value) ==
  CASE key \in TextKeys -> Truncated(value, key)
    [] key \in NumberKeys -> NumberOf[value[1]]
    [] key = "dst" -> Rule(value)
    [] key = "led_on" -> Ticked(value)

(* The configuration a form starts from. *)
Base ==
  IF flash_config # NoConfig THEN flash_config
  ELSE [ssid |-> <<>>, pwd |-> <<>>, ntp |-> DefaultServer, tz |-> 0,
        dst |-> "NONE", cto |-> 10000, port |-> 123, led_on |-> FALSE]

-----------------------------------------------------------------------------
(* The user edits the fields and sends the form.  An unchecked box is not  *)
(* among the keys; some clients end the body with an empty line.           *)
Submit ==
  /\ result \in {"none", "400"}
  /\ \E edit \in Edits, keys \in Forms, tail \in {<<>>, <<"\n">>} :
       /\ entered' = [key \in ToSet(keys) |->
                        IF key \in DOMAIN edit THEN edit[key] ELSE Shown[key]]
       /\ body' = Encode(entered', keys)[Len(keys)] \o tail
  /\ config' = Base
  /\ result' = "taking"
  /\ UNCHANGED <<flash_config, stored>>

(* Mutant of PairEnd: the escapes are undone before the pairs are told     *)
(* apart.                                                                  *)
MutantDecodesFirst == SelectInSeq(body, LAMBDA s : s \in {"&", "%26"})

(* Where strtok_r ends the next pair, 0 for the end of the body. *)
PairEnd == SelectInSeq(body, LAMBDA s : s = "&")

Pair == IF PairEnd = 0 THEN body ELSE SubSeq(body, 1, PairEnd - 1)

(* The decoded value of a pair; pairs without a '=' and unknown keys are   *)
(* of no interest.                                                         *)
Value == Decode(SubSeq(Pair, 3, Len(Pair)))
Known == Len(Pair) > 1 /\ Pair[2] = "=" /\ Pair[1] \in DOMAIN config

Invalid == Known /\ Pair[1] \in NumberKeys /\ ~ParsesBounded(Value, Pair[1])

(* A field is copied to the configuration. *)
TakePair ==
  /\ result = "taking" /\ body # <<>>
  /\ ~Invalid
  /\ config' = IF Known
               THEN [config EXCEPT ![Pair[1]] = FieldValue(Pair[1], Value)]
               ELSE config
  /\ body' = IF PairEnd = 0 THEN <<>> ELSE SubSeq(body, PairEnd + 1, Len(body))
  /\ UNCHANGED <<flash_config, stored, result, entered>>

(* 400 Bad Request: the rest of the form is not looked at. *)
Reject ==
  /\ result = "taking" /\ body # <<>>
  /\ Invalid
  /\ result' = "400"
  /\ body' = <<>>
  /\ config' = Base
  /\ UNCHANGED <<flash_config, stored, entered>>

(* 200 OK: the configuration goes to flash, the access point ends. *)
Store ==
  /\ result = "taking" /\ body = <<>>
  /\ stored' = config
  /\ result' = "200"
  /\ UNCHANGED <<flash_config, body, config, entered>>

(* The clock reboots. *)
Rebooted == result = "200" /\ UNCHANGED vars

Init ==
  /\ flash_config \in Configs
  /\ stored = flash_config
  /\ body = <<>>
  /\ config = Base
  /\ result = "none"
  /\ entered = <<>>

Next == Submit \/ TakePair \/ Reject \/ Store \/ Rebooted

Spec == Init /\ [][Next]_vars
-----------------------------------------------------------------------------
(* PageFits: the page with the texts of any configuration fits its buffer; *)
(* if it did not, the access point would give up and the clock could never *)
(* be configured again (wifi.c:296-351, 573-576).                          *)
PageFits == Expanded >= 0

Acceptable ==
  \A key \in NumberKeys \cap DOMAIN entered :
    \E n \in DOMAIN NumberOf :
      /\ entered[key] = <<n>>
      /\ Bounds[key].min <= NumberOf[n] /\ NumberOf[n] <= Bounds[key].max

(* AllOrNothing: a form with a number out of bounds changes nothing,       *)
(* wherever in the form it stands, and every other form is accepted        *)
(* (wifi.c:453-497).                                                       *)
AllOrNothing ==
  /\ result = "400" => ~Acceptable
  /\ result = "200" => Acceptable
  /\ result # "200" => stored = flash_config

(* The value c of a field stands for what the user typed. *)
StandsFor(c, key, value) ==
  CASE key \in TextKeys ->
         /\ IsPrefix(c, value)
         /\ Len(c) <= MaxLen[key]
         /\ c # value => Len(c) = MaxLen[key]
    [] key \in NumberKeys -> \E n \in DOMAIN NumberOf :
                               value = <<n>> /\ NumberOf[n] = c
    [] key = "dst" -> value = <<c>>
    [] key = "led_on" -> c = TRUE

(* FormStored: what the user typed is what goes to flash: a text up to its *)
(* greatest length, special characters and all, and a field that was not   *)
(* sent as it was before (wifi.c:268-293, 412-500).                        *)
FormStored ==
  result = "200" =>
    \A key \in DOMAIN stored :
      IF key \in DOMAIN entered THEN StandsFor(stored[key], key, entered[key])
      ELSE stored[key] = Base[key]

(* MinimumSetup: "The minimum setup is a valid Wi-Fi SSID and password"    *)
(* (README.md:74): a clock without a configuration, whose user fills in no *)
(* more than these, asks the default NTP server.                           *)
MinimumSetup ==
  result = "200" /\ flash_config = NoConfig /\ "ntp" \in DOMAIN entered
    /\ entered["ntp"] = Shown["ntp"]
      => stored["ntp"] = DefaultServer
=============================================================================
