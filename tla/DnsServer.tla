----------------------------- MODULE DnsServer -----------------------------
(***************************************************************************)
(* The DNS server of the captive portal (dnsserver.c): every question is   *)
(* answered with the clock's own address, so that a phone that asks for    *)
(* anything is led to the configuration page.  Of a datagram the server    *)
(* looks at the header's flags and at the lengths of the labels of the     *)
(* first name; lengths and positions count bytes.                          *)
(***************************************************************************)
EXTENDS Integers, Sequences, SequencesExt

CONSTANTS
  HeaderLen,  \* sizeof(dns_header_t)
  MaxMsg,     \* MAX_DNS_MSG_SIZE
  MaxLabel,   \* 63
  MaxName,    \* 255
  TailLen,    \* the question's type and class
  AnswerLen,  \* the answer record
  Queries,    \* the datagrams looked at
  NoQuery

(* Where the labels of a name end, counted from its start. *)
LabelEnds(labels) ==
  LET end[i \in 0 .. Len(labels)] ==
        IF i = 0 THEN 0 ELSE end[i - 1] + 1 + labels[i]
  IN end

(* The length of a name, its end included. *)
NameLen(q) == LabelEnds(q.labels)[Len(q.labels)]

Terminated(q) == q.labels # <<>> /\ Last(q.labels) = 0

(* len is the datagram's length, standard a query of opcode 0, count the   *)
(* number of questions, labels the length bytes of the first name, which   *)
(* ends with its first 0 or where the message does.                        *)
Query ==
  {q \in [len : Nat, standard : BOOLEAN, count : Nat, labels : Seq(Nat)] :
     /\ \A i \in 1 .. (Len(q.labels) - 1) : q.labels[i] # 0
     /\ Terminated(q) \/ q.len <= HeaderLen + NameLen(q)}

ASSUME DnsAssumption ==
  /\ {HeaderLen, MaxMsg, MaxLabel, MaxName, TailLen, AnswerLen} \subseteq Nat
  /\ HeaderLen + MaxName + TailLen + AnswerLen <= MaxMsg
  /\ Queries \subseteq Query /\ NoQuery \notin Query

VARIABLES
  dns_state,    \* "none" (no socket), "ready", the part of a datagram being
                \*   parsed, "name" or "tail", or "done"
  query,        \* the datagram in p, NoQuery without one
  msg_len,
  question_ptr,
  label,        \* how many labels lie before question_ptr
  dns_reply     \* history: the length of the reply to query, 0 for none

dnsVars == <<dns_state, query, msg_len, question_ptr, label, dns_reply>>

-----------------------------------------------------------------------------
(* The socket is made, bound, and waits; udp_new or udp_bind may fail. *)
DnsServerInit ==
  /\ dns_state = "none"
  /\ dns_state' = "ready"
  /\ UNCHANGED <<query, msg_len, question_ptr, label, dns_reply>>

DnsServerDeinit ==
  /\ dns_state = "ready"
  /\ dns_state' = "none"
  /\ UNCHANGED <<query, msg_len, question_ptr, label, dns_reply>>

(* The header: answers and other kinds of request are ignored. *)
DnsReceive ==
  /\ dns_state = "ready"
  /\ query' \in Queries
  /\ msg_len' = IF query'.len < MaxMsg THEN query'.len ELSE MaxMsg
  /\ dns_state' = IF msg_len' >= HeaderLen /\ query'.standard /\ query'.count >= 1
                  THEN "name" ELSE "done"
  /\ question_ptr' = HeaderLen
  /\ UNCHANGED <<label, dns_reply>>

LabelLen == query.labels[label + 1]

(* A label that lies in the message is skipped. *)
DnsLabel ==
  /\ dns_state = "name" /\ question_ptr < msg_len
  /\ LabelLen \in 1 .. MaxLabel
  /\ question_ptr + 1 + LabelLen <= msg_len
  /\ question_ptr' = question_ptr + 1 + LabelLen
  /\ label' = label + 1
  /\ UNCHANGED <<dns_state, query, msg_len, dns_reply>>

DnsNameEnds ==
  /\ dns_state = "name" /\ question_ptr < msg_len
  /\ LabelLen = 0
  /\ question_ptr' = question_ptr + 1
  /\ dns_state' = "tail"
  /\ UNCHANGED <<query, msg_len, label, dns_reply>>

(* A name that is not one, or that has no end. *)
DnsIgnore ==
  /\ dns_state = "name"
  /\ question_ptr < msg_len
       => \/ LabelLen > MaxLabel
          \/ LabelLen > 0 /\ question_ptr + 1 + LabelLen > msg_len
  /\ dns_state' = "done"
  /\ UNCHANGED <<query, msg_len, question_ptr, label, dns_reply>>

(* Mutant of Answerable: the type and the class are not looked for. *)
MutantNoTail ==
  /\ question_ptr - HeaderLen <= MaxName
  /\ question_ptr + TailLen + AnswerLen <= MaxMsg

(* Mutant of Answerable: the buffer would have to be longer by a byte than *)
(* the question.                                                           *)
MutantTailInside ==
  /\ question_ptr - HeaderLen <= MaxName
  /\ question_ptr + TailLen < msg_len
  /\ question_ptr + TailLen + AnswerLen <= MaxMsg

(* The question is whole and the answer fits behind it. *)
Answerable ==
  /\ question_ptr - HeaderLen <= MaxName
  /\ question_ptr + TailLen <= msg_len
  /\ question_ptr + TailLen + AnswerLen <= MaxMsg

(* The reply overwrites what followed the first question in the buffer. *)
DnsAnswer ==
  /\ dns_state = "tail"
  /\ dns_state' = "done"
  /\ dns_reply' = IF Answerable THEN question_ptr + TailLen + AnswerLen ELSE 0
  /\ UNCHANGED <<query, msg_len, question_ptr, label>>

(* ignore_request: the datagram is freed, and nothing of it remains. *)
DnsFree ==
  /\ dns_state = "done"
  /\ dns_state' = "ready"
  /\ query' = NoQuery
  /\ msg_len' = 0 /\ question_ptr' = 0 /\ label' = 0 /\ dns_reply' = 0

DnsInit ==
  /\ dns_state = "none"
  /\ query = NoQuery
  /\ msg_len = 0 /\ question_ptr = 0 /\ label = 0 /\ dns_reply = 0

DnsNext ==
  \/ DnsServerInit \/ DnsServerDeinit
  \/ DnsReceive
  \/ DnsLabel \/ DnsNameEnds \/ DnsIgnore \/ DnsAnswer \/ DnsFree

DnsSpec == DnsInit /\ [][DnsNext]_dnsVars
-----------------------------------------------------------------------------
(* ReadsInside: the server never reads behind the end of the message, and  *)
(* it answers only a question it has read whole with a reply that fits its *)
(* buffer (dnsserver.c:158-212).                                           *)
ReadsInside ==
  /\ dns_state \in {"name", "tail"} => question_ptr <= msg_len
  /\ dns_reply > 0 => /\ question_ptr + TailLen <= msg_len
                      /\ dns_reply <= MaxMsg

Legal(q) ==
  /\ q.standard /\ q.count >= 1
  /\ Terminated(q)
  /\ \A i \in 1 .. (Len(q.labels) - 1) : q.labels[i] \in 1 .. MaxLabel
  /\ NameLen(q) <= MaxName
  /\ HeaderLen + NameLen(q) + TailLen <= q.len

(* LegalAnswered: every standard query for a legal name is answered, up to *)
(* the longest name there is and whatever records, questions or padding    *)
(* follow it, even if they do not fit the buffer (dnsserver.c:109-244).    *)
LegalAnswered ==
  dns_state = "done" => (dns_reply > 0 <=> Legal(query))
=============================================================================
