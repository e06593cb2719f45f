---------------------------- MODULE Portal_proofs ----------------------------
(***************************************************************************)
(* The two servers of the portal that parse what others send.  The DNS     *)
(* server stays within its buffer and answers every legal question; the    *)
(* configuration form's page fits its buffer, and what the user typed is   *)
(* what goes to flash: for every datagram, form and configuration, and     *)
(* every choice of the limits.                                             *)
(***************************************************************************)
EXTENDS ConfigForm, DnsServer, WellFoundedInduction, SequenceTheorems, TLAPS

(* Induction over the natural numbers, with a set for the property. *)
LEMMA SetInduction ==
  ASSUME NEW S, 0 \in S, \A n \in Nat : n \in S => n + 1 \in S
  PROVE  Nat \subseteq S
<1> SUFFICES ASSUME Nat \ S # {}
             PROVE  FALSE
  OBVIOUS
<1>1. IsWellFoundedOn(OpToRel(<, Nat), Nat)
  BY NatLessThanWellFounded
<1>2. PICK n \in Nat \ S : \A k \in Nat \ S : ~ (<<k, n>> \in OpToRel(<, Nat))
  BY <1>1, WFMin
<1>3. \A k \in Nat \ S : ~(k < n)
  BY <1>2 DEF OpToRel
<1>4. n \in Nat /\ n \notin S /\ n # 0
  BY <1>2
<1>5. n - 1 \in Nat /\ n - 1 < n /\ n - 1 + 1 = n
  BY <1>4
<1>6. n - 1 \in S
  BY <1>3, <1>5
<1>7. QED
  BY <1>4, <1>5, <1>6

(* A recursive function of the numbers up to n with its values in T, whose *)
(* step is itself a function.                                              *)
IsStep(step, n, T) == step \in [1 .. n -> [T -> T]]

Recurses(f, n, T, base, step) ==
  /\ f \in [0 .. n -> T]
  /\ f[0] = base
  /\ \A i \in 1 .. n : f[i] = step[i][f[i - 1]]

(* It is defined. *)
LEMMA RecursionExists ==
  ASSUME NEW T, NEW base \in T, NEW n \in Nat, NEW step, IsStep(step, n, T)
  PROVE  \E f : Recurses(f, n, T, base, step)
<1> DEFINE S == {k \in Nat : k <= n => \E f : Recurses(f, k, T, base, step)}
<1>1. 0 \in S
  <2>1. Recurses([i \in 0 .. 0 |-> base], 0, T, base, step)
    BY DEF Recurses
  <2>2. QED
    BY <2>1
<1>2. ASSUME NEW k \in Nat, k \in S
      PROVE  k + 1 \in S
  <2> SUFFICES ASSUME k + 1 <= n
               PROVE  \E f : Recurses(f, k + 1, T, base, step)
    OBVIOUS
  <2>1. PICK f : Recurses(f, k, T, base, step)
    BY <1>2
  <2> DEFINE g == [i \in 0 .. (k + 1) |->
                     IF i <= k THEN f[i] ELSE step[k + 1][f[k]]]
  <2>2. f[k] \in T /\ k + 1 \in 1 .. n
    BY <2>1 DEF Recurses
  <2>3. g \in [0 .. (k + 1) -> T]
    <3>1. step[k + 1] \in [T -> T]
      BY <2>2 DEF IsStep
    <3>2. step[k + 1][f[k]] \in T
      BY <2>2, <3>1
    <3>3. QED
      BY <2>1, <3>2 DEF Recurses
  <2>4. ASSUME NEW i \in 1 .. (k + 1)
        PROVE  g[i] = step[i][g[i - 1]]
    <3>1. CASE i \in 1 .. k
      BY <2>1, <3>1 DEF Recurses
    <3>2. CASE i = k + 1
      BY <2>1, <3>2 DEF Recurses
    <3>3. QED
      BY <3>1, <3>2
  <2>5. g[0] = base
    BY <2>1 DEF Recurses
  <2>6. QED
    <3> HIDE DEF g
    <3>1. Recurses(g, k + 1, T, base, step)
      BY <2>3, <2>4, <2>5 DEF Recurses
    <3>2. QED
      BY <3>1
<1>3. n \in S
  <2> HIDE DEF S
  <2>1. Nat \subseteq S
    BY <1>1, <1>2, SetInduction
  <2>2. QED
    BY <2>1
<1>4. QED
  BY <1>3

-----------------------------------------------------------------------------
(* The DNS server.                                                         *)

(* Of the variables only the counts matter, and the datagram's length. *)
CountsOK ==
  /\ msg_len \in Nat
  /\ question_ptr \in Nat
  /\ dns_reply \in Nat

(* The parser stands inside the message while it looks at the question;    *)
(* a reply ends with the answer behind a question that was read whole, and *)
(* is gone when the next datagram is looked at.                            *)
ParseInv ==
  /\ CountsOK
  /\ dns_state \in {"name", "tail"} => question_ptr <= msg_len
  /\ dns_reply > 0 => /\ dns_state = "done"
                      /\ question_ptr + TailLen <= msg_len
                      /\ dns_reply <= MaxMsg

(* The initial state has no datagram. *)
LEMMA ParseInit == DnsInit => ParseInv
BY DEF DnsInit, ParseInv, CountsOK

(* The limits are numbers, and so is a datagram's length. *)
LEMMA Limits ==
  /\ HeaderLen \in Nat /\ MaxMsg \in Nat /\ MaxLabel \in Nat
  /\ TailLen \in Nat /\ AnswerLen \in Nat
  /\ \A q \in Queries : q.len \in Nat
<1>1. \A q \in Queries : q.len \in Nat
  BY DnsAssumption DEF Query
<1>2. QED
  BY <1>1, DnsAssumption

(* Every step of the parser keeps it inside: one case per action. *)
LEMMA ParseNext == ParseInv /\ [DnsNext]_dnsVars => ParseInv'
<1> SUFFICES ASSUME ParseInv, [DnsNext]_dnsVars
             PROVE  ParseInv'
  OBVIOUS
<1> USE Limits DEF ParseInv, CountsOK
<1>1. CASE DnsServerInit \/ DnsServerDeinit
  BY <1>1 DEF DnsServerInit, DnsServerDeinit
<1>2. CASE DnsReceive
  <2>1. query'.len \in Nat
    BY <1>2 DEF DnsReceive
  <2>2. msg_len' \in Nat /\ question_ptr' = HeaderLen
    BY <1>2, <2>1 DEF DnsReceive
  <2>3. \/ dns_state' = "name" /\ msg_len' >= HeaderLen
        \/ dns_state' = "done"
    BY <1>2 DEF DnsReceive
  <2>4. dns_reply' = dns_reply /\ dns_reply = 0
    BY <1>2 DEF DnsReceive
  <2>5. QED
    BY <2>2, <2>3, <2>4
<1>3. CASE DnsLabel
  <2>1. LabelLen \in Nat
    BY <1>3 DEF DnsLabel
  <2>2. QED
    BY <1>3, <2>1 DEF DnsLabel
<1>4. CASE DnsNameEnds
  BY <1>4 DEF DnsNameEnds
<1>5. CASE DnsIgnore
  BY <1>5 DEF DnsIgnore
<1>6. CASE DnsAnswer
  BY <1>6 DEF DnsAnswer, Answerable
<1>7. CASE DnsFree
  BY <1>7 DEF DnsFree
<1>8. CASE UNCHANGED dnsVars
  BY <1>8 DEF dnsVars
<1>9. QED
  BY <1>1, <1>2, <1>3, <1>4, <1>5, <1>6, <1>7, <1>8 DEF DnsNext

(* However long a datagram is and whatever its labels say, dnsserver.c     *)
(* parses within the message it received and answers within its buffer.    *)
THEOREM ParserInside == DnsSpec => []ReadsInside
<1>1. ParseInv => ReadsInside
  BY DEF ParseInv, ReadsInside
<1>2. QED
  BY ParseInit, ParseNext, <1>1, PTL DEF DnsSpec

(* LabelEnds adds one label at a time: dnsserver.c:168-181 moves its pointer *)
(* by the label and its length byte.                                       *)
LEMMA EndsStep ==
  ASSUME NEW labels \in Seq(Nat)
  PROVE  /\ LabelEnds(labels)[0] = 0
         /\ \A i \in 1 .. Len(labels) :
              LabelEnds(labels)[i] = LabelEnds(labels)[i - 1] + 1 + labels[i]
<1> DEFINE size == Len(labels)
           len(i) == labels[i]
           Rec(f) == f = [i \in 0 .. size |->
                            IF i = 0 THEN 0 ELSE f[i - 1] + 1 + len(i)]
           step == [i \in 1 .. size |-> [x \in Nat |-> x + 1 + len(i)]]
<1>1. LabelEnds(labels) = CHOOSE g : Rec(g)
  BY DEF LabelEnds
<1>2. size \in Nat /\ \A i \in 1 .. size : len(i) \in Nat
  BY LenProperties, ElementOfSeq
<1> HIDE DEF size, len
<1>3. step \in [1 .. size -> [Nat -> Nat]]
  <2>1. ASSUME NEW i \in 1 .. size
        PROVE  [x \in Nat |-> x + 1 + len(i)] \in [Nat -> Nat]
    BY <1>2
  <2>2. QED
    BY <2>1, Zenon
<1>4. \A i \in 1 .. size, x \in Nat : step[i][x] = x + 1 + len(i)
  OBVIOUS
<1> HIDE DEF step
<1>5. PICK f : Recurses(f, size, Nat, 0, step)
  <2>1. 0 \in Nat /\ IsStep(step, size, Nat)
    BY <1>3 DEF IsStep
  <2>2. QED
    BY <1>2, <2>1, RecursionExists
<1>6. Rec(f)
  <2>1. ASSUME NEW i \in 1 .. size
        PROVE  f[i] = f[i - 1] + 1 + len(i)
    <3>1. f[i - 1] \in Nat
      BY <1>2, <1>5 DEF Recurses
    <3>2. QED
      BY <1>4, <1>5, <3>1 DEF Recurses
  <2>2. QED
    BY <1>2, <1>5, <2>1 DEF Recurses
<1>7. Rec(LabelEnds(labels))
  <2> HIDE DEF Rec
  <2>1. QED
    BY <1>1, <1>6
<1>8. QED
  <2> DEFINE g == LabelEnds(labels)
  <2>1. g = [i \in 0 .. size |-> IF i = 0 THEN 0 ELSE g[i - 1] + 1 + len(i)]
    BY <1>7
  <2> HIDE DEF g
  <2>2. g[0] = 0 /\ \A i \in 1 .. size : g[i] = g[i - 1] + 1 + len(i)
    BY <1>2, <2>1
  <2>3. QED
    BY <2>2 DEF g, size, len

(* The same, from the label the parser stands at. *)
LEMMA EndsNext ==
  ASSUME NEW labels \in Seq(Nat), NEW i \in 0 .. (Len(labels) - 1)
  PROVE  LabelEnds(labels)[i + 1] = LabelEnds(labels)[i] + 1 + labels[i + 1]
<1>1. i + 1 \in 1 .. Len(labels) /\ i + 1 - 1 = i
  OBVIOUS
<1>2. QED
  BY <1>1, EndsStep

(* A label ends behind the labels before it. *)
LEMMA EndsGrow ==
  ASSUME NEW labels \in Seq(Nat), NEW i \in 0 .. Len(labels)
  PROVE  /\ LabelEnds(labels)[i] \in Nat
         /\ \A j \in 0 .. i :
              LabelEnds(labels)[j] + (i - j) <= LabelEnds(labels)[i]
<1> DEFINE end == LabelEnds(labels)
           S == {n \in Nat : n <= Len(labels) =>
                   /\ end[n] \in Nat
                   /\ \A j \in 0 .. n :
                        end[j] \in Nat /\ end[j] + (n - j) <= end[n]}
<1>1. /\ end[0] = 0
      /\ \A n \in 1 .. Len(labels) : end[n] = end[n - 1] + 1 + labels[n]
  BY EndsStep
<1> HIDE DEF end
<1>2. 0 \in S
  BY <1>1
<1>3. ASSUME NEW n \in Nat, n \in S
      PROVE  n + 1 \in S
  <2> SUFFICES ASSUME n + 1 <= Len(labels)
               PROVE  /\ end[n + 1] \in Nat
                      /\ \A j \in 0 .. (n + 1) :
                           /\ end[j] \in Nat
                           /\ end[j] + (n + 1 - j) <= end[n + 1]
    OBVIOUS
  <2>1. n + 1 \in 1 .. Len(labels) /\ n + 1 - 1 = n /\ labels[n + 1] \in Nat
    OBVIOUS
  <2>2. end[n + 1] = end[n] + 1 + labels[n + 1]
    BY <1>1, <2>1
  <2>3. /\ end[n] \in Nat
        /\ \A j \in 0 .. n : end[j] \in Nat /\ end[j] + (n - j) <= end[n]
    BY <1>3, <2>1
  <2>4. end[n + 1] \in Nat /\ end[n] + 1 <= end[n + 1]
    BY <2>1, <2>2, <2>3
  <2>5. ASSUME NEW j \in 0 .. n
        PROVE  end[j] \in Nat /\ end[j] + (n + 1 - j) <= end[n + 1]
    <3>1. end[j] \in Nat /\ end[j] + (n - j) <= end[n]
      BY <2>3
    <3>2. end[n] \in Nat /\ j \in Nat
      BY <2>3
    <3>3. QED
      BY <2>4, <3>1, <3>2
  <2>6. end[n + 1] + (n + 1 - (n + 1)) <= end[n + 1]
    BY <2>4
  <2>7. \A j \in 0 .. (n + 1) : j \in 0 .. n \/ j = n + 1
    OBVIOUS
  <2>8. QED
    BY <2>4, <2>5, <2>6, <2>7
<1> HIDE DEF S
<1>4. Nat \subseteq S
  BY <1>2, <1>3, SetInduction
<1>5. QED
  BY <1>4, i \in Nat DEF S, end

(* Whether a name is at hand. *)
Busy == dns_state \in {"name", "tail", "done"}

(* While the parser walks over a name it stands where one of its labels    *)
(* begins, and all labels before it were legal; behind the name it stands at *)
(* its end; what it gave up was no legal question.                         *)
NameInv ==
  /\ Busy => query \in Queries
  /\ dns_state \in {"none", "ready"} => label = 0 /\ dns_reply = 0
  /\ dns_state \in {"name", "tail"} =>
       /\ msg_len = IF query.len < MaxMsg THEN query.len ELSE MaxMsg
       /\ query.standard /\ query.count >= 1
       /\ label \in 0 .. Len(query.labels)
       /\ \A i \in 1 .. label : query.labels[i] \in 1 .. MaxLabel
       /\ question_ptr <= msg_len
       /\ dns_reply = 0
  /\ dns_state = "name" =>
       question_ptr = HeaderLen + LabelEnds(query.labels)[label]
  /\ dns_state = "tail" =>
       /\ question_ptr = HeaderLen + NameLen(query)
       /\ Terminated(query) /\ label = Len(query.labels) - 1
  /\ LegalAnswered

(* The initial state has no name. *)
LEMMA NameInit == DnsInit => NameInv
BY DEF DnsInit, NameInv, Busy, LegalAnswered

(* What a query is made of. *)
LEMMA QueryType ==
  ASSUME NEW q \in Queries
  PROVE  /\ q.len \in Nat /\ q.count \in Nat
         /\ q.labels \in Seq(Nat) /\ Len(q.labels) \in Nat
         /\ \A i \in 1 .. Len(q.labels) : q.labels[i] \in Nat
         /\ \A i \in 1 .. (Len(q.labels) - 1) : q.labels[i] # 0
         /\ Terminated(q) \/ q.len <= HeaderLen + NameLen(q)
         /\ NameLen(q) \in Nat
         /\ Terminated(q) <=> Len(q.labels) # 0 /\ q.labels[Len(q.labels)] = 0
<1>1. /\ q.len \in Nat /\ q.count \in Nat /\ q.labels \in Seq(Nat)
      /\ \A i \in 1 .. (Len(q.labels) - 1) : q.labels[i] # 0
      /\ Terminated(q) \/ q.len <= HeaderLen + NameLen(q)
  BY DnsAssumption DEF Query
<1>2. /\ Len(q.labels) \in Nat
      /\ \A i \in 1 .. Len(q.labels) : q.labels[i] \in Nat
  BY <1>1
<1>3. NameLen(q) \in Nat
  BY <1>1, <1>2, EndsGrow DEF NameLen
<1>4. Terminated(q) <=> Len(q.labels) # 0 /\ q.labels[Len(q.labels)] = 0
  BY <1>1 DEF Terminated, Last
<1>5. QED
  BY <1>1, <1>2, <1>3, <1>4

(* As long as the parser stands inside the message there is a label. *)
LEMMA InName ==
  ASSUME ParseInv, NameInv, dns_state = "name", question_ptr < msg_len
  PROVE  label < Len(query.labels)
<1>1. query \in Queries /\ label \in 0 .. Len(query.labels)
  BY DEF NameInv, Busy
<1> SUFFICES ASSUME label = Len(query.labels)
             PROVE  FALSE
  BY <1>1, QueryType
<1>2. question_ptr = HeaderLen + NameLen(query)
  BY DEF NameInv, NameLen
<1>3. /\ query.len \in Nat /\ HeaderLen \in Nat
      /\ MaxMsg \in Nat /\ NameLen(query) \in Nat
  BY <1>1, QueryType, DnsAssumption
<1>4. ~ (query.len <= HeaderLen + NameLen(query))
  BY <1>2, <1>3 DEF NameInv
<1>5. Len(query.labels) # 0 /\ query.labels[Len(query.labels)] = 0
  BY <1>1, <1>4, QueryType
<1>6. Len(query.labels) \in 1 .. label
  BY <1>1, <1>5, QueryType
<1>7. query.labels[Len(query.labels)] \in 1 .. MaxLabel
  BY <1>6 DEF NameInv
<1>8. QED
  BY <1>5, <1>7

(* What the parser ignores is no legal question. *)
LEMMA NotLegal ==
  ASSUME ParseInv, NameInv, DnsIgnore
  PROVE  ~Legal(query)
<1> SUFFICES ASSUME Legal(query)
             PROVE  FALSE
  OBVIOUS
<1>1. /\ dns_state = "name" /\ query \in Queries
      /\ label \in 0 .. Len(query.labels)
  BY DEF DnsIgnore, NameInv, Busy
<1> DEFINE end == LabelEnds(query.labels)
           size == Len(query.labels)
           before == end[label]
           after == end[label + 1]
           whole == end[size]
<1>2. /\ query.len \in Nat /\ size \in Nat /\ label \in Nat
      /\ query.labels \in Seq(Nat)
      /\ \A i \in 1 .. size : query.labels[i] \in Nat
      /\ size # 0 /\ query.labels[size] = 0
  BY <1>1, QueryType DEF Legal
<1>3. /\ HeaderLen \in Nat /\ MaxMsg \in Nat /\ MaxName \in Nat
      /\ TailLen \in Nat /\ AnswerLen \in Nat /\ MaxLabel \in Nat
      /\ HeaderLen + MaxName + TailLen + AnswerLen <= MaxMsg
  BY DnsAssumption
<1>4. /\ question_ptr = HeaderLen + before
      /\ msg_len = IF query.len < MaxMsg THEN query.len ELSE MaxMsg
      /\ \A i \in 1 .. label : query.labels[i] \in 1 .. MaxLabel
  BY <1>1 DEF NameInv
<1>5. label < size
  <2> SUFFICES ASSUME label = size PROVE FALSE
    BY <1>1, <1>2
  <2>1. size \in 1 .. label
    BY <1>2
  <2>2. QED
    BY <1>2, <1>4, <2>1
<1>6. /\ before \in Nat /\ after \in Nat /\ whole \in Nat
      /\ before < whole /\ after <= whole
      /\ after = before + 1 + query.labels[label + 1]
  <2>1. /\ size \in 0 .. size /\ label \in 0 .. size /\ label + 1 \in 0 .. size
        /\ label + 1 \in 1 .. size /\ label + 1 - 1 = label
    BY <1>2, <1>5
  <2>2. after = before + 1 + query.labels[label + 1]
    BY <1>2, <2>1, EndsStep
  <2>3. whole \in Nat /\ \A j \in 0 .. size : end[j] + (size - j) <= whole
    BY <1>2, <2>1, EndsGrow
  <2>4. before \in Nat /\ after \in Nat
    BY <1>2, <2>1, EndsGrow
  <2>5. before + (size - label) <= whole
        /\ after + (size - (label + 1)) <= whole
    BY <2>1, <2>3
  <2> HIDE DEF before, after, whole, size
  <2>6. size \in Nat /\ label \in Nat /\ label < size
    BY <1>2, <1>5
  <2>7. before < whole /\ after <= whole
    BY <2>3, <2>4, <2>5, <2>6
  <2>8. QED
    BY <2>2, <2>3, <2>4, <2>7
<1>7. HeaderLen + whole + TailLen <= query.len /\ whole <= MaxName
  BY DEF Legal, NameLen
<1> HIDE DEF before, after, whole, end
<1>8. HeaderLen + whole <= msg_len
  BY <1>2, <1>3, <1>4, <1>6, <1>7
<1>9. question_ptr < msg_len
  BY <1>2, <1>3, <1>4, <1>6, <1>8
<1>10. LabelLen = query.labels[label + 1] /\ LabelLen \in Nat
  BY <1>2, <1>5 DEF LabelLen
<1>11. ~(LabelLen > MaxLabel)
  <2>1. CASE label + 1 = size
    BY <1>2, <1>3, <1>10, <2>1
  <2>2. CASE label + 1 # size
    <3>1. label + 1 \in 1 .. (size - 1)
      BY <1>2, <1>5, <2>2
    <3>2. query.labels[label + 1] \in 1 .. MaxLabel
      BY <3>1 DEF Legal
    <3>3. QED
      BY <1>3, <1>10, <3>2
  <2>3. QED
    BY <2>1, <2>2
<1>12. ~(question_ptr + 1 + LabelLen > msg_len)
  <2>1. question_ptr + 1 + LabelLen = HeaderLen + after
    BY <1>3, <1>4, <1>6, <1>10
  <2>2. msg_len \in Nat
    BY <1>2, <1>3, <1>4
  <2>3. QED
    BY <1>3, <1>6, <1>8, <2>1, <2>2
<1>13. QED
  BY <1>9, <1>11, <1>12 DEF DnsIgnore

(* Every step of the parser keeps its place: one case per action. *)
LEMMA NameNext == ParseInv /\ NameInv /\ [DnsNext]_dnsVars => NameInv'
<1> SUFFICES ASSUME ParseInv, NameInv, [DnsNext]_dnsVars
             PROVE  NameInv'
  OBVIOUS
<1> USE DEF NameInv, Busy
<1>1. CASE DnsServerInit \/ DnsServerDeinit
  BY <1>1 DEF DnsServerInit, DnsServerDeinit, LegalAnswered
<1>2. CASE DnsReceive
  <2>1. /\ query' \in Queries /\ label' = 0 /\ dns_reply' = 0
        /\ question_ptr' = HeaderLen
        /\ msg_len' = IF query'.len < MaxMsg THEN query'.len ELSE MaxMsg
    BY <1>2 DEF DnsReceive
  <2>2. /\ HeaderLen \in Nat /\ MaxMsg \in Nat /\ TailLen \in Nat
        /\ HeaderLen <= MaxMsg
    BY DnsAssumption
  <2>3. CASE msg_len' >= HeaderLen /\ query'.standard /\ query'.count >= 1
    <3>1. dns_state' = "name"
      BY <1>2, <2>3 DEF DnsReceive
    <3>2. LabelEnds(query'.labels)[0] = 0 /\ Len(query'.labels) \in Nat
      BY <2>1, QueryType, EndsStep
    <3>3. question_ptr' = HeaderLen + LabelEnds(query'.labels)[label']
      BY <2>1, <2>2, <3>2
    <3>4. QED
      BY <2>1, <2>2, <2>3, <3>1, <3>2, <3>3 DEF LegalAnswered
  <2>4. CASE ~(msg_len' >= HeaderLen /\ query'.standard /\ query'.count >= 1)
    <3>1. dns_state' = "done"
      BY <1>2, <2>4 DEF DnsReceive
    <3>2. query'.len \in Nat /\ NameLen(query') \in Nat
      BY <2>1, QueryType
    <3>3. ~Legal(query')
      BY <2>1, <2>2, <2>4, <3>2 DEF Legal
    <3>4. LegalAnswered'
      BY <2>1, <3>1, <3>3 DEF LegalAnswered
    <3>5. QED
      BY <2>1, <3>1, <3>4
  <2>5. QED
    BY <2>3, <2>4
<1>3. CASE DnsLabel
  <2> DEFINE n == query.labels[label + 1]
  <2>1. /\ dns_state = "name" /\ dns_state' = "name" /\ question_ptr < msg_len
        /\ n \in 1 .. MaxLabel
        /\ question_ptr + 1 + n <= msg_len
        /\ question_ptr' = question_ptr + 1 + n
        /\ label' = label + 1 /\ UNCHANGED <<query, msg_len, dns_reply>>
    BY <1>3 DEF DnsLabel, LabelLen
  <2>2. label < Len(query.labels)
    BY <2>1, InName
  <2>3. /\ label + 1 \in 1 .. Len(query.labels)
        /\ label \in Nat /\ label + 1 - 1 = label
    BY <2>1, <2>2, QueryType
  <2>4. query.labels \in Seq(Nat) /\ label \in 0 .. Len(query.labels)
    BY <2>1, QueryType
  <2>5. LabelEnds(query.labels)[label + 1]
          = LabelEnds(query.labels)[label] + 1 + n
    <3>1. label \in 0 .. (Len(query.labels) - 1)
      BY <2>2, <2>3, <2>4
    <3>2. QED
      BY <2>4, <3>1, EndsNext
  <2>6. LabelEnds(query.labels)[label] \in Nat
    BY <2>4, EndsGrow
  <2>7. /\ LabelEnds(query.labels)[label] \in Nat
        /\ HeaderLen \in Nat /\ n \in Nat
    BY <2>1, <2>6, DnsAssumption
  <2>8. question_ptr' = HeaderLen + LabelEnds(query.labels)[label']
    <3> DEFINE before == LabelEnds(query.labels)[label]
    <3>1. question_ptr = HeaderLen + before /\ before \in Nat
      BY <2>1, <2>7
    <3>2. LabelEnds(query.labels)[label'] = before + 1 + n
      BY <2>1, <2>5
    <3> HIDE DEF before, n
    <3>3. QED
      BY <2>1, <2>7, <3>1, <3>2
  <2>9. \A i \in 1 .. label' : query.labels[i] \in 1 .. MaxLabel
    BY <2>1, <2>3
  <2> HIDE DEF n
  <2>10. QED
    BY <2>1, <2>3, <2>8, <2>9 DEF LegalAnswered
<1>4. CASE DnsNameEnds
  <2>1. /\ dns_state = "name" /\ dns_state' = "tail" /\ question_ptr < msg_len
        /\ query.labels[label + 1] = 0
        /\ question_ptr' = question_ptr + 1
        /\ UNCHANGED <<query, msg_len, label, dns_reply>>
    BY <1>4 DEF DnsNameEnds, LabelLen
  <2>2. label < Len(query.labels)
    BY <2>1, InName
  <2>3. label \in Nat /\ Len(query.labels) \in Nat
    BY <2>1, QueryType
  <2>4. label + 1 = Len(query.labels)
    BY <2>1, <2>2, <2>3, QueryType
  <2>5. Terminated(query)
    BY <2>1, <2>3, <2>4, QueryType
  <2>6. NameLen(query) = LabelEnds(query.labels)[label] + 1
    <3>1. LabelEnds(query.labels)[label + 1]
            = LabelEnds(query.labels)[label] + 1 + query.labels[label + 1]
      <4>1. query.labels \in Seq(Nat) /\ label \in 0 .. (Len(query.labels) - 1)
        BY <2>1, <2>3, <2>4, QueryType
      <4>2. QED
        BY <4>1, EndsNext
    <3>2. LabelEnds(query.labels)[label] \in Nat /\ label + 1 - 1 = label
      BY <2>1, <2>3, QueryType, EndsGrow
    <3>3. QED
      BY <2>1, <2>4, <3>1, <3>2 DEF NameLen
  <2>7. LabelEnds(query.labels)[label] \in Nat /\ HeaderLen \in Nat
    BY <2>1, QueryType, EndsGrow, DnsAssumption
  <2>8. question_ptr' = HeaderLen + NameLen(query)
    BY <2>1, <2>6, <2>7
  <2>9. question_ptr' <= msg_len /\ NameLen(query)' = NameLen(query)
        /\ Terminated(query)'
    BY <2>1, <2>5 DEF ParseInv, CountsOK, NameLen, Terminated
  <2>10. QED
    BY <2>1, <2>3, <2>4, <2>8, <2>9 DEF LegalAnswered
<1>5. CASE DnsIgnore
  <2>1. /\ dns_state = "name" /\ dns_state' = "done"
        /\ UNCHANGED <<query, dns_reply>>
    BY <1>5 DEF DnsIgnore
  <2>2. ~Legal(query)
    BY <1>5, NotLegal
  <2>3. LegalAnswered'
    BY <2>1, <2>2 DEF LegalAnswered, Legal, NameLen, Terminated
  <2>4. QED
    BY <2>1, <2>3
<1>6. CASE DnsAnswer
  <2>1. /\ dns_state = "tail" /\ dns_state' = "done" /\ UNCHANGED query
        /\ dns_reply' =
             IF Answerable THEN question_ptr + TailLen + AnswerLen ELSE 0
    BY <1>6 DEF DnsAnswer
  <2>2. /\ question_ptr = HeaderLen + NameLen(query)
        /\ NameLen(query) \in Nat /\ NameLen(query) > 0
    <3>1. /\ query.labels \in Seq(Nat)
          /\ Len(query.labels) \in 0 .. Len(query.labels)
          /\ Len(query.labels) \in Nat /\ Len(query.labels) # 0
          /\ query.labels[Len(query.labels)] = 0
      BY <2>1, QueryType
    <3>2. NameLen(query) \in Nat /\ NameLen(query) > 0
      <4> DEFINE names == query.labels
                 size == Len(query.labels)
      <4>1. /\ names \in Seq(Nat) /\ size \in 0 .. Len(names)
            /\ size \in Nat /\ size # 0
        BY <3>1
      <4> HIDE DEF names, size
      <4>2. LabelEnds(names)[0] = 0
        BY <4>1, EndsStep
      <4>3. /\ LabelEnds(names)[size] \in Nat
            /\ \A j \in 0 .. size :
                 LabelEnds(names)[j] + (size - j) <= LabelEnds(names)[size]
        BY <4>1, EndsGrow
      <4>4. LabelEnds(names)[0] + (size - 0) <= LabelEnds(names)[size]
        BY <4>1, <4>3
      <4>5. QED
        BY <4>1, <4>2, <4>3, <4>4 DEF NameLen, names, size
    <3>3. QED
      BY <2>1, <3>2
  <2>3. /\ HeaderLen \in Nat /\ MaxMsg \in Nat /\ MaxName \in Nat
        /\ TailLen \in Nat /\ AnswerLen \in Nat
        /\ HeaderLen + MaxName + TailLen + AnswerLen <= MaxMsg
    BY DnsAssumption
  <2>4. msg_len = IF query.len < MaxMsg THEN query.len ELSE MaxMsg
    BY <2>1
  <2>5. query.len \in Nat
    BY <2>1, QueryType
  <2>6. Answerable <=> /\ NameLen(query) <= MaxName
                       /\ HeaderLen + NameLen(query) + TailLen <= query.len
    BY <2>2, <2>3, <2>4, <2>5 DEF Answerable
  <2>7. dns_reply' > 0 <=> Answerable
    BY <2>1, <2>2, <2>3
  <2>8. \A i \in 1 .. (Len(query.labels) - 1) :
          query.labels[i] \in 1 .. MaxLabel
    BY <2>1
  <2>9. dns_reply' > 0 <=> Legal(query)
    BY <2>1, <2>6, <2>7, <2>8 DEF Legal
  <2>10. LegalAnswered'
    BY <2>1, <2>9 DEF LegalAnswered, Legal, NameLen, Terminated
  <2>11. QED
    BY <2>1, <2>10
<1>7. CASE DnsFree
  BY <1>7 DEF DnsFree, LegalAnswered
<1>8. CASE UNCHANGED dnsVars
  BY <1>8 DEF dnsVars, LegalAnswered, NameLen, Terminated, Legal
<1>9. QED
  BY <1>1, <1>2, <1>3, <1>4, <1>5, <1>6, <1>7, <1>8 DEF DnsNext

(* A question that dnsserver.c can answer is answered, and no other is:    *)
(* whatever the datagram is and wherever it is cut (dnsserver.c:146-251).  *)
THEOREM EveryLegalAnswered == DnsSpec => []LegalAnswered
<1>1. NameInv => LegalAnswered
  BY DEF NameInv
<1>2. QED
  BY ParseInit, ParseNext, NameInit, NameNext, <1>1, PTL DEF DnsSpec

-----------------------------------------------------------------------------
(* The page with the form.                                                 *)

(* The template is a sequence of parts. *)
Parts == Len(Template)

LEMMA PartsNat == Parts \in Nat
BY TemplateAssumption, LenProperties, Zenon DEF Parts

(* A part has a key, which may be none, and a length. *)
LEMMA PartType ==
  ASSUME NEW i \in 1 .. Parts
  PROVE  /\ Template[i].length \in Nat
         /\ Template[i].key \in TextKeys \cup {""}
<1>1. Template[i] \in [key : TextKeys \cup {""}, length : Nat]
  BY TemplateAssumption, ElementOfSeq, Zenon DEF Parts
<1>2. QED
  BY <1>1

(* TemplateLength adds one part at a time. *)
LEMMA TemplateDef ==
  /\ TemplateLength[0] = 0
  /\ \A i \in 1 .. Parts :
       TemplateLength[i] = TemplateLength[i - 1] + Template[i].length
<1> DEFINE Rec(f) == f = [i \in 0 .. Parts |->
                            IF i = 0 THEN 0 ELSE f[i - 1] + Template[i].length]
           step == [i \in 1 .. Parts |->
                      [x \in Nat |-> x + Template[i].length]]
<1>1. step \in [1 .. Parts -> [Nat -> Nat]]
  <2>1. ASSUME NEW i \in 1 .. Parts
        PROVE  [x \in Nat |-> x + Template[i].length] \in [Nat -> Nat]
    <3>1. Template[i].length \in Nat
      BY PartType
    <3>2. QED
      BY <3>1
  <2>2. QED
    BY <2>1, Zenon
<1>2. \A i \in 1 .. Parts, x \in Nat : step[i][x] = x + Template[i].length
  OBVIOUS
<1> HIDE DEF step
<1>3. PICK f : Recurses(f, Parts, Nat, 0, step)
  <2>1. Parts \in Nat /\ 0 \in Nat
    BY PartsNat
  <2>2. IsStep(step, Parts, Nat)
    BY <1>1 DEF IsStep
  <2>3. QED
    BY <2>1, <2>2, RecursionExists
<1>4. \A i \in 1 .. Parts : f[i] = f[i - 1] + Template[i].length
  <2> TAKE i \in 1 .. Parts
  <2>1. f[i - 1] \in Nat
    BY <1>3, PartsNat DEF Recurses
  <2>2. QED
    BY <1>2, <1>3, <2>1 DEF Recurses
<1>5. Rec(f)
  <2> DEFINE len(i) == Template[i].length
  <2>1. \A i \in 1 .. Parts : f[i] = f[i - 1] + len(i)
    BY <1>4
  <2> HIDE DEF len
  <2>2. f = [i \in 0 .. Parts |-> IF i = 0 THEN 0 ELSE f[i - 1] + len(i)]
    BY <1>3, <2>1, PartsNat DEF Recurses
  <2>3. QED
    BY <2>2, Zenon DEF len
<1>6. TemplateLength = CHOOSE g : Rec(g)
  BY DEF TemplateLength, Parts
<1>7. Rec(TemplateLength)
  <2> HIDE DEF Rec
  <2>1. QED
    BY <1>5, <1>6
<1>8. QED
  <2> DEFINE g == TemplateLength
             len(i) == Template[i].length
  <2>1. g = [i \in 0 .. Parts |-> IF i = 0 THEN 0 ELSE g[i - 1] + len(i)]
    BY <1>7
  <2> HIDE DEF g, len
  <2>2. g[0] = 0 /\ \A i \in 1 .. Parts : g[i] = g[i - 1] + len(i)
    BY <2>1, PartsNat
  <2>3. QED
    BY <2>2 DEF g, len

(* The configuration in use is one of those it may be. *)
FormInv == flash_config \in Configs

(* A part of the page is as long as the literal text, and no longer than the *)
(* texts of its key may be.                                                *)
LEMMA PartLengthType ==
  ASSUME FormInv, NEW i \in 1 .. Parts
  PROVE  /\ PartLength(Template[i]) \in Nat
         /\ Template[i].key = "" =>
              PartLength(Template[i]) = Template[i].length
         /\ Template[i].key # "" =>
              PartLength(Template[i]) <= MaxLen[Template[i].key]
<1>1. Template[i].length \in Nat /\ Template[i].key \in TextKeys \cup {""}
  BY PartType
<1>2. ASSUME NEW key \in TextKeys
      PROVE  /\ Len(Replacement(key)) \in Nat
             /\ Len(Replacement(key)) <= MaxLen[key]
  <2>1. MaxLen[key] \in Nat
    BY FormAssumption
  <2>2. CASE flash_config = NoConfig
    BY <2>1, <2>2 DEF Replacement
  <2>3. CASE flash_config # NoConfig
    <3>1. IsConfig(flash_config)
      BY <2>3, FormAssumption DEF FormInv
    <3>2. /\ flash_config[key] \in Seq(Chars)
          /\ Len(flash_config[key]) <= MaxLen[key]
      BY <3>1 DEF IsConfig
    <3>3. Replacement(key) = flash_config[key]
      BY <2>3 DEF Replacement
    <3>4. QED
      BY <3>2, <3>3, LenProperties
  <2>4. QED
    BY <2>2, <2>3
<1>3. QED
  BY <1>1, <1>2 DEF PartLength

(* PageLength adds one part at a time, as expand_html_template does. *)
LEMMA PageDef ==
  ASSUME FormInv
  PROVE  /\ PageLength[0] = 0
         /\ \A i \in 1 .. Parts :
              PageLength[i] =
                IF \/ PageLength[i - 1] < 0
                   \/ PageLength[i - 1] + PartLength(Template[i])
                        >= FormMaxLength(TemplateLength[Parts])
                THEN -1 ELSE PageLength[i - 1] + PartLength(Template[i])
<1> DEFINE max == FormMaxLength(TemplateLength[Parts])
           n(i) == PartLength(Template[i])
           Rec(f) == f = [i \in 0 .. Parts |->
                            IF i = 0 THEN 0
                            ELSE IF f[i - 1] < 0 \/ f[i - 1] + n(i) >= max
                                 THEN -1 ELSE f[i - 1] + n(i)]
           step == [i \in 1 .. Parts |-> [x \in Int |->
                      IF x < 0 \/ x + n(i) >= max THEN -1 ELSE x + n(i)]]
<1>1. PageLength = CHOOSE g : Rec(g)
  BY DEF PageLength, Parts
<1>2. \A i \in 1 .. Parts : n(i) \in Nat
  BY PartLengthType
<1> HIDE DEF max, n
<1>3. step \in [1 .. Parts -> [Int -> Int]]
  <2>1. ASSUME NEW i \in 1 .. Parts
        PROVE  [x \in Int |->
                  IF x < 0 \/ x + n(i) >= max THEN -1 ELSE x + n(i)]
                 \in [Int -> Int]
    BY <1>2
  <2>2. QED
    BY <2>1, Zenon
<1>4. \A i \in 1 .. Parts, x \in Int :
        step[i][x] = IF x < 0 \/ x + n(i) >= max THEN -1 ELSE x + n(i)
  OBVIOUS
<1> HIDE DEF step
<1>5. PICK f : Recurses(f, Parts, Int, 0, step)
  <2>1. Parts \in Nat /\ 0 \in Int
    BY PartsNat
  <2>2. IsStep(step, Parts, Int)
    BY <1>3 DEF IsStep
  <2>3. QED
    BY <2>1, <2>2, RecursionExists
<1>6. Rec(f)
  <2>1. ASSUME NEW i \in 1 .. Parts
        PROVE  f[i] = IF f[i - 1] < 0 \/ f[i - 1] + n(i) >= max
                      THEN -1 ELSE f[i - 1] + n(i)
    <3>1. f[i - 1] \in Int
      BY <1>5, PartsNat DEF Recurses
    <3>2. QED
      BY <1>4, <1>5, <3>1 DEF Recurses
  <2>2. QED
    BY <1>5, <2>1, PartsNat DEF Recurses
<1>7. Rec(PageLength)
  <2> HIDE DEF Rec
  <2>1. QED
    BY <1>1, <1>6
<1>8. QED
  <2> DEFINE g == PageLength
  <2>1. g = [i \in 0 .. Parts |->
                            IF i = 0 THEN 0
                            ELSE IF g[i - 1] < 0 \/ g[i - 1] + n(i) >= max
                                 THEN -1 ELSE g[i - 1] + n(i)]
    BY <1>7
  <2> HIDE DEF g
  <2>2. g[0] = 0 /\ \A i \in 1 .. Parts :
          g[i] = IF g[i - 1] < 0 \/ g[i - 1] + n(i) >= max
                 THEN -1 ELSE g[i - 1] + n(i)
    BY <2>1, PartsNat
  <2>3. QED
    BY <2>2 DEF g, n, max

(* No part of the template takes anything away. *)
LEMMA TemplateGrows ==
  /\ \A i \in 0 .. Parts : TemplateLength[i] \in Nat
  /\ \A i \in 0 .. Parts : TemplateLength[i] <= TemplateLength[Parts]
<1> DEFINE len(i) == Template[i].length
           TL == TemplateLength
           S == {n \in Nat : n <= Parts =>
                   /\ TL[n] \in Nat
                   /\ \A i \in 0 .. n : TL[i] \in Nat /\ TL[i] <= TL[n]}
<1>1. TL[0] = 0 /\ \A i \in 1 .. Parts : TL[i] = TL[i - 1] + len(i)
  BY TemplateDef
<1>2. \A i \in 1 .. Parts : len(i) \in Nat
  BY PartType
<1>3. Parts \in Nat
  BY PartsNat
<1> HIDE DEF len, TL
<1>4. 0 \in S
  BY <1>1
<1>5. ASSUME NEW n \in Nat, n \in S
      PROVE  n + 1 \in S
  <2> SUFFICES ASSUME n + 1 <= Parts
               PROVE  /\ TL[n + 1] \in Nat
                      /\ \A i \in 0 .. (n + 1) :
                           TL[i] \in Nat /\ TL[i] <= TL[n + 1]
    OBVIOUS
  <2>1. n + 1 \in 1 .. Parts /\ n + 1 - 1 = n
    BY <1>3
  <2>2. TL[n + 1] = TL[n] + len(n + 1) /\ len(n + 1) \in Nat
    BY <1>1, <1>2, <2>1
  <2>3. TL[n] \in Nat /\ \A i \in 0 .. n : TL[i] \in Nat /\ TL[i] <= TL[n]
    BY <1>3, <1>5, <2>1
  <2>4. \A i \in 0 .. n : TL[i] \in Nat /\ TL[i] <= TL[n + 1]
    BY <2>2, <2>3
  <2>5. \A i \in 0 .. (n + 1) : i \in 0 .. n \/ i = n + 1
    OBVIOUS
  <2>6. QED
    BY <2>2, <2>3, <2>4, <2>5
<1> HIDE DEF S
<1>6. Parts \in S
  <2>1. Nat \subseteq S
    BY <1>4, <1>5, SetInduction
  <2>2. QED
    BY <1>3, <2>1
<1>7. QED
  BY <1>3, <1>6 DEF S, TL

(* What the text of key may add to the first parts of the page. *)
Extra(key, i) ==
  IF \E j \in 1 .. i : Template[j].key = key THEN MaxLen[key] - 1 ELSE 0

(* What the texts may add to the first parts of the page. *)
ExtraSum(i) == Extra("ssid", i) + Extra("pwd", i) + Extra("ntp", i)

(* A placeholder is longer than nothing, so that its text adds less than its *)
(* own length.                                                             *)
LEMMA ExtraType ==
  ASSUME NEW i \in 0 .. Parts, NEW key \in TextKeys
  PROVE  Extra(key, i) \in Nat /\ Extra(key, i) < MaxLen[key]
BY FormAssumption DEF Extra

(* A part lets the page grow by what it may add, and every key has one part *)
(* at most.                                                                *)
LEMMA ExtraGrows ==
  ASSUME NEW i \in Nat, i + 1 \in 1 .. Parts
  PROVE  /\ \A key \in TextKeys : Extra(key, i) <= Extra(key, i + 1)
         /\ Template[i + 1].key # "" =>
              /\ Extra(Template[i + 1].key, i) = 0
              /\ Extra(Template[i + 1].key, i + 1) =
                   MaxLen[Template[i + 1].key] - 1
<1>1. Parts \in Nat /\ i \in 0 .. Parts
  BY PartsNat
<1>2. ASSUME NEW key \in TextKeys
      PROVE  Extra(key, i) <= Extra(key, i + 1)
  <2>1. MaxLen[key] \in Nat \ {0}
    BY FormAssumption
  <2>2. (\E j \in 1 .. i : Template[j].key = key)
          => \E j \in 1 .. (i + 1) : Template[j].key = key
    OBVIOUS
  <2>3. QED
    BY <2>1, <2>2 DEF Extra
<1>3. ASSUME Template[i + 1].key # "", NEW j \in 1 .. i
      PROVE  Template[j].key # Template[i + 1].key
  <2>1. DOMAIN Template = 1 .. Parts
    BY TemplateAssumption, LenProperties, Zenon DEF Parts
  <2>2. j \in DOMAIN Template /\ i + 1 \in DOMAIN Template /\ j # i + 1
    BY <1>1, <2>1
  <2>3. QED
    BY <1>3, <2>2, TemplateAssumption, Zenon
<1>4. i + 1 \in 1 .. (i + 1)
  OBVIOUS
<1>5. ASSUME Template[i + 1].key # ""
      PROVE  /\ Extra(Template[i + 1].key, i) = 0
             /\ Extra(Template[i + 1].key, i + 1) =
                  MaxLen[Template[i + 1].key] - 1
  BY <1>3, <1>4, <1>5, Zenon DEF Extra
<1>6. QED
  BY <1>2, <1>5

(* The page never stops, and is no longer than the template and what the   *)
(* texts add to it.                                                        *)
LEMMA PageRoom ==
  ASSUME FormInv, NEW i \in 0 .. Parts
  PROVE  /\ PageLength[i] \in Nat
         /\ PageLength[i] <= TemplateLength[i] + ExtraSum(i)
<1> DEFINE page == PageLength
           TL == TemplateLength
           n(j) == PartLength(Template[j])
           len(j) == Template[j].length
           max == FormMaxLength(TL[Parts])
           S == {k \in Nat : k <= Parts =>
                   page[k] \in Nat /\ page[k] <= TL[k] + ExtraSum(k)}
<1>1. page[0] = 0 /\ \A j \in 1 .. Parts :
        page[j] = IF page[j - 1] < 0 \/ page[j - 1] + n(j) >= max
                  THEN -1 ELSE page[j - 1] + n(j)
  BY PageDef
<1>2. TL[0] = 0 /\ \A j \in 1 .. Parts : TL[j] = TL[j - 1] + len(j)
  BY TemplateDef
<1>3. \A j \in 0 .. Parts : TL[j] \in Nat /\ TL[j] <= TL[Parts]
  BY TemplateGrows
<1>4. Parts \in Nat
  BY PartsNat
<1>5. MaxLen["ssid"] \in Nat /\ MaxLen["pwd"] \in Nat /\ MaxLen["ntp"] \in Nat
  BY FormAssumption DEF TextKeys
<1>6. max = TL[Parts] + MaxLen["ssid"] + MaxLen["pwd"] + MaxLen["ntp"]
  BY DEF FormMaxLength
<1>7. ASSUME NEW j \in 0 .. Parts
      PROVE  /\ Extra("ssid", j) \in Nat /\ Extra("ssid", j) < MaxLen["ssid"]
             /\ Extra("pwd", j) \in Nat /\ Extra("pwd", j) < MaxLen["pwd"]
             /\ Extra("ntp", j) \in Nat /\ Extra("ntp", j) < MaxLen["ntp"]
  BY ExtraType DEF TextKeys
<1>8. ASSUME NEW k \in Nat, k + 1 \in 1 .. Parts
      PROVE  /\ n(k + 1) \in Nat
             /\ n(k + 1) + ExtraSum(k) <= len(k + 1) + ExtraSum(k + 1)
  <2>1. k \in 0 .. Parts /\ k + 1 \in 0 .. Parts
    BY <1>4, <1>8
  <2> DEFINE key == Template[k + 1].key
  <2>2. /\ n(k + 1) \in Nat
        /\ key = "" => n(k + 1) = len(k + 1)
        /\ key # "" => n(k + 1) <= MaxLen[key]
    BY <1>8, PartLengthType
  <2>3. len(k + 1) \in Nat /\ key \in TextKeys \cup {""}
    BY <1>8, PartType
  <2>4. key # "" => len(k + 1) > 0
    <3>1. k + 1 \in DOMAIN Template
      BY <1>8, TemplateAssumption, LenProperties, Zenon DEF Parts
    <3>2. QED
      BY <3>1, TemplateAssumption, Zenon
  <2>5. /\ Extra("ssid", k) <= Extra("ssid", k + 1)
        /\ Extra("pwd", k) <= Extra("pwd", k + 1)
        /\ Extra("ntp", k) <= Extra("ntp", k + 1)
    BY <1>8, ExtraGrows DEF TextKeys
  <2>6. key # "" => Extra(key, k) = 0 /\ Extra(key, k + 1) = MaxLen[key] - 1
    BY <1>8, ExtraGrows
  <2> HIDE DEF n, len, key
  <2>7. CASE key = ""
    <3>1. n(k + 1) = len(k + 1)
      BY <2>2, <2>7
    <3>2. ExtraSum(k) \in Nat /\ ExtraSum(k + 1) \in Nat
          /\ ExtraSum(k) <= ExtraSum(k + 1)
      BY <1>7, <2>1, <2>5 DEF ExtraSum
    <3> DEFINE a == n(k + 1)
               b == len(k + 1)
               c == ExtraSum(k)
               d == ExtraSum(k + 1)
    <3> SUFFICES a \in Nat /\ a + c <= b + d
      OBVIOUS
    <3>3. a = b /\ b \in Nat /\ c \in Nat /\ d \in Nat /\ c <= d
      BY <2>3, <3>1, <3>2
    <3> HIDE DEF a, b, c, d
    <3>4. QED
      BY <3>3
  <2>8. CASE key = "ssid"
    BY <1>5, <1>7, <2>1, <2>2, <2>3, <2>4, <2>5, <2>6, <2>8 DEF ExtraSum
  <2>9. CASE key = "pwd"
    BY <1>5, <1>7, <2>1, <2>2, <2>3, <2>4, <2>5, <2>6, <2>9 DEF ExtraSum
  <2>10. CASE key = "ntp"
    BY <1>5, <1>7, <2>1, <2>2, <2>3, <2>4, <2>5, <2>6, <2>10 DEF ExtraSum
  <2>11. QED
    BY <2>3, <2>7, <2>8, <2>9, <2>10 DEF TextKeys
<1>9. \A j \in 1 .. Parts : len(j) \in Nat
  BY PartType
<1> HIDE DEF page, TL, n, len, max
<1>10. 0 \in S
  BY <1>1, <1>2, <1>7 DEF ExtraSum
<1>11. ASSUME NEW k \in Nat, k \in S
       PROVE  k + 1 \in S
  <2> SUFFICES ASSUME k + 1 <= Parts
               PROVE  page[k + 1] \in Nat
                      /\ page[k + 1] <= TL[k + 1] + ExtraSum(k + 1)
    OBVIOUS
  <2>1. /\ k + 1 \in 1 .. Parts /\ k + 1 - 1 = k
        /\ k \in 0 .. Parts /\ k + 1 \in 0 .. Parts
    BY <1>4
  <2>2. page[k] \in Nat /\ page[k] <= TL[k] + ExtraSum(k)
    BY <1>11, <2>1
  <2>3. TL[k + 1] = TL[k] + len(k + 1) /\ len(k + 1) \in Nat
    BY <1>2, <1>9, <2>1
  <2>4. /\ n(k + 1) \in Nat
        /\ n(k + 1) + ExtraSum(k) <= len(k + 1) + ExtraSum(k + 1)
    BY <1>8, <2>1
  <2>5. /\ TL[k] \in Nat /\ TL[k + 1] \in Nat /\ TL[Parts] \in Nat
        /\ TL[k + 1] <= TL[Parts]
    BY <1>3, <1>4, <2>1
  <2>6. /\ ExtraSum(k) \in Nat /\ ExtraSum(k + 1) \in Nat
        /\ ExtraSum(k + 1) < MaxLen["ssid"] + MaxLen["pwd"] + MaxLen["ntp"]
    BY <1>5, <1>7, <2>1 DEF ExtraSum
  <2>7. page[k] + n(k + 1) <= TL[k + 1] + ExtraSum(k + 1)
    BY <2>2, <2>3, <2>4, <2>5, <2>6
  <2>8. page[k] + n(k + 1) < max
    BY <1>5, <1>6, <2>2, <2>4, <2>5, <2>6, <2>7
  <2>9. page[k + 1] = page[k] + n(k + 1)
    <3>1. max \in Nat
      BY <1>5, <1>6, <2>5
    <3>2. QED
      BY <1>1, <2>1, <2>2, <2>4, <2>8, <3>1
  <2>10. QED
    BY <2>2, <2>4, <2>7, <2>9
<1> HIDE DEF S
<1>12. i \in S
  <2>1. Nat \subseteq S
    BY <1>10, <1>11, SetInduction
  <2>2. QED
    BY <2>1
<1>13. QED
  BY <1>4, <1>12 DEF S, page, TL

(* The access point starts with such a configuration. *)
LEMMA FormInit == Init => FormInv
BY DEF Init, FormInv

(* The access point keeps the configuration it was started with. *)
LEMMA FormNext == FormInv /\ [Next]_vars => FormInv'
BY DEF FormInv, Next, Submit, TakePair, Reject, Store, Rebooted, vars

(* HTML_FORM_MAX_LENGTH is enough for the texts of every configuration     *)
(* (wifi.c:296-351): the access point can always show its page.            *)
THEOREM PageAlwaysFits == Spec => []PageFits
<1>1. FormInv => PageFits
  <2> SUFFICES ASSUME FormInv
               PROVE  PageFits
    OBVIOUS
  <2>1. Parts \in 0 .. Parts
    BY PartsNat
  <2>2. PageLength[Parts] \in Nat
    BY <2>1, PageRoom
  <2>3. QED
    BY <2>2 DEF PageFits, Expanded, Parts
<1>2. QED
  BY FormInit, FormNext, <1>1, PTL DEF Spec

-----------------------------------------------------------------------------
(* The form, from the browser to flash.                                    *)

(* The keys a form may send, and the symbols of a body. *)
Keys == Fields \cup {"bl"}

Symbols ==
  Chars \cup Keys \cup {"=", "&", "+", "\n", "%26", "%3D", "%25", "%2B"}

(* The escapes of the browser. *)
LEMMA SpecialValues ==
  /\ DOMAIN Special = {"&", "=", "%", "+"}
  /\ Special["&"] = "%26" /\ Special["="] = "%3D"
  /\ Special["%"] = "%25" /\ Special["+"] = "%2B"
BY DEF Special

(* urldecode_inplace undoes what the browser does to a character, and no   *)
(* escaped character ends a pair or a line.                                *)
LEMMA EscapeUndone ==
  ASSUME NEW c \in Chars
  PROVE  /\ Escape(c) \in Symbols \ {"&", "\n"}
         /\ Unescape(Escape(c)) = c
<1>1. c \notin {"\n", "%26", "%3D", "%25", "%2B"}
  BY FormAssumption
<1>2. CASE c \in DOMAIN Special
  <2>1. Escape(c) = Special[c]
    BY <1>2 DEF Escape
  <2>2. Special[c] \in Symbols \ {"&", "\n"}
    BY <1>2, SpecialValues DEF Symbols
  <2>3. \A d \in DOMAIN Special : Special[d] = Special[c] => d = c
    BY <1>2, SpecialValues
  <2>4. Unescape(Special[c]) = c
    BY <1>2, <2>3, Zenon DEF Unescape
  <2>5. QED
    BY <2>1, <2>2, <2>4
<1>3. CASE c = " "
  <2>1. Escape(c) = "+"
    BY <1>3, SpecialValues DEF Escape
  <2>2. Unescape("+") = " "
    BY SpecialValues DEF Unescape
  <2>3. QED
    BY <1>3, <2>1, <2>2 DEF Symbols
<1>4. CASE c \notin DOMAIN Special /\ c # " "
  <2>1. Escape(c) = c
    BY <1>4 DEF Escape
  <2>2. Unescape(c) = c
    BY <1>1, <1>4, SpecialValues DEF Unescape
  <2>3. c \in Symbols \ {"&", "\n"}
    BY <1>1, <1>4, SpecialValues DEF Symbols
  <2>4. QED
    BY <2>1, <2>2, <2>3
<1>5. QED
  BY <1>2, <1>3, <1>4

(* No key has to be escaped. *)
LEMMA KeysPlain == Keys \subseteq Symbols \ {"&", "\n"}
BY DEF Keys, Fields, TextKeys, NumberKeys, Symbols

(* A function of the first numbers is a sequence. *)
LEMMA FunctionIsSeq ==
  ASSUME NEW S, NEW n \in Nat, NEW f \in [1 .. n -> S]
  PROVE  f \in Seq(S) /\ Len(f) = n
OBVIOUS

(* A field as the browser writes it: its key, "=" and the escaped value,   *)
(* without a "&".                                                          *)
LEMMA FieldType ==
  ASSUME NEW key \in Keys, NEW value \in Seq(Chars)
  PROVE  /\ Field(key, value) \in Seq(Symbols)
         /\ Len(Field(key, value)) = 2 + Len(value)
         /\ Field(key, value)[1] = key /\ Field(key, value)[2] = "="
         /\ \A i \in 1 .. Len(value) :
              Field(key, value)[2 + i] = Escape(value[i])
         /\ \A i \in 1 .. (2 + Len(value)) : Field(key, value)[i] # "&"
<1> DEFINE head == <<key, "=">>
           text == [i \in DOMAIN value |-> Escape(value[i])]
<1>1. /\ Len(value) \in Nat /\ DOMAIN value = 1 .. Len(value)
      /\ \A i \in 1 .. Len(value) : value[i] \in Chars
  BY LenProperties, ElementOfSeq
<1>2. text \in [1 .. Len(value) -> Symbols]
  BY <1>1, EscapeUndone
<1>3. text \in Seq(Symbols) /\ Len(text) = Len(value)
  <2> HIDE DEF text
  <2> QED BY <1>1, <1>2, FunctionIsSeq
<1>4. /\ head \in Seq(Symbols) /\ Len(head) = 2
      /\ head[1] = key /\ head[2] = "="
  BY KeysPlain DEF Symbols
<1>5. \A i \in 1 .. Len(value) : text[i] = Escape(value[i]) /\ text[i] # "&"
  BY <1>1, EscapeUndone
<1>6. Field(key, value) = head \o text
  BY DEF Field
<1> HIDE DEF head, text
<1>7. /\ head \o text \in Seq(Symbols)
      /\ Len(head \o text) = 2 + Len(value)
      /\ \A i \in 1 .. (2 + Len(value)) :
           (head \o text)[i] = IF i <= 2 THEN head[i] ELSE text[i - 2]
  <2>1. /\ head \o text \in Seq(Symbols)
        /\ Len(head \o text) = Len(head) + Len(text)
        /\ \A i \in 1 .. (Len(head) + Len(text)) :
             (head \o text)[i] =
               IF i <= Len(head) THEN head[i] ELSE text[i - Len(head)]
    <3>1. head \in Seq(Symbols) /\ text \in Seq(Symbols)
      BY <1>3, <1>4
    <3>2. QED
      BY <3>1, ConcatProperties
  <2>2. QED
    BY <1>3, <1>4, <2>1
<1>8. (head \o text)[1] = key /\ (head \o text)[2] = "="
  BY <1>1, <1>4, <1>7
<1>9. ASSUME NEW i \in 1 .. Len(value)
      PROVE  (head \o text)[2 + i] = Escape(value[i])
  <2>1. 2 + i \in 1 .. (2 + Len(value)) /\ ~(2 + i <= 2) /\ 2 + i - 2 = i
    BY <1>1
  <2>2. QED
    BY <1>5, <1>7, <2>1
<1>10. ASSUME NEW i \in 1 .. (2 + Len(value))
       PROVE  (head \o text)[i] # "&"
  <2>1. CASE i = 1
    BY <1>8, <2>1, KeysPlain
  <2>2. CASE i = 2
    BY <1>8, <2>2
  <2>3. CASE i > 2
    <3>1. i - 2 \in 1 .. Len(value)
      BY <1>1, <2>3
    <3>2. QED
      BY <1>5, <1>7, <2>3, <3>1
  <2>4. i = 1 \/ i = 2 \/ i > 2
    BY <1>1
  <2>5. QED
    BY <2>1, <2>2, <2>3, <2>4, Zenon
<1>11. QED
  BY <1>6, <1>7, <1>8, <1>9, <1>10

(* The elements of a concatenation. *)
LEMMA AppendedType ==
  ASSUME NEW S, NEW s \in Seq(S), NEW t \in Seq(S)
  PROVE  /\ s \o t \in Seq(S)
         /\ Len(s \o t) = Len(s) + Len(t)
         /\ \A i \in 1 .. Len(s) : (s \o t)[i] = s[i]
         /\ \A i \in 1 .. Len(t) : (s \o t)[Len(s) + i] = t[i]
<1>1. /\ s \o t \in Seq(S)
      /\ Len(s \o t) = Len(s) + Len(t)
      /\ \A i \in 1 .. Len(s) + Len(t) :
           (s \o t)[i] = IF i <= Len(s) THEN s[i] ELSE t[i - Len(s)]
  BY ConcatProperties
<1>2. Len(s) \in Nat /\ Len(t) \in Nat
  BY LenProperties
<1>3. ASSUME NEW i \in 1 .. Len(t)
      PROVE  (s \o t)[Len(s) + i] = t[i]
  <2>1. Len(s) + i \in 1 .. Len(s) + Len(t) /\ ~(Len(s) + i <= Len(s))
        /\ Len(s) + i - Len(s) = i
    BY <1>2
  <2>2. QED
    BY <1>1, <2>1
<1>4. QED
  BY <1>1, <1>2, <1>3

(* strtok_r ends a pair at the first "&", and goes on behind it. *)
LEMMA PairBefore ==
  ASSUME NEW f \in Seq(Symbols), NEW rest \in Seq(Symbols),
         \A i \in 1 .. Len(f) : f[i] # "&",
         body = f \o (<<"&">> \o rest)
  PROVE  /\ PairEnd = Len(f) + 1 /\ Pair = f
         /\ SubSeq(body, PairEnd + 1, Len(body)) = rest
<1> DEFINE amp == <<"&">>
           b == f \o (amp \o rest)
<1>1. Len(f) \in Nat /\ Len(rest) \in Nat
  BY LenProperties
<1>2. amp \in Seq(Symbols) /\ Len(amp) = 1 /\ amp[1] = "&"
  BY DEF Symbols
<1> HIDE DEF amp
<1>3. /\ amp \o rest \in Seq(Symbols) /\ Len(amp \o rest) = 1 + Len(rest)
      /\ (amp \o rest)[1] = "&"
      /\ \A i \in 1 .. Len(rest) : (amp \o rest)[1 + i] = rest[i]
  <2>1. amp \in Seq(Symbols) /\ rest \in Seq(Symbols)
    BY <1>2
  <2>2. /\ amp \o rest \in Seq(Symbols)
        /\ Len(amp \o rest) = Len(amp) + Len(rest)
        /\ \A i \in 1 .. Len(amp) : (amp \o rest)[i] = amp[i]
        /\ \A i \in 1 .. Len(rest) : (amp \o rest)[Len(amp) + i] = rest[i]
    BY <2>1, AppendedType
  <2>3. QED
    BY <1>2, <2>2
<1>4. /\ b \in Seq(Symbols) /\ Len(b) = Len(f) + Len(amp \o rest)
      /\ \A i \in 1 .. Len(f) : b[i] = f[i]
      /\ \A i \in 1 .. Len(amp \o rest) : b[Len(f) + i] = (amp \o rest)[i]
  <2>1. f \in Seq(Symbols) /\ amp \o rest \in Seq(Symbols)
    BY <1>3
  <2>2. QED
    BY <2>1, AppendedType
<1>5. b[Len(f) + 1] = "&" /\ Len(b) = Len(f) + 1 + Len(rest)
  BY <1>1, <1>3, <1>4
<1>6. \A i \in 1 .. Len(rest) : b[Len(f) + 1 + i] = rest[i]
  <2> TAKE i \in 1 .. Len(rest)
  <2>1. 1 + i \in 1 .. Len(amp \o rest) /\ Len(f) + (1 + i) = Len(f) + 1 + i
    BY <1>1, <1>3
  <2>2. QED
    BY <1>3, <1>4, <2>1
<1>7. body = b
  BY DEF amp
<1> HIDE DEF b
<1>8. PairEnd = Len(f) + 1
  <2> DEFINE I == {i \in 1 .. Len(b) : b[i] = "&"}
  <2>1. PairEnd = IF I # {} THEN Min(I) ELSE 0
    BY <1>7 DEF PairEnd, SelectInSeq
  <2>2. Len(f) + 1 \in I
    BY <1>1, <1>5
  <2>3. \A i \in I : Len(f) + 1 <= i
    <3> SUFFICES ASSUME NEW i \in I, ~(Len(f) + 1 <= i)
                 PROVE  FALSE
      OBVIOUS
    <3>1. i \in 1 .. Len(f)
      BY <1>1, <1>5
    <3>2. QED
      BY <1>4, <3>1
  <2>4. I \subseteq Int
    OBVIOUS
  <2> HIDE DEF I
  <2>5. \A x \in I : (\A y \in I : x <= y) => x = Len(f) + 1
    BY <1>1, <2>2, <2>3, <2>4
  <2>6. Min(I) = Len(f) + 1
    <3>1. \A y \in I : Len(f) + 1 <= y
      BY <2>3
    <3>2. QED
      BY <2>2, <2>5, <3>1, Zenon DEF Min
  <2>7. QED
    BY <2>1, <2>2, <2>6
<1>9. \A i \in 1 .. Len(b) : b[i] \in Symbols
  BY <1>4, ElementOfSeq
<1>10. Pair = f
  <2> DEFINE p == SubSeq(b, 1, Len(f))
  <2>1. Pair = p
    BY <1>1, <1>7, <1>8 DEF Pair
  <2>2. \A i \in 1 .. Len(f) : b[i] \in Symbols
    BY <1>1, <1>5, <1>9
  <2>3. /\ p \in Seq(Symbols)
        /\ Len(p) = IF 1 <= Len(f) THEN Len(f) - 1 + 1 ELSE 0
        /\ \A i \in 1 .. (Len(f) - 1 + 1) : p[i] = b[1 + i - 1]
    <3>1. 1 \in Int /\ Len(f) \in Int
      BY <1>1
    <3>2. QED
      BY <2>2, <3>1, SubSeqProperties
  <2> HIDE DEF p
  <2>4. Len(p) = Len(f)
    BY <1>1, <2>3
  <2>5. \A i \in 1 .. Len(p) : p[i] = f[i]
    BY <1>1, <1>4, <2>3, <2>4
  <2>6. p = f
    BY <2>3, <2>4, <2>5, SeqEqual
  <2>7. QED
    BY <2>1, <2>6
<1>11. SubSeq(body, PairEnd + 1, Len(body)) = rest
  <2> DEFINE m == Len(f) + 2
             n == Len(f) + 1 + Len(rest)
             p == SubSeq(b, m, n)
  <2>1. SubSeq(body, PairEnd + 1, Len(body)) = p
    <3>1. PairEnd + 1 = m /\ Len(b) = n
      BY <1>1, <1>5, <1>8
    <3> HIDE DEF m, n
    <3>2. QED
      BY <1>7, <3>1, Zenon
  <2>2. \A i \in m .. n : b[i] \in Symbols
    BY <1>1, <1>5, <1>9
  <2>3. m \in Int /\ n \in Int /\ n - m + 1 = Len(rest)
    BY <1>1
  <2> HIDE DEF m, n
  <2>4. /\ p \in Seq(Symbols)
        /\ Len(p) = IF m <= n THEN n - m + 1 ELSE 0
        /\ \A i \in 1 .. (n - m + 1) : p[i] = b[m + i - 1]
    BY <2>2, <2>3, SubSeqProperties
  <2> HIDE DEF p
  <2>5. Len(p) = Len(rest)
    BY <1>1, <2>3, <2>4 DEF m, n
  <2>6. ASSUME NEW i \in 1 .. Len(p)
        PROVE  p[i] = rest[i]
    <3>1. p[i] = b[m + i - 1]
      BY <2>3, <2>4, <2>5
    <3>2. m + i - 1 = Len(f) + 1 + i
      BY <1>1, <2>3 DEF m
    <3>3. QED
      BY <1>6, <2>5, <3>1, <3>2
  <2>7. p = rest
    BY <2>4, <2>5, <2>6, SeqEqual
  <2>8. QED
    BY <2>1, <2>7
<1>12. QED
  BY <1>8, <1>10, <1>11

(* The last pair is what is left of the body. *)
LEMMA PairLast ==
  ASSUME \A i \in 1 .. Len(body) : body[i] # "&"
  PROVE  PairEnd = 0 /\ Pair = body
<1>1. PairEnd = 0
  BY DEF PairEnd, SelectInSeq
<1>2. QED
  BY <1>1 DEF Pair

(* What clients may send behind a form. *)
Tails == {<<>>, <<"\n">>}

(* What is decoded of a field is the value that was entered, a line end    *)
(* behind the form or not (wifi.c:268-293).                                *)
LEMMA ValueRead ==
  ASSUME NEW key \in Keys, NEW value \in Seq(Chars), NEW tail \in Tails,
         Pair = Field(key, value) \o tail
  PROVE  /\ Len(Pair) > 1 /\ Pair[1] = key /\ Pair[2] = "="
         /\ Value = value
<1> DEFINE f == Field(key, value)
           v == Len(value)
           t == Len(tail)
           w == SubSeq(Pair, 3, Len(Pair))
           d == [i \in DOMAIN w |-> Unescape(w[i])]
<1>1. /\ f \in Seq(Symbols) /\ Len(f) = 2 + v /\ f[1] = key /\ f[2] = "="
      /\ \A i \in 1 .. v : f[2 + i] = Escape(value[i])
  BY FieldType
<1>2. /\ v \in Nat /\ value \in [1 .. v -> Chars]
      /\ \A i \in 1 .. v : value[i] \in Chars
  BY LenProperties, ElementOfSeq
<1>3. /\ tail \in Seq(Symbols) /\ t \in Nat /\ t <= 1
      /\ \A i \in 1 .. t : tail[i] = "\n"
  <2>1. CASE tail = <<>>
    BY <2>1
  <2>2. CASE tail = <<"\n">>
    BY <2>2 DEF Symbols
  <2>3. QED
    BY <2>1, <2>2 DEF Tails
<1> HIDE DEF f, t, v
<1>4. /\ Pair \in Seq(Symbols) /\ Len(Pair) = 2 + v + t
      /\ \A i \in 1 .. (2 + v) : Pair[i] = f[i]
      /\ \A i \in 1 .. t : Pair[2 + v + i] = tail[i]
  <2>1. f \in Seq(Symbols) /\ tail \in Seq(Symbols)
    BY <1>1, <1>3
  <2>2. /\ f \o tail \in Seq(Symbols)
        /\ Len(f \o tail) = Len(f) + Len(tail)
        /\ \A i \in 1 .. Len(f) : (f \o tail)[i] = f[i]
        /\ \A i \in 1 .. Len(tail) : (f \o tail)[Len(f) + i] = tail[i]
    BY <2>1, AppendedType
  <2>3. Pair = f \o tail
    BY DEF f
  <2>4. QED
    BY <1>1, <2>2, <2>3 DEF t
<1>5. Len(Pair) > 1 /\ Pair[1] = key /\ Pair[2] = "="
  BY <1>1, <1>2, <1>3, <1>4
<1>6. /\ w \in Seq(Symbols) /\ Len(w) = v + t
      /\ \A i \in 1 .. v : w[i] = Escape(value[i])
      /\ \A i \in 1 .. t : w[v + i] = "\n"
  <2>1. \A i \in 3 .. Len(Pair) : Pair[i] \in Symbols
    <3>1. \A i \in 1 .. Len(Pair) : Pair[i] \in Symbols
      BY <1>4, ElementOfSeq
    <3>2. QED
      BY <1>2, <1>3, <1>4, <3>1
  <2>2. Len(Pair) \in Int
    BY <1>2, <1>3, <1>4
  <2>3. /\ w \in Seq(Symbols)
        /\ Len(w) = IF 3 <= Len(Pair) THEN Len(Pair) - 3 + 1 ELSE 0
        /\ \A i \in 1 .. (Len(Pair) - 3 + 1) : w[i] = Pair[3 + i - 1]
    <3> DEFINE m == 3
               n == Len(Pair)
               b == Pair
    <3>1. m \in Int /\ n \in Int /\ \A i \in m .. n : b[i] \in Symbols
      BY <2>1, <2>2
    <3> HIDE DEF m, n, b
    <3>2. /\ SubSeq(b, m, n) \in Seq(Symbols)
          /\ Len(SubSeq(b, m, n)) = IF m <= n THEN n - m + 1 ELSE 0
          /\ \A i \in 1 .. (n - m + 1) : SubSeq(b, m, n)[i] = b[m + i - 1]
      BY <3>1, SubSeqProperties
    <3>3. QED
      BY <3>2 DEF m, n, b
  <2> HIDE DEF w
  <2>4. Len(w) = v + t
    BY <1>2, <1>3, <1>4, <2>3
  <2>5. ASSUME NEW i \in 1 .. v
        PROVE  w[i] = Escape(value[i])
    <3>1. i \in 1 .. (Len(Pair) - 3 + 1) /\ 3 + i - 1 = 2 + i
          /\ 2 + i \in 1 .. (2 + v)
      BY <1>2, <1>3, <1>4
    <3>2. QED
      BY <1>1, <1>4, <2>3, <3>1
  <2>6. ASSUME NEW i \in 1 .. t
        PROVE  w[v + i] = "\n"
    <3>1. v + i \in 1 .. (Len(Pair) - 3 + 1) /\ 3 + (v + i) - 1 = 2 + v + i
      BY <1>2, <1>3, <1>4
    <3>2. QED
      BY <1>3, <1>4, <2>3, <3>1
  <2>7. QED
    BY <2>3, <2>4, <2>5, <2>6
<1> HIDE DEF w
<1>7. /\ DOMAIN d = 1 .. (v + t) /\ Len(d) = v + t
      /\ \A i \in 1 .. v : d[i] = value[i]
      /\ \A i \in 1 .. t : d[v + i] = "\n"
  <2>1. DOMAIN w = 1 .. (v + t)
    BY <1>6, LenProperties
  <2>2. Unescape("\n") = "\n"
    BY SpecialValues DEF Unescape
  <2>3. \A i \in 1 .. v : d[i] = value[i]
    BY <1>2, <1>3, <1>6, <2>1, EscapeUndone
  <2>4. ASSUME NEW i \in 1 .. t
        PROVE  d[v + i] = "\n"
    <3>1. v + i \in DOMAIN w
      BY <1>2, <1>3, <2>1
    <3>2. w[v + i] = "\n"
      BY <1>6
    <3>3. v + i \in DOMAIN w /\ w[v + i] = "\n"
      BY <3>1, <3>2
    <3>4. QED
      BY <2>2, <3>3
  <2>5. Len(d) = v + t
    BY <1>2, <1>3, <2>1
  <2>6. QED
    BY <2>1, <2>3, <2>4, <2>5
<1>8. Value = Stripped(d)
  BY DEF Value, Decode, w
<1> HIDE DEF d
<1>9. \A i \in 1 .. v : value[i] # "\n"
  BY <1>2, FormAssumption
<1>10. SelectLastInSeq(d, LAMBDA c : c # "\n") = v
  <2> DEFINE I == {i \in 1 .. Len(d) : d[i] # "\n"}
  <2>1. SelectLastInSeq(d, LAMBDA c : c # "\n") = IF I # {} THEN Max(I) ELSE 0
    BY DEF SelectLastInSeq
  <2>2. I = 1 .. v
    <3>1. ASSUME NEW i \in 1 .. (v + t)
          PROVE  d[i] # "\n" <=> i <= v
      <4>1. CASE i <= v
        BY <1>2, <1>3, <1>7, <1>9, <4>1
      <4>2. CASE ~(i <= v)
        <5>1. i - v \in 1 .. t /\ v + (i - v) = i
          BY <1>2, <1>3, <4>2
        <5>2. QED
          BY <1>7, <4>2, <5>1
      <4>3. QED
        BY <4>1, <4>2
    <3>2. QED
      BY <1>2, <1>3, <1>7, <3>1
  <2> HIDE DEF I
  <2>3. CASE v = 0
    BY <2>1, <2>2, <2>3
  <2>4. CASE v # 0
    <3>1. v \in 1 .. v /\ \A y \in 1 .. v : v >= y
      BY <1>2, <2>4
    <3>2. \A x \in 1 .. v : (\A y \in 1 .. v : x >= y) => x = v
      BY <1>2, <2>4
    <3>3. Max(1 .. v) = v
      BY <3>1, <3>2, Zenon DEF Max
    <3>4. QED
      BY <2>1, <2>2, <3>1, <3>3
  <2>5. QED
    BY <2>3, <2>4
<1>11. Value = value
  <2> DEFINE p == SubSeq(d, 1, v)
  <2>1. Value = p
    BY <1>8, <1>10 DEF Stripped
  <2>2. \A i \in 1 .. v : d[i] \in Chars
    BY <1>2, <1>7
  <2>3. /\ p \in Seq(Chars)
        /\ Len(p) = IF 1 <= v THEN v - 1 + 1 ELSE 0
        /\ \A i \in 1 .. (v - 1 + 1) : p[i] = d[1 + i - 1]
    <3>1. 1 \in Int /\ v \in Int
      BY <1>2
    <3>2. QED
      BY <2>2, <3>1, SubSeqProperties
  <2> HIDE DEF p
  <2>4. Len(p) = Len(value)
    BY <1>2, <2>3 DEF v
  <2>5. \A i \in 1 .. Len(p) : p[i] = value[i]
    BY <1>2, <1>7, <2>3, <2>4 DEF v
  <2>6. p = value
    BY <2>3, <2>4, <2>5, SeqEqual
  <2>7. QED
    BY <2>1, <2>6
<1>12. QED
  BY <1>5, <1>11

(* The key of the field that n fields from the end of a form is the first. *)
KeyAt(keys, n) == keys[Len(keys) - n + 1]

(* The keys of a form have values. *)
IsForm(values, keys) ==
  /\ keys \in Seq(Keys)
  /\ \A i \in 1 .. Len(keys) : values[keys[i]] \in Seq(Chars)

(* Encode puts one field before the last ones. *)
LEMMA EncodeDef ==
  ASSUME NEW keys, NEW values, IsForm(values, keys)
  PROVE  /\ Encode(values, keys)[0] = <<>>
         /\ \A n \in 1 .. Len(keys) :
              Encode(values, keys)[n] =
                Field(KeyAt(keys, n), values[KeyAt(keys, n)])
                  \o (IF n = 1 THEN <<>>
                      ELSE <<"&">> \o Encode(values, keys)[n - 1])
<1> DEFINE size == Len(keys)
           field(n) == Field(KeyAt(keys, n), values[KeyAt(keys, n)])
           more(n, x) == IF n = 1 THEN <<>> ELSE <<"&">> \o x
           Rec(f) == f = [n \in 0 .. size |->
                            IF n = 0 THEN <<>>
                            ELSE field(n) \o more(n, f[n - 1])]
           step == [n \in 1 .. size |-> [x \in Seq(Symbols) |->
                      field(n) \o more(n, x)]]
<1>1. Encode(values, keys) = CHOOSE f : Rec(f)
  BY DEF Encode, KeyAt
<1>2. size \in Nat /\ keys \in Seq(Keys)
  BY LenProperties DEF IsForm
<1>3. \A n \in 1 .. size : field(n) \in Seq(Symbols)
  <2> TAKE n \in 1 .. size
  <2>1. size - n + 1 \in 1 .. Len(keys)
    BY <1>2
  <2>2. KeyAt(keys, n) \in Keys /\ values[KeyAt(keys, n)] \in Seq(Chars)
    BY <1>2, <2>1, ElementOfSeq DEF IsForm, KeyAt
  <2>3. QED
    BY <2>2, FieldType
<1>4. \A n \in 1 .. size, x \in Seq(Symbols) : more(n, x) \in Seq(Symbols)
  <2> TAKE n \in 1 .. size, x \in Seq(Symbols)
  <2>1. <<"&">> \in Seq(Symbols)
    BY DEF Symbols
  <2>2. <<"&">> \o x \in Seq(Symbols)
    BY <2>1, ConcatProperties
  <2>3. QED
    BY <2>2
<1> HIDE DEF field, more
<1>5. \A n \in 1 .. size, x \in Seq(Symbols) :
        field(n) \o more(n, x) \in Seq(Symbols)
  <2> TAKE n \in 1 .. size, x \in Seq(Symbols)
  <2>1. field(n) \in Seq(Symbols) /\ more(n, x) \in Seq(Symbols)
    BY <1>3, <1>4
  <2>2. QED
    BY <2>1, ConcatProperties
<1>6. step \in [1 .. size -> [Seq(Symbols) -> Seq(Symbols)]]
  <2>1. ASSUME NEW n \in 1 .. size
        PROVE  [x \in Seq(Symbols) |-> field(n) \o more(n, x)]
                 \in [Seq(Symbols) -> Seq(Symbols)]
    BY <1>5, Zenon
  <2>2. QED
    BY <2>1, Zenon
<1>7. \A n \in 1 .. size, x \in Seq(Symbols) :
        step[n][x] = field(n) \o more(n, x)
  BY Zenon
<1> HIDE DEF step, size
<1>8. PICK f : Recurses(f, size, Seq(Symbols), <<>>, step)
  <2>1. <<>> \in Seq(Symbols) /\ IsStep(step, size, Seq(Symbols))
    BY <1>6 DEF IsStep
  <2>2. QED
    BY <1>2, <2>1, RecursionExists
<1>9. Rec(f)
  <2>1. ASSUME NEW n \in 1 .. size
        PROVE  f[n] = field(n) \o more(n, f[n - 1])
    <3>1. f[n - 1] \in Seq(Symbols) /\ f[n] = step[n][f[n - 1]]
      BY <1>2, <1>8 DEF Recurses
    <3>2. QED
      BY <1>7, <3>1
  <2> DEFINE e(n) == field(n) \o more(n, f[n - 1])
  <2>2. \A n \in 1 .. size : f[n] = e(n)
    BY <2>1
  <2> HIDE DEF e
  <2>3. f = [n \in 0 .. size |-> IF n = 0 THEN <<>> ELSE e(n)]
    BY <1>2, <1>8, <2>2 DEF Recurses
  <2>4. QED
    BY <2>3, Zenon DEF e
<1>10. Rec(Encode(values, keys))
  <2> HIDE DEF Rec
  <2>1. QED
    BY <1>1, <1>9
<1>11. QED
  <2> DEFINE g == Encode(values, keys)
             e(n) == field(n) \o more(n, g[n - 1])
  <2>1. g = [n \in 0 .. size |-> IF n = 0 THEN <<>> ELSE e(n)]
    BY <1>10
  <2> HIDE DEF g, e
  <2>2. g[0] = <<>> /\ \A n \in 1 .. size : g[n] = e(n)
    BY <1>2, <2>1
  <2>3. QED
    BY <2>2, Zenon DEF g, e, field, more, size

(* A field of a form has a key and a value. *)
LEMMA KeyType ==
  ASSUME NEW keys, NEW values, IsForm(values, keys), NEW n \in 1 .. Len(keys)
  PROVE  KeyAt(keys, n) \in Keys /\ values[KeyAt(keys, n)] \in Seq(Chars)
<1>1. Len(keys) \in Nat /\ keys \in Seq(Keys)
  BY LenProperties DEF IsForm
<1>2. Len(keys) - n + 1 \in 1 .. Len(keys)
  BY <1>1
<1>3. QED
  BY <1>1, <1>2, ElementOfSeq DEF IsForm, KeyAt

(* An encoded form is made of symbols. *)
LEMMA EncodeType ==
  ASSUME NEW keys, NEW values, IsForm(values, keys), NEW n \in 0 .. Len(keys)
  PROVE  Encode(values, keys)[n] \in Seq(Symbols)
<1> DEFINE e == Encode(values, keys)
           field(k) == Field(KeyAt(keys, k), values[KeyAt(keys, k)])
           more(k, x) == IF k = 1 THEN <<>> ELSE <<"&">> \o x
           S == {k \in Nat : k <= Len(keys) => e[k] \in Seq(Symbols)}
<1>1. e[0] = <<>> /\ \A k \in 1 .. Len(keys) :
        e[k] = field(k) \o more(k, e[k - 1])
  BY EncodeDef
<1>2. \A k \in 1 .. Len(keys) : field(k) \in Seq(Symbols)
  BY KeyType, FieldType
<1>3. \A x \in Seq(Symbols) : \A k \in Nat : more(k, x) \in Seq(Symbols)
  <2> TAKE x \in Seq(Symbols)
  <2>1. <<"&">> \in Seq(Symbols)
    BY DEF Symbols
  <2>2. <<"&">> \o x \in Seq(Symbols)
    BY <2>1, ConcatProperties
  <2>3. QED
    BY <2>2
<1>4. Len(keys) \in Nat
  BY LenProperties DEF IsForm
<1> HIDE DEF e, field, more
<1>5. 0 \in S
  <2>1. e[0] \in Seq(Symbols)
    BY <1>1, EmptySeq
  <2>2. QED
    BY <2>1
<1>6. ASSUME NEW k \in Nat, k \in S
      PROVE  k + 1 \in S
  <2> SUFFICES ASSUME k + 1 <= Len(keys)
               PROVE  e[k + 1] \in Seq(Symbols)
    OBVIOUS
  <2>1. k + 1 \in 1 .. Len(keys) /\ k + 1 \in Nat /\ k + 1 - 1 = k
    BY <1>4
  <2>2. e[k + 1] = field(k + 1) \o more(k + 1, e[k])
    BY <1>1, <2>1
  <2>3. field(k + 1) \in Seq(Symbols)
    BY <1>2, <2>1
  <2>4. more(k + 1, e[k]) \in Seq(Symbols)
    <3>1. e[k] \in Seq(Symbols)
      BY <1>4, <1>6, <2>1
    <3>2. QED
      BY <1>3, <2>1, <3>1
  <2>5. field(k + 1) \o more(k + 1, e[k]) \in Seq(Symbols)
    BY <2>3, <2>4, ConcatProperties
  <2>6. QED
    BY <2>2, <2>5
<1> HIDE DEF S
<1>7. Nat \subseteq S
  BY <1>5, <1>6, SetInduction
<1>8. QED
  BY <1>4, <1>7 DEF S, e

(* The first pair of what is left of a form is its next field, and the rest *)
(* is what the browser wrote behind it.                                    *)
LEMMA FirstPair ==
  ASSUME NEW keys, NEW values, IsForm(values, keys),
         NEW n \in 1 .. Len(keys), NEW tail \in Tails,
         body = Encode(values, keys)[n] \o tail
  PROVE  /\ body # <<>>
         /\ Len(Pair) > 1 /\ Pair[1] = KeyAt(keys, n) /\ Pair[2] = "="
         /\ Value = values[KeyAt(keys, n)]
         /\ n = 1 => PairEnd = 0
         /\ n # 1 => /\ PairEnd # 0
                     /\ SubSeq(body, PairEnd + 1, Len(body)) =
                          Encode(values, keys)[n - 1] \o tail
<1> DEFINE key == KeyAt(keys, n)
           value == values[key]
           f == Field(key, value)
           e == Encode(values, keys)
           amp == <<"&">>
           rest == e[n - 1]
           more == IF n = 1 THEN <<>> ELSE amp \o rest
<1>1. key \in Keys /\ value \in Seq(Chars)
  BY KeyType
<1>2. /\ f \in Seq(Symbols) /\ Len(f) = 2 + Len(value)
      /\ \A i \in 1 .. (2 + Len(value)) : f[i] # "&"
  BY <1>1, FieldType
<1>3. n \in Nat /\ n \in 0 .. Len(keys) /\ n - 1 \in 0 .. Len(keys)
  <2>1. Len(keys) \in Nat
    BY LenProperties DEF IsForm
  <2>2. QED
    BY <2>1
<1>4. /\ rest \in Seq(Symbols) /\ e[n] = f \o more
  <2>1. rest \in Seq(Symbols)
    BY <1>3, EncodeType
  <2>2. e[n] = f \o more
    BY EncodeDef
  <2>3. QED
    BY <2>1, <2>2
<1>5. tail \in Seq(Symbols) /\ amp \in Seq(Symbols) /\ f \in Seq(Symbols)
  <2>1. CASE tail = <<>>
    BY <1>2, <2>1 DEF Symbols
  <2>2. CASE tail = <<"\n">>
    BY <1>2, <2>2 DEF Symbols
  <2>3. QED
    BY <2>1, <2>2 DEF Tails
<1> HIDE DEF key, value, f, e, amp, rest
<1>6. CASE n = 1
  <2>1. body = f \o tail
    <3>1. e[n] = f
      BY <1>2, <1>4, <1>6, ConcatEmptySeq
    <3>2. QED
      BY <3>1 DEF e
  <2>2. \A i \in 1 .. Len(body) : body[i] # "&"
    <3>1. /\ Len(f \o tail) = Len(f) + Len(tail)
          /\ \A i \in 1 .. Len(f) : (f \o tail)[i] = f[i]
          /\ \A i \in 1 .. Len(tail) : (f \o tail)[Len(f) + i] = tail[i]
      BY <1>5, AppendedType
    <3>2. Len(f) \in Nat /\ Len(tail) \in Nat
      BY <1>2, <1>5, LenProperties
    <3>3. \A i \in 1 .. Len(tail) : tail[i] # "&"
      <4>1. CASE tail = <<>>
        BY <4>1
      <4>2. CASE tail = <<"\n">>
        BY <4>2
      <4>3. QED
        BY <4>1, <4>2 DEF Tails
    <3>4. ASSUME NEW i \in 1 .. Len(f \o tail)
          PROVE  (f \o tail)[i] # "&"
      <4>1. CASE i <= Len(f)
        BY <1>2, <3>1, <3>2, <4>1
      <4>2. CASE ~(i <= Len(f))
        <5>1. i - Len(f) \in 1 .. Len(tail) /\ Len(f) + (i - Len(f)) = i
          BY <3>1, <3>2, <4>2
        <5>2. QED
          BY <3>1, <3>3, <5>1
      <4>3. QED
        BY <4>1, <4>2
    <3>5. QED
      BY <2>1, <3>4
  <2>3. PairEnd = 0 /\ Pair = body
    BY <2>2, PairLast
  <2>4. Pair = Field(key, value) \o tail
    BY <2>1, <2>3 DEF f
  <2>5. Len(Pair) > 1 /\ Pair[1] = key /\ Pair[2] = "=" /\ Value = value
    BY <1>1, <2>4, ValueRead
  <2>6. body # <<>>
    BY <2>3, <2>5
  <2>7. QED
    BY <1>6, <2>3, <2>5, <2>6 DEF key, value
<1>7. CASE n # 1
  <2>1. body = f \o (amp \o (rest \o tail))
    <3>1. amp \o rest \in Seq(Symbols)
      BY <1>4, <1>5, ConcatProperties
    <3>2. body = (f \o (amp \o rest)) \o tail
      BY <1>4, <1>7 DEF e
    <3>3. (f \o (amp \o rest)) \o tail = f \o ((amp \o rest) \o tail)
      <4> DEFINE m == amp \o rest
      <4> HIDE DEF m
      <4>1. f \in Seq(Symbols) /\ m \in Seq(Symbols) /\ tail \in Seq(Symbols)
        BY <1>5, <3>1 DEF m
      <4>2. (f \o m) \o tail = f \o (m \o tail)
        BY <4>1, ConcatAssociative
      <4>3. QED
        BY <4>2 DEF m
    <3>4. (amp \o rest) \o tail = amp \o (rest \o tail)
      BY <1>4, <1>5, ConcatAssociative
    <3>5. QED
      BY <3>2, <3>3, <3>4
  <2>2. rest \o tail \in Seq(Symbols)
    BY <1>4, <1>5, ConcatProperties
  <2>3. /\ PairEnd = Len(f) + 1 /\ Pair = f
        /\ SubSeq(body, PairEnd + 1, Len(body)) = rest \o tail
    <3>1. \A i \in 1 .. Len(f) : f[i] # "&"
      BY <1>2
    <3> DEFINE r == rest \o tail
    <3>2. r \in Seq(Symbols) /\ body = f \o (<<"&">> \o r)
      BY <2>1, <2>2 DEF amp
    <3> HIDE DEF r
    <3>3. f \in Seq(Symbols)
      BY <1>2
    <3>4. /\ PairEnd = Len(f) + 1 /\ Pair = f
          /\ SubSeq(body, PairEnd + 1, Len(body)) = r
      BY <3>1, <3>2, <3>3, PairBefore
    <3>5. QED
      BY <3>4 DEF r
  <2>4. Pair = Field(key, value) \o <<>>
    <3>1. f \o <<>> = f
      BY <1>2, ConcatEmptySeq
    <3>2. QED
      BY <2>3, <3>1 DEF f
  <2>5. Len(Pair) > 1 /\ Pair[1] = key /\ Pair[2] = "=" /\ Value = value
    <3>1. <<>> \in Tails
      BY DEF Tails
    <3>2. QED
      BY <1>1, <2>4, <3>1, ValueRead
  <2>6. PairEnd # 0
    BY <1>2, <2>3, LenProperties
  <2>7. body # <<>>
    <3>1. body = <<>> => PairEnd = 0
      BY PairLast
    <3>2. QED
      BY <2>6, <3>1
  <2>8. QED
    BY <1>7, <2>3, <2>5, <2>6, <2>7 DEF key, value, rest, e
<1>8. QED
  BY <1>6, <1>7

(* The keys of a form that were taken, when n are left. *)
Taken(keys, n) == {keys[i] : i \in 1 .. (Len(keys) - n)}

(* The server is at the last n fields of a form: those before it went to   *)
(* the configuration, the others are as they were, and every number so far *)
(* was within its bounds.                                                  *)
Taking(keys, tail, n) ==
  /\ entered \in [ToSet(keys) -> Seq(Chars)]
  /\ body = IF n = 0 THEN <<>> ELSE Encode(entered, keys)[n] \o tail
  /\ \A key \in Fields :
       config[key] = IF key \in Taken(keys, n)
                     THEN FieldValue(key, entered[key]) ELSE Base[key]
  /\ \A key \in Taken(keys, n) \cap NumberKeys :
       ParsesBounded(entered[key], key)

(* The rule is one of its options and the box sends its mark. *)
EnteredInv ==
  /\ "dst" \in DOMAIN entered =>
       entered["dst"] \in {<<rule>> : rule \in DstRules}
  /\ "led_on" \in DOMAIN entered => entered["led_on"] = <<"1">>

(* The inductive invariant of the form. *)
TakeInv ==
  /\ FormInv
  /\ DOMAIN config = Fields
  /\ EnteredInv
  /\ result = "taking" =>
       \E keys \in Forms, tail \in Tails : \E n \in 0 .. Len(keys) :
         Taking(keys, tail, n)
  /\ AllOrNothing
  /\ FormStored

(* A form starts from a configuration with all fields. *)
LEMMA BaseDomain == FormInv => DOMAIN Base = Fields
<1>1. CASE flash_config = NoConfig
  BY <1>1 DEF Base, Fields, TextKeys, NumberKeys
<1>2. CASE flash_config # NoConfig
  BY <1>2, FormAssumption DEF FormInv, Base, IsConfig
<1>3. QED
  BY <1>1, <1>2

(* The keys of a form. *)
LEMMA FormKeys ==
  ASSUME NEW keys \in Forms
  PROVE  /\ keys \in Seq(Keys) /\ Len(keys) \in Nat \ {0}
         /\ DOMAIN keys = 1 .. Len(keys)
         /\ ToSet(keys) = {keys[i] : i \in 1 .. Len(keys)}
         /\ ToSet(keys) \subseteq Keys
<1>1. keys \in Seq(Keys) /\ keys # <<>>
  BY FormAssumption DEF Keys
<1>2. Len(keys) \in Nat \ {0} /\ DOMAIN keys = 1 .. Len(keys)
      /\ \A i \in 1 .. Len(keys) : keys[i] \in Keys
  BY <1>1, EmptySeq, LenProperties, ElementOfSeq
<1>3. QED
  BY <1>1, <1>2 DEF ToSet

(* What was entered has a value for every key that is sent. *)
LEMMA EnteredForm ==
  ASSUME NEW keys \in Forms, NEW values \in [ToSet(keys) -> Seq(Chars)]
  PROVE  IsForm(values, keys)
BY FormKeys DEF IsForm

(* parse_long_bounded takes the numerals of the numbers within the bounds. *)
LEMMA ParsesIff ==
  ASSUME NEW key \in NumberKeys, NEW value \in Seq(Chars)
  PROVE  ParsesBounded(value, key) <=>
           \E n \in DOMAIN NumberOf :
             /\ value = <<n>>
             /\ Bounds[key].min <= NumberOf[n]
             /\ NumberOf[n] <= Bounds[key].max
<1>1. /\ Bounds[key].min \in Int /\ Bounds[key].max \in Int
      /\ \A n \in DOMAIN NumberOf : NumberOf[n] \in Int
  BY FormAssumption
<1>2. ASSUME ParsesBounded(value, key)
      PROVE  \E n \in DOMAIN NumberOf :
               /\ value = <<n>>
               /\ Bounds[key].min <= NumberOf[n]
               /\ NumberOf[n] <= Bounds[key].max
  <2>1. /\ Len(value) = 1 /\ value[1] \in DOMAIN NumberOf
        /\ NumberOf[value[1]] \in Bounds[key].min .. Bounds[key].max
    BY <1>2 DEF ParsesBounded
  <2>2. value = <<value[1]>>
    BY <2>1
  <2>3. QED
    BY <1>1, <2>1, <2>2
<1>3. ASSUME NEW n \in DOMAIN NumberOf, value = <<n>>,
             Bounds[key].min <= NumberOf[n], NumberOf[n] <= Bounds[key].max
      PROVE  ParsesBounded(value, key)
  BY <1>1, <1>3 DEF ParsesBounded
<1>4. QED
  BY <1>2, <1>3

(* strncpy keeps the beginning of a text, all of it when there is room. *)
LEMMA TruncatedPrefix ==
  ASSUME NEW key \in TextKeys, NEW value \in Seq(Chars)
  PROVE  /\ IsPrefix(Truncated(value, key), value)
         /\ Len(Truncated(value, key)) <= MaxLen[key]
         /\ Truncated(value, key) # value =>
              Len(Truncated(value, key)) = MaxLen[key]
<1> DEFINE len == Len(value)
           max == MaxLen[key]
           n == IF len < max THEN len ELSE max
           s == SubSeq(value, 1, n)
<1>1. len \in Nat /\ max \in Nat /\ n \in 0 .. len /\ n <= max /\ n \in Int
  <2>1. len \in Nat /\ max \in Nat
    BY LenProperties, FormAssumption
  <2>2. QED
    BY <2>1
<1>2. Truncated(value, key) = s
  BY DEF Truncated, FirstOf
<1>3. SubSeq(value, 1, len) = value
  BY SubSeqFull
<1> HIDE DEF len, max
<1>4. n # max => n = len
  BY <1>1
<1>5. s # value => n = max
  BY <1>3, <1>4
<1>6. \A i \in 1 .. n : value[i] \in Chars
  BY <1>1, ElementOfSeq DEF len
<1> HIDE DEF n
<1>7. s \in Seq(Chars) /\ Len(s) = n
  <2>1. /\ s \in Seq(Chars)
        /\ Len(s) = IF 1 <= n THEN n - 1 + 1 ELSE 0
    <3>1. 1 \in Int /\ n \in Int
      BY <1>1
    <3>2. QED
      BY <1>6, <3>1, SubSeqProperties
  <2>2. QED
    BY <1>1, <2>1
<1> HIDE DEF s
<1>8. SubSeq(s, 1, Len(s)) = s
  BY <1>7, SubSeqFull
<1>9. IsPrefix(s, value)
  BY <1>1, <1>7, <1>8 DEF IsPrefix, s, len
<1>10. QED
  BY <1>1, <1>2, <1>5, <1>7, <1>9 DEF max

(* The value that a field gets stands for what was entered. *)
LEMMA ValueStored ==
  ASSUME EnteredInv, NEW key \in Fields, key \in DOMAIN entered,
         entered[key] \in Seq(Chars),
         key \in NumberKeys => ParsesBounded(entered[key], key)
  PROVE  StandsFor(FieldValue(key, entered[key]), key, entered[key])
<1> DEFINE value == entered[key]
<1>1. CASE key \in TextKeys
  <2>1. key \notin NumberKeys /\ key # "dst" /\ key # "led_on"
    BY <1>1 DEF TextKeys, NumberKeys
  <2>2. FieldValue(key, value) = Truncated(value, key)
    BY <1>1, <2>1 DEF FieldValue
  <2>3. QED
    BY <1>1, <2>1, <2>2, TruncatedPrefix DEF StandsFor
<1>2. CASE key \in NumberKeys
  <2>1. key \notin TextKeys /\ key # "dst" /\ key # "led_on"
    BY <1>2 DEF TextKeys, NumberKeys
  <2>2. FieldValue(key, value) = NumberOf[value[1]]
    BY <1>2, <2>1 DEF FieldValue
  <2>3. PICK n \in DOMAIN NumberOf : value = <<n>>
    BY <1>2, ParsesIff
  <2>4. QED
    BY <1>2, <2>1, <2>2, <2>3 DEF StandsFor
<1>3. CASE key = "dst"
  <2>1. key \notin TextKeys /\ key \notin NumberKeys /\ key # "led_on"
    BY <1>3 DEF TextKeys, NumberKeys
  <2>2. PICK rule \in DstRules : value = <<rule>>
    BY <1>3 DEF EnteredInv
  <2>3. FieldValue(key, value) = Rule(value)
    BY <1>3, <2>1 DEF FieldValue
  <2>4. Rule(value) = rule
    BY <2>2 DEF Rule
  <2>5. QED
    BY <1>3, <2>1, <2>2, <2>3, <2>4 DEF StandsFor
<1>4. CASE key = "led_on"
  <2>1. key \notin TextKeys /\ key \notin NumberKeys /\ key # "dst"
    BY <1>4 DEF TextKeys, NumberKeys
  <2>2. value = <<"1">>
    BY <1>4 DEF EnteredInv
  <2>3. FieldValue(key, value) = Ticked(value)
    BY <1>4, <2>1 DEF FieldValue
  <2>4. Ticked(value) = TRUE
    BY <2>2 DEF Ticked
  <2>5. QED
    BY <1>4, <2>1, <2>3, <2>4 DEF StandsFor
<1>5. QED
  BY <1>1, <1>2, <1>3, <1>4 DEF Fields

(* No form has been sent at first. *)
LEMMA TakeInit == Init => TakeInv
<1> SUFFICES ASSUME Init
             PROVE  TakeInv
  OBVIOUS
<1>1. FormInv /\ config = Base /\ result = "none" /\ stored = flash_config
      /\ entered = <<>>
  BY DEF Init, FormInv
<1>2. DOMAIN config = Fields
  BY <1>1, BaseDomain
<1>3. EnteredInv
  BY <1>1 DEF EnteredInv
<1>4. AllOrNothing /\ FormStored
  BY <1>1 DEF AllOrNothing, FormStored
<1>5. QED
  BY <1>1, <1>2, <1>3, <1>4 DEF TakeInv

(* What the browser sends. *)
LEMMA SubmitTaking ==
  ASSUME TakeInv, Submit
  PROVE  TakeInv'
<1>1. /\ UNCHANGED <<flash_config, stored>> /\ config' = Base
      /\ result' = "taking" /\ result # "200"
  BY DEF Submit
<1>2. PICK edit \in Edits, keys \in Forms, tail \in Tails :
        /\ entered' = [key \in ToSet(keys) |->
                        IF key \in DOMAIN edit THEN edit[key] ELSE Shown[key]]
        /\ body' = Encode(entered', keys)[Len(keys)] \o tail
  BY Zenon DEF Submit, Tails
<1>3. DOMAIN Shown = Keys
  BY DEF Shown, FixedValues, Keys, Fields, TextKeys, NumberKeys
<1>4. /\ DOMAIN edit \subseteq Fields \ {"led_on"}
      /\ \A key \in DOMAIN edit : edit[key] \in Seq(Chars)
      /\ "dst" \in DOMAIN edit =>
           edit["dst"] \in {<<rule>> : rule \in DstRules}
  BY FormAssumption DEF IsEdit
<1>5. ASSUME NEW key \in Keys
      PROVE  Shown[key] \in Seq(Chars)
  <2>1. CASE key \in TextKeys
    <3>1. Shown[key] = Replacement(key)
      BY <2>1 DEF Shown
    <3>2. CASE flash_config = NoConfig
      BY <3>1, <3>2, EmptySeq DEF Replacement
    <3>3. CASE flash_config # NoConfig
      <4>1. IsConfig(flash_config)
        BY <3>3, FormAssumption DEF TakeInv, FormInv
      <4>2. QED
        BY <2>1, <3>1, <3>3, <4>1 DEF Replacement, IsConfig
    <3>4. QED
      BY <3>2, <3>3
  <2>2. CASE key \notin TextKeys
    <3>1. key \in DOMAIN FixedValues
      BY <2>2 DEF FixedValues, Keys, Fields, NumberKeys
    <3>2. Shown[key] = FixedValues[key]
      BY <2>2, <3>1 DEF Shown
    <3>3. QED
      BY <3>1, <3>2, FormAssumption
  <2>3. QED
    BY <2>1, <2>2
<1>6. Shown["dst"] = <<"NONE">> /\ Shown["led_on"] = <<"1">>
  BY DEF Shown, FixedValues, TextKeys
<1>7. ToSet(keys) \subseteq Keys /\ Len(keys) \in Nat \ {0}
  BY FormKeys
<1>8. entered' \in [ToSet(keys) -> Seq(Chars)]
  BY <1>2, <1>4, <1>5, <1>7
<1>9. EnteredInv'
  <2>1. ASSUME "dst" \in ToSet(keys)
        PROVE  entered'["dst"] \in {<<rule>> : rule \in DstRules}
    BY <1>2, <1>4, <1>6, <1>7, <2>1 DEF DstRules
  <2>2. ASSUME "led_on" \in ToSet(keys)
        PROVE  entered'["led_on"] = <<"1">>
    BY <1>2, <1>4, <1>6, <1>7, <2>2
  <2>3. DOMAIN entered' = ToSet(keys)
    BY <1>2
  <2>4. QED
    BY <2>1, <2>2, <2>3 DEF EnteredInv
<1>10. Taking(keys, tail, Len(keys))'
  <2>1. Taken(keys, Len(keys)) = {}
    BY <1>7 DEF Taken
  <2>2. Base' = Base
    BY <1>1 DEF Base
  <2>3. QED
    BY <1>1, <1>2, <1>7, <1>8, <2>1, <2>2 DEF Taking
<1>11. DOMAIN config' = Fields
  BY <1>1, BaseDomain DEF TakeInv
<1>12. FormInv'
  BY <1>1 DEF TakeInv, FormInv
<1>13. AllOrNothing' /\ FormStored'
  BY <1>1 DEF TakeInv, AllOrNothing, FormStored
<1>14. Len(keys) \in 0 .. Len(keys)
  BY <1>7
<1>15. QED
  BY <1>9, <1>10, <1>11, <1>12, <1>13, <1>14 DEF TakeInv

(* What the server finds first in what is left of a form. *)
LEMMA NextField ==
  ASSUME TakeInv, NEW keys \in Forms, NEW tail \in Tails,
         NEW n \in 0 .. Len(keys), Taking(keys, tail, n), body # <<>>
  PROVE  LET key == KeyAt(keys, n)
         IN  /\ n \in 1 .. Len(keys) /\ n - 1 \in 0 .. Len(keys)
             /\ key \in ToSet(keys) /\ key \in Keys
             /\ entered[key] \in Seq(Chars)
             /\ Pair[1] = key /\ Value = entered[key]
             /\ Known <=> key \in Fields
             /\ Taken(keys, n - 1) = Taken(keys, n) \cup {key}
             /\ (IF PairEnd = 0 THEN <<>>
                 ELSE SubSeq(body, PairEnd + 1, Len(body)))
                  = (IF n - 1 = 0 THEN <<>>
                     ELSE Encode(entered, keys)[n - 1] \o tail)
<1> DEFINE key == KeyAt(keys, n)
<1>1. /\ entered \in [ToSet(keys) -> Seq(Chars)]
      /\ body = IF n = 0 THEN <<>> ELSE Encode(entered, keys)[n] \o tail
  BY DEF Taking
<1>2. /\ keys \in Seq(Keys) /\ Len(keys) \in Nat
      /\ ToSet(keys) = {keys[i] : i \in 1 .. Len(keys)}
      /\ ToSet(keys) \subseteq Keys
  BY FormKeys
<1>3. n \in 1 .. Len(keys) /\ n - 1 \in 0 .. Len(keys)
  BY <1>1, <1>2
<1>4. Len(keys) - n + 1 \in 1 .. Len(keys)
  BY <1>2, <1>3
<1>5. key \in ToSet(keys) /\ key \in Keys /\ entered[key] \in Seq(Chars)
  BY <1>1, <1>2, <1>4 DEF KeyAt
<1>6. /\ Len(Pair) > 1 /\ Pair[1] = key /\ Pair[2] = "="
      /\ Value = entered[key]
      /\ n = 1 => PairEnd = 0
      /\ n # 1 => /\ PairEnd # 0
                  /\ SubSeq(body, PairEnd + 1, Len(body)) =
                       Encode(entered, keys)[n - 1] \o tail
  <2>1. IsForm(entered, keys)
    BY <1>1, EnteredForm
  <2>2. body = Encode(entered, keys)[n] \o tail
    BY <1>1, <1>3
  <2>3. QED
    BY <1>3, <2>1, <2>2, FirstPair
<1>7. Known <=> key \in Fields
  BY <1>6 DEF Known, TakeInv
<1>8. Taken(keys, n - 1) = Taken(keys, n) \cup {key}
  <2> DEFINE size == Len(keys)
  <2>1. 1 .. (size - (n - 1)) = 1 .. (size - n) \cup {size - n + 1}
    BY <1>2, <1>3
  <2>2. QED
    BY <2>1 DEF Taken, KeyAt
<1>9. (IF PairEnd = 0 THEN <<>> ELSE SubSeq(body, PairEnd + 1, Len(body)))
        = (IF n - 1 = 0 THEN <<>> ELSE Encode(entered, keys)[n - 1] \o tail)
  <2>1. CASE n = 1
    BY <1>6, <2>1
  <2>2. CASE n # 1
    <3>1. n - 1 # 0
      BY <1>3, <2>2
    <3>2. QED
      BY <1>6, <2>2, <3>1, Zenon
  <2>3. QED
    BY <2>1, <2>2
<1>10. QED
  BY <1>3, <1>5, <1>6, <1>7, <1>8, <1>9

(* A field goes to the configuration. *)
LEMMA TakePairTaking ==
  ASSUME TakeInv, TakePair
  PROVE  TakeInv'
<1>1. /\ result = "taking" /\ body # <<>> /\ ~Invalid
      /\ config' = IF Known
                   THEN [config EXCEPT ![Pair[1]] = FieldValue(Pair[1], Value)]
                   ELSE config
      /\ body' = IF PairEnd = 0 THEN <<>>
                 ELSE SubSeq(body, PairEnd + 1, Len(body))
      /\ UNCHANGED <<flash_config, stored, result, entered>>
  BY DEF TakePair
<1>2. PICK keys \in Forms, tail \in Tails :
        \E n \in 0 .. Len(keys) : Taking(keys, tail, n)
  BY <1>1 DEF TakeInv
<1>3. PICK n \in 0 .. Len(keys) : Taking(keys, tail, n)
  BY <1>2
<1> DEFINE key == KeyAt(keys, n)
<1>4. /\ n \in 1 .. Len(keys) /\ n - 1 \in 0 .. Len(keys)
      /\ key \in ToSet(keys) /\ key \in Keys
      /\ entered[key] \in Seq(Chars)
      /\ Pair[1] = key /\ Value = entered[key]
      /\ Known <=> key \in Fields
      /\ Taken(keys, n - 1) = Taken(keys, n) \cup {key}
      /\ (IF PairEnd = 0 THEN <<>> ELSE SubSeq(body, PairEnd + 1, Len(body)))
           = (IF n - 1 = 0 THEN <<>> ELSE Encode(entered, keys)[n - 1] \o tail)
  BY <1>1, <1>3, NextField
<1> HIDE DEF key
<1>5. DOMAIN config = Fields /\ Base' = Base
  BY <1>1 DEF TakeInv, Base
<1>6. DOMAIN config' = Fields
  BY <1>1, <1>5
<1>7. ASSUME NEW k \in Fields
      PROVE  config'[k] = IF k \in Taken(keys, n - 1)
                          THEN FieldValue(k, entered[k]) ELSE Base[k]
  <2>1. config[k] = IF k \in Taken(keys, n)
                    THEN FieldValue(k, entered[k]) ELSE Base[k]
    BY <1>3 DEF Taking
  <2>2. CASE k = key
    <3>1. config'[k] = FieldValue(key, entered[key])
      BY <1>1, <1>4, <1>5, <2>2
    <3>2. QED
      BY <1>4, <2>2, <3>1
  <2>3. CASE k # key
    <3>1. config'[k] = config[k]
      BY <1>1, <1>4, <1>5, <2>3
    <3>2. QED
      BY <1>4, <2>1, <2>3, <3>1
  <2>4. QED
    BY <2>2, <2>3
<1>8. \A k \in Taken(keys, n - 1) \cap NumberKeys :
        ParsesBounded(entered[k], k)
  <2>1. key \in NumberKeys => ParsesBounded(entered[key], key)
    BY <1>1, <1>4 DEF Invalid, Fields
  <2>2. QED
    BY <1>3, <1>4, <2>1 DEF Taking
<1>9. Taking(keys, tail, n - 1)'
  <2>1. entered' = entered /\ Base' = Base
    BY <1>1, <1>5
  <2>2. body' = IF n - 1 = 0 THEN <<>>
                ELSE Encode(entered', keys)[n - 1] \o tail
    BY <1>1, <1>4, <2>1
  <2>3. entered' \in [ToSet(keys) -> Seq(Chars)]
    BY <1>3, <2>1 DEF Taking
  <2>4. \A k \in Fields :
          config'[k] = IF k \in Taken(keys, n - 1)
                       THEN FieldValue(k, entered'[k]) ELSE Base'[k]
    BY <1>7, <2>1
  <2>5. \A k \in Taken(keys, n - 1) \cap NumberKeys :
          ParsesBounded(entered'[k], k)
    BY <1>8, <2>1
  <2>6. QED
    BY <2>2, <2>3, <2>4, <2>5 DEF Taking
<1>10. FormInv' /\ EnteredInv'
  BY <1>1 DEF TakeInv, FormInv, EnteredInv
<1>11. AllOrNothing' /\ FormStored'
  BY <1>1 DEF TakeInv, AllOrNothing, FormStored
<1>12. QED
  BY <1>4, <1>6, <1>9, <1>10, <1>11 DEF TakeInv

(* A form is rejected for a number that was entered. *)
LEMMA RejectTaking ==
  ASSUME TakeInv, Reject
  PROVE  TakeInv'
<1>1. /\ result = "taking" /\ body # <<>> /\ Invalid
      /\ result' = "400" /\ config' = Base
      /\ UNCHANGED <<flash_config, stored, entered>>
  BY DEF Reject
<1>2. PICK keys \in Forms, tail \in Tails :
        \E n \in 0 .. Len(keys) : Taking(keys, tail, n)
  BY <1>1 DEF TakeInv
<1>3. PICK n \in 0 .. Len(keys) : Taking(keys, tail, n)
  BY <1>2
<1> DEFINE key == KeyAt(keys, n)
<1>4. /\ key \in ToSet(keys) /\ entered[key] \in Seq(Chars)
      /\ Pair[1] = key /\ Value = entered[key]
  BY <1>1, <1>3, NextField
<1> HIDE DEF key
<1>5. key \in NumberKeys /\ ~ParsesBounded(entered[key], key)
  BY <1>1, <1>4 DEF Invalid
<1>6. DOMAIN entered = ToSet(keys)
  BY <1>3 DEF Taking
<1>7. ~Acceptable
  BY <1>4, <1>5, <1>6, ParsesIff DEF Acceptable
<1>8. AllOrNothing'
  BY <1>1, <1>7 DEF TakeInv, AllOrNothing, Acceptable
<1>9. DOMAIN config' = Fields
  BY <1>1, BaseDomain DEF TakeInv
<1>10. FormInv' /\ EnteredInv' /\ FormStored'
  BY <1>1 DEF TakeInv, FormInv, EnteredInv, FormStored
<1>11. QED
  BY <1>1, <1>8, <1>9, <1>10 DEF TakeInv

(* A form is stored when all of its fields were taken. *)
LEMMA StoreTaking ==
  ASSUME TakeInv, Store
  PROVE  TakeInv'
<1>1. /\ result = "taking" /\ body = <<>>
      /\ stored' = config /\ result' = "200"
      /\ UNCHANGED <<flash_config, body, config, entered>>
  BY DEF Store
<1>2. PICK keys \in Forms, tail \in Tails :
        \E n \in 0 .. Len(keys) : Taking(keys, tail, n)
  BY <1>1 DEF TakeInv
<1>3. PICK n \in 0 .. Len(keys) : Taking(keys, tail, n)
  BY <1>2
<1>4. entered \in [ToSet(keys) -> Seq(Chars)] /\ DOMAIN entered = ToSet(keys)
  BY <1>3 DEF Taking
<1>5. n = 0
  <2> SUFFICES ASSUME n # 0
               PROVE  FALSE
    OBVIOUS
  <2>1. n \in 1 .. Len(keys)
    BY FormKeys
  <2>2. body = Encode(entered, keys)[n] \o tail
    BY <1>3 DEF Taking
  <2>3. IsForm(entered, keys)
    BY <1>4, EnteredForm
  <2>4. body # <<>>
    BY <2>1, <2>2, <2>3, FirstPair
  <2>5. QED
    BY <1>1, <2>4
<1>6. Taken(keys, n) = DOMAIN entered
  BY <1>4, <1>5, FormKeys DEF Taken
<1>7. /\ \A key \in Fields :
           config[key] = IF key \in DOMAIN entered
                         THEN FieldValue(key, entered[key]) ELSE Base[key]
      /\ \A key \in DOMAIN entered \cap NumberKeys :
           ParsesBounded(entered[key], key)
  BY <1>3, <1>6 DEF Taking
<1>8. DOMAIN config = Fields /\ Base' = Base
  BY <1>1 DEF TakeInv, Base
<1>9. Acceptable
  BY <1>4, <1>7, ParsesIff DEF Acceptable
<1>10. AllOrNothing'
  BY <1>1, <1>9 DEF AllOrNothing, Acceptable
<1>11. FormStored'
  <2>1. ASSUME NEW key \in Fields
        PROVE  IF key \in DOMAIN entered
               THEN StandsFor(config[key], key, entered[key])
               ELSE config[key] = Base[key]
    <3>1. CASE key \notin DOMAIN entered
      BY <1>7, <3>1
    <3>2. CASE key \in DOMAIN entered
      <4>1. config[key] = FieldValue(key, entered[key])
        BY <1>7, <3>2
      <4>2. entered[key] \in Seq(Chars)
        BY <1>4, <3>2
      <4>3. key \in NumberKeys => ParsesBounded(entered[key], key)
        BY <1>7, <3>2
      <4>4. EnteredInv
        BY DEF TakeInv
      <4>5. StandsFor(FieldValue(key, entered[key]), key, entered[key])
        BY <3>2, <4>2, <4>3, <4>4, ValueStored
      <4>6. QED
        BY <3>2, <4>1, <4>5
    <3>3. QED
      BY <3>1, <3>2
  <2>2. QED
    BY <1>1, <1>8, <2>1 DEF FormStored, StandsFor
<1>12. FormInv' /\ EnteredInv' /\ DOMAIN config' = Fields
  BY <1>1, <1>8 DEF TakeInv, FormInv, EnteredInv
<1>13. QED
  BY <1>1, <1>10, <1>11, <1>12 DEF TakeInv

(* Every step keeps the invariant: one case per action. *)
LEMMA TakeNext == TakeInv /\ [Next]_vars => TakeInv'
<1> SUFFICES ASSUME TakeInv, [Next]_vars
             PROVE  TakeInv'
  OBVIOUS
<1>1. CASE Submit
  BY <1>1, SubmitTaking
<1>2. CASE TakePair
  BY <1>2, TakePairTaking
<1>3. CASE Reject
  BY <1>3, RejectTaking
<1>4. CASE Store
  BY <1>4, StoreTaking
<1>5. CASE UNCHANGED vars
  <2>1. UNCHANGED <<flash_config, stored, body, config, result, entered>>
    BY <1>5 DEF vars
  <2>2. Base' = Base
    BY <2>1 DEF Base
  <2>3. \A keys, tail, n : Taking(keys, tail, n) => Taking(keys, tail, n)'
    BY <2>1, <2>2 DEF Taking
  <2>4. QED
    BY <2>1, <2>2, <2>3 DEF TakeInv, FormInv, EnteredInv, AllOrNothing,
      Acceptable, FormStored
<1>6. QED
  BY <1>1, <1>2, <1>3, <1>4, <1>5 DEF Next, Rebooted

(* A form is taken as a whole or not at all: tcp_server_recv answers 400,  *)
(* and leaves the flash as it was, for a form with a number out of bounds, *)
(* and for no other (wifi.c:453-497).                                      *)
THEOREM FormAllOrNothing == Spec => []AllOrNothing
<1>1. TakeInv => AllOrNothing
  BY DEF TakeInv
<1>2. QED
  BY TakeInit, TakeNext, <1>1, PTL DEF Spec

(* What goes to flash is what was typed, whatever characters it has, and   *)
(* the other fields stay as they were (wifi.c:268-293, 412-500).           *)
THEOREM WhatWasTyped == Spec => []FormStored
<1>1. TakeInv => FormStored
  BY DEF TakeInv
<1>2. QED
  BY TakeInit, TakeNext, <1>1, PTL DEF Spec
=============================================================================
