------------------------------ MODULE ApServer ------------------------------
(***************************************************************************)
(* The web server of the configuration access point (wifi.c): a fixed      *)
(* table of connection states that lwIP's callbacks share, a request       *)
(* collected packet by packet in a buffer, and the loop of                 *)
(* start_wifi_access_point, which waits for a form to be stored.  lwIP and *)
(* the browsers are the environment.                                       *)
(*                                                                         *)
(* A request is a sequence of pieces that TCP may cut anywhere between     *)
(* two of them; what the buffer holds of it is always a prefix, so the     *)
(* number of pieces stands for the text.                                   *)
(***************************************************************************)
EXTENDS Integers, FiniteSets

CONSTANTS
  Clients,         \* TCP connections (client_pcb) a browser may open
  NoClient,        \* NULL
  MaxConnections,  \* TCP_IP_MAX_CONNECTIONS
  BufferPieces,    \* TCP_IP_BUFFER_SIZE, in pieces
  Requests,        \* what a browser may send
  NoRequest        \* nothing

(* method; content_length: announced and well formed, malformed, or not    *)
(* announced in the spelling the server looks for; body: pieces of the     *)
(* form; extra: pieces after it; valid: every number is within its bounds. *)
Request == [method : {"POST", "GET_CONFIG", "GET_OTHER"},
            content_length : {"ok", "bad", "none"},
            body : Nat, extra : Nat, valid : BOOLEAN]

ASSUME ApAssumption ==
  /\ NoClient \notin Clients
  /\ MaxConnections \in Nat \ {0}
  /\ BufferPieces \in Nat
  /\ Requests \subseteq Request
  /\ NoRequest \notin Requests

Slots == 1 .. MaxConnections

VARIABLES
  phase,              \* start_wifi_access_point: starting, waiting, returned
  complete,           \* server_state.complete
  active_connections, \* server_state.active_connections
  connections,        \* server_state.connections
  arg,                \* lwIP: the slot tcp_arg gave the client, 0 for NULL
  request,            \* environment: what the client sends on its connection
  sent,               \* environment: pieces of it that have arrived
  queued,             \* lwIP: pieces of the answers not yet acknowledged
  stored              \* history: the form last stored, as [request, pieces]

server == <<complete, active_connections, connections>>
network == <<arg, request, sent, queued>>
vars == <<phase, server, network, stored>>

-----------------------------------------------------------------------------
(* Connection states. *)

(* A zeroed tcp_connect_state_t.  answer: the buffer holds the headers of  *)
(* an answer, which the server builds over the request.                    *)
FreeState == [pcb |-> NoClient, pieces |-> 0, answer |-> FALSE,
              header_len |-> 0, result_len |-> 0, sent_len |-> 0]

ConnectState == [pcb : Clients \cup {NoClient}, pieces : Nat, answer : BOOLEAN,
                 header_len : Nat, result_len : Nat, sent_len : Nat]

NoForm == [request |-> NoRequest, pieces |-> 0]

Open(c) == arg[c] # 0

Free(s) == connections[s].pcb = NoClient

(* A bug: the slot is not given back. *)
MutantSlotStaysTaken(c) ==
  /\ active_connections' = active_connections - 1
  /\ arg' = [arg EXCEPT ![c] = 0]
  /\ request' = [request EXCEPT ![c] = NoRequest]
  /\ sent' = [sent EXCEPT ![c] = 0]
  /\ queued' = [queued EXCEPT ![c] = 0]
  /\ UNCHANGED connections

(* tcp_close_client_connection: the counter goes down, the callbacks are   *)
(* taken off the pcb, which is closed or aborted, and the slot is zeroed.  *)
CloseClient(c) ==
  /\ active_connections' = active_connections - 1
  /\ connections' = [connections EXCEPT ![arg[c]] = FreeState]
  /\ arg' = [arg EXCEPT ![c] = 0]
  /\ request' = [request EXCEPT ![c] = NoRequest]
  /\ sent' = [sent EXCEPT ![c] = 0]
  /\ queued' = [queued EXCEPT ![c] = 0]

-----------------------------------------------------------------------------
(* tcp_server_accept. *)

Listening(c) == phase = "serving" /\ ~Open(c)

(* A bug: tcp_arg is given the table instead of the slot in it. *)
MutantArgIsTable(c, r, s) ==
  /\ connections' = [connections EXCEPT ![s] = [FreeState EXCEPT !.pcb = c]]
  /\ arg' = [arg EXCEPT ![c] = 1]
  /\ request' = [request EXCEPT ![c] = r]
  /\ UNCHANGED <<sent, queued>>

Connect(c, r, s) ==
  /\ connections' = [connections EXCEPT ![s] = [FreeState EXCEPT !.pcb = c]]
  /\ arg' = [arg EXCEPT ![c] = s]
  /\ request' = [request EXCEPT ![c] = r]
  /\ UNCHANGED <<sent, queued>>

(* The first slot without a pcb. *)
FirstFree(s) == Free(s) /\ \A t \in Slots : t < s => ~Free(t)

(* The counter goes up.  Without a free slot the client is turned away and *)
(* the counter stays up; CountMatches shows that this never happens.       *)
Accept(c, r) ==
  /\ Listening(c)
  /\ active_connections < MaxConnections
  /\ active_connections' = active_connections + 1
  /\ IF \E s \in Slots : Free(s)
     THEN \E s \in Slots : FirstFree(s) /\ Connect(c, r, s)
     ELSE UNCHANGED <<connections, network>>
  /\ UNCHANGED <<phase, complete, stored>>

(* A bug: the counter is not taken back when a client is turned away. *)
MutantRefuseCounts(c) ==
  /\ Listening(c)
  /\ active_connections = MaxConnections
  /\ active_connections' = active_connections + 1
  /\ UNCHANGED <<phase, complete, connections, network, stored>>

(* The table is full: the counter goes up and down again. *)
AcceptRefused(c) ==
  /\ Listening(c)
  /\ active_connections >= MaxConnections
  /\ UNCHANGED vars

-----------------------------------------------------------------------------
(* tcp_server_recv.  A POST consists of its first line, the beginning and  *)
(* the end of the Content-Length line (if it has one), the empty line, the *)
(* form and what follows; a GET of its beginning, the first line break and *)
(* the other headers.                                                      *)

LengthBegins == 2
LengthEnds == 3

HeaderEnd(r) == IF r.content_length = "none" THEN 2 ELSE 4
FormEnd(r) == HeaderEnd(r) + r.body
Pieces(r) == IF r.method = "POST" THEN FormEnd(r) + r.extra ELSE 3

(* A bug: the form is taken as soon as the headers are complete. *)
MutantNoWait(r) == 0

(* The body the server waits for. *)
Expected(r) == IF r.content_length = "ok" THEN r.body ELSE 0

(* What the server does with the first n pieces of request r. *)
Route(r, n) ==
  IF r.method = "POST"
  THEN CASE r.content_length # "none" /\ n = LengthBegins -> "close"
         [] r.content_length = "bad" /\ n >= LengthEnds -> "close"
         [] n < HeaderEnd(r) + Expected(r) -> "wait"
         [] ~r.valid /\ n >= FormEnd(r) -> "bad_request"
         [] OTHER -> "store"
  ELSE CASE n < 2 -> "wait"
         [] r.method = "GET_CONFIG" -> "form"
         [] OTHER -> "redirect"

(* The slot after a packet of k pieces: what does not fit is dropped. *)
Received(state, k) ==
  IF state.answer THEN state
  ELSE [state EXCEPT !.pieces =
          IF @ + k > BufferPieces THEN BufferPieces ELSE @ + k]

RouteOf(c, state) ==
  IF state.answer THEN "redirect" ELSE Route(request[c], state.pieces)

(* The state goes back into the slot, and n pieces to tcp_write: the       *)
(* headers, the form's page, or a text of one piece whose length nobody    *)
(* counts.                                                                 *)
Answer(c, k, state, n) ==
  /\ connections' = [connections EXCEPT ![arg[c]] = state]
  /\ sent' = [sent EXCEPT ![c] = @ + k]
  /\ queued' = [queued EXCEPT ![c] = @ + n]
  /\ UNCHANGED <<active_connections, arg, request>>

(* A packet of k pieces. *)
Recv(c, k) ==
  LET state == Received(connections[arg[c]], k)
      route == RouteOf(c, state)
      headers == [state EXCEPT !.answer = TRUE, !.header_len = 1]
  IN
  /\ phase = "serving" /\ Open(c)
  /\ sent[c] + k <= Pieces(request[c])
  /\ CASE route = "wait" -> Answer(c, k, state, 0)
       [] route = "close" -> CloseClient(c)
       [] route \in {"bad_request", "store"} -> Answer(c, k, state, 1)
       [] route = "redirect" -> Answer(c, k, headers, 1)
       [] route = "form" ->
            Answer(c, k, [headers EXCEPT !.result_len = 1], 2)
  /\ complete' = (complete \/ route = "store")
  /\ stored' = IF route = "store"
               THEN [request |-> request[c], pieces |-> state.pieces]
               ELSE stored
  /\ UNCHANGED phase

-----------------------------------------------------------------------------
(* The other callbacks of a connection. *)

(* tcp_server_sent: n pieces are acknowledged. *)
Sent(c, n) ==
  LET state == [connections[arg[c]] EXCEPT !.sent_len = @ + n]
  IN
  /\ phase = "serving" /\ Open(c)
  /\ n <= queued[c]
  /\ IF state.sent_len >= state.header_len + state.result_len
     THEN CloseClient(c)
     ELSE /\ connections' = [connections EXCEPT ![arg[c]] = state]
          /\ queued' = [queued EXCEPT ![c] = @ - n]
          /\ UNCHANGED <<active_connections, arg, request, sent>>
  /\ UNCHANGED <<phase, complete, stored>>

(* tcp_server_recv without a pbuf (the client closes), tcp_server_poll and *)
(* tcp_server_err.                                                         *)
Hangup(c) ==
  /\ phase = "serving" /\ Open(c)
  /\ CloseClient(c)
  /\ UNCHANGED <<phase, complete, stored>>

ClientCloses(c) == Hangup(c)

(* A bug: a connection whose answer is not yet acknowledged is kept. *)
MutantPollKeeps(c) == queued[c] = 0 /\ Hangup(c)

Poll(c) == Hangup(c)
Err(c) == Hangup(c)

-----------------------------------------------------------------------------
(* start_wifi_access_point. *)

Cleared ==
  /\ complete' = FALSE
  /\ active_connections' = 0
  /\ connections' = [s \in Slots |-> FreeState]

(* The radio, the form or the listening socket fails, or all of them come  *)
(* up.                                                                     *)
Start ==
  /\ phase = "start"
  /\ phase' \in {"returned", "serving"}
  /\ Cleared
  /\ UNCHANGED <<network, stored>>

(* A bug: the loop waits until every client is gone as well. *)
MutantDrains ==
  /\ phase = "serving" /\ complete /\ active_connections = 0
  /\ phase' = "returned"
  /\ UNCHANGED <<server, network, stored>>

(* The loop wakes up, finds a form stored and shuts the access point down. *)
LoopEnds ==
  /\ phase = "serving" /\ complete
  /\ phase' = "returned"
  /\ UNCHANGED <<server, network, stored>>

(* Every caller reboots; the next run starts afresh. *)
Reboot ==
  /\ phase = "returned"
  /\ phase' = "start"
  /\ Cleared
  /\ arg' = [c \in Clients |-> 0]
  /\ request' = [c \in Clients |-> NoRequest]
  /\ sent' = [c \in Clients |-> 0]
  /\ queued' = [c \in Clients |-> 0]
  /\ stored' = NoForm

Init ==
  /\ phase = "start"
  /\ complete = FALSE
  /\ active_connections = 0
  /\ connections = [s \in Slots |-> FreeState]
  /\ arg = [c \in Clients |-> 0]
  /\ request = [c \in Clients |-> NoRequest]
  /\ sent = [c \in Clients |-> 0]
  /\ queued = [c \in Clients |-> 0]
  /\ stored = NoForm

(* The most pieces one packet or one acknowledgement can hold. *)
MaxPieces == BufferPieces + 1

ClientStep(c) ==
  \/ \E r \in Requests : Accept(c, r)
  \/ AcceptRefused(c)
  \/ \E k \in 1 .. MaxPieces : Recv(c, k) \/ Sent(c, k)
  \/ ClientCloses(c)
  \/ Poll(c)
  \/ Err(c)

Next == Start \/ LoopEnds \/ Reboot \/ \E c \in Clients : ClientStep(c)

Spec == Init /\ [][Next]_vars

(* The loop wakes up every second, and lwIP polls every connection.  Of    *)
(* the browsers nothing is assumed.                                        *)
FairSpec ==
  /\ Spec
  /\ WF_vars(Start) /\ WF_vars(LoopEnds) /\ WF_vars(Reboot)
  /\ \A c \in Clients : WF_vars(Poll(c))

-----------------------------------------------------------------------------
(* Properties. *)

(* TypeOK: the counter stays within the table and tcp_arg within the       *)
(* slots; the lengths of tcp_connect_state_t never go below zero.          *)
TypeOK ==
  /\ phase \in {"start", "serving", "returned"}
  /\ complete \in BOOLEAN
  /\ active_connections \in 0 .. MaxConnections
  /\ connections \in [Slots -> ConnectState]
  /\ arg \in [Clients -> {0} \cup Slots]
  /\ request \in [Clients -> Requests \cup {NoRequest}]
  /\ sent \in [Clients -> Nat]
  /\ queued \in [Clients -> Nat]
  /\ stored \in [request : Requests \cup {NoRequest}, pieces : Nat]

(* CountMatches: active_connections is the number of slots in use, so the  *)
(* table never fills up with connections nobody serves, and tcp_server_    *)
(* accept (wifi.c:189-208) never counts a client it has no slot for.       *)
CountMatches == active_connections = Cardinality({s \in Slots : ~Free(s)})

(* SlotsOwned: a slot in use belongs to the one client whose callbacks     *)
(* point at it, and its buffer holds nothing of an earlier client          *)
(* (wifi.c:123-131, 210-217).                                              *)
SlotsOwned ==
  /\ \A c \in Clients : Open(c) => connections[arg[c]].pcb = c
  /\ \A s \in Slots : ~Free(s) =>
       LET c == connections[s].pcb
       IN arg[c] = s /\ connections[s].pieces <= sent[c]

(* FormWhole: when a browser announces the length of its form, only the    *)
(* whole of it, with every number in bounds, is stored, however TCP cuts   *)
(* and delays the packets and whatever other clients do (wifi.c:373-405,   *)
(* 502-512).                                                               *)
FormWhole ==
  stored # NoForm /\ stored.request.content_length = "ok"
    => stored.pieces >= FormEnd(stored.request) /\ stored.request.valid

(* TableDrains: a full table is a passing state: idle connections are      *)
(* polled away and their slots come back (wifi.c:164-169).                 *)
TableDrains == (active_connections = MaxConnections)
                 ~> (active_connections < MaxConnections)

(* SaveEnds: a stored form ends the access point, whatever the clients go  *)
(* on doing (wifi.c:512, 597-600).                                         *)
SaveEnds == (phase = "serving" /\ complete) ~> (phase = "returned")
=============================================================================
