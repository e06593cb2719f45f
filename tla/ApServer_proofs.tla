-------------------------- MODULE ApServer_proofs ---------------------------
(***************************************************************************)
(* ApServer's safety invariants for any number of clients, any size of the *)
(* table and of the buffer, and any requests.  The counter needs to know   *)
(* whose the slots are: a connection may only take back what it was        *)
(* counted for if its slot is in use, and that rests on every open client  *)
(* owning the slot its callbacks point at.                                 *)
(***************************************************************************)
EXTENDS ApServer, FiniteSetTheorems, TLAPS

Used == {s \in Slots : connections[s].pcb # NoClient}

DataInv ==
  /\ connections \in [Slots -> ConnectState]
  /\ arg \in [Clients -> {0} \cup Slots]
  /\ request \in [Clients -> Requests \cup {NoRequest}]
  /\ sent \in [Clients -> Nat]
  /\ queued \in [Clients -> Nat]

(* Every open client owns its slot and has a request to send. *)
OwnInv ==
  /\ \A c \in Clients : arg[c] # 0 =>
       connections[arg[c]].pcb = c /\ request[c] \in Requests
  /\ \A s \in Slots : connections[s].pcb # NoClient =>
       /\ arg[connections[s].pcb] = s
       /\ connections[s].pieces <= sent[connections[s].pcb]

(* The phase, and that no connection outlives a reboot. *)
PhaseInv ==
  /\ phase \in {"start", "serving", "returned"}
  /\ phase = "start" => \A c \in Clients : arg[c] = 0

CountInv == active_connections = Cardinality(Used)

StoredInv ==
  \/ stored = NoForm
  \/ /\ stored \in [request : Requests, pieces : Nat]
     /\ stored.request.content_length = "ok"
          => stored.pieces >= FormEnd(stored.request) /\ stored.request.valid

TableInv == DataInv /\ OwnInv /\ CountInv

ApInv == TableInv /\ PhaseInv /\ complete \in BOOLEAN /\ StoredInv

-----------------------------------------------------------------------------
(* The table is finite, and so is the part of it in use. *)
LEMMA UsedFinite ==
  ASSUME NEW T \in SUBSET Slots
  PROVE  /\ IsFiniteSet(T)
         /\ Cardinality(T) \in 0 .. MaxConnections
         /\ Cardinality(T) = MaxConnections => T = Slots
<1>1. IsFiniteSet(Slots) /\ Cardinality(Slots) = MaxConnections
  BY FS_Interval, ApAssumption DEF Slots
<1>2. IsFiniteSet(T) /\ Cardinality(T) <= Cardinality(Slots)
      /\ (Cardinality(T) = Cardinality(Slots) => T = Slots)
  BY <1>1, FS_Subset
<1>3. Cardinality(T) \in Nat
  BY <1>2, FS_CardinalityType
<1> QED
  BY <1>1, <1>2, <1>3, ApAssumption

(* A zeroed slot is a connection state without a client. *)
LEMMA FreeStateType == FreeState \in ConnectState /\ FreeState.pcb = NoClient
  BY DEF FreeState, ConnectState

(* A packet leaves the owner of the slot alone and adds at most its pieces *)
(* to the buffer.                                                          *)
LEMMA ReceivedType ==
  ASSUME NEW state \in ConnectState, NEW k \in Nat
  PROVE  /\ Received(state, k) \in ConnectState
         /\ Received(state, k).pcb = state.pcb
         /\ Received(state, k).pieces <= state.pieces + k
  BY ApAssumption DEF Received, ConnectState

-----------------------------------------------------------------------------
(* The four things a step can do to the table. *)

(* Closing a client gives back one slot that was in use. *)
LEMMA CloseStep ==
  ASSUME TableInv, NEW c \in Clients, Open(c), CloseClient(c)
  PROVE  TableInv'
<1> USE DEF TableInv
<1>1. arg[c] \in Slots /\ connections[arg[c]].pcb = c /\ c # NoClient
  BY ApAssumption DEF DataInv, OwnInv, Open, Slots
<1>2. DataInv'
  BY <1>1, FreeStateType, ApAssumption DEF CloseClient, DataInv, Slots
<1>3. \A s \in Slots : connections'[s] =
        IF s = arg[c] THEN FreeState ELSE connections[s]
  BY <1>1 DEF CloseClient, DataInv
<1>4. \A d \in Clients : arg'[d] = (IF d = c THEN 0 ELSE arg[d])
        /\ (d # c => request'[d] = request[d] /\ sent'[d] = sent[d])
  BY DEF CloseClient, DataInv
<1>5. OwnInv'
  <2>1. ASSUME NEW d \in Clients, arg'[d] # 0
        PROVE  connections'[arg'[d]].pcb = d /\ request'[d] \in Requests
    BY <2>1, <1>1, <1>3, <1>4 DEF OwnInv, DataInv
  <2>2. ASSUME NEW s \in Slots, connections'[s].pcb # NoClient
        PROVE  /\ arg'[connections'[s].pcb] = s
               /\ connections'[s].pieces <= sent'[connections'[s].pcb]
    <3>1. s # arg[c] /\ connections'[s] = connections[s]
      BY <2>2, <1>3, FreeStateType
    <3>2. connections[s].pcb \in Clients /\ connections[s].pcb # c
      BY <2>2, <3>1 DEF OwnInv, DataInv, ConnectState
    <3> QED
      BY <2>2, <3>1, <3>2, <1>4 DEF OwnInv
  <2> QED
    BY <2>1, <2>2 DEF OwnInv
<1>6. Used' = Used \ {arg[c]} /\ arg[c] \in Used
  BY <1>1, <1>3, FreeStateType DEF Used
<1>7. CountInv'
  <2>1. Used \in SUBSET Slots
    BY DEF Used
  <2>2. Cardinality(Used \ {arg[c]}) = Cardinality(Used) - 1
    BY <1>6, <2>1, UsedFinite, FS_RemoveElement
  <2> QED
    BY <1>6, <2>2 DEF CountInv, CloseClient
<1> QED
  BY <1>2, <1>5, <1>7

(* A new state in a client's own slot changes neither owner nor counter. *)
LEMMA UpdateStep ==
  ASSUME TableInv, NEW c \in Clients, Open(c),
         NEW state \in ConnectState, state.pcb = c,
         NEW k \in Nat, state.pieces <= sent[c] + k,
         connections' = [connections EXCEPT ![arg[c]] = state],
         sent' = [sent EXCEPT ![c] = @ + k],
         queued' \in [Clients -> Nat],
         UNCHANGED <<active_connections, arg, request>>
  PROVE  TableInv'
<1> USE DEF TableInv
<1>1. arg[c] \in Slots /\ connections[arg[c]].pcb = c /\ c # NoClient
  BY ApAssumption DEF DataInv, OwnInv, Open, Slots
<1>2. DataInv'
  <2>1. connections' \in [Slots -> ConnectState]
    BY <1>1 DEF DataInv
  <2>2. sent' \in [Clients -> Nat]
    BY DEF DataInv
  <2> QED
    BY <2>1, <2>2 DEF DataInv
<1>3. \A s \in Slots : connections'[s] =
        IF s = arg[c] THEN state ELSE connections[s]
  BY <1>1 DEF DataInv
<1>4. \A d \in Clients : sent'[d] = IF d = c THEN sent[c] + k ELSE sent[d]
  BY DEF DataInv
<1>5. OwnInv'
  <2>1. ASSUME NEW d \in Clients, arg'[d] # 0
        PROVE  connections'[arg'[d]].pcb = d /\ request'[d] \in Requests
    BY <2>1, <1>1, <1>3 DEF OwnInv, DataInv
  <2>2. ASSUME NEW s \in Slots, connections'[s].pcb # NoClient
        PROVE  /\ arg'[connections'[s].pcb] = s
               /\ connections'[s].pieces <= sent'[connections'[s].pcb]
    <3>1. CASE s = arg[c]
      BY <3>1, <1>3, <1>4
    <3>2. CASE s # arg[c]
      <4>1. connections'[s] = connections[s]
        BY <3>2, <1>3
      <4>2. connections[s].pcb \in Clients /\ connections[s].pcb # c
        BY <2>2, <3>2, <4>1 DEF OwnInv, DataInv, ConnectState
      <4> QED
        BY <2>2, <4>1, <4>2, <1>4 DEF OwnInv
    <3> QED
      BY <3>1, <3>2
  <2> QED
    BY <2>1, <2>2 DEF OwnInv
<1>6. Used' = Used
  BY <1>1, <1>3 DEF Used
<1> QED
  BY <1>2, <1>5, <1>6 DEF CountInv

(* A new client is counted and gets a slot that was free: the counter says *)
(* that there is one.                                                      *)
LEMMA AcceptStep ==
  ASSUME TableInv, NEW c \in Clients, NEW r \in Requests, Accept(c, r)
  PROVE  TableInv'
<1> USE DEF TableInv
<1>1. Used \in SUBSET Slots
  BY DEF Used
<1>2. Used # Slots
  BY <1>1, UsedFinite, FS_Interval, ApAssumption DEF Accept, CountInv, Slots
<1>3. PICK s \in Slots : Free(s) /\ Connect(c, r, s)
  BY <1>2 DEF Accept, Used, Free, FirstFree
<1>4. c # NoClient /\ connections[s].pcb = NoClient /\ s # 0 /\ arg[c] = 0
  BY <1>3, ApAssumption DEF Free, Slots, Accept, Listening, Open
<1>5. DataInv'
  <2>1. [FreeState EXCEPT !.pcb = c] \in ConnectState
    BY FreeStateType DEF ConnectState
  <2> QED
    BY <1>3, <2>1 DEF Connect, DataInv
<1>6. \A t \in Slots : connections'[t] =
        IF t = s THEN [FreeState EXCEPT !.pcb = c] ELSE connections[t]
  BY <1>3 DEF Connect, DataInv
<1>7. \A d \in Clients : arg'[d] = (IF d = c THEN s ELSE arg[d])
        /\ request'[d] = (IF d = c THEN r ELSE request[d])
        /\ sent'[d] = sent[d]
  BY <1>3 DEF Connect, DataInv
<1>8. [FreeState EXCEPT !.pcb = c].pcb = c
      /\ [FreeState EXCEPT !.pcb = c].pieces = 0
  BY DEF FreeState
<1>9. OwnInv'
  <2>1. ASSUME NEW d \in Clients, arg'[d] # 0
        PROVE  connections'[arg'[d]].pcb = d /\ request'[d] \in Requests
    <3>1. CASE d = c
      BY <3>1, <1>6, <1>7, <1>8
    <3>2. CASE d # c
      BY <3>2, <2>1, <1>4, <1>6, <1>7, ApAssumption DEF OwnInv, DataInv
    <3> QED
      BY <3>1, <3>2
  <2>2. ASSUME NEW t \in Slots, connections'[t].pcb # NoClient
        PROVE  /\ arg'[connections'[t].pcb] = t
               /\ connections'[t].pieces <= sent'[connections'[t].pcb]
    <3>1. CASE t = s
      <4>1. connections'[t].pcb = c /\ connections'[t].pieces = 0
        BY <3>1, <1>6, <1>8
      <4>2. arg'[c] = s /\ sent'[c] \in Nat
        BY <1>7 DEF DataInv
      <4> QED
        BY <3>1, <4>1, <4>2
    <3>2. CASE t # s
      <4>1. connections'[t] = connections[t]
        BY <3>2, <1>6
      <4>2. connections[t].pcb \in Clients /\ connections[t].pcb # c
        <5>1. connections[t].pcb \in Clients
          BY <2>2, <4>1 DEF DataInv, ConnectState
        <5>2. arg[connections[t].pcb] = t /\ t # 0
          BY <2>2, <4>1, ApAssumption DEF OwnInv, Slots
        <5> QED
          BY <5>1, <5>2, <1>4
      <4> QED
        BY <2>2, <4>1, <4>2, <1>7 DEF OwnInv
    <3> QED
      BY <3>1, <3>2
  <2> QED
    BY <2>1, <2>2 DEF OwnInv
<1>10. Used' = Used \cup {s} /\ s \notin Used
  BY <1>4, <1>6, <1>8 DEF Used
<1>11. CountInv'
  <2>1. Cardinality(Used \cup {s}) = Cardinality(Used) + 1
    BY <1>1, <1>10, UsedFinite, FS_AddElement
  <2> QED
    BY <2>1, <1>10 DEF CountInv, Accept
<1> QED
  BY <1>5, <1>9, <1>11

(* An empty table. *)
LEMMA ClearedStep ==
  ASSUME Cleared, \A c \in Clients : arg'[c] = 0,
         arg' \in [Clients -> {0} \cup Slots],
         request' \in [Clients -> Requests \cup {NoRequest}],
         sent' \in [Clients -> Nat], queued' \in [Clients -> Nat]
  PROVE  TableInv'
<1>1. DataInv'
  BY FreeStateType DEF Cleared, DataInv
<1>2. \A s \in Slots : connections'[s].pcb = NoClient
  BY FreeStateType DEF Cleared
<1>3. Used' = {}
  BY <1>2 DEF Used
<1>4. CountInv'
  BY <1>3, FS_EmptySet DEF CountInv, Cleared
<1> QED
  BY <1>1, <1>2, <1>4 DEF TableInv, OwnInv

-----------------------------------------------------------------------------
(* The initial state satisfies the invariant. *)
LEMMA InitAp == Init => ApInv
<1> SUFFICES ASSUME Init PROVE ApInv
  OBVIOUS
<1>1. DataInv
  BY FreeStateType DEF Init, DataInv
<1>2. \A s \in Slots : connections[s].pcb = NoClient
  BY FreeStateType DEF Init
<1>3. Used = {}
  BY <1>2 DEF Used
<1>4. CountInv
  BY <1>3, FS_EmptySet DEF CountInv, Init
<1>5. OwnInv
  BY <1>2 DEF Init, OwnInv
<1> QED
  BY <1>1, <1>4, <1>5 DEF Init, ApInv, TableInv, PhaseInv, StoredInv

(* A packet stores a form only once all of it has come. *)
LEMMA StoreStep ==
  ASSUME ApInv, NEW c \in Clients, NEW k \in 1 .. MaxPieces, Recv(c, k)
  PROVE  StoredInv'
<1> DEFINE state == Received(connections[arg[c]], k)
<1>1. Open(c) /\ arg[c] \in Slots /\ request[c] \in Requests
  BY DEF Recv, ApInv, TableInv, DataInv, OwnInv, Open
<1>2. state.pieces \in Nat
  <2>1. connections[arg[c]] \in ConnectState /\ k \in Nat
    BY <1>1, ApAssumption DEF ApInv, TableInv, DataInv, MaxPieces
  <2> QED
    BY <2>1, ReceivedType DEF ConnectState
<1>3. request[c] \in Request
  BY <1>1, ApAssumption
<1>4. CASE RouteOf(c, state) = "store"
  <2>1. stored' = [request |-> request[c], pieces |-> state.pieces]
    BY <1>4 DEF Recv
  <2>2. Route(request[c], state.pieces) = "store"
    BY <1>4 DEF RouteOf
  <2>3. request[c].content_length = "ok"
          => state.pieces >= FormEnd(request[c]) /\ request[c].valid
    <3> HIDE DEF state
    <3> QED
      BY <1>2, <1>3, <2>2 DEF Route, Request, FormEnd, HeaderEnd, Expected
  <2> QED
    BY <1>1, <1>2, <2>1, <2>3 DEF StoredInv
<1>5. CASE RouteOf(c, state) # "store"
  BY <1>5 DEF Recv, ApInv, StoredInv
<1> QED
  BY <1>4, <1>5

(* A packet keeps the table consistent, whichever way it is routed. *)
LEMMA RecvStep ==
  ASSUME ApInv, NEW c \in Clients, NEW k \in 1 .. MaxPieces, Recv(c, k)
  PROVE  TableInv'
<1> DEFINE state == Received(connections[arg[c]], k)
           headers == [state EXCEPT !.answer = TRUE, !.header_len = 1]
           page == [headers EXCEPT !.result_len = 1]
<1>1. Open(c) /\ arg[c] \in Slots /\ k \in Nat /\ TableInv
      /\ connections[arg[c]] \in ConnectState
      /\ connections[arg[c]].pcb = c
      /\ connections[arg[c]].pieces <= sent[c] /\ sent[c] \in Nat
  BY ApAssumption
  DEF Recv, ApInv, TableInv, DataInv, OwnInv, Open, MaxPieces
<1>2. state \in ConnectState /\ state.pcb = c /\ state.pieces <= sent[c] + k
  <2>1. state \in ConnectState /\ state.pcb = connections[arg[c]].pcb
        /\ state.pieces <= connections[arg[c]].pieces + k
    BY <1>1, ReceivedType
  <2>2. state.pieces \in Nat /\ connections[arg[c]].pieces \in Nat
    BY <1>1, <2>1 DEF ConnectState
  <2> QED
    BY <1>1, <2>1, <2>2
<1> HIDE DEF state
<1>3. headers \in ConnectState /\ headers.pcb = c
      /\ headers.pieces <= sent[c] + k
  BY <1>2 DEF ConnectState
<1>4. page \in ConnectState /\ page.pcb = c /\ page.pieces <= sent[c] + k
  BY <1>2 DEF ConnectState
<1>5. \/ CloseClient(c)
      \/ \E n \in 0 .. 2 : \/ Answer(c, k, state, n)
                          \/ Answer(c, k, headers, n)
                          \/ Answer(c, k, page, n)
  <2>1. RouteOf(c, state) \in {"wait", "close", "bad_request", "store",
                              "form", "redirect"}
    BY DEF RouteOf, Route
  <2> DEFINE route == RouteOf(c, state)
  <2>2. CASE route = "wait"
    <3>1. Answer(c, k, state, 0)
      BY <2>2 DEF Recv, state
    <3> QED
      BY <3>1
  <2>6. CASE route \in {"bad_request", "store"}
    <3>1. Answer(c, k, state, 1)
      BY <2>6 DEF Recv, state
    <3> QED
      BY <3>1
  <2>3. CASE route = "close"
    BY <2>3 DEF Recv, state
  <2>4. CASE route = "redirect"
    BY <2>4 DEF Recv, state
  <2>5. CASE route = "form"
    BY <2>5 DEF Recv, state
  <2> QED
    BY <2>1, <2>2, <2>3, <2>4, <2>5, <2>6
<1> HIDE DEF headers, page
<1>6. ASSUME NEW n \in 0 .. 2, NEW new \in {state, headers, page},
             Answer(c, k, new, n)
      PROVE  TableInv'
  <2>1. queued' \in [Clients -> Nat]
    BY <1>1, <1>6 DEF Answer, TableInv, DataInv
  <2>2. new \in ConnectState /\ new.pcb = c /\ new.pieces <= sent[c] + k
    BY <1>2, <1>3, <1>4
  <2> QED
    BY <1>1, <1>6, <2>1, <2>2, UpdateStep DEF Answer
<1> QED
  BY <1>1, <1>5, <1>6, CloseStep

(* An acknowledgement closes the connection or counts what was sent. *)
LEMMA SentStep ==
  ASSUME ApInv, NEW c \in Clients, NEW n \in 1 .. MaxPieces, Sent(c, n)
  PROVE  TableInv'
<1> DEFINE state == [connections[arg[c]] EXCEPT !.sent_len = @ + n]
<1>1. Open(c) /\ arg[c] \in Slots /\ n \in Nat /\ TableInv
      /\ connections[arg[c]] \in ConnectState
      /\ connections[arg[c]].pcb = c
      /\ connections[arg[c]].pieces <= sent[c] /\ sent[c] \in Nat
  BY ApAssumption
  DEF Sent, ApInv, TableInv, DataInv, OwnInv, Open, MaxPieces
<1>2. state \in ConnectState /\ state.pcb = c /\ state.pieces <= sent[c] + 0
  BY <1>1 DEF ConnectState
<1>3. CASE CloseClient(c)
  BY <1>1, <1>3, CloseStep
<1>4. CASE /\ connections' = [connections EXCEPT ![arg[c]] = state]
           /\ queued' = [queued EXCEPT ![c] = @ - n]
           /\ UNCHANGED <<active_connections, arg, request, sent>>
  <2>1. queued' \in [Clients -> Nat]
    BY <1>1, <1>4 DEF Sent, TableInv, DataInv
  <2>2. sent' = [sent EXCEPT ![c] = @ + 0]
    BY <1>1, <1>4 DEF TableInv, DataInv
  <2> HIDE DEF state
  <2> QED
    BY <1>1, <1>2, <1>4, <2>1, <2>2, UpdateStep
<1> QED
  BY <1>3, <1>4 DEF Sent

(* Every step keeps the invariant. *)
LEMMA ApStep == ApInv /\ [Next]_vars => ApInv'
<1> SUFFICES ASSUME ApInv, [Next]_vars PROVE ApInv'
  OBVIOUS
<1>1. CASE Start
  <2>1. TableInv'
    BY <1>1, ClearedStep
    DEF Start, network, ApInv, TableInv, DataInv, PhaseInv
  <2> QED
    BY <1>1, <2>1
    DEF Start, Cleared, network, ApInv, PhaseInv, StoredInv
<1>2. CASE LoopEnds
  BY <1>2 DEF LoopEnds, server, network, ApInv, TableInv, DataInv, OwnInv,
              CountInv, Used, PhaseInv, StoredInv
<1>3. CASE Reboot
  <2>1. TableInv'
    BY <1>3, ClearedStep DEF Reboot
  <2> QED
    BY <1>3, <2>1 DEF Reboot, Cleared, ApInv, PhaseInv, StoredInv
<1>4. ASSUME NEW c \in Clients, NEW r \in Requests, Accept(c, r)
      PROVE  ApInv'
  BY <1>4, AcceptStep DEF Accept, Listening, ApInv, PhaseInv, StoredInv
<1>5. ASSUME NEW c \in Clients, NEW k \in 1 .. MaxPieces, Recv(c, k)
      PROVE  ApInv'
  <2>1. complete' \in BOOLEAN
    BY <1>5, Zenon DEF Recv
  <2> QED
    BY <1>5, <2>1, RecvStep, StoreStep DEF Recv, ApInv, PhaseInv
<1>6. ASSUME NEW c \in Clients, NEW k \in 1 .. MaxPieces, Sent(c, k)
      PROVE  ApInv'
  BY <1>6, SentStep DEF Sent, ApInv, PhaseInv, StoredInv
<1>7. ASSUME NEW c \in Clients, Hangup(c)
      PROVE  ApInv'
  BY <1>7, CloseStep DEF Hangup, ApInv, PhaseInv, StoredInv
<1>8. CASE UNCHANGED vars
  BY <1>8 DEF vars, server, network, ApInv, TableInv, DataInv, OwnInv,
              CountInv, Used, PhaseInv, StoredInv
<1> QED
  BY <1>1, <1>2, <1>3, <1>4, <1>5, <1>6, <1>7, <1>8
  DEF Next, ClientStep, ClientCloses, Poll, Err, AcceptRefused

(* The invariant holds in every reachable state. *)
LEMMA ApInvHolds == Spec => []ApInv
  BY InitAp, ApStep, PTL DEF Spec

-----------------------------------------------------------------------------
(* ApTypes: TypeOK in every reachable state; above all the counter stays   *)
(* within the size of the table (wifi.c:186-191).                          *)
THEOREM ApTypes == Spec => []TypeOK
<1>1. ApInv => TypeOK
  <2> SUFFICES ASSUME ApInv PROVE TypeOK
    OBVIOUS
  <2>1. active_connections \in 0 .. MaxConnections
    BY UsedFinite DEF ApInv, TableInv, CountInv, Used
  <2>2. stored \in [request : Requests \cup {NoRequest}, pieces : Nat]
    BY DEF ApInv, StoredInv, NoForm
  <2> QED
    BY <2>1, <2>2 DEF ApInv, TableInv, DataInv, PhaseInv, TypeOK
<1> QED
  BY ApInvHolds, <1>1, PTL

(* CounterExact: active_connections counts the slots in use, so that no    *)
(* order of connects, closes, errors and refusals can leak one             *)
(* (wifi.c:110-141, 177-208).                                              *)
THEOREM CounterExact == Spec => []CountMatches
<1>1. ApInv => CountMatches
  BY DEF ApInv, TableInv, CountInv, Used, CountMatches, Free
<1> QED
  BY ApInvHolds, <1>1, PTL

(* SlotsNeverShared: two clients never share a connection state, and a     *)
(* client never sees the buffer of another (wifi.c:195-217).               *)
THEOREM SlotsNeverShared == Spec => []SlotsOwned
<1>1. ApInv => SlotsOwned
  BY DEF ApInv, TableInv, OwnInv, SlotsOwned, Free, Open
<1> QED
  BY ApInvHolds, <1>1, PTL

(* WholeFormsOnly: a form of announced length is stored complete and valid *)
(* or not at all (wifi.c:372-405, 501-512).                                *)
THEOREM WholeFormsOnly == Spec => []FormWhole
<1>1. ApInv => FormWhole
  BY DEF ApInv, StoredInv, FormWhole
<1> QED
  BY ApInvHolds, <1>1, PTL
=============================================================================
