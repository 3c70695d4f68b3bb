----------------------------- MODULE Hub_proofs -----------------------------
(***************************************************************************)
(* The sockets of the hub, for any number of players, sockets and          *)
(* capacities.  That a channel is closed once is not inductive by itself:  *)
(* it rests on the agreement of sockets and registry, which needs to know  *)
(* that the socket registered for a player is one of that player's.        *)
(* What the players are told rests on the order of the broadcast channel   *)
(* and on the buffer of statistics.                                        *)
(***************************************************************************)
EXTENDS Hub, TLAPS

Chan == [open : BOOLEAN, queued : 0..SendCap, view : Nat,
         fits : BOOLEAN]

\* The socket registered for a player is one that this player has opened.
OwnSockets ==
    \A p \in Player : clients[p] # None => clients[p][1] = p

\* A socket that the hub has not seen has not been closed by it.
IdleOpen == \A c \in Client : conn[c] = "idle" => send[c].open

IInv ==
    /\ TypeOK
    /\ StatusMatchesSocket
    /\ OwnSockets
    /\ IdleOpen
    /\ HubNeverPanics

\* A socket is a pair of its player and its number, and not None.
LEMMA ClientPair ==
    /\ None \notin Client
    /\ \A c \in Client : /\ c[1] \in Player /\ c[2] \in 1..MaxConnects
                         /\ c = <<c[1], c[2]>>
    /\ \A p \in Player, k \in 1..MaxConnects : <<p, k>> \in Client
<1>1. Client \subseteq Player \X Nat
  BY HubAssumption DEF Client
<1> QED
  BY <1>1, HubAssumption DEF Client

\* Taking the first event from a channel that is not empty.
LEMMA HeadTail ==
    ASSUME NEW S, NEW s \in Seq(S), s # <<>>
    PROVE  Head(s) \in S /\ Tail(s) \in Seq(S) /\ Len(Tail(s)) = Len(s) - 1
OBVIOUS

\* Offering a frame neither opens nor closes a channel.
LEMMA OfferType ==
    ASSUME NEW ch \in Chan, NEW v \in Nat
    PROVE  /\ offer(ch) \in Chan /\ offer(ch).open = ch.open
           /\ offerView(ch, v) \in Chan /\ offerView(ch, v).open = ch.open
<1>1. CASE ch.queued < SendCap
  <2>1. ch.queued + 1 \in 0..SendCap
    BY <1>1, HubAssumption DEF Chan
  <2>2. offer(ch) = [ch EXCEPT !.queued = ch.queued + 1]
    BY <1>1 DEF offer
  <2>3. offerView(ch, v) = [ch EXCEPT !.queued = ch.queued + 1, !.view = v,
                                      !.fits = TRUE]
    BY <1>1, Zenon DEF offerView
  <2> QED
    BY <2>1, <2>2, <2>3 DEF Chan
<1>2. CASE ~(ch.queued < SendCap)
  <2>1. offer(ch) = [ch EXCEPT !.queued = ch.queued]
    BY <1>2 DEF offer
  <2>2. offerView(ch, v) = [ch EXCEPT !.queued = ch.queued, !.view = ch.view,
                                      !.fits = FALSE]
    <3>1. (ch.queued < SendCap) = FALSE
      BY <1>2
    <3> QED
      BY <3>1, Zenon DEF offerView
  <2> QED
    BY <2>1, <2>2 DEF Chan
<1> QED
  BY <1>1, <1>2

\* Neither does flushing what is buffered; what is left is what was buffered
\* or nothing.
LEMMA FlushType ==
    ASSUME NEW ch \in Chan, NEW pending \in Seq(Update)
    PROVE  LET flush == flushPendingStats(ch, pending)
           IN  /\ flush.ch \in Chan /\ flush.ch.open = ch.open
               /\ flush.rest \in Seq(Update)
<1> DEFINE n == IF Len(pending) <= SendCap - ch.queued
                THEN Len(pending) ELSE SendCap - ch.queued
<1>1. n \in Nat /\ ch.queued + n \in 0..SendCap
  BY HubAssumption DEF Chan
<1>2. <<>> \in Seq(Update)
  OBVIOUS
<1> HIDE DEF n
<1>3. [ch EXCEPT !.queued = @ + n] \in Chan
  BY <1>1 DEF Chan
<1> QED
  BY <1>1, <1>2, <1>3 DEF flushPendingStats, n, Chan

LEMMA InitInv == Init => IInv
<1> SUFFICES ASSUME Init PROVE IInv
  OBVIOUS
<1>1. send \in [Client -> Chan]
  <2>1. [open |-> TRUE, queued |-> 0, view |-> 0, fits |-> TRUE] \in Chan
    BY HubAssumption DEF Chan
  <2> QED
    BY <2>1 DEF Init
<1>2. TypeOK
  <2>1. <<>> \in Seq(Player) /\ <<>> \in Seq(Update) /\ <<>> \in Seq(Nat)
        /\ Len(<<>>) = 0
    OBVIOUS
  <2>2. /\ conn \in [Client -> {"idle", "live", "gone"}]
        /\ clients \in [Player -> Client \cup {None}]
        /\ status \in [Player -> Status]
        /\ timer \in [Player -> {"nil", "running", "fired"}]
        /\ strays \in [Player -> Nat] /\ callbacks \in [Player -> Nat]
        /\ pendingStats \in [Player -> Seq(Update)]
    BY <2>1 DEF Init, Status
  <2>3. /\ abandon \in Seq(Player) /\ Len(abandon) <= AbandonCap
        /\ broadcast \in Seq(Nat) /\ Len(broadcast) <= EventCap
        /\ stats \in Seq(Update) /\ Len(stats) <= EventCap
    <3>1. abandon = <<>> /\ broadcast = <<>> /\ stats = <<>>
      BY Zenon DEF Init
    <3> QED
      BY <2>1, <3>1, HubAssumption
  <2>4. /\ version \in Nat
        /\ ended \in {"no", "published", "terminated"}
        /\ crash \in {"none", "hub", "pump"}
    <3>1. version = 0 /\ ended = "no" /\ crash = "none"
      BY Zenon DEF Init
    <3> QED
      BY <3>1, HubAssumption
  <2> QED
    BY <1>1, <2>2, <2>3, <2>4 DEF TypeOK, Chan
<1>3. StatusMatchesSocket
  BY ClientPair DEF Init, StatusMatchesSocket
<1>4. IdleOpen
  BY DEF Init, IdleOpen
<1> QED
  BY <1>2, <1>3, <1>4 DEF IInv, Init, OwnSockets, HubNeverPanics

\* Which socket is registered and open decides everything else: a step that
\* leaves registry, pumps, status and the open channels alone keeps the
\* agreement.
LEMMA SocketsUntouched ==
    ASSUME IInv, UNCHANGED <<conn, clients, status>>,
           crash' # "hub",
           \A c \in Client : send'[c].open = send[c].open
    PROVE  StatusMatchesSocket' /\ OwnSockets' /\ IdleOpen' /\ HubNeverPanics'
BY ClientPair DEF IInv, StatusMatchesSocket, OwnSockets, IdleOpen, HubNeverPanics

\* A new socket takes the place of the registered one.
LEMMA RegisterInv ==
    ASSUME IInv, NEW c \in Client, registerClient(c)
    PROVE  IInv'
<1> DEFINE p == c[1]
           old == clients[p]
           flush == flushPendingStats(send[c], pendingStats[p])
<1>0. /\ p \in Player /\ c = <<p, c[2]>> /\ c[2] \in 1..MaxConnects
      /\ old # None => old \in Client /\ old[1] = p /\ send[old].open
      /\ old # None => conn[old] # "idle"
      /\ old # c
  <2>1. p \in Player /\ c = <<p, c[2]>> /\ c[2] \in 1..MaxConnects
    BY ClientPair
  <2>2. old # None => old \in Client /\ old[1] = p
    BY <2>1 DEF IInv, TypeOK, OwnSockets
  <2>3. old # None => old = <<p, old[2]>> /\ old[2] \in 1..MaxConnects
    BY <2>2, ClientPair
  <2>4. old # None => send[old].open /\ conn[old] # "idle"
    BY <2>1, <2>3 DEF IInv, StatusMatchesSocket
  <2> QED
    BY <2>1, <2>2, <2>4, ClientPair DEF registerClient
<1>1. /\ send[c] \in Chan /\ flush.ch \in Chan /\ flush.ch.open = send[c].open
      /\ flush.rest \in Seq(Update)
  <2>1. send[c] \in Chan /\ pendingStats[p] \in Seq(Update)
    BY <1>0 DEF IInv, TypeOK, Chan
  <2> QED
    BY <2>1, FlushType
<1>2. /\ sendStateSnapshot(flush.ch) \in Chan
      /\ sendStateSnapshot(flush.ch).open = send[c].open
  <2>1. version \in Nat
    BY DEF IInv, TypeOK
  <2> QED
    BY <1>1, <2>1, OfferType DEF sendStateSnapshot
<1>3. closed \in Chan /\ closed.open = FALSE
  BY HubAssumption DEF closed, Chan
<1>4. send' = [d \in Client |-> IF d = c THEN sendStateSnapshot(flush.ch)
                                ELSE IF d = old THEN closed ELSE send[d]]
  BY DEF registerClient
<1> HIDE DEF flush
<1>5. /\ send'[c] = sendStateSnapshot(flush.ch)
      /\ \A d \in Client : d # c /\ d = old => send'[d] = closed
      /\ \A d \in Client : d # c /\ d # old => send'[d] = send[d]
  BY <1>4
<1>6. send' \in [Client -> Chan]
  <2>1. \A d \in Client : send[d] \in Chan
    BY DEF IInv, TypeOK, Chan
  <2>2. \A d \in Client : send'[d] \in Chan
    BY <1>2, <1>3, <1>5, <2>1
  <2> QED
    BY <1>4, <2>2
<1>7. TypeOK'
  <2>1. /\ conn' \in [Client -> {"idle", "live", "gone"}]
        /\ clients' \in [Player -> Client \cup {None}]
        /\ status' \in [Player -> Status]
        /\ timer' \in [Player -> {"nil", "running", "fired"}]
    BY <1>0 DEF registerClient, IInv, TypeOK, Status
  <2>2. pendingStats' \in [Player -> Seq(Update)]
    BY <1>0, <1>1 DEF registerClient, IInv, TypeOK, flush
  <2>3. crash' \in {"none", "hub", "pump"}
    BY DEF registerClient
  <2> QED
    BY <1>6, <2>1, <2>2, <2>3 DEF registerClient, IInv, TypeOK, channels, Chan
<1>8. send[c].open
  <2>1. conn[c] = "idle"
    BY DEF registerClient
  <2> QED
    BY <2>1 DEF IInv, IdleOpen
<1>9. /\ conn' = [conn EXCEPT ![c] = "live"]
      /\ clients' = [clients EXCEPT ![p] = c]
      /\ status' = [status EXCEPT ![p] = "CONNECTED"]
      /\ conn \in [Client -> {"idle", "live", "gone"}]
      /\ clients \in [Player -> Client \cup {None}]
      /\ status \in [Player -> Status]
  BY DEF registerClient, IInv, TypeOK
<1>10. StatusMatchesSocket'
  <2> SUFFICES ASSUME NEW q \in Player
               PROVE  /\ status'[q] = "CONNECTED" <=> clients'[q] # None
                      /\ \A k \in 1..MaxConnects :
                           (conn'[<<q, k>>] # "idle" /\ send'[<<q, k>>].open)
                               <=> clients'[q] = <<q, k>>
    BY DEF StatusMatchesSocket
  <2>1. status'[q] = "CONNECTED" <=> clients'[q] # None
    BY <1>0, <1>9, ClientPair DEF IInv, StatusMatchesSocket
  <2>2. ASSUME NEW k \in 1..MaxConnects
        PROVE  (conn'[<<q, k>>] # "idle" /\ send'[<<q, k>>].open)
                   <=> clients'[q] = <<q, k>>
    <3> DEFINE d == <<q, k>>
    <3>1. d \in Client /\ d[1] = q
      BY ClientPair
    <3>2. (conn[d] # "idle" /\ send[d].open) <=> clients[q] = d
      BY DEF IInv, StatusMatchesSocket
    <3> HIDE DEF d
    <3>3. CASE d = c
      <4>1. q = p
        BY <3>1, <3>3
      <4>2. conn'[d] # "idle" /\ send'[d].open /\ clients'[q] = d
        BY <1>0, <1>2, <1>5, <1>8, <1>9, <3>1, <3>3, <4>1
      <4> QED
        BY <4>2 DEF d
    <3>4. CASE d # c /\ d = old
      <4>1. q = p
        BY <1>0, <3>1, <3>4, ClientPair
      <4>2. ~send'[d].open /\ clients'[q] # d
        BY <1>0, <1>3, <1>5, <1>9, <3>1, <3>4, <4>1
      <4> QED
        BY <4>2 DEF d
    <3>5. CASE d # c /\ d # old
      <4>1. send'[d] = send[d] /\ conn'[d] = conn[d]
        BY <1>5, <1>9, <3>1, <3>5
      <4>2. clients'[q] = d <=> clients[q] = d
        BY <1>0, <1>9, <3>1, <3>5
      <4> QED
        BY <3>2, <4>1, <4>2 DEF d
    <3> QED
      BY <3>3, <3>4, <3>5
  <2> QED
    BY <2>1, <2>2
<1>11. OwnSockets'
  BY <1>0, <1>9 DEF OwnSockets, IInv
<1>12. IdleOpen'
  <2> SUFFICES ASSUME NEW d \in Client, conn'[d] = "idle"
               PROVE  send'[d].open
    BY DEF IdleOpen
  <2>1. d # c /\ conn[d] = "idle"
    BY <1>9
  <2>2. d # old
    BY <1>0, <2>1, ClientPair
  <2> QED
    BY <1>5, <2>1, <2>2 DEF IInv, IdleOpen
<1>13. HubNeverPanics'
  BY <1>0 DEF registerClient, HubNeverPanics
<1> QED
  BY <1>7, <1>10, <1>11, <1>12, <1>13 DEF IInv

\* The end of a read pump closes the channel of its socket if that socket is
\* the registered one, which then is open.
LEMMA UnregisterInv ==
    ASSUME IInv, NEW c \in Client, unregisterClient(c)
    PROVE  IInv'
<1> DEFINE p == c[1]
<1>0. p \in Player /\ c = <<p, c[2]>> /\ c[2] \in 1..MaxConnects
  BY ClientPair
<1>1. CASE ~isCurrent(c)
  <2>1. /\ UNCHANGED <<clients, crash, send, status, timer, ghost, strays,
                       callbacks, channels, pendingStats, version, ended>>
        /\ conn' = [conn EXCEPT ![c] = "gone"]
        /\ conn[c] = "live"
    BY <1>1, Zenon DEF unregisterClient, readPumpEnds
  <2>2. TypeOK'
    BY <2>1 DEF IInv, TypeOK, channels
  <2>3. conn \in [Client -> {"idle", "live", "gone"}]
    BY DEF IInv, TypeOK
  <2>4. \A d \in Client : conn'[d] = "idle" <=> conn[d] = "idle"
    BY <2>1, <2>3
  <2>5. StatusMatchesSocket'
    BY <2>1, <2>4, ClientPair DEF IInv, StatusMatchesSocket
  <2> QED
    BY <2>1, <2>2, <2>4, <2>5 DEF IInv, OwnSockets, IdleOpen, HubNeverPanics
<1>2. CASE isCurrent(c)
  <2>1. /\ conn' = [conn EXCEPT ![c] = "gone"]
        /\ clients' = [clients EXCEPT ![p] = None]
        /\ crash' = IF send[c].open THEN "none" ELSE "hub"
        /\ send' = [send EXCEPT ![c] = closed]
        /\ UNCHANGED <<strays, callbacks, channels, pendingStats, version, ended>>
        /\ \/ status[p] = "ABANDONED" /\ UNCHANGED <<status, timer>>
           \/ /\ status' = [status EXCEPT ![p] = "DISCONNECTED"]
              /\ timer' = scheduleReconnectTimer(p)
    BY <1>2, Zenon DEF unregisterClient, readPumpEnds
  <2>2. clients[p] = c /\ send[c].open
    <3>1. clients[p] = c
      BY <1>2 DEF isCurrent
    <3>2. (conn[<<p, c[2]>>] # "idle" /\ send[<<p, c[2]>>].open)
              <=> clients[p] = <<p, c[2]>>
      BY <1>0 DEF IInv, StatusMatchesSocket
    <3> QED
      BY <1>0, <3>1, <3>2
  <2>3. closed \in Chan /\ closed.open = FALSE
    BY HubAssumption DEF closed, Chan
  <2>4. /\ conn \in [Client -> {"idle", "live", "gone"}]
        /\ clients \in [Player -> Client \cup {None}]
        /\ status \in [Player -> Status]
        /\ timer \in [Player -> {"nil", "running", "fired"}]
        /\ send \in [Client -> Chan]
    BY DEF IInv, TypeOK, Chan
  <2>5. /\ status' \in [Player -> Status]
        /\ status'[p] # "CONNECTED"
        /\ \A q \in Player : q # p => status'[q] = status[q]
    BY <1>0, <2>1, <2>4 DEF Status
  <2>6. TypeOK'
    <3>1. timer' \in [Player -> {"nil", "running", "fired"}]
      BY <1>0, <2>1, <2>4 DEF scheduleReconnectTimer
    <3>2. /\ conn' \in [Client -> {"idle", "live", "gone"}]
          /\ clients' \in [Player -> Client \cup {None}]
          /\ send' \in [Client -> Chan]
      BY <2>1, <2>3, <2>4
    <3>3. crash' \in {"none", "hub", "pump"}
      BY <2>1
    <3> QED
      BY <2>1, <2>5, <3>1, <3>2, <3>3 DEF IInv, TypeOK, channels, Chan
  <2>7. StatusMatchesSocket'
    <3> SUFFICES ASSUME NEW q \in Player
                 PROVE  /\ status'[q] = "CONNECTED" <=> clients'[q] # None
                        /\ \A k \in 1..MaxConnects :
                             (conn'[<<q, k>>] # "idle" /\ send'[<<q, k>>].open)
                                 <=> clients'[q] = <<q, k>>
      BY DEF StatusMatchesSocket
    <3>1. status'[q] = "CONNECTED" <=> clients'[q] # None
      BY <1>0, <2>1, <2>4, <2>5 DEF IInv, StatusMatchesSocket
    <3>2. ASSUME NEW k \in 1..MaxConnects
          PROVE  (conn'[<<q, k>>] # "idle" /\ send'[<<q, k>>].open)
                     <=> clients'[q] = <<q, k>>
      <4> DEFINE d == <<q, k>>
      <4>1. d \in Client /\ d[1] = q /\ d # None
        BY ClientPair
      <4>2. (conn[d] # "idle" /\ send[d].open) <=> clients[q] = d
        BY DEF IInv, StatusMatchesSocket
      <4> HIDE DEF d
      <4>3. CASE d = c
        <5>1. ~send'[d].open /\ clients'[q] # d
          BY <1>0, <2>1, <2>3, <2>4, <4>1, <4>3
        <5> QED
          BY <5>1 DEF d
      <4>4. CASE d # c
        <5>1. send'[d] = send[d] /\ conn'[d] = conn[d]
          BY <2>1, <2>4, <4>1, <4>4
        <5>2. clients'[q] = d <=> clients[q] = d
          BY <1>0, <2>1, <2>2, <2>4, <4>1, <4>4
        <5> QED
          BY <4>2, <5>1, <5>2 DEF d
      <4> QED
        BY <4>3, <4>4
    <3> QED
      BY <3>1, <3>2
  <2>8. OwnSockets'
    BY <1>0, <2>1, <2>4 DEF IInv, OwnSockets
  <2>9. IdleOpen'
    BY <2>1, <2>4 DEF IInv, IdleOpen
  <2> QED
    BY <2>1, <2>2, <2>6, <2>7, <2>8, <2>9 DEF IInv, HubNeverPanics
<1> QED
  BY <1>1, <1>2

\* A step that only puts frames on sockets or takes them off.
LEMMA FramesInv ==
    ASSUME IInv, UNCHANGED <<conn, clients, status, crash, timer, strays,
                             callbacks>>,
           DOMAIN send' = Client,
           send' = [c \in Client |-> send'[c]],
           \A c \in Client : send'[c] \in Chan /\ send'[c].open = send[c].open,
           abandon' \in Seq(Player) /\ Len(abandon') <= AbandonCap,
           broadcast' \in Seq(Nat) /\ Len(broadcast') <= EventCap,
           stats' \in Seq(Update) /\ Len(stats') <= EventCap,
           pendingStats' \in [Player -> Seq(Update)],
           version' \in Nat,
           ended' \in {"no", "published", "terminated"}
    PROVE  IInv'
<1>1. send' \in [Client -> Chan]
  OBVIOUS
<1>2. TypeOK'
  BY <1>1 DEF IInv, TypeOK, Chan
<1>3. crash' # "hub"
  BY DEF IInv, HubNeverPanics
<1> QED
  BY <1>2, <1>3, SocketsUntouched DEF IInv

\* The steps of the pumps and of Route.
LEMMA PumpsInv ==
    ASSUME IInv, NEW c \in Client,
           readPumpError(c) \/ handleInbound(c) \/ writePump(c)
    PROVE  IInv'
<1>1. /\ send \in [Client -> Chan] /\ clients \in [Player -> Client \cup {None}]
      /\ abandon \in Seq(Player) /\ Len(abandon) <= AbandonCap
      /\ broadcast \in Seq(Nat) /\ Len(broadcast) <= EventCap
      /\ stats \in Seq(Update) /\ Len(stats) <= EventCap
      /\ pendingStats \in [Player -> Seq(Update)]
      /\ version \in Nat
      /\ ended \in {"no", "published", "terminated"}
  BY DEF IInv, TypeOK, Chan
<1>2. \A ch \in Chan : offer(ch) \in Chan /\ offer(ch).open = ch.open
  BY <1>1, OfferType
<1>3. ASSUME NEW d \in Client, send' = [send EXCEPT ![d] = offer(send[d])],
             UNCHANGED <<conn, clients, graceVars, channels, pendingStats,
                         version, ended, crash>>
      PROVE  IInv'
  <2>1. /\ send' = [e \in Client |-> send'[e]]
        /\ DOMAIN send' = Client
        /\ \A e \in Client : send'[e] \in Chan /\ send'[e].open = send[e].open
    BY <1>1, <1>2, <1>3
  <2> QED
    BY <1>1, <1>3, <2>1, FramesInv DEF graceVars, channels
<1>4. CASE readPumpError(c) /\ send[c].open
  BY <1>3, <1>4 DEF readPumpError, sendError
<1>5. CASE readPumpError(c) /\ ~send[c].open
  <2>1. /\ UNCHANGED <<conn, clients, graceVars, channels, pendingStats,
                       version, ended, send>>
        /\ crash' = "pump"
    BY <1>5, Zenon DEF readPumpError, sendError
  <2>2. TypeOK'
    BY <2>1 DEF IInv, TypeOK, graceVars, channels
  <2> QED
    BY <2>1, <2>2, SocketsUntouched DEF IInv, graceVars
<1>6. CASE handleInbound(c)
  <2>1. clients[c[1]] \in Client
    BY <1>1, <1>6, ClientPair DEF handleInbound
  <2> QED
    BY <1>3, <1>6, <2>1 DEF handleInbound, Route
<1>7. CASE writePump(c)
  <2>1. /\ UNCHANGED <<conn, clients, graceVars, channels, pendingStats,
                       version, ended, crash>>
        /\ send[c].queued > 0
        /\ send' = [send EXCEPT ![c] = [send[c] EXCEPT !.queued = send[c].queued - 1]]
    BY <1>7 DEF writePump
  <2>2. send[c] \in Chan
    BY <1>1
  <2>3. send[c].queued - 1 \in 0..SendCap
    BY <2>1, <2>2, HubAssumption DEF Chan
  <2>4. /\ [send[c] EXCEPT !.queued = send[c].queued - 1] \in Chan
        /\ [send[c] EXCEPT !.queued = send[c].queued - 1].open = send[c].open
    BY <2>2, <2>3 DEF Chan
  <2>5. /\ send' = [e \in Client |-> send'[e]]
        /\ DOMAIN send' = Client
        /\ \A e \in Client : send'[e] \in Chan /\ send'[e].open = send[e].open
    BY <1>1, <2>1, <2>4
  <2> QED
    BY <1>1, <2>1, <2>5, FramesInv DEF graceVars, channels
<1> QED
  BY <1>4, <1>5, <1>6, <1>7

\* The steps of the grace period: who is connected stays connected.
LEMMA GraceInv ==
    ASSUME IInv,
           (\E p \in Player : expire(p) \/ timerCallback(p)) \/ handleAbandonment
    PROVE  IInv'
<1>0. /\ timer \in [Player -> {"nil", "running", "fired"}]
      /\ strays \in [Player -> Nat] /\ callbacks \in [Player -> Nat]
      /\ abandon \in Seq(Player) /\ Len(abandon) <= AbandonCap
  BY DEF IInv, TypeOK
<1>1. ASSUME NEW p \in Player, expire(p)
      PROVE  IInv'
  <2>1. /\ UNCHANGED <<conn, send, clients, status, channels, pendingStats,
                       version, ended, crash>>
        /\ callbacks' = [callbacks EXCEPT ![p] = callbacks[p] + 1]
        /\ timer' = timer \/ timer' = [timer EXCEPT ![p] = "fired"]
        /\ \/ strays' = strays
           \/ strays[p] > 0 /\ strays' = [strays EXCEPT ![p] = strays[p] - 1]
    BY <1>1, Zenon DEF expire
  <2>2. /\ callbacks' \in [Player -> Nat] /\ strays' \in [Player -> Nat]
        /\ timer' \in [Player -> {"nil", "running", "fired"}]
    <3>1. callbacks[p] \in Nat /\ strays[p] \in Nat
      BY <1>0
    <3>2. callbacks[p] + 1 \in Nat /\ (strays[p] > 0 => strays[p] - 1 \in Nat)
      BY <3>1
    <3> QED
      BY <1>0, <2>1, <3>2
  <2>3. TypeOK'
    BY <2>1, <2>2 DEF IInv, TypeOK, channels
  <2> QED
    BY <2>1, <2>3, SocketsUntouched DEF IInv, HubNeverPanics
<1>2. ASSUME NEW p \in Player, timerCallback(p)
      PROVE  IInv'
  <2>1. /\ UNCHANGED <<conn, send, clients, status, timer, strays, broadcast,
                       stats, pendingStats, version, ended, crash>>
        /\ callbacks[p] > 0
        /\ callbacks' = [callbacks EXCEPT ![p] = callbacks[p] - 1]
        /\ \/ abandon' = abandon
           \/ Len(abandon) < AbandonCap /\ abandon' = Append(abandon, p)
    BY <1>2, Zenon DEF timerCallback
  <2>2. callbacks' \in [Player -> Nat]
    BY <2>1 DEF IInv, TypeOK
  <2>3. abandon' \in Seq(Player) /\ Len(abandon') <= AbandonCap
    <3>1. /\ Append(abandon, p) \in Seq(Player)
          /\ Len(Append(abandon, p)) = Len(abandon) + 1
          /\ Len(abandon) \in Nat
      BY <1>0
    <3>2. CASE abandon' = abandon
      BY <1>0, <3>2
    <3>3. CASE Len(abandon) < AbandonCap /\ abandon' = Append(abandon, p)
      BY <3>1, <3>3, HubAssumption
    <3> QED
      BY <2>1, <3>2, <3>3
  <2>4. TypeOK'
    BY <2>1, <2>2, <2>3 DEF IInv, TypeOK
  <2> QED
    BY <2>1, <2>4, SocketsUntouched DEF IInv, HubNeverPanics
<1>3. CASE handleAbandonment
  <2> DEFINE p == Head(abandon)
  <2>0. /\ abandon # <<>> /\ abandon \in Seq(Player) /\ p \in Player
        /\ abandon' = Tail(abandon)
        /\ abandon' \in Seq(Player) /\ Len(abandon') <= AbandonCap
    BY <1>3, HubAssumption DEF handleAbandonment, IInv, TypeOK
  <2>1. /\ UNCHANGED <<conn, send, clients, callbacks, broadcast, stats,
                       pendingStats, crash>>
        /\ \/ UNCHANGED <<status, timer, strays>>
           \/ /\ status[p] = "DISCONNECTED"
              /\ status' = [status EXCEPT ![p] = "ABANDONED"]
              /\ timer' = [timer EXCEPT ![p] = "nil"]
              /\ strays' = [strays EXCEPT ![p] =
                               IF timer[p] = "running" THEN strays[p] + 1
                               ELSE strays[p]]
    BY <1>3, Zenon DEF handleAbandonment, abandons
  <2>6. version' \in Nat /\ ended' \in {"no", "published", "terminated"}
    <3>1. \/ UNCHANGED <<version, ended>>
          \/ /\ version' = version + 1
             /\ ended' = ended \/ ended' = "published" \/ ended' = "no"
      BY <1>3 DEF handleAbandonment, HandlePlayerAbandoned
    <3> QED
      BY <3>1 DEF IInv, TypeOK
  <2> HIDE DEF p
  <2>2. /\ status' \in [Player -> Status]
        /\ timer' \in [Player -> {"nil", "running", "fired"}]
        /\ \A q \in Player : status'[q] = "CONNECTED" <=> status[q] = "CONNECTED"
    BY <2>0, <2>1 DEF IInv, TypeOK, Status
  <2>3. strays' \in [Player -> Nat]
    <3>1. strays[p] \in Nat /\ strays[p] + 1 \in Nat
      BY <1>0, <2>0
    <3> QED
      BY <1>0, <2>1, <3>1
  <2>4. TypeOK'
    BY <2>0, <2>1, <2>2, <2>3, <2>6 DEF IInv, TypeOK
  <2>5. StatusMatchesSocket'
    BY <2>1, <2>2 DEF IInv, StatusMatchesSocket
  <2> QED
    BY <2>1, <2>4, <2>5 DEF IInv, OwnSockets, IdleOpen, HubNeverPanics
<1> QED
  BY <1>1, <1>2, <1>3

\* The steps that announce: commands, the end of the match, ratings.
LEMMA FramesOutInv ==
    ASSUME IInv,
           \/ applyNotifier \/ RestoreSessions
           \/ handleSessionBroadcast \/ TerminateMatch
           \/ \E u \in Update : BroadcastPlayerStatsUpdate(u)
           \/ handleStatsBroadcast
    PROVE  IInv'
<1>1. /\ send \in [Client -> Chan]
      /\ abandon \in Seq(Player) /\ Len(abandon) <= AbandonCap
      /\ broadcast \in Seq(Nat) /\ Len(broadcast) <= EventCap
      /\ stats \in Seq(Update) /\ Len(stats) <= EventCap
      /\ pendingStats \in [Player -> Seq(Update)]
      /\ version \in Nat
      /\ ended \in {"no", "published", "terminated"}
      /\ Len(broadcast) \in Nat /\ Len(stats) \in Nat
  BY DEF IInv, TypeOK, Chan
<1>2. /\ send = [c \in Client |-> send[c]] /\ DOMAIN send = Client
      /\ \A c \in Client : send[c] \in Chan
  BY <1>1
<1>3. CASE applyNotifier
  <2>1. /\ UNCHANGED <<conn, send, clients, graceVars, abandon, stats,
                       pendingStats, crash>>
        /\ version < MaxVersion /\ version' = version + 1
        /\ ended' \in {"no", "published"}
        /\ \/ broadcast' = broadcast
           \/ /\ Len(broadcast) < EventCap
              /\ broadcast' = Append(broadcast, version + 1)
    BY <1>3, Zenon DEF applyNotifier, NotifySessionDelta
  <2>2. version + 1 \in Nat
    BY <1>1
  <2>3. broadcast' \in Seq(Nat) /\ Len(broadcast') <= EventCap
    <3>1. CASE broadcast' = broadcast
      BY <1>1, <3>1
    <3>2. CASE /\ Len(broadcast) < EventCap
               /\ broadcast' = Append(broadcast, version + 1)
      <4>1. /\ Append(broadcast, version + 1) \in Seq(Nat)
            /\ Len(Append(broadcast, version + 1)) = Len(broadcast) + 1
        BY <1>1, <2>2
      <4> QED
        BY <1>1, <3>2, <4>1, HubAssumption
    <3> QED
      BY <2>1, <3>1, <3>2
  <2>4. /\ send' = [c \in Client |-> send'[c]] /\ DOMAIN send' = Client
        /\ \A c \in Client : send'[c] \in Chan /\ send'[c].open = send[c].open
        /\ version' \in Nat
        /\ ended' \in {"no", "published", "terminated"}
    BY <1>2, <2>1, <2>2
  <2> QED
    BY <1>1, <2>1, <2>3, <2>4, FramesInv DEF graceVars
<1>4. CASE handleSessionBroadcast
  <2>1. /\ UNCHANGED <<conn, clients, graceVars, abandon, stats, pendingStats,
                       version, ended, crash>>
        /\ broadcast # <<>> /\ broadcast' = Tail(broadcast)
        /\ send' = [c \in Client |-> IF c \in registered
                                     THEN offerView(send[c], Head(broadcast))
                                     ELSE send[c]]
    BY <1>4, Zenon DEF handleSessionBroadcast
  <2>2. /\ Head(broadcast) \in Nat
        /\ broadcast' \in Seq(Nat)
        /\ Len(broadcast') = Len(broadcast) - 1
    BY <1>1, <2>1, HeadTail
  <2>3. Len(broadcast') <= EventCap
    BY <1>1, <2>2, HubAssumption
  <2>4. \A c \in Client : /\ offerView(send[c], Head(broadcast)) \in Chan
                          /\ offerView(send[c], Head(broadcast)).open = send[c].open
    BY <1>2, <2>2, OfferType
  <2>5. /\ send' = [c \in Client |-> send'[c]] /\ DOMAIN send' = Client
        /\ \A c \in Client : send'[c] \in Chan /\ send'[c].open = send[c].open
    BY <1>2, <2>1, <2>4
  <2> QED
    BY <1>1, <2>1, <2>2, <2>3, <2>5, FramesInv DEF graceVars
<1>5. CASE TerminateMatch
  <2>1. /\ UNCHANGED <<conn, clients, graceVars, channels, pendingStats,
                       version, crash>>
        /\ ended' = "terminated"
        /\ send' = [c \in Client |-> IF c \in registered
                                     THEN offerView(offer(send[c]), version)
                                     ELSE send[c]]
    BY <1>5, Zenon DEF TerminateMatch
  <2>2. \A c \in Client : offer(send[c]) \in Chan
                          /\ offer(send[c]).open = send[c].open
    BY <1>1, <1>2, OfferType
  <2>3. \A c \in Client :
            /\ offerView(offer(send[c]), version) \in Chan
            /\ offerView(offer(send[c]), version).open = send[c].open
    BY <1>1, <2>2, OfferType
  <2>4. /\ send' = [c \in Client |-> send'[c]] /\ DOMAIN send' = Client
        /\ \A c \in Client : send'[c] \in Chan /\ send'[c].open = send[c].open
    BY <1>2, <2>1, <2>3
  <2> QED
    BY <1>1, <2>1, <2>4, FramesInv DEF graceVars, channels
<1>6. ASSUME NEW u \in Update, BroadcastPlayerStatsUpdate(u)
      PROVE  IInv'
  <2>1. /\ UNCHANGED <<conn, send, clients, graceVars, abandon, broadcast,
                       pendingStats, version, ended, crash>>
        /\ \/ stats' = stats
           \/ Len(stats) < EventCap /\ stats' = Append(stats, u)
    BY <1>6, Zenon DEF BroadcastPlayerStatsUpdate
  <2>2. stats' \in Seq(Update) /\ Len(stats') <= EventCap
    <3>1. CASE stats' = stats
      BY <1>1, <3>1
    <3>2. CASE Len(stats) < EventCap /\ stats' = Append(stats, u)
      <4>1. /\ Append(stats, u) \in Seq(Update)
            /\ Len(Append(stats, u)) = Len(stats) + 1
        BY <1>1
      <4> QED
        BY <1>1, <3>2, <4>1, HubAssumption
    <3> QED
      BY <2>1, <3>1, <3>2
  <2>3. /\ send' = [c \in Client |-> send'[c]] /\ DOMAIN send' = Client
        /\ \A c \in Client : send'[c] \in Chan /\ send'[c].open = send[c].open
    BY <1>2, <2>1
  <2> QED
    BY <1>1, <2>1, <2>2, <2>3, FramesInv DEF graceVars
<1>7. CASE handleStatsBroadcast
  <2> DEFINE u == Head(stats)
  <2>1. /\ UNCHANGED <<conn, clients, graceVars, abandon, broadcast, version,
                       ended, crash>>
        /\ stats # <<>> /\ stats' = Tail(stats)
        /\ send' = [c \in Client |-> IF c \in registered THEN offer(send[c])
                                     ELSE send[c]]
        /\ pendingStats' = [p \in Player |->
              IF delivers(p) THEN pendingStats[p] ELSE Append(pendingStats[p], u)]
    BY <1>7, Zenon DEF handleStatsBroadcast
  <2>2. u \in Update /\ stats' \in Seq(Update) /\ Len(stats') = Len(stats) - 1
    BY <1>1, <2>1
  <2>3. Len(stats') <= EventCap
    BY <1>1, <2>2, HubAssumption
  <2> HIDE DEF u
  <2>4. \A p \in Player : Append(pendingStats[p], u) \in Seq(Update)
    BY <1>1, <2>2
  <2>5. pendingStats' \in [Player -> Seq(Update)]
    BY <1>1, <2>1, <2>4
  <2>6. \A c \in Client : offer(send[c]) \in Chan
                          /\ offer(send[c]).open = send[c].open
    BY <1>1, <1>2, OfferType
  <2>7. /\ send' = [c \in Client |-> send'[c]] /\ DOMAIN send' = Client
        /\ \A c \in Client : send'[c] \in Chan /\ send'[c].open = send[c].open
    BY <1>2, <2>1, <2>6
  <2> QED
    BY <1>1, <2>1, <2>2, <2>3, <2>5, <2>7, FramesInv DEF graceVars
<1>8. CASE RestoreSessions
  <2>1. /\ UNCHANGED <<conn, send, clients, graceVars, abandon, broadcast, stats,
                       pendingStats, ended, crash>>
        /\ version' = version + 1
    BY <1>8, Zenon DEF RestoreSessions, channels
  <2>2. TypeOK'
    BY <1>1, <2>1 DEF IInv, TypeOK, graceVars
  <2> QED
    BY <2>1, <2>2, SocketsUntouched DEF IInv, HubNeverPanics, graceVars
<1> QED
  BY <1>3, <1>4, <1>5, <1>6, <1>7, <1>8

LEMMA StepInv == IInv /\ [Next]_vars => IInv'
<1> SUFFICES ASSUME IInv, [Next]_vars PROVE IInv'
  OBVIOUS
<1>1. CASE UNCHANGED vars
  <2>1. TypeOK'
    BY <1>1 DEF IInv, TypeOK, vars, graceVars, channels
  <2> QED
    BY <1>1, <2>1, SocketsUntouched
    DEF IInv, HubNeverPanics, vars, graceVars, channels
<1> QED
  BY <1>1, RegisterInv, UnregisterInv, PumpsInv, GraceInv, FramesOutInv DEF Next

\* In every state, whatever the number of players and sockets, the variables
\* have their types: no channel and no send buffer holds more than its
\* capacity.
THEOREM HubTyped == Spec => []TypeOK
<1>1. IInv => TypeOK
  BY DEF IInv
<1> QED
  BY <1>1, InitInv, StepInv, PTL DEF Spec

\* A player is CONNECTED exactly while a socket is registered for it, and that
\* socket is the only one of the player that has been opened and not closed:
\* replacing, losing and abandoning sockets in any order keeps registerClient,
\* unregisterClient and handleAbandonment in agreement.
THEOREM OneSocketPerPlayer == Spec => []StatusMatchesSocket
<1>1. IInv => StatusMatchesSocket
  BY DEF IInv
<1> QED
  BY <1>1, InitInv, StepInv, PTL DEF Spec

\* The hub never closes a channel that is already closed.
THEOREM ClosedOnce == Spec => []HubNeverPanics
<1>1. IInv => HubNeverPanics
  BY DEF IInv
<1> QED
  BY <1>1, InitInv, StepInv, PTL DEF Spec

-----------------------------------------------------------------------------
(* What the players are told *)

GhostState ==
    [graceOver : [Player -> BOOLEAN], handed : [Player -> SUBSET Update],
     made : SUBSET Update, shedStats : SUBSET Update, shedAbandon : SUBSET Player,
     announced : Nat, shedDelta : BOOLEAN]

\* The channel ends with the version announced last, unless that one was
\* refused; once it is empty the sockets have it or a newer one.  A socket not
\* yet registered has no view.
Fresh ==
    /\ ghost.announced <= version
    /\ ~ghost.shedDelta =>
          IF broadcast = <<>>
          THEN \A c \in registered : send[c].fits => send[c].view >= ghost.announced
          ELSE broadcast[Len(broadcast)] = ghost.announced
    /\ \A c \in Client : conn[c] = "idle" => send[c].view = 0

Told == ghost \in GhostState /\ Fresh /\ StatsKept

LEMMA OfferViews ==
    ASSUME NEW ch \in Chan, NEW v \in Nat
    PROVE  /\ offer(ch).view = ch.view /\ offer(ch).fits = ch.fits
           /\ offerView(ch, v).fits => offerView(ch, v).view = v
<1>1. CASE ch.queued < SendCap
  <2>1. offer(ch) = [ch EXCEPT !.queued = ch.queued + 1]
    BY <1>1 DEF offer
  <2>2. offerView(ch, v) = [ch EXCEPT !.queued = ch.queued + 1, !.view = v,
                                      !.fits = TRUE]
    BY <1>1, Zenon DEF offerView
  <2> QED
    BY <2>1, <2>2 DEF Chan
<1>2. CASE ~(ch.queued < SendCap)
  <2>1. offer(ch) = [ch EXCEPT !.queued = ch.queued]
    BY <1>2 DEF offer
  <2>2. offerView(ch, v) = [ch EXCEPT !.queued = ch.queued, !.view = ch.view,
                                      !.fits = FALSE]
    <3>1. (ch.queued < SendCap) = FALSE
      BY <1>2
    <3> QED
      BY <3>1, Zenon DEF offerView
  <2> QED
    BY <2>1, <2>2 DEF Chan
<1> QED
  BY <1>1, <1>2

\* Flushing forgets the buffer only after every update in it was handed over.
LEMMA FlushKeeps ==
    ASSUME NEW ch \in Chan, NEW pending \in Seq(Update)
    PROVE  LET flush == flushPendingStats(ch, pending)
           IN  /\ flush.ch.view = ch.view /\ flush.ch.fits = ch.fits
               /\ flush.taken \in 0..Len(pending)
               /\ \/ flush.rest = pending
                  \/ flush.rest = <<>> /\ flush.taken = Len(pending)
<1> DEFINE n == IF Len(pending) <= SendCap - ch.queued
                THEN Len(pending) ELSE SendCap - ch.queued
           flush == flushPendingStats(ch, pending)
<1>1. n \in 0..Len(pending) /\ ch.queued + n \in 0..SendCap
  BY HubAssumption DEF Chan
<1>2. /\ flush.ch = [ch EXCEPT !.queued = @ + n] /\ flush.taken = n
      /\ flush.rest = IF n = Len(pending) THEN <<>> ELSE pending
  BY DEF flushPendingStats
<1> HIDE DEF n, flush
<1>3. flush.ch.view = ch.view /\ flush.ch.fits = ch.fits
  BY <1>2 DEF Chan
<1>4. flush.rest = pending \/ (flush.rest = <<>> /\ flush.taken = Len(pending))
  BY <1>2
<1> QED
  BY <1>1, <1>2, <1>3, <1>4 DEF flush

\* A registered socket is not idle.
LEMMA RegisteredUsed ==
    ASSUME IInv, NEW c \in registered
    PROVE  c \in Client /\ conn[c] # "idle" /\ c[1] \in Player /\ clients[c[1]] = c
<1>1. PICK p \in Player : clients[p] = c /\ c # None
  BY DEF registered
<1>2. c \in Client /\ c[1] = p
  BY <1>1 DEF IInv, TypeOK, OwnSockets
<1>3. c = <<p, c[2]>> /\ c[2] \in 1..MaxConnects
  BY <1>2, ClientPair
<1>4. conn[<<p, c[2]>>] # "idle"
  BY <1>1, <1>3 DEF IInv, StatusMatchesSocket
<1> QED
  BY <1>1, <1>2, <1>3, <1>4

\* Frames of other kinds do not touch the views.
LEMMA FreshAside ==
    ASSUME Fresh, UNCHANGED <<conn, clients, broadcast>>, IInv,
           ghost.announced \in Nat, version' \in {version, version + 1},
           ghost'.shedDelta = ghost.shedDelta, ghost'.announced = ghost.announced,
           \A c \in Client : send'[c].view = send[c].view /\ send'[c].fits = send[c].fits
    PROVE  Fresh'
<1>1. registered' = registered
  BY DEF registered
<1>2. \A c \in registered : c \in Client
  BY RegisteredUsed
<1>3. version \in Nat /\ version' >= version
  BY DEF IInv, TypeOK
<1>4. ghost'.announced <= version'
  BY <1>3 DEF Fresh
<1> QED
  BY <1>1, <1>2, <1>4 DEF Fresh

LEMMA StatsAside ==
    ASSUME StatsKept, ghost'.made = ghost.made, ghost'.shedStats = ghost.shedStats,
           UNCHANGED <<stats, pendingStats>>,
           \A p \in Player : ghost.handed[p] \subseteq ghost'.handed[p]
    PROVE  StatsKept'
  BY DEF StatsKept

LEMMA ToldRegister ==
    ASSUME IInv, Told, NEW c \in Client, registerClient(c)
    PROVE  Told'
<1> DEFINE p == c[1]
           old == clients[p]
           flush == flushPendingStats(send[c], pendingStats[p])
           taken == {pendingStats[p][i] : i \in 1..flush.taken}
<1>1. /\ p \in Player /\ send[c] \in Chan /\ pendingStats[p] \in Seq(Update)
      /\ version \in Nat /\ flush.ch \in Chan
      /\ send \in [Client -> Chan] /\ pendingStats \in [Player -> Seq(Update)]
      /\ clients \in [Player -> Client \cup {None}] /\ conn \in [Client -> {"idle", "live", "gone"}]
  <2>1. /\ p \in Player /\ send[c] \in Chan /\ pendingStats[p] \in Seq(Update)
        /\ send \in [Client -> Chan] /\ pendingStats \in [Player -> Seq(Update)]
        /\ clients \in [Player -> Client \cup {None}]
        /\ version \in Nat /\ conn \in [Client -> {"idle", "live", "gone"}]
    BY ClientPair DEF IInv, TypeOK, Chan
  <2> QED
    BY <2>1, FlushType
<1>2. /\ conn[c] = "idle"
      /\ conn' = [conn EXCEPT ![c] = "live"]
      /\ clients' = [clients EXCEPT ![p] = c]
      /\ send' = [d \in Client |->
                     IF d = c THEN sendStateSnapshot(flush.ch)
                     ELSE IF d = old THEN closed ELSE send[d]]
      /\ pendingStats' = [pendingStats EXCEPT ![p] = flush.rest]
      /\ ghost' = [ghost EXCEPT !.handed[p] = @ \cup taken]
      /\ UNCHANGED <<broadcast, stats, version>>
  BY Zenon DEF registerClient, channels
<1>3. /\ flush.ch.view = send[c].view /\ flush.taken \in 0..Len(pendingStats[p])
      /\ \/ flush.rest = pendingStats[p]
         \/ flush.rest = <<>> /\ flush.taken = Len(pendingStats[p])
  BY <1>1, FlushKeeps
<1>4. taken \in SUBSET Update
  BY <1>1, <1>3
<1>5. sendStateSnapshot(flush.ch).fits => sendStateSnapshot(flush.ch).view = version
  <2>1. CASE version = 0
    <3>1. send[c].view = 0
      BY <1>2 DEF Told, Fresh
    <3> QED
      BY <1>3, <2>1, <3>1 DEF sendStateSnapshot
  <2>2. CASE version # 0
    BY <1>1, <2>2, OfferViews DEF sendStateSnapshot
  <2> QED
    BY <2>1, <2>2
<1>6. flush.rest = pendingStats[p] \/
      (flush.rest = <<>> /\ \A i \in DOMAIN pendingStats[p] : pendingStats[p][i] \in taken)
  BY <1>1, <1>3
<1> HIDE DEF flush, taken
<1>7. /\ ghost' \in GhostState /\ ghost'.made = ghost.made
      /\ ghost'.shedStats = ghost.shedStats /\ ghost'.shedDelta = ghost.shedDelta
      /\ ghost'.announced = ghost.announced
      /\ ghost'.handed[p] = ghost.handed[p] \cup taken
      /\ \A q \in Player \ {p} : ghost'.handed[q] = ghost.handed[q]
  <2>1. ghost \in GhostState
    BY DEF Told
  <2>2. DOMAIN ghost.handed = Player /\ ghost.handed[p] \in SUBSET Update
    BY <1>1, <2>1 DEF GhostState
  <2> DEFINE h == [ghost.handed EXCEPT ![p] = @ \cup taken]
  <2>3. /\ h \in [Player -> SUBSET Update] /\ h[p] = ghost.handed[p] \cup taken
        /\ \A q \in Player \ {p} : h[q] = ghost.handed[q]
    BY <1>1, <1>4, <2>1, <2>2 DEF GhostState
  <2>4. ghost' = [ghost EXCEPT !.handed = h]
    BY <1>2
  <2> HIDE DEF h
  <2> QED
    BY <2>1, <2>3, <2>4 DEF GhostState
<1>8. Fresh'
  <2>1. /\ \A d \in Client \ {c} : conn'[d] = conn[d]
        /\ conn'[c] = "live" /\ clients'[p] = c
        /\ \A q \in Player \ {p} : clients'[q] = clients[q]
    BY <1>1, <1>2
  <2>2. \A d \in Client : conn'[d] = "idle" => send'[d].view = 0
    BY <1>2, <2>1 DEF closed, Told, Fresh
  <2>3. ASSUME NEW d \in registered', d # c
        PROVE  d \in registered /\ send'[d] = send[d]
    <3>1. PICK q \in Player : clients'[q] = d /\ d # None
      BY DEF registered
    <3>2. q # p /\ clients[q] = d
      BY <2>1, <2>3, <3>1
    <3>3. d # old
      <4>1. d \in Client /\ d[1] = q
        BY <3>1, <3>2 DEF IInv, TypeOK, OwnSockets
      <4>2. old = None \/ old[1] = p
        BY <1>1 DEF IInv, OwnSockets
      <4> QED
        BY <3>1, <3>2, <4>1, <4>2
    <3>4. d \in registered /\ d \in Client
      BY <1>1, <3>1, <3>2 DEF registered
    <3> QED
      BY <1>2, <2>3, <3>3, <3>4
  <2>4. send'[c].fits => send'[c].view >= ghost.announced
    <3>1. ghost.announced \in Nat /\ ghost.announced <= version
      BY DEF Told, Fresh, GhostState
    <3> QED
      BY <1>1, <1>2, <1>5, <3>1
  <2>5. ASSUME ~ghost'.shedDelta, broadcast' = <<>>, NEW d \in registered',
               send'[d].fits
        PROVE  send'[d].view >= ghost'.announced
    <3>1. CASE d = c
      BY <1>7, <2>4, <2>5, <3>1
    <3>2. CASE d # c
      <4>1. d \in registered /\ send'[d] = send[d]
        BY <2>3, <3>2
      <4> QED
        BY <1>2, <1>7, <2>5, <4>1 DEF Told, Fresh
    <3> QED
      BY <3>1, <3>2
  <2>6. ~ghost'.shedDelta /\ broadcast' # <<>> =>
            broadcast'[Len(broadcast')] = ghost'.announced
    BY <1>2, <1>7 DEF Told, Fresh
  <2>7. ghost'.announced <= version'
    BY <1>2, <1>7 DEF Told, Fresh
  <2> QED
    BY <2>2, <2>5, <2>6, <2>7 DEF Fresh
<1>9. StatsKept'
  <2> SUFFICES ASSUME NEW u \in ghost.made \ ghost.shedStats, NEW q \in Player
               PROVE  \/ u \in ghost'.handed[q]
                      \/ \E i \in DOMAIN stats : stats[i] = u
                      \/ \E i \in DOMAIN pendingStats'[q] : pendingStats'[q][i] = u
    BY <1>2, <1>7 DEF StatsKept
  <2>1. \/ u \in ghost.handed[q]
        \/ \E i \in DOMAIN stats : stats[i] = u
        \/ \E i \in DOMAIN pendingStats[q] : pendingStats[q][i] = u
    BY DEF Told, StatsKept
  <2>2. CASE q = p
    <3>1. pendingStats'[p] = flush.rest
      BY <1>1, <1>2
    <3> QED
      BY <1>6, <1>7, <2>1, <2>2, <3>1
  <2>3. CASE q # p
    <3>1. pendingStats'[q] = pendingStats[q]
      BY <1>1, <1>2, <2>3
    <3> QED
      BY <1>7, <2>1, <2>3, <3>1
  <2> QED
    BY <2>2, <2>3
<1> QED
  BY <1>7, <1>8, <1>9 DEF Told

LEMMA GraceGhost ==
    ASSUME NEW g \in GhostState, NEW p \in Player, NEW b \in BOOLEAN
    PROVE  LET h == [g EXCEPT !.graceOver[p] = b]
           IN  /\ h \in GhostState /\ h.made = g.made /\ h.shedStats = g.shedStats
               /\ h.shedDelta = g.shedDelta /\ h.handed = g.handed /\ h.announced = g.announced
<1> DEFINE f == [g.graceOver EXCEPT ![p] = b]
<1>1. f \in [Player -> BOOLEAN]
  BY DEF GhostState
<1>2. [g EXCEPT !.graceOver[p] = b] = [g EXCEPT !.graceOver = f]
  BY Zenon
<1> HIDE DEF f
<1> QED
  BY <1>1, <1>2 DEF GhostState

LEMMA ToldUnregister ==
    ASSUME IInv, Told, NEW c \in Client, unregisterClient(c)
    PROVE  Told'
<1>0. /\ c[1] \in Player /\ ghost \in GhostState
      /\ clients \in [Player -> Client \cup {None}] /\ send \in [Client -> Chan]
      /\ conn \in [Client -> {"idle", "live", "gone"}]
  BY ClientPair DEF Told, IInv, TypeOK, Chan
<1>1. /\ conn' = [conn EXCEPT ![c] = "gone"]
      /\ UNCHANGED <<broadcast, stats, version, pendingStats>>
  BY Zenon DEF unregisterClient, readPumpEnds, channels
<1>2. ghost' = ghost \/ ghost' = [ghost EXCEPT !.graceOver[c[1]] = FALSE]
  BY Zenon DEF unregisterClient
<1>3. /\ ghost' \in GhostState /\ ghost'.made = ghost.made
      /\ ghost'.shedStats = ghost.shedStats /\ ghost'.shedDelta = ghost.shedDelta
      /\ ghost'.announced = ghost.announced
      /\ ghost'.handed = ghost.handed
  <2>1. CASE ghost' = ghost
    BY <1>0, <2>1
  <2>2. CASE ghost' = [ghost EXCEPT !.graceOver[c[1]] = FALSE]
    <3>1. PICK p \in Player : p = c[1]
      BY <1>0
    <3>2. PICK g \in GhostState : g = ghost
      BY <1>0
    <3>3. PICK h : h = [g EXCEPT !.graceOver[p] = FALSE]
      OBVIOUS
    <3>4. /\ h \in GhostState /\ h.made = g.made /\ h.shedStats = g.shedStats
          /\ h.shedDelta = g.shedDelta /\ h.handed = g.handed /\ h.announced = g.announced
      <4>1. FALSE \in BOOLEAN
        OBVIOUS
      <4> QED
        BY <3>3, <4>1, GraceGhost
    <3> QED
      BY <2>2, <3>1, <3>2, <3>3, <3>4
  <2> QED
    BY <1>2, <2>1, <2>2
<1>4. \/ /\ clients[c[1]] = c
         /\ clients' = [clients EXCEPT ![c[1]] = None]
         /\ send' = [send EXCEPT ![c] = closed]
      \/ UNCHANGED <<clients, send>>
  BY Zenon DEF unregisterClient, isCurrent
<1>5. /\ \A d \in Client : conn'[d] = "idle" => conn[d] = "idle" /\ d # c
      /\ \A d \in Client \ {c} : send'[d] = send[d]
  BY <1>0, <1>1, <1>4
<1>6. ASSUME NEW d \in registered'
      PROVE  d \in registered /\ send'[d] = send[d]
  <2>1. CASE /\ clients[c[1]] = c
             /\ clients' = [clients EXCEPT ![c[1]] = None]
             /\ send' = [send EXCEPT ![c] = closed]
    <3>1. PICK q \in Player : clients'[q] = d /\ d # None
      BY DEF registered
    <3>2. q # c[1] /\ clients[q] = d
      BY <1>0, <2>1, <3>1
    <3>3. d # c /\ d \in Client
      BY <1>0, <2>1, <3>1, <3>2 DEF IInv, OwnSockets
    <3> QED
      BY <1>5, <3>1, <3>2, <3>3 DEF registered
  <2>2. CASE UNCHANGED <<clients, send>>
    BY <2>2 DEF registered
  <2> QED
    BY <1>4, <2>1, <2>2
<1>7. Fresh'
  <2>1. \A d \in Client : conn'[d] = "idle" => send'[d].view = 0
    BY <1>5 DEF Told, Fresh
  <2>2. ASSUME ~ghost'.shedDelta, broadcast' = <<>>, NEW d \in registered',
               send'[d].fits
        PROVE  send'[d].view >= ghost'.announced
    BY <1>1, <1>3, <1>6, <2>2 DEF Told, Fresh
  <2>3. ~ghost'.shedDelta /\ broadcast' # <<>> =>
            broadcast'[Len(broadcast')] = ghost'.announced
    BY <1>1, <1>3 DEF Told, Fresh
  <2>4. ghost'.announced <= version'
    BY <1>1, <1>3 DEF Told, Fresh
  <2> QED
    BY <2>1, <2>2, <2>3, <2>4 DEF Fresh
<1>8. StatsKept'
  BY <1>1, <1>3, StatsAside DEF Told
<1> QED
  BY <1>3, <1>7, <1>8 DEF Told

\* Pumps and timers.
LEMMA ToldAside ==
    ASSUME IInv, Told, UNCHANGED <<conn, clients, broadcast, stats, pendingStats>>,
           version' \in {version, version + 1},
           ghost' \in GhostState, ghost'.made = ghost.made,
           ghost'.shedStats = ghost.shedStats, ghost'.shedDelta = ghost.shedDelta,
           ghost'.announced = ghost.announced, ghost'.handed = ghost.handed,
           \A c \in Client : send'[c].view = send[c].view /\ send'[c].fits = send[c].fits
    PROVE  Told'
<1>1. Fresh'
  <2>1. ghost.announced \in Nat /\ Fresh
    BY DEF Told, GhostState
  <2> QED
    BY <2>1, FreshAside
<1>2. StatsKept'
  BY StatsAside DEF Told
<1> QED
  BY <1>1, <1>2 DEF Told

LEMMA ToldPumps ==
    ASSUME IInv, Told, NEW c \in Client,
           readPumpError(c) \/ handleInbound(c) \/ writePump(c)
    PROVE  Told'
<1>0. send \in [Client -> Chan] /\ ghost \in GhostState
  BY DEF Told, IInv, TypeOK, Chan
<1>1. UNCHANGED <<conn, clients, broadcast, version, stats, pendingStats, ghost>>
  BY DEF readPumpError, handleInbound, writePump, channels
<1>2. \/ UNCHANGED send
      \/ send' = [send EXCEPT ![c] = offer(@)]
      \/ clients[c[1]] # None /\ send' = [send EXCEPT ![clients[c[1]]] = offer(@)]
      \/ send' = [send EXCEPT ![c].queued = @ - 1]
  BY Zenon DEF readPumpError, handleInbound, writePump, sendError, Route
<1>3. \A d \in Client : /\ offer(send[d]).view = send[d].view
                        /\ offer(send[d]).fits = send[d].fits
  <2>1. version \in Nat
    BY DEF IInv, TypeOK
  <2> QED
    BY <1>0, <2>1, OfferViews
<1>4. clients[c[1]] # None => clients[c[1]] \in Client
  BY ClientPair DEF IInv, TypeOK
<1>5. \A d \in Client : send'[d].view = send[d].view /\ send'[d].fits = send[d].fits
  <2>1. CASE UNCHANGED send
    BY <2>1
  <2>2. CASE send' = [send EXCEPT ![c] = offer(@)]
    BY <1>0, <1>3, <2>2
  <2>3. CASE clients[c[1]] # None /\ send' = [send EXCEPT ![clients[c[1]]] = offer(@)]
    BY <1>0, <1>3, <1>4, <2>3
  <2>4. CASE send' = [send EXCEPT ![c].queued = @ - 1]
    BY <1>0, <2>4 DEF Chan
  <2> QED
    BY <1>2, <2>1, <2>2, <2>3, <2>4
<1> QED
  BY <1>0, <1>1, <1>5, ToldAside

LEMMA ToldGrace ==
    ASSUME IInv, Told,
           \/ \E p \in Player : expire(p) \/ timerCallback(p)
           \/ handleAbandonment \/ RestoreSessions
    PROVE  Told'
<1>0. ghost \in GhostState
  BY DEF Told
<1>1. /\ UNCHANGED <<conn, clients, send, broadcast, stats, pendingStats>>
      /\ version' \in {version, version + 1}
  BY DEF expire, timerCallback, handleAbandonment, HandlePlayerAbandoned,
         RestoreSessions, channels
<1>2. \/ ghost' = ghost
      \/ \E p \in Player : ghost' = [ghost EXCEPT !.graceOver[p] = TRUE]
      \/ \E p \in Player : ghost' = [ghost EXCEPT !.shedAbandon = @ \cup {p}]
  BY Zenon DEF expire, timerCallback, handleAbandonment, RestoreSessions
<1>3. /\ ghost' \in GhostState /\ ghost'.made = ghost.made
      /\ ghost'.shedStats = ghost.shedStats /\ ghost'.shedDelta = ghost.shedDelta
      /\ ghost'.announced = ghost.announced
      /\ ghost'.handed = ghost.handed
  <2>1. CASE ghost' = ghost
    BY <1>0, <2>1
  <2>2. CASE \E p \in Player : ghost' = [ghost EXCEPT !.graceOver[p] = TRUE]
    BY <1>0, <2>2, GraceGhost, ZenonT(60)
  <2>3. CASE \E p \in Player : ghost' = [ghost EXCEPT !.shedAbandon = @ \cup {p}]
    BY <1>0, <2>3 DEF GhostState
  <2> QED
    BY <1>2, <2>1, <2>2, <2>3
<1> QED
  BY <1>1, <1>3, ToldAside

LEMMA TailKeeps ==
    ASSUME NEW S, NEW s \in Seq(S), s # <<>>
    PROVE  /\ Tail(s) = <<>> => Head(s) = s[Len(s)]
           /\ Tail(s) # <<>> => Tail(s)[Len(Tail(s))] = s[Len(s)]
           /\ \A i \in DOMAIN s :
                 s[i] = Head(s) \/ \E j \in DOMAIN Tail(s) : Tail(s)[j] = s[i]
<1>1. PICK L \in Nat : L = Len(s) /\ L > 0
  OBVIOUS
<1>2. /\ Len(Tail(s)) = L - 1 /\ DOMAIN s = 1..L /\ Head(s) = s[1]
      /\ DOMAIN Tail(s) = 1..Len(Tail(s)) /\ Tail(s) \in Seq(S)
      /\ \A i \in 1..(L - 1) : Tail(s)[i] = s[i + 1]
  BY <1>1
<1>3. Tail(s) = <<>> => L = 1
  <2> SUFFICES ASSUME L # 1 PROVE Tail(s) # <<>>
    BY Zenon
  <2>1. 1 \in DOMAIN Tail(s)
    BY <1>1, <1>2
  <2>2. DOMAIN <<>> = {}
    OBVIOUS
  <2> QED
    BY <2>1, <2>2, Zenon
<1>4. Tail(s) # <<>> => L - 1 \in 1..(L - 1) /\ (L - 1) + 1 = L
  BY <1>1, <1>2
<1>5. ASSUME NEW i \in 1..L, i # 1
      PROVE  i - 1 \in DOMAIN Tail(s) /\ Tail(s)[i - 1] = s[i]
  <2>1. i - 1 \in 1..(L - 1) /\ (i - 1) + 1 = i
    BY <1>5
  <2> QED
    BY <1>2, <2>1
<1> QED
  BY <1>1, <1>2, <1>3, <1>4, <1>5

LEMMA ToldFrames ==
    ASSUME IInv, Told,
           \/ applyNotifier \/ handleSessionBroadcast \/ TerminateMatch
    PROVE  Told'
<1>0. /\ send \in [Client -> Chan] /\ ghost \in GhostState
      /\ version \in Nat /\ broadcast \in Seq(Nat)
      /\ \A c \in registered : c \in Client /\ conn[c] # "idle"
  BY RegisteredUsed DEF Told, IInv, TypeOK, Chan
<1>1. UNCHANGED <<conn, clients, stats, pendingStats>>
  BY DEF applyNotifier, handleSessionBroadcast, TerminateMatch, channels
<1>2. registered' = registered
  BY <1>1 DEF registered
<1>3. CASE applyNotifier
  <2>1. /\ version' = version + 1 /\ UNCHANGED send
        /\ broadcast' = IF Len(broadcast) < EventCap
                        THEN Append(broadcast, version + 1) ELSE broadcast
        /\ ghost' = [ghost EXCEPT !.announced = version + 1,
                                  !.shedDelta = Len(broadcast) >= EventCap]
        /\ Len(broadcast) \in Nat
    BY <1>0, <1>3 DEF applyNotifier, NotifySessionDelta
  <2>2. /\ ghost' \in GhostState /\ ghost'.made = ghost.made
        /\ ghost'.shedStats = ghost.shedStats /\ ghost'.handed = ghost.handed
        /\ ghost'.announced = version'
        /\ ghost'.shedDelta <=> Len(broadcast) >= EventCap
    <3>0. version + 1 \in Nat
      BY <1>0
    <3>1. CASE Len(broadcast) >= EventCap
      <4>1. (Len(broadcast) >= EventCap) = TRUE
        BY <3>1
      <4>2. ghost' = [ghost EXCEPT !.announced = version + 1, !.shedDelta = TRUE]
        BY <2>1, <4>1, Zenon
      <4> QED
        BY <1>0, <2>1, <3>0, <3>1, <4>2 DEF GhostState
    <3>2. CASE ~(Len(broadcast) >= EventCap)
      <4>1. (Len(broadcast) >= EventCap) = FALSE
        BY <3>2
      <4>2. ghost' = [ghost EXCEPT !.announced = version + 1, !.shedDelta = FALSE]
        BY <2>1, <4>1, Zenon
      <4> QED
        BY <1>0, <2>1, <3>0, <3>2, <4>2 DEF GhostState
    <3> QED
      BY <3>1, <3>2
  <2>3. ~ghost'.shedDelta =>
           broadcast' # <<>> /\ broadcast'[Len(broadcast')] = ghost'.announced
    <3>1. Append(broadcast, version + 1) # <<>> /\
          Append(broadcast, version + 1)[Len(Append(broadcast, version + 1))] = version + 1
      BY <1>0
    <3> QED
      BY <2>1, <2>2, <3>1, HubAssumption
  <2>4. Fresh'
    <3>1. ghost'.announced <= version'
      BY <1>0, <2>1, <2>2
    <3> QED
      BY <1>1, <2>1, <2>3, <3>1 DEF Told, Fresh
  <2>5. StatsKept'
    BY <1>1, <2>2, StatsAside DEF Told
  <2> QED
    BY <2>2, <2>4, <2>5 DEF Told
<1>4. CASE handleSessionBroadcast
  <2>1. /\ UNCHANGED <<version, ghost>> /\ broadcast # <<>> /\ broadcast' = Tail(broadcast)
        /\ send' = [c \in Client |-> IF c \in registered
                                     THEN offerView(send[c], Head(broadcast))
                                     ELSE send[c]]
    BY <1>4, Zenon DEF handleSessionBroadcast
  <2>2. /\ Len(broadcast) \in Nat \ {0} /\ Head(broadcast) \in Nat
        /\ broadcast' = <<>> => Head(broadcast) = broadcast[Len(broadcast)]
        /\ broadcast' # <<>> => broadcast'[Len(broadcast')] = broadcast[Len(broadcast)]
    <3>1. Len(broadcast) \in Nat \ {0} /\ Head(broadcast) \in Nat
      <4>1. Head(broadcast) \in Nat /\ Tail(broadcast) \in Seq(Nat)
            /\ Len(Tail(broadcast)) = Len(broadcast) - 1
        BY <1>0, <2>1, HeadTail
      <4>2. Len(broadcast) \in Nat /\ Len(Tail(broadcast)) \in Nat
        BY <1>0, <4>1
      <4> QED
        BY <4>1, <4>2, HubAssumption
    <3> QED
      BY <1>0, <2>1, <3>1, TailKeeps
  <2>3. \A c \in registered : send'[c].fits => send'[c].view = Head(broadcast)
    BY <1>0, <2>1, <2>2, OfferViews
  <2>4. \A c \in Client : conn'[c] = "idle" => send'[c].view = 0
    BY <1>0, <1>1, <2>1 DEF Told, Fresh
  <2>5. /\ ~ghost.shedDelta => broadcast[Len(broadcast)] = ghost.announced
        /\ ghost.announced <= version /\ ghost.announced \in Nat
    BY <2>1 DEF Told, Fresh, GhostState
  <2>6. Fresh'
    BY <1>2, <2>1, <2>2, <2>3, <2>4, <2>5 DEF Fresh
  <2>7. StatsKept'
    BY <1>1, <2>1, StatsAside DEF Told
  <2> QED
    BY <1>0, <2>1, <2>6, <2>7 DEF Told
<1>5. CASE TerminateMatch
  <2>1. /\ UNCHANGED <<version, ghost, broadcast>>
        /\ send' = [c \in Client |-> IF c \in registered
                                     THEN offerView(offer(send[c]), version)
                                     ELSE send[c]]
    BY <1>5, Zenon DEF TerminateMatch, channels
  <2>2. \A c \in registered : offer(send[c]) \in Chan
    BY <1>0, OfferType
  <2>3. \A c \in registered : send'[c].fits => send'[c].view = version
    BY <1>0, <2>1, <2>2, OfferViews
  <2>4. \A c \in Client : conn'[c] = "idle" => send'[c].view = 0
    BY <1>0, <1>1, <2>1 DEF Told, Fresh
  <2>5. Fresh'
    <3>1. ghost.announced \in Nat /\ ghost.announced <= version
      BY DEF Told, Fresh, GhostState
    <3>2. \A c \in registered : send'[c].fits => send'[c].view >= ghost.announced
      BY <1>0, <2>3, <3>1
    <3> QED
      BY <1>2, <2>1, <2>4, <3>1, <3>2 DEF Told, Fresh
  <2>6. StatsKept'
    BY <1>1, <2>1, StatsAside DEF Told
  <2> QED
    BY <1>0, <2>1, <2>5, <2>6 DEF Told
<1> QED
  BY <1>3, <1>4, <1>5

LEMMA ToldStatsMade ==
    ASSUME IInv, Told, NEW u \in Update, BroadcastPlayerStatsUpdate(u)
    PROVE  Told'
<1>0. ghost \in GhostState /\ stats \in Seq(Update)
  BY DEF Told, IInv, TypeOK
<1>1. UNCHANGED <<conn, send, clients, broadcast, pendingStats, version>>
  BY DEF BroadcastPlayerStatsUpdate
<1>2. CASE stats' = Append(stats, u) /\ ghost' = [ghost EXCEPT !.made = @ \cup {u}]
  <2>1. /\ ghost' \in GhostState /\ ghost'.made = ghost.made \cup {u}
        /\ ghost'.shedStats = ghost.shedStats /\ ghost'.shedDelta = ghost.shedDelta
        /\ ghost'.announced = ghost.announced
        /\ ghost'.handed = ghost.handed
    BY <1>0, <1>2 DEF GhostState
  <2>2. /\ \A i \in DOMAIN stats : i \in DOMAIN stats' /\ stats'[i] = stats[i]
        /\ Len(stats) + 1 \in DOMAIN stats' /\ stats'[Len(stats) + 1] = u
    BY <1>0, <1>2
  <2>3. StatsKept'
    <3> SUFFICES ASSUME NEW v \in ghost'.made \ ghost'.shedStats, NEW p \in Player
                 PROVE  \/ v \in ghost'.handed[p]
                        \/ \E i \in DOMAIN stats' : stats'[i] = v
                        \/ \E i \in DOMAIN pendingStats'[p] : pendingStats'[p][i] = v
      BY DEF StatsKept
    <3>1. CASE v = u
      BY <2>2, <3>1
    <3>2. CASE v # u
      <4>1. v \in ghost.made \ ghost.shedStats
        BY <2>1, <3>2
      <4> QED
        BY <1>1, <2>1, <2>2, <4>1 DEF Told, StatsKept
    <3> QED
      BY <3>1, <3>2
  <2>4. Fresh'
    <3>1. ghost.announced \in Nat /\ Fresh
      BY DEF Told, GhostState
    <3> QED
      BY <1>1, <2>1, <3>1, FreshAside
  <2> QED
    BY <2>1, <2>3, <2>4 DEF Told
<1>3. CASE /\ ghost' = [ghost EXCEPT !.made = @ \cup {u}, !.shedStats = @ \cup {u}]
           /\ UNCHANGED stats
  <2>1. /\ ghost' \in GhostState /\ ghost'.made = ghost.made \cup {u}
        /\ ghost'.shedStats = ghost.shedStats \cup {u}
        /\ ghost'.shedDelta = ghost.shedDelta /\ ghost'.handed = ghost.handed
        /\ ghost'.announced = ghost.announced
    BY <1>0, <1>3 DEF GhostState
  <2>2. StatsKept'
    BY <1>1, <1>3, <2>1 DEF Told, StatsKept
  <2>3. Fresh'
    <3>1. ghost.announced \in Nat /\ Fresh
      BY DEF Told, GhostState
    <3> QED
      BY <1>1, <2>1, <3>1, FreshAside
  <2> QED
    BY <2>1, <2>2, <2>3 DEF Told
<1> QED
  BY <1>2, <1>3 DEF BroadcastPlayerStatsUpdate

LEMMA ToldStats ==
    ASSUME IInv, Told, handleStatsBroadcast
    PROVE  Told'
<1>0. /\ ghost \in GhostState /\ stats \in Seq(Update)
      /\ send \in [Client -> Chan] /\ pendingStats \in [Player -> Seq(Update)]
      /\ version \in Nat
  BY DEF Told, IInv, TypeOK, Chan
<1> DEFINE u == Head(stats)
           h == [p \in Player |-> IF delivers(p) THEN ghost.handed[p] \cup {u}
                                  ELSE ghost.handed[p]]
<1>1. /\ UNCHANGED <<conn, clients, broadcast, version>>
      /\ stats # <<>> /\ stats' = Tail(stats)
      /\ send' = [c \in Client |-> IF c \in registered THEN offer(send[c])
                                   ELSE send[c]]
      /\ pendingStats' = [p \in Player |->
            IF delivers(p) THEN pendingStats[p] ELSE Append(pendingStats[p], u)]
      /\ ghost' = [ghost EXCEPT !.handed =
            [p \in Player |-> IF delivers(p) THEN @[p] \cup {u} ELSE @[p]]]
  BY Zenon DEF handleStatsBroadcast
<1>2. u \in Update
  BY <1>0, <1>1
<1>3. \A i \in DOMAIN stats : stats[i] = u \/ \E j \in DOMAIN stats' : stats'[j] = stats[i]
  BY <1>0, <1>1, TailKeeps
<1> HIDE DEF u
<1>4. h \in [Player -> SUBSET Update]
  BY <1>0, <1>2 DEF GhostState
<1>5. ghost' = [ghost EXCEPT !.handed = h]
  BY <1>1, Zenon
<1>6. \A p \in Player : ghost.handed[p] \subseteq h[p] /\ (delivers(p) => u \in h[p])
  OBVIOUS
<1> HIDE DEF h
<1>7. /\ ghost' \in GhostState /\ ghost'.made = ghost.made
      /\ ghost'.shedStats = ghost.shedStats /\ ghost'.shedDelta = ghost.shedDelta
      /\ ghost'.announced = ghost.announced
      /\ ghost'.handed = h
  BY <1>0, <1>4, <1>5 DEF GhostState
<1>8. Fresh'
  <2>1. \A c \in Client : send'[c].view = send[c].view /\ send'[c].fits = send[c].fits
    BY <1>0, <1>1, OfferViews
  <2> QED
    <3>1. ghost.announced \in Nat /\ Fresh
      BY DEF Told, GhostState
    <3> QED
      BY <1>1, <1>7, <2>1, <3>1, FreshAside
<1>9. StatsKept'
  <2> SUFFICES ASSUME NEW v \in ghost.made \ ghost.shedStats, NEW p \in Player
               PROVE  \/ v \in h[p]
                      \/ \E i \in DOMAIN stats' : stats'[i] = v
                      \/ \E i \in DOMAIN pendingStats'[p] : pendingStats'[p][i] = v
    BY <1>7 DEF StatsKept
  <2>1. \/ v \in ghost.handed[p]
        \/ \E i \in DOMAIN stats : stats[i] = v
        \/ \E i \in DOMAIN pendingStats[p] : pendingStats[p][i] = v
    BY DEF Told, StatsKept
  <2>2. CASE v = u
    <3>1. ~delivers(p) => pendingStats'[p] = Append(pendingStats[p], u)
      BY <1>1
    <3>2. /\ Len(pendingStats[p]) + 1 \in DOMAIN Append(pendingStats[p], u)
          /\ Append(pendingStats[p], u)[Len(pendingStats[p]) + 1] = u
      BY <1>0
    <3> QED
      BY <1>6, <2>2, <3>1, <3>2
  <2>3. CASE \E i \in DOMAIN pendingStats[p] : pendingStats[p][i] = v
    <3>1. \A i \in DOMAIN pendingStats[p] :
             /\ i \in DOMAIN Append(pendingStats[p], u)
             /\ Append(pendingStats[p], u)[i] = pendingStats[p][i]
      BY <1>0
    <3>2. pendingStats'[p] \in {pendingStats[p], Append(pendingStats[p], u)}
      BY <1>1
    <3> QED
      BY <2>3, <3>1, <3>2
  <2> QED
    BY <1>3, <1>6, <2>1, <2>2, <2>3
<1> QED
  BY <1>7, <1>8, <1>9 DEF Told

LEMMA ToldInit == Init => Told
<1> SUFFICES ASSUME Init PROVE Told
  OBVIOUS
<1>1. ghost \in GhostState /\ ghost.made = {} /\ ghost.announced = 0 /\ version = 0
  BY DEF Init, GhostState
<1>2. broadcast = <<>> /\ registered = {}
  BY DEF Init, registered
<1>3. \A c \in Client : send[c].view = 0
  BY DEF Init
<1> QED
  BY <1>1, <1>2, <1>3 DEF Told, Fresh, StatsKept

LEMMA ToldStep == IInv /\ Told /\ [Next]_vars => Told'
<1> SUFFICES ASSUME IInv, Told, [Next]_vars PROVE Told'
  OBVIOUS
<1>1. CASE UNCHANGED vars
  BY <1>1, ToldAside DEF vars, channels, Told
<1> QED
  BY <1>1, ToldRegister, ToldUnregister, ToldPumps, ToldGrace, ToldFrames,
     ToldStatsMade, ToldStats DEF Next

\* However sockets replace each other while frames are on their way, and with
\* any buffers: when the broadcast channel is empty and did not refuse the last
\* delta, every registered socket that took its last session frame has been
\* offered the state announced last or a newer one.
THEOREM LatestStateOffered == Spec => []ViewsCatchUp
<1>1. Told => ViewsCatchUp
  BY DEF Told, Fresh, ViewsCatchUp
<1> QED
  BY <1>1, InitInv, StepInv, ToldInit, ToldStep, PTL DEF Spec

\* A rating update that the stats channel took reaches a socket of every
\* player or stays buffered for it: deliverOrBufferStats and the flush at
\* registration lose none, for any number of players, updates and capacities.
THEOREM NoUpdateLost == Spec => []StatsKept
<1>1. Told => StatsKept
  BY DEF Told
<1> QED
  BY <1>1, InitInv, StepInv, ToldInit, ToldStep, PTL DEF Spec
=============================================================================
