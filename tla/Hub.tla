-------------------------------- MODULE Hub --------------------------------
(***************************************************************************)
(* The WebSocket hub of one node and one session (pkg/ws): sockets that    *)
(* come, replace each other and go, the grace period of a player without   *)
(* a socket, and the frames that reach the players.                        *)
(*                                                                         *)
(* The hub changes its maps on one goroutine and under its lock, so each   *)
(* case of Run is one action.  Read pumps, write pumps, timer callbacks,   *)
(* the apply loop, the rating worker and the match.ended workers run       *)
(* beside it and meet it in channels that refuse what does not fit.        *)
(***************************************************************************)
EXTENDS Integers, FiniteSets, Sequences

CONSTANTS
    Player,       \* the players of the session
    MaxConnects,  \* sockets a player opens
    SendCap,      \* sendBufferSize
    AbandonCap,   \* capacity of the abandon channel
    EventCap,     \* capacity of the broadcast and stats channels
    MaxVersion,   \* bounds the commands and snapshots the node applies
    MaxStats,     \* rating updates of the session
    None

ASSUME HubAssumption ==
    /\ MaxConnects \in Nat /\ SendCap \in Nat /\ AbandonCap \in Nat
    /\ EventCap \in Nat /\ MaxVersion \in Nat /\ MaxStats \in Nat
    /\ None \notin Player \X Nat

\* <<p, k>> is the k-th socket that p opens.
Client == Player \X (1..MaxConnects)

VARIABLES
    conn,         \* of a client: "idle", "live" (pumps running) or "gone"
    send,         \* of a client: its send channel, view is the version of
                  \* the last session frame offered to it, fits whether that
                  \* frame went in
    clients,      \* of a player: the registered socket or None
    status,       \* of a player: playerConnection.status, "" before the first
    timer,        \* of a player: playerConnection.timer
    strays,       \* of a player: running timers no state refers to any more
    callbacks,    \* of a player: timer callbacks that have yet to send
    abandon,      \* the abandon channel
    broadcast,    \* the broadcast channel: versions of the session
    stats,        \* the stats channel
    pendingStats, \* of a player: buffered updates
    version,      \* changes of the session on this node, announced or not
    ended,        \* "no", "published" or "terminated"
    crash,        \* who has panicked: "none", "hub" or "pump"
    ghost         \* what the properties remember, see Init

channels == <<abandon, broadcast, stats>>
graceVars == <<status, timer, strays, callbacks>>
vars == <<conn, send, clients, graceVars, channels, pendingStats, version,
          ended, crash, ghost>>

Status == {"", "CONNECTED", "DISCONNECTED", "ABANDONED"}
Update == 1..MaxStats

TypeOK ==
    /\ conn \in [Client -> {"idle", "live", "gone"}]
    /\ send \in [Client -> [open : BOOLEAN, queued : 0..SendCap,
                            view : Nat, fits : BOOLEAN]]
    /\ clients \in [Player -> Client \cup {None}]
    /\ status \in [Player -> Status]
    /\ timer \in [Player -> {"nil", "running", "fired"}]
    /\ strays \in [Player -> Nat]
    /\ callbacks \in [Player -> Nat]
    /\ abandon \in Seq(Player) /\ Len(abandon) <= AbandonCap
    /\ broadcast \in Seq(Nat) /\ Len(broadcast) <= EventCap
    /\ stats \in Seq(Update) /\ Len(stats) <= EventCap
    /\ pendingStats \in [Player -> Seq(Update)]
    /\ version \in Nat
    /\ ended \in {"no", "published", "terminated"}
    /\ crash \in {"none", "hub", "pump"}

Init ==
    /\ conn = [c \in Client |-> "idle"]
    /\ send = [c \in Client |-> [open |-> TRUE, queued |-> 0, view |-> 0,
                                 fits |-> TRUE]]
    /\ clients = [p \in Player |-> None]
    /\ status = [p \in Player |-> ""]
    /\ timer = [p \in Player |-> "nil"]
    /\ strays = [p \in Player |-> 0]
    /\ callbacks = [p \in Player |-> 0]
    /\ abandon = <<>> /\ broadcast = <<>> /\ stats = <<>>
    /\ pendingStats = [p \in Player |-> <<>>]
    /\ version = 0
    /\ ended = "no"
    /\ crash = "none"
    /\ ghost = [graceOver |-> [p \in Player |-> FALSE], \* of this disconnection
                handed    |-> [p \in Player |-> {}],    \* updates put on a socket
                made      |-> {},                       \* updates broadcast
                shedStats |-> {},                       \* refused by stats
                shedAbandon |-> {},                     \* refused by abandon
                announced |-> 0,                        \* version of the last delta
                shedDelta |-> FALSE]                    \* the last one refused

-----------------------------------------------------------------------------
(* Frames.                                                                 *)

\* Mutant of offer: the send does not fall through.
offerAlways(ch) == [ch EXCEPT !.queued = @ + 1]

\* A select that sends or falls through to its default case.
offer(ch) == [ch EXCEPT !.queued = IF @ < SendCap THEN @ + 1 ELSE @]

\* sendToPlayerLocked with a session frame of version v.
offerView(ch, v) ==
    [ch EXCEPT !.queued = IF @ < SendCap THEN @ + 1 ELSE @,
               !.view = IF ch.queued < SendCap THEN v ELSE @,
               !.fits = ch.queued < SendCap]

registered == {clients[p] : p \in Player} \ {None}

\* Mutant of flushPendingStats: updates that did not fit are forgotten.
flushPendingStatsAll(ch, pending) ==
    LET n == IF Len(pending) <= SendCap - ch.queued
             THEN Len(pending) ELSE SendCap - ch.queued
    IN  [ch |-> [ch EXCEPT !.queued = @ + n], taken |-> n, rest |-> <<>>]

\* flushPendingStatsLocked: all updates stay buffered when one does not fit.
flushPendingStats(ch, pending) ==
    LET n == IF Len(pending) <= SendCap - ch.queued
             THEN Len(pending) ELSE SendCap - ch.queued
    IN  [ch |-> [ch EXCEPT !.queued = @ + n], taken |-> n,
         rest |-> IF n = Len(pending) THEN <<>> ELSE pending]

\* close(client.send).  What is still in the channel goes to a socket that no
\* property looks at any more.
closed == [open |-> FALSE, queued |-> 0, view |-> 0, fits |-> TRUE]

\* Mutant of sendStateSnapshot: a new socket waits for the next delta.
sendNoSnapshot(ch) == ch

\* sendStateSnapshotLocked: there is no session before the first command.
sendStateSnapshot(ch) == IF version = 0 THEN ch ELSE offerView(ch, version)

-----------------------------------------------------------------------------
(* Sockets.                                                                *)

\* ServeConnect and registerClient.
registerClient(c) ==
    LET p     == c[1]
        old   == clients[p]
        flush == flushPendingStats(send[c], pendingStats[p])
    IN
    /\ crash = "none"
    /\ conn[c] = "idle"
    /\ \A k \in 1..(c[2] - 1) : conn[<<p, k>>] # "idle"
    /\ conn' = [conn EXCEPT ![c] = "live"]
    /\ clients' = [clients EXCEPT ![p] = c]
    /\ crash' = IF old # None /\ ~send[old].open THEN "hub" ELSE "none"
    /\ send' = [d \in Client |->
                   IF d = c THEN sendStateSnapshot(flush.ch)
                   ELSE IF d = old THEN closed ELSE send[d]]
    /\ timer' = [timer EXCEPT ![p] =
                    IF status[p] = "DISCONNECTED" THEN "nil" ELSE @]
    /\ status' = [status EXCEPT ![p] = "CONNECTED"]
    /\ pendingStats' = [pendingStats EXCEPT ![p] = flush.rest]
    /\ ghost' = [ghost EXCEPT !.handed[p] =
                    @ \cup {pendingStats[p][i] : i \in 1..flush.taken}]
    /\ UNCHANGED <<strays, callbacks, channels, version, ended>>

\* Mutant of isCurrent: a stale unregister is not recognised.
isCurrentPlayer(c) == clients[c[1]] # None

isCurrent(c) == clients[c[1]] = c

\* Mutant of scheduleReconnectTimer: the timer is not started again.
keepReconnectTimer(p) == timer

\* scheduleReconnectTimerLocked: a callback that already runs is not stopped.
scheduleReconnectTimer(p) == [timer EXCEPT ![p] = "running"]

\* The connection of c fails or is closed: the read pump always unregisters.
readPumpEnds(c) ==
    /\ conn[c] = "live"
    /\ conn' = [conn EXCEPT ![c] = "gone"]

\* The hub takes the client of a read pump that has ended from unregister.
unregisterClient(c) ==
    LET p == c[1] IN
    /\ crash = "none"
    /\ readPumpEnds(c)
    /\ IF isCurrent(c)
       THEN /\ clients' = [clients EXCEPT ![p] = None]
            /\ crash' = IF send[c].open THEN "none" ELSE "hub"
            /\ send' = [send EXCEPT ![c] = closed]
            /\ IF status[p] = "ABANDONED"
               THEN UNCHANGED <<status, timer, ghost>>
               ELSE /\ status' = [status EXCEPT ![p] = "DISCONNECTED"]
                    /\ timer' = scheduleReconnectTimer(p)
                    /\ ghost' = [ghost EXCEPT !.graceOver[p] = FALSE]
       ELSE UNCHANGED <<clients, crash, send, status, timer, ghost>>
    /\ UNCHANGED <<strays, callbacks, channels, pendingStats, version, ended>>

\* Nothing keeps the hub from closing the channel before.
sendError(c) ==
    IF send[c].open
    THEN send' = [send EXCEPT ![c] = offer(@)] /\ UNCHANGED crash
    ELSE crash' = "pump" /\ UNCHANGED send

\* The read pump gets a message that is not JSON.
readPumpError(c) ==
    /\ crash = "none"
    /\ conn[c] = "live"
    /\ sendError(c)
    /\ UNCHANGED <<conn, clients, graceVars, channels, pendingStats, version,
                   ended, ghost>>

\* What Route leaves in the hub: an error or a redirection for the player,
\* whichever socket is registered by now.  Moves themselves go to the log.
Route(p) == send' = [send EXCEPT ![clients[p]] = offer(@)]

\* The hub takes a message of c from inbound.
handleInbound(c) ==
    /\ crash = "none"
    /\ conn[c] # "idle"
    /\ clients[c[1]] # None
    /\ Route(c[1])
    /\ UNCHANGED <<conn, clients, graceVars, channels, pendingStats, version,
                   ended, crash, ghost>>

writePump(c) ==
    /\ crash = "none"
    /\ send[c].queued > 0
    /\ send' = [send EXCEPT ![c].queued = @ - 1]
    /\ UNCHANGED <<conn, clients, graceVars, channels, pendingStats, version,
                   ended, crash, ghost>>

-----------------------------------------------------------------------------
(* The grace period.                                                       *)

\* A timer expires; its callback is a goroutine of its own.
expire(p) ==
    /\ crash = "none"
    /\ \/ /\ timer[p] = "running"
          /\ timer' = [timer EXCEPT ![p] = "fired"]
          /\ ghost' = [ghost EXCEPT !.graceOver[p] = TRUE]
          /\ UNCHANGED strays
       \/ /\ strays[p] > 0
          /\ strays' = [strays EXCEPT ![p] = @ - 1]
          /\ UNCHANGED <<timer, ghost>>
    /\ callbacks' = [callbacks EXCEPT ![p] = @ + 1]
    /\ UNCHANGED <<conn, send, clients, status, channels, pendingStats, version,
                   ended, crash>>

\* The callback that scheduleReconnectTimerLocked installs.
timerCallback(p) ==
    /\ crash = "none"
    /\ callbacks[p] > 0
    /\ callbacks' = [callbacks EXCEPT ![p] = @ - 1]
    /\ IF Len(abandon) < AbandonCap
       THEN abandon' = Append(abandon, p) /\ UNCHANGED ghost
       ELSE /\ ghost' = [ghost EXCEPT !.shedAbandon = @ \cup {p}]
            /\ UNCHANGED abandon
    /\ UNCHANGED <<conn, send, clients, status, timer, strays, broadcast, stats,
                   pendingStats, version, ended, crash>>

\* Mutant of abandons: whoever has an event is abandoned.
abandonsAlways(p) == TRUE

abandons(p) == status[p] = "DISCONNECTED"

\* HandlePlayerAbandoned marks the hand, passes the turn on and may end the
\* match.  It does not look at MutationsLocked before it does, and nothing
\* tells the hub of the change.
HandlePlayerAbandoned ==
    IF version = 0 THEN UNCHANGED <<version, ended>>
    ELSE /\ version' = version + 1
         /\ ended' \in IF ended = "no" THEN {"no", "published"} ELSE {ended}

\* handleAbandonment drops the timer without stopping it.
handleAbandonment ==
    /\ crash = "none"
    /\ abandon # <<>>
    /\ LET p == Head(abandon)
       IN  IF abandons(p)
           THEN /\ status' = [status EXCEPT ![p] = "ABANDONED"]
                /\ timer' = [timer EXCEPT ![p] = "nil"]
                /\ strays' = [strays EXCEPT ![p] =
                                 IF timer[p] = "running" THEN @ + 1 ELSE @]
                /\ HandlePlayerAbandoned
           ELSE UNCHANGED <<status, timer, strays, version, ended>>
    /\ abandon' = Tail(abandon)
    /\ UNCHANGED <<conn, send, clients, callbacks, broadcast, stats, pendingStats,
                   crash, ghost>>

-----------------------------------------------------------------------------
(* Session frames, the end of the match and rating updates.                *)

NotifySessionDelta(v) ==
    /\ broadcast' = IF Len(broadcast) < EventCap THEN Append(broadcast, v)
                    ELSE broadcast
    /\ ghost' = [ghost EXCEPT !.announced = v,
                              !.shedDelta = Len(broadcast) >= EventCap]

\* The node applies a command, which may end the match, and its apply
\* notifier offers the new state.
applyNotifier ==
    /\ crash = "none"
    /\ version < MaxVersion
    /\ ended = "no"
    /\ version' = version + 1
    /\ ended' \in {"no", "published"}
    /\ NotifySessionDelta(version + 1)
    /\ UNCHANGED <<conn, send, clients, graceVars, abandon, stats, pendingStats,
                   crash>>

\* The node restores a snapshot of the leader: the session is replaced and
\* nobody is told.
RestoreSessions ==
    /\ crash = "none"
    /\ version < MaxVersion
    /\ version' = version + 1
    /\ UNCHANGED <<conn, send, clients, graceVars, channels, pendingStats, ended,
                   crash, ghost>>

handleSessionBroadcast ==
    /\ crash = "none"
    /\ broadcast # <<>>
    /\ send' = [c \in Client |-> IF c \in registered
                                 THEN offerView(send[c], Head(broadcast))
                                 ELSE send[c]]
    /\ broadcast' = Tail(broadcast)
    /\ UNCHANGED <<conn, clients, graceVars, abandon, stats, pendingStats, version,
                   ended, crash, ghost>>

\* TerminateMatch, called by a match.ended worker: two frames per player.
TerminateMatch ==
    /\ crash = "none"
    /\ ended = "published"
    /\ ended' = "terminated"
    /\ send' = [c \in Client |-> IF c \in registered
                                 THEN offerView(offer(send[c]), version)
                                 ELSE send[c]]
    /\ UNCHANGED <<conn, clients, graceVars, channels, pendingStats, version,
                   crash, ghost>>

\* The rating worker announces update u.
BroadcastPlayerStatsUpdate(u) ==
    /\ crash = "none"
    /\ u \notin ghost.made
    /\ \A w \in Update : w < u => w \in ghost.made
    /\ IF Len(stats) < EventCap
       THEN stats' = Append(stats, u) /\ ghost' = [ghost EXCEPT !.made = @ \cup {u}]
       ELSE /\ ghost' = [ghost EXCEPT !.made = @ \cup {u},
                                      !.shedStats = @ \cup {u}]
            /\ UNCHANGED stats
    /\ UNCHANGED <<conn, send, clients, graceVars, abandon, broadcast,
                   pendingStats, version, ended, crash>>

\* Whether deliverOrBufferStatsLocked hands an update of p to its socket.
delivers(p) == clients[p] # None /\ send[clients[p]].queued < SendCap

handleStatsBroadcast ==
    /\ crash = "none"
    /\ stats # <<>>
    /\ LET u == Head(stats)
       IN  /\ send' = [c \in Client |-> IF c \in registered THEN offer(send[c])
                                        ELSE send[c]]
           /\ pendingStats' = [p \in Player |->
                 IF delivers(p) THEN pendingStats[p] ELSE Append(pendingStats[p], u)]
           /\ ghost' = [ghost EXCEPT !.handed =
                 [p \in Player |-> IF delivers(p) THEN @[p] \cup {u} ELSE @[p]]]
    /\ stats' = Tail(stats)
    /\ UNCHANGED <<conn, clients, graceVars, abandon, broadcast, version, ended,
                   crash>>

-----------------------------------------------------------------------------

Next ==
    \/ \E c \in Client :
         \/ registerClient(c)
         \/ unregisterClient(c)
         \/ readPumpError(c)
         \/ handleInbound(c)
         \/ writePump(c)
    \/ \E p \in Player : expire(p) \/ timerCallback(p)
    \/ handleAbandonment
    \/ applyNotifier
    \/ RestoreSessions
    \/ handleSessionBroadcast
    \/ TerminateMatch
    \/ \E u \in Update : BroadcastPlayerStatsUpdate(u)
    \/ handleStatsBroadcast

\* Timers expire, their callbacks run and the hub, whose select picks among
\* the channels that are ready, comes to the abandon channel.
Fairness ==
    /\ \A p \in Player : WF_vars(expire(p)) /\ WF_vars(timerCallback(p))
    /\ WF_vars(handleAbandonment)

Spec == Init /\ [][Next]_vars /\ Fairness

-----------------------------------------------------------------------------
(* Properties.                                                             *)

\* The hub never closes a send channel twice: a socket that was replaced is
\* not the current one any more when its own unregister arrives.
HubNeverPanics == crash # "hub"

\* What the hub says of a player is what the player has: connected means a
\* registered socket whose channel is open, and a socket that was replaced or
\* has gone gets no frames.
StatusMatchesSocket ==
    \A p \in Player :
        /\ status[p] = "CONNECTED" <=> clients[p] # None
        /\ \A k \in 1..MaxConnects :
             (conn[<<p, k>>] # "idle" /\ send[<<p, k>>].open)
                 <=> clients[p] = <<p, k>>

\* Once the channel is empty, every connected player has been offered the
\* last state that a delta announced or a newer one, by the frames of the
\* channel or by the snapshot at registration, unless a full buffer refused
\* it.  Abandonments and restored snapshots announce nothing: until the next
\* delta the players do not see them.
ViewsCatchUp ==
    (broadcast = <<>> /\ ~ghost.shedDelta) =>
        \A c \in registered : send[c].fits => send[c].view >= ghost.announced

\* A rating update is on its way to each player, buffered for it or handed to
\* one of its sockets, however sockets come and go, unless the channel
\* refused it.
StatsKept ==
    \A u \in ghost.made \ ghost.shedStats : \A p \in Player :
        \/ u \in ghost.handed[p]
        \/ \E i \in DOMAIN stats : stats[i] = u
        \/ \E i \in DOMAIN pendingStats[p] : pendingStats[p][i] = u

\* A player who stays away is abandoned in the end, unless the channel
\* refused the event.
DisconnectResolved ==
    \A p \in Player :
        (status[p] = "DISCONNECTED")
            ~> (\/ status[p] # "DISCONNECTED"
                \/ p \in ghost.shedAbandon
                \/ crash # "none")

\* Nobody is abandoned before the grace period that began with the last
\* disconnection is over.  Does not hold: the event of an earlier period may
\* still be in the channel.  No run checks it; README.md, section 6.
GraceHonoured ==
    [][\A p \in Player :
         (status[p] # "ABANDONED" /\ status'[p] = "ABANDONED")
             => ghost.graceOver[p]]_vars

=============================================================================
