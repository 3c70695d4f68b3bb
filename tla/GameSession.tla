---------------------------- MODULE GameSession ----------------------------
(***************************************************************************)
(* One domino match on every node of the cluster: the rules in pkg/models, *)
(* the game manager in pkg/engine that runs them under the session mutex,  *)
(* and the match FSM that feeds it committed commands.                     *)
(*                                                                         *)
(* The replicated log is taken at its word: every node receives the same   *)
(* commands in the same order (RaftNode is about whether that is so).      *)
(* What does not go through the log is here as the code has it: a player's *)
(* abandonment is applied on the node that held the socket, persisting to  *)
(* Dgraph may fail on one node and succeed on another, and a snapshot is   *)
(* encoded after the session mutex is released.                            *)
(***************************************************************************)
EXTENDS Integers, FiniteSets, Sequences, FiniteSetsExt

CONSTANTS
    Node,           \* the nodes that apply the log
    NumPlayers,     \* len(PlayerUIDs); a player is its seat
    MaxPip,         \* 6 in the code's double-six deck
    HandSizes,      \* tiles_per_hand of START_MATCH, the default put in
    Decks,          \* shuffles that DeterministicSeed may lead to
    SentPips,       \* value_left and value_right of a tile in a payload
    Abandonable,    \* players whose grace period may expire
    PersistMayFail, \* TRUE when SaveSession may return an error
    Snapshots,      \* TRUE when nodes compact and install snapshots
    MaxStarts,      \* bound: START_MATCH commands for the match
    MaxLag          \* bound: committed commands some node has not applied

Player   == 1..NumPlayers
NoPlayer == 0       \* CurrentTurn == ""
NoNode   == "none"
Pip      == 0..MaxPip
Tile     == {t \in Pip \X Pip : t[1] <= t[2]}

ASSUME ConstantsAssumption ==
    /\ IsFiniteSet(Node)
    /\ NumPlayers \in Nat \ {0}
    /\ MaxPip \in Nat
    /\ HandSizes \subseteq Nat \ {0}
    /\ \A d \in Decks : /\ d \in Seq(Tile)
                         /\ Len(d) = Cardinality(Tile)
                         /\ Tile = {d[i] : i \in DOMAIN d}
    /\ SentPips \subseteq Int \X Int
    /\ Abandonable \subseteq Player
    /\ PersistMayFail \in BOOLEAN
    /\ Snapshots \in BOOLEAN
    /\ MaxStarts \in Nat
    /\ MaxLag \in Nat

VARIABLES
    deck,        \* the shuffled deck of this match, from its session id
    pending,     \* committed commands a node has not applied
    session,     \* GameManager.sessions[id] of each node
    evaluating,  \* HandlePlayerAbandoned is between its critical sections
    snapshot,    \* the last snapshot of the FSM, see Snapshot
    history,     \* what happened to the match since the deal, see History
    starts       \* START_MATCH commands so far

vars == <<deck, pending, session, evaluating, snapshot, history, starts>>

-----------------------------------------------------------------------------
(* A session, and the commands that reach it.  A tile of the deck stands   *)
(* for its id and its pips.  A hand is a set: the code finds a tile in it  *)
(* by id, and every tile of the deck has its own.  A tile of the board has *)
(* the id that left the hand and the pips that the payload gave it, turned *)
(* the way it lies.                                                        *)

Absent    == "ABSENT"      \* no entry in the registry
Waiting   == "WAITING"
Active    == "ACTIVE"
Completed == "COMPLETED"

EmptyEnd == -1

Pips      == Int \X Int
BoardTile == [id : Tile, pips : Pips]

Hand == [tiles : SUBSET Tile, passed : BOOLEAN, abandoned : BOOLEAN]
Session == [status : {Absent, Waiting, Active, Completed},
            hands : [Player -> Hand],
            boneyard : Seq(Tile),
            board : Seq(BoardTile),
            left : Int, right : Int,
            turn : Player \cup {NoPlayer},
            locked : BOOLEAN]

Start == [op : {"START"}, setup : BOOLEAN, size : HandSizes]
\* The tile's pips are those of the hand (PLAYER_MOVE, which looks its id up)
\* or whatever came with the id (PLAY_TILE and the HTTP gateway).
Play  == {a \in [op : {"PLAY"}, player : Player, tile : Tile,
                 pips : Tile \cup SentPips, left : BOOLEAN] :
              a.pips = a.tile \/ a.pips \in SentPips}
Draw  == [op : {"DRAW"}, player : Player]
Pass  == [op : {"PASS"}, player : Player]
Turn  == Play \cup Draw \cup Pass
Command == Start \cup Turn

Outcome   == [winner : Player, reason : {"EMPTY_HAND", "FORFEIT", "BLOCKED"}]
NoOutcome == [winner |-> NoPlayer, reason |-> "NONE"]

\* ended: the outcomes published as match.ended; passedSince: who passed
\* since a tile was last placed.  Only properties read it.
History == [ended : Seq(Outcome), passedSince : SUBSET Player]

\* by is the node that copied the session and still holds its Raft mutex.
Snapshot == [phase : {"none", "copied", "encoded"}, by : Node \cup {NoNode},
             session : Session, history : History, pending : Seq(Command)]

\* Every variable holds a value of its Go type.
TypeOK ==
    /\ deck \in Decks
    /\ pending \in [Node -> Seq(Command)]
    /\ session \in [Node -> Session]
    /\ evaluating \in [Node -> BOOLEAN]
    /\ snapshot \in Snapshot
    /\ history \in [Node -> History]
    /\ starts \in Nat

-----------------------------------------------------------------------------
(* The rules: pkg/models.                                                  *)

NewGameSession ==
    [status |-> Waiting,
     hands |-> [p \in Player |->
                   [tiles |-> {}, passed |-> FALSE, abandoned |-> FALSE]],
     boneyard |-> <<>>, board |-> <<>>, left |-> EmptyEnd, right |-> EmptyEnd,
     turn |-> NoPlayer, locked |-> FALSE]

\* A hand with other tiles; a reset, a move and a draw clear HasPassed.
holding(hand, tiles) == [hand EXCEPT !.tiles = tiles, !.passed = FALSE]

\* Neither IsAbandoned, nor CurrentTurn, nor Status is reset.
ResetForSetup(s) ==
    [s EXCEPT !.hands = [p \in Player |-> holding(@[p], {})],
              !.board = <<>>, !.boneyard = <<>>,
              !.left = EmptyEnd, !.right = EmptyEnd, !.locked = FALSE]

canDeal(s, size) == NumPlayers * size <= Len(s.boneyard)

\* The k-th of the runs of size tiles on top of the boneyard.
dealt(s, k, size) == {s.boneyard[i] : i \in ((k - 1) * size + 1)..(k * size)}

DealHands(s, size) ==
    [s EXCEPT !.hands = [p \in Player |->
                           [@[p] EXCEPT !.tiles = dealt(s, p, size)]],
              !.boneyard = SubSeq(@, NumPlayers * size + 1, Len(@))]

RotateTurn(s) ==
    [s EXCEPT !.turn = IF @ = NoPlayer THEN 1 ELSE (@ % NumPlayers) + 1]

boardIsEmpty(s) == s.left = EmptyEnd /\ s.right = EmptyEnd

CanPlay(s, pips, left) ==
    \/ boardIsEmpty(s)
    \/ left  /\ s.left  \in {pips[1], pips[2]}
    \/ ~left /\ s.right \in {pips[1], pips[2]}

flip(pips) == <<pips[2], pips[1]>>

\* Mutant of oriented: a tile is placed the way it was drawn.
orientedAsDrawn(s, pips, left) == pips

\* The matching side of the tile faces inward.
oriented(s, pips, left) ==
    IF boardIsEmpty(s) THEN pips
    ELSE IF left THEN IF pips[2] # s.left  THEN flip(pips) ELSE pips
                 ELSE IF pips[1] # s.right THEN flip(pips) ELSE pips

\* The board after a tile is put down; no hand is looked at here.
placedOn(s, tile, pips, left) ==
    LET o == oriented(s, pips, left)
        t == [id |-> tile, pips |-> o]
    IN  IF left /\ ~boardIsEmpty(s)
        THEN [s EXCEPT !.board = <<t>> \o @, !.left = o[1]]
        ELSE [s EXCEPT !.board = Append(@, t), !.right = o[2],
                       !.left = IF boardIsEmpty(s) THEN o[1] ELSE @]

PlayTile(s, p, tile, pips, left) ==
    [placedOn(s, tile, pips, left)
        EXCEPT !.hands[p] = holding(@, @.tiles \ {tile})]

\* Mutant of DrawFromBoneyard: the tile stays on top of the boneyard.
DrawWithoutPop(s, p) ==
    [s EXCEPT !.hands[p].tiles = @ \cup {Head(s.boneyard)},
              !.hands[p].passed = FALSE]

DrawFromBoneyard(s, p) ==
    [s EXCEPT !.boneyard = Tail(@),
              !.hands[p] = holding(@, @.tiles \cup {Head(s.boneyard)})]

PassTurn(s, p) == RotateTurn([s EXCEPT !.hands[p].passed = TRUE])

activePlayers(s) == {p \in Player : ~s.hands[p].abandoned}

handScore(s, p) == MapThenSumSet(LAMBDA t : t[1] + t[2], s.hands[p].tiles)

\* Ties go to the lower seat.
lowestPipPlayer(s) ==
    Min({p \in activePlayers(s) :
            \A q \in activePlayers(s) : handScore(s, p) <= handScore(s, q)})

\* Mutant of EvaluateMatch: the last remaining player does not win.
EvaluateWithoutForfeit(s) ==
    LET active == activePlayers(s)
        out    == {p \in active : s.hands[p].tiles = {}}
        blocked == s.boneyard = <<>> /\ \A p \in active : s.hands[p].passed
    IN  IF out # {} THEN [winner |-> Min(out), reason |-> "EMPTY_HAND"]
        ELSE IF active # {} /\ blocked
        THEN [winner |-> lowestPipPlayer(s), reason |-> "BLOCKED"]
        ELSE NoOutcome

EvaluateMatch(s) ==
    LET active == activePlayers(s)
        out    == {p \in active : s.hands[p].tiles = {}}
        blocked == /\ s.boneyard = <<>>
                   /\ active # {}
                   /\ \A p \in active : s.hands[p].passed
    IN  CASE out # {} -> [winner |-> Min(out), reason |-> "EMPTY_HAND"]
          [] out = {} /\ Cardinality(active) = 1 ->
                [winner |-> Min(active), reason |-> "FORFEIT"]
          [] out = {} /\ Cardinality(active) # 1 /\ blocked ->
                [winner |-> lowestPipPlayer(s), reason |-> "BLOCKED"]
          [] OTHER -> NoOutcome

lockForCompletion(s) == [s EXCEPT !.locked = TRUE, !.status = Completed]

\* The early returns of ProcessGameTurn, PlayTile, DrawFromBoneyard, PassTurn.
accepts(s, a) ==
    /\ s.status \notin {Absent, Completed}
    /\ ~s.locked
    /\ s.turn = a.player
    /\ a.op = "PLAY" => /\ CanPlay(s, a.pips, a.left)
                        /\ a.tile \in s.hands[a.player].tiles
    /\ a.op = "DRAW" => s.boneyard # <<>>

moved(s, a) ==
    CASE a.op = "PLAY" -> PlayTile(s, a.player, a.tile, a.pips, a.left)
      [] a.op = "DRAW" -> DrawFromBoneyard(s, a.player)
      [] a.op = "PASS" -> PassTurn(s, a.player)

\* The session after an accepted turn, and the outcome if that ends the match.
ProcessGameTurn(s, a) ==
    LET after == [moved(s, a) EXCEPT !.status = Active]
        outcome == EvaluateMatch(after)
    IN  [outcome |-> outcome,
         session |-> IF outcome # NoOutcome THEN lockForCompletion(after)
                     ELSE IF a.op = "PLAY" THEN RotateTurn(after)
                     ELSE after]

-----------------------------------------------------------------------------
(* The game manager and the match FSM: pkg/engine, pkg/consensus/fsm.go.   *)

\* What SaveSession may answer.  The mutated session stays when it fails.
saves == IF PersistMayFail THEN BOOLEAN ELSE {TRUE}

published(h, outcome) ==
    IF outcome = NoOutcome THEN h ELSE [h EXCEPT !.ended = Append(@, outcome)]

\* CreateSnapshot runs under the Raft mutex, which Apply needs.
applies(n) ==
    /\ pending[n] # <<>>
    /\ ~(snapshot.phase = "copied" /\ snapshot.by = n)

NoHistory == [ended |-> <<>>, passedSince |-> {}]

NoSnapshot == [phase |-> "none", by |-> NoNode,
               session |-> [NewGameSession EXCEPT !.status = Absent],
               history |-> NoHistory, pending |-> <<>>]

Init ==
    /\ deck \in Decks
    /\ pending = [n \in Node |-> <<>>]
    /\ session = [n \in Node |-> [NewGameSession EXCEPT !.status = Absent]]
    /\ evaluating = [n \in Node |-> FALSE]
    /\ snapshot = NoSnapshot
    /\ history = [n \in Node |-> NoHistory]
    /\ starts = 0

\* The leader commits a command; players and clients may propose any, at any
\* time.  A client that repeats START_MATCH with the match id starts it again.
commit(c) ==
    /\ \A n \in Node : Len(pending[n]) < MaxLag
    /\ snapshot.phase # "none" => Len(snapshot.pending) < MaxLag
    /\ c.op = "START" => starts < MaxStarts
    /\ starts' = IF c.op = "START" THEN starts + 1 ELSE starts
    /\ pending' = [n \in Node |-> Append(pending[n], c)]
    /\ snapshot' = IF snapshot.phase = "none" THEN snapshot
                   ELSE [snapshot EXCEPT !.pending = Append(@, c)]
    /\ UNCHANGED <<deck, session, evaluating, history>>

\* A deal the deck is too small for fails after the reset: the error leaves
\* the session with the whole deck in its boneyard and its old status.
startedSession(s, c) ==
    LET created == IF s.status = Absent THEN NewGameSession ELSE s
        reset   == [ResetForSetup(created) EXCEPT !.boneyard = deck]
    IN  CASE ~c.setup -> created
          [] c.setup /\ ~canDeal(reset, c.size) -> reset
          [] c.setup /\ canDeal(reset, c.size) ->
                [DealHands(reset, c.size)
                    EXCEPT !.status = Active,
                           !.turn = IF @ = NoPlayer THEN 1 ELSE @]

ApplyReplicatedStartMatch(n) ==
    /\ applies(n)
    /\ LET c == Head(pending[n])
       IN  /\ c.op = "START"
           /\ session' = [session EXCEPT ![n] = startedSession(@, c)]
           /\ history' = [history EXCEPT ![n] = IF c.setup THEN NoHistory ELSE @]
    /\ pending' = [pending EXCEPT ![n] = Tail(@)]
    /\ UNCHANGED <<deck, evaluating, snapshot, starts>>

passedAfter(h, a) ==
    CASE a.op = "PLAY" -> [h EXCEPT !.passedSince = {}]
      [] a.op = "PASS" -> [h EXCEPT !.passedSince = @ \cup {a.player}]
      [] a.op = "DRAW" -> h

\* Mutant of ApplyReplicatedTurn: a turn that cannot be saved is rolled back.
TurnRolledBack(n) ==
    /\ applies(n)
    /\ LET a == Head(pending[n])
           result == ProcessGameTurn(session[n], a)
       IN  /\ a.op # "START"
           /\ \E saved \in saves :
                IF accepts(session[n], a) /\ saved
                THEN /\ session' = [session EXCEPT ![n] = result.session]
                     /\ history' = [history EXCEPT ![n] =
                            published(passedAfter(@, a), result.outcome)]
                ELSE UNCHANGED <<session, history>>
    /\ pending' = [pending EXCEPT ![n] = Tail(@)]
    /\ UNCHANGED <<deck, evaluating, snapshot, starts>>

\* processGameTurn: a failed save returns after the mutation and before the
\* events are published.
ApplyReplicatedTurn(n) ==
    /\ applies(n)
    /\ LET a == Head(pending[n])
           result == ProcessGameTurn(session[n], a)
       IN  /\ a.op # "START"
           /\ IF accepts(session[n], a)
              THEN \E saved \in saves :
                     /\ session' = [session EXCEPT ![n] = result.session]
                     /\ history' = [history EXCEPT ![n] =
                            published(passedAfter(@, a),
                                IF saved THEN result.outcome ELSE NoOutcome)]
              ELSE UNCHANGED <<session, history>>
    /\ pending' = [pending EXCEPT ![n] = Tail(@)]
    /\ UNCHANGED <<deck, evaluating, snapshot, starts>>

\* The first critical section, on the node that held the player's socket.
HandlePlayerAbandoned(n, p) ==
    /\ session[n].status # Absent
    /\ ~evaluating[n]
    /\ \E saved \in saves : evaluating' = [evaluating EXCEPT ![n] = saved]
    /\ LET marked == [session[n] EXCEPT !.hands[p].abandoned = TRUE]
           hasTurn == session[n].turn = p
       IN  /\ session' = [session EXCEPT ![n] =
                             IF hasTurn THEN PassTurn(marked, p) ELSE marked]
           /\ history' = IF hasTurn
                         THEN [history EXCEPT ![n].passedSince = @ \cup {p}]
                         ELSE history
    /\ UNCHANGED <<deck, pending, snapshot, starts>>

\* Mutant of evaluateAndMaybeFinalize: MutationsLocked is not looked at again.
evaluateEvenIfLocked(n) ==
    /\ evaluating[n]
    /\ evaluating' = [evaluating EXCEPT ![n] = FALSE]
    /\ LET outcome == EvaluateMatch(session[n])
       IN  /\ outcome # NoOutcome
           /\ session' = [session EXCEPT ![n] = lockForCompletion(@)]
           /\ history' = [history EXCEPT ![n] = published(@, outcome)]
    /\ UNCHANGED <<deck, pending, snapshot, starts>>

\* The second critical section.
evaluateAndMaybeFinalize(n) ==
    /\ evaluating[n]
    /\ evaluating' = [evaluating EXCEPT ![n] = FALSE]
    /\ LET outcome == EvaluateMatch(session[n])
       IN  IF session[n].locked \/ outcome = NoOutcome
           THEN UNCHANGED <<session, history>>
           ELSE /\ session' = [session EXCEPT ![n] = lockForCompletion(@)]
                /\ \E saved \in saves :
                     history' = [history EXCEPT ![n] =
                         published(@, IF saved THEN outcome ELSE NoOutcome)]
    /\ UNCHANGED <<deck, pending, snapshot, starts>>

\* SnapshotSessions copies the struct under the session mutex.
SnapshotSessions(n) ==
    /\ Snapshots
    /\ snapshot.phase # "copied"
    /\ session[n].status # Absent
    /\ snapshot' = [phase |-> "copied", by |-> n, session |-> session[n],
                    history |-> history[n], pending |-> pending[n]]
    /\ UNCHANGED <<deck, pending, session, evaluating, history, starts>>

\* The copy shares the array of hands with the live session, which the
\* encoder reads without the mutex: it sees each flag as it was or as it is.
seenByEncoder(old, new) ==
    {[p \in Player |-> [tiles |-> old[p].tiles, passed |-> passed[p],
                        abandoned |-> abandoned[p]]] :
        passed    \in {f \in [Player -> BOOLEAN] :
                          \A p \in Player : f[p] \in {old[p].passed, new[p].passed}},
        abandoned \in {f \in [Player -> BOOLEAN] :
                          \A p \in Player :
                              f[p] \in {old[p].abandoned, new[p].abandoned}}}

CreateSnapshot(n) ==
    /\ snapshot.phase = "copied"
    /\ snapshot.by = n
    /\ \E hands \in seenByEncoder(snapshot.session.hands, session[n].hands) :
          snapshot' = [snapshot EXCEPT !.phase = "encoded",
                                       !.session.hands = hands]
    /\ UNCHANGED <<deck, pending, session, evaluating, history, starts>>

\* A node that lags behind the snapshot installs it.
Restore(n) ==
    /\ snapshot.phase = "encoded"
    /\ Len(snapshot.pending) < Len(pending[n])
    /\ session' = [session EXCEPT ![n] = snapshot.session]
    /\ history' = [history EXCEPT ![n] = snapshot.history]
    /\ pending' = [pending EXCEPT ![n] = snapshot.pending]
    /\ UNCHANGED <<deck, evaluating, snapshot, starts>>

Next ==
    \/ \E c \in Command : commit(c)
    \/ \E n \in Node :
         \/ ApplyReplicatedStartMatch(n)
         \/ ApplyReplicatedTurn(n)
         \/ \E p \in Abandonable : HandlePlayerAbandoned(n, p)
         \/ evaluateAndMaybeFinalize(n)
         \/ SnapshotSessions(n)
         \/ CreateSnapshot(n)
         \/ Restore(n)

Spec == Init /\ [][Next]_vars

-----------------------------------------------------------------------------
(* Properties.                                                             *)

Sessions == {session[n] : n \in Node} \cup {snapshot.session}

\* Where the tile with a given id is: in a player's hand, or at a place in the
\* boneyard or on the board.
holders(s, t)    == {p \in Player : t \in s.hands[p].tiles}
inBoneyard(s, t) == {i \in DOMAIN s.boneyard : s.boneyard[i] = t}
onBoard(s, t)    == {i \in DOMAIN s.board : s.board[i].id = t}
places(s, t)     == ({"hand"} \X holders(s, t))
                        \cup ({"boneyard"} \X inBoneyard(s, t))
                        \cup ({"board"} \X onBoard(s, t))

\* No tile is lost or copied by deals, draws, plays and restarts, whatever pips
\* a payload gives it: unless nothing was ever dealt, every tile id of the deck
\* is in one place, once.
TilesConserved ==
    \A s \in Sessions :
        \/ \A t \in Tile : places(s, t) = {}
        \/ \A t \in Tile : Cardinality(places(s, t)) = 1

\* Whatever tiles are flipped and at whichever end, neighbours on the board
\* match and the cached ends are the outer pips of the chain.  The pips are the
\* ones that were sent, which need not be those of the tile played; pips of -1
\* are excepted, since the code takes them for an empty board.
Chained(s) ==
    /\ \A i \in 1..(Len(s.board) - 1) :
           s.board[i].pips[2] = s.board[i + 1].pips[1]
    /\ IF s.board = <<>> THEN boardIsEmpty(s)
       ELSE /\ s.left = s.board[1].pips[1]
            /\ s.right = s.board[Len(s.board)].pips[2]

BoardChained == \A s \in Sessions : Chained(s)

\* A match is locked exactly when its end has been published once: a turn and
\* an abandonment that both end it never publish it twice, or not at all.
AnnouncedOnce ==
    \A n \in Node : Len(history[n].ended) = IF session[n].locked THEN 1 ELSE 0

\* Every remaining player holds a tile, nobody remains alone, and unless all
\* have left somebody can still draw or has not passed.
undecided(s) ==
    LET active == activePlayers(s)
    IN  /\ \A p \in active : s.hands[p].tiles # {}
        /\ Cardinality(active) # 1
        /\ active # {} => \/ s.boneyard # <<>>
                          \/ \E p \in active : ~s.hands[p].passed

\* A match that is decided does not go on: however turns interleave with the
\* two halves of an abandonment, an unlocked match is undecided once the
\* abandonment has been evaluated.  A second START_MATCH is excepted: it deals
\* to players who have left and evaluates nothing.
DecidedMatchEnds ==
    \A n \in Node :
        (/\ session[n].status = Active /\ ~session[n].locked
         /\ ~evaluating[n] /\ starts < 2)
            => undecided(session[n])

\* A match ends as blocked only when every remaining player has passed since
\* a tile was last placed.  Stated for the theorem about two players; no run
\* checks it, and with three it does not hold (README.md, section 6).
BlockedAfterPasses ==
    \A n \in Node : \A i \in DOMAIN history[n].ended :
        history[n].ended[i].reason = "BLOCKED"
            => activePlayers(session[n]) \subseteq history[n].passedSince

\* Nodes that have applied the same commands hold the same session, and so
\* does a snapshot taken there.
ReplicasAgree ==
    \A m, n \in Node :
        /\ Len(pending[m]) = Len(pending[n]) => session[m] = session[n]
        /\ (snapshot.phase # "none" /\ Len(snapshot.pending) = Len(pending[n]))
               => snapshot.session = session[n]

=============================================================================
