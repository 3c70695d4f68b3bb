------------------------ MODULE GameSession_proofs ------------------------
(***************************************************************************)
(* What TLAPS proves of GameSession for every number of nodes and players, *)
(* every deck and every bound.                                             *)
(***************************************************************************)
EXTENDS GameSession, FiniteSetTheorems, SequenceTheorems, TLAPS

\* The part of TypeOK the other proofs need.  It leaves out the outcomes: who
\* wins a blocked match is a minimum over sums of pips.
SessionsTyped ==
    /\ deck \in Seq(Tile)
    /\ pending \in [Node -> Seq(Command)]
    /\ session \in [Node -> Session]
    /\ snapshot = [phase |-> snapshot.phase, by |-> snapshot.by,
                   session |-> snapshot.session,
                   history |-> snapshot.history,
                   pending |-> snapshot.pending]
    /\ snapshot.session \in Session
    /\ snapshot.pending \in Seq(Command)

-----------------------------------------------------------------------------
(* The rules of pkg/models keep a session well formed.                     *)

\* A new session, and the placeholder of one that does not exist, are sessions.
LEMMA NewGameSessionType ==
    /\ NewGameSession \in Session
    /\ [NewGameSession EXCEPT !.status = Absent] \in Session
<1>1. [p \in Player |-> [tiles |-> {}, passed |-> FALSE, abandoned |-> FALSE]]
          \in [Player -> Hand]
  BY DEF Hand
<1>2. <<>> \in Seq(Tile) /\ <<>> \in Seq(BoardTile)
  OBVIOUS
<1>3. EmptyEnd \in Int
  BY DEF EmptyEnd
<1> QED
  BY <1>1, <1>2, <1>3 DEF NewGameSession, Session

\* ResetForSetup leaves a session with an empty board.
LEMMA ResetForSetupType ==
    ASSUME NEW s \in Session
    PROVE  /\ ResetForSetup(s) \in Session
           /\ ResetForSetup(s).board = <<>>
           /\ boardIsEmpty(ResetForSetup(s))
           /\ ResetForSetup(s).locked = FALSE
<1>1. [p \in Player |-> holding(s.hands[p], {})] \in [Player -> Hand]
  BY DEF Session, Hand, holding
<1>2. <<>> \in Seq(Tile) /\ <<>> \in Seq(BoardTile)
  OBVIOUS
<1>3. EmptyEnd \in Int
  BY DEF EmptyEnd
<1> QED
  BY <1>1, <1>2, <1>3 DEF ResetForSetup, Session, boardIsEmpty

\* The tiles after the first k of a boneyard are a boneyard.
LEMMA RestOfBoneyard ==
    ASSUME NEW b \in Seq(Tile), NEW k \in Nat, k <= Len(b)
    PROVE  SubSeq(b, k + 1, Len(b)) \in Seq(Tile)
OBVIOUS

\* DealHands only takes tiles from the boneyard.
LEMMA DealHandsType ==
    ASSUME NEW s \in Session, NEW size \in HandSizes, canDeal(s, size)
    PROVE  /\ DealHands(s, size) \in Session
           /\ DealHands(s, size).board = s.board
           /\ DealHands(s, size).left = s.left
           /\ DealHands(s, size).right = s.right
           /\ DealHands(s, size).locked = s.locked
<1>1. size \in Nat \ {0} /\ NumPlayers \in Nat \ {0}
  BY ConstantsAssumption
<1>2. s.boneyard \in Seq(Tile)
  BY DEF Session
<1>3. NumPlayers * size \in Nat /\ NumPlayers * size <= Len(s.boneyard)
  BY <1>1 DEF canDeal
<1>4. SubSeq(s.boneyard, NumPlayers * size + 1, Len(s.boneyard)) \in Seq(Tile)
  BY <1>2, <1>3, RestOfBoneyard
<1>5. ASSUME NEW p \in Player
      PROVE  dealt(s, p, size) \subseteq Tile
  <2>1. p \in 1..NumPlayers
    BY DEF Player
  <2>2. p * size <= NumPlayers * size /\ (p - 1) * size + 1 >= 1
    BY <1>1, <2>1
  <2>3. \A i \in ((p - 1) * size + 1)..(p * size) : i \in 1..Len(s.boneyard)
    BY <1>1, <1>2, <1>3, <2>1, <2>2
  <2> QED
    BY <1>2, <2>3 DEF dealt
<1> QED
  BY <1>4, <1>5, ZenonT(60) DEF DealHands, Session, Hand

\* What a rule that only moves the turn, the flags or the hands leaves alone.
SameBoard(s, t) == t.board = s.board /\ t.left = s.left /\ t.right = s.right

\* RotateTurn gives the turn to a seat, wrapping around.
LEMMA RotateTurnType ==
    ASSUME NEW s \in Session
    PROVE  /\ RotateTurn(s) \in Session
           /\ SameBoard(s, RotateTurn(s))
           /\ RotateTurn(s).locked = s.locked
<1>1. NumPlayers \in Nat \ {0}
  BY ConstantsAssumption
<1>2. s.turn \in 0..NumPlayers
  BY <1>1 DEF Session, Player, NoPlayer
<1>3. 1 \in Player /\ (s.turn % NumPlayers) + 1 \in Player
  BY <1>1, <1>2 DEF Player
<1> QED
  BY <1>3 DEF RotateTurn, Session, SameBoard

\* PassTurn only sets the flag and moves the turn.
LEMMA PassTurnType ==
    ASSUME NEW s \in Session, NEW p \in Player
    PROVE  /\ PassTurn(s, p) \in Session
           /\ SameBoard(s, PassTurn(s, p))
           /\ PassTurn(s, p).locked = s.locked
<1> DEFINE marked == [s EXCEPT !.hands[p].passed = TRUE]
<1>1. marked.hands \in [Player -> Hand]
  BY ZenonT(60) DEF Session, Hand
<1>2. marked \in Session /\ SameBoard(s, marked) /\ marked.locked = s.locked
  BY <1>1 DEF Session, SameBoard
<1> QED
  BY <1>2, RotateTurnType DEF PassTurn, SameBoard

\* DrawFromBoneyard moves the top tile into a hand.
LEMMA DrawFromBoneyardType ==
    ASSUME NEW s \in Session, NEW p \in Player, s.boneyard # <<>>
    PROVE  /\ DrawFromBoneyard(s, p) \in Session
           /\ SameBoard(s, DrawFromBoneyard(s, p))
           /\ DrawFromBoneyard(s, p).locked = s.locked
<1>1. s.boneyard \in Seq(Tile)
  BY DEF Session
<1>2. Head(s.boneyard) \in Tile /\ Tail(s.boneyard) \in Seq(Tile)
  BY <1>1
<1> DEFINE hand == holding(s.hands[p], s.hands[p].tiles \cup {Head(s.boneyard)})
<1>3. DrawFromBoneyard(s, p).hands \in [Player -> Hand]
  <2>1. hand \in Hand /\ s.hands \in [Player -> Hand]
    BY <1>2 DEF Session, Hand, holding
  <2>2. DrawFromBoneyard(s, p).hands = [s.hands EXCEPT ![p] = hand]
    BY DEF DrawFromBoneyard, Session
  <2> QED
    BY <2>1, <2>2
<1> QED
  BY <1>2, <1>3 DEF DrawFromBoneyard, Session, SameBoard

\* Pips, and pips turned over, are a pair of integers.
LEMMA OrientedType ==
    ASSUME NEW s, NEW pips \in Pips, NEW left
    PROVE  oriented(s, pips, left) \in Pips
BY DEF oriented, flip, Pips

\* The board and the ends after a tile is put down; the rest is left alone.
LEMMA PlacedOnParts ==
    ASSUME NEW s \in Session, NEW tile, NEW pips, NEW left \in BOOLEAN,
           NEW o, o = oriented(s, pips, left),
           NEW t, t = [id |-> tile, pips |-> o]
    PROVE  placedOn(s, tile, pips, left) =
               [status |-> s.status, hands |-> s.hands, boneyard |-> s.boneyard,
                board |-> IF left /\ ~boardIsEmpty(s) THEN <<t>> \o s.board
                          ELSE Append(s.board, t),
                left |-> IF left \/ boardIsEmpty(s) THEN o[1] ELSE s.left,
                right |-> IF left /\ ~boardIsEmpty(s) THEN s.right ELSE o[2],
                turn |-> s.turn, locked |-> s.locked]
<1>0. s = [status |-> s.status, hands |-> s.hands, boneyard |-> s.boneyard,
           board |-> s.board, left |-> s.left, right |-> s.right,
           turn |-> s.turn, locked |-> s.locked]
  BY DEF Session
<1>1. placedOn(s, tile, pips, left) =
        IF left /\ ~boardIsEmpty(s)
        THEN [s EXCEPT !.board = <<t>> \o s.board, !.left = o[1]]
        ELSE [s EXCEPT !.board = Append(s.board, t), !.right = o[2],
                       !.left = IF boardIsEmpty(s) THEN o[1] ELSE s.left]
  BY DEF placedOn
<1>2. CASE left /\ ~boardIsEmpty(s)
  <2>1. placedOn(s, tile, pips, left)
            = [s EXCEPT !.board = <<t>> \o s.board, !.left = o[1]]
    BY <1>1, <1>2
  <2> QED
    BY <1>0, <1>2, <2>1
<1>3. CASE ~(left /\ ~boardIsEmpty(s))
  <2>1. placedOn(s, tile, pips, left)
            = [s EXCEPT !.board = Append(s.board, t), !.right = o[2],
                        !.left = IF boardIsEmpty(s) THEN o[1] ELSE s.left]
    BY <1>1, <1>3
  <2> QED
    BY <1>0, <1>3, <2>1
<1> QED
  BY <1>2, <1>3

\* What PlayTile does to each part of session s; t is the tile as it lies.
LaidDown(s, q, p, tile, t, left) ==
    /\ q = [status |-> q.status, hands |-> q.hands, boneyard |-> q.boneyard,
            board |-> q.board, left |-> q.left, right |-> q.right,
            turn |-> q.turn, locked |-> q.locked]
    /\ q.hands = [s.hands EXCEPT ![p] =
                     holding(s.hands[p], s.hands[p].tiles \ {tile})]
    /\ q.status = s.status /\ q.boneyard = s.boneyard
    /\ q.turn = s.turn /\ q.locked = s.locked
    /\ q.board = IF left /\ ~boardIsEmpty(s) THEN <<t>> \o s.board
                 ELSE Append(s.board, t)
    /\ q.left = IF left \/ boardIsEmpty(s) THEN t.pips[1] ELSE s.left
    /\ q.right = IF left /\ ~boardIsEmpty(s) THEN s.right ELSE t.pips[2]

LEMMA PlayTileParts ==
    ASSUME NEW s \in Session, NEW p \in Player, NEW tile, NEW pips,
           NEW left \in BOOLEAN
    PROVE  LaidDown(s, PlayTile(s, p, tile, pips, left), p, tile,
                    [id |-> tile, pips |-> oriented(s, pips, left)], left)
<1> DEFINE o == oriented(s, pips, left)
           t == [id |-> tile, pips |-> o]
           q == PlayTile(s, p, tile, pips, left)
<1> DEFINE f == placedOn(s, tile, pips, left)
           board == IF left /\ ~boardIsEmpty(s) THEN <<t>> \o s.board
                    ELSE Append(s.board, t)
           l == IF left \/ boardIsEmpty(s) THEN o[1] ELSE s.left
           r == IF left /\ ~boardIsEmpty(s) THEN s.right ELSE o[2]
<1>1. f = [status |-> s.status, hands |-> s.hands, boneyard |-> s.boneyard,
           board |-> board, left |-> l, right |-> r,
           turn |-> s.turn, locked |-> s.locked]
  BY PlacedOnParts
<1>2. q = [f EXCEPT !.hands = [f.hands EXCEPT ![p] =
                                 holding(f.hands[p], f.hands[p].tiles \ {tile})]]
  BY DEF PlayTile
<1> HIDE DEF f, board, l, r
<1>3. f.hands = s.hands
  BY <1>1
<1> DEFINE hands == [s.hands EXCEPT ![p] =
                       holding(s.hands[p], s.hands[p].tiles \ {tile})]
<1> HIDE DEF q, hands
<1>4. q = [status |-> s.status, hands |-> hands, boneyard |-> s.boneyard,
           board |-> board, left |-> l, right |-> r,
           turn |-> s.turn, locked |-> s.locked]
  BY <1>1, <1>2, <1>3 DEF hands
<1>5. /\ q = [status |-> q.status, hands |-> q.hands,
              boneyard |-> q.boneyard, board |-> q.board,
              left |-> q.left, right |-> q.right,
              turn |-> q.turn, locked |-> q.locked]
      /\ q.hands = hands /\ q.board = board /\ q.left = l /\ q.right = r
      /\ q.status = s.status /\ q.boneyard = s.boneyard
      /\ q.turn = s.turn /\ q.locked = s.locked
  BY <1>4
<1>6. o = t.pips
  OBVIOUS
<1> HIDE DEF t, o
<1>7. LaidDown(s, q, p, tile, t, left)
  BY <1>5, <1>6 DEF LaidDown, board, l, r, hands
<1> QED
  BY <1>7 DEF q, t, o

\* PlayTile puts the tile on the board and takes it out of the hand.
LEMMA PlayTileType ==
    ASSUME NEW s \in Session, NEW p \in Player, NEW tile \in Tile,
           NEW pips \in Pips, NEW left \in BOOLEAN
    PROVE  /\ PlayTile(s, p, tile, pips, left) \in Session
           /\ PlayTile(s, p, tile, pips, left).locked = s.locked
<1> DEFINE o == oriented(s, pips, left)
           t == [id |-> tile, pips |-> o]
           q == PlayTile(s, p, tile, pips, left)
           hand == holding(s.hands[p], s.hands[p].tiles \ {tile})
<1>1. o \in Pips /\ o[1] \in Int /\ o[2] \in Int
  BY OrientedType DEF Pips
<1>2. s.board \in Seq(BoardTile) /\ t \in BoardTile
  BY <1>1 DEF Session, BoardTile
<1>3. <<t>> \o s.board \in Seq(BoardTile) /\ Append(s.board, t) \in Seq(BoardTile)
  BY <1>2
<1>4. hand \in Hand /\ s.hands \in [Player -> Hand]
  BY DEF Session, Hand, holding
<1>5. [s.hands EXCEPT ![p] = hand] \in [Player -> Hand]
  BY <1>4
<1> DEFINE board == IF left /\ ~boardIsEmpty(s) THEN <<t>> \o s.board
                    ELSE Append(s.board, t)
           l == IF left \/ boardIsEmpty(s) THEN o[1] ELSE s.left
           r == IF left /\ ~boardIsEmpty(s) THEN s.right ELSE o[2]
           hands == [s.hands EXCEPT ![p] = hand]
<1>6. /\ q = [status |-> q.status, hands |-> q.hands,
              boneyard |-> q.boneyard, board |-> q.board,
              left |-> q.left, right |-> q.right,
              turn |-> q.turn, locked |-> q.locked]
      /\ q.hands = hands /\ q.board = board /\ q.left = l /\ q.right = r
      /\ q.status = s.status /\ q.boneyard = s.boneyard
      /\ q.turn = s.turn /\ q.locked = s.locked
  <2>1. LaidDown(s, q, p, tile, t, left) /\ t.pips = o
    BY PlayTileParts
  <2> HIDE DEF q, t, o
  <2> QED
    BY <2>1 DEF LaidDown
<1>7. board \in Seq(BoardTile) /\ l \in Int /\ r \in Int
  BY <1>1, <1>3 DEF Session
<1> HIDE DEF q, board, l, r
<1>8. q \in Session /\ q.locked = s.locked
  BY <1>5, <1>6, <1>7 DEF Session
<1> QED
  BY <1>8 DEF q

\* No payload carries the value that stands for an empty end.
PipsAreSent == \A q \in SentPips : q[1] # EmptyEnd /\ q[2] # EmptyEnd

\* No tile of the board shows that value.
Shows(s) == \A i \in DOMAIN s.board :
                s.board[i].pips[1] # EmptyEnd /\ s.board[i].pips[2] # EmptyEnd

\* What the board keeps when payloads carry pips.
Linked(s) == PipsAreSent => Chained(s) /\ Shows(s)

BoardLinked == \A s \in Sessions : Linked(s)

\* A tile that CanPlay allows lands with its matching side inward, so the
\* board stays a chain whose ends are the cached ones.
LEMMA PlayTileChained ==
    ASSUME NEW s \in Session, NEW p \in Player, NEW tile \in Tile,
           NEW pips \in Pips, NEW left \in BOOLEAN,
           CanPlay(s, pips, left), Chained(s), Shows(s)
    PROVE  Chained(PlayTile(s, p, tile, pips, left))
<1> DEFINE o == oriented(s, pips, left)
           t == [id |-> tile, pips |-> o]
           q == PlayTile(s, p, tile, pips, left)
<1>0. /\ q.board = IF left /\ ~boardIsEmpty(s) THEN <<t>> \o s.board
                   ELSE Append(s.board, t)
      /\ q.left = IF left \/ boardIsEmpty(s) THEN o[1] ELSE s.left
      /\ q.right = IF left /\ ~boardIsEmpty(s) THEN s.right ELSE o[2]
  <2>1. LaidDown(s, q, p, tile, t, left) /\ t.pips = o
    BY PlayTileParts
  <2> HIDE DEF q, t, o
  <2> QED
    BY <2>1 DEF LaidDown
<1>1. o \in Pips /\ t \in BoardTile /\ t.pips = o /\ s.board \in Seq(BoardTile)
  BY OrientedType DEF Session, BoardTile
<1>2. s.board # <<>> => s.board[1].pips[1] # EmptyEnd
  BY <1>1 DEF Shows
<1>3. boardIsEmpty(s) <=> s.board = <<>>
  BY <1>1, <1>2 DEF Chained, boardIsEmpty
<1> HIDE DEF q
<1>4. CASE s.board = <<>>
  <2>1. q.board = <<t>> /\ q.left = o[1] /\ q.right = o[2]
    BY <1>0, <1>1, <1>3, <1>4
  <2>2. Len(q.board) = 1 /\ q.board # <<>> /\ q.board[1] = t
    BY <2>1
  <2>3. Chained(q)
    <3> HIDE DEF t, o
    <3> QED
      BY <1>1, <2>1, <2>2 DEF Chained
  <2> QED
    BY <2>3 DEF q
<1>5. CASE s.board # <<>> /\ left
  <2>1. q.board = <<t>> \o s.board /\ q.left = o[1] /\ q.right = s.right
    BY <1>0, <1>3, <1>5
  <2>2. o[2] = s.left
    BY <1>3, <1>5 DEF oriented, CanPlay, flip, Pips
  <2>3. s.left = s.board[1].pips[1] /\ s.right = s.board[Len(s.board)].pips[2]
    BY <1>5 DEF Chained
  <2>4. /\ Len(q.board) = Len(s.board) + 1
        /\ q.board[1] = t
        /\ \A i \in 1..Len(s.board) : q.board[i + 1] = s.board[i]
    BY <1>1, <2>1
  <2>5. Len(s.board) \in Nat \ {0}
    BY <1>1, <1>5
  <2>6. ASSUME NEW i \in 1..(Len(q.board) - 1)
        PROVE  q.board[i].pips[2] = q.board[i + 1].pips[1]
    <3>1. CASE i = 1
      BY <2>2, <2>3, <2>4, <2>5, <3>1
    <3>2. CASE i # 1
      <4>1. i - 1 \in 1..(Len(s.board) - 1)
        BY <2>4, <2>5, <3>2
      <4>2. q.board[i] = s.board[i - 1] /\ q.board[i + 1] = s.board[i]
        BY <2>4, <2>5, <3>2, <4>1
      <4>3. s.board[i - 1].pips[2] = s.board[(i - 1) + 1].pips[1]
        BY <4>1 DEF Chained
      <4> QED
        BY <4>1, <4>2, <4>3
    <3> QED
      BY <3>1, <3>2
  <2>7. q.board[Len(q.board)] = s.board[Len(s.board)]
    BY <2>4, <2>5
  <2>8. q.board # <<>>
    BY <2>4, <2>5
  <2>9. Chained(q)
    <3> HIDE DEF t, o
    <3> QED
      BY <1>1, <2>1, <2>3, <2>4, <2>6, <2>7, <2>8 DEF Chained
  <2> QED
    BY <2>9 DEF q
<1>6. CASE s.board # <<>> /\ ~left
  <2>1. q.board = Append(s.board, t) /\ q.left = s.left /\ q.right = o[2]
    BY <1>0, <1>3, <1>6
  <2>2. o[1] = s.right
    BY <1>3, <1>6 DEF oriented, CanPlay, flip, Pips
  <2>3. s.left = s.board[1].pips[1] /\ s.right = s.board[Len(s.board)].pips[2]
    BY <1>6 DEF Chained
  <2>4. /\ Len(q.board) = Len(s.board) + 1
        /\ q.board[Len(q.board)] = t
        /\ \A i \in 1..Len(s.board) : q.board[i] = s.board[i]
    BY <1>1, <2>1
  <2>5. Len(s.board) \in Nat \ {0}
    BY <1>1, <1>6
  <2>6. ASSUME NEW i \in 1..(Len(q.board) - 1)
        PROVE  q.board[i].pips[2] = q.board[i + 1].pips[1]
    <3>1. CASE i = Len(s.board)
      BY <2>2, <2>3, <2>4, <2>5, <3>1
    <3>2. CASE i # Len(s.board)
      <4>1. i \in 1..(Len(s.board) - 1) /\ i + 1 \in 1..Len(s.board)
        BY <2>4, <2>5, <3>2
      <4>2. s.board[i].pips[2] = s.board[i + 1].pips[1]
        BY <4>1 DEF Chained
      <4>3. q.board[i] = s.board[i] /\ q.board[i + 1] = s.board[i + 1]
        <5>1. i \in 1..Len(s.board)
          BY <2>5, <4>1
        <5> QED
          BY <2>4, <4>1, <5>1, Zenon
      <4> QED
        BY <4>2, <4>3, Zenon
    <3> QED
      BY <3>1, <3>2
  <2>7. q.board[1] = s.board[1]
    BY <2>4, <2>5
  <2>8. q.board # <<>>
    BY <2>4, <2>5
  <2>9. Chained(q)
    <3> HIDE DEF t, o
    <3> QED
      BY <1>1, <2>1, <2>3, <2>4, <2>6, <2>7, <2>8 DEF Chained
  <2> QED
    BY <2>9 DEF q
<1> QED
  BY <1>4, <1>5, <1>6

\* The tile that lands shows what the payload carried.
LEMMA PlayTileShows ==
    ASSUME NEW s \in Session, NEW p \in Player, NEW tile \in Tile,
           NEW pips \in Pips, NEW left \in BOOLEAN,
           pips[1] # EmptyEnd, pips[2] # EmptyEnd, Shows(s)
    PROVE  Shows(PlayTile(s, p, tile, pips, left))
<1> DEFINE o == oriented(s, pips, left)
           t == [id |-> tile, pips |-> o]
           q == PlayTile(s, p, tile, pips, left)
<1>1. /\ o[1] # EmptyEnd /\ o[2] # EmptyEnd /\ t.pips = o
      /\ t \in BoardTile /\ s.board \in Seq(BoardTile)
  BY OrientedType DEF oriented, flip, Session, BoardTile
<1>2. q.board = IF left /\ ~boardIsEmpty(s) THEN <<t>> \o s.board
                ELSE Append(s.board, t)
  <2>1. LaidDown(s, q, p, tile, t, left)
    BY PlayTileParts
  <2> QED
    BY <2>1 DEF LaidDown
<1> HIDE DEF q, t, o
<1>3. \A i \in DOMAIN q.board : q.board[i] = t \/ \E j \in DOMAIN s.board : q.board[i] = s.board[j]
  <2>1. CASE q.board = <<t>> \o s.board
    <3>1. ASSUME NEW i \in DOMAIN q.board, i # 1
          PROVE  i - 1 \in DOMAIN s.board /\ q.board[i] = s.board[i - 1]
      BY <1>1, <2>1, <3>1
    <3>2. q.board[1] = t
      BY <1>1, <2>1
    <3> QED
      BY <3>1, <3>2
  <2>2. CASE q.board = Append(s.board, t)
    BY <1>1, <2>2
  <2> QED
    BY <1>2, <2>1, <2>2
<1>4. Shows(q)
  BY <1>1, <1>3 DEF Shows
<1> QED
  BY <1>4 DEF q

\* A chain stays one when the board and its ends are left alone.
LEMMA SameBoardLinked ==
    ASSUME NEW s, NEW t, SameBoard(s, t), Linked(s)
    PROVE  Linked(t)
BY DEF SameBoard, Linked, Shows, Chained, boardIsEmpty

\* An empty board with empty ends is a chain.
LEMMA EmptyBoardLinked ==
    ASSUME NEW s, s.board = <<>>, boardIsEmpty(s)
    PROVE  Linked(s)
BY DEF Linked, Shows, Chained

\* Locking a session leaves the rest of it alone.
LEMMA LockForCompletionType ==
    ASSUME NEW s \in Session
    PROVE  /\ lockForCompletion(s) \in Session
           /\ SameBoard(s, lockForCompletion(s))
           /\ lockForCompletion(s).locked = TRUE
           /\ lockForCompletion(s).status # Absent
BY DEF lockForCompletion, Session, SameBoard, Completed, Absent

\* The move of an accepted turn keeps the session well formed and chained.
LEMMA MovedType ==
    ASSUME NEW s \in Session, NEW a \in Turn, accepts(s, a)
    PROVE  /\ moved(s, a) \in Session
           /\ moved(s, a).locked = s.locked
           /\ Linked(s) => Linked(moved(s, a))
<1>1. CASE a \in Play
  <2>1. /\ a.op = "PLAY" /\ a.player \in Player /\ a.tile \in Tile
        /\ a.left \in BOOLEAN /\ a.pips \in Tile \cup SentPips
    BY <1>1 DEF Play
  <2>2. a.pips \in Pips
    BY <2>1, ConstantsAssumption DEF Tile, Pip, Pips
  <2>3. PipsAreSent => a.pips[1] # EmptyEnd /\ a.pips[2] # EmptyEnd
    BY <2>1, ConstantsAssumption DEF Tile, Pip, PipsAreSent, EmptyEnd
  <2>4. moved(s, a) = PlayTile(s, a.player, a.tile, a.pips, a.left)
    BY <2>1 DEF moved
  <2>5. CanPlay(s, a.pips, a.left)
    BY <2>1 DEF accepts
  <2>6. Linked(s) => Linked(moved(s, a))
    BY <2>1, <2>2, <2>3, <2>4, <2>5, PlayTileChained, PlayTileShows DEF Linked
  <2> QED
    BY <2>1, <2>2, <2>4, <2>6, PlayTileType
<1>2. CASE a \in Draw
  <2>1. a.op = "DRAW" /\ a.player \in Player
    BY <1>2 DEF Draw
  <2>2. moved(s, a) = DrawFromBoneyard(s, a.player) /\ s.boneyard # <<>>
    BY <2>1 DEF moved, accepts
  <2> QED
    BY <2>1, <2>2, DrawFromBoneyardType, SameBoardLinked
<1>3. CASE a \in Pass
  <2>1. a.op = "PASS" /\ a.player \in Player
    BY <1>3 DEF Pass
  <2>2. moved(s, a) = PassTurn(s, a.player)
    BY <2>1 DEF moved
  <2> QED
    BY <2>1, <2>2, PassTurnType, SameBoardLinked
<1> QED
  BY <1>1, <1>2, <1>3 DEF Turn

\* So does the whole turn, and it locks the session exactly when it yields an
\* outcome.
LEMMA ProcessGameTurnType ==
    ASSUME NEW s \in Session, NEW a \in Turn, accepts(s, a)
    PROVE  /\ ProcessGameTurn(s, a).session \in Session
           /\ Linked(s) => Linked(ProcessGameTurn(s, a).session)
           /\ ProcessGameTurn(s, a).session.locked
                <=> ProcessGameTurn(s, a).outcome # NoOutcome
           /\ ProcessGameTurn(s, a).session.locked
                => ProcessGameTurn(s, a).session.status # Absent
<1> DEFINE after == [moved(s, a) EXCEPT !.status = Active]
           outcome == EvaluateMatch(after)
           next == IF outcome # NoOutcome THEN lockForCompletion(after)
                   ELSE IF a.op = "PLAY" THEN RotateTurn(after)
                   ELSE after
<1>1. after \in Session /\ SameBoard(moved(s, a), after) /\ after.locked = FALSE
  <2>1. moved(s, a) \in Session /\ moved(s, a).locked = s.locked
    BY MovedType
  <2>2. s.locked = FALSE
    BY DEF accepts, Session
  <2> QED
    BY <2>1, <2>2 DEF Session, SameBoard
<1>2. Linked(s) => Linked(after)
  BY <1>1, MovedType, SameBoardLinked
<1>3. /\ ProcessGameTurn(s, a).session = next
      /\ ProcessGameTurn(s, a).outcome = outcome
  BY DEF ProcessGameTurn
<1> HIDE DEF after, outcome
<1>4. /\ next \in Session
      /\ SameBoard(after, next)
      /\ next.locked <=> outcome # NoOutcome
      /\ next.locked => next.status # Absent
  <2>1. CASE outcome # NoOutcome
    BY <1>1, <2>1, LockForCompletionType
  <2>2. CASE outcome = NoOutcome /\ a.op = "PLAY"
    BY <1>1, <2>2, RotateTurnType
  <2>3. CASE outcome = NoOutcome /\ a.op # "PLAY"
    BY <1>1, <2>3 DEF SameBoard
  <2> QED
    BY <2>1, <2>2, <2>3
<1> HIDE DEF next
<1>5. Linked(after) => Linked(next)
  BY <1>4, SameBoardLinked
<1> QED
  BY <1>2, <1>3, <1>4, <1>5

\* START_MATCH yields a session; it is unlocked if it was set up or new.
LEMMA StartedSessionType ==
    ASSUME NEW s \in Session, NEW c \in Start, deck \in Seq(Tile)
    PROVE  /\ startedSession(s, c) \in Session
           /\ Linked(s) => Linked(startedSession(s, c))
           /\ c.setup => startedSession(s, c).locked = FALSE
           /\ (~c.setup /\ s.status # Absent) => startedSession(s, c) = s
           /\ (~c.setup /\ s.status = Absent)
                 => startedSession(s, c) = NewGameSession
<1> DEFINE created == IF s.status = Absent THEN NewGameSession ELSE s
           reset == [ResetForSetup(created) EXCEPT !.boneyard = deck]
           hands == DealHands(reset, c.size)
           full == [hands EXCEPT !.status = Active,
                                 !.turn = IF hands.turn = NoPlayer THEN 1
                                          ELSE hands.turn]
<1>1. created \in Session /\ (Linked(s) => Linked(created))
  <2>1. Linked(NewGameSession)
    BY EmptyBoardLinked DEF NewGameSession, boardIsEmpty
  <2> QED
    BY <2>1, NewGameSessionType
<1>2. /\ reset \in Session /\ reset.locked = FALSE
      /\ reset.board = <<>> /\ boardIsEmpty(reset)
  <2>1. ResetForSetup(created) \in Session
    BY <1>1, ResetForSetupType
  <2> HIDE DEF created
  <2> QED
    BY <1>1, <2>1, ResetForSetupType DEF Session, boardIsEmpty
<1>3. c.size \in HandSizes /\ c.setup \in BOOLEAN
  BY DEF Start
<1> HIDE DEF created, reset
<1>4. CASE ~c.setup
  <2>1. startedSession(s, c) = created
    BY <1>4 DEF startedSession, created
  <2> QED
    BY <1>1, <1>4, <2>1 DEF created
<1>5. CASE c.setup /\ ~canDeal(reset, c.size)
  <2>1. startedSession(s, c) = reset
    BY <1>5 DEF startedSession, created, reset
  <2> QED
    BY <1>2, <1>5, <2>1, EmptyBoardLinked
<1>6. CASE c.setup /\ canDeal(reset, c.size)
  <2>1. startedSession(s, c) = full
    BY <1>6 DEF startedSession, created, reset
  <2>2. /\ hands \in Session /\ hands.locked = FALSE
        /\ hands.board = <<>> /\ boardIsEmpty(hands)
    BY <1>2, <1>3, <1>6, DealHandsType DEF boardIsEmpty
  <2>3. 1 \in Player
    BY ConstantsAssumption DEF Player
  <2> HIDE DEF hands
  <2>4. /\ full \in Session /\ full.locked = FALSE
        /\ full.board = <<>> /\ boardIsEmpty(full)
    BY <2>2, <2>3 DEF Session, boardIsEmpty
  <2> QED
    BY <1>6, <2>1, <2>4, EmptyBoardLinked
<1> QED
  BY <1>3, <1>4, <1>5, <1>6

\* The first half of an abandonment moves flags and turn only.
LEMMA AbandonedType ==
    ASSUME NEW s \in Session, NEW p \in Player,
           NEW t, t = [s EXCEPT !.hands[p].abandoned = TRUE]
    PROVE  t \in Session /\ SameBoard(s, t) /\ t.locked = s.locked
<1>1. t.hands \in [Player -> Hand]
  BY ZenonT(60) DEF Session, Hand
<1> QED
  BY <1>1 DEF Session, SameBoard

\* Whatever the encoder sees of the flags, the hands are hands.
LEMMA SeenByEncoderType ==
    ASSUME NEW old \in [Player -> Hand], NEW new \in [Player -> Hand],
           NEW hands \in seenByEncoder(old, new)
    PROVE  hands \in [Player -> Hand]
BY DEF seenByEncoder, Hand

-----------------------------------------------------------------------------
(* The board.  The inductive invariant is SessionsTyped and BoardLinked:  *)
(* the chain needs to know that the cached ends are pips or EmptyEnd.      *)

\* BoardLinked for the sessions of the nodes and the one in the snapshot.
LEMMA BoardLinkedParts ==
    BoardLinked <=> /\ \A n \in Node : Linked(session[n])
                    /\ Linked(snapshot.session)
BY DEF BoardLinked, Sessions

\* The match begins without a session, so without a board.
LEMMA BoardInit == Init => SessionsTyped /\ BoardLinked
<1> SUFFICES ASSUME Init PROVE SessionsTyped /\ BoardLinked
  OBVIOUS
<1> DEFINE none == [NewGameSession EXCEPT !.status = Absent]
<1>1. none \in Session /\ Linked(none)
  <2>1. none.board = <<>> /\ boardIsEmpty(none)
    BY DEF NewGameSession, boardIsEmpty
  <2> QED
    BY <2>1, NewGameSessionType, EmptyBoardLinked
<1>2. deck \in Seq(Tile)
  BY ConstantsAssumption DEF Init
<1>3. <<>> \in Seq(Command)
  OBVIOUS
<1>4. snapshot.session = none /\ snapshot.pending = <<>>
  BY DEF Init, NoSnapshot
<1>5. snapshot = [phase |-> snapshot.phase, by |-> snapshot.by,
                  session |-> snapshot.session, history |-> snapshot.history,
                  pending |-> snapshot.pending]
  BY DEF Init, NoSnapshot
<1>6. session \in [Node -> Session] /\ \A n \in Node : session[n] = none
  BY <1>1 DEF Init
<1> HIDE DEF none
<1>7. BoardLinked
  BY <1>1, <1>4, <1>6, BoardLinkedParts
<1> QED
  BY <1>1, <1>2, <1>3, <1>4, <1>5, <1>6, <1>7 DEF SessionsTyped, Init

\* A step that gives node n a well formed, chained session and leaves the
\* snapshot and the deck alone preserves the invariant.
LEMMA BoardUpdate ==
    ASSUME SessionsTyped, BoardLinked, NEW n \in Node, NEW s \in Session,
           Linked(s), session' = [session EXCEPT ![n] = s],
           pending' \in [Node -> Seq(Command)], UNCHANGED <<deck, snapshot>>
    PROVE  SessionsTyped' /\ BoardLinked'
<1>1. session' \in [Node -> Session]
  BY DEF SessionsTyped
<1>2. \A m \in Node : Linked(session'[m])
  BY BoardLinkedParts DEF SessionsTyped
<1>3. SessionsTyped'
  BY <1>1 DEF SessionsTyped
<1>4. Linked(snapshot.session)'
  BY BoardLinkedParts DEF Linked, Shows, Chained, boardIsEmpty
<1>5. (\A m \in Node : Linked(session[m]))'
  BY <1>2 DEF Linked, Shows, Chained, boardIsEmpty
<1> QED
  BY <1>3, <1>4, <1>5 DEF BoardLinked, Sessions

\* The command a node applies is a command, and so are the rest.
LEMMA PendingHead ==
    ASSUME SessionsTyped, NEW n \in Node, pending[n] # <<>>,
           pending' = [pending EXCEPT ![n] = Tail(@)]
    PROVE  /\ Head(pending[n]) \in Command
           /\ pending' \in [Node -> Seq(Command)]
BY DEF SessionsTyped

\* Every operation preserves the types and the chain.
LEMMA BoardNext ==
    SessionsTyped /\ BoardLinked /\ [Next]_vars => SessionsTyped' /\ BoardLinked'
<1> SUFFICES ASSUME SessionsTyped, BoardLinked, [Next]_vars
             PROVE  SessionsTyped' /\ BoardLinked'
  OBVIOUS
<1>0. \A n \in Node : session[n] \in Session /\ Linked(session[n])
  BY BoardLinkedParts DEF SessionsTyped
<1>1. ASSUME NEW c \in Command, commit(c)
      PROVE  SessionsTyped' /\ BoardLinked'
  <2>1. pending' \in [Node -> Seq(Command)]
    BY <1>1 DEF commit, SessionsTyped
  <2>2. /\ snapshot'.session = snapshot.session
        /\ snapshot'.pending \in Seq(Command)
        /\ snapshot' = [phase |-> snapshot'.phase, by |-> snapshot'.by,
                        session |-> snapshot'.session,
                        history |-> snapshot'.history,
                        pending |-> snapshot'.pending]
    <3>1. CASE snapshot' = snapshot
      BY <3>1 DEF SessionsTyped
    <3>2. CASE snapshot' = [snapshot EXCEPT !.pending = Append(@, c)]
      <4>1. Append(snapshot.pending, c) \in Seq(Command)
        BY DEF SessionsTyped
      <4>2. snapshot' = [phase |-> snapshot.phase, by |-> snapshot.by,
                         session |-> snapshot.session,
                         history |-> snapshot.history,
                         pending |-> Append(snapshot.pending, c)]
        BY <3>2 DEF SessionsTyped
      <4> QED
        BY <4>1, <4>2
    <3> QED
      BY <1>1, <3>1, <3>2 DEF commit
  <2>3. session' = session /\ deck' = deck
    BY <1>1 DEF commit
  <2>4. SessionsTyped'
    BY <2>1, <2>2, <2>3 DEF SessionsTyped
  <2>5. BoardLinked'
    BY <2>2, <2>3 DEF BoardLinked, Sessions, Linked, Shows, Chained, boardIsEmpty
  <2> QED
    BY <2>4, <2>5
<1>2. ASSUME NEW n \in Node, ApplyReplicatedStartMatch(n)
      PROVE  SessionsTyped' /\ BoardLinked'
  <2> DEFINE c == Head(pending[n])
             s == startedSession(session[n], c)
  <2>1. c \in Command /\ pending' \in [Node -> Seq(Command)]
    BY <1>2, PendingHead DEF ApplyReplicatedStartMatch, applies
  <2>2. c.op = "START" /\ session' = [session EXCEPT ![n] = s]
    BY <1>2 DEF ApplyReplicatedStartMatch
  <2>3. c \in Start
    BY <2>1, <2>2 DEF Command, Turn, Play, Draw, Pass
  <2>4. deck \in Seq(Tile)
    BY DEF SessionsTyped
  <2>5. s \in Session /\ Linked(s)
    BY <1>0, <2>3, <2>4, StartedSessionType
  <2>6. UNCHANGED <<deck, snapshot>>
    BY <1>2 DEF ApplyReplicatedStartMatch
  <2> HIDE DEF s, c
  <2> QED
    BY <2>1, <2>2, <2>5, <2>6, BoardUpdate
<1>3. ASSUME NEW n \in Node, ApplyReplicatedTurn(n)
      PROVE  SessionsTyped' /\ BoardLinked'
  <2> DEFINE a == Head(pending[n])
             s == ProcessGameTurn(session[n], a).session
  <2>1. a \in Command /\ pending' \in [Node -> Seq(Command)]
    BY <1>3, PendingHead DEF ApplyReplicatedTurn, applies
  <2>2. a \in Turn
    BY <1>3, <2>1 DEF ApplyReplicatedTurn, Command, Start
  <2>3. UNCHANGED <<deck, snapshot>>
    BY <1>3 DEF ApplyReplicatedTurn
  <2>4. CASE accepts(session[n], a)
    <3>1. session' = [session EXCEPT ![n] = s]
      BY <1>3, <2>4 DEF ApplyReplicatedTurn
    <3>2. s \in Session /\ Linked(s)
      BY <1>0, <2>2, <2>4, ProcessGameTurnType
    <3> HIDE DEF s, a
    <3> QED
      BY <2>1, <2>3, <3>1, <3>2, BoardUpdate
  <2>5. CASE ~accepts(session[n], a)
    <3>1. session' = session
      BY <1>3, <2>5 DEF ApplyReplicatedTurn
    <3>2. session' = [session EXCEPT ![n] = session[n]]
      BY <3>1 DEF SessionsTyped
    <3> QED
      BY <1>0, <2>1, <2>3, <3>2, BoardUpdate
  <2> QED
    BY <2>4, <2>5
<1>4. ASSUME NEW n \in Node, NEW p \in Abandonable, HandlePlayerAbandoned(n, p)
      PROVE  SessionsTyped' /\ BoardLinked'
  <2> DEFINE marked == [session[n] EXCEPT !.hands[p].abandoned = TRUE]
             s == IF session[n].turn = p THEN PassTurn(marked, p) ELSE marked
  <2>1. p \in Player
    BY ConstantsAssumption
  <2>2. marked \in Session /\ SameBoard(session[n], marked)
    BY <1>0, <2>1, AbandonedType
  <2>3. session' = [session EXCEPT ![n] = s]
    BY <1>4 DEF HandlePlayerAbandoned
  <2>4. pending' \in [Node -> Seq(Command)] /\ UNCHANGED <<deck, snapshot>>
    BY <1>4 DEF HandlePlayerAbandoned, SessionsTyped
  <2> HIDE DEF marked
  <2>5. s \in Session /\ Linked(s)
    BY <1>0, <2>1, <2>2, PassTurnType, SameBoardLinked
  <2> HIDE DEF s
  <2> QED
    BY <2>3, <2>4, <2>5, BoardUpdate
<1>5. ASSUME NEW n \in Node, evaluateAndMaybeFinalize(n)
      PROVE  SessionsTyped' /\ BoardLinked'
  <2>1. \/ session' = [session EXCEPT ![n] = session[n]]
        \/ session' = [session EXCEPT ![n] = lockForCompletion(session[n])]
    BY <1>5 DEF evaluateAndMaybeFinalize, SessionsTyped
  <2>2. pending' \in [Node -> Seq(Command)] /\ UNCHANGED <<deck, snapshot>>
    BY <1>5 DEF evaluateAndMaybeFinalize, SessionsTyped
  <2>3. /\ lockForCompletion(session[n]) \in Session
        /\ Linked(lockForCompletion(session[n]))
    BY <1>0, LockForCompletionType, SameBoardLinked
  <2> QED
    BY <1>0, <2>1, <2>2, <2>3, BoardUpdate
<1>6. ASSUME NEW n \in Node, SnapshotSessions(n)
      PROVE  SessionsTyped' /\ BoardLinked'
  <2>1. snapshot' = [phase |-> "copied", by |-> n, session |-> session[n],
                     history |-> history[n], pending |-> pending[n]]
    BY <1>6 DEF SnapshotSessions
  <2>2. UNCHANGED <<deck, session, pending>>
    BY <1>6 DEF SnapshotSessions
  <2>3. SessionsTyped'
    BY <2>1, <2>2 DEF SessionsTyped
  <2>4. snapshot'.session = session[n]
    BY <2>1
  <2>5. BoardLinked'
    BY <1>0, <2>2, <2>4 DEF BoardLinked, Sessions, Linked, Shows, Chained, boardIsEmpty
  <2> QED
    BY <2>3, <2>5
<1>7. ASSUME NEW n \in Node, CreateSnapshot(n)
      PROVE  SessionsTyped' /\ BoardLinked'
  <2>1. PICK hands \in seenByEncoder(snapshot.session.hands, session[n].hands) :
            snapshot' = [snapshot EXCEPT !.phase = "encoded",
                                         !.session.hands = hands]
    BY <1>7 DEF CreateSnapshot
  <2>2. UNCHANGED <<deck, session, pending>>
    BY <1>7 DEF CreateSnapshot
  <2>3. hands \in [Player -> Hand]
    BY <1>0, <2>1, SeenByEncoderType DEF SessionsTyped, Session
  <2>4. snapshot'.session = [snapshot.session EXCEPT !.hands = hands]
    BY <2>1 DEF SessionsTyped
  <2>5. snapshot'.session \in Session /\ SameBoard(snapshot.session, snapshot'.session)
    BY <2>3, <2>4 DEF SessionsTyped, Session, SameBoard
  <2>6. /\ snapshot'.pending = snapshot.pending
        /\ snapshot' = [phase |-> snapshot'.phase, by |-> snapshot'.by,
                        session |-> snapshot'.session,
                        history |-> snapshot'.history,
                        pending |-> snapshot'.pending]
    BY <2>1 DEF SessionsTyped
  <2>7. SessionsTyped'
    BY <2>2, <2>5, <2>6 DEF SessionsTyped
  <2>8. Linked(snapshot'.session)
    BY <2>5, BoardLinkedParts, SameBoardLinked
  <2>9. BoardLinked'
    BY <1>0, <2>2, <2>8 DEF BoardLinked, Sessions, Linked, Shows, Chained, boardIsEmpty
  <2> QED
    BY <2>7, <2>9
<1>8. ASSUME NEW n \in Node, Restore(n)
      PROVE  SessionsTyped' /\ BoardLinked'
  <2>1. session' = [session EXCEPT ![n] = snapshot.session]
    BY <1>8 DEF Restore
  <2>2. pending' \in [Node -> Seq(Command)] /\ UNCHANGED <<deck, snapshot>>
    BY <1>8 DEF Restore, SessionsTyped
  <2>3. snapshot.session \in Session /\ Linked(snapshot.session)
    BY BoardLinkedParts DEF SessionsTyped
  <2> QED
    BY <2>1, <2>2, <2>3, BoardUpdate
<1>9. CASE UNCHANGED vars
  <2>1. SessionsTyped'
    BY <1>9 DEF SessionsTyped, vars
  <2>2. BoardLinked'
    BY <1>9 DEF BoardLinked, Sessions, Linked, Shows, Chained, boardIsEmpty, vars
  <2> QED
    BY <2>1, <2>2
<1> QED
  BY <1>1, <1>2, <1>3, <1>4, <1>5, <1>6, <1>7, <1>8, <1>9 DEF Next

\* On every node and in every snapshot the board is a chain whose ends are the
\* cached open values: what CanPlay compares a payload with is always what lies
\* on the table, for every deck, hand size and number of players, and whatever
\* pips the payloads give their tiles, short of the -1 of an empty end.
THEOREM BoardAlwaysChained ==
    ASSUME \A q \in SentPips : q[1] # EmptyEnd /\ q[2] # EmptyEnd
    PROVE  Spec => []BoardChained
<1>1. Init => SessionsTyped /\ BoardLinked
  BY BoardInit
<1>2. SessionsTyped /\ BoardLinked /\ [Next]_vars => SessionsTyped' /\ BoardLinked'
  BY BoardNext
<1>3. BoardLinked => BoardChained
  BY DEF BoardLinked, BoardChained, Linked, PipsAreSent
<1> QED
  BY <1>1, <1>2, <1>3, PTL DEF Spec

-----------------------------------------------------------------------------
(* The end of a match.  The inductive invariant adds to the types that a   *)
(* session that does not exist is not locked, and says the same of the     *)
(* snapshot, which carries the lock to the node that installs it.          *)

\* The session is locked exactly when one end of the match was published.
Told(s, h) ==
    /\ h = [ended |-> h.ended, passedSince |-> h.passedSince]
    /\ s.status = Absent => ~s.locked
    /\ IF s.locked THEN Len(h.ended) = 1 ELSE h.ended = <<>>

Announced ==
    /\ history = [n \in Node |-> history[n]]
    /\ \A n \in Node : Told(session[n], history[n])
    /\ Told(snapshot.session, snapshot.history)

EndInv == SessionsTyped /\ BoardLinked /\ Announced

\* A session that never ended, with a history that says so.
LEMMA FreshTold ==
    ASSUME NEW s, s.locked = FALSE
    PROVE  Told(s, NoHistory)
BY DEF Told, NoHistory

\* Publishing an outcome of a match that had none makes it the only one.
LEMMA PublishedOnce ==
    ASSUME NEW h, NEW outcome, h.ended = <<>>,
           h = [ended |-> h.ended, passedSince |-> h.passedSince]
    PROVE  LET k == published(h, outcome)
           IN  /\ k = [ended |-> k.ended, passedSince |-> k.passedSince]
               /\ outcome = NoOutcome => k.ended = <<>>
               /\ outcome # NoOutcome => Len(k.ended) = 1
<1>1. CASE outcome = NoOutcome
  BY <1>1 DEF published
<1>2. CASE outcome # NoOutcome
  <2>1. published(h, outcome) = [ended |-> Append(<<>>, outcome),
                                 passedSince |-> h.passedSince]
    BY <1>2 DEF published
  <2>2. Append(<<>>, outcome) = <<outcome>> /\ Len(<<outcome>>) = 1
    OBVIOUS
  <2> QED
    BY <1>2, <2>1, <2>2
<1> QED
  BY <1>1, <1>2

\* Recording a pass leaves the outcomes alone.
LEMMA PassedSinceEnded ==
    ASSUME NEW h, NEW p,
           h = [ended |-> h.ended, passedSince |-> h.passedSince]
    PROVE  [h EXCEPT !.passedSince = @ \cup {p}]
             = [ended |-> h.ended, passedSince |-> h.passedSince \cup {p}]
OBVIOUS

\* Counting passes does not touch the outcomes.
LEMMA PassedAfterEnded ==
    ASSUME NEW h, NEW a \in Turn,
           h = [ended |-> h.ended, passedSince |-> h.passedSince]
    PROVE  LET k == passedAfter(h, a)
           IN  /\ k = [ended |-> k.ended, passedSince |-> k.passedSince]
               /\ k.ended = h.ended
<1>1. CASE a.op = "PLAY"
  <2>1. passedAfter(h, a) = [ended |-> h.ended, passedSince |-> {}]
    BY <1>1 DEF passedAfter
  <2> QED
    BY <2>1
<1>2. CASE a.op = "PASS"
  <2>1. passedAfter(h, a) = [ended |-> h.ended,
                             passedSince |-> h.passedSince \cup {a.player}]
    BY <1>2 DEF passedAfter
  <2> QED
    BY <2>1
<1>3. CASE a.op = "DRAW"
  BY <1>3 DEF passedAfter
<1> QED
  BY <1>1, <1>2, <1>3 DEF Turn, Play, Draw, Pass

\* A step of node n that keeps its own session told keeps every one told.
LEMMA AnnouncedUpdate ==
    ASSUME SessionsTyped, Announced, NEW n \in Node, NEW s, NEW h, Told(s, h),
           session' = [session EXCEPT ![n] = s],
           history' = [history EXCEPT ![n] = h], UNCHANGED snapshot
    PROVE  Announced'
<1>1. history' = [m \in Node |-> history'[m]]
  BY DEF Announced
<1>2. ASSUME NEW m \in Node
      PROVE  Told(session'[m], history'[m])
  <2>1. session'[m] = (IF m = n THEN s ELSE session[m])
    BY DEF SessionsTyped
  <2>2. history'[m] = (IF m = n THEN h ELSE history[m])
    BY DEF Announced
  <2> QED
    BY <2>1, <2>2 DEF Announced
<1>3. Told(snapshot'.session, snapshot'.history)
  BY DEF Announced
<1>4. Announced' <=> /\ history' = [m \in Node |-> history'[m]]
                     /\ \A m \in Node : Told(session'[m], history'[m])
                     /\ Told(snapshot'.session, snapshot'.history)
  BY DEF Announced, Told
<1> QED
  BY <1>1, <1>2, <1>3, <1>4

\* Initially there is nothing to announce.
LEMMA AnnouncedInit == Init => Announced
<1> SUFFICES ASSUME Init PROVE Announced
  OBVIOUS
<1> DEFINE none == [NewGameSession EXCEPT !.status = Absent]
<1>1. none.locked = FALSE
  BY DEF NewGameSession
<1>2. Told(none, NoHistory)
  BY <1>1, FreshTold
<1>3. snapshot.session = none /\ snapshot.history = NoHistory
  BY DEF Init, NoSnapshot
<1>4. \A n \in Node : session[n] = none /\ history[n] = NoHistory
  BY DEF Init
<1>5. history = [n \in Node |-> history[n]]
  BY DEF Init
<1> HIDE DEF none
<1> QED
  BY <1>2, <1>3, <1>4, <1>5 DEF Announced

\* Every operation preserves it when no save fails.
LEMMA AnnouncedNext ==
    ASSUME PersistMayFail = FALSE, SessionsTyped, Announced, [Next]_vars
    PROVE  Announced'
<1>0. \A n \in Node : session[n] \in Session /\ Told(session[n], history[n])
  BY DEF SessionsTyped, Announced
<1>1. saves = {TRUE}
  BY DEF saves
<1>2. ASSUME NEW c \in Command, commit(c)
      PROVE  Announced'
  <2>1. /\ snapshot'.session = snapshot.session
        /\ snapshot'.history = snapshot.history
    <3>1. CASE snapshot' = snapshot
      BY <3>1
    <3>2. CASE snapshot' = [snapshot EXCEPT !.pending = Append(@, c)]
      BY <3>2 DEF SessionsTyped
    <3> QED
      BY <1>2, <3>1, <3>2 DEF commit
  <2>2. session' = session /\ history' = history
    BY <1>2 DEF commit
  <2> QED
    BY <2>1, <2>2 DEF Announced, Told
<1>3. ASSUME NEW n \in Node, ApplyReplicatedStartMatch(n)
      PROVE  Announced'
  <2> DEFINE c == Head(pending[n])
             s == startedSession(session[n], c)
             h == IF c.setup THEN NoHistory ELSE history[n]
  <2>1. c \in Command
    BY <1>3, PendingHead DEF ApplyReplicatedStartMatch, applies
  <2>2. /\ c.op = "START"
        /\ session' = [session EXCEPT ![n] = s]
        /\ history' = [history EXCEPT ![n] = h]
        /\ UNCHANGED snapshot
    BY <1>3 DEF ApplyReplicatedStartMatch
  <2>3. c \in Start /\ deck \in Seq(Tile)
    BY <2>1, <2>2 DEF Command, Turn, Play, Draw, Pass, SessionsTyped
  <2>4. Told(s, h)
    <3>1. c.setup \in BOOLEAN
      BY <2>3 DEF Start
    <3>2. CASE c.setup
      BY <1>0, <2>3, <3>2, StartedSessionType, FreshTold
    <3>3. CASE ~c.setup /\ session[n].status # Absent
      BY <1>0, <2>3, <3>3, StartedSessionType
    <3>4. CASE ~c.setup /\ session[n].status = Absent
      <4>1. s = NewGameSession /\ h = history[n]
        BY <1>0, <2>3, <3>4, StartedSessionType
      <4>2. s.locked = FALSE
        BY <4>1 DEF NewGameSession
      <4>3. history[n].ended = <<>>
        BY <1>0, <3>4 DEF Told
      <4> HIDE DEF s
      <4> QED
        BY <1>0, <4>1, <4>2, <4>3 DEF Told
    <3> QED
      BY <3>1, <3>2, <3>3, <3>4
  <2> HIDE DEF s, h, c
  <2> QED
    BY <2>2, <2>4, AnnouncedUpdate
<1>4. ASSUME NEW n \in Node, ApplyReplicatedTurn(n)
      PROVE  Announced'
  <2> DEFINE a == Head(pending[n])
             r == ProcessGameTurn(session[n], a)
             k == passedAfter(history[n], a)
             h == published(k, r.outcome)
  <2>1. a \in Command
    BY <1>4, PendingHead DEF ApplyReplicatedTurn, applies
  <2>2. a \in Turn
    BY <1>4, <2>1 DEF ApplyReplicatedTurn, Command, Start
  <2>3. UNCHANGED snapshot
    BY <1>4 DEF ApplyReplicatedTurn
  <2>4. CASE accepts(session[n], a)
    <3>1. /\ session' = [session EXCEPT ![n] = r.session]
          /\ history' = [history EXCEPT ![n] = h]
      BY <1>1, <1>4, <2>4 DEF ApplyReplicatedTurn
    <3>2. history[n].ended = <<>>
      BY <1>0, <2>4 DEF accepts, Told
    <3>3. k = [ended |-> k.ended, passedSince |-> k.passedSince] /\ k.ended = <<>>
      BY <1>0, <2>2, <3>2, PassedAfterEnded DEF Told
    <3>4. /\ r.session.locked <=> r.outcome # NoOutcome
          /\ r.session.locked => r.session.status # Absent
      BY <1>0, <2>2, <2>4, ProcessGameTurnType
    <3> HIDE DEF r, k, a
    <3>5. /\ h = [ended |-> h.ended, passedSince |-> h.passedSince]
          /\ r.outcome = NoOutcome => h.ended = <<>>
          /\ r.outcome # NoOutcome => Len(h.ended) = 1
      BY <3>3, PublishedOnce
    <3> HIDE DEF h
    <3>6. Told(r.session, h)
      BY <3>4, <3>5 DEF Told
    <3> QED
      BY <2>3, <3>1, <3>6, AnnouncedUpdate
  <2>5. CASE ~accepts(session[n], a)
    <3>1. session' = session /\ history' = history
      BY <1>4, <2>5 DEF ApplyReplicatedTurn
    <3> QED
      BY <2>3, <3>1 DEF Announced, Told
  <2> QED
    BY <2>4, <2>5
<1>5. ASSUME NEW n \in Node, NEW p \in Abandonable, HandlePlayerAbandoned(n, p)
      PROVE  Announced'
  <2> DEFINE marked == [session[n] EXCEPT !.hands[p].abandoned = TRUE]
             s == IF session[n].turn = p THEN PassTurn(marked, p) ELSE marked
             h == IF session[n].turn = p
                  THEN [history[n] EXCEPT !.passedSince = @ \cup {p}]
                  ELSE history[n]
  <2>1. p \in Player
    BY ConstantsAssumption
  <2>2. marked \in Session /\ marked.locked = session[n].locked
    BY <1>0, <2>1, AbandonedType
  <2>3. session' = [session EXCEPT ![n] = s] /\ UNCHANGED snapshot
    BY <1>5 DEF HandlePlayerAbandoned
  <2>4. history' = [history EXCEPT ![n] = h]
    BY <1>5 DEF HandlePlayerAbandoned, Announced
  <2>5. session[n].status # Absent
    BY <1>5 DEF HandlePlayerAbandoned
  <2>6. s.locked = session[n].locked /\ s.status = session[n].status
    <3>1. marked.status = session[n].status
      BY <1>0 DEF Session
    <3> HIDE DEF marked
    <3>2. PassTurn(marked, p).status = marked.status
      BY <2>2 DEF PassTurn, RotateTurn, Session
    <3> QED
      BY <2>1, <2>2, <3>1, <3>2, PassTurnType
  <2>7. /\ h = [ended |-> h.ended, passedSince |-> h.passedSince]
        /\ h.ended = history[n].ended
    <3>1. history[n] = [ended |-> history[n].ended,
                        passedSince |-> history[n].passedSince]
      BY <1>0 DEF Told
    <3>2. [history[n] EXCEPT !.passedSince = @ \cup {p}]
            = [ended |-> history[n].ended,
               passedSince |-> history[n].passedSince \cup {p}]
      BY <3>1, PassedSinceEnded
    <3> QED
      BY <3>1, <3>2
  <2> HIDE DEF s, h, marked
  <2>8. Told(s, h)
    BY <1>0, <2>5, <2>6, <2>7 DEF Told
  <2> QED
    BY <2>3, <2>4, <2>8, AnnouncedUpdate
<1>6. ASSUME NEW n \in Node, evaluateAndMaybeFinalize(n)
      PROVE  Announced'
  <2> DEFINE outcome == EvaluateMatch(session[n])
             s == lockForCompletion(session[n])
             h == published(history[n], outcome)
  <2>1. UNCHANGED snapshot
    BY <1>6 DEF evaluateAndMaybeFinalize
  <2>2. CASE session[n].locked \/ outcome = NoOutcome
    <3>1. session' = session /\ history' = history
      BY <1>6, <2>2 DEF evaluateAndMaybeFinalize
    <3> QED
      BY <2>1, <3>1 DEF Announced, Told
  <2>3. CASE ~session[n].locked /\ outcome # NoOutcome
    <3>1. /\ session' = [session EXCEPT ![n] = s]
          /\ history' = [history EXCEPT ![n] = h]
      BY <1>1, <1>6, <2>3 DEF evaluateAndMaybeFinalize
    <3>2. s.locked = TRUE /\ s.status # Absent
      BY <1>0, LockForCompletionType
    <3> HIDE DEF outcome, s
    <3>3. Told(s, h)
      BY <1>0, <2>3, <3>2, PublishedOnce DEF Told
    <3> HIDE DEF h
    <3> QED
      BY <2>1, <3>1, <3>3, AnnouncedUpdate
  <2> QED
    BY <2>2, <2>3
<1>7. ASSUME NEW n \in Node, SnapshotSessions(n)
      PROVE  Announced'
  <2>1. /\ snapshot' = [phase |-> "copied", by |-> n, session |-> session[n],
                        history |-> history[n], pending |-> pending[n]]
        /\ UNCHANGED <<session, history>>
    BY <1>7 DEF SnapshotSessions
  <2>2. snapshot'.session = session[n] /\ snapshot'.history = history[n]
    BY <2>1
  <2> QED
    BY <1>0, <2>1, <2>2 DEF Announced, Told
<1>8. ASSUME NEW n \in Node, CreateSnapshot(n)
      PROVE  Announced'
  <2>1. PICK hands : snapshot' = [snapshot EXCEPT !.phase = "encoded",
                                                  !.session.hands = hands]
    BY <1>8 DEF CreateSnapshot
  <2>2. /\ snapshot'.session = [snapshot.session EXCEPT !.hands = hands]
        /\ snapshot'.history = snapshot.history
    BY <2>1 DEF SessionsTyped
  <2>3. /\ snapshot'.session.locked = snapshot.session.locked
        /\ snapshot'.session.status = snapshot.session.status
    BY <2>2 DEF SessionsTyped, Session
  <2>4. UNCHANGED <<session, history>>
    BY <1>8 DEF CreateSnapshot
  <2> QED
    BY <2>2, <2>3, <2>4 DEF Announced, Told
<1>9. ASSUME NEW n \in Node, Restore(n)
      PROVE  Announced'
  <2>1. /\ session' = [session EXCEPT ![n] = snapshot.session]
        /\ history' = [history EXCEPT ![n] = snapshot.history]
        /\ UNCHANGED snapshot
    BY <1>9 DEF Restore
  <2>2. Told(snapshot.session, snapshot.history)
    BY DEF Announced
  <2> QED
    BY <2>1, <2>2, AnnouncedUpdate
<1>10. CASE UNCHANGED vars
  BY <1>10 DEF Announced, Told, vars
<1> QED
  BY <1>2, <1>3, <1>4, <1>5, <1>6, <1>7, <1>8, <1>9, <1>10 DEF Next

\* When no save fails, turns, abandonments, restarts and snapshots in any order
\* publish the end of a match exactly when they lock it, and once.
THEOREM EndAnnouncedOnce ==
    ASSUME PersistMayFail = FALSE
    PROVE  Spec => []AnnouncedOnce
<1>1. Init => EndInv
  BY BoardInit, AnnouncedInit DEF EndInv
<1>2. EndInv /\ [Next]_vars => EndInv'
  BY BoardNext, AnnouncedNext DEF EndInv
<1>3. EndInv => AnnouncedOnce
  <2> SUFFICES ASSUME EndInv, NEW n \in Node
               PROVE  Len(history[n].ended) = IF session[n].locked THEN 1 ELSE 0
    BY DEF AnnouncedOnce
  <2>1. Told(session[n], history[n])
    BY DEF EndInv, Announced
  <2>2. Len(<<>>) = 0
    OBVIOUS
  <2> QED
    BY <2>1, <2>2 DEF Told
<1> QED
  BY <1>1, <1>2, <1>3, PTL DEF Spec

-----------------------------------------------------------------------------
(* Agreement of the replicas.  When no player leaves, a session is a       *)
(* function of the commands applied to it.  The inductive invariant names  *)
(* the log and the session after each of its commands: a node with k       *)
(* commands to apply holds the session before the last k of them, and so   *)
(* does a snapshot, whose encoder sees the hands the copy was made of      *)
(* because the node that took it applies nothing until it is encoded.      *)

\* What the match FSM makes of a session and the next command of the log.
applied(s, c) ==
    IF c.op = "START" THEN startedSession(s, c)
    ELSE IF accepts(s, c) THEN ProcessGameTurn(s, c).session
    ELSE s

\* after[i] is the session after the first i commands of the log.
Follows(log, after) ==
    \A i \in 1..Len(log) : after[i] = applied(after[i - 1], log[i])

\* Session s has all of the log applied but the commands of q.
Placed(s, q, log, after) ==
    /\ Len(q) <= Len(log)
    /\ s = after[Len(log) - Len(q)]
    /\ \A i \in 1..Len(q) : q[i] = log[(Len(log) - Len(q)) + i]

InStep(log, after) ==
    /\ Follows(log, after)
    /\ \A n \in Node : Placed(session[n], pending[n], log, after)
    /\ snapshot.phase # "none"
          => Placed(snapshot.session, snapshot.pending, log, after)

\* A snapshot that is not encoded yet is the session of the node that took it.
Copied ==
    snapshot.phase = "copied"
        => /\ snapshot.by \in Node
           /\ snapshot.session = session[snapshot.by]
           /\ snapshot.pending = pending[snapshot.by]

AgreeInv ==
    /\ SessionsTyped
    /\ BoardLinked
    /\ evaluating = [n \in Node |-> FALSE]
    /\ Copied
    /\ \E log \in Seq(Command) : \E after : InStep(log, after)

\* The sessions after the commands of a log that grows by c.
extended(log, after, c) ==
    [i \in 0..(Len(log) + 1) |->
        IF i <= Len(log) THEN after[i] ELSE applied(after[Len(log)], c)]

\* A command that is committed is one more to apply, everywhere.
LEMMA PlacedCommit ==
    ASSUME NEW s, NEW q \in Seq(Command), NEW log \in Seq(Command), NEW after,
           NEW c \in Command, Placed(s, q, log, after)
    PROVE  Placed(s, Append(q, c), Append(log, c), extended(log, after, c))
<1> DEFINE r == Append(q, c)
           l == Append(log, c)
           k == Len(log) - Len(q)
<1>1. /\ Len(r) = Len(q) + 1 /\ Len(l) = Len(log) + 1
      /\ Len(q) \in Nat /\ Len(log) \in Nat /\ Len(q) <= Len(log)
  BY DEF Placed
<1>2. Len(l) - Len(r) = k /\ k \in 0..Len(log)
  BY <1>1
<1>3. extended(log, after, c)[k] = after[k]
  BY <1>1, <1>2 DEF extended
<1>4. ASSUME NEW i \in 1..Len(r)
      PROVE  r[i] = l[k + i]
  <2>1. CASE i = Len(q) + 1
    <3>1. k + i = Len(log) + 1
      BY <1>1, <2>1
    <3> QED
      BY <1>1, <2>1, <3>1
  <2>2. CASE i # Len(q) + 1
    <3>1. i \in 1..Len(q) /\ k + i \in 1..Len(log)
      BY <1>1, <2>2
    <3>2. r[i] = q[i] /\ l[k + i] = log[k + i]
      BY <3>1
    <3>3. q[i] = log[k + i]
      BY <3>1 DEF Placed
    <3> QED
      BY <3>2, <3>3
  <2> QED
    BY <2>1, <2>2
<1>5. s = after[k]
  BY DEF Placed
<1> DEFINE e == extended(log, after, c)
<1>6. Len(r) <= Len(l) /\ s = e[Len(l) - Len(r)]
  BY <1>1, <1>2, <1>3, <1>5
<1>7. \A i \in 1..Len(r) : r[i] = l[(Len(l) - Len(r)) + i]
  BY <1>2, <1>4
<1> HIDE DEF r, l, k, e
<1>8. Placed(s, r, l, e)
  BY <1>6, <1>7 DEF Placed
<1> QED
  BY <1>8 DEF r, l, e

\* The sessions after the commands go on with the new one.
LEMMA FollowsCommit ==
    ASSUME NEW log \in Seq(Command), NEW after, NEW c \in Command,
           Follows(log, after)
    PROVE  Follows(Append(log, c), extended(log, after, c))
<1> DEFINE l == Append(log, c)
           e == extended(log, after, c)
<1>1. Len(l) = Len(log) + 1 /\ Len(log) \in Nat
  OBVIOUS
<1>2. ASSUME NEW i \in 1..Len(l)
      PROVE  e[i] = applied(e[i - 1], l[i])
  <2>1. CASE i = Len(log) + 1
    <3>1. e[i] = applied(after[Len(log)], c) /\ e[i - 1] = after[Len(log)]
      BY <1>1, <2>1 DEF extended
    <3>2. l[i] = c
      BY <1>1, <2>1
    <3> HIDE DEF e, l
    <3> QED
      BY <3>1, <3>2
  <2>2. CASE i # Len(log) + 1
    <3>1. i \in 1..Len(log) /\ i - 1 \in 0..Len(log)
      BY <1>1, <2>2
    <3>2. e[i] = after[i] /\ e[i - 1] = after[i - 1] /\ l[i] = log[i]
      BY <1>1, <3>1 DEF extended
    <3>3. after[i] = applied(after[i - 1], log[i])
      BY <3>1 DEF Follows
    <3> HIDE DEF e, l
    <3> QED
      BY <3>2, <3>3
  <2> QED
    BY <2>1, <2>2
<1> HIDE DEF e, l
<1>3. Follows(l, e)
  BY <1>2 DEF Follows
<1> QED
  BY <1>3 DEF l, e

\* Applying the next command takes a session one place further.
LEMMA PlacedApply ==
    ASSUME NEW s, NEW q \in Seq(Command), NEW log \in Seq(Command), NEW after,
           q # <<>>, Placed(s, q, log, after), Follows(log, after)
    PROVE  Placed(applied(s, Head(q)), Tail(q), log, after)
<1> DEFINE k == Len(log) - Len(q)
<1>1. /\ Len(q) \in Nat \ {0} /\ Len(log) \in Nat /\ Len(q) <= Len(log)
      /\ Len(Tail(q)) = Len(q) - 1 /\ Head(q) = q[1]
      /\ \A i \in 1..Len(Tail(q)) : Tail(q)[i] = q[i + 1]
  BY DEF Placed
<1>2. /\ k + 1 \in 1..Len(log) /\ (k + 1) - 1 = k
      /\ Len(log) - Len(Tail(q)) = k + 1
  BY <1>1
<1>3. s = after[k] /\ q[1] = log[k + 1]
  BY <1>1 DEF Placed
<1>4. after[k + 1] = applied(after[k], log[k + 1])
  BY <1>2 DEF Follows
<1>5. ASSUME NEW i \in 1..Len(Tail(q))
      PROVE  Tail(q)[i] = log[(k + 1) + i]
  <2>1. i + 1 \in 1..Len(q) /\ k + (i + 1) = (k + 1) + i
    BY <1>1
  <2>2. q[i + 1] = log[k + (i + 1)]
    BY <2>1 DEF Placed
  <2> QED
    BY <1>1, <2>1, <2>2
<1> HIDE DEF k
<1> QED
  BY <1>1, <1>2, <1>3, <1>4, <1>5 DEF Placed

\* What a command does to a session does not depend on the step it is
\* applied in: the deck of a match never changes.
LEMMA FollowsStep ==
    ASSUME NEW log, NEW after, Follows(log, after), UNCHANGED deck
    PROVE  Follows(log, after)'
<1>1. ASSUME NEW s, NEW c
      PROVE  startedSession(s, c)' = startedSession(s, c)
  BY DEF startedSession
<1>2. ASSUME NEW s, NEW c
      PROVE  applied(s, c)' = applied(s, c)
  BY <1>1 DEF applied
<1> QED
  BY <1>2 DEF Follows

\* The encoder of a snapshot that nothing changed under sees what was copied.
LEMMA SeenUnchanged ==
    ASSUME NEW s \in Session, NEW hands \in seenByEncoder(s.hands, s.hands)
    PROVE  [s EXCEPT !.hands = hands] = s
<1>1. s.hands \in [Player -> Hand]
  BY DEF Session
<1>2. PICK passed \in [Player -> BOOLEAN], abandoned \in [Player -> BOOLEAN] :
          /\ \A p \in Player : passed[p] = s.hands[p].passed
          /\ \A p \in Player : abandoned[p] = s.hands[p].abandoned
          /\ hands = [p \in Player |->
                        [tiles |-> s.hands[p].tiles, passed |-> passed[p],
                         abandoned |-> abandoned[p]]]
  BY DEF seenByEncoder
<1>3. \A p \in Player : hands[p] = s.hands[p]
  BY <1>1, <1>2 DEF Hand
<1>4. hands = s.hands
  BY <1>1, <1>2, <1>3
<1> QED
  BY <1>4 DEF Session

\* Initially the log is empty and every node holds the same placeholder.
LEMMA AgreeInit == Init => AgreeInv
<1> SUFFICES ASSUME Init PROVE AgreeInv
  OBVIOUS
<1> DEFINE none == [NewGameSession EXCEPT !.status = Absent]
           after == [i \in {0} |-> none]
           log == <<>>
<1>1. SessionsTyped /\ BoardLinked
  BY BoardInit
<1>2. /\ evaluating = [n \in Node |-> FALSE]
      /\ snapshot.phase = "none"
      /\ \A n \in Node : session[n] = none /\ pending[n] = log
  BY DEF Init, NoSnapshot
<1>3. log \in Seq(Command) /\ Len(log) = 0 /\ after[0] = none
  OBVIOUS
<1> HIDE DEF none, after, log
<1>4. Placed(none, log, log, after)
  BY <1>3 DEF Placed
<1>5. Follows(log, after)
  BY <1>3 DEF Follows
<1>6. InStep(log, after)
  BY <1>2, <1>4, <1>5 DEF InStep
<1> QED
  BY <1>1, <1>2, <1>3, <1>6 DEF AgreeInv, Copied

\* The step of one node that keeps its place in the log.
LEMMA InStepUpdate ==
    ASSUME SessionsTyped, NEW log, NEW after, InStep(log, after),
           NEW n \in Node, NEW s, NEW q, Placed(s, q, log, after),
           session' = [session EXCEPT ![n] = s],
           pending' = [pending EXCEPT ![n] = q], UNCHANGED <<deck, snapshot>>
    PROVE  InStep(log, after)'
<1>1. Follows(log, after)'
  BY FollowsStep DEF InStep
<1>2. ASSUME NEW m \in Node
      PROVE  Placed(session'[m], pending'[m], log, after)
  <2>1. /\ session'[m] = IF m = n THEN s ELSE session[m]
        /\ pending'[m] = IF m = n THEN q ELSE pending[m]
    BY DEF SessionsTyped
  <2> QED
    BY <2>1 DEF InStep
<1>3. snapshot'.phase # "none"
        => Placed(snapshot'.session, snapshot'.pending, log, after)
  BY DEF InStep
<1> QED
  BY <1>1, <1>2, <1>3 DEF InStep, Placed

\* A step that moves one node, while the snapshot is encoded or another's.
LEMMA CopiedUpdate ==
    ASSUME SessionsTyped, Copied, NEW n \in Node, NEW s, NEW q,
           ~(snapshot.phase = "copied" /\ snapshot.by = n),
           session' = [session EXCEPT ![n] = s],
           pending' = [pending EXCEPT ![n] = q], UNCHANGED snapshot
    PROVE  Copied'
BY DEF Copied, SessionsTyped

\* Every operation keeps the nodes in step when no player leaves.
LEMMA AgreeNext ==
    ASSUME Abandonable = {}, AgreeInv, [Next]_vars
    PROVE  AgreeInv'
<1>1. SessionsTyped' /\ BoardLinked'
  BY BoardNext DEF AgreeInv
<1>2. PICK log \in Seq(Command) : \E after : InStep(log, after)
  BY DEF AgreeInv
<1>3. PICK after : InStep(log, after)
  BY <1>2
<1>4. /\ SessionsTyped /\ Copied
      /\ evaluating = [n \in Node |-> FALSE]
      /\ \A n \in Node : /\ session[n] \in Session
                         /\ pending[n] \in Seq(Command)
                         /\ Placed(session[n], pending[n], log, after)
  BY <1>3 DEF AgreeInv, SessionsTyped, InStep
<1> SUFFICES /\ evaluating' = [n \in Node |-> FALSE]
             /\ Copied'
             /\ \E l \in Seq(Command) : \E e : InStep(l, e)'
  BY <1>1 DEF AgreeInv
<1>5. ASSUME NEW c \in Command, commit(c)
      PROVE  /\ UNCHANGED evaluating /\ Copied'
             /\ \E l \in Seq(Command) : \E e : InStep(l, e)'
  <2>0. Append(log, c) \in Seq(Command)
    OBVIOUS
  <2>a. PICK l \in Seq(Command) : l = Append(log, c)
    BY <2>0, Zenon
  <2>b. PICK e : e = extended(log, after, c)
    BY Zenon
  <2>1. /\ UNCHANGED <<deck, session, evaluating>>
        /\ pending' = [n \in Node |-> Append(pending[n], c)]
        /\ snapshot' = IF snapshot.phase = "none" THEN snapshot
                       ELSE [snapshot EXCEPT !.pending = Append(@, c)]
    BY <1>5 DEF commit
  <2>2. /\ snapshot'.phase = snapshot.phase /\ snapshot'.by = snapshot.by
        /\ snapshot'.session = snapshot.session
        /\ snapshot.phase # "none"
              => snapshot'.pending = Append(snapshot.pending, c)
    BY <1>4, <2>1 DEF SessionsTyped
  <2>3. Copied'
    BY <1>4, <2>1, <2>2 DEF Copied
  <2>4. Follows(l, e)
    BY <1>3, <2>a, <2>b, FollowsCommit DEF InStep
  <2>5. \A n \in Node : Placed(session[n], Append(pending[n], c), l, e)
    BY <1>4, <2>a, <2>b, PlacedCommit
  <2>6. snapshot.phase # "none"
          => Placed(snapshot.session, Append(snapshot.pending, c), l, e)
    BY <1>3, <1>4, <2>a, <2>b, PlacedCommit DEF InStep, SessionsTyped
  <2>7. Follows(l, e)'
    BY <2>1, <2>4, FollowsStep
  <2>8. InStep(l, e)'
    BY <2>1, <2>2, <2>5, <2>6, <2>7 DEF InStep, Placed
  <2> QED
    BY <2>1, <2>3, <2>8
<1>6. ASSUME NEW n \in Node, ApplyReplicatedStartMatch(n)
      PROVE  UNCHANGED evaluating /\ Copied' /\ InStep(log, after)'
  <2> DEFINE s == applied(session[n], Head(pending[n]))
             q == Tail(pending[n])
  <2>1. /\ applies(n) /\ session' = [session EXCEPT ![n] = s]
        /\ pending' = [pending EXCEPT ![n] = q]
        /\ UNCHANGED <<deck, snapshot, evaluating>>
    BY <1>6 DEF ApplyReplicatedStartMatch, applied
  <2>2. Placed(s, q, log, after)
    BY <1>3, <1>4, <2>1, PlacedApply DEF InStep, applies
  <2> HIDE DEF s, q
  <2> QED
    BY <1>3, <1>4, <2>1, <2>2, InStepUpdate, CopiedUpdate DEF applies
<1>7. ASSUME NEW n \in Node, ApplyReplicatedTurn(n)
      PROVE  UNCHANGED evaluating /\ Copied' /\ InStep(log, after)'
  <2> DEFINE a == Head(pending[n])
             s == applied(session[n], a)
             q == Tail(pending[n])
  <2>1. /\ applies(n) /\ a.op # "START"
        /\ pending' = [pending EXCEPT ![n] = q]
        /\ UNCHANGED <<deck, snapshot, evaluating>>
    BY <1>7 DEF ApplyReplicatedTurn
  <2>2. session' = [session EXCEPT ![n] = s]
    <3>1. CASE accepts(session[n], a)
      BY <1>7, <2>1, <3>1 DEF ApplyReplicatedTurn, applied
    <3>2. CASE ~accepts(session[n], a)
      <4>1. session' = session
        BY <1>7, <3>2 DEF ApplyReplicatedTurn
      <4>2. s = session[n]
        BY <2>1, <3>2 DEF applied
      <4> HIDE DEF s
      <4> QED
        BY <1>4, <4>1, <4>2 DEF SessionsTyped
    <3> QED
      BY <3>1, <3>2
  <2>3. Placed(s, q, log, after)
    BY <1>3, <1>4, <2>1, PlacedApply DEF InStep, applies
  <2> HIDE DEF s, q
  <2> QED
    BY <1>3, <1>4, <2>1, <2>2, <2>3, InStepUpdate, CopiedUpdate DEF applies
<1>8. ASSUME NEW n \in Node, SnapshotSessions(n)
      PROVE  UNCHANGED evaluating /\ Copied' /\ InStep(log, after)'
  <2>1. /\ snapshot' = [phase |-> "copied", by |-> n, session |-> session[n],
                        history |-> history[n], pending |-> pending[n]]
        /\ UNCHANGED <<deck, session, pending, evaluating>>
    BY <1>8 DEF SnapshotSessions
  <2>2. /\ snapshot'.by = n /\ snapshot'.session = session[n]
        /\ snapshot'.pending = pending[n]
    BY <2>1
  <2>3. Follows(log, after)'
    BY <1>3, <2>1, FollowsStep DEF InStep
  <2>4. InStep(log, after)'
    BY <1>4, <2>1, <2>2, <2>3 DEF InStep, Placed
  <2> QED
    BY <2>1, <2>2, <2>4 DEF Copied
<1>9. ASSUME NEW n \in Node, CreateSnapshot(n)
      PROVE  UNCHANGED evaluating /\ Copied' /\ InStep(log, after)'
  <2>1. /\ snapshot.phase = "copied" /\ snapshot.by = n
        /\ UNCHANGED <<deck, session, pending, evaluating>>
    BY <1>9 DEF CreateSnapshot
  <2>2. snapshot.session = session[n] /\ snapshot.pending = pending[n]
    BY <1>4, <2>1 DEF Copied
  <2>3. PICK hands \in seenByEncoder(snapshot.session.hands, session[n].hands) :
            snapshot' = [snapshot EXCEPT !.phase = "encoded",
                                         !.session.hands = hands]
    BY <1>9 DEF CreateSnapshot
  <2>4. /\ snapshot'.session = [snapshot.session EXCEPT !.hands = hands]
        /\ snapshot'.pending = snapshot.pending /\ snapshot'.phase = "encoded"
    BY <1>4, <2>3 DEF SessionsTyped
  <2>5. hands \in seenByEncoder(session[n].hands, session[n].hands)
    BY <2>2, <2>3
  <2>6. [session[n] EXCEPT !.hands = hands] = session[n]
    BY <1>4, <2>5, SeenUnchanged
  <2>7. snapshot'.session = session[n] /\ snapshot'.pending = pending[n]
    BY <2>2, <2>4, <2>6
  <2>8. Follows(log, after)'
    BY <1>3, <2>1, FollowsStep DEF InStep
  <2>9. InStep(log, after)'
    BY <1>4, <2>1, <2>7, <2>8 DEF InStep, Placed
  <2> QED
    BY <2>1, <2>4, <2>9 DEF Copied
<1>10. ASSUME NEW n \in Node, Restore(n)
       PROVE  UNCHANGED evaluating /\ Copied' /\ InStep(log, after)'
  <2>1. /\ snapshot.phase = "encoded"
        /\ session' = [session EXCEPT ![n] = snapshot.session]
        /\ pending' = [pending EXCEPT ![n] = snapshot.pending]
        /\ UNCHANGED <<deck, snapshot, evaluating>>
    BY <1>10 DEF Restore
  <2>2. Placed(snapshot.session, snapshot.pending, log, after)
    BY <1>3, <2>1 DEF InStep
  <2> QED
    BY <1>3, <1>4, <2>1, <2>2, InStepUpdate, CopiedUpdate
<1>11. CASE UNCHANGED vars
  <2>1. UNCHANGED <<deck, session, pending, snapshot, evaluating>>
    BY <1>11 DEF vars
  <2>2. Follows(log, after)'
    BY <1>3, <2>1, FollowsStep DEF InStep
  <2>3. InStep(log, after)'
    BY <1>3, <2>1, <2>2 DEF InStep, Placed
  <2> QED
    BY <1>4, <2>1, <2>3 DEF Copied
<1>12. ~ \E n \in Node : evaluateAndMaybeFinalize(n)
  BY <1>4 DEF evaluateAndMaybeFinalize
<1> QED
  BY <1>4, <1>5, <1>6, <1>7, <1>8, <1>9, <1>10, <1>11, <1>12 DEF Next

\* When nobody leaves the match, nodes that have applied the same commands hold
\* the same session, and so do the snapshots they take and install: however
\* far the nodes are apart, whichever saves fail and whatever is restarted.
THEOREM ReplicasAlwaysAgree ==
    ASSUME Abandonable = {}
    PROVE  Spec => []ReplicasAgree
<1>1. Init => AgreeInv
  BY AgreeInit
<1>2. AgreeInv /\ [Next]_vars => AgreeInv'
  BY AgreeNext
<1>3. AgreeInv => ReplicasAgree
  <2> SUFFICES ASSUME AgreeInv PROVE ReplicasAgree
    OBVIOUS
  <2>1. PICK log \in Seq(Command) : \E after : InStep(log, after)
    BY DEF AgreeInv
  <2>2. PICK after : InStep(log, after)
    BY <2>1
  <2> QED
    BY <2>2 DEF ReplicasAgree, InStep, Placed
<1> QED
  BY <1>1, <1>2, <1>3, PTL DEF Spec

-----------------------------------------------------------------------------
(* The tiles.  Conserved says of one session what TilesConserved says of   *)
(* all, without counting: every tile is in the hand of one player, or at   *)
(* one place in the boneyard, or at one place on the board.                *)

Single(s, t) ==
    \/ \E p \in Player : /\ holders(s, t) = {p}
                         /\ inBoneyard(s, t) = {} /\ onBoard(s, t) = {}
    \/ \E i \in DOMAIN s.boneyard : /\ inBoneyard(s, t) = {i}
                                    /\ holders(s, t) = {} /\ onBoard(s, t) = {}
    \/ \E i \in DOMAIN s.board : /\ onBoard(s, t) = {i}
                                 /\ holders(s, t) = {} /\ inBoneyard(s, t) = {}

Nowhere(s, t) == holders(s, t) = {} /\ inBoneyard(s, t) = {} /\ onBoard(s, t) = {}

Conserved(s) ==
    \/ \A t \in Tile : Nowhere(s, t)
    \/ \A t \in Tile : Single(s, t)

\* What a step that moves no tile leaves alone.
SameTiles(s, r) ==
    /\ \A p \in Player : r.hands[p].tiles = s.hands[p].tiles
    /\ r.boneyard = s.boneyard
    /\ r.board = s.board

\* A step that moves no tile loses and copies none.
LEMMA SameTilesConserved ==
    ASSUME NEW s, NEW r, SameTiles(s, r), Conserved(s)
    PROVE  Conserved(r)
<1>1. \A t \in Tile : /\ holders(r, t) = holders(s, t)
                      /\ inBoneyard(r, t) = inBoneyard(s, t)
                      /\ onBoard(r, t) = onBoard(s, t)
  BY DEF SameTiles, holders, inBoneyard, onBoard
<1>2. r.boneyard = s.boneyard /\ r.board = s.board
  BY DEF SameTiles
<1> QED
  BY <1>1, <1>2, Zenon DEF Conserved, Single, Nowhere

\* A tile in one place has one place; counting the places says the same.
LEMMA SingleCounts ==
    ASSUME NEW s, NEW t, Single(s, t)
    PROVE  Cardinality(places(s, t)) = 1
<1>1. PICK x : places(s, t) = {x}
  <2>1. ASSUME NEW p \in Player, holders(s, t) = {p},
               inBoneyard(s, t) = {}, onBoard(s, t) = {}
        PROVE  places(s, t) = {<<"hand", p>>}
    BY <2>1 DEF places
  <2>2. ASSUME NEW i, inBoneyard(s, t) = {i},
               holders(s, t) = {}, onBoard(s, t) = {}
        PROVE  places(s, t) = {<<"boneyard", i>>}
    BY <2>2 DEF places
  <2>3. ASSUME NEW i, onBoard(s, t) = {i},
               holders(s, t) = {}, inBoneyard(s, t) = {}
        PROVE  places(s, t) = {<<"board", i>>}
    BY <2>3 DEF places
  <2> QED
    BY <2>1, <2>2, <2>3, Zenon DEF Single
<1> QED
  BY <1>1, FS_Singleton

\* A tile that is nowhere has no place.
LEMMA NowhereEmpty ==
    ASSUME NEW s, NEW t, Nowhere(s, t)
    PROVE  places(s, t) = {}
BY DEF Nowhere, places

\* Every tile lies at exactly one index of a deck: it has as many indices as
\* there are tiles.
LEMMA DeckOnce ==
    ASSUME NEW d \in Decks, NEW t \in Tile
    PROVE  \E i \in 1..Len(d) : /\ d[i] = t
                                /\ \A j \in 1..Len(d) : d[j] = t => j = i
<1>1. /\ d \in Seq(Tile) /\ Len(d) = Cardinality(Tile)
      /\ Tile = {d[i] : i \in DOMAIN d}
  BY ConstantsAssumption
<1>2. Len(d) \in Nat /\ DOMAIN d = 1..Len(d) /\ d \in [1..Len(d) -> Tile]
  BY <1>1, LenProperties
<1>3. IsFiniteSet(1..Len(d)) /\ Cardinality(1..Len(d)) = Len(d)
  BY <1>2, FS_Interval
<1>4. \A u \in Tile : \E i \in 1..Len(d) : d[i] = u
  BY <1>1, <1>2
<1>5. d \in Surjection(1..Len(d), Tile)
  BY <1>2, <1>4 DEF Surjection
<1>6. d \in Injection(1..Len(d), Tile)
  BY <1>1, <1>3, <1>5, FS_SurjSameCardinalityImpliesInj
<1>7. \A i, j \in 1..Len(d) : d[i] = d[j] => i = j
  BY <1>6 DEF Injection, IsInjective
<1> QED
  BY <1>4, <1>7

\* With the deck in the boneyard and nothing elsewhere every tile is there once.
LEMMA DeckConserved ==
    ASSUME NEW s \in Session, s.boneyard \in Decks, s.board = <<>>,
           \A p \in Player : s.hands[p].tiles = {}
    PROVE  Conserved(s)
<1> SUFFICES ASSUME NEW t \in Tile PROVE Single(s, t)
  BY DEF Conserved
<1>1. s.boneyard \in Seq(Tile)
  BY DEF Session
<1>2. DOMAIN s.boneyard = 1..Len(s.boneyard)
  BY <1>1
<1>3. PICK i \in 1..Len(s.boneyard) :
          /\ s.boneyard[i] = t
          /\ \A j \in 1..Len(s.boneyard) : s.boneyard[j] = t => j = i
  BY DeckOnce
<1>4. inBoneyard(s, t) = {i}
  BY <1>2, <1>3 DEF inBoneyard
<1>5. holders(s, t) = {}
  BY DEF holders
<1>6. onBoard(s, t) = {}
  BY DEF onBoard
<1> QED
  BY <1>2, <1>4, <1>5, <1>6 DEF Single

\* A drawn tile leaves the top of the boneyard for one hand; the others stay
\* where they are, one place further up if they are in the boneyard.
LEMMA DrawConserved ==
    ASSUME NEW s \in Session, NEW p \in Player, s.boneyard # <<>>, Conserved(s)
    PROVE  Conserved(DrawFromBoneyard(s, p))
<1> DEFINE r == DrawFromBoneyard(s, p)
           top == Head(s.boneyard)
           b == s.boneyard
<1>1. b \in Seq(Tile) /\ s.hands \in [Player -> Hand]
  BY DEF Session
<1>2. /\ r.boneyard = Tail(b) /\ r.board = s.board
      /\ \A q \in Player : r.hands[q].tiles =
             IF q = p THEN s.hands[p].tiles \cup {top} ELSE s.hands[q].tiles
  BY <1>1 DEF DrawFromBoneyard, holding, Session, Hand
<1>3. /\ Len(b) \in Nat \ {0} /\ DOMAIN b = 1..Len(b) /\ top = b[1] /\ top \in Tile
      /\ Tail(b) \in Seq(Tile) /\ DOMAIN Tail(b) = 1..(Len(b) - 1)
      /\ \A i \in 1..(Len(b) - 1) : Tail(b)[i] = b[i + 1]
  BY <1>1
<1> HIDE DEF r, top, b
<1>4. \A t \in Tile : onBoard(r, t) = onBoard(s, t)
  BY <1>2 DEF onBoard
<1>5. 1 \in inBoneyard(s, top)
  BY <1>3 DEF inBoneyard, b
<1>6. \A t \in Tile : Single(s, t)
  BY <1>3, <1>5 DEF Conserved, Nowhere
<1>7. ASSUME NEW t \in Tile
      PROVE  Single(r, t)
  <2>1. CASE t = top
    <3>1. inBoneyard(s, t) = {1} /\ holders(s, t) = {} /\ onBoard(s, t) = {}
      BY <1>5, <1>6, <2>1 DEF Single
    <3>2. holders(r, t) = {p}
      BY <1>2, <2>1, <3>1 DEF holders
    <3>3. \A j \in 1..Len(b) : b[j] = t => j = 1
      BY <1>3, <3>1 DEF inBoneyard, b
    <3>4. inBoneyard(r, t) = {}
      <4> SUFFICES ASSUME NEW i \in inBoneyard(r, t) PROVE FALSE
        OBVIOUS
      <4>1. i \in 1..(Len(b) - 1) /\ b[i + 1] = t
        BY <1>2, <1>3 DEF inBoneyard
      <4>2. i + 1 \in 1..Len(b) /\ i + 1 # 1
        BY <1>3, <4>1
      <4> QED
        BY <3>3, <4>1, <4>2
    <3> QED
      BY <1>4, <3>1, <3>2, <3>4 DEF Single
  <2>2. CASE t # top
    <3>1. holders(r, t) = holders(s, t)
      BY <1>2, <2>2 DEF holders
    <3>2. \A i : i \in inBoneyard(r, t)
                   <=> i \in 1..(Len(b) - 1) /\ i + 1 \in inBoneyard(s, t)
      BY <1>2, <1>3 DEF inBoneyard, b
    <3>3. 1 \notin inBoneyard(s, t)
      BY <1>3, <2>2 DEF inBoneyard, b
    <3>4. inBoneyard(s, t) \subseteq 1..Len(b)
      BY <1>3 DEF inBoneyard, b
    <3>5. ASSUME inBoneyard(s, t) = {}
          PROVE  inBoneyard(r, t) = {}
      BY <3>2, <3>5
    <3>6. ASSUME NEW i \in 1..Len(b), inBoneyard(s, t) = {i}
          PROVE  i - 1 \in DOMAIN r.boneyard /\ inBoneyard(r, t) = {i - 1}
      <4>1. i # 1
        BY <3>3, <3>6
      <4>2. i - 1 \in 1..(Len(b) - 1)
        BY <1>3, <4>1
      <4> QED
        BY <1>2, <1>3, <3>2, <3>6, <4>2
    <3>7. Single(s, t)
      BY <1>6
    <3> QED
      BY <1>2, <1>3, <1>4, <3>1, <3>5, <3>6, <3>7 DEF Single, b
  <2> QED
    BY <2>1, <2>2
<1>8. Conserved(r)
  BY <1>7 DEF Conserved
<1> QED
  BY <1>8 DEF r

\* From session s to session r player p's tile lands on the board at index k,
\* where the tile that was at index i moves to shift[i].
Lands(s, r, p, tile, k, shift) ==
    /\ r.boneyard = s.boneyard
    /\ \A q \in Player : r.hands[q].tiles =
           IF q = p THEN s.hands[p].tiles \ {tile} ELSE s.hands[q].tiles
    /\ k \in DOMAIN r.board
    /\ r.board[k].id = tile
    /\ \A i \in DOMAIN s.board : /\ shift[i] \in DOMAIN r.board
                                 /\ r.board[shift[i]] = s.board[i]
                                 /\ shift[i] # k
    /\ \A j \in DOMAIN r.board : j = k \/ \E i \in DOMAIN s.board : j = shift[i]

\* The tile that lands is there and nowhere else, the others are still once.
LEMMA LandsConserved ==
    ASSUME NEW s, NEW r, NEW p \in Player, NEW tile \in Tile, NEW k, NEW shift,
           Lands(s, r, p, tile, k, shift), Conserved(s),
           tile \in s.hands[p].tiles
    PROVE  Conserved(r)
<1>1. p \in holders(s, tile)
  BY DEF holders
<1>2. \A t \in Tile : Single(s, t)
  BY <1>1 DEF Conserved, Nowhere
<1>3. /\ r.boneyard = s.boneyard /\ k \in DOMAIN r.board
      /\ \A t \in Tile : inBoneyard(r, t) = inBoneyard(s, t)
  BY DEF inBoneyard, Lands
<1>4. ASSUME NEW t \in Tile
      PROVE  Single(r, t)
  <2>1. CASE t = tile
    <3>1. holders(s, t) = {p} /\ inBoneyard(s, t) = {} /\ onBoard(s, t) = {}
      BY <1>1, <1>2, <2>1 DEF Single
    <3>2. holders(r, t) = {}
      BY <2>1, <3>1 DEF holders, Lands
    <3>3. k \in onBoard(r, t)
      BY <2>1 DEF onBoard, Lands
    <3>4. ASSUME NEW j \in onBoard(r, t), j # k
          PROVE  FALSE
      <4>1. PICK i \in DOMAIN s.board : j = shift[i]
        BY <3>4 DEF onBoard, Lands
      <4>2. i \in onBoard(s, t)
        BY <3>4, <4>1 DEF onBoard, Lands
      <4> QED
        BY <3>1, <4>2
    <3>5. onBoard(r, t) = {k}
      BY <3>3, <3>4
    <3> QED
      BY <1>3, <3>1, <3>2, <3>5 DEF Single
  <2>2. CASE t # tile
    <3>1. holders(r, t) = holders(s, t)
      BY <2>2 DEF holders, Lands
    <3>2. r.board[k].id # t
      BY <2>2 DEF Lands
    <3>3. \A j : j \in onBoard(r, t)
                   <=> \E i \in onBoard(s, t) : j = shift[i]
      BY <3>2 DEF onBoard, Lands
    <3>4. onBoard(s, t) = {} => onBoard(r, t) = {}
      BY <3>3
    <3>5. \A i \in DOMAIN s.board : onBoard(s, t) = {i} => onBoard(r, t) = {shift[i]}
      BY <3>3
    <3>6. \A i \in DOMAIN s.board : shift[i] \in DOMAIN r.board
      BY DEF Lands
    <3>7. Single(s, t)
      BY <1>2
    <3> QED
      BY <1>3, <3>1, <3>4, <3>5, <3>6, <3>7 DEF Single
  <2> QED
    BY <2>1, <2>2
<1> QED
  BY <1>4 DEF Conserved

\* A played tile leaves its player's hand for one end of the board.
LEMMA PlayConserved ==
    ASSUME NEW s \in Session, NEW p \in Player, NEW tile \in Tile,
           NEW pips \in Pips, NEW left \in BOOLEAN,
           tile \in s.hands[p].tiles, Conserved(s)
    PROVE  Conserved(PlayTile(s, p, tile, pips, left))
<1> DEFINE r == PlayTile(s, p, tile, pips, left)
           t == [id |-> tile, pips |-> oriented(s, pips, left)]
<1>1. s.board \in Seq(BoardTile) /\ s.hands \in [Player -> Hand]
  BY DEF Session
<1>2. t.id = tile
  OBVIOUS
<1>3. r \in Session
  BY PlayTileType
<1>0. LaidDown(s, r, p, tile, t, left)
  BY PlayTileParts
<1>4. r.boneyard = s.boneyard
  BY <1>0 DEF LaidDown
<1>5. \A q \in Player : r.hands[q].tiles =
          IF q = p THEN s.hands[p].tiles \ {tile} ELSE s.hands[q].tiles
  <2>1. r.hands = [s.hands EXCEPT ![p] = holding(s.hands[p], s.hands[p].tiles \ {tile})]
    BY <1>0 DEF LaidDown
  <2> QED
    BY <1>1, <2>1 DEF holding, Hand
<1>6. r.board = IF left /\ ~boardIsEmpty(s) THEN <<t>> \o s.board
                ELSE Append(s.board, t)
  BY <1>0 DEF LaidDown
<1>7. t \in BoardTile
  BY OrientedType DEF BoardTile
<1> HIDE DEF r, t
<1>8. Len(s.board) \in Nat /\ DOMAIN s.board = 1..Len(s.board)
  BY <1>1
<1>9. CASE left /\ ~boardIsEmpty(s)
  <2> DEFINE shift == [i \in 1..Len(s.board) |-> i + 1]
  <2>1. /\ DOMAIN r.board = 1..(Len(s.board) + 1) /\ r.board[1] = t
        /\ \A i \in 1..Len(s.board) : r.board[i + 1] = s.board[i]
    BY <1>1, <1>6, <1>7, <1>9
  <2>2. /\ shift \in [DOMAIN s.board -> DOMAIN r.board]
        /\ \A i \in DOMAIN s.board : shift[i] = i + 1
    BY <1>8, <2>1
  <2> HIDE DEF shift
  <2>3. /\ \A i \in DOMAIN s.board : r.board[shift[i]] = s.board[i]
        /\ \A i \in DOMAIN s.board : shift[i] # 1
        /\ 1 \in DOMAIN r.board /\ r.board[1].id = tile
    BY <1>2, <1>8, <2>1, <2>2
  <2>4. ASSUME NEW j \in DOMAIN r.board, j # 1
        PROVE  \E i \in DOMAIN s.board : j = shift[i]
    <3>1. j - 1 \in DOMAIN s.board /\ j = (j - 1) + 1
      BY <1>8, <2>1, <2>4
    <3> QED
      BY <2>2, <3>1
  <2>5. \A j \in DOMAIN r.board :
            j = 1 \/ \E i \in DOMAIN s.board : j = shift[i]
    BY <2>4
  <2>6. Lands(s, r, p, tile, 1, shift)
    BY <1>4, <1>5, <2>2, <2>3, <2>5 DEF Lands
  <2>7. Conserved(r)
    BY <2>6, LandsConserved, Zenon
  <2> QED
    BY <2>7 DEF r
<1>10. CASE ~(left /\ ~boardIsEmpty(s))
  <2> DEFINE shift == [i \in 1..Len(s.board) |-> i]
             k == Len(s.board) + 1
  <2>1. /\ DOMAIN r.board = 1..k /\ r.board[k] = t
        /\ \A i \in 1..Len(s.board) : r.board[i] = s.board[i]
    BY <1>1, <1>6, <1>7, <1>10
  <2>2. /\ shift \in [DOMAIN s.board -> DOMAIN r.board]
        /\ \A i \in DOMAIN s.board : shift[i] = i
    BY <1>8, <2>1
  <2> HIDE DEF shift
  <2>3. /\ \A i \in DOMAIN s.board : r.board[shift[i]] = s.board[i]
        /\ \A i \in DOMAIN s.board : shift[i] # k
        /\ k \in DOMAIN r.board /\ r.board[k].id = tile
    BY <1>2, <1>8, <2>1, <2>2
  <2>4. ASSUME NEW j \in DOMAIN r.board, j # k
        PROVE  \E i \in DOMAIN s.board : j = shift[i]
    <3>1. j \in DOMAIN s.board
      BY <1>8, <2>1, <2>4
    <3> QED
      BY <2>2, <3>1
  <2> HIDE DEF k
  <2>5. \A j \in DOMAIN r.board :
            j = k \/ \E i \in DOMAIN s.board : j = shift[i]
    BY <2>4
  <2>6. Lands(s, r, p, tile, k, shift)
    BY <1>4, <1>5, <2>2, <2>3, <2>5 DEF Lands
  <2>7. Conserved(r)
    BY <2>6, LandsConserved, Zenon
  <2> QED
    BY <2>7 DEF r
<1> QED
  BY <1>9, <1>10

\* Larger factors have larger products.
LEMMA TimesMonotone ==
    ASSUME NEW a \in Nat, NEW b \in Nat, NEW n \in Nat, a <= b
    PROVE  a * n <= b * n
<1>1. b * n = a * n + (b - a) * n /\ (b - a) * n >= 0 /\ a * n \in Nat
  OBVIOUS
<1> QED
  BY <1>1

\* Every index below n * size is in exactly one of the n runs of size indices.
LEMMA RunOfIndex ==
    ASSUME NEW n \in Nat, NEW size \in Nat \ {0}, NEW j \in 1..(n * size)
    PROVE  \E k \in 1..n :
             \A q \in 1..n : j \in ((q - 1) * size + 1)..(q * size) <=> q = k
<1> DEFINE d == (j - 1) \div size
           m == (j - 1) % size
<1>0. n * size \in Nat /\ j - 1 \in Nat /\ j \in Nat /\ j <= n * size
  OBVIOUS
<1>1. d \in Nat /\ m \in 0..(size - 1) /\ j - 1 = size * d + m
  BY <1>0
<1> HIDE DEF d, m
<1>2. size * d = d * size /\ (d + 1) * size = d * size + size /\ d * size \in Nat
  BY <1>1
<1>3. j >= d * size + 1 /\ j <= (d + 1) * size
  BY <1>0, <1>1, <1>2
<1>4. d < n
  <2>1. CASE d >= n
    <3>1. n * size <= d * size
      BY <1>1, <2>1, TimesMonotone
    <3> QED
      BY <1>0, <1>2, <1>3, <3>1
  <2> QED
    BY <1>1, <2>1
<1>5. d + 1 \in 1..n
  BY <1>1, <1>4
<1>6. ASSUME NEW q \in 1..n
      PROVE  j \in ((q - 1) * size + 1)..(q * size) <=> q = d + 1
  <2>1. CASE q = d + 1
    BY <1>0, <1>1, <1>3, <2>1
  <2>2. CASE q < d + 1
    <3>1. q * size <= d * size
      BY <1>1, <2>2, TimesMonotone
    <3>2. q * size \in Nat
      OBVIOUS
    <3> QED
      BY <1>0, <1>2, <1>3, <2>2, <3>1, <3>2
  <2>3. CASE q > d + 1
    <3>1. (d + 1) * size <= (q - 1) * size
      BY <1>1, <2>3, TimesMonotone
    <3>2. (q - 1) * size \in Nat
      OBVIOUS
    <3> QED
      BY <1>0, <1>1, <1>2, <1>3, <2>3, <3>1, <3>2
  <2> QED
    BY <1>1, <2>1, <2>2, <2>3
<1> QED
  BY <1>5, <1>6

\* Dealing takes each tile of the deck into one hand or leaves it once in the
\* boneyard.
LEMMA DealConserved ==
    ASSUME NEW s \in Session, NEW size \in HandSizes, canDeal(s, size),
           s.boneyard \in Decks, s.board = <<>>
    PROVE  Conserved(DealHands(s, size))
<1> DEFINE r == DealHands(s, size)
           b == s.boneyard
           m == NumPlayers * size
<1>1. /\ size \in Nat \ {0} /\ NumPlayers \in Nat \ {0} /\ m \in Nat
      /\ m <= Len(b) /\ b \in Seq(Tile) /\ Len(b) \in Nat
  BY ConstantsAssumption DEF canDeal, Session
<1>2. /\ r.boneyard = SubSeq(b, m + 1, Len(b)) /\ r.board = s.board
      /\ \A p \in Player : r.hands[p].tiles = dealt(s, p, size)
  BY DEF DealHands, Session, Hand
<1> HIDE DEF r, m
<1>3. /\ DOMAIN r.boneyard = 1..(Len(b) - m)
      /\ \A i \in 1..(Len(b) - m) : r.boneyard[i] = b[i + m]
  BY <1>1, <1>2
<1>4. ASSUME NEW t \in Tile
      PROVE  Single(r, t)
  <2>1. PICK j \in 1..Len(b) : /\ b[j] = t
                               /\ \A i \in 1..Len(b) : b[i] = t => i = j
    BY DeckOnce
  <2>2. onBoard(r, t) = {}
    BY <1>2 DEF onBoard
  <2>3. ASSUME NEW p \in Player
        PROVE  t \in r.hands[p].tiles <=> j \in ((p - 1) * size + 1)..(p * size)
    <3>1. p \in 1..NumPlayers
      BY DEF Player
    <3>2. p * size <= m /\ (p - 1) * size + 1 >= 1 /\ p * size \in Nat
      BY <1>1, <3>1 DEF m
    <3>3. \A i \in ((p - 1) * size + 1)..(p * size) : i \in 1..Len(b)
      BY <1>1, <3>1, <3>2
    <3> QED
      BY <1>2, <2>1, <3>3 DEF dealt
  <2>4. CASE j <= m
    <3>1. j \in 1..(NumPlayers * size)
      BY <1>1, <2>1, <2>4 DEF m
    <3>2. PICK k \in 1..NumPlayers :
              \A q \in 1..NumPlayers :
                  j \in ((q - 1) * size + 1)..(q * size) <=> q = k
      BY <1>1, <3>1, RunOfIndex
    <3>3. holders(r, t) = {k} /\ k \in Player
      BY <2>3, <3>2 DEF holders, Player
    <3>4. ASSUME NEW i \in inBoneyard(r, t)
          PROVE  FALSE
      <4>1. i \in 1..(Len(b) - m) /\ b[i + m] = t
        BY <1>3 DEF inBoneyard
      <4>2. i + m \in 1..Len(b) /\ i + m # j
        BY <1>1, <2>1, <2>4, <4>1
      <4> QED
        BY <2>1, <4>1, <4>2
    <3> QED
      BY <2>2, <3>3, <3>4 DEF Single
  <2>5. CASE j > m
    <3>1. ASSUME NEW p \in holders(r, t)
          PROVE  FALSE
      <4>1. p \in 1..NumPlayers /\ p \in Player
        BY DEF holders, Player
      <4>2. p * size <= m
        BY <1>1, <4>1, TimesMonotone DEF m
      <4>3. j <= p * size
        BY <1>1, <2>3, <4>1 DEF holders
      <4> QED
        BY <1>1, <2>1, <2>5, <4>1, <4>2, <4>3
    <3>2. j - m \in 1..(Len(b) - m) /\ (j - m) + m = j
      BY <1>1, <2>1, <2>5
    <3>3. ASSUME NEW i \in 1..(Len(b) - m)
          PROVE  b[i + m] = t <=> i = j - m
      <4>1. i + m \in 1..Len(b)
        BY <1>1, <3>3
      <4>2. b[i + m] = t <=> i + m = j
        BY <2>1, <4>1
      <4> QED
        BY <1>1, <2>1, <4>2
    <3>4. inBoneyard(r, t) = {j - m}
      BY <1>3, <3>2, <3>3 DEF inBoneyard
    <3> QED
      BY <1>3, <2>2, <3>1, <3>2, <3>4 DEF Single
  <2> QED
    BY <1>1, <2>1, <2>4, <2>5
<1>5. Conserved(r)
  BY <1>4 DEF Conserved
<1> QED
  BY <1>5 DEF r

\* Passing, rotating the turn and locking move no tile.
LEMMA NoTileMoved ==
    ASSUME NEW s \in Session, NEW p \in Player
    PROVE  /\ SameTiles(s, PassTurn(s, p))
           /\ SameTiles(s, RotateTurn(s))
           /\ SameTiles(s, lockForCompletion(s))
           /\ SameTiles(s, [s EXCEPT !.status = Active])
           /\ SameTiles(s, [s EXCEPT !.hands[p].abandoned = TRUE])
<1>1. s.hands \in [Player -> Hand]
  BY DEF Session
<1>2. /\ SameTiles(s, RotateTurn(s))
      /\ SameTiles(s, lockForCompletion(s))
      /\ SameTiles(s, [s EXCEPT !.status = Active])
  BY DEF SameTiles, RotateTurn, lockForCompletion, Session
<1>3. SameTiles(s, [s EXCEPT !.hands[p].abandoned = TRUE])
  BY <1>1 DEF SameTiles, Session, Hand
<1>4. SameTiles(s, PassTurn(s, p))
  BY <1>1 DEF SameTiles, PassTurn, RotateTurn, Session, Hand
<1> QED
  BY <1>2, <1>3, <1>4

\* An accepted move conserves the tiles: what is played was in the hand, what
\* is drawn was in the boneyard.
LEMMA MovedConserved ==
    ASSUME NEW s \in Session, NEW a \in Turn, accepts(s, a), Conserved(s)
    PROVE  Conserved(moved(s, a))
<1>1. CASE a \in Play
  <2>1. /\ a.op = "PLAY" /\ a.player \in Player /\ a.tile \in Tile
        /\ a.left \in BOOLEAN /\ a.pips \in Pips
    BY <1>1, ConstantsAssumption DEF Play, Tile, Pip, Pips
  <2>2. moved(s, a) = PlayTile(s, a.player, a.tile, a.pips, a.left)
    BY <2>1 DEF moved
  <2>3. a.tile \in s.hands[a.player].tiles
    BY <2>1 DEF accepts
  <2> QED
    BY <2>1, <2>2, <2>3, PlayConserved
<1>2. CASE a \in Draw
  <2>1. a.op = "DRAW" /\ a.player \in Player
    BY <1>2 DEF Draw
  <2>2. moved(s, a) = DrawFromBoneyard(s, a.player) /\ s.boneyard # <<>>
    BY <2>1 DEF moved, accepts
  <2> QED
    BY <2>1, <2>2, DrawConserved
<1>3. CASE a \in Pass
  <2>1. a.op = "PASS" /\ a.player \in Player
    BY <1>3 DEF Pass
  <2>2. moved(s, a) = PassTurn(s, a.player)
    BY <2>1 DEF moved
  <2> QED
    BY <2>1, <2>2, NoTileMoved, SameTilesConserved
<1> QED
  BY <1>1, <1>2, <1>3 DEF Turn

\* So does the whole turn.
LEMMA ProcessGameTurnConserved ==
    ASSUME NEW s \in Session, NEW a \in Turn, accepts(s, a), Conserved(s)
    PROVE  Conserved(ProcessGameTurn(s, a).session)
<1> DEFINE after == [moved(s, a) EXCEPT !.status = Active]
<1>1. 1 \in Player
  BY ConstantsAssumption DEF Player
<1>2. moved(s, a) \in Session
  BY MovedType
<1>3. after \in Session
  BY <1>2 DEF Session
<1>4. SameTiles(moved(s, a), after)
  BY <1>1, <1>2, NoTileMoved
<1>5. Conserved(after)
  BY <1>4, MovedConserved, SameTilesConserved
<1>6. \/ ProcessGameTurn(s, a).session = after
      \/ ProcessGameTurn(s, a).session = RotateTurn(after)
      \/ ProcessGameTurn(s, a).session = lockForCompletion(after)
  BY DEF ProcessGameTurn
<1> HIDE DEF after
<1>7. SameTiles(after, RotateTurn(after)) /\ SameTiles(after, lockForCompletion(after))
  BY <1>1, <1>3, NoTileMoved
<1>8. Conserved(RotateTurn(after)) /\ Conserved(lockForCompletion(after))
  BY <1>5, <1>7, SameTilesConserved
<1> QED
  BY <1>5, <1>6, <1>8

\* START_MATCH deals from a full deck, or leaves it in the boneyard when it is
\* too small, or changes nothing.
LEMMA StartedSessionConserved ==
    ASSUME NEW s \in Session, NEW c \in Start, deck \in Decks, Conserved(s)
    PROVE  Conserved(startedSession(s, c))
<1> DEFINE created == IF s.status = Absent THEN NewGameSession ELSE s
           reset == [ResetForSetup(created) EXCEPT !.boneyard = deck]
           hands == DealHands(reset, c.size)
           full == [hands EXCEPT !.status = Active,
                                 !.turn = IF hands.turn = NoPlayer THEN 1
                                          ELSE hands.turn]
<1>1. created \in Session
  BY NewGameSessionType
<1>2. Conserved(NewGameSession)
  <2>1. \A t \in Tile : Nowhere(NewGameSession, t)
    BY DEF Nowhere, NewGameSession, holders, inBoneyard, onBoard
  <2> QED
    BY <2>1 DEF Conserved
<1>3. Conserved(created)
  BY <1>2
<1>4. deck \in Seq(Tile)
  BY ConstantsAssumption
<1> HIDE DEF created
<1>5. /\ reset \in Session /\ reset.boneyard = deck /\ reset.board = <<>>
      /\ \A p \in Player : reset.hands[p].tiles = {}
  <2> DEFINE cleared == ResetForSetup(created)
  <2>1. cleared \in Session /\ cleared.board = <<>>
    BY <1>1, ResetForSetupType
  <2>2. \A p \in Player : cleared.hands[p].tiles = {}
    BY <1>1, ZenonT(60) DEF ResetForSetup, holding, Session, Hand
  <2>3. reset = [cleared EXCEPT !.boneyard = deck]
    OBVIOUS
  <2> HIDE DEF cleared, reset
  <2> QED
    BY <1>4, <2>1, <2>2, <2>3 DEF Session
<1>6. c.size \in HandSizes /\ c.setup \in BOOLEAN
  BY DEF Start
<1> HIDE DEF reset
<1>7. CASE ~c.setup
  <2>1. startedSession(s, c) = created
    BY <1>7 DEF startedSession, created
  <2> QED
    BY <1>3, <2>1
<1>8. CASE c.setup /\ ~canDeal(reset, c.size)
  <2>1. startedSession(s, c) = reset
    BY <1>8 DEF startedSession, created, reset
  <2>2. Conserved(reset)
    BY <1>5, DeckConserved
  <2> QED
    BY <2>1, <2>2
<1>9. CASE c.setup /\ canDeal(reset, c.size)
  <2>1. startedSession(s, c) = full
    BY <1>9 DEF startedSession, created, reset
  <2>2. hands \in Session
    BY <1>5, <1>6, <1>9, DealHandsType
  <2>3. Conserved(hands)
    BY <1>5, <1>6, <1>9, DealConserved
  <2> HIDE DEF hands
  <2>4. SameTiles(hands, full)
    BY <2>2 DEF SameTiles, Session
  <2> HIDE DEF full
  <2> QED
    BY <2>1, <2>3, <2>4, SameTilesConserved
<1> QED
  BY <1>6, <1>7, <1>8, <1>9

TilesInv ==
    /\ SessionsTyped
    /\ BoardLinked
    /\ deck \in Decks
    /\ \A n \in Node : Conserved(session[n])
    /\ Conserved(snapshot.session)

\* A step that gives node n a session with every tile once.
LEMMA TilesUpdate ==
    ASSUME TilesInv, NEW n \in Node, NEW s, Conserved(s),
           session' = [session EXCEPT ![n] = s], UNCHANGED snapshot
    PROVE  /\ \A m \in Node : Conserved(session'[m])
           /\ Conserved(snapshot'.session)
<1>1. \A m \in Node : session'[m] = IF m = n THEN s ELSE session[m]
  BY DEF TilesInv, SessionsTyped
<1> QED
  BY <1>1 DEF TilesInv

\* The match begins without tiles.
LEMMA TilesInit == Init => TilesInv
<1> SUFFICES ASSUME Init PROVE TilesInv
  OBVIOUS
<1> DEFINE none == [NewGameSession EXCEPT !.status = Absent]
<1>1. Conserved(none)
  <2>1. \A t \in Tile : Nowhere(none, t)
    BY DEF Nowhere, NewGameSession, holders, inBoneyard, onBoard
  <2> QED
    BY <2>1 DEF Conserved
<1>2. /\ snapshot.session = none /\ deck \in Decks
      /\ \A n \in Node : session[n] = none
  BY DEF Init, NoSnapshot
<1> HIDE DEF none
<1> QED
  BY <1>1, <1>2, BoardInit DEF TilesInv

\* Every operation conserves the tiles.
LEMMA TilesNext ==
    ASSUME TilesInv, [Next]_vars
    PROVE  TilesInv'
<1>1. SessionsTyped' /\ BoardLinked'
  BY BoardNext DEF TilesInv
<1>2. UNCHANGED deck
  BY DEF Next, commit, ApplyReplicatedStartMatch, ApplyReplicatedTurn,
         HandlePlayerAbandoned, evaluateAndMaybeFinalize, SnapshotSessions,
         CreateSnapshot, Restore, vars
<1>3. /\ SessionsTyped /\ deck \in Decks /\ Conserved(snapshot.session)
      /\ \A n \in Node : session[n] \in Session /\ Conserved(session[n])
  BY DEF TilesInv, SessionsTyped
<1> SUFFICES /\ \A m \in Node : Conserved(session'[m])
             /\ Conserved(snapshot'.session)
  <2>1. (\A m \in Node : Conserved(session[m]))' <=> \A m \in Node : Conserved(session'[m])
    BY DEF Conserved, Single, Nowhere, holders, inBoneyard, onBoard
  <2>2. Conserved(snapshot.session)' <=> Conserved(snapshot'.session)
    BY DEF Conserved, Single, Nowhere, holders, inBoneyard, onBoard
  <2> QED
    BY <1>1, <1>2, <1>3, <2>1, <2>2 DEF TilesInv
<1>4. ASSUME NEW c \in Command, commit(c)
      PROVE  UNCHANGED session /\ snapshot'.session = snapshot.session
  BY <1>3, <1>4 DEF commit, SessionsTyped
<1>5. ASSUME NEW n \in Node, ApplyReplicatedStartMatch(n)
      PROVE  \E s : /\ Conserved(s) /\ session' = [session EXCEPT ![n] = s]
                    /\ UNCHANGED snapshot
  <2> DEFINE c == Head(pending[n])
             s == startedSession(session[n], c)
  <2>1. /\ c.op = "START" /\ session' = [session EXCEPT ![n] = s]
        /\ UNCHANGED snapshot
    BY <1>5 DEF ApplyReplicatedStartMatch
  <2>2. c \in Command
    BY <1>3, <1>5, PendingHead DEF ApplyReplicatedStartMatch, applies
  <2>3. c \in Start
    BY <2>1, <2>2 DEF Command, Turn, Play, Draw, Pass
  <2>4. Conserved(s)
    BY <1>3, <2>3, StartedSessionConserved
  <2> QED
    BY <2>1, <2>4, Zenon
<1>6. ASSUME NEW n \in Node, ApplyReplicatedTurn(n)
      PROVE  \E s : /\ Conserved(s) /\ session' = [session EXCEPT ![n] = s]
                    /\ UNCHANGED snapshot
  <2> DEFINE a == Head(pending[n])
             s == ProcessGameTurn(session[n], a).session
  <2>1. UNCHANGED snapshot /\ a.op # "START"
    BY <1>6 DEF ApplyReplicatedTurn
  <2>2. a \in Turn
    BY <1>3, <1>6, <2>1, PendingHead DEF ApplyReplicatedTurn, applies, Command, Start
  <2>3. CASE accepts(session[n], a)
    <3>1. session' = [session EXCEPT ![n] = s]
      BY <1>6, <2>3 DEF ApplyReplicatedTurn
    <3>2. Conserved(s)
      BY <1>3, <2>2, <2>3, ProcessGameTurnConserved
    <3> QED
      BY <2>1, <3>1, <3>2, Zenon
  <2>4. CASE ~accepts(session[n], a)
    <3>1. session' = session
      BY <1>6, <2>4 DEF ApplyReplicatedTurn
    <3>2. session' = [session EXCEPT ![n] = session[n]]
      BY <1>3, <3>1 DEF SessionsTyped
    <3> QED
      BY <1>3, <2>1, <3>2, Zenon
  <2> QED
    BY <2>3, <2>4
<1>7. ASSUME NEW n \in Node, NEW p \in Abandonable, HandlePlayerAbandoned(n, p)
      PROVE  \E s : /\ Conserved(s) /\ session' = [session EXCEPT ![n] = s]
                    /\ UNCHANGED snapshot
  <2> DEFINE marked == [session[n] EXCEPT !.hands[p].abandoned = TRUE]
             s == IF session[n].turn = p THEN PassTurn(marked, p) ELSE marked
  <2>1. p \in Player
    BY ConstantsAssumption
  <2>2. marked \in Session
    BY <1>3, <2>1, AbandonedType
  <2>3. session' = [session EXCEPT ![n] = s] /\ UNCHANGED snapshot
    BY <1>7 DEF HandlePlayerAbandoned
  <2>4. Conserved(marked)
    BY <1>3, <2>1, NoTileMoved, SameTilesConserved
  <2> HIDE DEF marked
  <2>5. Conserved(PassTurn(marked, p))
    BY <2>1, <2>2, <2>4, NoTileMoved, SameTilesConserved
  <2>6. Conserved(s)
    BY <2>4, <2>5
  <2> QED
    BY <2>3, <2>6, Zenon
<1>8. ASSUME NEW n \in Node, evaluateAndMaybeFinalize(n)
      PROVE  \E s : /\ Conserved(s) /\ session' = [session EXCEPT ![n] = s]
                    /\ UNCHANGED snapshot
  <2>1. 1 \in Player
    BY ConstantsAssumption DEF Player
  <2>2. Conserved(lockForCompletion(session[n]))
    BY <1>3, <2>1, NoTileMoved, SameTilesConserved
  <2>3. /\ UNCHANGED snapshot
        /\ \/ session' = [session EXCEPT ![n] = session[n]]
           \/ session' = [session EXCEPT ![n] = lockForCompletion(session[n])]
    BY <1>3, <1>8 DEF evaluateAndMaybeFinalize, SessionsTyped
  <2> QED
    BY <1>3, <2>2, <2>3, Zenon
<1>9. ASSUME NEW n \in Node, SnapshotSessions(n)
      PROVE  UNCHANGED session /\ snapshot'.session = session[n]
  BY <1>9 DEF SnapshotSessions
<1>10. ASSUME NEW n \in Node, CreateSnapshot(n)
       PROVE  UNCHANGED session /\ Conserved(snapshot'.session)
  <2>1. PICK hands \in seenByEncoder(snapshot.session.hands, session[n].hands) :
            snapshot' = [snapshot EXCEPT !.phase = "encoded",
                                         !.session.hands = hands]
    BY <1>10 DEF CreateSnapshot
  <2>2. snapshot'.session = [snapshot.session EXCEPT !.hands = hands]
    BY <1>3, <2>1 DEF SessionsTyped
  <2>3. \A p \in Player : hands[p].tiles = snapshot.session.hands[p].tiles
    BY <2>1 DEF seenByEncoder
  <2>4. SameTiles(snapshot.session, snapshot'.session)
    BY <1>3, <2>2, <2>3 DEF SameTiles, SessionsTyped, Session
  <2> QED
    BY <1>3, <1>10, <2>4, SameTilesConserved DEF CreateSnapshot
<1>11. ASSUME NEW n \in Node, Restore(n)
       PROVE  \E s : /\ Conserved(s) /\ session' = [session EXCEPT ![n] = s]
                     /\ UNCHANGED snapshot
  BY <1>3, <1>11, Zenon DEF Restore
<1>12. ASSUME NEW n \in Node,
              \E s : /\ Conserved(s) /\ session' = [session EXCEPT ![n] = s]
                     /\ UNCHANGED snapshot
       PROVE  /\ \A m \in Node : Conserved(session'[m])
              /\ Conserved(snapshot'.session)
  <2>1. PICK s : /\ Conserved(s) /\ session' = [session EXCEPT ![n] = s]
                 /\ UNCHANGED snapshot
    BY <1>12
  <2> QED
    BY <2>1, TilesUpdate
<1>13. CASE UNCHANGED vars
  BY <1>3, <1>13 DEF vars
<1>14. CASE \E c \in Command : commit(c)
  BY <1>3, <1>4, <1>14
<1>15. CASE \E n \in Node : SnapshotSessions(n) \/ CreateSnapshot(n)
  BY <1>3, <1>9, <1>10, <1>15
<1> QED
  BY <1>5, <1>6, <1>7, <1>8, <1>11, <1>12, <1>13, <1>14, <1>15 DEF Next

\* On every node and in every snapshot, for every deck, hand size and number of
\* players: once dealt, each tile is in one hand, or at one place in the
\* boneyard, or at one place on the board, through plays, draws, a repeated
\* START_MATCH, a deal that fails, abandonments and snapshots.
THEOREM TilesAlwaysConserved == Spec => []TilesConserved
<1>1. Init => TilesInv
  BY TilesInit
<1>2. TilesInv /\ [Next]_vars => TilesInv'
  BY TilesNext
<1>3. TilesInv => TilesConserved
  <2> SUFFICES ASSUME TilesInv, NEW s \in Sessions
               PROVE  \/ \A t \in Tile : places(s, t) = {}
                      \/ \A t \in Tile : Cardinality(places(s, t)) = 1
    BY DEF TilesConserved
  <2>1. Conserved(s)
    BY DEF TilesInv, Sessions
  <2> QED
    BY <2>1, SingleCounts, NowhereEmpty DEF Conserved
<1> QED
  BY <1>1, <1>2, <1>3, PTL DEF Spec

-----------------------------------------------------------------------------
(* Two players.  A match that ends as blocked, and the turn of a match     *)
(* that goes on, are proved for two players and without snapshots: with a  *)
(* third player, or with a copy torn by an abandonment, neither holds.     *)

\* Between two players, one who is left over is alone.
LEMMA TwoPlayers ==
    ASSUME NumPlayers = 2, NEW s
    PROVE  /\ Player = {1, 2}
           /\ Cardinality(activePlayers(s)) # 1 /\ activePlayers(s) # {}
                 => activePlayers(s) = Player
           /\ activePlayers(s) # {} /\ activePlayers(s) # Player
                 => Cardinality(activePlayers(s)) = 1
<1>1. Player = {1, 2}
  BY DEF Player
<1>2. activePlayers(s) \subseteq {1, 2}
  BY <1>1 DEF activePlayers
<1>3. Cardinality({1}) = 1 /\ Cardinality({2}) = 1
  BY FS_Singleton
<1>4. activePlayers(s) \in {{}, {1}, {2}, {1, 2}}
  BY <1>2
<1>5. {1} # {1, 2} /\ {2} # {1, 2}
  OBVIOUS
<1> QED
  BY <1>1, <1>3, <1>4, <1>5

\* What an outcome says of the session it was found in.
LEMMA EvaluateMatchOutcome ==
    ASSUME NEW s
    PROVE  /\ EvaluateMatch(s).reason = "BLOCKED"
                => /\ Cardinality(activePlayers(s)) # 1
                   /\ activePlayers(s) # {}
                   /\ \A p \in activePlayers(s) : s.hands[p].passed
           /\ Cardinality(activePlayers(s)) = 1 => EvaluateMatch(s) # NoOutcome
<1> DEFINE active == activePlayers(s)
           out == {p \in active : s.hands[p].tiles = {}}
           blocked == /\ s.boneyard = <<>>
                      /\ active # {}
                      /\ \A p \in active : s.hands[p].passed
<1>1. EvaluateMatch(s) =
        CASE out # {} -> [winner |-> Min(out), reason |-> "EMPTY_HAND"]
          [] out = {} /\ Cardinality(active) = 1 ->
                [winner |-> Min(active), reason |-> "FORFEIT"]
          [] out = {} /\ Cardinality(active) # 1 /\ blocked ->
                [winner |-> lowestPipPlayer(s), reason |-> "BLOCKED"]
          [] OTHER -> NoOutcome
  BY Zenon DEF EvaluateMatch
<1> HIDE DEF active, out, blocked
<1>2. CASE out # {}
  BY <1>1, <1>2 DEF NoOutcome, active
<1>3. CASE out = {} /\ Cardinality(active) = 1
  BY <1>1, <1>3 DEF NoOutcome, active
<1>4. CASE out = {} /\ Cardinality(active) # 1 /\ blocked
  BY <1>1, <1>4 DEF NoOutcome, active, blocked
<1>5. CASE out = {} /\ Cardinality(active) # 1 /\ ~blocked
  <2>1. EvaluateMatch(s) = NoOutcome
    BY <1>1, <1>5
  <2> QED
    BY <1>5, <2>1 DEF NoOutcome, active
<1> QED
  BY <1>2, <1>3, <1>4, <1>5

\* What a move does to the flags and the turn of two players.
LEMMA MovedFlags ==
    ASSUME NumPlayers = 2, NEW s \in Session, NEW a \in Turn, accepts(s, a)
    PROVE  LET r == moved(s, a)
           IN  /\ a.player = s.turn /\ a.player \in Player
               /\ activePlayers(r) = activePlayers(s)
               /\ \A p \in Player : p # a.player
                     => r.hands[p].passed = s.hands[p].passed
               /\ r.hands[a.player].passed = (a.op = "PASS")
               /\ r.turn = IF a.op = "PASS" THEN 3 - a.player ELSE a.player
<1>0. Player = {1, 2} /\ s.hands \in [Player -> Hand]
  BY TwoPlayers DEF Session
<1>1. a.player = s.turn /\ a.player \in Player
  BY DEF accepts, Turn, Play, Draw, Pass
<1>2. CASE a.op = "PLAY"
  <2> DEFINE h == holding(s.hands[a.player], s.hands[a.player].tiles \ {a.tile})
  <2>0. a.tile \in Tile /\ a.left \in BOOLEAN /\ a.pips \in Pips
    BY <1>2, ConstantsAssumption DEF Turn, Play, Draw, Pass, Tile, Pip, Pips
  <2>1. moved(s, a) = PlayTile(s, a.player, a.tile, a.pips, a.left)
    BY <1>2 DEF moved
  <2>2. /\ moved(s, a).hands = [s.hands EXCEPT ![a.player] = h]
        /\ moved(s, a).turn = s.turn
    <3> DEFINE t == [id |-> a.tile, pips |-> oriented(s, a.pips, a.left)]
    <3>1. LaidDown(s, moved(s, a), a.player, a.tile, t, a.left)
      BY <1>1, <2>0, <2>1, PlayTileParts
    <3> QED
      BY <3>1 DEF LaidDown
  <2>3. h.passed = FALSE /\ h.abandoned = s.hands[a.player].abandoned
    BY <1>0, <1>1 DEF holding, Hand
  <2> HIDE DEF h
  <2> QED
    BY <1>0, <1>1, <1>2, <2>2, <2>3 DEF activePlayers
<1>3. CASE a.op = "DRAW"
  <2> DEFINE h == holding(s.hands[a.player],
                          s.hands[a.player].tiles \cup {Head(s.boneyard)})
  <2>1. moved(s, a) = DrawFromBoneyard(s, a.player)
    BY <1>3 DEF moved
  <2>2. /\ moved(s, a).hands = [s.hands EXCEPT ![a.player] = h]
        /\ moved(s, a).turn = s.turn
    BY <2>1 DEF DrawFromBoneyard, Session
  <2>3. h.passed = FALSE /\ h.abandoned = s.hands[a.player].abandoned
    BY <1>0, <1>1 DEF holding, Hand
  <2> HIDE DEF h
  <2> QED
    BY <1>0, <1>1, <1>3, <2>2, <2>3 DEF activePlayers
<1>4. CASE a.op = "PASS"
  <2> DEFINE h == [s.hands[a.player] EXCEPT !.passed = TRUE]
  <2>1. moved(s, a) = RotateTurn([s EXCEPT !.hands[a.player].passed = TRUE])
    BY <1>4 DEF moved, PassTurn
  <2>2. /\ moved(s, a).hands = [s.hands EXCEPT ![a.player] = h]
        /\ moved(s, a).turn = IF s.turn = NoPlayer THEN 1 ELSE (s.turn % NumPlayers) + 1
    BY <2>1 DEF RotateTurn, Session
  <2>3. h.passed = TRUE /\ h.abandoned = s.hands[a.player].abandoned
    BY <1>0, <1>1 DEF Hand
  <2>4. moved(s, a).turn = 3 - a.player
    BY <1>0, <1>1, <2>2 DEF NoPlayer
  <2> HIDE DEF h
  <2> QED
    BY <1>0, <1>1, <1>4, <2>2, <2>3, <2>4, ZenonT(60) DEF activePlayers
<1> QED
  BY <1>2, <1>3, <1>4 DEF Turn, Play, Draw, Pass

\* Between two players who has passed and does not have the turn has passed
\* since the last tile was placed: the other one plays and gives the turn back,
\* or passes.  Who leaves is still gone when the abandonment is evaluated.
Passes(s, h, pendingEnd) ==
    /\ h = [ended |-> h.ended, passedSince |-> h.passedSince]
    /\ s.status = Absent => ~s.locked /\ ~pendingEnd
    /\ pendingEnd => activePlayers(s) # Player
    /\ ~s.locked =>
          /\ h.ended = <<>>
          /\ \A p \in Player : (p # s.turn /\ s.turn # NoPlayer /\ s.hands[p].passed)
                                  => p \in h.passedSince
    /\ \A i \in DOMAIN h.ended :
          h.ended[i].reason = "BLOCKED" => activePlayers(s) \subseteq h.passedSince

PassInv ==
    /\ SessionsTyped
    /\ BoardLinked
    /\ snapshot.phase = "none"
    /\ evaluating \in [Node -> BOOLEAN]
    /\ history = [n \in Node |-> history[n]]
    /\ \A n \in Node : Passes(session[n], history[n], evaluating[n])

\* A published outcome is the only one of a match that had none.
LEMMA PublishedEnds ==
    ASSUME NEW h, NEW o, h.ended = <<>>,
           h = [ended |-> h.ended, passedSince |-> h.passedSince]
    PROVE  LET k == published(h, o)
           IN  /\ k = [ended |-> k.ended, passedSince |-> k.passedSince]
               /\ k.passedSince = h.passedSince
               /\ o = NoOutcome => k.ended = <<>>
               /\ \A i \in DOMAIN k.ended : k.ended[i] = o
<1>1. CASE o = NoOutcome
  BY <1>1 DEF published
<1>2. CASE o # NoOutcome
  <2>1. published(h, o) = [ended |-> Append(<<>>, o), passedSince |-> h.passedSince]
    BY <1>2 DEF published
  <2>2. Append(<<>>, o) = <<o>> /\ \A i \in DOMAIN <<o>> : <<o>>[i] = o
    OBVIOUS
  <2> QED
    BY <1>2, <2>1, <2>2
<1> QED
  BY <1>1, <1>2

\* An accepted turn: the player who gives the turn away has just passed, or has
\* just played and not passed.
LEMMA TurnPasses ==
    ASSUME NumPlayers = 2, NEW s \in Session, NEW h, NEW pendingEnd,
           NEW a \in Turn, accepts(s, a), Passes(s, h, pendingEnd),
           NEW o \in {ProcessGameTurn(s, a).outcome, NoOutcome}
    PROVE  Passes(ProcessGameTurn(s, a).session,
                  published(passedAfter(h, a), o), pendingEnd)
<1> DEFINE m == moved(s, a)
           after == [m EXCEPT !.status = Active]
           outcome == EvaluateMatch(after)
           r == ProcessGameTurn(s, a).session
           h1 == passedAfter(h, a)
           k == published(h1, o)
<1>1. Player = {1, 2} /\ a.player = s.turn /\ a.player \in Player
  BY TwoPlayers, MovedFlags
<1>2. ~s.locked /\ h.ended = <<>>
  BY DEF accepts, Passes
<1>3. /\ h1 = [ended |-> h1.ended, passedSince |-> h1.passedSince]
      /\ h1.ended = <<>>
      /\ h1.passedSince = CASE a.op = "PLAY" -> {}
                            [] a.op = "PASS" -> h.passedSince \cup {a.player}
                            [] a.op = "DRAW" -> h.passedSince
  <2>1. h = [ended |-> h.ended, passedSince |-> h.passedSince]
    BY DEF Passes
  <2>2. h1 = [ended |-> h.ended,
              passedSince |-> CASE a.op = "PLAY" -> {}
                                [] a.op = "PASS" -> h.passedSince \cup {a.player}
                                [] a.op = "DRAW" -> h.passedSince]
    <3>1. CASE a.op = "PLAY"
      BY <2>1, <3>1 DEF passedAfter
    <3>2. CASE a.op = "PASS"
      BY <2>1, <3>2 DEF passedAfter
    <3>3. CASE a.op = "DRAW"
      BY <2>1, <3>3 DEF passedAfter
    <3> QED
      BY <3>1, <3>2, <3>3 DEF Turn, Play, Draw, Pass
  <2> HIDE DEF h1
  <2> QED
    BY <1>2, <2>2
<1> HIDE DEF h1
<1>4. /\ k = [ended |-> k.ended, passedSince |-> k.passedSince]
      /\ k.passedSince = h1.passedSince
      /\ o = NoOutcome => k.ended = <<>>
      /\ \A i \in DOMAIN k.ended : k.ended[i] = o
  BY <1>3, PublishedEnds
<1> HIDE DEF k
<1>5. m \in Session
  BY MovedType
<1>6. /\ activePlayers(m) = activePlayers(s)
      /\ \A p \in Player : p # a.player => m.hands[p].passed = s.hands[p].passed
      /\ m.hands[a.player].passed = (a.op = "PASS")
      /\ m.turn = IF a.op = "PASS" THEN 3 - a.player ELSE a.player
  BY MovedFlags
<1>7. /\ ProcessGameTurn(s, a).outcome = outcome
      /\ r = IF outcome # NoOutcome THEN lockForCompletion(after)
             ELSE IF a.op = "PLAY" THEN RotateTurn(after)
             ELSE after
  BY DEF ProcessGameTurn
<1> HIDE DEF m
<1>8. /\ after \in Session /\ after.hands = m.hands /\ after.turn = m.turn
      /\ after.status = Active
  BY <1>5 DEF Session
<1> HIDE DEF after
<1>9. /\ r.hands = m.hands /\ r.status # Absent
      /\ outcome # NoOutcome => r.locked
      /\ outcome = NoOutcome =>
            r.turn = IF a.op = "DRAW" THEN a.player ELSE 3 - a.player
  <2>1. CASE outcome # NoOutcome
    BY <1>7, <1>8, <2>1 DEF lockForCompletion, Session, Completed, Absent
  <2>2. CASE outcome = NoOutcome /\ a.op = "PLAY"
    BY <1>1, <1>6, <1>7, <1>8, <2>2 DEF RotateTurn, Session, NoPlayer, Active, Absent
  <2>3. CASE outcome = NoOutcome /\ a.op # "PLAY"
    BY <1>6, <1>7, <1>8, <2>3 DEF Active, Absent, Turn, Play, Draw, Pass
  <2> QED
    BY <2>1, <2>2, <2>3
<1>10. ~r.locked => outcome = NoOutcome /\ o = NoOutcome
  BY <1>7, <1>9
<1> HIDE DEF outcome, r
<1>11. activePlayers(r) = activePlayers(s) /\ activePlayers(after) = activePlayers(s)
  BY <1>6, <1>8, <1>9 DEF activePlayers
<1>12. ASSUME ~r.locked, NEW p \in Player, p # r.turn, r.hands[p].passed
       PROVE  p \in k.passedSince
  <2>1. CASE a.op = "PLAY"
    <3>1. p = a.player
      BY <1>1, <1>9, <1>10, <1>12, <2>1
    <3> QED
      BY <1>6, <1>9, <1>12, <2>1, <3>1
  <2>2. CASE a.op = "PASS"
    <3>1. p = a.player
      BY <1>1, <1>9, <1>10, <1>12, <2>2
    <3> QED
      BY <1>3, <1>4, <2>2, <3>1
  <2>3. CASE a.op = "DRAW"
    <3>1. p # a.player
      BY <1>9, <1>10, <1>12, <2>3
    <3>2. s.hands[p].passed /\ s.turn # NoPlayer
      BY <1>1, <1>6, <1>9, <1>12, <3>1 DEF NoPlayer
    <3>3. p \in h.passedSince
      BY <1>1, <1>2, <3>1, <3>2 DEF Passes
    <3> QED
      BY <1>3, <1>4, <2>3, <3>3
  <2> QED
    BY <2>1, <2>2, <2>3 DEF Turn, Play, Draw, Pass
<1>13. ASSUME o.reason = "BLOCKED"
       PROVE  activePlayers(r) \subseteq k.passedSince
  <2>1. o = outcome
    BY <1>7, <1>13 DEF NoOutcome
  <2>2. /\ Cardinality(activePlayers(after)) # 1 /\ activePlayers(after) # {}
        /\ \A p \in activePlayers(after) : after.hands[p].passed
    BY <1>13, <2>1, EvaluateMatchOutcome DEF outcome
  <2>3. activePlayers(after) = Player
    BY <2>2, TwoPlayers
  <2>4. a.op = "PASS"
    BY <1>1, <1>6, <1>8, <2>2, <2>3
  <2>5. ASSUME NEW p \in Player
        PROVE  p \in k.passedSince
    <3>1. CASE p = a.player
      BY <1>3, <1>4, <2>4, <3>1
    <3>2. CASE p # a.player
      <4>1. s.hands[p].passed /\ s.turn # NoPlayer
        BY <1>1, <1>6, <1>8, <2>2, <2>3, <3>2 DEF NoPlayer
      <4>2. p \in h.passedSince
        BY <1>1, <1>2, <3>2, <4>1 DEF Passes
      <4> QED
        BY <1>3, <1>4, <2>4, <4>2
    <3> QED
      BY <3>1, <3>2
  <2> QED
    BY <1>11, <2>3, <2>5
<1>14. pendingEnd => activePlayers(r) # Player
  BY <1>11 DEF Passes
<1>15. Passes(r, k, pendingEnd)
  BY <1>4, <1>9, <1>10, <1>12, <1>13, <1>14 DEF Passes
<1> QED
  BY <1>15 DEF r, k, h1

\* START_MATCH with a setup clears the passes and keeps who has left.
LEMMA StartedFlags ==
    ASSUME NEW s \in Session, NEW c \in Start, deck \in Seq(Tile)
    PROVE  LET r == startedSession(s, c)
               created == IF s.status = Absent THEN NewGameSession ELSE s
           IN  /\ r.status # Absent
               /\ c.setup => \A p \in Player : ~r.hands[p].passed
               /\ \A p \in Player : r.hands[p].abandoned = created.hands[p].abandoned
               /\ r.turn = created.turn \/ (created.turn = NoPlayer /\ r.turn = 1)
               /\ r.status = created.status \/ (r.status = Active /\ r.turn # NoPlayer)
<1> DEFINE created == IF s.status = Absent THEN NewGameSession ELSE s
           cleared == ResetForSetup(created)
           reset == [cleared EXCEPT !.boneyard = deck]
           hands == DealHands(reset, c.size)
           full == [hands EXCEPT !.status = Active,
                                 !.turn = IF hands.turn = NoPlayer THEN 1
                                          ELSE hands.turn]
           r == startedSession(s, c)
<1>1. created \in Session /\ created.status # Absent
  BY NewGameSessionType DEF NewGameSession, Waiting, Absent
<1>2. c.size \in HandSizes /\ c.setup \in BOOLEAN
  BY DEF Start
<1>3. /\ ~c.setup => r = created
      /\ c.setup /\ ~canDeal(reset, c.size) => r = reset
      /\ c.setup /\ canDeal(reset, c.size) => r = full
  BY DEF startedSession
<1> HIDE DEF created, r
<1>4. /\ cleared \in Session /\ cleared.turn = created.turn
      /\ cleared.status = created.status
      /\ \A p \in Player : /\ ~cleared.hands[p].passed
                           /\ cleared.hands[p].abandoned = created.hands[p].abandoned
  <2>1. cleared \in Session
    BY <1>1, ResetForSetupType
  <2> QED
    <3>1. cleared.hands = [p \in Player |-> holding(created.hands[p], {})]
      BY <1>1 DEF ResetForSetup, Session
    <3>2. cleared.turn = created.turn /\ cleared.status = created.status
      BY <1>1 DEF ResetForSetup, Session
    <3>3. \A p \in Player : created.hands[p] \in Hand
      BY <1>1 DEF Session
    <3>4. \A p \in Player :
             /\ holding(created.hands[p], {}).passed = FALSE
             /\ holding(created.hands[p], {}).abandoned = created.hands[p].abandoned
      BY <3>3 DEF holding, Hand
    <3> HIDE DEF cleared
    <3> QED
      BY <2>1, <3>1, <3>2, <3>4
<1> HIDE DEF cleared
<1>5. /\ reset \in Session /\ reset.turn = created.turn
      /\ reset.status = created.status
      /\ \A p \in Player : /\ ~reset.hands[p].passed
                           /\ reset.hands[p].abandoned = created.hands[p].abandoned
  BY <1>4 DEF Session
<1> HIDE DEF reset
<1>6. CASE c.setup /\ canDeal(reset, c.size)
  <2>1. hands \in Session
    BY <1>2, <1>5, <1>6, DealHandsType
  <2>2. /\ hands.turn = created.turn
        /\ \A p \in Player : /\ ~hands.hands[p].passed
                             /\ hands.hands[p].abandoned = created.hands[p].abandoned
    <3>1. hands.turn = reset.turn
      BY <1>5 DEF DealHands, Session
    <3>2. hands.hands = [p \in Player |->
              [reset.hands[p] EXCEPT !.tiles = dealt(reset, p, c.size)]]
      BY <1>5 DEF DealHands, Session
    <3>3. \A p \in Player : reset.hands[p] \in Hand
      BY <1>5 DEF Session
    <3> HIDE DEF hands
    <3> QED
      BY <1>5, <3>1, <3>2, <3>3 DEF Hand
  <2> HIDE DEF hands
  <2>3. /\ full.hands = hands.hands /\ full.status = Active
        /\ full.turn = IF created.turn = NoPlayer THEN 1 ELSE created.turn
    BY <2>1, <2>2 DEF Session
  <2> HIDE DEF full
  <2>4. r = full
    BY <1>3, <1>6
  <2> QED
    BY <2>2, <2>3, <2>4 DEF Active, Absent, NoPlayer, r, created
<1>7. CASE c.setup /\ ~canDeal(reset, c.size)
  <2>1. r = reset
    BY <1>3, <1>7
  <2> QED
    BY <1>1, <1>5, <2>1 DEF r, created
<1>8. CASE ~c.setup
  BY <1>1, <1>3, <1>8 DEF r, created
<1> QED
  BY <1>2, <1>6, <1>7, <1>8

\* A repeated START_MATCH begins a match in which nobody has passed.
LEMMA StartPasses ==
    ASSUME NEW s \in Session, NEW c \in Start, deck \in Seq(Tile),
           NEW h, NEW pendingEnd, Passes(s, h, pendingEnd)
    PROVE  Passes(startedSession(s, c), IF c.setup THEN NoHistory ELSE h,
                  pendingEnd)
<1> DEFINE r == startedSession(s, c)
<1>1. c.setup \in BOOLEAN
  BY DEF Start
<1>2. /\ r.status # Absent
      /\ c.setup => \A p \in Player : ~r.hands[p].passed
      /\ s.status # Absent => \A p \in Player : r.hands[p].abandoned = s.hands[p].abandoned
  BY StartedFlags
<1>3. /\ c.setup => r.locked = FALSE
      /\ (~c.setup /\ s.status # Absent) => r = s
      /\ (~c.setup /\ s.status = Absent) => r = NewGameSession
  BY StartedSessionType
<1> HIDE DEF r
<1>4. pendingEnd => activePlayers(r) # Player
  BY <1>2 DEF Passes, activePlayers
<1>5. CASE c.setup
  <2>1. NoHistory.ended = <<>> /\ DOMAIN NoHistory.ended = {}
    BY DEF NoHistory
  <2>2. NoHistory = [ended |-> NoHistory.ended, passedSince |-> NoHistory.passedSince]
    BY DEF NoHistory
  <2>3. Passes(r, NoHistory, pendingEnd)
    BY <1>2, <1>3, <1>4, <1>5, <2>1, <2>2 DEF Passes
  <2> QED
    BY <1>5, <2>3 DEF r
<1>6. CASE ~c.setup /\ s.status # Absent
  BY <1>3, <1>6 DEF r
<1>7. CASE ~c.setup /\ s.status = Absent
  <2>1. h.ended = <<>> /\ ~pendingEnd
    BY <1>7 DEF Passes
  <2>2. DOMAIN h.ended = {}
    BY <2>1
  <2>3. r.turn = NoPlayer
    BY <1>3, <1>7 DEF NewGameSession
  <2>4. Passes(r, h, pendingEnd)
    BY <1>2, <1>4, <2>1, <2>2, <2>3 DEF Passes
  <2> QED
    BY <1>7, <2>4 DEF r
<1> QED
  BY <1>1, <1>5, <1>6, <1>7

\* A player who leaves with the turn passes and gives it to the other.
LEMMA AbandonFlags ==
    ASSUME NumPlayers = 2, NEW s \in Session, NEW p \in Player
    PROVE  LET marked == [s EXCEPT !.hands[p].abandoned = TRUE]
               r == IF s.turn = p THEN PassTurn(marked, p) ELSE marked
           IN  /\ r.status = s.status /\ r.locked = s.locked
               /\ activePlayers(r) = activePlayers(s) \ {p}
               /\ r.turn = IF s.turn = p THEN 3 - p ELSE s.turn
               /\ \A q \in Player : r.hands[q].passed =
                      IF s.turn = p /\ q = p THEN TRUE ELSE s.hands[q].passed
<1> DEFINE marked == [s EXCEPT !.hands[p].abandoned = TRUE]
           r == IF s.turn = p THEN PassTurn(marked, p) ELSE marked
<1>1. Player = {1, 2} /\ s.hands \in [Player -> Hand]
  BY TwoPlayers DEF Session
<1>2. /\ marked.status = s.status /\ marked.turn = s.turn /\ marked.locked = s.locked
      /\ marked.hands = [s.hands EXCEPT ![p] = [s.hands[p] EXCEPT !.abandoned = TRUE]]
      /\ marked \in Session
  <2>1. marked \in Session
    BY AbandonedType
  <2> QED
    BY <2>1 DEF Session
<1>3. \A q \in Player : /\ marked.hands[q].passed = s.hands[q].passed
                        /\ marked.hands[q].abandoned =
                              IF q = p THEN TRUE ELSE s.hands[q].abandoned
  <2> DEFINE g == [s.hands[p] EXCEPT !.abandoned = TRUE]
  <2>1. g.passed = s.hands[p].passed /\ g.abandoned = TRUE
    BY <1>1 DEF Hand
  <2>2. marked.hands = [s.hands EXCEPT ![p] = g]
    BY <1>2
  <2> HIDE DEF marked, g
  <2> QED
    BY <1>1, <2>1, <2>2
<1> HIDE DEF marked
<1>4. /\ r.status = s.status /\ r.locked = s.locked
      /\ r.turn = IF s.turn = p THEN 3 - p ELSE s.turn
      /\ \A q \in Player :
            /\ r.hands[q].passed = IF s.turn = p /\ q = p THEN TRUE ELSE s.hands[q].passed
            /\ r.hands[q].abandoned = IF q = p THEN TRUE ELSE s.hands[q].abandoned
  <2>1. CASE s.turn = p
    <3> DEFINE g == [marked.hands EXCEPT ![p] = [marked.hands[p] EXCEPT !.passed = TRUE]]
    <3>1. /\ r.hands = g
          /\ r.turn = (p % NumPlayers) + 1
          /\ r.status = s.status /\ r.locked = s.locked
      BY <1>1, <1>2, <2>1 DEF PassTurn, RotateTurn, Session, NoPlayer
    <3>2. marked.hands \in [Player -> Hand]
      BY <1>2 DEF Session
    <3>3. \A q \in Player :
             /\ g[q].passed = IF q = p THEN TRUE ELSE marked.hands[q].passed
             /\ g[q].abandoned = marked.hands[q].abandoned
      BY <3>2 DEF Hand
    <3> HIDE DEF g
    <3>4. r.turn = 3 - p
      BY <1>1, <3>1
    <3> QED
      BY <1>3, <2>1, <3>1, <3>3, <3>4, ZenonT(60)
  <2>2. CASE s.turn # p
    BY <1>2, <1>3, <2>2
  <2> QED
    BY <2>1, <2>2
<1> HIDE DEF r
<1>5. activePlayers(r) = activePlayers(s) \ {p}
  BY <1>4 DEF activePlayers
<1> QED
  BY <1>4, <1>5 DEF r, marked

\* So who has passed and does not have the turn has still passed in time.
LEMMA AbandonPasses ==
    ASSUME NumPlayers = 2, NEW s \in Session, NEW p \in Player, NEW h,
           NEW pendingEnd, NEW saved, Passes(s, h, pendingEnd), s.status # Absent
    PROVE  LET marked == [s EXCEPT !.hands[p].abandoned = TRUE]
               r == IF s.turn = p THEN PassTurn(marked, p) ELSE marked
               k == IF s.turn = p THEN [h EXCEPT !.passedSince = @ \cup {p}] ELSE h
           IN  Passes(r, k, saved)
<1> DEFINE marked == [s EXCEPT !.hands[p].abandoned = TRUE]
           r == IF s.turn = p THEN PassTurn(marked, p) ELSE marked
           k == IF s.turn = p THEN [h EXCEPT !.passedSince = @ \cup {p}] ELSE h
<1>1. Player = {1, 2}
  BY TwoPlayers
<1>2. /\ r.status = s.status /\ r.locked = s.locked
      /\ activePlayers(r) = activePlayers(s) \ {p}
      /\ r.turn = IF s.turn = p THEN 3 - p ELSE s.turn
      /\ \A q \in Player : r.hands[q].passed =
             IF s.turn = p /\ q = p THEN TRUE ELSE s.hands[q].passed
  BY AbandonFlags
<1>3. /\ k = [ended |-> k.ended, passedSince |-> k.passedSince]
      /\ k.ended = h.ended
      /\ k.passedSince = IF s.turn = p THEN h.passedSince \cup {p} ELSE h.passedSince
  <2>1. h = [ended |-> h.ended, passedSince |-> h.passedSince]
    BY DEF Passes
  <2>2. [h EXCEPT !.passedSince = @ \cup {p}]
          = [ended |-> h.ended, passedSince |-> h.passedSince \cup {p}]
    BY <2>1, PassedSinceEnded
  <2> QED
    BY <2>1, <2>2
<1> HIDE DEF r, k
<1>4. ASSUME ~r.locked, NEW q \in Player, q # r.turn, r.turn # NoPlayer,
             r.hands[q].passed
      PROVE  q \in k.passedSince
  <2>1. CASE s.turn = p
    <3>1. q = p
      BY <1>1, <1>2, <1>4, <2>1
    <3> QED
      BY <1>3, <2>1, <3>1
  <2>2. CASE s.turn # p
    BY <1>2, <1>3, <1>4, <2>2 DEF Passes
  <2> QED
    BY <2>1, <2>2
<1>5. activePlayers(r) # Player
  BY <1>2
<1>6. Passes(r, k, saved)
  <2>1. ~r.locked => k.ended = <<>>
    BY <1>2, <1>3 DEF Passes
  <2>2. \A i \in DOMAIN k.ended :
           k.ended[i].reason = "BLOCKED" => activePlayers(r) \subseteq k.passedSince
    BY <1>2, <1>3 DEF Passes
  <2> QED
    BY <1>2, <1>3, <1>4, <1>5, <2>1, <2>2 DEF Passes
<1> QED
  BY <1>6 DEF r, k, marked

\* Evaluating an abandonment never finds a blocked match: one player is left.
LEMMA EvaluatePasses ==
    ASSUME NumPlayers = 2, NEW s \in Session, NEW h, Passes(s, h, TRUE), ~s.locked,
           NEW o \in {EvaluateMatch(s), NoOutcome}
    PROVE  Passes(lockForCompletion(s), published(h, o), FALSE)
<1> DEFINE r == lockForCompletion(s)
           k == published(h, o)
<1>1. /\ h.ended = <<>> /\ activePlayers(s) # Player
      /\ h = [ended |-> h.ended, passedSince |-> h.passedSince]
  BY DEF Passes
<1>2. r.locked = TRUE /\ r.status # Absent
  BY LockForCompletionType
<1>3. o.reason # "BLOCKED"
  <2>1. EvaluateMatch(s).reason # "BLOCKED"
    BY <1>1, TwoPlayers, EvaluateMatchOutcome
  <2> QED
    BY <2>1 DEF NoOutcome
<1>4. /\ k = [ended |-> k.ended, passedSince |-> k.passedSince]
      /\ \A i \in DOMAIN k.ended : k.ended[i] = o
  BY <1>1, PublishedEnds
<1> HIDE DEF r, k
<1>5. Passes(r, k, FALSE)
  BY <1>2, <1>3, <1>4 DEF Passes
<1> QED
  BY <1>5 DEF r, k

\* A step that gives node n a session, a history and a pending evaluation that
\* go together, while there is no snapshot.
LEMMA PassUpdate ==
    ASSUME PassInv, SessionsTyped', BoardLinked', NEW n \in Node, NEW s, NEW h,
           NEW e \in BOOLEAN, Passes(s, h, e),
           session' = [session EXCEPT ![n] = s],
           history' = [history EXCEPT ![n] = h],
           evaluating' = [evaluating EXCEPT ![n] = e], UNCHANGED snapshot
    PROVE  PassInv'
<1>1. /\ evaluating' \in [Node -> BOOLEAN]
      /\ history' = [m \in Node |-> history'[m]]
      /\ snapshot'.phase = "none"
  BY DEF PassInv
<1>2. ASSUME NEW m \in Node
      PROVE  Passes(session'[m], history'[m], evaluating'[m])
  <2>1. /\ session'[m] = (IF m = n THEN s ELSE session[m])
        /\ history'[m] = (IF m = n THEN h ELSE history[m])
        /\ evaluating'[m] = (IF m = n THEN e ELSE evaluating[m])
    BY DEF PassInv, SessionsTyped
  <2> QED
    BY <2>1, Zenon DEF PassInv
<1>3. \A m \in Node : Passes(session[m], history[m], evaluating[m])'
  BY <1>2 DEF Passes, activePlayers
<1> QED
  BY <1>1, <1>3 DEF PassInv

\* Initially nobody has passed and nothing has ended.
LEMMA PassInit == Init => PassInv
<1> SUFFICES ASSUME Init PROVE PassInv
  OBVIOUS
<1> DEFINE none == [NewGameSession EXCEPT !.status = Absent]
<1>1. none.locked = FALSE /\ none.turn = NoPlayer
  BY DEF NewGameSession
<1>2. /\ \A n \in Node : session[n] = none /\ history[n] = NoHistory
                         /\ evaluating[n] = FALSE
      /\ evaluating \in [Node -> BOOLEAN]
      /\ history = [n \in Node |-> history[n]]
      /\ snapshot.phase = "none"
  BY DEF Init, NoSnapshot
<1>3. /\ NoHistory.ended = <<>> /\ DOMAIN NoHistory.ended = {}
      /\ NoHistory = [ended |-> NoHistory.ended, passedSince |-> NoHistory.passedSince]
  BY DEF NoHistory
<1> HIDE DEF none
<1>4. Passes(none, NoHistory, FALSE)
  BY <1>1, <1>3 DEF Passes
<1> QED
  BY <1>2, <1>4, BoardInit DEF PassInv

\* Every operation preserves it for two players.
LEMMA PassNext ==
    ASSUME NumPlayers = 2, Snapshots = FALSE, PassInv, [Next]_vars
    PROVE  PassInv'
<1>1. SessionsTyped' /\ BoardLinked'
  BY BoardNext DEF PassInv
<1>2. /\ SessionsTyped /\ deck \in Seq(Tile) /\ snapshot.phase = "none"
      /\ history = [n \in Node |-> history[n]]
      /\ evaluating \in [Node -> BOOLEAN]
      /\ \A n \in Node : session[n] \in Session /\ Passes(session[n], history[n], evaluating[n])
  BY DEF PassInv, SessionsTyped
<1>3. ASSUME NEW c \in Command, commit(c)
      PROVE  PassInv'
  <2>1. UNCHANGED <<session, history, evaluating, snapshot>>
    BY <1>2, <1>3 DEF commit
  <2> QED
    BY <1>1, <1>2, <2>1 DEF PassInv, Passes, activePlayers
<1>4. ASSUME NEW n \in Node, ApplyReplicatedStartMatch(n)
      PROVE  PassInv'
  <2> DEFINE c == Head(pending[n])
             s == startedSession(session[n], c)
             h == IF c.setup THEN NoHistory ELSE history[n]
  <2>1. /\ c.op = "START" /\ session' = [session EXCEPT ![n] = s]
        /\ history' = [history EXCEPT ![n] = h] /\ UNCHANGED <<snapshot, evaluating>>
    BY <1>4 DEF ApplyReplicatedStartMatch
  <2>2. c \in Command
    BY <1>2, <1>4, PendingHead DEF ApplyReplicatedStartMatch, applies
  <2>3. c \in Start
    BY <2>1, <2>2 DEF Command, Turn, Play, Draw, Pass
  <2>4. Passes(s, h, evaluating[n])
    BY <1>2, <2>3, StartPasses
  <2>5. evaluating' = [evaluating EXCEPT ![n] = evaluating[n]] /\ evaluating[n] \in BOOLEAN
    BY <1>2, <2>1
  <2> HIDE DEF s, h
  <2> QED
    BY <1>1, <2>1, <2>4, <2>5, PassUpdate
<1>5. ASSUME NEW n \in Node, ApplyReplicatedTurn(n)
      PROVE  PassInv'
  <2> DEFINE a == Head(pending[n])
             r == ProcessGameTurn(session[n], a)
  <2>1. UNCHANGED <<snapshot, evaluating>> /\ a.op # "START"
    BY <1>5 DEF ApplyReplicatedTurn
  <2>2. a \in Turn
    BY <1>2, <1>5, <2>1, PendingHead DEF ApplyReplicatedTurn, applies, Command, Start
  <2>3. evaluating' = [evaluating EXCEPT ![n] = evaluating[n]] /\ evaluating[n] \in BOOLEAN
    BY <1>2, <2>1
  <2>4. CASE accepts(session[n], a)
    <3>1. PICK o \in {r.outcome, NoOutcome} :
             /\ session' = [session EXCEPT ![n] = r.session]
             /\ history' = [history EXCEPT ![n] =
                               published(passedAfter(history[n], a), o)]
      <4>1. PICK saved \in saves :
               /\ session' = [session EXCEPT ![n] = r.session]
               /\ history' = [history EXCEPT ![n] =
                      published(passedAfter(history[n], a),
                          IF saved THEN r.outcome ELSE NoOutcome)]
        BY <1>5, <2>4 DEF ApplyReplicatedTurn
      <4> HIDE DEF r, a
      <4> QED
        BY <4>1
    <3>2. Passes(r.session, published(passedAfter(history[n], a), o), evaluating[n])
      BY <1>2, <2>2, <2>4, TurnPasses
    <3> HIDE DEF r, a
    <3> QED
      BY <1>1, <2>1, <2>3, <3>1, <3>2, PassUpdate
  <2>5. CASE ~accepts(session[n], a)
    <3>1. UNCHANGED <<session, history>>
      BY <1>5, <2>5 DEF ApplyReplicatedTurn
    <3> QED
      BY <1>1, <1>2, <2>1, <3>1 DEF PassInv, Passes, activePlayers
  <2> QED
    BY <2>4, <2>5
<1>6. ASSUME NEW n \in Node, NEW p \in Abandonable, HandlePlayerAbandoned(n, p)
      PROVE  PassInv'
  <2> DEFINE marked == [session[n] EXCEPT !.hands[p].abandoned = TRUE]
             s == IF session[n].turn = p THEN PassTurn(marked, p) ELSE marked
             h == IF session[n].turn = p
                  THEN [history[n] EXCEPT !.passedSince = @ \cup {p}]
                  ELSE history[n]
  <2>1. p \in Player
    BY ConstantsAssumption
  <2>2. PICK saved \in BOOLEAN : evaluating' = [evaluating EXCEPT ![n] = saved]
    BY <1>6 DEF HandlePlayerAbandoned, saves
  <2>3. session' = [session EXCEPT ![n] = s] /\ UNCHANGED snapshot
    BY <1>6 DEF HandlePlayerAbandoned
  <2>4. history' = [history EXCEPT ![n] = h]
    BY <1>2, <1>6 DEF HandlePlayerAbandoned
  <2>5. session[n].status # Absent
    BY <1>6 DEF HandlePlayerAbandoned
  <2>6. Passes(s, h, saved)
    BY <1>2, <2>1, <2>5, AbandonPasses
  <2> HIDE DEF s, h
  <2> QED
    BY <1>1, <2>2, <2>3, <2>4, <2>6, PassUpdate
<1>7. ASSUME NEW n \in Node, evaluateAndMaybeFinalize(n)
      PROVE  PassInv'
  <2> DEFINE outcome == EvaluateMatch(session[n])
  <2>1. /\ UNCHANGED snapshot /\ evaluating[n] = TRUE
        /\ evaluating' = [evaluating EXCEPT ![n] = FALSE]
    BY <1>2, <1>7 DEF evaluateAndMaybeFinalize
  <2>2. Passes(session[n], history[n], TRUE)
    BY <1>2, <2>1
  <2>3. CASE session[n].locked \/ outcome = NoOutcome
    <3>1. UNCHANGED <<session, history>>
      BY <1>7, <2>3 DEF evaluateAndMaybeFinalize
    <3>2. /\ session' = [session EXCEPT ![n] = session[n]]
          /\ history' = [history EXCEPT ![n] = history[n]]
      BY <1>2, <3>1 DEF SessionsTyped
    <3>3. Passes(session[n], history[n], FALSE)
      BY <2>2 DEF Passes
    <3> QED
      BY <1>1, <2>1, <3>2, <3>3, PassUpdate
  <2>4. CASE ~(session[n].locked \/ outcome = NoOutcome)
    <3>1. PICK o \in {outcome, NoOutcome} :
             /\ session' = [session EXCEPT ![n] = lockForCompletion(session[n])]
             /\ history' = [history EXCEPT ![n] = published(history[n], o)]
      <4>1. PICK saved \in saves :
               /\ session' = [session EXCEPT ![n] = lockForCompletion(session[n])]
               /\ history' = [history EXCEPT ![n] =
                      published(history[n], IF saved THEN outcome ELSE NoOutcome)]
        BY <1>7, <2>4 DEF evaluateAndMaybeFinalize
      <4> HIDE DEF outcome
      <4> QED
        BY <4>1
    <3>2. Passes(lockForCompletion(session[n]), published(history[n], o), FALSE)
      BY <1>2, <2>2, <2>4, EvaluatePasses
    <3> HIDE DEF outcome
    <3> QED
      BY <1>1, <2>1, <3>1, <3>2, PassUpdate
  <2> QED
    BY <2>3, <2>4
<1>8. ~ \E n \in Node : SnapshotSessions(n) \/ CreateSnapshot(n) \/ Restore(n)
  BY <1>2 DEF SnapshotSessions, CreateSnapshot, Restore
<1>9. CASE UNCHANGED vars
  BY <1>1, <1>2, <1>9 DEF PassInv, Passes, activePlayers, vars
<1> QED
  BY <1>3, <1>4, <1>5, <1>6, <1>7, <1>8, <1>9 DEF Next

\* Between two players a match ends as blocked only when each of those who
\* remain has passed since the last tile was placed: a pass from before it,
\* which HasPassed still shows, never counts, whatever saves fail.
THEOREM BlockedOnlyAfterPasses ==
    ASSUME NumPlayers = 2, Snapshots = FALSE
    PROVE  Spec => []BlockedAfterPasses
<1>1. Init => PassInv
  BY PassInit
<1>2. PassInv /\ [Next]_vars => PassInv'
  BY PassNext
<1>3. PassInv => BlockedAfterPasses
  BY DEF PassInv, Passes, BlockedAfterPasses
<1> QED
  BY <1>1, <1>2, <1>3, PTL DEF Spec


-----------------------------------------------------------------------------
(* A decided match ends.  The inductive invariant adds to the types that a *)
(* running match is undecided or has an abandonment to evaluate, and that  *)
(* until the second START_MATCH a node that has a session has applied the  *)
(* only one there is, so that no deal follows an abandonment.              *)

GoesOn(s, pendingEnd) ==
    /\ s.status = Absent => ~s.locked /\ ~pendingEnd
    /\ (s.status = Active /\ ~s.locked /\ ~pendingEnd) => undecided(s)

NoStart(q) == \A i \in DOMAIN q : q[i].op # "START"

OneStart(q) ==
    \A i, j \in DOMAIN q : (q[i].op = "START" /\ q[j].op = "START") => i = j

\* With one START_MATCH in the log a node that has a session has applied it.
Started(s, q) ==
    /\ OneStart(q)
    /\ s.status # Absent => NoStart(q)
    /\ starts = 0 => s.status = Absent /\ NoStart(q)

EndsInv ==
    /\ SessionsTyped
    /\ BoardLinked
    /\ evaluating \in [Node -> BOOLEAN]
    /\ snapshot.phase = "none"
    /\ starts \in Nat
    /\ starts < 2 => \A n \in Node : /\ GoesOn(session[n], evaluating[n])
                                     /\ Started(session[n], pending[n])

\* Whether a log holds START_MATCH when it grows and when it shrinks.
LEMMA StartsInLog ==
    ASSUME NEW q \in Seq(Command), NEW c \in Command
    PROVE  /\ NoStart(q) => OneStart(Append(q, c))
           /\ (NoStart(q) /\ c.op # "START") => NoStart(Append(q, c))
           /\ (OneStart(q) /\ c.op # "START") => OneStart(Append(q, c))
           /\ (NoStart(q) /\ q # <<>>) => NoStart(Tail(q)) /\ Head(q).op # "START"
           /\ (OneStart(q) /\ q # <<>>) => OneStart(Tail(q))
           /\ (OneStart(q) /\ q # <<>> /\ Head(q).op = "START") => NoStart(Tail(q))
<1>1. /\ Len(q) \in Nat /\ DOMAIN q = 1..Len(q)
      /\ DOMAIN Append(q, c) = 1..(Len(q) + 1)
      /\ Append(q, c)[Len(q) + 1] = c
      /\ \A i \in 1..Len(q) : Append(q, c)[i] = q[i]
  OBVIOUS
<1>2. \A i \in 1..(Len(q) + 1) : i = Len(q) + 1 \/ i \in 1..Len(q)
  BY <1>1
<1> DEFINE r == Append(q, c)
<1>3. /\ NoStart(q) => OneStart(r)
      /\ (NoStart(q) /\ c.op # "START") => NoStart(r)
      /\ (OneStart(q) /\ c.op # "START") => OneStart(r)
  <2> HIDE DEF r
  <2>1. /\ DOMAIN q = 1..Len(q) /\ DOMAIN r = 1..(Len(q) + 1)
        /\ r[Len(q) + 1] = c /\ \A i \in 1..Len(q) : r[i] = q[i]
    BY <1>1 DEF r
  <2> QED
    BY <1>1, <1>2, <2>1 DEF NoStart, OneStart
<1>4. ASSUME q # <<>>
      PROVE  /\ Head(q) = q[1] /\ 1 \in DOMAIN q
             /\ \A i \in DOMAIN Tail(q) : /\ Tail(q)[i] = q[i + 1]
                                          /\ i + 1 \in DOMAIN q /\ i + 1 # 1
                                          /\ i \in Int
  BY <1>4
<1>5. ASSUME q # <<>>, NoStart(q)
      PROVE  NoStart(Tail(q)) /\ Head(q).op # "START"
  BY <1>4, <1>5 DEF NoStart
<1>6. ASSUME q # <<>>, OneStart(q)
      PROVE  OneStart(Tail(q))
  <2> SUFFICES ASSUME NEW i \in DOMAIN Tail(q), NEW j \in DOMAIN Tail(q),
                      Tail(q)[i].op = "START", Tail(q)[j].op = "START"
               PROVE  i = j
    BY DEF OneStart
  <2>1. i + 1 = j + 1
    BY <1>4, <1>6 DEF OneStart
  <2>2. i \in Int /\ j \in Int
    BY <1>4, <1>6
  <2> QED
    BY <2>1, <2>2
<1>7. ASSUME q # <<>>, OneStart(q), Head(q).op = "START"
      PROVE  NoStart(Tail(q))
  BY <1>4, <1>7 DEF OneStart, NoStart
<1> QED
  BY <1>3, <1>5, <1>6, <1>7

\* EvaluateMatch finds no outcome in an undecided match only.
LEMMA NoOutcomeUndecided ==
    ASSUME NEW s, EvaluateMatch(s) = NoOutcome
    PROVE  undecided(s)
<1> DEFINE active == activePlayers(s)
           out == {p \in active : s.hands[p].tiles = {}}
           blocked == /\ s.boneyard = <<>>
                      /\ active # {}
                      /\ \A p \in active : s.hands[p].passed
<1>1. EvaluateMatch(s) =
        CASE out # {} -> [winner |-> Min(out), reason |-> "EMPTY_HAND"]
          [] out = {} /\ Cardinality(active) = 1 ->
                [winner |-> Min(active), reason |-> "FORFEIT"]
          [] out = {} /\ Cardinality(active) # 1 /\ blocked ->
                [winner |-> lowestPipPlayer(s), reason |-> "BLOCKED"]
          [] OTHER -> NoOutcome
  BY Zenon DEF EvaluateMatch
<1> HIDE DEF active, out, blocked
<1>2. out = {}
  BY <1>1 DEF NoOutcome
<1>3. Cardinality(active) # 1
  BY <1>1, <1>2 DEF NoOutcome
<1>4. ~blocked
  BY <1>1, <1>2, <1>3 DEF NoOutcome
<1> QED
  BY <1>2, <1>3, <1>4 DEF undecided, active, out, blocked

\* A turn evaluates the match, so it locks it or leaves it undecided.
LEMMA TurnGoesOn ==
    ASSUME NEW s \in Session, NEW a \in Turn, accepts(s, a), NEW pendingEnd
    PROVE  GoesOn(ProcessGameTurn(s, a).session, pendingEnd)
<1> DEFINE m == moved(s, a)
           after == [m EXCEPT !.status = Active]
           outcome == EvaluateMatch(after)
           r == ProcessGameTurn(s, a).session
<1>1. m \in Session
  BY MovedType
<1>2. r = IF outcome # NoOutcome THEN lockForCompletion(after)
          ELSE IF a.op = "PLAY" THEN RotateTurn(after)
          ELSE after
  BY DEF ProcessGameTurn
<1> HIDE DEF m
<1>3. after \in Session /\ after.status = Active
  BY <1>1 DEF Session
<1> HIDE DEF after, r
<1>4. CASE outcome # NoOutcome
  <2>1. r.locked = TRUE /\ r.status # Absent
    BY <1>2, <1>3, <1>4, LockForCompletionType
  <2> QED
    BY <2>1 DEF GoesOn, r
<1>5. CASE outcome = NoOutcome
  <2>1. undecided(after)
    BY <1>5, NoOutcomeUndecided
  <2>2. /\ r.hands = after.hands /\ r.boneyard = after.boneyard
        /\ r.status = Active
    BY <1>2, <1>3, <1>5 DEF RotateTurn, Session
  <2>3. undecided(r)
    BY <2>1, <2>2 DEF undecided, activePlayers
  <2> QED
    BY <2>2, <2>3 DEF GoesOn, Active, Absent, r
<1> QED
  BY <1>4, <1>5

\* The first deal leaves everybody there with a tile and nobody passed.
LEMMA StartGoesOn ==
    ASSUME NumPlayers > 1, NEW s \in Session, NEW c \in Start,
           deck \in Seq(Tile), s.status = Absent
    PROVE  GoesOn(startedSession(s, c), FALSE)
<1> DEFINE cleared == ResetForSetup(NewGameSession)
           reset == [cleared EXCEPT !.boneyard = deck]
           hands == DealHands(reset, c.size)
           full == [hands EXCEPT !.status = Active,
                                 !.turn = IF hands.turn = NoPlayer THEN 1
                                          ELSE hands.turn]
           r == startedSession(s, c)
<1>1. c.size \in Nat \ {0} /\ c.setup \in BOOLEAN /\ NumPlayers \in Nat
  BY ConstantsAssumption DEF Start
<1>2. /\ ~c.setup => r = NewGameSession
      /\ c.setup /\ ~canDeal(reset, c.size) => r = reset
      /\ c.setup /\ canDeal(reset, c.size) => r = full
  BY DEF startedSession
<1>3. r.status # Absent
  BY StartedFlags
<1>4. NewGameSession \in Session /\ NewGameSession.status = Waiting
  BY NewGameSessionType DEF NewGameSession
<1>5. cleared \in Session /\ cleared.status = Waiting
  <2>1. cleared \in Session
    BY <1>4, ResetForSetupType
  <2> QED
    BY <1>4, <2>1 DEF ResetForSetup, Session
<1> HIDE DEF cleared
<1>6. reset \in Session /\ reset.status = Waiting
  BY <1>5 DEF Session
<1>7. \A p \in Player : ~r.hands[p].abandoned
  <2>1. \A p \in Player : r.hands[p].abandoned = NewGameSession.hands[p].abandoned
    BY StartedFlags
  <2> HIDE DEF r
  <2> QED
    BY <2>1 DEF NewGameSession
<1>8. c.setup => \A p \in Player : ~r.hands[p].passed
  BY StartedFlags
<1> HIDE DEF reset
<1>9. CASE c.setup /\ canDeal(reset, c.size)
  <2>1. r.hands = hands.hands
    <3>1. hands \in Session /\ r = full
      BY <1>2, <1>6, <1>9, DealHandsType DEF Start
    <3> HIDE DEF hands, r
    <3> QED
      BY <3>1 DEF Session
  <2>2. hands.hands = [p \in Player |->
            [reset.hands[p] EXCEPT !.tiles = dealt(reset, p, c.size)]]
    BY <1>6 DEF DealHands, Session
  <2>3. \A p \in Player : reset.hands[p] \in Hand
    BY <1>6 DEF Session
  <2>4. ASSUME NEW p \in Player
        PROVE  dealt(reset, p, c.size) # {}
    <3>1. p \in Nat
      BY DEF Player
    <3>2. (p - 1) * c.size + 1 \in ((p - 1) * c.size + 1)..(p * c.size)
      BY <1>1, <3>1
    <3> QED
      BY <3>2 DEF dealt
  <2> HIDE DEF r, hands
  <2>5. \A p \in Player : r.hands[p].tiles # {}
    BY <2>1, <2>2, <2>3, <2>4 DEF Hand
  <2>6. activePlayers(r) = Player
    BY <1>7 DEF activePlayers
  <2>7. Cardinality(Player) = NumPlayers /\ 1 \in Player
    BY <1>1, FS_Interval DEF Player
  <2>8. undecided(r)
    BY <1>1, <1>8, <1>9, <2>5, <2>6, <2>7 DEF undecided
  <2> QED
    BY <1>3, <2>8 DEF GoesOn, r
<1>10. CASE ~(c.setup /\ canDeal(reset, c.size))
  <2>1. r.status = Waiting
    BY <1>1, <1>2, <1>4, <1>6, <1>10
  <2> HIDE DEF r
  <2>2. GoesOn(r, FALSE)
    BY <2>1 DEF GoesOn, Waiting, Active, Absent
  <2> QED
    BY <2>2 DEF r
<1> QED
  BY <1>9, <1>10

\* A step of node n that starts no match.
LEMMA EndsUpdate ==
    ASSUME EndsInv, SessionsTyped', BoardLinked', NEW n \in Node,
           NEW s, NEW q, NEW e \in BOOLEAN, UNCHANGED <<starts, snapshot>>,
           starts < 2 => GoesOn(s, e) /\ Started(s, q),
           session' = [session EXCEPT ![n] = s],
           pending' = [pending EXCEPT ![n] = q],
           evaluating' = [evaluating EXCEPT ![n] = e]
    PROVE  EndsInv'
<1>1. ASSUME NEW m \in Node, starts < 2
      PROVE  GoesOn(session'[m], evaluating'[m]) /\ Started(session'[m], pending'[m])
  <2>1. /\ session'[m] = (IF m = n THEN s ELSE session[m])
        /\ pending'[m] = (IF m = n THEN q ELSE pending[m])
        /\ evaluating'[m] = (IF m = n THEN e ELSE evaluating[m])
    BY DEF EndsInv, SessionsTyped
  <2> QED
    BY <1>1, <2>1, Zenon DEF EndsInv
<1>2. \A m \in Node : starts < 2 =>
          /\ GoesOn(session[m], evaluating[m])'
          /\ Started(session[m], pending[m])'
  BY <1>1 DEF GoesOn, Started, undecided, activePlayers
<1>3. evaluating' \in [Node -> BOOLEAN]
  BY DEF EndsInv
<1> QED
  BY <1>2, <1>3 DEF EndsInv

\* Initially nothing is started.
LEMMA EndsInit == Init => EndsInv
<1> SUFFICES ASSUME Init PROVE EndsInv
  OBVIOUS
<1> DEFINE none == [NewGameSession EXCEPT !.status = Absent]
<1>1. none.locked = FALSE /\ none.status = Absent
  BY DEF NewGameSession
<1>2. /\ \A n \in Node : session[n] = none /\ pending[n] = <<>> /\ evaluating[n] = FALSE
      /\ starts = 0 /\ snapshot.phase = "none"
      /\ evaluating \in [Node -> BOOLEAN]
  BY DEF Init, NoSnapshot
<1> HIDE DEF none
<1>3. GoesOn(none, FALSE)
  BY <1>1 DEF GoesOn, Absent, Active
<1>4. Started(none, <<>>)
  BY <1>1 DEF Started, NoStart, OneStart
<1> QED
  BY <1>2, <1>3, <1>4, BoardInit DEF EndsInv

\* Every operation preserves it when no save fails.
LEMMA EndsNext ==
    ASSUME NumPlayers > 1, Snapshots = FALSE, PersistMayFail = FALSE,
           EndsInv, [Next]_vars
    PROVE  EndsInv'
<1>1. SessionsTyped' /\ BoardLinked'
  BY BoardNext DEF EndsInv
<1>2. /\ SessionsTyped /\ deck \in Seq(Tile) /\ snapshot.phase = "none"
      /\ starts \in Nat /\ evaluating \in [Node -> BOOLEAN]
      /\ \A n \in Node : /\ session[n] \in Session
                         /\ pending[n] \in Seq(Command)
                         /\ evaluating[n] \in BOOLEAN
      /\ starts < 2 => \A n \in Node : /\ GoesOn(session[n], evaluating[n])
                                       /\ Started(session[n], pending[n])
  BY DEF EndsInv, SessionsTyped
<1>3. ASSUME NEW c \in Command, commit(c)
      PROVE  EndsInv'
  <2>1. /\ UNCHANGED <<session, evaluating, snapshot>>
        /\ pending' = [n \in Node |-> Append(pending[n], c)]
        /\ starts' = IF c.op = "START" THEN starts + 1 ELSE starts
    BY <1>2, <1>3 DEF commit
  <2>2. ASSUME NEW n \in Node, starts' < 2
        PROVE  /\ GoesOn(session[n], evaluating[n])
               /\ OneStart(Append(pending[n], c))
               /\ session[n].status # Absent => NoStart(Append(pending[n], c))
               /\ starts' = 0 => /\ session[n].status = Absent
                                 /\ NoStart(Append(pending[n], c))
    <3>1. CASE c.op = "START"
      <4>1. starts = 0 /\ starts' # 0
        BY <1>2, <2>1, <2>2, <3>1
      <4>2. NoStart(pending[n]) /\ session[n].status = Absent
        BY <1>2, <4>1 DEF Started
      <4> QED
        BY <1>2, <4>1, <4>2, StartsInLog
    <3>2. CASE c.op # "START"
      <4>1. starts' = starts
        BY <2>1, <3>2
      <4> QED
        BY <1>2, <2>2, <3>2, <4>1, StartsInLog DEF Started
    <3> QED
      BY <3>1, <3>2
  <2>3. \A n \in Node : starts' < 2 =>
            GoesOn(session[n], evaluating[n])' /\ Started(session[n], pending[n])'
    BY <2>1, <2>2 DEF GoesOn, Started, undecided, activePlayers
  <2>4. starts' \in Nat
    BY <1>2, <2>1
  <2> QED
    BY <1>1, <1>2, <2>1, <2>3, <2>4 DEF EndsInv
<1>4. ASSUME NEW n \in Node, ApplyReplicatedStartMatch(n)
      PROVE  EndsInv'
  <2> DEFINE c == Head(pending[n])
             s == startedSession(session[n], c)
             q == Tail(pending[n])
  <2>1. /\ c.op = "START" /\ session' = [session EXCEPT ![n] = s]
        /\ pending' = [pending EXCEPT ![n] = q] /\ UNCHANGED <<starts, evaluating, snapshot>>
        /\ pending[n] # <<>>
    BY <1>4 DEF ApplyReplicatedStartMatch, applies
  <2>2. c \in Command
    BY <1>2, <2>1, PendingHead
  <2>3. c \in Start
    BY <2>1, <2>2 DEF Command, Turn, Play, Draw, Pass
  <2>4. evaluating' = [evaluating EXCEPT ![n] = evaluating[n]]
    BY <1>2, <2>1
  <2>5. ASSUME starts < 2
        PROVE  GoesOn(s, evaluating[n]) /\ Started(s, q)
    <3>1. GoesOn(session[n], evaluating[n]) /\ Started(session[n], pending[n])
      BY <1>2, <2>5
    <3>2. ~NoStart(pending[n])
      BY <1>2, <2>1, <2>2, StartsInLog
    <3>3. session[n].status = Absent /\ starts # 0
      BY <3>1, <3>2 DEF Started
    <3>4. evaluating[n] = FALSE
      BY <1>2, <3>1, <3>3 DEF GoesOn
    <3>5. GoesOn(s, FALSE)
      BY <1>2, <2>3, <3>3, StartGoesOn
    <3>6. NoStart(q)
      BY <1>2, <2>1, <2>2, <3>1, StartsInLog DEF Started
    <3>7. OneStart(q)
      BY <3>6 DEF NoStart, OneStart
    <3> QED
      BY <3>3, <3>4, <3>5, <3>6, <3>7 DEF Started
  <2> HIDE DEF s, q, c
  <2> QED
    BY <1>1, <1>2, <2>1, <2>4, <2>5, EndsUpdate
<1>5. ASSUME NEW n \in Node, ApplyReplicatedTurn(n)
      PROVE  EndsInv'
  <2> DEFINE a == Head(pending[n])
             q == Tail(pending[n])
             s == IF accepts(session[n], a) THEN ProcessGameTurn(session[n], a).session
                  ELSE session[n]
  <2>1. /\ UNCHANGED <<starts, evaluating, snapshot>> /\ a.op # "START"
        /\ pending' = [pending EXCEPT ![n] = q] /\ pending[n] # <<>>
    BY <1>5 DEF ApplyReplicatedTurn, applies
  <2>2. a \in Command /\ a \in Turn
    BY <1>2, <2>1, PendingHead DEF Command, Start
  <2>3. evaluating' = [evaluating EXCEPT ![n] = evaluating[n]]
    BY <1>2, <2>1
  <2>4. session' = [session EXCEPT ![n] = s]
    <3>1. CASE accepts(session[n], a)
      BY <1>5, <3>1 DEF ApplyReplicatedTurn
    <3>2. CASE ~accepts(session[n], a)
      <4>1. session' = session
        BY <1>5, <3>2 DEF ApplyReplicatedTurn
      <4>2. s = session[n]
        BY <3>2
      <4> HIDE DEF s
      <4> QED
        BY <1>2, <4>1, <4>2 DEF SessionsTyped
    <3> QED
      BY <3>1, <3>2
  <2>5. ASSUME starts < 2
        PROVE  GoesOn(s, evaluating[n]) /\ Started(s, q)
    <3>1. GoesOn(session[n], evaluating[n]) /\ Started(session[n], pending[n])
      BY <1>2, <2>5
    <3>2. OneStart(q) /\ (NoStart(pending[n]) => NoStart(q))
      BY <1>2, <2>1, <2>2, <3>1, StartsInLog DEF Started
    <3>3. CASE accepts(session[n], a)
      <4>1. GoesOn(s, evaluating[n])
        BY <1>2, <2>2, <3>1, <3>3, TurnGoesOn
      <4>2. session[n].status # Absent
        BY <3>3 DEF accepts
      <4> HIDE DEF s, q
      <4> QED
        BY <3>1, <3>2, <4>1, <4>2 DEF Started
    <3>4. CASE ~accepts(session[n], a)
      <4>1. s = session[n]
        BY <3>4
      <4> HIDE DEF s, q
      <4> QED
        BY <3>1, <3>2, <4>1 DEF Started
    <3> QED
      BY <3>3, <3>4
  <2> HIDE DEF s, q, a
  <2> QED
    BY <1>1, <1>2, <2>1, <2>3, <2>4, <2>5, EndsUpdate
<1>6. ASSUME NEW n \in Node, NEW p \in Abandonable, HandlePlayerAbandoned(n, p)
      PROVE  EndsInv'
  <2> DEFINE marked == [session[n] EXCEPT !.hands[p].abandoned = TRUE]
             s == IF session[n].turn = p THEN PassTurn(marked, p) ELSE marked
  <2>1. p \in Player
    BY ConstantsAssumption
  <2>2. /\ evaluating' = [evaluating EXCEPT ![n] = TRUE]
        /\ session' = [session EXCEPT ![n] = s]
        /\ UNCHANGED <<pending, starts, snapshot>>
        /\ session[n].status # Absent
    BY <1>2, <1>6 DEF HandlePlayerAbandoned, saves
  <2>3. s.status = session[n].status
    <3>1. marked \in Session /\ marked.status = session[n].status
      BY <1>2, <2>1, AbandonedType DEF Session
    <3> HIDE DEF marked
    <3> QED
      BY <3>1 DEF PassTurn, RotateTurn, Session
  <2> HIDE DEF s
  <2>4. pending' = [pending EXCEPT ![n] = pending[n]]
    BY <1>2, <2>2 DEF SessionsTyped
  <2>5. ASSUME starts < 2
        PROVE  GoesOn(s, TRUE) /\ Started(s, pending[n])
    BY <1>2, <2>2, <2>3, <2>5 DEF GoesOn, Started
  <2> QED
    BY <1>1, <2>2, <2>4, <2>5, EndsUpdate
<1>7. ASSUME NEW n \in Node, evaluateAndMaybeFinalize(n)
      PROVE  EndsInv'
  <2> DEFINE keep == session[n].locked \/ EvaluateMatch(session[n]) = NoOutcome
             lock == lockForCompletion(session[n])
             s == IF keep THEN session[n] ELSE lock
  <2>1. /\ evaluating[n] = TRUE /\ evaluating' = [evaluating EXCEPT ![n] = FALSE]
        /\ UNCHANGED <<pending, starts, snapshot>>
    BY <1>2, <1>7 DEF evaluateAndMaybeFinalize
  <2>2. session' = [session EXCEPT ![n] = s]
    <3>1. CASE keep
      <4>1. session' = session
        BY <1>7, <3>1 DEF evaluateAndMaybeFinalize
      <4> QED
        BY <1>2, <3>1, <4>1 DEF SessionsTyped
    <3>2. CASE ~keep
      <4>1. session' = [session EXCEPT ![n] = lock]
        BY <1>7, <3>2 DEF evaluateAndMaybeFinalize
      <4> HIDE DEF keep, lock
      <4> QED
        BY <3>2, <4>1
    <3> QED
      BY <3>1, <3>2
  <2>3. pending' = [pending EXCEPT ![n] = pending[n]]
    BY <1>2, <2>1 DEF SessionsTyped
  <2>4. ASSUME starts < 2
        PROVE  GoesOn(s, FALSE) /\ Started(s, pending[n])
    <3>1. GoesOn(session[n], TRUE) /\ Started(session[n], pending[n])
      BY <1>2, <2>1, <2>4
    <3>2. GoesOn(s, FALSE)
      <4>1. CASE session[n].locked
        BY <3>1, <4>1 DEF GoesOn
      <4>2. CASE ~session[n].locked /\ EvaluateMatch(session[n]) = NoOutcome
        BY <3>1, <4>2, NoOutcomeUndecided DEF GoesOn
      <4>3. CASE ~keep
        <5>1. s = lock /\ lock.locked = TRUE /\ lock.status # Absent
          BY <1>2, <4>3, LockForCompletionType
        <5> HIDE DEF s, lock, keep
        <5> QED
          BY <5>1 DEF GoesOn
      <4> QED
        BY <4>1, <4>2, <4>3
    <3>3. session[n].status # Absent
      BY <3>1 DEF GoesOn
    <3> HIDE DEF s
    <3> QED
      BY <3>1, <3>2, <3>3 DEF Started
  <2> HIDE DEF s
  <2> QED
    BY <1>1, <2>1, <2>2, <2>3, <2>4, EndsUpdate
<1>8. ~ \E n \in Node : SnapshotSessions(n) \/ CreateSnapshot(n) \/ Restore(n)
  BY <1>2 DEF SnapshotSessions, CreateSnapshot, Restore
<1>9. CASE UNCHANGED vars
  BY <1>1, <1>2, <1>9 DEF EndsInv, GoesOn, Started, activePlayers, vars
<1> QED
  BY <1>3, <1>4, <1>5, <1>6, <1>7, <1>8, <1>9 DEF Next

\* With two players or more, when no save fails and no snapshot is installed, a
\* decided match does not go on before a second START_MATCH, however turns and
\* the two halves of an abandonment interleave.
THEOREM DecidedAlwaysEnds ==
    ASSUME NumPlayers > 1, Snapshots = FALSE, PersistMayFail = FALSE
    PROVE  Spec => []DecidedMatchEnds
<1>1. Init => EndsInv
  BY EndsInit
<1>2. EndsInv /\ [Next]_vars => EndsInv'
  BY EndsNext
<1>3. EndsInv => DecidedMatchEnds
  BY DEF EndsInv, GoesOn, DecidedMatchEnds
<1> QED
  BY <1>1, <1>2, <1>3, PTL DEF Spec

=============================================================================
