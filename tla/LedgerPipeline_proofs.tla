----------------------- MODULE LedgerPipeline_proofs -----------------------
(***************************************************************************)
(* What becomes of the records of finished matches, for any number of      *)
(* nodes and matches, any capacities, attempts and failing calls; and how  *)
(* often a node writes them and counts them.                               *)
(***************************************************************************)
EXTENDS LedgerPipeline, TLAPS

WorkerState ==
    [pc : {"idle", "save", "read", "update", "stamp", "next"},
     record : Match \cup {None}, batch : Seq(Match), replaying : BOOLEAN,
     attempt : Nat]

GhostState ==
    [ended : [Node -> SUBSET Match], saved : [Node -> SUBSET Match],
     lost : [Node -> SUBSET Match], unsure : [Node -> SUBSET Match],
     torn : [Node -> SUBSET Match]]

\* Nodes that the store has added, per node of the cluster and match.
Counts == [Node -> [Match -> 0..2]]

Typed ==
    /\ phase \in [Node -> {"up", "stopped", "down"}]
    /\ jobs \in [Node -> Seq(Match)]
    /\ spooling \in [Node -> SUBSET Match]
    /\ spool \in [Node -> Seq(Match)]
    /\ worker \in [Node -> WorkerState]
    /\ rows \in Counts
    /\ applied \in [Match -> BOOLEAN]
    /\ careers \in Counts
    /\ ghost \in GhostState

distinct(s) == \A i, j \in DOMAIN s : s[i] = s[j] => i = j

\* The record that is about to be saved.
saving(w) == IF w.pc = "save" THEN {w.record} ELSE {}

\* What the goroutine has in its hands fits the place it is at: nothing while
\* idle, and a record that was saved once it is being rated.
Handled(w, v) ==
    /\ w.pc = "idle" => w.record = None /\ w.batch = << >>
    /\ ~w.replaying => w.batch = << >>
    /\ w.pc = "save" => w.record \in Match
    /\ w.pc \notin {"idle", "save"} => w.record \in v

\* A record is in one place only: with a caller (s), in the queue (j), in the
\* spool (p), drained (b), about to be saved (r) or saved (v).
Apart(s, j, p, b, r, v) ==
    /\ j \cap (s \cup p \cup b \cup r \cup v) = {}
    /\ s \cap (p \cup b \cup r \cup v) = {}
    /\ p \cap (b \cup r \cup v) = {}
    /\ b \cap (r \cup v) = {}
    /\ r \cap v = {}

\* A node that is ph, with callers s, queue j, spool p and worker w, has saved
\* v and lost l of the records e it was given: it has had no other, each is in
\* one place, and while the node lives none is nowhere.
Keeps(ph, s, j, p, w, v, l, e) ==
    LET all == s \cup Range(j) \cup Range(p) \cup Range(w.batch) \cup saving(w) \cup v
    IN  /\ Handled(w, v)
        /\ distinct(j) /\ distinct(p) /\ distinct(w.batch)
        /\ Apart(s, Range(j), Range(p), Range(w.batch), saving(w), v)
        /\ all \subseteq e
        /\ ph # "down" => e \subseteq all \cup l

NodeKeeps(n) ==
    Keeps(phase[n], spooling[n], jobs[n], spool[n], worker[n], ghost.saved[n],
          ghost.lost[n], ghost.ended[n])

IInv == Typed /\ \A n \in Node : NodeKeeps(n)

\* A node has added the row of its one save of a match, unless one was in
\* doubt.
RowPerSave(n) ==
    \A m \in Match \ ghost.unsure[n] :
        rows[n][m] = IF m \in ghost.saved[n] THEN 1 ELSE 0

\* A match that the node has rated is stamped or about to be, and one that it
\* is about to rate it has not rated before, whoever stamps it meanwhile.
CountedOnce(n) ==
    LET w == worker[n]
    IN  \A m \in Match \ ghost.torn[n] :
           /\ careers[n][m] \in {0, 1}
           /\ careers[n][m] = 1 => applied[m] \/ (w.pc = "stamp" /\ w.record = m)
           /\ w.pc = "update" /\ w.record = m => careers[n][m] = 0

-----------------------------------------------------------------------------
(* Sequences without repetition *)

LEMMA RangeIn ==
    ASSUME NEW S, NEW s \in Seq(S)
    PROVE  /\ Range(s) = {s[i] : i \in 1..Len(s)} /\ Range(s) \subseteq S
           /\ s = << >> => Range(s) = {}
  BY DEF Range

LEMMA AppendRange ==
    ASSUME NEW S, NEW s \in Seq(S), NEW m \in S
    PROVE  /\ Append(s, m) \in Seq(S)
           /\ Range(Append(s, m)) = Range(s) \cup {m}
           /\ distinct(s) /\ m \notin Range(s) => distinct(Append(s, m))
<1>1. /\ Append(s, m) \in Seq(S) /\ Len(Append(s, m)) = Len(s) + 1
      /\ Append(s, m)[Len(s) + 1] = m
      /\ \A i \in 1..Len(s) : Append(s, m)[i] = s[i]
  OBVIOUS
<1>2. Range(s) = {s[i] : i \in 1..Len(s)} /\ DOMAIN s = 1..Len(s)
  BY DEF Range
<1>3. /\ Range(Append(s, m)) = {Append(s, m)[i] : i \in 1..(Len(s) + 1)}
      /\ DOMAIN Append(s, m) = 1..(Len(s) + 1) /\ Len(s) \in Nat
  BY <1>1 DEF Range
<1> DEFINE t == Append(s, m)
<1>t. t = Append(s, m)
  OBVIOUS
<1> HIDE DEF t
<1>4. Range(t) = Range(s) \cup {m}
  <2>1. \A i \in 1..(Len(s) + 1) : t[i] \in Range(s) \cup {m}
    BY <1>1, <1>2, <1>3, <1>t
  <2>2. \A x \in Range(s) \cup {m} : \E i \in 1..(Len(s) + 1) : x = t[i]
    BY <1>1, <1>2, <1>3, <1>t
  <2> QED
    BY <1>3, <1>t, <2>1, <2>2
<1>5. ASSUME distinct(s), m \notin Range(s) PROVE distinct(t)
  <2> SUFFICES ASSUME NEW i \in 1..(Len(s) + 1), NEW j \in 1..(Len(s) + 1),
                      t[i] = t[j]
               PROVE  i = j
    BY <1>3, <1>t DEF distinct
  <2>1. CASE i = Len(s) + 1 \/ j = Len(s) + 1
    BY <1>1, <1>2, <1>3, <1>5, <1>t, <2>1
  <2>2. CASE i # Len(s) + 1 /\ j # Len(s) + 1
    <3>1. i \in 1..Len(s) /\ j \in 1..Len(s)
      BY <1>3, <2>2
    <3>2. s[i] = s[j]
      BY <1>1, <1>t, <3>1
    <3> QED
      BY <1>2, <1>5, <3>1, <3>2 DEF distinct
  <2> QED
    BY <2>1, <2>2
<1> QED
  BY <1>1, <1>4, <1>5, <1>t

LEMMA TailRange ==
    ASSUME NEW S, NEW s \in Seq(S), s # << >>, distinct(s)
    PROVE  /\ Tail(s) \in Seq(S) /\ Head(s) \in S /\ Head(s) \in Range(s)
           /\ Range(Tail(s)) = Range(s) \ {Head(s)}
           /\ distinct(Tail(s))
<1>1. PICK L \in Nat : L = Len(s) /\ L > 0
  OBVIOUS
<1>2. /\ Tail(s) \in Seq(S) /\ Len(Tail(s)) = L - 1 /\ Head(s) = s[1]
      /\ \A i \in 1..(L - 1) : Tail(s)[i] = s[i + 1]
  BY <1>1
<1>3. /\ Range(s) = {s[i] : i \in 1..L} /\ DOMAIN s = 1..L
      /\ s[1] \in S /\ s[1] \in Range(s)
  BY <1>1 DEF Range
<1>4. /\ Range(Tail(s)) = {Tail(s)[i] : i \in 1..(L - 1)}
      /\ DOMAIN Tail(s) = 1..(L - 1)
  <2>1. DOMAIN Tail(s) = 1..Len(Tail(s))
    BY <1>2
  <2>2. DOMAIN Tail(s) = 1..(L - 1)
    BY <1>2, <2>1
  <2> QED
    BY <2>2 DEF Range
<1>5. \A i, j \in 1..L : s[i] = s[j] => i = j
  BY <1>3 DEF distinct
<1> DEFINE t == Tail(s)
<1>t. t = Tail(s)
  OBVIOUS
<1> HIDE DEF t
<1>6. Range(t) = Range(s) \ {s[1]}
  <2>1. ASSUME NEW i \in 1..(L - 1) PROVE t[i] \in Range(s) \ {s[1]}
    <3>1. i + 1 \in 1..L /\ 1 \in 1..L /\ i + 1 # 1
      BY <1>1
    <3>2. s[i + 1] # s[1]
      BY <1>5, <3>1
    <3> QED
      BY <1>2, <1>3, <1>t, <3>1, <3>2
  <2>2. ASSUME NEW x \in Range(s) \ {s[1]} PROVE \E i \in 1..(L - 1) : x = t[i]
    <3>1. PICK k \in 1..L : x = s[k] /\ k # 1
      BY <1>3
    <3>2. k - 1 \in 1..(L - 1) /\ t[k - 1] = s[k]
      <4>1. k - 1 \in 1..(L - 1) /\ (k - 1) + 1 = k
        BY <3>1
      <4> QED
        BY <1>2, <1>t, <4>1
    <3> QED
      BY <3>1, <3>2
  <2> QED
    BY <1>4, <1>t, <2>1, <2>2
<1>7. distinct(t)
  <2> SUFFICES ASSUME NEW i \in 1..(L - 1), NEW j \in 1..(L - 1), t[i] = t[j]
               PROVE  i = j
    BY <1>4, <1>t DEF distinct
  <2>1. i + 1 \in 1..L /\ j + 1 \in 1..L
    BY <1>1
  <2>2. s[i + 1] = s[j + 1]
    BY <1>2, <1>t
  <2>3. i + 1 = j + 1
    BY <1>5, <2>1, <2>2
  <2> QED
    BY <2>3
<1> QED
  BY <1>2, <1>3, <1>6, <1>7, <1>t

\* DeadLetterSpool.Spool keeps the others, except the oldest on overflow.
LEMMA SpoolRange ==
    ASSUME NEW s \in Seq(Match), distinct(s), NEW m \in Match, m \notin Range(s)
    PROVE  /\ Spool(s, m) \in Seq(Match) /\ distinct(Spool(s, m))
           /\ Range(Spool(s, m)) = (Range(s) \ overwritten(s)) \cup {m}
           /\ overwritten(s) \subseteq Range(s)
<1>1. CASE Len(s) >= SpoolCap
  <2>1. s # << >>
    BY <1>1, LedgerAssumption
  <2>2. /\ Tail(s) \in Seq(Match) /\ Head(s) \in Range(s)
        /\ Range(Tail(s)) = Range(s) \ {Head(s)} /\ distinct(Tail(s))
    BY <2>1, TailRange
  <2>3. Spool(s, m) = Append(Tail(s), m) /\ overwritten(s) = {Head(s)}
    BY <1>1 DEF Spool, overwritten
  <2>4. /\ Append(Tail(s), m) \in Seq(Match) /\ distinct(Append(Tail(s), m))
        /\ Range(Append(Tail(s), m)) = Range(Tail(s)) \cup {m}
    BY <2>2, AppendRange, ZenonT(60)
  <2> QED
    BY <2>2, <2>3, <2>4
<1>2. CASE ~(Len(s) >= SpoolCap)
  BY <1>2, AppendRange DEF Spool, overwritten
<1> QED
  BY <1>1, <1>2

-----------------------------------------------------------------------------
(* What an operation does to the records of its node *)

LEMMA GivenDown ==
    ASSUME NEW ph, NEW s, NEW j, NEW p, NEW w, NEW v, NEW l, NEW e, NEW m,
           Keeps(ph, s, j, p, w, v, l, e)
    PROVE  Keeps("down", s, j, p, w, v, l, e \cup {m})
  BY DEF Keeps

LEMMA GivenQueued ==
    ASSUME NEW ph, NEW s, NEW j \in Seq(Match), NEW p, NEW w, NEW v, NEW l, NEW e,
           NEW m \in Match, m \notin e, Keeps(ph, s, j, p, w, v, l, e)
    PROVE  Keeps(ph, s, Append(j, m), p, w, v, l, e \cup {m})
<1>1. Range(Append(j, m)) = Range(j) \cup {m} /\ distinct(Append(j, m))
  BY AppendRange DEF Keeps
<1>2. m \notin s \cup Range(j) \cup Range(p) \cup Range(w.batch) \cup saving(w) \cup v
  BY DEF Keeps
<1> QED
  BY <1>1, <1>2 DEF Keeps, Apart

LEMMA GivenHeld ==
    ASSUME NEW ph, NEW s, NEW j, NEW p, NEW w, NEW v, NEW l, NEW e,
           NEW m \in Match, m \notin e, Keeps(ph, s, j, p, w, v, l, e)
    PROVE  Keeps(ph, s \cup {m}, j, p, w, v, l, e \cup {m})
<1>2. m \notin s \cup Range(j) \cup Range(p) \cup Range(w.batch) \cup saving(w) \cup v
  BY DEF Keeps
<1> QED
  BY <1>2 DEF Keeps, Apart

LEMMA HeldSpooled ==
    ASSUME NEW ph, NEW s, NEW j, NEW p \in Seq(Match), NEW w, NEW v, NEW l, NEW e,
           NEW m \in Match, m \in s, Keeps(ph, s, j, p, w, v, l, e)
    PROVE  Keeps(ph, s \ {m}, j, Spool(p, m), w, v, l \cup overwritten(p), e)
<1>1. distinct(p) /\ m \notin Range(p)
  BY DEF Keeps, Apart
<1>2. /\ distinct(Spool(p, m))
      /\ Range(Spool(p, m)) = (Range(p) \ overwritten(p)) \cup {m}
      /\ overwritten(p) \subseteq Range(p)
  BY <1>1, SpoolRange
<1> QED
  BY <1>2 DEF Keeps, Apart

LEMMA QueueTaken ==
    ASSUME NEW ph, NEW s, NEW j \in Seq(Match), NEW p, NEW w, NEW v, NEW l, NEW e,
           NEW x, j # << >>, w.pc = "idle",
           x.pc = "save", x.record = Head(j), x.batch = << >>, ~x.replaying,
           Keeps(ph, s, j, p, w, v, l, e)
    PROVE  Keeps(ph, s, Tail(j), p, x, v, l, e)
<1>1. /\ Range(Tail(j)) = Range(j) \ {Head(j)} /\ distinct(Tail(j))
      /\ Head(j) \in Range(j) /\ Head(j) \in Match
  BY TailRange DEF Keeps
<1>2. saving(w) = {} /\ saving(x) = {Head(j)} /\ w.batch = << >>
  BY DEF saving, Keeps, Handled
<1>3. Handled(x, v)
  BY <1>1 DEF Handled
<1> QED
  BY <1>1, <1>2, <1>3 DEF Keeps, Apart

LEMMA RecordSaved ==
    ASSUME NEW ph, NEW s, NEW j, NEW p, NEW w, NEW v, NEW l, NEW e, NEW x,
           w.pc = "save",
           x.pc = "read", x.record = w.record, x.batch = w.batch,
           x.replaying = w.replaying, Keeps(ph, s, j, p, w, v, l, e)
    PROVE  Keeps(ph, s, j, p, x, v \cup {w.record}, l, e)
<1>1. saving(w) = {w.record} /\ saving(x) = {}
  BY DEF saving
<1>2. Handled(x, v \cup {w.record})
  BY DEF Handled, Keeps
<1> QED
  BY <1>1, <1>2 DEF Keeps, Apart

LEMMA RecordKept ==
    ASSUME NEW ph, NEW s, NEW j, NEW p, NEW w, NEW v, NEW l, NEW e, NEW x,
           \/ w.pc = "save" /\ x.pc = "save"
           \/ w.pc \notin {"idle", "save"} /\ x.pc \notin {"idle", "save"},
           x.record = w.record, x.batch = w.batch,
           x.replaying = w.replaying, Keeps(ph, s, j, p, w, v, l, e)
    PROVE  Keeps(ph, s, j, p, x, v, l, e)
<1>1. saving(w) = saving(x)
  BY DEF saving
<1>2. Handled(x, v)
  BY DEF Handled, Keeps
<1> QED
  BY <1>1, <1>2 DEF Keeps

LEMMA RecordSpooled ==
    ASSUME NEW ph, NEW s, NEW j, NEW p \in Seq(Match), NEW w, NEW v, NEW l, NEW e,
           w.pc = "save", Keeps(ph, s, j, p, w, v, l, e)
    PROVE  Keeps(ph, s, j, Spool(p, w.record), Idle, v,
                 l \cup overwritten(p) \cup Range(w.batch), e)
<1>1. distinct(p) /\ w.record \notin Range(p) /\ w.record \in Match
  BY DEF Keeps, Apart, Handled, saving
<1>2. /\ distinct(Spool(p, w.record))
      /\ Range(Spool(p, w.record)) = (Range(p) \ overwritten(p)) \cup {w.record}
      /\ overwritten(p) \subseteq Range(p)
  BY <1>1, SpoolRange
<1>3. /\ Idle.batch = << >> /\ Range(Idle.batch) = {} /\ saving(Idle) = {}
      /\ saving(w) = {w.record} /\ Handled(Idle, v) /\ distinct(Idle.batch)
  BY DEF saving, Idle, Handled, Range, distinct
<1> QED
  BY <1>2, <1>3 DEF Keeps, Apart

LEMMA NothingToReplay ==
    ASSUME NEW ph, NEW s, NEW j, NEW p, NEW w, NEW v, NEW l, NEW e,
           w.pc = "next", w.batch = << >>, Keeps(ph, s, j, p, w, v, l, e)
    PROVE  Keeps(ph, s, j, p, Idle, v, l, e)
<1>3. /\ Idle.batch = << >> /\ saving(Idle) = {} /\ saving(w) = {}
      /\ Handled(Idle, v)
  BY DEF saving, Idle, Handled
<1> QED
  BY <1>3 DEF Keeps

LEMMA ReplayedNext ==
    ASSUME NEW ph, NEW s, NEW j, NEW p, NEW w, NEW v, NEW l, NEW e, NEW x,
           w.pc = "next", w.batch \in Seq(Match), w.batch # << >>,
           x.pc = "save", x.record = Head(w.batch), x.batch = Tail(w.batch),
           x.replaying = TRUE, Keeps(ph, s, j, p, w, v, l, e)
    PROVE  Keeps(ph, s, j, p, x, v, l, e)
<1>1. /\ Range(Tail(w.batch)) = Range(w.batch) \ {Head(w.batch)}
      /\ distinct(Tail(w.batch))
      /\ Head(w.batch) \in Range(w.batch) /\ Head(w.batch) \in Match
  BY TailRange DEF Keeps
<1>2. saving(w) = {} /\ saving(x) = {Head(w.batch)} /\ Handled(x, v)
  BY <1>1 DEF saving, Handled
<1> QED
  BY <1>1, <1>2 DEF Keeps, Apart

LEMMA ReplayedFirst ==
    ASSUME NEW ph, NEW s, NEW j, NEW p \in Seq(Match), NEW w, NEW v, NEW l, NEW e,
           NEW x, w.pc = "next", w.batch = << >>, p # << >>,
           x.pc = "save", x.record = Head(p), x.batch = Tail(p),
           x.replaying = TRUE, Keeps(ph, s, j, p, w, v, l, e)
    PROVE  Keeps(ph, s, j, << >>, x, v, l, e)
<1>1. /\ Range(Tail(p)) = Range(p) \ {Head(p)} /\ distinct(Tail(p))
      /\ Head(p) \in Range(p) /\ Head(p) \in Match
  BY TailRange DEF Keeps
<1>2. saving(w) = {} /\ saving(x) = {Head(p)} /\ Handled(x, v)
  BY <1>1 DEF saving, Handled
<1>3. /\ Range(<< >>) = {} /\ distinct(<< >>)
  BY DEF Range, distinct
<1> QED
  BY <1>1, <1>2, <1>3 DEF Keeps, Apart

-----------------------------------------------------------------------------
(* Updates of the variables *)

\* g is f with worker n at pc, its records as before.
Moved(f, g, n, pc) ==
    /\ g \in [Node -> WorkerState]
    /\ g[n].pc = pc /\ g[n].record = f[n].record /\ g[n].batch = f[n].batch
    /\ g[n].replaying = f[n].replaying
    /\ \A k \in Node \ {n} : g[k] = f[k]

Pcs == {"idle", "save", "read", "update", "stamp", "next"}

LEMMA WorkerMoves ==
    ASSUME NEW f \in [Node -> WorkerState], NEW n \in Node, NEW pc \in Pcs,
           NEW a \in Nat
    PROVE  /\ Moved(f, [f EXCEPT ![n].pc = pc], n, pc)
           /\ Moved(f, [f EXCEPT ![n].pc = pc, ![n].attempt = a], n, pc)
           /\ Moved(f, [f EXCEPT ![n].pc = pc, ![n].attempt = @ + 1], n, pc)
           /\ Moved(f, [f EXCEPT ![n].attempt = @ + 1], n, f[n].pc)
<1> DEFINE w == f[n]
<1>0. /\ w \in WorkerState /\ w = f[n] /\ w.attempt + 1 \in Nat
      /\ DOMAIN f = Node
  BY DEF WorkerState
<1>1. /\ [w EXCEPT !.pc = pc] \in WorkerState
      /\ [w EXCEPT !.pc = pc, !.attempt = a] \in WorkerState
      /\ [w EXCEPT !.pc = pc, !.attempt = @ + 1] \in WorkerState
      /\ [w EXCEPT !.attempt = @ + 1] \in WorkerState
  BY <1>0 DEF WorkerState, Pcs
<1>2. Moved(f, [f EXCEPT ![n].pc = pc], n, pc)
  BY <1>0, <1>1 DEF Moved, WorkerState
<1>3. Moved(f, [f EXCEPT ![n].pc = pc, ![n].attempt = a], n, pc)
  BY <1>0, <1>1 DEF Moved, WorkerState
<1>4. Moved(f, [f EXCEPT ![n].pc = pc, ![n].attempt = @ + 1], n, pc)
  BY <1>0, <1>1 DEF Moved, WorkerState
<1>5. Moved(f, [f EXCEPT ![n].attempt = @ + 1], n, f[n].pc)
  BY <1>0, <1>1 DEF Moved, WorkerState
<1> QED
  BY <1>2, <1>3, <1>4, <1>5

\* Node n has one more match, m, and the others what they had.
OneMore(f, g, n, m) ==
    /\ g[n] = f[n] \cup {m}
    /\ \A k \in Node \ {n} : g[k] = f[k]

\* What the store adds for node n and match m touches no other count.
Adds(f, g, n, m) ==
    /\ g \in Counts
    /\ g[n][m] = IF f[n][m] = 0 THEN 1 ELSE 2
    /\ \A j \in Match \ {m} : g[n][j] = f[n][j]
    /\ \A k \in Node \ {n} : g[k] = f[k]

LEMMA AddedCounts ==
    ASSUME NEW f \in Counts, NEW n \in Node, NEW m \in Match
    PROVE  Adds(f, added(f, n, m), n, m)
<1> DEFINE row == [f[n] EXCEPT ![m] = IF f[n][m] = 0 THEN 1 ELSE 2]
<1>1. /\ f[n] \in [Match -> 0..2] /\ row \in [Match -> 0..2]
      /\ row[m] = IF f[n][m] = 0 THEN 1 ELSE 2
      /\ \A j \in Match \ {m} : row[j] = f[n][j]
  BY DEF Counts
<1>2. added(f, n, m) = [f EXCEPT ![n] = row]
  BY DEF added
<1> HIDE DEF row
<1> QED
  BY <1>1, <1>2 DEF Adds, Counts

\* The ghost g became h, which differs in the records saved and lost by n only.
SavedLost(g, h, n, v, l) ==
    /\ h \in GhostState
    /\ h.saved[n] = v /\ h.lost[n] = l /\ h.ended = g.ended
    /\ h.unsure = g.unsure /\ h.torn = g.torn
    /\ \A k \in Node \ {n} : h.saved[k] = g.saved[k] /\ h.lost[k] = g.lost[k]

LEMMA GhostUpdates ==
    ASSUME NEW g \in GhostState, NEW n \in Node, NEW m \in Match, NEW l \in SUBSET Match,
           NEW b \in SUBSET Match
    PROVE  /\ SavedLost(g, [g EXCEPT !.saved[n] = @ \cup {m}], n,
                        g.saved[n] \cup {m}, g.lost[n])
           /\ SavedLost(g, [g EXCEPT !.lost[n] = @ \cup l], n,
                        g.saved[n], g.lost[n] \cup l)
           /\ SavedLost(g, [g EXCEPT !.lost[n] = @ \cup l \cup b], n,
                        g.saved[n], g.lost[n] \cup l \cup b)
<1>0. /\ DOMAIN g.saved = Node /\ DOMAIN g.lost = Node
      /\ g.saved[n] \in SUBSET Match /\ g.lost[n] \in SUBSET Match
  BY DEF GhostState
<1> DEFINE f1 == [g.saved EXCEPT ![n] = @ \cup {m}]
           f2 == [g.lost EXCEPT ![n] = @ \cup l]
           f3 == [g.lost EXCEPT ![n] = @ \cup l \cup b]
<1>1. /\ f1 \in [Node -> SUBSET Match] /\ f1[n] = g.saved[n] \cup {m}
      /\ \A k \in Node \ {n} : f1[k] = g.saved[k]
  BY <1>0 DEF GhostState
<1>2. /\ f2 \in [Node -> SUBSET Match] /\ f2[n] = g.lost[n] \cup l
      /\ \A k \in Node \ {n} : f2[k] = g.lost[k]
  BY <1>0 DEF GhostState
<1>3. /\ f3 \in [Node -> SUBSET Match] /\ f3[n] = g.lost[n] \cup l \cup b
      /\ \A k \in Node \ {n} : f3[k] = g.lost[k]
  BY <1>0 DEF GhostState
<1>4. /\ [g EXCEPT !.saved[n] = @ \cup {m}] = [g EXCEPT !.saved = f1]
      /\ [g EXCEPT !.lost[n] = @ \cup l] = [g EXCEPT !.lost = f2]
      /\ [g EXCEPT !.lost[n] = @ \cup l \cup b] = [g EXCEPT !.lost = f3]
  BY Zenon
<1> HIDE DEF f1, f2, f3
<1>5. SavedLost(g, [g EXCEPT !.saved = f1], n, g.saved[n] \cup {m}, g.lost[n])
  BY <1>1 DEF SavedLost, GhostState
<1>6. SavedLost(g, [g EXCEPT !.lost = f2], n, g.saved[n], g.lost[n] \cup l)
  BY <1>2 DEF SavedLost, GhostState
<1>7. SavedLost(g, [g EXCEPT !.lost = f3], n, g.saved[n], g.lost[n] \cup l \cup b)
  BY <1>3 DEF SavedLost, GhostState
<1> QED
  BY <1>4, <1>5, <1>6, <1>7

-----------------------------------------------------------------------------
(* One step per operation: no record disappears *)

LEMMA OtherNodes ==
    ASSUME IInv, Typed', NEW n \in Node, NodeKeeps(n)',
           \A k \in Node \ {n} :
              /\ phase'[k] = phase[k] /\ spooling'[k] = spooling[k]
              /\ jobs'[k] = jobs[k] /\ spool'[k] = spool[k]
              /\ worker'[k] = worker[k] /\ ghost'.saved[k] = ghost.saved[k]
              /\ ghost'.lost[k] = ghost.lost[k] /\ ghost'.ended[k] = ghost.ended[k]
    PROVE  IInv'
<1>1. ASSUME NEW k \in Node \ {n} PROVE NodeKeeps(k)'
  BY <1>1 DEF IInv, NodeKeeps
<1> QED
  BY <1>1 DEF IInv

LEMMA EnqueueKeeps ==
    ASSUME IInv, NEW n \in Node, NEW m \in Match, Enqueue(n, m)
    PROVE  IInv'
<1>0. /\ Typed
      /\ Keeps(phase[n], spooling[n], jobs[n], spool[n], worker[n], ghost.saved[n],
               ghost.lost[n], ghost.ended[n])
  BY DEF IInv, NodeKeeps
<1>1. /\ ghost' = [ghost EXCEPT !.ended[n] = @ \cup {m}] /\ m \notin ghost.ended[n]
      /\ UNCHANGED <<spool, worker, breaker, store, faults>>
  BY DEF Enqueue
<1>2. UNCHANGED <<spool, worker, rows, applied, careers>>
  BY <1>1 DEF store
<1>3. /\ ghost' \in GhostState /\ ghost'.saved = ghost.saved /\ ghost'.lost = ghost.lost
      /\ ghost'.ended[n] = ghost.ended[n] \cup {m}
      /\ \A k \in Node \ {n} : ghost'.ended[k] = ghost.ended[k]
  BY <1>0, <1>1 DEF Typed, GhostState
<1>4. CASE /\ phase' = [phase EXCEPT ![n] = "down"] /\ UNCHANGED <<jobs, spooling>>
  <2>1. /\ phase' \in [Node -> {"up", "stopped", "down"}] /\ phase'[n] = "down"
        /\ \A k \in Node \ {n} : phase'[k] = phase[k]
    BY <1>0, <1>4 DEF Typed
  <2>2. NodeKeeps(n)'
    <3>1. Keeps("down", spooling[n], jobs[n], spool[n], worker[n], ghost.saved[n],
                ghost.lost[n], ghost.ended[n] \cup {m})
      BY <1>0, GivenDown
    <3> QED
      BY <1>2, <1>3, <1>4, <2>1, <3>1 DEF NodeKeeps
  <2>3. Typed'
    BY <1>0, <1>2, <1>3, <1>4, <2>1 DEF Typed
  <2> QED
    BY <1>2, <1>3, <1>4, <2>1, <2>2, <2>3, OtherNodes
<1>5. CASE /\ jobs' = [jobs EXCEPT ![n] = Append(@, m)]
           /\ UNCHANGED <<phase, spooling>>
  <2>0. jobs[n] \in Seq(Match) /\ Append(jobs[n], m) \in Seq(Match)
    BY <1>0 DEF Typed
  <2>1. /\ jobs' \in [Node -> Seq(Match)] /\ jobs'[n] = Append(jobs[n], m)
        /\ \A k \in Node \ {n} : jobs'[k] = jobs[k]
    BY <1>0, <1>5, <2>0 DEF Typed
  <2>2. Keeps(phase[n], spooling[n], Append(jobs[n], m), spool[n], worker[n],
              ghost.saved[n], ghost.lost[n], ghost.ended[n] \cup {m})
    BY <1>0, <1>1, <2>0, GivenQueued
  <2>3. NodeKeeps(n)'
    BY <1>2, <1>3, <1>5, <2>1, <2>2 DEF NodeKeeps
  <2>4. Typed'
    BY <1>0, <1>2, <1>3, <1>5, <2>1 DEF Typed
  <2> QED
    BY <1>2, <1>3, <1>5, <2>1, <2>3, <2>4, OtherNodes
<1>6. CASE /\ spooling' = [spooling EXCEPT ![n] = @ \cup {m}]
           /\ UNCHANGED <<phase, jobs>>
  <2>1. /\ spooling' \in [Node -> SUBSET Match] /\ spooling'[n] = spooling[n] \cup {m}
        /\ \A k \in Node \ {n} : spooling'[k] = spooling[k]
    BY <1>0, <1>6 DEF Typed
  <2>2. Keeps(phase[n], spooling[n] \cup {m}, jobs[n], spool[n], worker[n],
              ghost.saved[n], ghost.lost[n], ghost.ended[n] \cup {m})
    BY <1>0, <1>1, GivenHeld
  <2>3. NodeKeeps(n)'
    BY <1>2, <1>3, <1>6, <2>1, <2>2 DEF NodeKeeps
  <2>4. Typed'
    BY <1>0, <1>2, <1>3, <1>6, <2>1 DEF Typed
  <2> QED
    BY <1>2, <1>3, <1>6, <2>1, <2>3, <2>4, OtherNodes
<1> QED
  BY <1>4, <1>5, <1>6 DEF Enqueue

LEMMA EnqueueSpoolsKeeps ==
    ASSUME IInv, NEW n \in Node, NEW m \in Match, enqueueSpools(n, m)
    PROVE  IInv'
<1>0. /\ Typed
      /\ Keeps(phase[n], spooling[n], jobs[n], spool[n], worker[n], ghost.saved[n],
               ghost.lost[n], ghost.ended[n])
  BY DEF IInv, NodeKeeps
<1>1. /\ m \in spooling[n]
      /\ spooling' = [spooling EXCEPT ![n] = @ \ {m}]
      /\ spool' = [spool EXCEPT ![n] = Spool(@, m)]
      /\ ghost' = [ghost EXCEPT !.lost[n] = @ \cup overwritten(spool[n])]
      /\ UNCHANGED <<phase, jobs, worker, rows, applied, careers>>
  BY DEF enqueueSpools, store
<1>2. /\ spool[n] \in Seq(Match) /\ Range(spool[n]) \subseteq Match
      /\ distinct(spool[n]) /\ m \notin Range(spool[n])
  <2>1. spool[n] \in Seq(Match) /\ distinct(spool[n]) /\ m \notin Range(spool[n])
    BY <1>0, <1>1 DEF Typed, Keeps, Apart
  <2> QED
    BY <2>1, RangeIn
<1>3. /\ Spool(spool[n], m) \in Seq(Match)
      /\ overwritten(spool[n]) \in SUBSET Match
  BY <1>2, SpoolRange
<1>4. /\ spooling' \in [Node -> SUBSET Match] /\ spooling'[n] = spooling[n] \ {m}
      /\ \A k \in Node \ {n} : spooling'[k] = spooling[k]
      /\ spool' \in [Node -> Seq(Match)] /\ spool'[n] = Spool(spool[n], m)
      /\ \A k \in Node \ {n} : spool'[k] = spool[k]
  BY <1>0, <1>1, <1>3 DEF Typed
<1>5. SavedLost(ghost, ghost', n, ghost.saved[n],
                ghost.lost[n] \cup overwritten(spool[n]))
  <2>1. ghost \in GhostState
    BY <1>0 DEF Typed
  <2> QED
    BY <1>1, <1>3, <2>1, GhostUpdates
<1>6. Keeps(phase[n], spooling[n] \ {m}, jobs[n], Spool(spool[n], m), worker[n],
            ghost.saved[n], ghost.lost[n] \cup overwritten(spool[n]), ghost.ended[n])
  BY <1>0, <1>1, <1>2, HeldSpooled
<1>7. NodeKeeps(n)'
  BY <1>1, <1>4, <1>5, <1>6 DEF NodeKeeps, SavedLost
<1>8. Typed'
  BY <1>0, <1>1, <1>4, <1>5 DEF Typed, SavedLost
<1> QED
  BY <1>1, <1>4, <1>5, <1>7, <1>8, OtherNodes DEF SavedLost

LEMMA StopKeeps ==
    ASSUME IInv, NEW n \in Node, Stop(n)
    PROVE  IInv'
<1>0. /\ Typed
      /\ Keeps(phase[n], spooling[n], jobs[n], spool[n], worker[n], ghost.saved[n],
               ghost.lost[n], ghost.ended[n])
  BY DEF IInv, NodeKeeps
<1>1. /\ phase[n] = "up" /\ phase' = [phase EXCEPT ![n] = "stopped"]
      /\ UNCHANGED <<jobs, spooling, spool, worker, rows, applied, careers, ghost>>
  BY DEF Stop, store
<1>2. /\ phase' \in [Node -> {"up", "stopped", "down"}] /\ phase'[n] = "stopped"
      /\ \A k \in Node \ {n} : phase'[k] = phase[k]
  BY <1>0, <1>1 DEF Typed
<1>3. NodeKeeps(n)'
  BY <1>0, <1>1, <1>2 DEF NodeKeeps, Keeps
<1>4. Typed'
  BY <1>0, <1>1, <1>2 DEF Typed
<1> QED
  BY <1>1, <1>2, <1>3, <1>4, OtherNodes

LEMMA TakenUp ==
    ASSUME NEW r \in Match, NEW b \in Seq(Match)
    PROVE  /\ [Idle EXCEPT !.pc = "save", !.record = r] \in WorkerState
           /\ [Idle EXCEPT !.pc = "save", !.record = r, !.batch = b,
                           !.replaying = TRUE] \in WorkerState
<1>1. << >> \in Seq(Match)
  OBVIOUS
<1> QED
  BY <1>1 DEF Idle, WorkerState

LEMMA RunKeeps ==
    ASSUME IInv, NEW n \in Node, Run(n)
    PROVE  IInv'
<1>0. /\ Typed
      /\ Keeps(phase[n], spooling[n], jobs[n], spool[n], worker[n], ghost.saved[n],
               ghost.lost[n], ghost.ended[n])
  BY DEF IInv, NodeKeeps
<1> DEFINE x == [Idle EXCEPT !.pc = "save", !.record = Head(jobs[n])]
<1>1. /\ worker[n].pc = "idle" /\ jobs[n] # << >>
      /\ worker' = [worker EXCEPT ![n] = x]
      /\ jobs' = [jobs EXCEPT ![n] = Tail(@)]
      /\ UNCHANGED <<phase, spooling, spool, rows, applied, careers, ghost>>
  BY DEF Run, at, store
<1>2. jobs[n] \in Seq(Match) /\ Head(jobs[n]) \in Match /\ Tail(jobs[n]) \in Seq(Match)
  BY <1>0, <1>1 DEF Typed
<1>3. /\ x \in WorkerState /\ x.pc = "save" /\ x.record = Head(jobs[n])
      /\ x.batch = << >> /\ x.replaying = FALSE
  <2>1. x \in WorkerState
    BY <1>2, TakenUp
  <2>2. x.pc = "save" /\ x.record = Head(jobs[n]) /\ x.batch = << >>
    BY DEF Idle
  <2>3. x.replaying = FALSE
    BY DEF Idle
  <2> QED
    BY <2>1, <2>2, <2>3
<1> HIDE DEF x
<1>4. /\ worker' \in [Node -> WorkerState] /\ worker'[n] = x
      /\ \A k \in Node \ {n} : worker'[k] = worker[k]
      /\ jobs' \in [Node -> Seq(Match)] /\ jobs'[n] = Tail(jobs[n])
      /\ \A k \in Node \ {n} : jobs'[k] = jobs[k]
  BY <1>0, <1>1, <1>2, <1>3 DEF Typed
<1>5. Keeps(phase[n], spooling[n], Tail(jobs[n]), spool[n], x, ghost.saved[n],
            ghost.lost[n], ghost.ended[n])
  BY <1>0, <1>1, <1>2, <1>3, QueueTaken
<1>6. NodeKeeps(n)'
  BY <1>1, <1>4, <1>5 DEF NodeKeeps
<1>7. Typed'
  BY <1>0, <1>1, <1>4 DEF Typed
<1> QED
  BY <1>1, <1>4, <1>6, <1>7, OtherNodes

\* A step of the worker that leaves its records where they are.
LEMMA MovedKeeps ==
    ASSUME IInv, NEW n \in Node, NEW pc,
           \/ worker[n].pc = "save" /\ pc = "save"
           \/ worker[n].pc \notin {"idle", "save"} /\ pc \notin {"idle", "save"},
           Moved(worker, worker', n, pc),
           UNCHANGED <<phase, jobs, spooling, spool>>,
           ghost' \in GhostState, ghost'.saved = ghost.saved,
           ghost'.lost = ghost.lost, ghost'.ended = ghost.ended,
           rows' \in Counts, applied' \in [Match -> BOOLEAN], careers' \in Counts
    PROVE  IInv'
<1>0. /\ Typed
      /\ Keeps(phase[n], spooling[n], jobs[n], spool[n], worker[n], ghost.saved[n],
               ghost.lost[n], ghost.ended[n])
  BY DEF IInv, NodeKeeps
<1>1. PICK x : x = worker'[n]
  OBVIOUS
<1>2. /\ x.pc = pc /\ x.record = worker[n].record /\ x.batch = worker[n].batch
      /\ x.replaying = worker[n].replaying
  BY <1>1 DEF Moved
<1>3. Keeps(phase[n], spooling[n], jobs[n], spool[n], x, ghost.saved[n],
            ghost.lost[n], ghost.ended[n])
  BY <1>0, <1>2, RecordKept
<1>4. NodeKeeps(n)'
  BY <1>1, <1>3 DEF NodeKeeps
<1>5. Typed'
  BY <1>0 DEF Typed, Moved
<1> QED
  BY <1>4, <1>5, OtherNodes DEF Moved

LEMMA SpoolFailedKeeps ==
    ASSUME IInv, NEW n \in Node, NEW g \in GhostState, worker[n].pc = "save",
           g.saved = ghost.saved, g.lost = ghost.lost, g.ended = ghost.ended,
           spoolFailed(n, g), UNCHANGED <<phase, jobs, spooling, applied, careers>>,
           rows' \in Counts
    PROVE  /\ IInv'
           /\ ghost'.saved = ghost.saved /\ ghost'.unsure = g.unsure
           /\ ghost'.torn = g.torn /\ worker'[n].pc = "idle"
           /\ \A k \in Node \ {n} : worker'[k] = worker[k]
<1>0. /\ Typed
      /\ Keeps(phase[n], spooling[n], jobs[n], spool[n], worker[n], ghost.saved[n],
               ghost.lost[n], ghost.ended[n])
  BY DEF IInv, NodeKeeps
<1> DEFINE w == worker[n]
<1>1. /\ spool' = [spool EXCEPT ![n] = Spool(@, w.record)]
      /\ worker' = [worker EXCEPT ![n] = Idle]
      /\ ghost' = [g EXCEPT !.lost[n] = @ \cup overwritten(spool[n])
                                          \cup Range(w.batch)]
  BY DEF spoolFailed
<1>2. /\ spool[n] \in Seq(Match) /\ distinct(spool[n]) /\ w.record \in Match
      /\ w.record \notin Range(spool[n]) /\ w.batch \in Seq(Match)
  BY <1>0 DEF Typed, Keeps, Apart, Handled, saving, WorkerState
<1>3. /\ Spool(spool[n], w.record) \in Seq(Match)
      /\ overwritten(spool[n]) \subseteq Range(spool[n])
  BY <1>2, SpoolRange
<1>4. overwritten(spool[n]) \in SUBSET Match /\ Range(w.batch) \in SUBSET Match
  BY <1>2, <1>3, RangeIn
<1>5. SavedLost(g, ghost', n, g.saved[n],
                g.lost[n] \cup overwritten(spool[n]) \cup Range(w.batch))
  BY <1>1, <1>2, <1>4, GhostUpdates
<1>6. Idle \in WorkerState /\ Idle.pc = "idle"
  BY DEF Idle, WorkerState
<1>7. /\ worker' \in [Node -> WorkerState] /\ worker'[n] = Idle
      /\ \A k \in Node \ {n} : worker'[k] = worker[k]
      /\ spool' \in [Node -> Seq(Match)] /\ spool'[n] = Spool(spool[n], w.record)
      /\ \A k \in Node \ {n} : spool'[k] = spool[k]
  BY <1>0, <1>1, <1>3, <1>6 DEF Typed
<1>8. Keeps(phase[n], spooling[n], jobs[n], Spool(spool[n], w.record), Idle,
            ghost.saved[n],
            ghost.lost[n] \cup overwritten(spool[n]) \cup Range(w.batch),
            ghost.ended[n])
  BY <1>0, <1>2, RecordSpooled
<1>9. NodeKeeps(n)'
  BY <1>5, <1>7, <1>8 DEF NodeKeeps, SavedLost
<1>10. Typed'
  BY <1>0, <1>5, <1>7 DEF Typed, SavedLost
<1>11. ghost'.saved = ghost.saved
  <2>1. /\ ghost'.saved \in [Node -> SUBSET Match] /\ ghost.saved \in [Node -> SUBSET Match]
        /\ \A k \in Node : ghost'.saved[k] = ghost.saved[k]
    BY <1>0, <1>5 DEF SavedLost, GhostState, Typed
  <2> QED
    BY <2>1
<1>12. IInv'
  BY <1>5, <1>7, <1>9, <1>10, OtherNodes DEF SavedLost
<1> QED
  BY <1>5, <1>6, <1>7, <1>11, <1>12 DEF SavedLost

\* What an attempt to save does: nothing in the store, a row in doubt, or the
\* row of the save.
SaveOutcome(n) ==
    /\ worker[n].pc = "save" /\ worker'[n].pc \notin {"update", "stamp"}
    /\ \A k \in Node \ {n} : worker'[k] = worker[k]
    /\ UNCHANGED <<applied, careers>> /\ ghost'.torn = ghost.torn
    /\ \/ rows' = rows /\ ghost'.saved = ghost.saved /\ ghost'.unsure = ghost.unsure
       \/ /\ Adds(rows, rows', n, worker[n].record) /\ ghost'.saved = ghost.saved
          /\ OneMore(ghost.unsure, ghost'.unsure, n, worker[n].record)
       \/ /\ Adds(rows, rows', n, worker[n].record) /\ ghost'.unsure = ghost.unsure
          /\ OneMore(ghost.saved, ghost'.saved, n, worker[n].record)

LEMMA Doubt ==
    ASSUME NEW n \in Node, NEW m \in Match, NEW outcome, ghost \in GhostState
    PROVE  /\ doubt(outcome, n, m) \in GhostState
           /\ doubt(outcome, n, m).saved = ghost.saved
           /\ doubt(outcome, n, m).lost = ghost.lost
           /\ doubt(outcome, n, m).ended = ghost.ended
           /\ doubt(outcome, n, m).torn = ghost.torn
           /\ outcome # "unanswered" => doubt(outcome, n, m).unsure = ghost.unsure
           /\ outcome = "unanswered" =>
                 OneMore(ghost.unsure, doubt(outcome, n, m).unsure, n, m)
<1>1. CASE outcome = "unanswered"
  <2> DEFINE u == [ghost.unsure EXCEPT ![n] = @ \cup {m}]
  <2>1. u \in [Node -> SUBSET Match] /\ OneMore(ghost.unsure, u, n, m)
    BY DEF GhostState, OneMore
  <2>2. doubt(outcome, n, m) = [ghost EXCEPT !.unsure = u]
    BY <1>1, Zenon DEF doubt
  <2> HIDE DEF u
  <2> QED
    BY <1>1, <2>1, <2>2 DEF GhostState
<1>2. CASE outcome # "unanswered"
  BY <1>2 DEF doubt
<1> QED
  BY <1>1, <1>2

LEMMA PersistKeeps ==
    ASSUME IInv, NEW n \in Node, persistWithResilience(n)
    PROVE  IInv' /\ SaveOutcome(n)
<1>0. /\ Typed
      /\ Keeps(phase[n], spooling[n], jobs[n], spool[n], worker[n], ghost.saved[n],
               ghost.lost[n], ghost.ended[n])
  BY DEF IInv, NodeKeeps
<1> DEFINE w == worker[n]
<1>1. /\ w.pc = "save" /\ UNCHANGED <<phase, jobs, spooling, applied, careers>>
  BY DEF persistWithResilience, at
<1>2. /\ w.record \in Match /\ ghost \in GhostState /\ rows \in Counts
      /\ worker \in [Node -> WorkerState]
      /\ applied \in [Match -> BOOLEAN] /\ careers \in Counts
  BY <1>0, <1>1 DEF Typed, Keeps, Handled
<1>3. Adds(rows, added(rows, n, w.record), n, w.record)
  BY <1>2, AddedCounts
<1>4. CASE spoolFailed(n, ghost) /\ UNCHANGED rows
  BY <1>1, <1>2, <1>4, SpoolFailedKeeps DEF SaveOutcome
<1>5. ASSUME NEW outcome \in outcomes,
             rows' = IF outcome = "refused" THEN rows ELSE added(rows, n, w.record),
             \/ /\ outcome = "ok"
                /\ worker' = [worker EXCEPT ![n].pc = "read", ![n].attempt = 1]
                /\ ghost' = [ghost EXCEPT !.saved[n] = @ \cup {w.record}]
                /\ UNCHANGED spool
             \/ /\ outcome # "ok"
                /\ worker' = [worker EXCEPT ![n].attempt = @ + 1]
                /\ ghost' = doubt(outcome, n, w.record)
                /\ UNCHANGED spool
             \/ /\ outcome # "ok"
                /\ spoolFailed(n, doubt(outcome, n, w.record))
      PROVE  IInv' /\ SaveOutcome(n)
  <2>1. outcome \in {"ok", "refused", "unanswered"}
    BY DEF outcomes
  <2>2. /\ rows' \in Counts
        /\ outcome = "refused" => rows' = rows
        /\ outcome # "refused" => Adds(rows, rows', n, w.record)
    BY <1>2, <1>3, <1>5 DEF Adds
  <2> DEFINE g == doubt(outcome, n, w.record)
  <2>3. /\ g \in GhostState /\ g.saved = ghost.saved /\ g.lost = ghost.lost
        /\ g.ended = ghost.ended /\ g.torn = ghost.torn
        /\ outcome = "refused" => g.unsure = ghost.unsure
        /\ outcome = "unanswered" => OneMore(ghost.unsure, g.unsure, n, w.record)
    BY <1>2, Doubt
  <2> HIDE DEF g
  <2>4. CASE /\ outcome = "ok"
             /\ worker' = [worker EXCEPT ![n].pc = "read", ![n].attempt = 1]
             /\ ghost' = [ghost EXCEPT !.saved[n] = @ \cup {w.record}]
             /\ UNCHANGED spool
    <3>1. Moved(worker, worker', n, "read")
      <4>1. "read" \in Pcs /\ 1 \in Nat
        BY DEF Pcs
      <4> QED
        BY <1>2, <2>4, <4>1, WorkerMoves
    <3>2. SavedLost(ghost, ghost', n, ghost.saved[n] \cup {w.record}, ghost.lost[n])
      <4>1. SavedLost(ghost, [ghost EXCEPT !.saved[n] = @ \cup {w.record}], n,
                      ghost.saved[n] \cup {w.record}, ghost.lost[n])
        <5>1. {} \in SUBSET Match
          OBVIOUS
        <5> HIDE DEF w
        <5> QED
          BY <1>2, <5>1, GhostUpdates
      <4> QED
        BY <2>4, <4>1
    <3>3. PICK x : x = worker'[n]
      OBVIOUS
    <3>4. Keeps(phase[n], spooling[n], jobs[n], spool[n], x,
                ghost.saved[n] \cup {w.record}, ghost.lost[n], ghost.ended[n])
      BY <1>0, <1>1, <3>1, <3>3, RecordSaved DEF Moved
    <3>5. NodeKeeps(n)'
      BY <1>1, <2>4, <3>2, <3>3, <3>4 DEF NodeKeeps, SavedLost
    <3>6. Typed'
      BY <1>0, <1>1, <2>2, <2>4, <3>1, <3>2 DEF Typed, SavedLost, Moved
    <3>7. IInv'
      BY <1>1, <2>4, <3>1, <3>2, <3>5, <3>6, OtherNodes DEF SavedLost, Moved
    <3>8. SaveOutcome(n)
      BY <1>1, <2>2, <2>4, <3>1, <3>2 DEF SaveOutcome, SavedLost, Moved, OneMore
    <3> QED
      BY <3>7, <3>8
  <2>5. CASE /\ outcome # "ok"
             /\ worker' = [worker EXCEPT ![n].attempt = @ + 1]
             /\ ghost' = g
             /\ UNCHANGED spool
    <3>1. Moved(worker, worker', n, "save")
      <4>1. "save" \in Pcs /\ 1 \in Nat
        BY DEF Pcs
      <4>2. Moved(worker, [worker EXCEPT ![n].attempt = @ + 1], n, worker[n].pc)
        BY <1>2, <4>1, WorkerMoves
      <4> QED
        BY <1>1, <2>5, <4>2
    <3>2. IInv'
      BY <1>1, <1>2, <2>2, <2>3, <2>5, <3>1, MovedKeeps
    <3>3. SaveOutcome(n)
      BY <1>1, <2>1, <2>2, <2>3, <2>5, <3>1 DEF SaveOutcome, Moved
    <3> QED
      BY <3>2, <3>3
  <2>6. CASE outcome # "ok" /\ spoolFailed(n, g)
    <3>1. /\ IInv'
          /\ ghost'.saved = ghost.saved /\ ghost'.unsure = g.unsure
          /\ ghost'.torn = g.torn /\ worker'[n].pc = "idle"
          /\ \A k \in Node \ {n} : worker'[k] = worker[k]
      BY <1>1, <2>2, <2>3, <2>6, SpoolFailedKeeps
    <3> QED
      BY <1>1, <2>1, <2>2, <2>3, <2>6, <3>1 DEF SaveOutcome
  <2> QED
    BY <1>5, <2>4, <2>5, <2>6 DEF g
<1> QED
  BY <1>4, <1>5 DEF persistWithResilience

LEMMA RatingEnds ==
    ASSUME Typed, NEW n \in Node, ratingDone(n) \/ ratingFailed(n)
    PROVE  Moved(worker, worker', n, "next") \/ Moved(worker, worker', n, "read")
<1>1. /\ "next" \in Pcs /\ "read" \in Pcs /\ 1 \in Nat
      /\ worker \in [Node -> WorkerState]
  BY DEF Pcs, Typed
<1>2. \/ worker' = [worker EXCEPT ![n].pc = "next", ![n].attempt = 1]
      \/ worker' = [worker EXCEPT ![n].pc = "read", ![n].attempt = @ + 1]
  BY Zenon DEF ratingDone, ratingFailed
<1>3. Moved(worker, [worker EXCEPT ![n].pc = "next", ![n].attempt = 1], n, "next")
  BY <1>1, WorkerMoves
<1>4. Moved(worker, [worker EXCEPT ![n].pc = "read", ![n].attempt = @ + 1],
               n, "read")
  BY <1>1, WorkerMoves
<1> QED
  BY <1>2, <1>3, <1>4

\* What a step of the rating does to the store, and what is then known of it.
RateOutcome(n) ==
    LET w == worker[n] IN
    /\ worker'[n].record = w.record /\ w.record \in Match
    /\ \A k \in Node \ {n} : worker'[k] = worker[k]
    /\ UNCHANGED rows
    /\ ghost'.saved = ghost.saved /\ ghost'.unsure = ghost.unsure
    /\ \/ /\ UNCHANGED <<applied, careers>> /\ ghost'.torn = ghost.torn
          /\ w.pc \in {"read", "update"} /\ worker'[n].pc \in {"next", "read"}
       \/ /\ UNCHANGED <<applied, careers>> /\ ghost'.torn = ghost.torn
          /\ w.pc = "read" /\ worker'[n].pc = "update" /\ ~applied[w.record]
       \/ /\ w.pc = "update" /\ Adds(careers, careers', n, w.record)
          /\ UNCHANGED applied
          /\ worker'[n].pc = "stamp" /\ ghost'.torn = ghost.torn
       \/ /\ w.pc = "update" /\ Adds(careers, careers', n, w.record)
          /\ UNCHANGED applied
          /\ worker'[n].pc \in {"next", "read"}
          /\ OneMore(ghost.torn, ghost'.torn, n, w.record)
       \/ /\ w.pc = "stamp" /\ UNCHANGED <<applied, careers>>
          /\ worker'[n].pc \in {"next", "read"}
          /\ OneMore(ghost.torn, ghost'.torn, n, w.record)
       \/ /\ w.pc = "stamp" /\ UNCHANGED careers /\ applied' = stamped(w.record)
          /\ worker'[n].pc \in {"next", "read"} /\ ghost'.torn = ghost.torn

LEMMA Torn ==
    ASSUME NEW n \in Node, NEW m \in Match, ghost \in GhostState
    PROVE  LET g == [ghost EXCEPT !.torn[n] = @ \cup {m}]
           IN  /\ g \in GhostState /\ g.saved = ghost.saved /\ g.lost = ghost.lost
               /\ g.ended = ghost.ended /\ g.unsure = ghost.unsure
               /\ OneMore(ghost.torn, g.torn, n, m)
<1> DEFINE u == [ghost.torn EXCEPT ![n] = @ \cup {m}]
<1>1. u \in [Node -> SUBSET Match] /\ OneMore(ghost.torn, u, n, m)
  BY DEF GhostState, OneMore
<1>2. [ghost EXCEPT !.torn[n] = @ \cup {m}] = [ghost EXCEPT !.torn = u]
  BY Zenon
<1> HIDE DEF u
<1> QED
  BY <1>1, <1>2 DEF GhostState

LEMMA ReadKeeps ==
    ASSUME IInv, NEW n \in Node, readMatch(n)
    PROVE  IInv' /\ RateOutcome(n)
<1>0. /\ Typed
      /\ Keeps(phase[n], spooling[n], jobs[n], spool[n], worker[n], ghost.saved[n],
               ghost.lost[n], ghost.ended[n])
  BY DEF IInv, NodeKeeps
<1> DEFINE w == worker[n]
<1>1. /\ w.pc = "read" /\ UNCHANGED <<phase, jobs, spooling, spool, rows, applied,
                                      careers, ghost>>
  BY DEF readMatch, at, store
<1>2. /\ ghost \in GhostState /\ rows \in Counts
      /\ worker \in [Node -> WorkerState]
      /\ applied \in [Match -> BOOLEAN] /\ careers \in Counts
  BY <1>0 DEF Typed
<1>3. w.record \in Match
  BY <1>0, <1>1, <1>2 DEF Keeps, Handled, GhostState
<1>4. ASSUME NEW pc \in {"next", "read", "update"}, Moved(worker, worker', n, pc)
      PROVE  IInv'
  BY <1>1, <1>2, <1>4, MovedKeeps
<1>5. CASE worker' = [worker EXCEPT ![n].pc = "next"]
  <2>1. "next" \in Pcs /\ 1 \in Nat
    BY DEF Pcs
  <2>2. Moved(worker, worker', n, "next")
    BY <1>2, <1>5, <2>1, WorkerMoves
  <2> QED
    BY <1>1, <1>3, <1>4, <2>2 DEF RateOutcome, Moved
<1>6. CASE ratingDone(n) \/ ratingFailed(n)
  <2>1. Moved(worker, worker', n, "next") \/ Moved(worker, worker', n, "read")
    BY <1>0, <1>6, RatingEnds
  <2>2. IInv'
    BY <1>4, <2>1
  <2> QED
    BY <1>1, <1>3, <2>1, <2>2 DEF RateOutcome, Moved
<1>7. CASE /\ ~alreadyRated(w.record)
           /\ worker' = [worker EXCEPT ![n].pc = "update"]
  <2>1. "update" \in Pcs /\ 1 \in Nat
    BY DEF Pcs
  <2>2. Moved(worker, worker', n, "update")
    BY <1>2, <1>7, <2>1, WorkerMoves
  <2>3. IInv'
    BY <1>4, <2>2
  <2> QED
    BY <1>1, <1>3, <1>7, <2>2, <2>3 DEF RateOutcome, Moved, alreadyRated
<1> QED
  BY <1>5, <1>6, <1>7 DEF readMatch

LEMMA UpdateKeeps ==
    ASSUME IInv, NEW n \in Node, UpdatePlayerCareers(n)
    PROVE  IInv' /\ RateOutcome(n)
<1>0. /\ Typed
      /\ Keeps(phase[n], spooling[n], jobs[n], spool[n], worker[n], ghost.saved[n],
               ghost.lost[n], ghost.ended[n])
  BY DEF IInv, NodeKeeps
<1> DEFINE w == worker[n]
<1>1. /\ w.pc = "update" /\ UNCHANGED <<phase, jobs, spooling, spool, rows, applied>>
  BY DEF UpdatePlayerCareers, at
<1>2. /\ ghost \in GhostState /\ rows \in Counts
      /\ worker \in [Node -> WorkerState]
      /\ applied \in [Match -> BOOLEAN] /\ careers \in Counts
  BY <1>0 DEF Typed
<1>3. w.record \in Match
  BY <1>0, <1>1, <1>2 DEF Keeps, Handled, GhostState
<1>4. Adds(careers, added(careers, n, w.record), n, w.record)
  BY <1>2, <1>3, AddedCounts
<1> DEFINE g == [ghost EXCEPT !.torn[n] = @ \cup {w.record}]
<1>5. /\ g \in GhostState /\ g.saved = ghost.saved /\ g.lost = ghost.lost
      /\ g.ended = ghost.ended /\ g.unsure = ghost.unsure
      /\ OneMore(ghost.torn, g.torn, n, w.record)
  BY <1>2, <1>3, Torn
<1>6. [ghost EXCEPT !.torn[n] = @] = ghost
  BY <1>2 DEF GhostState
<1>7. PICK outcome \in outcomes :
         /\ IF outcome = "refused" THEN UNCHANGED <<careers, ghost>>
            ELSE /\ careers' = added(careers, n, w.record)
                 /\ ghost' = [ghost EXCEPT
                       !.torn[n] = IF outcome = "ok" THEN @ ELSE @ \cup {w.record}]
         /\ IF outcome # "ok" THEN ratingFailed(n)
            ELSE worker' = [worker EXCEPT ![n].pc = "stamp"]
  BY DEF UpdatePlayerCareers
<1>8. ghost' = IF outcome \in {"ok", "refused"} THEN ghost ELSE g
  <2>1. CASE outcome = "ok"
    <3>1. ghost' = [ghost EXCEPT !.torn[n] = @]
      BY <1>7, <2>1, Zenon
    <3> QED
      BY <1>6, <2>1, <3>1
  <2>2. CASE outcome = "refused"
    BY <1>7, <2>2
  <2>3. CASE outcome \notin {"ok", "refused"}
    BY <1>7, <2>3, Zenon
  <2> QED
    BY <2>1, <2>2, <2>3
<1> HIDE DEF g
<1>9. /\ ghost' \in GhostState /\ ghost'.saved = ghost.saved
      /\ ghost'.lost = ghost.lost /\ ghost'.ended = ghost.ended
      /\ ghost'.unsure = ghost.unsure /\ careers' \in Counts
      /\ outcome \in {"ok", "refused"} => ghost'.torn = ghost.torn
      /\ outcome \notin {"ok", "refused"} =>
            OneMore(ghost.torn, ghost'.torn, n, w.record)
      /\ outcome = "refused" => careers' = careers
      /\ outcome # "refused" => Adds(careers, careers', n, w.record)
  BY <1>2, <1>4, <1>5, <1>7, <1>8 DEF Adds
<1>10. ASSUME NEW pc \in {"next", "read", "stamp"}, Moved(worker, worker', n, pc)
       PROVE  IInv'
  BY <1>1, <1>2, <1>9, <1>10, MovedKeeps
<1>11. CASE outcome = "ok"
  <2>1. "stamp" \in Pcs /\ 1 \in Nat
    BY DEF Pcs
  <2>2. Moved(worker, [worker EXCEPT ![n].pc = "stamp"], n, "stamp")
    BY <1>2, <2>1, WorkerMoves
  <2>3. Moved(worker, worker', n, "stamp")
    BY <1>7, <1>11, <2>2
  <2> QED
    BY <1>1, <1>3, <1>9, <1>10, <1>11, <2>3 DEF RateOutcome, Moved
<1>12. CASE outcome # "ok"
  <2>1. Moved(worker, worker', n, "next") \/ Moved(worker, worker', n, "read")
    BY <1>0, <1>7, <1>12, RatingEnds
  <2>2. IInv'
    BY <1>10, <2>1
  <2> QED
    BY <1>1, <1>3, <1>9, <1>12, <2>1, <2>2 DEF RateOutcome, Moved
<1> QED
  BY <1>11, <1>12

LEMMA ApplyKeeps ==
    ASSUME IInv, NEW n \in Node, ApplyMatchRatings(n)
    PROVE  IInv' /\ RateOutcome(n)
<1>0. /\ Typed
      /\ Keeps(phase[n], spooling[n], jobs[n], spool[n], worker[n], ghost.saved[n],
               ghost.lost[n], ghost.ended[n])
  BY DEF IInv, NodeKeeps
<1> DEFINE w == worker[n]
<1>1. /\ w.pc = "stamp" /\ UNCHANGED <<phase, jobs, spooling, spool, rows, careers>>
  BY DEF ApplyMatchRatings, at
<1>2. /\ ghost \in GhostState /\ rows \in Counts
      /\ worker \in [Node -> WorkerState]
      /\ applied \in [Match -> BOOLEAN] /\ careers \in Counts
  BY <1>0 DEF Typed
<1>3. w.record \in Match
  BY <1>0, <1>1, <1>2 DEF Keeps, Handled, GhostState
<1>4. stamped(w.record) \in [Match -> BOOLEAN]
  BY <1>2, <1>3 DEF stamped
<1> DEFINE g == [ghost EXCEPT !.torn[n] = @ \cup {w.record}]
<1>5. /\ g \in GhostState /\ g.saved = ghost.saved /\ g.lost = ghost.lost
      /\ g.ended = ghost.ended /\ g.unsure = ghost.unsure
      /\ OneMore(ghost.torn, g.torn, n, w.record)
  BY <1>2, <1>3, Torn
<1>6. PICK outcome \in outcomes :
         /\ IF outcome = "refused"
            THEN /\ ghost' = g
                 /\ UNCHANGED applied
            ELSE /\ applied' = stamped(w.record)
                 /\ UNCHANGED ghost
         /\ IF outcome = "ok" THEN ratingDone(n) ELSE ratingFailed(n)
  BY DEF ApplyMatchRatings
<1> HIDE DEF g
<1>7. /\ ghost' \in GhostState /\ ghost'.saved = ghost.saved
      /\ ghost'.lost = ghost.lost /\ ghost'.ended = ghost.ended
      /\ ghost'.unsure = ghost.unsure /\ applied' \in [Match -> BOOLEAN]
  BY <1>2, <1>4, <1>5, <1>6
<1>8. \/ OneMore(ghost.torn, ghost'.torn, n, w.record) /\ UNCHANGED applied
      \/ ghost'.torn = ghost.torn /\ applied' = stamped(w.record)
  BY <1>2, <1>5, <1>6
<1>9. Moved(worker, worker', n, "next") \/ Moved(worker, worker', n, "read")
  BY <1>0, <1>6, RatingEnds
<1>10. IInv'
  BY <1>1, <1>2, <1>7, <1>9, MovedKeeps
<1> QED
  BY <1>1, <1>3, <1>7, <1>8, <1>9, <1>10 DEF RateOutcome, Moved

LEMMA ReplayKeeps ==
    ASSUME IInv, NEW n \in Node, replaySpool(n)
    PROVE  /\ IInv' /\ worker[n].pc = "next" /\ worker'[n].pc \in {"idle", "save"}
           /\ \A k \in Node \ {n} : worker'[k] = worker[k]
           /\ UNCHANGED <<rows, applied, careers, ghost>>
<1>0. /\ Typed
      /\ Keeps(phase[n], spooling[n], jobs[n], spool[n], worker[n], ghost.saved[n],
               ghost.lost[n], ghost.ended[n])
  BY DEF IInv, NodeKeeps
<1> DEFINE w == worker[n]
           b == nextBatch(n)
           x == IF b = << >> THEN Idle
                ELSE [Idle EXCEPT !.pc = "save", !.record = Head(b),
                                  !.batch = Tail(b), !.replaying = TRUE]
           p == IF drains(n) THEN << >> ELSE spool[n]
<1>1. /\ w.pc = "next" /\ worker' = [worker EXCEPT ![n] = x]
      /\ spool' = [spool EXCEPT ![n] = p]
      /\ UNCHANGED <<phase, jobs, spooling, rows, applied, careers, ghost>>
  BY Zenon DEF replaySpool, at, store
<1>2. /\ spool[n] \in Seq(Match) /\ w.batch \in Seq(Match) /\ w.replaying \in BOOLEAN
      /\ << >> \in Seq(Match)
  BY <1>0 DEF Typed, WorkerState
<1>3. /\ b \in Seq(Match)
      /\ \/ w.replaying /\ b = w.batch /\ p = spool[n]
         \/ ~w.replaying /\ b = << >> /\ p = spool[n]
         \/ ~w.replaying /\ b = spool[n] /\ p = << >>
  BY <1>2 DEF nextBatch, drains
<1>4. ~w.replaying => w.batch = << >>
  BY <1>0 DEF Keeps, Handled
<1>5. /\ b = << >> => x = Idle
      /\ b # << >> => /\ x.pc = "save" /\ x.record = Head(b) /\ x.batch = Tail(b)
                      /\ x.replaying = TRUE
  BY DEF Idle
<1>6. x \in WorkerState /\ x.pc \in {"idle", "save"}
  <2>1. CASE b = << >>
    BY <1>2, <2>1 DEF Idle, WorkerState
  <2>2. CASE b # << >>
    <3>1. Head(b) \in Match /\ Tail(b) \in Seq(Match)
      BY <1>3, <2>2
    <3>2. [Idle EXCEPT !.pc = "save", !.record = Head(b), !.batch = Tail(b),
                       !.replaying = TRUE] \in WorkerState
      BY <3>1, TakenUp
    <3> QED
      BY <1>5, <2>2, <3>2
  <2> QED
    BY <2>1, <2>2
<1>7. p \in Seq(Match)
  BY <1>2, <1>3
<1> HIDE DEF x, p, b
<1>8. /\ worker' \in [Node -> WorkerState] /\ worker'[n] = x
      /\ \A k \in Node \ {n} : worker'[k] = worker[k]
      /\ spool' \in [Node -> Seq(Match)] /\ spool'[n] = p
      /\ \A k \in Node \ {n} : spool'[k] = spool[k]
  BY <1>0, <1>1, <1>6, <1>7 DEF Typed
<1>9. Keeps(phase[n], spooling[n], jobs[n], p, x, ghost.saved[n], ghost.lost[n],
            ghost.ended[n])
  <2>1. CASE w.replaying /\ b = << >>
    BY <1>0, <1>1, <1>3, <1>5, <2>1, NothingToReplay
  <2>2. CASE w.replaying /\ b # << >>
    <3>1. b = w.batch /\ p = spool[n]
      BY <1>3, <2>2
    <3> QED
      BY <1>0, <1>1, <1>2, <1>5, <2>2, <3>1, ReplayedNext
  <2>3. CASE ~w.replaying /\ b = << >>
    <3>1. p = spool[n] /\ x = Idle /\ w.batch = << >>
      BY <1>3, <1>4, <1>5, <2>3
    <3> QED
      BY <1>0, <1>1, <3>1, NothingToReplay
  <2>4. CASE ~w.replaying /\ b # << >>
    <3>1. p = << >> /\ b = spool[n] /\ w.batch = << >> /\ spool[n] # << >>
      BY <1>3, <1>4, <2>4
    <3>2. /\ x.pc = "save" /\ x.record = Head(spool[n]) /\ x.batch = Tail(spool[n])
          /\ x.replaying = TRUE
      BY <1>5, <3>1
    <3>3. Keeps(phase[n], spooling[n], jobs[n], << >>, x, ghost.saved[n],
                ghost.lost[n], ghost.ended[n])
      BY <1>0, <1>1, <1>2, <3>1, <3>2, ReplayedFirst
    <3> QED
      BY <3>1, <3>3
  <2> QED
    BY <2>1, <2>2, <2>3, <2>4
<1>10. NodeKeeps(n)'
  BY <1>1, <1>8, <1>9 DEF NodeKeeps
<1>11. Typed'
  BY <1>0, <1>1, <1>8 DEF Typed
<1>12. IInv'
  BY <1>1, <1>8, <1>10, <1>11, OtherNodes
<1> QED
  BY <1>1, <1>6, <1>8, <1>12

LEMMA SameKeeps ==
    ASSUME IInv,
           UNCHANGED <<phase, jobs, spooling, spool, worker, rows, applied, careers, ghost>>
    PROVE  IInv'
  BY DEF IInv, Typed, NodeKeeps

LEMMA InitKeeps == Init => IInv
<1> SUFFICES ASSUME Init PROVE IInv
  OBVIOUS
<1>1. Idle \in WorkerState /\ << >> \in Seq(Match)
  <2>1. << >> \in Seq(Match)
    OBVIOUS
  <2> QED
    BY <2>1 DEF Idle, WorkerState
<1>2. ghost \in GhostState
  BY DEF Init, GhostState
<1>3. Typed
  <2>1. /\ phase \in [Node -> {"up", "stopped", "down"}]
        /\ spooling \in [Node -> SUBSET Match]
        /\ worker \in [Node -> WorkerState]
        /\ applied \in [Match -> BOOLEAN]
    BY <1>1 DEF Init
  <2>2. jobs \in [Node -> Seq(Match)] /\ spool \in [Node -> Seq(Match)]
    BY <1>1 DEF Init
  <2>3. rows \in Counts /\ careers \in Counts
    BY DEF Init, Counts
  <2> QED
    BY <1>2, <2>1, <2>2, <2>3 DEF Typed
<1>4. ASSUME NEW n \in Node PROVE NodeKeeps(n)
  <2>1. /\ spooling[n] = {} /\ jobs[n] = << >> /\ spool[n] = << >> /\ worker[n] = Idle
        /\ ghost.saved[n] = {} /\ ghost.lost[n] = {} /\ ghost.ended[n] = {}
    BY <1>4 DEF Init
  <2>2. /\ Range(<< >>) = {} /\ distinct(<< >>) /\ Idle.batch = << >>
        /\ saving(Idle) = {} /\ Handled(Idle, {})
    BY DEF Range, distinct, Idle, saving, Handled
  <2> QED
    BY <2>1, <2>2 DEF NodeKeeps, Keeps, Apart
<1> QED
  BY <1>3, <1>4 DEF IInv

\* Queueing, stopping and waiting touch neither the store nor the worker.
Aside ==
    /\ UNCHANGED <<worker, rows, applied, careers>>
    /\ ghost'.saved = ghost.saved /\ ghost'.unsure = ghost.unsure
    /\ ghost'.torn = ghost.torn

LEMMA StepKeeps ==
    ASSUME IInv, [Next]_vars
    PROVE  /\ IInv'
           /\ \/ Aside
              \/ \E n \in Node :
                    \/ /\ worker[n].pc \in {"idle", "next"}
                       /\ worker'[n].pc \in {"idle", "save"}
                       /\ \A k \in Node \ {n} : worker'[k] = worker[k]
                       /\ UNCHANGED <<rows, applied, careers, ghost>>
                    \/ SaveOutcome(n)
                    \/ RateOutcome(n)
<1>0. ghost \in GhostState /\ worker \in [Node -> WorkerState]
  BY DEF IInv, Typed
<1>1. CASE UNCHANGED vars
  BY <1>1, SameKeeps DEF vars, store, Aside
<1>2. ASSUME NEW n \in Node, NEW m \in Match, Enqueue(n, m) PROVE IInv' /\ Aside
  <2>1. /\ ghost' = [ghost EXCEPT !.ended[n] = @ \cup {m}]
        /\ UNCHANGED <<worker, rows, applied, careers>>
    BY <1>2 DEF Enqueue, store
  <2>2. Aside
    BY <1>0, <2>1 DEF Aside, GhostState
  <2> QED
    BY <1>2, <2>2, EnqueueKeeps
<1>3. ASSUME NEW n \in Node, NEW m \in Match, enqueueSpools(n, m) PROVE IInv' /\ Aside
  <2>1. /\ ghost' = [ghost EXCEPT !.lost[n] = @ \cup overwritten(spool[n])]
        /\ UNCHANGED <<worker, rows, applied, careers>>
    BY <1>3 DEF enqueueSpools, store
  <2>2. Aside
    BY <1>0, <2>1 DEF Aside, GhostState
  <2> QED
    BY <1>3, <2>2, EnqueueSpoolsKeeps
<1>4. ASSUME NEW n \in Node, Stop(n) PROVE IInv' /\ Aside
  <2>1. Aside
    BY <1>4 DEF Stop, Aside, store
  <2> QED
    BY <1>4, <2>1, StopKeeps
<1>5. ASSUME NEW n \in Node, Run(n)
      PROVE  /\ IInv' /\ worker[n].pc = "idle" /\ worker'[n].pc = "save"
             /\ \A k \in Node \ {n} : worker'[k] = worker[k]
             /\ UNCHANGED <<rows, applied, careers, ghost>>
  <2>1. /\ worker[n].pc = "idle"
        /\ worker' = [worker EXCEPT ![n] = [Idle EXCEPT !.pc = "save",
                                                        !.record = Head(jobs[n])]]
        /\ UNCHANGED <<rows, applied, careers, ghost>>
    BY <1>5 DEF Run, at, store
  <2>2. worker'[n].pc = "save" /\ \A k \in Node \ {n} : worker'[k] = worker[k]
    BY <1>0, <2>1 DEF Idle
  <2> QED
    BY <1>5, <2>1, <2>2, RunKeeps
<1>6. ASSUME NEW n \in Node, NEW which \in Breakers, breakerTimeout(n, which)
      PROVE  IInv' /\ Aside
  <2>1. UNCHANGED <<phase, jobs, spooling, spool, worker, rows, applied, careers, ghost>>
    BY <1>6 DEF breakerTimeout, store
  <2> QED
    BY <2>1, SameKeeps DEF Aside
<1>7. ASSUME NEW n \in Node, processes(n)
      PROVE  /\ IInv'
             /\ \/ /\ worker[n].pc \in {"idle", "next"}
                   /\ worker'[n].pc \in {"idle", "save"}
                   /\ \A k \in Node \ {n} : worker'[k] = worker[k]
                   /\ UNCHANGED <<rows, applied, careers, ghost>>
                \/ SaveOutcome(n)
                \/ RateOutcome(n)
  BY <1>5, <1>7, PersistKeeps, ReadKeeps, UpdateKeeps, ApplyKeeps, ReplayKeeps
     DEF processes
<1> QED
  BY <1>1, <1>2, <1>3, <1>4, <1>6, <1>7 DEF Next

-----------------------------------------------------------------------------
(* The theorems *)

\* However the store fails and however full queue and spool are, on any number
\* of nodes: a record that Enqueue was given is with its caller, queued,
\* spooled, in the worker's hands, saved, or lost in one of the two ways that
\* the code has, as long as the node lives.
THEOREM NoRecordDisappears == Spec => []AccountedFor
<1>1. ASSUME IInv PROVE AccountedFor
  <2> SUFFICES ASSUME NEW n \in Node, phase[n] # "down", NEW m \in ghost.ended[n]
               PROVE  \/ m \in spooling[n] \cup Range(jobs[n]) \cup Range(spool[n])
                      \/ m = worker[n].record
                      \/ m \in Range(worker[n].batch)
                      \/ m \in ghost.saved[n] \cup ghost.lost[n]
    BY DEF AccountedFor
  <2>1. NodeKeeps(n)
    BY <1>1 DEF IInv
  <2> QED
    BY <2>1 DEF NodeKeeps, Keeps, saving
<1>2. IInv /\ [Next]_vars => IInv'
  BY StepKeeps
<1> QED
  BY <1>1, <1>2, InitKeeps, PTL DEF Spec

LEMMA RowsStep ==
    ASSUME NEW p \in Node, IInv, RowPerSave(p), [Next]_vars
    PROVE  RowPerSave(p)'
<1>1. CASE UNCHANGED rows /\ ghost'.saved = ghost.saved /\ ghost'.unsure = ghost.unsure
  BY <1>1 DEF RowPerSave
<1>2. ASSUME NEW n \in Node, SaveOutcome(n) PROVE RowPerSave(p)'
  <2> DEFINE r == worker[n].record
  <2>0. r \in Match /\ r \notin ghost.saved[n]
    <3>1. NodeKeeps(n)
      BY DEF IInv
    <3> QED
      BY <1>2, <3>1 DEF SaveOutcome, NodeKeeps, Keeps, Apart, Handled, saving
  <2> HIDE DEF r
  <2>1. CASE /\ Adds(rows, rows', n, r) /\ ghost'.saved = ghost.saved
             /\ OneMore(ghost.unsure, ghost'.unsure, n, r)
    <3>1. CASE p = n
      BY <2>0, <2>1, <3>1 DEF RowPerSave, Adds, OneMore
    <3>2. CASE p # n
      BY <2>1, <3>2 DEF RowPerSave, Adds, OneMore
    <3> QED
      BY <3>1, <3>2
  <2>2. CASE /\ Adds(rows, rows', n, r) /\ ghost'.unsure = ghost.unsure
             /\ OneMore(ghost.saved, ghost'.saved, n, r)
    <3>1. CASE p = n
      BY <2>0, <2>2, <3>1 DEF RowPerSave, Adds, OneMore
    <3>2. CASE p # n
      BY <2>2, <3>2 DEF RowPerSave, Adds, OneMore
    <3> QED
      BY <3>1, <3>2
  <2> QED
    BY <1>1, <1>2, <2>1, <2>2 DEF SaveOutcome, r
<1> QED
  BY <1>1, <1>2, StepKeeps DEF Aside, RateOutcome

\* On any number of nodes, whatever is retried, spooled and replayed: a node
\* adds a second row of a match only if one of its saves was carried out
\* without an answer.
THEOREM RowWrittenOnce == Spec => []OneRowPerNode
<1> DEFINE Rows == \A p \in Node : RowPerSave(p)
<1>1. Init => Rows
  BY DEF Init, RowPerSave
<1>2. IInv /\ Rows /\ [Next]_vars => IInv' /\ Rows'
  BY StepKeeps, RowsStep
<1>3. Rows => OneRowPerNode
  BY DEF RowPerSave, OneRowPerNode
<1> QED
  BY <1>1, <1>2, <1>3, InitKeeps, PTL DEF Spec

LEMMA CareersStep ==
    ASSUME NEW p \in Node, IInv, CountedOnce(p), [Next]_vars
    PROVE  CountedOnce(p)'
<1>0. careers \in Counts /\ applied \in [Match -> BOOLEAN]
  BY DEF IInv, Typed
<1>1. CASE /\ worker'[p] = worker[p] /\ UNCHANGED <<applied, careers>>
           /\ ghost'.torn = ghost.torn
  BY <1>1 DEF CountedOnce
<1>2. CASE /\ worker[p].pc \notin {"update", "stamp"}
           /\ worker'[p].pc \notin {"update", "stamp"}
           /\ UNCHANGED <<applied, careers>> /\ ghost'.torn = ghost.torn
  BY <1>2 DEF CountedOnce
<1>3. ASSUME NEW n \in Node, RateOutcome(n), n # p PROVE CountedOnce(p)'
  <2>1. /\ worker'[p] = worker[p] /\ careers'[p] = careers[p]
        /\ ghost'.torn[p] = ghost.torn[p]
        /\ \A m \in Match : applied[m] => applied'[m]
    BY <1>0, <1>3 DEF RateOutcome, Adds, OneMore, stamped
  <2> QED
    BY <2>1 DEF CountedOnce
<1>4. CASE RateOutcome(p)
  <2> DEFINE r == worker[p].record
             w == worker[p]
             x == worker'[p]
  <2>0. r \in Match /\ x.record = r
    BY <1>4 DEF RateOutcome
  <2>1. CASE /\ w.pc = "update" /\ Adds(careers, careers', p, r) /\ UNCHANGED applied
             /\ \/ x.pc = "stamp" /\ ghost'.torn = ghost.torn
                \/ /\ x.pc \in {"next", "read"}
                   /\ OneMore(ghost.torn, ghost'.torn, p, r)
    BY <2>0, <2>1 DEF CountedOnce, Adds, OneMore
  <2>2. CASE w.pc = "stamp"
    <3>1. CASE applied' = stamped(r)
      <4>1. applied'[r] = TRUE /\ \A m \in Match \ {r} : applied'[m] = applied[m]
        BY <1>0, <2>0, <3>1 DEF stamped
      <4> QED
        BY <1>4, <2>2, <4>1 DEF RateOutcome, CountedOnce, OneMore
    <3>2. CASE UNCHANGED applied /\ OneMore(ghost.torn, ghost'.torn, p, r)
      BY <1>4, <2>2, <3>2 DEF RateOutcome, CountedOnce, OneMore
    <3> QED
      BY <1>4, <2>2, <3>1, <3>2 DEF RateOutcome
  <2>3. CASE /\ UNCHANGED <<applied, careers>> /\ ghost'.torn = ghost.torn
             /\ w.pc \in {"read", "update"} /\ x.pc \in {"next", "read"}
    BY <2>3 DEF CountedOnce
  <2>4. CASE /\ UNCHANGED <<applied, careers>> /\ ghost'.torn = ghost.torn
             /\ w.pc = "read" /\ x.pc = "update" /\ ~applied[r]
    BY <2>0, <2>4 DEF CountedOnce
  <2> QED
    BY <1>4, <2>1, <2>2, <2>3, <2>4 DEF RateOutcome
<1> QED
  <2>1. CASE Aside
    BY <1>1, <2>1 DEF Aside
  <2>2. ASSUME NEW n \in Node,
               \/ /\ worker[n].pc \in {"idle", "next"}
                  /\ worker'[n].pc \in {"idle", "save"}
                  /\ \A k \in Node \ {n} : worker'[k] = worker[k]
                  /\ UNCHANGED <<rows, applied, careers, ghost>>
               \/ SaveOutcome(n)
        PROVE  CountedOnce(p)'
    <3>1. CASE n = p
      BY <1>2, <2>2, <3>1 DEF SaveOutcome
    <3>2. CASE n # p
      BY <1>1, <2>2, <3>2 DEF SaveOutcome
    <3> QED
      BY <3>1, <3>2
  <2> QED
    BY <1>3, <1>4, <2>1, <2>2, StepKeeps

\* On any number of nodes that share the store, whatever is retried, spooled
\* and replayed: a node adds the results of a match a second time only after a
\* failure between adding them and stamping the row.
THEOREM CareersCountOnce == Spec => []RatedOncePerNode
<1> DEFINE Counted == \A p \in Node : CountedOnce(p)
<1>1. Init => Counted
  <2> SUFFICES ASSUME Init, NEW p \in Node PROVE CountedOnce(p)
    OBVIOUS
  <2>1. worker[p].pc = "idle" /\ \A m \in Match : careers[p][m] = 0
    BY DEF Init, Idle
  <2> QED
    BY <2>1 DEF CountedOnce
<1>2. IInv /\ Counted /\ [Next]_vars => IInv' /\ Counted'
  BY StepKeeps, CareersStep
<1>3. Counted => RatedOncePerNode
  <2> SUFFICES ASSUME Counted, NEW p \in Node, NEW m \in Match, careers[p][m] > 1,
                      m \notin ghost.torn[p]
               PROVE  FALSE
    BY DEF RatedOncePerNode
  <2>1. careers[p][m] \in {0, 1}
    BY DEF CountedOnce
  <2> QED
    BY <2>1
<1> QED
  BY <1>1, <1>2, <1>3, InitKeeps, PTL DEF Spec
=============================================================================
