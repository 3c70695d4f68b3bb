------------------------ MODULE MatchGateway_proofs ------------------------
(***************************************************************************)
(* What the gateways of two nodes keep for any number of requests, keys,   *)
(* terms and calls that come late, and a cache of any capacity.            *)
(***************************************************************************)
EXTENDS MatchGateway, WellFoundedInduction, TLAPS

\* The fields of a request.  Those that no argument needs have any value.
Fields(x) ==
    x \in [at : At, kind : Kind \cup {"none"}, cmd : Command \cup {None},
           node : Node \cup {None}, hops : {x.hops}, heard : {x.heard},
           index : {x.index}, term : {x.term}, left : {x.left},
           acked : {x.acked}]

LogEntry == [term : Nat, cmd : Command \cup {None}]
CacheState == [order : Seq(Key), entries : SUBSET Key]

RaftTyped ==
    /\ term \in [Node -> Nat]
    /\ votedFor \in [Node -> Node \cup {None}]
    /\ leads \in [Node -> BOOLEAN]
    /\ knownLeader \in [Node -> Node \cup {None}]
    /\ log \in [Node -> Seq(LogEntry)]
    /\ commitIndex \in [Node -> Nat]
    /\ results \in [Node -> Seq(Command \cup {None})]

GhostTyped ==
    ghost \in [acked : {ghost.acked}, foreign : BOOLEAN, stale : {ghost.stale},
               before : {ghost.before}, stores : [Node -> Seq(Key)]]

\* A request under way is on a node, and a mutation has a key.
Placed(x) == /\ Fields(x)
             /\ x.at # "idle" => x.node \in Node
             /\ (x.at # "idle" /\ x.kind = "mutate") => x.cmd \in Key
             /\ x.at = "confirm" => x.index \in Nat

ReqTyped == DOMAIN req = Request /\ \A r \in Request : Placed(req[r])

\* A request that waits was proposed in a term its node has reached.  As long
\* as the node leads in that term, its entry is at the index.
waitsFor(x) ==
    /\ x.index \in Nat \ {0}
    /\ x.term \in Nat /\ x.term <= term[x.node]
    /\ (leads[x.node] /\ term[x.node] = x.term)
         => x.index \in DOMAIN log[x.node] /\ log[x.node][x.index].cmd = x.cmd

Waits == \A r \in Request : req[r].at = "wait" => waitsFor(req[r])

\* The queue of a cache c is the end of what was stored, each key once.
Remembers(c, s) ==
    /\ c \in CacheState
    /\ Len(c.order) = Least(Len(s), CacheCap)
    /\ \A i \in 1..Len(c.order) : c.order[i] = s[(Len(s) - Len(c.order)) + i]
    /\ \A i, j \in 1..Len(c.order) : c.order[i] = c.order[j] => i = j
    /\ c.entries = {c.order[i] : i \in 1..Len(c.order)}

CacheKept == /\ DOMAIN cache = Node
             /\ \A n \in Node : Remembers(cache[n], ghost.stores[n])

Prefix(a, b) == Len(a) <= Len(b) /\ \A i \in 1..Len(a) : a[i] = b[i]

\* What was applied is what log l has.
Agrees(done, l) == Len(done) <= Len(l) /\ \A i \in 1..Len(done) : done[i] = l[i].cmd

\* Log l has all that is in any log, was applied or acknowledged.
Whole(l) ==
    /\ \A z \in Node : Prefix(log[z], l) /\ Agrees(results[z], l)
    /\ \A a \in ghost.acked : a[1] \in 1..Len(l) /\ l[a[1]].cmd = a[2]

Sorted(l, t) ==
    \A j \in 1..Len(l) : l[j].term <= t /\ \A i \in 1..j : l[i].term <= l[j].term

\* One of the two nodes has everything, and so has a leader, of which there is
\* one at most, for it keeps the vote that it gave itself.
LogKept ==
    /\ \A n \in Node : Sorted(log[n], term[n])
    /\ \E n \in Node : Whole(log[n])
    /\ \A n \in Node : leads[n] => /\ Whole(log[n]) /\ votedFor[n] = n
                                   /\ \A m \in Node : leads[m] => m = n

\* No term goes back, and the log of a leader does not shrink in its term.
LeadersGrow ==
    \A n \in Node :
        /\ term[n] <= term'[n]
        /\ (leads'[n] /\ term'[n] = term[n]) =>
              /\ leads[n]
              /\ \A i \in DOMAIN log[n] : i \in DOMAIN log'[n] /\ log'[n][i] = log[n][i]

IInv == /\ RaftTyped /\ GhostTyped /\ ReqTyped /\ Waits /\ CacheKept
        /\ LeaderAnswersOwn /\ LogKept

-----------------------------------------------------------------------------

LEMMA InitInv == Init => IInv
<1> SUFFICES ASSUME Init PROVE IInv
  OBVIOUS
<1>1. RaftTyped
  BY DEF Init, RaftTyped
<1>2. GhostTyped /\ LeaderAnswersOwn /\ \A n \in Node : ghost.stores[n] = << >>
  <2>1. [n \in Node |-> << >>] \in [Node -> Seq(Key)]
    OBVIOUS
  <2>2. /\ ghost.foreign = FALSE /\ ghost.stores = [n \in Node |-> << >>]
    BY DEF Init
  <2>3. GhostTyped
    BY <2>1 DEF Init, GhostTyped
  <2> QED
    BY <2>2, <2>3 DEF LeaderAnswersOwn
<1>3. Fields(idleRequest) /\ idleRequest.at = "idle"
  BY DEF idleRequest, Fields, At
<1>4. DOMAIN req = Request /\ \A r \in Request : req[r] = idleRequest
  BY DEF Init
<1>5. ReqTyped /\ Waits
  BY <1>3, <1>4 DEF ReqTyped, Waits, Placed
<1>6. CacheKept
  <2> DEFINE c == [order |-> << >>, entries |-> {}]
  <2>1. c \in CacheState /\ c.order = << >> /\ c.entries = {}
    BY DEF CacheState
  <2>2. DOMAIN cache = Node /\ \A n \in Node : cache[n] = c
    BY DEF Init
  <2> HIDE DEF c
  <2>3. Remembers(c, << >>)
    BY <2>1, GatewayAssumption DEF Remembers, Least
  <2> QED
    BY <1>2, <2>2, <2>3 DEF CacheKept
<1>7. LogKept
  <2>1. \A n \in Node : log[n] = << >> /\ results[n] = << >> /\ ~leads[n]
    BY DEF Init
  <2>2. ghost.acked = {}
    BY DEF Init
  <2>3. \A n \in Node : Whole(log[n]) /\ Sorted(log[n], term[n])
    BY <2>1, <2>2 DEF Whole, Sorted, Prefix, Agrees
  <2>4. \E n \in Node : TRUE
    BY GatewayAssumption
  <2> QED
    BY <2>1, <2>3, <2>4 DEF LogKept
<1> QED
  BY <1>1, <1>2, <1>5, <1>6, <1>7 DEF IInv

\* What a leader keeps while it leads, and what becomes of those who wait.
LEMMA WaitsKept ==
    ASSUME IInv, RaftTyped', LeadersGrow,
           \A r \in Request : req'[r].at = "wait" =>
              \/ /\ req[r].at = "wait" /\ req'[r].node = req[r].node
                 /\ req'[r].index = req[r].index /\ req'[r].cmd = req[r].cmd
                 /\ req'[r].term = req[r].term
              \/ /\ req'[r].term \in Nat /\ req'[r].term = term'[req'[r].node]
                 /\ req'[r].index \in Nat \ {0}
                 /\ req'[r].index \in DOMAIN log'[req'[r].node]
                 /\ log'[req'[r].node][req'[r].index].cmd = req'[r].cmd
    PROVE  Waits'
<1> SUFFICES ASSUME NEW r \in Request, req'[r].at = "wait"
             PROVE  waitsFor(req[r])'
  BY DEF Waits
<1>1. CASE /\ req[r].at = "wait" /\ req'[r].node = req[r].node
           /\ req'[r].index = req[r].index /\ req'[r].cmd = req[r].cmd
           /\ req'[r].term = req[r].term
  <2>1. PICK n \in Node : n = req[r].node
    BY <1>1 DEF IInv, ReqTyped, Placed
  <2>2. /\ req[r].term \in Nat /\ req[r].term <= term[n]
        /\ req[r].index \in Nat \ {0}
        /\ (leads[n] /\ term[n] = req[r].term) =>
             req[r].index \in DOMAIN log[n] /\ log[n][req[r].index].cmd = req[r].cmd
    BY <1>1, <2>1, Zenon DEF IInv, Waits, waitsFor
  <2>3. term[n] \in Nat /\ term'[n] \in Nat /\ term[n] <= term'[n]
    BY DEF IInv, RaftTyped, LeadersGrow
  <2>4. req[r].term <= term'[n]
    BY <2>2, <2>3
  <2>5. ASSUME leads'[n], term'[n] = req[r].term
        PROVE  req[r].index \in DOMAIN log'[n] /\ log'[n][req[r].index].cmd = req[r].cmd
    <3>1. term'[n] = term[n]
      BY <2>2, <2>3, <2>5
    <3> QED
      BY <2>2, <2>5, <3>1 DEF LeadersGrow
  <2> QED
    BY <1>1, <2>1, <2>2, <2>4, <2>5, Zenon DEF waitsFor
<1>2. CASE /\ req'[r].term \in Nat /\ req'[r].term = term'[req'[r].node]
           /\ req'[r].index \in Nat \ {0}
           /\ req'[r].index \in DOMAIN log'[req'[r].node]
           /\ log'[req'[r].node][req'[r].index].cmd = req'[r].cmd
  BY <1>2 DEF waitsFor
<1> QED
  BY <1>1, <1>2

-----------------------------------------------------------------------------
(* Raft *)

\* A set of naturals with a bound has a greatest element.
LEMMA LastExists ==
    ASSUME NEW S \in SUBSET Nat, S # {}, NEW b \in Nat, \A i \in S : i <= b
    PROVE  \E i \in S : \A j \in S : j <= i
<1> DEFINE T == {k \in Nat : \E i \in S : k = b - i}
           R == {ss \in Nat \X Nat : ss[1] < ss[2]}
<1>1. T \subseteq Nat /\ T # {}
  <2>1. PICK i \in S : TRUE
    OBVIOUS
  <2>2. b - i \in Nat
    OBVIOUS
  <2>3. b - i \in T
    BY <2>2
  <2> QED BY <2>3
<1>2. \E x \in T : \A y \in T : <<y, x>> \notin R
  <2>1. IsWellFoundedOn(R, Nat)
    BY NatLessThanWellFounded, Zenon DEF OpToRel
  <2> HIDE DEF T, R
  <2> QED BY <1>1, <2>1, WFMin
<1>3. PICK x \in T : \A y \in T : <<y, x>> \notin R
  BY <1>2
<1>4. \A y \in T : x <= y
  <2> SUFFICES ASSUME NEW y \in T, y < x
               PROVE  FALSE
    BY <1>1
  <2>1. y \in Nat /\ x \in Nat
    BY <1>1
  <2>2. <<y, x>> \in R
    BY <2>1
  <2> HIDE DEF R, T
  <2> QED BY <2>2, <1>3
<1>5. PICK i \in S : x = b - i
  OBVIOUS
<1>6. \A j \in S : b - j \in T
  OBVIOUS
<1>7. \A j \in S : b - i <= b - j
  BY <1>4, <1>5, <1>6
<1>8. \A j \in S : j <= i
  BY <1>7
<1> QED BY <1>8

LEMMA EntryTerms ==
    ASSUME NEW l \in Seq(LogEntry)
    PROVE  \A j \in 1..Len(l) : l[j].term \in Nat
<1>1. \A j \in 1..Len(l) : l[j] \in LogEntry
  OBVIOUS
<1> QED
  BY <1>1 DEF LogEntry

LEMMA PrefixChain ==
    ASSUME NEW a \in Seq(LogEntry), NEW b \in Seq(LogEntry), NEW c \in Seq(LogEntry),
           Prefix(a, b), Prefix(b, c)
    PROVE  Prefix(a, c)
  BY DEF Prefix

LEMMA AgreesChain ==
    ASSUME NEW d \in Seq(Command \cup {None}), NEW b \in Seq(LogEntry),
           NEW c \in Seq(LogEntry), Agrees(d, b), Prefix(b, c)
    PROVE  Agrees(d, c)
<1>1. Len(d) \in Nat /\ Len(b) \in Nat /\ Len(c) \in Nat
  OBVIOUS
<1>2. Len(d) <= Len(b) /\ \A i \in 1..Len(d) : d[i] = b[i].cmd
  BY DEF Agrees
<1>3. Len(b) <= Len(c) /\ \A i \in 1..Len(b) : b[i] = c[i]
  BY DEF Prefix
<1>4. \A i \in 1..Len(d) : i \in 1..Len(b) /\ d[i] = c[i].cmd
  BY <1>1, <1>2, <1>3
<1> QED
  BY <1>1, <1>2, <1>3, <1>4 DEF Agrees

\* The log of a follower after a call, however late: no more than a part of
\* the log b of the leader.
LEMMA ReceivedPrefix ==
    ASSUME NEW a \in Seq(LogEntry), NEW b \in Seq(LogEntry), Prefix(a, b),
           NEW p \in 0..Len(b), NEW k \in 0..Len(b), p <= k, p <= Len(a)
    PROVE  /\ SubSeq(a, 1, p) \o SubSeq(b, p + 1, k) \in Seq(LogEntry)
           /\ Prefix(SubSeq(a, 1, p) \o SubSeq(b, p + 1, k), b)
<1>a. PICK u, v : u = SubSeq(a, 1, p) /\ v = SubSeq(b, p + 1, k)
  OBVIOUS
<1>1. /\ u \in Seq(LogEntry) /\ Len(u) = p /\ \A i \in 1..p : u[i] = a[i]
  BY <1>a
<1>2. /\ v \in Seq(LogEntry) /\ Len(v) = k - p
      /\ \A i \in 1..(k - p) : v[i] = b[p + i]
  BY <1>a
<1>0. p \in Nat /\ k \in Nat
  OBVIOUS
<1>3. u \o v \in Seq(LogEntry) /\ Len(u \o v) = k
  <2>0. u \in Seq(LogEntry) /\ v \in Seq(LogEntry)
    BY <1>1, <1>2
  <2>1. u \o v \in Seq(LogEntry) /\ Len(u \o v) = Len(u) + Len(v)
    BY <2>0
  <2> QED
    BY <1>0, <1>1, <1>2, <2>1
<1>4. ASSUME NEW i \in 1..k PROVE (u \o v)[i] = b[i]
  <2>1. CASE i <= p
    <3>1. i \in 1..p /\ i \in 1..Len(u) /\ i \in 1..Len(a)
      BY <1>0, <1>1, <2>1
    <3>2. (u \o v)[i] = u[i]
      BY <1>1, <1>2, <3>1
    <3> QED
      BY <1>1, <3>1, <3>2 DEF Prefix
  <2>2. CASE i > p
    <3>1. i - p \in 1..(k - p) /\ p + (i - p) = i
      BY <1>0, <2>2
    <3>2. (u \o v)[i] = v[i - p]
      BY <1>1, <1>2, <2>2
    <3> QED
      BY <1>2, <3>1, <3>2
  <2>3. i <= p \/ i > p
    BY <1>0
  <2> QED
    BY <2>1, <2>2, <2>3, Zenon
<1>5. Prefix(u \o v, b)
  BY <1>3, <1>4 DEF Prefix
<1> QED
  BY <1>a, <1>3, <1>5

LEMMA AdvancedFacts ==
    ASSUME RaftTyped, NEW n \in Node, NEW k \in Nat
    PROVE  advanced(n, k) \in Nat
<1> DEFINE ready == {i \in (commitIndex[n] + 1)..Least(k, Len(log[n])) :
                        log[n][i].term = term[n]}
           last == CHOOSE i \in ready : \A j \in ready : j <= i
<1>1. advanced(n, k) = IF ready = {} THEN commitIndex[n] ELSE last
  BY DEF advanced
<1>2. commitIndex[n] \in Nat /\ Len(log[n]) \in Nat
  BY DEF RaftTyped
<1>3. Least(k, Len(log[n])) \in Nat
  BY <1>2 DEF Least
<1>4. ready \in SUBSET Nat /\ \A i \in ready : i <= Least(k, Len(log[n]))
  BY <1>2, <1>3
<1> HIDE DEF ready
<1>5. CASE ready # {}
  <2>1. \E i \in ready : \A j \in ready : j <= i
    BY <1>3, <1>4, <1>5, LastExists
  <2>2. last \in ready
    BY <2>1
  <2> QED
    BY <1>1, <1>4, <1>5, <2>2
<1> QED
  BY <1>1, <1>2, <1>5

\* What is applied from a part l of log whole agrees with whole.
LEMMA AppliedFacts ==
    ASSUME NEW done \in Seq(Command \cup {None}), NEW l \in Seq(LogEntry),
           NEW whole \in Seq(LogEntry), NEW c \in Nat,
           Prefix(l, whole), Agrees(done, whole)
    PROVE  /\ applyCommitted(done, l, c) \in Seq(Command \cup {None})
           /\ Agrees(applyCommitted(done, l, c), whole)
<1> DEFINE upTo == Most(Len(done), Least(c, Len(l)))
           new == [i \in 1..upTo |-> IF i <= Len(done) THEN done[i] ELSE l[i].cmd]
<1>1. applyCommitted(done, l, c) = new
  BY DEF applyCommitted
<1>2. upTo \in Nat /\ (upTo = Len(done) \/ upTo <= Len(l))
  BY DEF Most, Least
<1> HIDE DEF upTo
<1>3. ASSUME NEW i \in 1..upTo
      PROVE  /\ new[i] \in Command \cup {None}
             /\ i <= Len(whole) /\ new[i] = whole[i].cmd
  <2>1. CASE i <= Len(done)
    BY <2>1 DEF Agrees
  <2>2. CASE ~(i <= Len(done))
    <3>1. i \in 1..Len(l)
      BY <1>2, <2>2
    <3>2. l[i] \in LogEntry /\ l[i] = whole[i] /\ i <= Len(whole)
      BY <3>1 DEF Prefix
    <3> QED
      BY <2>2, <3>2 DEF LogEntry
  <2> QED
    BY <2>1, <2>2
<1>4. new \in Seq(Command \cup {None}) /\ Len(new) = upTo
  BY <1>2, <1>3
<1>5. upTo <= Len(whole)
  BY <1>2 DEF Agrees, Prefix
<1> HIDE DEF new
<1> QED
  BY <1>1, <1>3, <1>4, <1>5 DEF Agrees

\* The entries of a part of a sorted log are sorted.
LEMMA SortedPart ==
    ASSUME NEW a \in Seq(LogEntry), NEW b \in Seq(LogEntry), Prefix(a, b),
           NEW t \in Nat, Sorted(b, t)
    PROVE  Sorted(a, t)
<1> SUFFICES ASSUME NEW j \in 1..Len(a)
             PROVE  a[j].term <= t /\ \A i \in 1..j : a[i].term <= a[j].term
  BY DEF Sorted
<1>1. j \in 1..Len(b) /\ \A i \in 1..j : a[i] = b[i]
  BY DEF Prefix
<1> QED
  BY <1>1 DEF Sorted

LEMMA LogTyped ==
    ASSUME IInv, NEW n \in Node
    PROVE  /\ log[n] \in Seq(LogEntry) /\ results[n] \in Seq(Command \cup {None})
           /\ term[n] \in Nat /\ commitIndex[n] \in Nat
  BY DEF IInv, RaftTyped

\* A call of leader n, as it was made or later.
LEMMA ServedFacts ==
    ASSUME IInv, NEW n \in Node, NEW m \in Node, leads[n],
           NEW call, call.prev \in 0..Len(log[n]), call.last \in 0..Len(log[n]),
           call.prev <= call.last, call.commit \in Nat, NEW counts \in BOOLEAN,
           NEW s, s = served(n, m, call, counts)
    PROVE  /\ s.log \in Seq(LogEntry) /\ Prefix(s.log, log[n])
           /\ s.commit \in Nat /\ s.advanced \in Nat
<1>1. /\ log[n] \in Seq(LogEntry) /\ log[m] \in Seq(LogEntry)
      /\ commitIndex[n] \in Nat /\ commitIndex[m] \in Nat
  BY LogTyped
<1>2. Prefix(log[m], log[n])
  BY DEF IInv, LogKept, Whole
<1> DEFINE ok == prevMatches(n, m, call)
           newLog == IF ok THEN received(n, m, call) ELSE log[m]
<1>3. /\ s.log = newLog
      /\ s.commit = IF ok /\ call.commit > commitIndex[m]
                    THEN Least(call.commit, Len(newLog)) ELSE commitIndex[m]
      /\ s.advanced = IF ok /\ counts THEN advanced(n, call.last) ELSE commitIndex[n]
  BY DEF served
<1>4. newLog \in Seq(LogEntry) /\ Prefix(newLog, log[n])
  <2>1. CASE newLog = log[m]
    BY <1>1, <1>2, <2>1
  <2>2. CASE /\ ok
             /\ newLog = SubSeq(log[m], 1, call.prev)
                            \o SubSeq(log[n], call.prev + 1, call.last)
    <3>1. call.prev <= Len(log[m])
      BY <1>1, <2>2 DEF prevMatches
    <3> QED
      BY <1>1, <1>2, <2>2, <3>1, ReceivedPrefix
  <2> QED
    BY <2>1, <2>2 DEF received
<1> HIDE DEF newLog, ok
<1>5. s.commit \in Nat
  BY <1>1, <1>3, <1>4 DEF Least
<1>6. s.advanced \in Nat
  <2>0. call.last \in Nat /\ RaftTyped
    BY <1>1 DEF IInv
  <2>1. advanced(n, call.last) \in Nat
    BY <2>0, AdvancedFacts
  <2> QED
    BY <1>1, <1>3, <2>1
<1> QED
  BY <1>3, <1>4, <1>5, <1>6

\* Leader n reaches m: m follows, and has nothing that n has not.
LEMMA AppendEntriesKeeps ==
    ASSUME IInv, NEW n \in Node, NEW m \in Node, m # n, leads[n],
           term[m] <= term[n], NEW s, s.log \in Seq(LogEntry),
           Prefix(s.log, log[n]), s.commit \in Nat, s.advanced \in Nat,
           AppendEntries(n, m, s), UNCHANGED ghost
    PROVE  RaftTyped' /\ LeadersGrow /\ LogKept'
<1> DEFINE rm == IF s.success THEN applyCommitted(results[m], s.log, s.commit)
                 ELSE results[m]
           rn == applyCommitted(results[n], log[n], s.advanced)
<1>0. /\ term' = [term EXCEPT ![m] = term[n]]
      /\ votedFor' = [votedFor EXCEPT ![m] = None]
      /\ leads' = [leads EXCEPT ![m] = FALSE]
      /\ knownLeader' = [knownLeader EXCEPT ![m] = n]
      /\ log' = [log EXCEPT ![m] = s.log]
      /\ commitIndex' = [commitIndex EXCEPT ![m] = s.commit, ![n] = s.advanced]
      /\ results' = [results EXCEPT ![m] = rm, ![n] = rn]
  BY DEF AppendEntries, RaftTyped, IInv
<1>1. RaftTyped /\ log[n] \in Seq(LogEntry)
  BY DEF IInv, RaftTyped
<1>2. Whole(log[n]) /\ votedFor[n] = n /\ \A k \in Node : leads[k] => k = n
  BY DEF IInv, LogKept
<1>3. /\ rm \in Seq(Command \cup {None}) /\ Agrees(rm, log[n])
      /\ rn \in Seq(Command \cup {None}) /\ Agrees(rn, log[n])
  <2>1. /\ results[m] \in Seq(Command \cup {None}) /\ Agrees(results[m], log[n])
        /\ results[n] \in Seq(Command \cup {None}) /\ Agrees(results[n], log[n])
        /\ Prefix(log[n], log[n])
    BY <1>2, LogTyped DEF Whole
  <2> QED
    BY <1>1, <2>1, AppliedFacts
<1> HIDE DEF rm, rn
<1>4. RaftTyped'
  BY <1>0, <1>1, <1>3 DEF RaftTyped
<1>5. /\ term'[m] = term[n] /\ term'[n] = term[n] /\ votedFor'[n] = n
      /\ ~leads'[m] /\ leads'[n] = leads[n]
      /\ log'[m] = s.log /\ log'[n] = log[n]
      /\ results'[m] = rm /\ results'[n] = rn
  BY <1>0, <1>1, <1>2 DEF RaftTyped
<1>6. LeadersGrow
  <2>1. \A k \in Node : k # m => term'[k] = term[k] /\ leads'[k] = leads[k] /\ log'[k] = log[k]
    BY <1>0, <1>1 DEF RaftTyped
  <2>2. \A k \in Node : term[k] \in Nat
    BY <1>1 DEF RaftTyped
  <2> QED
    BY <1>5, <2>1, <2>2 DEF LeadersGrow
<1>7. \A z \in Node : z \in {n, m}
  BY GatewayAssumption
<1>8. Whole(log[n])'
  <2>1. Prefix(log[n], log[n])
    BY <1>2 DEF Whole
  <2>2. \A z \in Node : Prefix(log'[z], log'[n]) /\ Agrees(results'[z], log'[n])
    BY <1>3, <1>5, <1>7, <2>1
  <2> QED
    BY <1>2, <1>5, <2>2 DEF Whole, Prefix, Agrees
<1>9. \A z \in Node : Sorted(log[z], term[z])'
  <2>1. Sorted(log[n], term[n]) /\ term[n] \in Nat
    BY <1>1 DEF IInv, LogKept, RaftTyped
  <2>2. Sorted(s.log, term[n])
    BY <1>1, <2>1, SortedPart
  <2>3. \A z \in Node : Sorted(log'[z], term'[z])
    BY <1>5, <1>7, <2>1, <2>2
  <2> QED
    BY <2>3 DEF Sorted
<1>10. \A z \in Node : leads'[z] => z = n
  BY <1>5, <1>7
<1>11. LogKept'
  BY <1>5, <1>8, <1>9, <1>10 DEF LogKept
<1> QED
  BY <1>4, <1>6, <1>11

\* Nobody takes office, and no log changes.
LEMMA SameLogs ==
    ASSUME IInv, UNCHANGED <<log, results>>, ghost'.acked = ghost.acked,
           \A k \in Node : /\ term[k] \in Nat /\ term'[k] \in Nat /\ term[k] <= term'[k]
                           /\ leads'[k] => leads[k] /\ votedFor'[k] = votedFor[k]
    PROVE  LogKept'
<1>1. /\ \A n \in Node : Sorted(log[n], term[n])
      /\ \E n \in Node : Whole(log[n])
      /\ \A n \in Node : leads[n] => /\ Whole(log[n]) /\ votedFor[n] = n
                                     /\ \A m \in Node : leads[m] => m = n
  BY DEF IInv, LogKept
<1>2. \A n \in Node : Whole(log[n]) => Whole(log[n])'
  BY DEF Whole, Prefix, Agrees
<1>3. ASSUME NEW n \in Node PROVE Sorted(log[n], term[n])'
  <2>1. log[n] \in Seq(LogEntry) /\ \A j \in 1..Len(log[n]) : log[n][j].term \in Nat
    BY LogTyped, EntryTerms
  <2>2. Sorted(log[n], term'[n])
    BY <1>1, <2>1 DEF Sorted
  <2> QED
    BY <2>2 DEF Sorted
<1> QED
  BY <1>1, <1>2, <1>3 DEF LogKept

LEMMA DeposedKeeps ==
    ASSUME IInv, NEW n \in Node, NEW m \in Node, term[m] > term[n], deposed(n, m),
           UNCHANGED ghost
    PROVE  RaftTyped' /\ LeadersGrow /\ LogKept'
<1>0. /\ term' = [term EXCEPT ![n] = term[m]]
      /\ votedFor' = [votedFor EXCEPT ![n] = None]
      /\ leads' = [leads EXCEPT ![n] = FALSE]
      /\ UNCHANGED <<knownLeader, log, commitIndex, results>>
  BY Zenon DEF deposed
<1>1. RaftTyped
  BY DEF IInv
<1>2. /\ term'[n] = term[m] /\ ~leads'[n] /\ log' = log /\ results' = results
      /\ \A k \in Node : k # n => /\ term'[k] = term[k] /\ leads'[k] = leads[k]
                                  /\ votedFor'[k] = votedFor[k]
  BY <1>0, <1>1 DEF RaftTyped
<1>3. RaftTyped'
  BY <1>0, <1>1 DEF RaftTyped
<1>4. \A k \in Node : term[k] \in Nat /\ term'[k] \in Nat /\ term[k] <= term'[k]
  <2> SUFFICES ASSUME NEW k \in Node
               PROVE  term[k] \in Nat /\ term'[k] \in Nat /\ term[k] <= term'[k]
    OBVIOUS
  <2>1. term[k] \in Nat /\ term[m] \in Nat /\ term[n] \in Nat
    BY <1>1 DEF RaftTyped
  <2> QED
    BY <1>2, <2>1
<1>5. LeadersGrow
  BY <1>2, <1>4 DEF LeadersGrow
<1> QED
  BY <1>2, <1>3, <1>4, <1>5, SameLogs

\* A step of Raft that leaves the gateways alone.
LEMMA RaftOnly ==
    ASSUME IInv, RaftTyped', LeadersGrow, LogKept', UNCHANGED <<cache, req, ghost>>
    PROVE  IInv'
<1>1. GhostTyped' /\ ReqTyped' /\ CacheKept' /\ LeaderAnswersOwn'
  BY DEF IInv, GhostTyped, ReqTyped, CacheKept, LeaderAnswersOwn
<1>2. Waits'
  BY WaitsKept
<1> QED
  BY <1>1, <1>2 DEF IInv

\* Who is given the vote of its peer has all that the peer has.
LEMMA VoterHasNoMore ==
    ASSUME IInv, NEW n \in Node, NEW m \in Node, m # n, upToDate(log[n], log[m])
    PROVE  Whole(log[n])
<1>1. PICK x \in Node : Whole(log[x])
  BY DEF IInv, LogKept
<1>2. CASE x = n
  BY <1>1, <1>2
<1>3. CASE x # n
  <2>1. x = m
    BY <1>3, GatewayAssumption
  <2>2. Prefix(log[n], log[m])
    BY <1>1, <2>1 DEF Whole
  <2>3. PICK a \in Seq(LogEntry), b \in Seq(LogEntry) : a = log[n] /\ b = log[m]
    BY LogTyped
  <2>4. \A j \in 1..Len(b) : /\ b[j].term \in Nat
                             /\ \A i \in 1..j : b[i].term <= b[j].term
    <3>1. \A j \in 1..Len(b) : b[j] \in LogEntry
      BY <2>3
    <3> QED
      BY <2>3, <3>1 DEF IInv, LogKept, Sorted, LogEntry
  <2>5. /\ Len(a) <= Len(b) /\ \A i \in 1..Len(a) : a[i] = b[i]
        /\ Len(a) \in Nat /\ Len(b) \in Nat
    BY <2>2, <2>3 DEF Prefix
  <2>6. \/ lastTerm(a) > lastTerm(b)
        \/ lastTerm(a) = lastTerm(b) /\ Len(a) >= Len(b)
    BY <2>3 DEF upToDate
  <2>7. lastTerm(a) \in Nat /\ lastTerm(b) \in Nat /\ lastTerm(a) <= lastTerm(b)
    <3>1. CASE a = << >>
      BY <2>3, <2>4, <2>5, <3>1 DEF lastTerm
    <3>2. CASE a # << >>
      <4>1. Len(a) \in 1..Len(a) /\ Len(a) \in 1..Len(b) /\ Len(b) \in 1..Len(b)
            /\ b # << >> /\ Len(a) \in 1..Len(b)
        BY <2>3, <2>5, <3>2
      <4>2. a[Len(a)] = b[Len(a)]
        BY <2>5, <4>1
      <4> QED
        BY <2>4, <3>2, <4>1, <4>2 DEF lastTerm
    <3> QED
      BY <3>1, <3>2
  <2>8. Len(a) = Len(b)
    BY <2>5, <2>6, <2>7
  <2>9. a = b
    BY <2>3, <2>5, <2>8
  <2> QED
    BY <1>1, <2>1, <2>3, <2>9
<1> QED
  BY <1>2, <1>3

LEMMA ElectionKeeps ==
    ASSUME IInv, NEW n \in Node, NEW m \in Node, NEW fate,
           startElection(n, m, fate)
    PROVE  IInv'
<1> DEFINE t == term[n] + 1
           newer == fate # "lost" /\ term[m] < t
           grant == /\ fate # "lost" /\ term[m] <= t
                    /\ newer \/ votedFor[m] \in {None, n}
                    /\ upToDate(log[n], log[m])
           behind == fate = "answered" /\ term[m] > t
           tn == IF behind THEN term[m] ELSE t
           tm == IF newer THEN t ELSE term[m]
           vn == IF behind THEN None ELSE n
           vm == IF grant THEN n ELSE IF newer THEN None ELSE votedFor[m]
           ln == grant /\ fate = "answered"
           lm == leads[m] /\ ~newer
<1>1. RaftTyped /\ term[n] \in Nat /\ term[m] \in Nat
  BY DEF IInv, RaftTyped
<1>2. /\ m # n /\ ~leads[n]
      /\ term' = [term EXCEPT ![n] = tn, ![m] = tm]
      /\ votedFor' = [votedFor EXCEPT ![n] = vn, ![m] = vm]
      /\ leads' = [leads EXCEPT ![n] = ln, ![m] = lm]
      /\ UNCHANGED <<knownLeader, log, commitIndex, results, cache, req, ghost>>
  <2>1. /\ m # n /\ ~leads[n]
        /\ term' = [term EXCEPT ![n] = tn, ![m] = IF newer THEN t ELSE @]
        /\ votedFor' = [votedFor EXCEPT ![n] = vn,
                          ![m] = IF grant THEN n ELSE IF newer THEN None ELSE @]
        /\ leads' = [leads EXCEPT ![n] = ln, ![m] = @ /\ ~newer]
        /\ UNCHANGED <<knownLeader, log, commitIndex, results, cache, req, ghost>>
    BY Zenon DEF startElection
  <2> HIDE DEF newer, grant, behind, t, tn, vn, ln
  <2> QED
    BY <1>1, <2>1 DEF RaftTyped
<1>3. /\ tn \in Nat /\ tn > term[n] /\ tm \in Nat /\ tm >= term[m]
      /\ ln \in BOOLEAN /\ lm \in BOOLEAN
      /\ vn \in Node \cup {None} /\ vm \in Node \cup {None}
  BY <1>1 DEF RaftTyped
<1>4. /\ lm => leads[m] /\ ~newer
      /\ ln => grant /\ ~behind
  BY <1>1
<1>5. grant => upToDate(log[n], log[m]) /\ (newer \/ votedFor[m] # m)
  BY <1>2, GatewayAssumption
<1>6. (~newer /\ ~grant) => vm = votedFor[m]
  OBVIOUS
<1>7. ~behind => vn = n
  OBVIOUS
<1> HIDE DEF newer, grant, behind, t, tn, tm, vn, vm, ln, lm
<1>8. RaftTyped'
  BY <1>1, <1>2, <1>3 DEF RaftTyped
<1>9. /\ term'[n] = tn /\ term'[m] = tm /\ votedFor'[n] = vn /\ votedFor'[m] = vm
      /\ leads'[n] = ln /\ leads'[m] = lm
  BY <1>1, <1>2 DEF RaftTyped
<1>10. \A z \in Node : z \in {n, m}
  BY <1>2, GatewayAssumption
<1>11. LeadersGrow
  <2>1. ASSUME NEW k \in Node
        PROVE  /\ term[k] <= term'[k]
               /\ (leads'[k] /\ term'[k] = term[k]) => leads[k]
    BY <1>1, <1>3, <1>4, <1>9, <1>10
  <2> QED
    BY <1>2, <2>1 DEF LeadersGrow
<1>12. LogKept'
  <2>0. \A k \in Node : term[k] \in Nat /\ term'[k] \in Nat /\ term[k] <= term'[k]
    BY <1>1, <1>3, <1>9, <1>10
  <2>1. leads[m] => votedFor[m] = m /\ Whole(log[m])
    BY DEF IInv, LogKept
  <2>2. lm => vm = votedFor[m] /\ leads[m]
    BY <1>4, <1>5, <1>6, <2>1
  <2>3. ~(lm /\ ln)
    BY <1>4, <1>5, <2>1
  <2>4. CASE ~ln
    <3>1. \A k \in Node : leads'[k] => leads[k] /\ votedFor'[k] = votedFor[k]
      BY <1>9, <1>10, <2>2, <2>4
    <3> QED
      BY <1>2, <2>0, <3>1, SameLogs
  <2>5. CASE ln
    <3>1. Whole(log[n])
      BY <1>2, <1>4, <1>5, <2>5, VoterHasNoMore
    <3>2. Whole(log[n])'
      BY <1>2, <3>1 DEF Whole, Prefix, Agrees
    <3>3. \A z \in Node : leads'[z] => z = n
      BY <1>9, <1>10, <2>3, <2>5
    <3>4. votedFor'[n] = n
      BY <1>4, <1>7, <1>9, <2>5
    <3>5. ASSUME NEW z \in Node PROVE Sorted(log[z], term[z])'
      <4>1. \A j \in 1..Len(log[z]) : log[z][j].term \in Nat
        BY LogTyped, EntryTerms
      <4>2. Sorted(log[z], term[z])
        BY DEF IInv, LogKept
      <4>3. Sorted(log[z], term'[z])
        BY <2>0, <4>1, <4>2 DEF Sorted
      <4> QED
        BY <1>2, <4>3 DEF Sorted
    <3> QED
      BY <3>2, <3>3, <3>4, <3>5 DEF LogKept
  <2> QED
    BY <2>4, <2>5
<1> QED
  BY <1>2, <1>8, <1>11, <1>12, RaftOnly

LEMMA ReplicateKeeps ==
    ASSUME IInv, NEW n \in Node, NEW m \in Node, replicateToPeer(n, m)
    PROVE  IInv'
<1>1. m # n /\ leads[n] /\ UNCHANGED <<cache, req, ghost>>
  BY Zenon DEF replicateToPeer
<1>2. CASE term[m] > term[n] /\ deposed(n, m)
  BY <1>1, <1>2, DeposedKeeps, RaftOnly
<1>3. ASSUME term[m] <= term[n], NEW call \in callsOf(n), NEW back \in BOOLEAN,
             AppendEntries(n, m, served(n, m, call, back))
      PROVE  IInv'
  <2>1. /\ call.prev \in 0..Len(log[n]) /\ call.last \in 0..Len(log[n])
        /\ call.prev <= call.last /\ call.commit \in Nat
    <3>1. call \in [prev : 0..Len(log[n]), last : 0..Len(log[n]),
                    commit : 0..commitIndex[n]]
      BY DEF callsOf
    <3>2. call.prev <= call.last
      BY DEF callsOf, isCall
    <3> QED
      BY <3>1, <3>2, LogTyped
  <2>2. PICK s : s = served(n, m, call, back)
    OBVIOUS
  <2>3. /\ s.log \in Seq(LogEntry) /\ Prefix(s.log, log[n])
        /\ s.commit \in Nat /\ s.advanced \in Nat
    BY <1>1, <2>1, <2>2, ServedFacts
  <2>4. AppendEntries(n, m, s)
    BY <1>3, <2>2, Zenon
  <2> QED
    BY <1>1, <1>3, <2>3, <2>4, AppendEntriesKeeps, RaftOnly
<1>4. \/ term[m] > term[n] /\ deposed(n, m)
      \/ /\ term[m] <= term[n]
         /\ \E s \in outcomes(n, m) : AppendEntries(n, m, s)
  BY Zenon DEF replicateToPeer
<1>5. \A s \in outcomes(n, m) : \E call \in callsOf(n), back \in BOOLEAN :
         s = served(n, m, call, back)
  BY DEF outcomes
<1> QED
  BY <1>2, <1>3, <1>4, <1>5, Zenon

-----------------------------------------------------------------------------
(* Requests *)

\* One request becomes y.
LEMMA Becomes ==
    ASSUME IInv, NEW r \in Request, NEW y, Placed(y),
           req' = [req EXCEPT ![r] = y]
    PROVE  /\ ReqTyped' /\ req'[r] = y
           /\ \A q \in Request : q # r => req'[q] = req[q]
<1>1. DOMAIN req = Request /\ \A q \in Request : Placed(req[q])
  BY DEF IInv, ReqTyped
<1>2. /\ DOMAIN req' = Request /\ req'[r] = y
      /\ \A q \in Request : q # r => req'[q] = req[q]
  BY <1>1
<1>3. \A q \in Request : Placed(req'[q])
  BY <1>1, <1>2, Zenon
<1>4. \A q \in Request : Placed(req[q])' <=> Placed(req'[q])
  BY Zenon DEF Placed, Fields
<1> QED
  BY <1>2, <1>3, <1>4 DEF ReqTyped

\* One request becomes y, and waits only if it did before.
LEMMA RequestMoves ==
    ASSUME IInv, UNCHANGED raftVars,
           GhostTyped', CacheKept', LeaderAnswersOwn', LogKept',
           NEW r \in Request, NEW y, Placed(y), req' = [req EXCEPT ![r] = y],
           y.at = "wait" =>
              /\ req[r].at = "wait" /\ y.node = req[r].node
              /\ y.index = req[r].index /\ y.cmd = req[r].cmd
              /\ y.term = req[r].term
    PROVE  IInv'
<1>1. /\ ReqTyped' /\ req'[r] = y
      /\ \A q \in Request : q # r => req'[q] = req[q]
  BY Becomes, Zenon
<1>2. RaftTyped'
  BY DEF IInv, RaftTyped, raftVars
<1>3. Waits'
  <2>1. \A n \in Node : term[n] \in Nat
    BY DEF IInv, RaftTyped
  <2>2. LeadersGrow
    BY <2>1 DEF LeadersGrow, raftVars
  <2>3. \A q \in Request : req'[q].at = "wait" =>
           /\ req[q].at = "wait" /\ req'[q].node = req[q].node
           /\ req'[q].index = req[q].index /\ req'[q].cmd = req[q].cmd
           /\ req'[q].term = req[q].term
    BY <1>1
  <2> QED
    BY <1>2, <2>2, <2>3, WaitsKept
<1> QED
  BY <1>1, <1>2, <1>3 DEF IInv

LEMMA IdleFacts == Placed(idleRequest) /\ idleRequest.at = "idle"
  BY DEF idleRequest, Placed, Fields, At

LEMMA AnsweredKeeps ==
    ASSUME IInv, UNCHANGED raftVars,
           GhostTyped', CacheKept', LeaderAnswersOwn', LogKept',
           NEW r \in Request, answered(r)
    PROVE  IInv'
<1>1. req' = [req EXCEPT ![r] = idleRequest]
  BY DEF answered
<1> QED
  BY <1>1, IdleFacts, RequestMoves

\* Cache and ghost stay as they are.
LEMMA SameMemory ==
    ASSUME IInv, UNCHANGED <<cache, ghost>>
    PROVE  GhostTyped' /\ CacheKept' /\ LeaderAnswersOwn'
  BY DEF IInv, GhostTyped, CacheKept, LeaderAnswersOwn

\* No log changes and nothing is acknowledged.
LEMMA QuietLogs ==
    ASSUME IInv, UNCHANGED raftVars, ghost'.acked = ghost.acked
    PROVE  LogKept'
<1>1. \A k \in Node : term[k] \in Nat
  BY DEF IInv, RaftTyped
<1> QED
  BY <1>1, SameLogs DEF raftVars

LEMMA SameState ==
    ASSUME IInv, UNCHANGED <<raftVars, cache, ghost>>
    PROVE  GhostTyped' /\ CacheKept' /\ LeaderAnswersOwn' /\ LogKept'
  BY SameMemory, QuietLogs

LEMMA ArrivesKeeps ==
    ASSUME IInv, NEW r \in Request, NEW n \in Node, NEW kind \in Kind,
           NEW cmd \in Command \cup {None}, kind = "mutate" => cmd \in Key,
           NEW next \in {"route", "propose"}, arrives(r, n, kind, cmd, next)
    PROVE  IInv'
<1> DEFINE count == IF kind = "fill" THEN FillCount ELSE 0
           x == idleRequest
           y == [x EXCEPT !.at = next, !.kind = kind, !.cmd = cmd, !.node = n,
                          !.left = count]
<1>1. /\ req' = [req EXCEPT ![r] = y]
      /\ UNCHANGED <<raftVars, cache, ghost>>
  BY Zenon DEF arrives, raftVars
<1>2. Fields(x)
  BY DEF idleRequest, Fields, At
<1> HIDE DEF count, x
<1>3. next \in At /\ next # "wait"
  BY DEF At
<1>4. /\ y.at = next /\ y.kind = kind /\ y.cmd = cmd /\ y.node = n
      /\ Fields(y)
  BY <1>2, <1>3 DEF Fields
<1> HIDE DEF y
<1>5. Placed(y) /\ y.at # "wait"
  BY <1>3, <1>4 DEF Placed
<1> QED
  BY <1>1, <1>5, SameState, RequestMoves

LEMMA RegisterKeeps == ASSUME IInv, Register PROVE IInv'
<1>1. PICK r \in Request, n \in Node :
        \/ handleMutate(r, n) \/ handleCreate(r, n)
        \/ handleState(r, n) \/ handleFillLog(r, n) \/ proposeTurn(r, n)
  BY DEF Register
<1>2. Start \in Command /\ Noop \in Command /\ Key \subseteq Command
  BY DEF Command
<1>3. CASE handleMutate(r, n)
  <2>1. PICK k \in Key : arrives(r, n, "mutate", k, "route")
    BY <1>3 DEF handleMutate
  <2>2. "mutate" \in Kind
    BY <2>1 DEF arrives
  <2> QED
    BY <1>2, <2>1, <2>2, ArrivesKeeps
<1>4. CASE handleCreate(r, n)
  <2>1. arrives(r, n, "create", Start, "route")
    BY <1>4 DEF handleCreate
  <2>2. "create" \in Kind
    BY <2>1 DEF arrives
  <2> QED
    BY <1>2, <2>1, <2>2, ArrivesKeeps
<1>5. CASE handleState(r, n)
  <2>1. arrives(r, n, "state", None, "route")
    BY <1>5 DEF handleState
  <2>2. "state" \in Kind
    BY <2>1 DEF arrives
  <2> QED
    BY <1>2, <2>1, <2>2, ArrivesKeeps
<1>6. CASE handleFillLog(r, n)
  <2>1. arrives(r, n, "fill", Noop, "route")
    BY <1>6 DEF handleFillLog
  <2>2. "fill" \in Kind
    BY <2>1 DEF arrives
  <2> QED
    BY <1>2, <2>1, <2>2, ArrivesKeeps
<1>7. CASE proposeTurn(r, n)
  <2>1. PICK k \in Key : arrives(r, n, "turn", k, "propose")
    BY <1>7 DEF proposeTurn
  <2>2. "turn" \in Kind
    BY <2>1 DEF arrives
  <2> QED
    BY <1>2, <2>1, <2>2, ArrivesKeeps
<1> QED
  BY <1>1, <1>3, <1>4, <1>5, <1>6, <1>7

LEMMA ForwardKeeps ==
    ASSUME IInv, NEW r \in Request, NEW kind, forward(r, kind)
    PROVE  IInv'
<1>1. /\ UNCHANGED <<raftVars, cache, ghost>>
      /\ req[r].at = "route"
  BY Zenon DEF forward, raftVars
<1>2. CASE answered(r)
  BY <1>1, <1>2, SameState, AnsweredKeeps
<1>3. CASE /\ knownLeader[req[r].node] # None
           /\ req' = [req EXCEPT ![r].node = knownLeader[req[r].node],
                                 ![r].hops = req[r].hops + 1]
  <2>1. Placed(req[r]) /\ req[r].node \in Node
    BY <1>1 DEF IInv, ReqTyped, Placed
  <2>2. knownLeader[req[r].node] \in Node
    BY <1>3, <2>1 DEF IInv, RaftTyped
  <2>3. PICK to \in Node : to = knownLeader[req[r].node]
    BY <2>2
  <2> DEFINE x == req[r]
             h == req[r].hops + 1
             y == [x EXCEPT !.node = to, !.hops = h]
  <2>4. req' = [req EXCEPT ![r] = y]
    BY <1>3, <2>3, Zenon
  <2>5. Placed(x) /\ x.at = "route"
    BY <1>1, <2>1
  <2> HIDE DEF x, h
  <2>6. Placed(y) /\ y.at = "route"
    BY <2>5 DEF Placed, Fields
  <2> HIDE DEF y
  <2> QED
    BY <1>1, <2>4, <2>6, SameState, RequestMoves
<1> QED
  BY <1>2, <1>3, Zenon DEF forward, LeaderEndpoint

\* The request goes on to be proposed.
LEMMA BecomeKeeps ==
    ASSUME IInv, NEW r \in Request, req[r].at = "route", become(r, "propose"),
           UNCHANGED <<raftVars, cache, ghost>>
    PROVE  IInv'
<1> DEFINE x == req[r]
           y == [x EXCEPT !.at = "propose"]
<1>1. req' = [req EXCEPT ![r] = y]
  BY Zenon DEF become
<1>2. Placed(x) /\ x.at = "route"
  BY DEF IInv, ReqTyped
<1> HIDE DEF x
<1>3. Placed(y) /\ y.at = "propose"
  BY <1>2 DEF Placed, Fields, At
<1> HIDE DEF y
<1> QED
  BY <1>1, <1>3, SameState, RequestMoves

LEMMA GiveUpKeeps ==
    ASSUME IInv, NEW r \in Request, giveUp(r)
    PROVE  IInv'
<1> DEFINE x == req[r]
           y == [x EXCEPT !.heard = FALSE]
<1>1. /\ req' = [req EXCEPT ![r] = y]
      /\ UNCHANGED <<raftVars, cache, ghost>>
  BY Zenon DEF giveUp, raftVars
<1>2. Placed(x) /\ x = req[r]
  BY DEF IInv, ReqTyped
<1> HIDE DEF x
<1>3. /\ Placed(y) /\ y.at = x.at /\ y.node = x.node /\ y.index = x.index
      /\ y.cmd = x.cmd /\ y.term = x.term
  BY <1>2 DEF Placed, Fields
<1> HIDE DEF y
<1> QED
  BY <1>1, <1>2, <1>3, SameState, RequestMoves

\* What only ends or goes on to propose.
LEMMA QuietKeeps ==
    ASSUME IInv, NEW r \in Request,
           \/ refuse(r) \/ timeout(r) \/ processLocalMutate(r)
           \/ processLocalCreate(r) \/ processLocalFillLog(r)
    PROVE  IInv'
<1>1. /\ UNCHANGED <<raftVars, cache, ghost>>
      /\ \/ answered(r)
         \/ req[r].at = "route" /\ become(r, "propose")
  BY Zenon DEF refuse, timeout, processLocalMutate, processLocalCreate,
               processLocalFillLog, local, raftVars
<1> QED
  BY <1>1, SameState, AnsweredKeeps, BecomeKeeps

\* The entry goes to the end of the log, and that is the index to wait for.
LEMMA ProposeKeeps ==
    ASSUME IInv, NEW r \in Request, Propose(r)
    PROVE  IInv'
<1>1. /\ UNCHANGED <<term, votedFor, leads, knownLeader, commitIndex, results, matchIndex,
                   cache, ghost>>
      /\ req[r].at = "propose"
  BY Zenon DEF Propose
<1>2. CASE answered(r) /\ UNCHANGED log
  <2>1. UNCHANGED <<raftVars, cache, ghost>>
    BY <1>1, <1>2 DEF raftVars
  <2> QED
    BY <1>2, <2>1, SameState, AnsweredKeeps
<1>3. PICK n \in Node : n = req[r].node
  BY <1>1 DEF IInv, ReqTyped, Placed
<1> DEFINE e == [term |-> term[n], cmd |-> req[r].cmd]
<1>4. CASE /\ leads[n] /\ log' = [log EXCEPT ![n] = Append(log[n], e)]
           /\ req' = [req EXCEPT ![r].at = "wait", ![r].term = term[n],
                                 ![r].index = Len(log[n]) + 1]
  <2>1. /\ term[n] \in Nat /\ log \in [Node -> Seq(LogEntry)]
        /\ log[n] \in Seq(LogEntry)
    BY DEF IInv, RaftTyped
  <2>2. PICK t \in Nat, i \in Nat \ {0} : t = term[n] /\ i = Len(log[n]) + 1
    BY <2>1
  <2> DEFINE x == req[r]
             y == [x EXCEPT !.at = "wait", !.term = t, !.index = i]
  <2>3. req' = [req EXCEPT ![r] = y]
    BY <1>4, <2>2, Zenon
  <2>4. Placed(x) /\ x.node = n /\ x.at = "propose"
    BY <1>1, <1>3 DEF IInv, ReqTyped
  <2>5. e \in LogEntry /\ e.cmd = x.cmd /\ e.term = term[n]
    <3>1. req[r].cmd \in Command \cup {None}
      BY <2>4 DEF Placed, Fields
    <3> QED
      BY <2>1, <3>1 DEF LogEntry
  <2> HIDE DEF x, e
  <2>6. /\ Placed(y) /\ y.at = "wait" /\ y.term = t /\ y.index = i
        /\ y.node = n /\ y.cmd = x.cmd
    BY <2>4 DEF Placed, Fields, At
  <2> HIDE DEF y
  <2>7. /\ ReqTyped' /\ req'[r] = y
        /\ \A q \in Request : q # r => req'[q] = req[q]
    BY <2>3, <2>6, Becomes, Zenon
  <2>8. /\ Append(log[n], e) \in Seq(LogEntry)
        /\ i \in DOMAIN Append(log[n], e) /\ Append(log[n], e)[i] = e
        /\ \A j \in DOMAIN log[n] : /\ j \in DOMAIN Append(log[n], e)
                                    /\ Append(log[n], e)[j] = log[n][j]
    BY <2>1, <2>2, <2>5
  <2>9. /\ log' \in [Node -> Seq(LogEntry)] /\ log'[n] = Append(log[n], e)
        /\ \A k \in Node : k # n => log'[k] = log[k]
    BY <1>4, <2>1, <2>8
  <2>10. RaftTyped'
    BY <1>1, <2>9 DEF IInv, RaftTyped
  <2>11. LeadersGrow
    <3>1. \A k \in Node : term[k] \in Nat
      BY DEF IInv, RaftTyped
    <3>2. ASSUME NEW k \in Node
          PROVE  \A j \in DOMAIN log[k] : j \in DOMAIN log'[k] /\ log'[k][j] = log[k][j]
      BY <2>8, <2>9
    <3>3. \A k \in Node : term'[k] = term[k] /\ leads'[k] = leads[k]
      BY <1>1
    <3> QED
      BY <3>1, <3>2, <3>3 DEF LeadersGrow
  <2>12. ASSUME NEW q \in Request, req'[q].at = "wait"
         PROVE  \/ /\ req[q].at = "wait" /\ req'[q].node = req[q].node
                   /\ req'[q].index = req[q].index /\ req'[q].cmd = req[q].cmd
                   /\ req'[q].term = req[q].term
                \/ /\ req'[q].term \in Nat /\ req'[q].term = term'[req'[q].node]
                   /\ req'[q].index \in Nat \ {0}
                   /\ req'[q].index \in DOMAIN log'[req'[q].node]
                   /\ log'[req'[q].node][req'[q].index].cmd = req'[q].cmd
    <3>1. CASE q = r
      BY <1>1, <2>2, <2>5, <2>6, <2>7, <2>8, <2>9, <3>1
    <3>2. CASE q # r
      BY <2>7, <2>12, <3>2
    <3> QED
      BY <3>1, <3>2
  <2>13. Waits'
    BY <2>10, <2>11, <2>12, WaitsKept
  <2>14. LogKept'
    <3>1. /\ Len(log'[n]) = Len(log[n]) + 1
          /\ \A j \in 1..Len(log[n]) : log'[n][j] = log[n][j]
          /\ log'[n][Len(log[n]) + 1].term = term[n]
      BY <2>1, <2>2, <2>5, <2>8, <2>9
    <3>2. Sorted(log[n], term[n]) /\ Whole(log[n]) /\ votedFor[n] = n
          /\ \A k \in Node : leads[k] => k = n
      BY <1>4 DEF IInv, LogKept
    <3>3. Sorted(log'[n], term[n])
      <4>1. \A j \in 1..Len(log[n]) : log[n][j].term \in Nat
        BY <2>1, EntryTerms
      <4>2. PICK b \in Nat : b = Len(log[n])
        BY <2>1
      <4>3. ASSUME NEW j \in 1..(b + 1)
            PROVE  /\ log'[n][j].term <= term[n]
                   /\ \A h \in 1..j : log'[n][h].term <= log'[n][j].term
        <5>1. CASE j = b + 1
          <6>1. log'[n][j].term = term[n]
            BY <3>1, <4>2, <5>1
          <6>2. ASSUME NEW h \in 1..j PROVE log'[n][h].term <= term[n]
            BY <2>1, <3>1, <3>2, <4>2, <5>1, <6>1 DEF Sorted
          <6> QED
            BY <2>1, <6>1, <6>2
        <5>2. CASE j # b + 1
          <6>1. j \in 1..b /\ \A h \in 1..j : h \in 1..b
            BY <5>2
          <6> QED
            BY <3>1, <3>2, <4>2, <6>1 DEF Sorted
        <5> QED
          BY <5>1, <5>2
      <4> QED
        BY <3>1, <4>2, <4>3 DEF Sorted
    <3>4. \A k \in Node : Sorted(log'[k], term'[k])
      BY <1>1, <2>9, <3>3 DEF IInv, LogKept
    <3>5. Whole(log[n])'
      <4>1. \A z \in Node : /\ log[z] \in Seq(LogEntry)
                             /\ results[z] \in Seq(Command \cup {None})
        BY LogTyped
      <4>2. ASSUME NEW z \in Node
            PROVE  Prefix(log'[z], log'[n]) /\ Agrees(results[z], log'[n])
        <5>1. Prefix(log[z], log[n]) /\ Agrees(results[z], log[n])
          BY <3>2 DEF Whole
        <5>2. Prefix(log[n], log'[n]) /\ log'[n] \in Seq(LogEntry)
          BY <2>1, <2>9, <3>1 DEF Prefix
        <5>3. Prefix(log[z], log'[n]) /\ Agrees(results[z], log'[n])
          BY <4>1, <5>1, <5>2, PrefixChain, AgreesChain
        <5>4. Prefix(log'[n], log'[n])
          BY <5>2 DEF Prefix
        <5> QED
          BY <2>9, <5>3, <5>4
      <4>3. \A a \in ghost.acked : a[1] \in 1..Len(log'[n]) /\ log'[n][a[1]].cmd = a[2]
        BY <2>1, <3>1, <3>2 DEF Whole
      <4> QED
        BY <1>1, <4>2, <4>3 DEF Whole, Prefix, Agrees
    <3> QED
      BY <1>1, <3>2, <3>4, <3>5 DEF LogKept, Sorted
  <2> QED
    BY <1>1, <2>7, <2>10, <2>13, <2>14, SameMemory DEF IInv
<1> QED
  BY <1>2, <1>3, <1>4, Zenon DEF Propose, proposedIndex

-----------------------------------------------------------------------------
(* The idempotency cache *)

\* A key that is new goes to the end of both, and the oldest is forgotten
\* when there is no room.
LEMMA PutRemembers ==
    ASSUME NEW c, NEW s \in Seq(Key), Remembers(c, s), NEW k \in Key,
           k \notin c.entries
    PROVE  Remembers(Put(c, k), Append(s, k))
<1>1. /\ c.order \in Seq(Key) /\ c.entries \in SUBSET Key
      /\ Len(c.order) = Least(Len(s), CacheCap)
      /\ \A i \in 1..Len(c.order) : c.order[i] = s[(Len(s) - Len(c.order)) + i]
      /\ \A i, j \in 1..Len(c.order) : c.order[i] = c.order[j] => i = j
      /\ c.entries = {c.order[i] : i \in 1..Len(c.order)}
  BY DEF Remembers, CacheState
<1>2. PICK o \in Seq(Key), L \in Nat : o = c.order /\ L = Len(o)
  BY <1>1
<1>3. PICK N \in Nat : N = Len(s)
  OBVIOUS
<1>4. CacheCap \in Nat /\ CacheCap >= 1
  BY GatewayAssumption
<1>5. L = Least(N, CacheCap) /\ L <= N /\ L <= CacheCap
  BY <1>1, <1>2, <1>3, <1>4 DEF Least
<1>6. /\ \A i \in 1..L : o[i] = s[(N - L) + i] /\ o[i] \in Key
      /\ \A i, j \in 1..L : o[i] = o[j] => i = j
      /\ c.entries = {o[i] : i \in 1..L}
      /\ \A i \in 1..L : o[i] # k
  BY <1>1, <1>2, <1>3
<1>7. /\ Append(s, k) \in Seq(Key) /\ Len(Append(s, k)) = N + 1
      /\ Append(s, k)[N + 1] = k
      /\ \A i \in 1..N : Append(s, k)[i] = s[i]
  BY <1>3
<1> DEFINE ok == Append(o, k)
<1>8. /\ ok \in Seq(Key) /\ Len(ok) = L + 1 /\ ok[L + 1] = k
      /\ \A i \in 1..L : ok[i] = o[i]
  BY <1>2
<1>9. CASE L + 1 > CacheCap
  <2>0. L = CacheCap /\ L >= 1
    BY <1>4, <1>5, <1>9
  <2> DEFINE d == Put(c, k)
             ot == Tail(ok)
             es == (c.entries \cup {k}) \ {Head(ok)}
  <2>1. d = [order |-> ot, entries |-> es]
    BY <1>2, <1>8, <1>9 DEF Put
  <2>2. /\ ot \in Seq(Key) /\ Len(ot) = L /\ Head(ok) = o[1]
        /\ \A i \in 1..L : ot[i] = ok[i + 1]
    BY <1>8, <2>0
  <2>3. /\ ot[L] = k /\ \A i \in 1..(L - 1) : ot[i] = o[i + 1]
    BY <1>8, <2>0, <2>2
  <2>4. es = {ot[i] : i \in 1..L}
    <3>1. es = ({o[i] : i \in 1..L} \cup {k}) \ {o[1]}
      BY <1>6, <2>2
    <3> HIDE DEF es, ot, ok
    <3>2. ASSUME NEW e \in es PROVE \E i \in 1..L : e = ot[i]
      <4>1. CASE e = k
        BY <2>0, <2>3, <4>1
      <4>2. CASE e # k
        <5>1. PICK j \in 1..L : e = o[j] /\ j # 1
          BY <3>1, <4>2
        <5>2. j - 1 \in 1..(L - 1) /\ ot[j - 1] = o[j]
          BY <2>3, <5>1
        <5> QED
          BY <5>1, <5>2
      <4> QED
        BY <4>1, <4>2
    <3>3. ASSUME NEW i \in 1..L PROVE ot[i] \in es
      <4>1. CASE i = L
        BY <1>6, <2>0, <2>3, <3>1, <4>1
      <4>2. CASE i # L
        <5>1. i \in 1..(L - 1) /\ i + 1 \in 1..L /\ i + 1 # 1 /\ 1 \in 1..L
          BY <4>2
        <5>2. ot[i] = o[i + 1] /\ o[i + 1] # o[1]
          BY <1>6, <2>3, <5>1
        <5> QED
          BY <3>1, <5>1, <5>2
      <4> QED
        BY <4>1, <4>2
    <3> QED
      BY <3>2, <3>3
  <2>5. es \in SUBSET Key
    BY <1>1
  <2>6. d \in CacheState /\ d.order = ot /\ d.entries = es
    BY <2>1, <2>2, <2>5 DEF CacheState
  <2> HIDE DEF d, es, ot, ok
  <2>7. Len(d.order) = Least(N + 1, CacheCap)
    BY <1>5, <2>0, <2>2, <2>6 DEF Least
  <2>8. \A i \in 1..L : ot[i] = Append(s, k)[((N + 1) - L) + i]
    <3> SUFFICES ASSUME NEW i \in 1..L
                 PROVE  ot[i] = Append(s, k)[((N + 1) - L) + i]
      OBVIOUS
    <3>1. CASE i = L
      <4>1. ((N + 1) - L) + i = N + 1
        BY <3>1
      <4> QED
        BY <1>7, <2>3, <3>1, <4>1
    <3>2. CASE i # L
      <4>1. /\ ((N + 1) - L) + i \in 1..N /\ i + 1 \in 1..L /\ i \in 1..(L - 1)
            /\ (N - L) + (i + 1) = ((N + 1) - L) + i
        BY <1>5, <3>2
      <4>2. ot[i] = o[i + 1] /\ o[i + 1] = s[(N - L) + (i + 1)]
        BY <1>6, <2>3, <4>1
      <4> QED
        BY <1>7, <4>1, <4>2
    <3> QED
      BY <3>1, <3>2
  <2>9. \A i, j \in 1..L : ot[i] = ot[j] => i = j
    <3> SUFFICES ASSUME NEW i \in 1..L, NEW j \in 1..L, ot[i] = ot[j] PROVE i = j
      OBVIOUS
    <3>1. ASSUME NEW m \in 1..L, m # L PROVE ot[m] # k
      <4>1. m \in 1..(L - 1) /\ m + 1 \in 1..L
        BY <3>1
      <4> QED
        BY <1>6, <2>3, <4>1, ZenonT(60)
    <3>2. CASE i # L /\ j # L
      <4>1. /\ i \in 1..(L - 1) /\ j \in 1..(L - 1) /\ i + 1 \in 1..L /\ j + 1 \in 1..L
        BY <3>2
      <4>2. o[i + 1] = o[j + 1]
        BY <2>3, <4>1
      <4>3. i + 1 = j + 1
        BY <1>6, <4>1, <4>2
      <4> QED
        BY <4>3
    <3> QED
      BY <2>3, <3>1, <3>2
  <2>10. /\ Len(d.order) = Least(Len(Append(s, k)), CacheCap)
         /\ Len(d.order) = L /\ Len(Append(s, k)) = N + 1
    BY <1>7, <2>2, <2>6, <2>7
  <2>11. /\ \A i \in 1..Len(d.order) :
            d.order[i] = Append(s, k)[(Len(Append(s, k)) - Len(d.order)) + i]
         /\ \A i, j \in 1..Len(d.order) : d.order[i] = d.order[j] => i = j
         /\ d.entries = {d.order[i] : i \in 1..Len(d.order)}
    <3> HIDE DEF es
    <3>1. d.order = ot /\ Len(d.order) = L /\ Len(Append(s, k)) = N + 1
      BY <2>6, <2>10
    <3>2. \A i \in 1..Len(d.order) :
            d.order[i] = Append(s, k)[(Len(Append(s, k)) - Len(d.order)) + i]
      BY <3>1, <2>8
    <3>3. \A i, j \in 1..Len(d.order) : d.order[i] = d.order[j] => i = j
      BY <3>1, <2>9
    <3>4. d.entries = {d.order[i] : i \in 1..Len(d.order)}
      BY <3>1, <2>4, <2>6
    <3> QED
      BY <3>2, <3>3, <3>4
  <2>12. Remembers(d, Append(s, k))
    BY <2>6, <2>10, <2>11, Zenon DEF Remembers
  <2> QED
    BY <2>12 DEF d
<1>10. CASE ~(L + 1 > CacheCap)
  <2>0. L = N
    BY <1>4, <1>5, <1>10 DEF Least
  <2> DEFINE d == Put(c, k)
             es == c.entries \cup {k}
  <2>1. d = [order |-> ok, entries |-> es]
    BY <1>2, <1>8, <1>10 DEF Put
  <2>2. es \in SUBSET Key
    BY <1>1
  <2>3. d \in CacheState /\ d.order = ok /\ d.entries = es
    BY <1>8, <2>1, <2>2 DEF CacheState
  <2>4. es = {ok[i] : i \in 1..(L + 1)}
    BY <1>6, <1>8
  <2> HIDE DEF d, es, ok
  <2>5. Len(d.order) = Least(N + 1, CacheCap) /\ Len(d.order) = L + 1
    BY <1>4, <1>8, <1>10, <2>0, <2>3 DEF Least
  <2>6. \A i \in 1..(L + 1) : ok[i] = Append(s, k)[((N + 1) - (L + 1)) + i]
    BY <1>6, <1>7, <1>8, <2>0
  <2>7. \A i, j \in 1..(L + 1) : ok[i] = ok[j] => i = j
    BY <1>6, <1>8
  <2>8. /\ Len(d.order) = Least(Len(Append(s, k)), CacheCap)
        /\ Len(Append(s, k)) = N + 1
    BY <1>7, <2>5
  <2>9. /\ \A i \in 1..Len(d.order) :
           d.order[i] = Append(s, k)[(Len(Append(s, k)) - Len(d.order)) + i]
        /\ \A i, j \in 1..Len(d.order) : d.order[i] = d.order[j] => i = j
        /\ d.entries = {d.order[i] : i \in 1..Len(d.order)}
    <3> HIDE DEF es
    <3>1. d.order = ok /\ Len(d.order) = L + 1 /\ Len(Append(s, k)) = N + 1
      BY <2>3, <2>5, <2>8
    <3>2. \A i \in 1..Len(d.order) :
            d.order[i] = Append(s, k)[(Len(Append(s, k)) - Len(d.order)) + i]
      BY <3>1, <2>6
    <3>3. \A i, j \in 1..Len(d.order) : d.order[i] = d.order[j] => i = j
      BY <3>1, <2>7
    <3>4. d.entries = {d.order[i] : i \in 1..Len(d.order)}
      BY <3>1, <2>4, <2>3
    <3> QED
      BY <3>2, <3>3, <3>4
  <2>10. Remembers(d, Append(s, k))
    BY <2>3, <2>8, <2>9, Zenon DEF Remembers
  <2> QED
    BY <2>10 DEF d
<1> QED
  BY <1>9, <1>10

\* What is recent is still there.
LEMMA RecentIsKept ==
    ASSUME IInv, NEW n \in Node
    PROVE  recent(n) \subseteq cache[n].entries
<1>1. Remembers(cache[n], ghost.stores[n]) /\ ghost.stores[n] \in Seq(Key)
  BY DEF IInv, CacheKept, GhostTyped
<1>2. PICK s \in Seq(Key), c \in CacheState : s = ghost.stores[n] /\ c = cache[n]
  BY <1>1 DEF Remembers
<1>3. Remembers(c, s)
  BY <1>1, <1>2, Zenon
<1>3a. /\ CacheCap \in Nat /\ Len(s) \in Nat
       /\ c.order \in Seq(Key) /\ Len(c.order) \in Nat
  BY <1>3, GatewayAssumption DEF Remembers, CacheState
<1>4. ASSUME NEW i \in 1..Len(s), i > Len(s) - CacheCap
      PROVE  s[i] \in c.entries
  <2>1. PICK N \in Nat, L \in Nat : N = Len(s) /\ L = Len(c.order)
    BY <1>3a
  <2> DEFINE j == i - (Len(s) - Len(c.order))
  <2>2. j \in 1..Len(c.order) /\ (Len(s) - Len(c.order)) + j = i
    <3>1. L = Least(N, CacheCap)
      BY <1>3, <2>1 DEF Remembers
    <3>2. i - (N - L) \in 1..L /\ (N - L) + (i - (N - L)) = i
      <4>1. i \in 1..N /\ i > N - CacheCap /\ CacheCap \in Nat
        BY <1>3a, <1>4, <2>1
      <4> QED
        BY <3>1, <4>1 DEF Least
    <3> QED
      BY <2>1, <3>2
  <2> HIDE DEF j
  <2>3. c.order[j] = s[i]
    BY <1>3, <2>2 DEF Remembers
  <2> QED
    BY <1>3, <2>2, <2>3 DEF Remembers
<1> QED
  BY <1>2, <1>4 DEF recent

-----------------------------------------------------------------------------
(* Answers *)

\* A request that has waited long enough is told its own result if its node
\* still leads.
LEMMA ToldOwn ==
    ASSUME IInv, NEW r \in Request, req[r].at = "wait", NEW n \in Node,
           n = req[r].node, req[r].index <= Len(results[n]),
           leads[n], term[n] = req[r].term
    PROVE  own(r)
<1>1. waitsFor(req[r])
  BY DEF IInv, Waits
<1>2. PICK i \in Nat \ {0} : i = req[r].index
  BY <1>1 DEF waitsFor
<1>3. log[n][i].cmd = req[r].cmd
  BY <1>1, <1>2, Zenon DEF waitsFor
<1>4. Agrees(results[n], log[n]) /\ Len(results[n]) \in Nat
  BY LogTyped DEF IInv, LogKept, Whole
<1>5. results[n][i] = log[n][i].cmd
  BY <1>2, <1>4 DEF Agrees
<1> QED
  BY <1>2, <1>3, <1>5 DEF own, result

\* What is acknowledged was applied, and so is in every log that is whole.
LEMMA AckedLogs ==
    ASSUME IInv, UNCHANGED raftVars, NEW r \in Request, req[r].at = "wait",
           NEW n \in Node, n = req[r].node, req[r].index <= Len(results[n]),
           ghost'.acked \subseteq ghost.acked \cup {<<req[r].index, result(r)>>}
    PROVE  LogKept'
<1>1. UNCHANGED <<term, votedFor, leads, log, results>>
  BY DEF raftVars
<1>2. PICK i \in Nat \ {0} : i = req[r].index
  BY DEF IInv, Waits, waitsFor
<1>3. i \in 1..Len(results[n]) /\ Len(results[n]) \in Nat
  BY <1>2, LogTyped
<1>4. ASSUME NEW z \in Node, Whole(log[z]) PROVE Whole(log[z])'
  <2>1. Agrees(results[n], log[z]) /\ Len(log[z]) \in Nat
    BY <1>4, LogTyped DEF Whole
  <2>2. i \in 1..Len(log[z]) /\ log[z][i].cmd = results[n][i]
    BY <1>3, <2>1 DEF Agrees
  <2>3. \A a \in ghost'.acked : a[1] \in 1..Len(log[z]) /\ log[z][a[1]].cmd = a[2]
    <3> SUFFICES ASSUME NEW a \in ghost'.acked
                 PROVE  a[1] \in 1..Len(log[z]) /\ log[z][a[1]].cmd = a[2]
      OBVIOUS
    <3>1. CASE a \in ghost.acked
      BY <1>4, <3>1 DEF Whole
    <3>2. CASE a = <<i, results[n][i]>>
      BY <2>2, <3>2
    <3> QED
      BY <1>2, <3>1, <3>2 DEF result
  <2>4. \A y \in Node : Prefix(log[y], log[z]) /\ Agrees(results[y], log[z])
    BY <1>4 DEF Whole
  <2> QED
    BY <1>1, <2>3, <2>4 DEF Whole, Prefix, Agrees
<1> QED
  BY <1>1, <1>4 DEF IInv, LogKept, Sorted

\* What telling leaves behind.
LEMMA ToldFacts ==
    ASSUME IInv, NEW r \in Request, req[r].at = "wait", ghost' = told(r),
           NEW n \in Node, n = req[r].node, req[r].index <= Len(results[n]),
           UNCHANGED raftVars
    PROVE  /\ GhostTyped' /\ LeaderAnswersOwn' /\ LogKept'
           /\ (req[r].kind = "mutate" /\ ~Get(n, req[r].cmd)) =>
                 ghost'.stores = [ghost.stores EXCEPT
                                    ![n] = Append(ghost.stores[n], req[r].cmd)]
           /\ ~(req[r].kind = "mutate" /\ ~Get(n, req[r].cmd)) =>
                 ghost'.stores = ghost.stores
<1> DEFINE A == IF own(r) /\ req[r].heard
                THEN ghost.acked \cup {<<req[r].index, result(r)>>} ELSE ghost.acked
           F == ghost.foreign \/ (leads[n] /\ term[n] = req[r].term /\ ~own(r))
           stored == req[r].kind = "mutate" /\ ~Get(n, req[r].cmd)
           S == IF stored THEN Append(ghost.stores[n], req[r].cmd)
                ELSE ghost.stores[n]
           old == ghost
           new == [old EXCEPT !.acked = A, !.foreign = F, !.stores[n] = S]
<1>1. ghost' = new
  BY Zenon DEF told
<1>2. ~F
  <2>1. ~ghost.foreign
    BY DEF IInv, LeaderAnswersOwn
  <2> QED
    BY <2>1, ToldOwn, Zenon
<1>3. /\ stored => S = Append(ghost.stores[n], req[r].cmd) /\ req[r].cmd \in Key
      /\ ~stored => S = ghost.stores[n]
  BY DEF IInv, ReqTyped, Placed
<1>4. /\ old \in [acked : {old.acked}, foreign : BOOLEAN, stale : {old.stale},
                  before : {old.before}, stores : [Node -> Seq(Key)]]
      /\ old = ghost
  BY DEF IInv, GhostTyped
<1>5. S \in Seq(Key)
  BY <1>3, <1>4
<1>6. F = FALSE
  BY <1>2
<1>6a. A \subseteq ghost.acked \cup {<<req[r].index, result(r)>>}
  OBVIOUS
<1> HIDE DEF A, F, stored, S, old
<1>7. /\ new.foreign = F /\ new.stores = [old.stores EXCEPT ![n] = S]
      /\ new.acked = A
      /\ new \in [acked : {new.acked}, foreign : BOOLEAN, stale : {new.stale},
                  before : {new.before}, stores : [Node -> Seq(Key)]]
  BY <1>4, <1>5, <1>6
<1> HIDE DEF new
<1>8. GhostTyped' /\ LeaderAnswersOwn'
  BY <1>1, <1>6, <1>7 DEF GhostTyped, LeaderAnswersOwn
<1>9. ~stored => ghost'.stores = ghost.stores
  BY <1>1, <1>3, <1>4, <1>7
<1>10. stored => ghost'.stores = [ghost.stores EXCEPT
                                    ![n] = Append(ghost.stores[n], req[r].cmd)]
  BY <1>1, <1>3, <1>4, <1>7
<1>11. LogKept'
  <2>1. ghost'.acked = A
    BY <1>1, <1>7
  <2> QED
    BY <1>6a, <2>1, AckedLogs
<1> QED
  BY <1>8, <1>9, <1>10, <1>11 DEF stored

LEMMA MutateAppliedKeeps ==
    ASSUME IInv, NEW r \in Request, mutateApplied(r)
    PROVE  IInv'
<1>1. /\ UNCHANGED raftVars
      /\ req[r].at = "wait" /\ req[r].kind = "mutate" /\ answered(r)
      /\ req[r].index <= Len(results[req[r].node])
  BY Zenon DEF mutateApplied, applied, raftVars
<1>2. CASE UNCHANGED <<cache, ghost>>
  BY <1>1, <1>2, SameState, AnsweredKeeps
<1>3. PICK n \in Node : n = req[r].node
  BY <1>1 DEF IInv, ReqTyped, Placed
<1>4. PICK k \in Key : k = req[r].cmd
  BY <1>1 DEF IInv, ReqTyped, Placed
<1>5. CASE cache' = [cache EXCEPT ![n] = Put(cache[n], k)] /\ ghost' = told(r)
  <2>1. /\ GhostTyped' /\ LeaderAnswersOwn' /\ LogKept'
        /\ ~Get(n, k) =>
              ghost'.stores = [ghost.stores EXCEPT ![n] = Append(ghost.stores[n], k)]
        /\ Get(n, k) => ghost'.stores = ghost.stores
    BY <1>1, <1>3, <1>4, <1>5, ToldFacts, Zenon
  <2>2. /\ DOMAIN cache = Node
        /\ \A m \in Node : Remembers(cache[m], ghost.stores[m])
        /\ ghost.stores \in [Node -> Seq(Key)]
    BY DEF IInv, CacheKept, GhostTyped
  <2>3. /\ DOMAIN cache' = Node /\ cache'[n] = Put(cache[n], k)
        /\ \A m \in Node : m # n => cache'[m] = cache[m]
    BY <1>5, <2>2
  <2>4. CASE Get(n, k)
    <3>1. Put(cache[n], k) = cache[n]
      BY <2>4 DEF Put, Get
    <3>2. \A m \in Node : cache'[m] = cache[m] /\ ghost'.stores[m] = ghost.stores[m]
      BY <2>1, <2>3, <2>4, <3>1
    <3> QED
      BY <1>1, <2>1, <2>2, <2>3, <3>2, AnsweredKeeps DEF CacheKept
  <2>5. CASE ~Get(n, k)
    <3>1. Remembers(Put(cache[n], k), Append(ghost.stores[n], k))
      <4>1. PICK s \in Seq(Key), c \in CacheState :
               c = cache[n] /\ s = ghost.stores[n]
        BY <2>2 DEF Remembers
      <4>2. Remembers(c, s) /\ k \notin c.entries
        BY <2>2, <2>5, <4>1, Zenon DEF Get
      <4>3. Remembers(Put(c, k), Append(s, k))
        BY <4>2, PutRemembers
      <4> QED
        BY <4>1, <4>3, Zenon
    <3>2. /\ ghost'.stores[n] = Append(ghost.stores[n], k)
          /\ \A m \in Node : m # n => ghost'.stores[m] = ghost.stores[m]
      BY <2>1, <2>2, <2>5
    <3>3. \A m \in Node : Remembers(cache'[m], ghost'.stores[m])
      BY <2>2, <2>3, <3>1, <3>2, Zenon
    <3>4. CacheKept'
      BY <2>3, <3>3, Zenon DEF CacheKept, Remembers
    <3> QED
      BY <1>1, <2>1, <3>4, AnsweredKeeps
  <2> QED
    BY <2>4, <2>5
<1> QED
  BY <1>2, <1>3, <1>4, <1>5, Zenon DEF mutateApplied

\* An answer that is not to a mutation is remembered by nobody.
LEMMA OtherAnswers ==
    ASSUME IInv, NEW r \in Request, req[r].at = "wait", req[r].kind # "mutate",
           req[r].index <= Len(results[req[r].node]),
           UNCHANGED <<raftVars, cache>>, answered(r),
           ghost' = told(r) \/ ghost' = ghost
    PROVE  IInv'
<1>1. CASE ghost' = ghost
  BY <1>1, SameState, AnsweredKeeps
<1>2. CASE ghost' = told(r)
  <2>1. PICK n \in Node : n = req[r].node
    BY DEF IInv, ReqTyped, Placed
  <2>2. /\ GhostTyped' /\ LeaderAnswersOwn' /\ LogKept'
        /\ ghost'.stores = ghost.stores
    BY <1>2, <2>1, ToldFacts, Zenon
  <2>3. CacheKept'
    BY <2>2 DEF IInv, CacheKept
  <2> QED
    BY <2>2, <2>3, AnsweredKeeps
<1> QED
  BY <1>1, <1>2

LEMMA OthersAppliedKeep ==
    ASSUME IInv, NEW r \in Request, \/ turnApplied(r) \/ createApplied(r)
                                    \/ fillLogApplied(r)
    PROVE  IInv'
<1>1. /\ UNCHANGED <<raftVars, cache>>
      /\ req[r].at = "wait" /\ req[r].kind \in {"turn", "create", "fill"}
      /\ req[r].index <= Len(results[req[r].node])
  BY Zenon DEF turnApplied, createApplied, fillLogApplied, applied, raftVars
<1>2. CASE answered(r) /\ (ghost' = told(r) \/ ghost' = ghost)
  BY <1>1, <1>2, OtherAnswers
<1>3. CASE /\ req' = [req EXCEPT ![r].at = "propose", ![r].left = req[r].left - 1]
           /\ UNCHANGED ghost
  <2> DEFINE x == req[r]
             l == req[r].left - 1
             y == [x EXCEPT !.at = "propose", !.left = l]
  <2>1. req' = [req EXCEPT ![r] = y]
    BY <1>3, Zenon
  <2>2. Placed(x) /\ x.at = "wait"
    BY <1>1 DEF IInv, ReqTyped
  <2> HIDE DEF x, l
  <2>3. Placed(y) /\ y.at = "propose"
    BY <2>2 DEF Placed, Fields, At
  <2> HIDE DEF y
  <2> QED
    BY <1>1, <1>3, <2>1, <2>3, SameState, RequestMoves
<1> QED
  BY <1>2, <1>3, Zenon DEF turnApplied, createApplied, fillLogApplied

-----------------------------------------------------------------------------
(* Reads *)

\* A read moves nothing but its own part of the ghost.
LEMMA BeforeKeeps ==
    ASSUME IInv, NEW r \in Request, NEW b, NEW st, UNCHANGED <<raftVars, cache>>,
           \/ ghost' = [ghost EXCEPT !.before[r] = b, !.stale = st]
           \/ ghost' = [ghost EXCEPT !.before[r] = b]
    PROVE  GhostTyped' /\ CacheKept' /\ LeaderAnswersOwn' /\ LogKept'
<1> DEFINE old == ghost
           one == [old EXCEPT !.before[r] = b, !.stale = st]
           two == [old EXCEPT !.before[r] = b]
<1>1. /\ old \in [acked : {old.acked}, foreign : BOOLEAN, stale : {old.stale},
                  before : {old.before}, stores : [Node -> Seq(Key)]]
      /\ old = ghost
  BY DEF IInv, GhostTyped
<1>2. ghost' = one \/ ghost' = two
  BY Zenon
<1> HIDE DEF old
<1>3. \A g \in {one, two} :
        /\ g \in [acked : {g.acked}, foreign : BOOLEAN, stale : {g.stale},
                  before : {g.before}, stores : [Node -> Seq(Key)]]
        /\ g.foreign = old.foreign /\ g.stores = old.stores /\ g.acked = old.acked
  BY <1>1
<1> HIDE DEF one, two
<1>4. /\ GhostTyped' /\ ghost'.foreign = ghost.foreign
      /\ ghost'.stores = ghost.stores /\ ghost'.acked = ghost.acked
  BY <1>1, <1>2, <1>3, Zenon DEF GhostTyped
<1> QED
  BY <1>4, QuietLogs DEF IInv, CacheKept, LeaderAnswersOwn

LEMMA BeginReadKeeps ==
    ASSUME IInv, NEW r \in Request, beginReadIndex(r)
    PROVE  IInv'
<1>1. PICK b : ghost' = [ghost EXCEPT !.before[r] = b]
  BY Zenon DEF beginReadIndex
<1>0. req[r].node \in Node /\ commitIndex[req[r].node] \in Nat
  <2>1. req[r].at = "route"
    BY DEF beginReadIndex
  <2> QED
    BY <2>1 DEF IInv, ReqTyped, Placed, RaftTyped
<1>2. PICK i, t :
        /\ i = commitIndex[req[r].node]
        /\ req' = [req EXCEPT ![r].at = "confirm", ![r].index = i, ![r].term = t]
        /\ UNCHANGED <<raftVars, cache>>
        /\ req[r].at = "route"
  BY Zenon DEF beginReadIndex, raftVars
<1> DEFINE x == req[r]
           y == [x EXCEPT !.at = "confirm", !.index = i, !.term = t]
<1>3. req' = [req EXCEPT ![r] = y]
  BY <1>2, Zenon
<1>4. Placed(x) /\ x.at = "route"
  BY <1>2 DEF IInv, ReqTyped
<1> HIDE DEF x
<1>4a. i \in Nat
  BY <1>0, <1>2
<1>5. Placed(y) /\ y.at = "confirm"
  BY <1>4, <1>4a DEF Placed, Fields, At
<1> HIDE DEF y
<1>6. GhostTyped' /\ CacheKept' /\ LeaderAnswersOwn' /\ LogKept'
  BY <1>1, <1>2, BeforeKeeps
<1> QED
  BY <1>2, <1>3, <1>5, <1>6, RequestMoves

LEMMA FinishReadKeeps ==
    ASSUME IInv, NEW r \in Request, finishRead(r)
    PROVE  IInv'
<1>1. /\ UNCHANGED <<raftVars, cache>> /\ answered(r)
  BY Zenon DEF finishRead, raftVars
<1>2. \E st : \/ ghost' = [ghost EXCEPT !.before[r] = {}, !.stale = st]
              \/ ghost' = [ghost EXCEPT !.before[r] = {}]
  BY Zenon DEF finishRead
<1>3. GhostTyped' /\ CacheKept' /\ LeaderAnswersOwn' /\ LogKept'
  BY <1>1, <1>2, BeforeKeeps
<1> QED
  BY <1>1, <1>3, AnsweredKeeps

LEMMA ConfirmKeeps ==
    ASSUME IInv, NEW r \in Request, NEW m \in Node, NEW back \in BOOLEAN,
           confirmPeer(r, m, back)
    PROVE  IInv'
<1>1. /\ req[r].at = "confirm" /\ m # req[r].node /\ leads[req[r].node]
      /\ UNCHANGED <<cache, ghost>>
  BY Zenon DEF confirmPeer
<1>2. PICK n \in Node : n = req[r].node
  BY <1>1 DEF IInv, ReqTyped, Placed
<1> DEFINE last == Len(log[n])
           call == [prev |-> last, last |-> last,
                    commit |-> Most(commitIndex[n], req[r].index)]
<1>3. CASE term[m] > term[n] /\ deposed(n, m) /\ UNCHANGED req
  BY <1>1, <1>3, DeposedKeeps, RaftOnly
<1>4. CASE /\ term[m] <= term[n] /\ AppendEntries(n, m, served(n, m, call, FALSE))
           /\ \E a : req' = [req EXCEPT ![r].acked = a]
  <2>1. /\ call.prev \in 0..Len(log[n]) /\ call.last \in 0..Len(log[n])
        /\ call.prev <= call.last /\ call.commit \in Nat
    <3>1. commitIndex[n] \in Nat /\ req[r].index \in Nat /\ Len(log[n]) \in Nat
      BY <1>1, LogTyped DEF IInv, ReqTyped, Placed
    <3> QED
      BY <3>1 DEF Most
  <2>2. PICK s : s = served(n, m, call, FALSE)
    OBVIOUS
  <2>3. /\ s.log \in Seq(LogEntry) /\ Prefix(s.log, log[n])
        /\ s.commit \in Nat /\ s.advanced \in Nat
    <3> HIDE DEF call
    <3> QED
      BY <1>1, <1>2, <2>1, <2>2, ServedFacts
  <2>4. AppendEntries(n, m, s)
    BY <1>4, <2>2, Zenon
  <2>5. RaftTyped' /\ LeadersGrow /\ LogKept'
    BY <1>1, <1>2, <1>4, <2>3, <2>4, AppendEntriesKeeps
  <2>6. PICK a : req' = [req EXCEPT ![r].acked = a]
    BY <1>4
  <2> DEFINE x == req[r]
             y == [x EXCEPT !.acked = a]
  <2>7. req' = [req EXCEPT ![r] = y]
    BY <2>6, Zenon
  <2>8. Placed(x) /\ x.at = "confirm"
    BY <1>1 DEF IInv, ReqTyped
  <2> HIDE DEF x
  <2>9. Placed(y) /\ y.at = "confirm"
    BY <2>8 DEF Placed, Fields
  <2> HIDE DEF y
  <2>10. /\ ReqTyped' /\ req'[r] = y
         /\ \A q \in Request : q # r => req'[q] = req[q]
    BY <2>7, <2>9, Becomes, Zenon
  <2>11. Waits'
    BY <2>5, <2>9, <2>10, WaitsKept
  <2> QED
    BY <1>1, <2>5, <2>10, <2>11, SameMemory DEF IInv
<1> QED
  BY <1>2, <1>3, <1>4, Zenon DEF confirmPeer

LEMMA NextInv == ASSUME IInv, [Next]_vars PROVE IInv'
<1>1. CASE UNCHANGED vars
  <2>1. UNCHANGED <<raftVars, cache, req, ghost>>
    BY <1>1, Zenon DEF vars
  <2> QED
    BY <2>1, QuietLogs DEF IInv, RaftTyped, GhostTyped, ReqTyped, Waits, waitsFor,
                           CacheKept, LeaderAnswersOwn, raftVars
<1>2. CASE RaftNext
  BY <1>2, ElectionKeeps, ReplicateKeeps, Zenon DEF RaftNext
<1>3. CASE Register
  BY <1>3, RegisterKeeps
<1>4. ASSUME NEW r \in Request,
             \/ refuse(r) \/ timeout(r) \/ processLocalMutate(r)
             \/ processLocalCreate(r) \/ processLocalFillLog(r)
      PROVE  IInv'
  BY <1>4, QuietKeeps
<1>5. ASSUME NEW r \in Request, giveUp(r) \/ Propose(r)
      PROVE  IInv'
  BY <1>5, GiveUpKeeps, ProposeKeeps
<1>6. ASSUME NEW r \in Request,
             \/ forwardMutateToLeader(r) \/ forwardCreateToLeader(r)
             \/ forwardStateToLeader(r) \/ forwardFillLogToLeader(r)
      PROVE  IInv'
  BY <1>6, ForwardKeeps DEF forwardMutateToLeader, forwardCreateToLeader,
                            forwardStateToLeader, forwardFillLogToLeader
<1>7. ASSUME NEW r \in Request,
             \/ mutateApplied(r) \/ turnApplied(r)
             \/ createApplied(r) \/ fillLogApplied(r)
      PROVE  IInv'
  BY <1>7, MutateAppliedKeeps, OthersAppliedKeep
<1>8. ASSUME NEW r \in Request, beginReadIndex(r) \/ finishRead(r)
      PROVE  IInv'
  BY <1>8, BeginReadKeeps, FinishReadKeeps
<1>9. ASSUME NEW r \in Request, NEW m \in Node, NEW a \in BOOLEAN,
             confirmPeer(r, m, a)
      PROVE  IInv'
  BY <1>9, ConfirmKeeps
<1> QED
  BY <1>1, <1>2, <1>3, <1>4, <1>5, <1>6, <1>7, <1>8, <1>9, Zenon DEF Next

LEMMA Invariance == Spec => []IInv
  BY InitInv, NextInv, PTL DEF Spec

\* One request changes; another one stays where it is.
LEMMA OneMoves ==
    ASSUME IInv, NEW q \in Request, NEW r \in Request, NEW y,
           req' = [req EXCEPT ![q] = y], req[r].at = "route",
           q = r => y.at # "propose"
    PROVE  req'[r].at # "propose"
  BY DEF IInv, ReqTyped

LEMMA AnswerEnds ==
    ASSUME IInv, NEW q \in Request, NEW r \in Request, answered(q),
           req[r].at = "route"
    PROVE  req'[r].at # "propose"
<1>1. req' = [req EXCEPT ![q] = idleRequest]
  BY DEF answered
<1> QED
  BY <1>1, IdleFacts, OneMoves

\* A mutation goes from routing to its proposal only after a cache miss.
LEMMA LookedUp ==
    ASSUME IInv, Next, NEW r \in Request, req[r].at = "route",
           req[r].kind = "mutate", req'[r].at = "propose"
    PROVE  req[r].cmd \notin cache[req[r].node].entries
<1>1. ASSUME NEW q \in Request, req[q].at # "route",
             \E y : req' = [req EXCEPT ![q] = y]
      PROVE  FALSE
  BY <1>1, OneMoves
<1>2. ASSUME NEW q \in Request, answered(q) PROVE FALSE
  BY <1>2, AnswerEnds
<1>3. ASSUME RaftNext PROVE FALSE
  <2>1. req' = req
    <3>1. PICK n \in Node, m \in Node :
            \/ \E fate \in {"lost", "served", "answered"} : startElection(n, m, fate)
            \/ replicateToPeer(n, m)
      BY <1>3, Zenon DEF RaftNext
    <3>2. ASSUME NEW fate, startElection(n, m, fate) PROVE req' = req
      BY <3>2 DEF startElection
    <3>3. replicateToPeer(n, m) => req' = req
      BY Zenon DEF replicateToPeer
    <3> QED
      BY <3>1, <3>2, <3>3
  <2> QED
    BY <2>1
<1>4. ASSUME Register PROVE FALSE
  <2>1. PICK q \in Request :
          req[q].at = "idle" /\ \E y : req' = [req EXCEPT ![q] = y]
    BY <1>4, Zenon DEF Register, handleMutate, handleCreate, handleState,
                       handleFillLog, proposeTurn, arrives
  <2> QED
    BY <1>1, <2>1
<1>5. ASSUME NEW q \in Request, refuse(q) \/ timeout(q) \/ finishRead(q)
      PROVE  FALSE
  <2>1. answered(q)
    BY <1>5, Zenon DEF refuse, timeout, finishRead
  <2> QED
    BY <1>2, <2>1
<1>6. ASSUME NEW q \in Request, processLocalCreate(q) \/ processLocalFillLog(q)
      PROVE  FALSE
  <2>1. /\ req[q].kind \in {"create", "fill"}
        /\ \E y : req' = [req EXCEPT ![q] = y]
    BY <1>6, Zenon DEF processLocalCreate, processLocalFillLog, local, become
  <2> QED
    BY <2>1, OneMoves
<1>7. ASSUME NEW q \in Request, processLocalMutate(q)
      PROVE  req[r].cmd \notin cache[req[r].node].entries
  <2>1. CASE answered(q)
    BY <1>2, <2>1
  <2>2. CASE ~Get(req[q].node, req[q].cmd) /\ become(q, "propose")
    <3>1. \E y : req' = [req EXCEPT ![q] = y]
      BY <2>2, Zenon DEF become
    <3>2. q = r
      BY <3>1, OneMoves
    <3> QED
      BY <2>2, <3>2 DEF Get
  <2> QED
    BY <1>7, <2>1, <2>2, Zenon DEF processLocalMutate
<1>8. ASSUME NEW q \in Request, NEW f, Fields(f), f.at # "propose",
             \/ \E a, b : req' = [req EXCEPT ![q] = [f EXCEPT !.node = a, !.hops = b]]
             \/ req' = [req EXCEPT ![q] = [f EXCEPT !.heard = FALSE]]
             \/ \E a, b : req' = [req EXCEPT ![q] = [f EXCEPT
                    !.at = "confirm", !.index = a, !.term = b]]
      PROVE  FALSE
  <2>1. CASE \E a, b : req' = [req EXCEPT ![q] = [f EXCEPT !.node = a, !.hops = b]]
    <3>1. PICK a, b : req' = [req EXCEPT ![q] = [f EXCEPT !.node = a, !.hops = b]]
      BY <2>1
    <3>2. [f EXCEPT !.node = a, !.hops = b].at = f.at
      BY <1>8 DEF Fields
    <3> QED
      BY <1>8, <3>1, <3>2, OneMoves
  <2>2. CASE req' = [req EXCEPT ![q] = [f EXCEPT !.heard = FALSE]]
    <3>1. [f EXCEPT !.heard = FALSE].at = f.at
      BY <1>8 DEF Fields
    <3> QED
      BY <1>8, <2>2, <3>1, OneMoves
  <2>3. CASE \E a, b : req' = [req EXCEPT ![q] = [f EXCEPT
                    !.at = "confirm", !.index = a, !.term = b]]
    <3>1. PICK a, b : req' = [req EXCEPT ![q] = [f EXCEPT
                    !.at = "confirm", !.index = a, !.term = b]]
      BY <2>3
    <3>2. [f EXCEPT !.at = "confirm", !.index = a, !.term = b].at
             = "confirm"
      BY <1>8 DEF Fields
    <3> QED
      BY <3>1, <3>2, OneMoves
  <2> QED
    BY <1>8, <2>1, <2>2, <2>3
<1>9. \A q \in Request : Fields(req[q])
  BY DEF IInv, ReqTyped, Placed
<1>10. ASSUME NEW q \in Request,
              \/ forwardMutateToLeader(q) \/ forwardCreateToLeader(q)
              \/ forwardStateToLeader(q) \/ forwardFillLogToLeader(q)
       PROVE  FALSE
  <2>0. PICK kind : forward(q, kind)
    BY <1>10 DEF forwardMutateToLeader, forwardCreateToLeader,
                 forwardStateToLeader, forwardFillLogToLeader
  <2>1. PICK f, a, b : /\ f = req[q] /\ a = knownLeader[req[q].node]
                       /\ b = req[q].hops + 1
    OBVIOUS
  <2>2. /\ req[q].at = "route"
        /\ \/ answered(q)
           \/ req' = [req EXCEPT ![q].node = knownLeader[req[q].node],
                                 ![q].hops = req[q].hops + 1]
    BY <2>0, Zenon DEF forward, LeaderEndpoint
  <2>3. CASE req' = [req EXCEPT ![q].node = knownLeader[req[q].node],
                                ![q].hops = req[q].hops + 1]
    <3>1. req' = [req EXCEPT ![q] = [f EXCEPT !.node = a, !.hops = b]]
      BY <2>1, <2>3, Zenon
    <3>2. Fields(f) /\ f.at # "propose"
      BY <1>9, <2>1, <2>2
    <3> QED
      BY <1>8, <3>1, <3>2
  <2> QED
    BY <1>2, <2>2, <2>3
<1>11. ASSUME NEW q \in Request, giveUp(q) PROVE FALSE
  <2>1. req' = [req EXCEPT ![q] = [req[q] EXCEPT !.heard = FALSE]]
    BY <1>11, Zenon DEF giveUp
  <2>2. PICK f : f = req[q]
    OBVIOUS
  <2>3. CASE req[q].at = "propose"
    BY <1>1, <2>1, <2>3
  <2> QED
    BY <1>8, <1>9, <2>1, <2>2, <2>3
<1>12. ASSUME NEW q \in Request, beginReadIndex(q) PROVE FALSE
  <2>1. /\ req[q].at = "route"
        /\ \E a, b : req' = [req EXCEPT ![q] = [req[q] EXCEPT
                    !.at = "confirm", !.index = a, !.term = b]]
    BY <1>12, Zenon DEF beginReadIndex
  <2>2. PICK f : f = req[q]
    OBVIOUS
  <2> QED
    BY <1>8, <1>9, <2>1, <2>2
<1>13. ASSUME NEW q \in Request, \/ Propose(q) \/ mutateApplied(q) \/ turnApplied(q)
                                 \/ createApplied(q) \/ fillLogApplied(q)
       PROVE  FALSE
  <2>1. CASE Propose(q)
    <3>1. PICK f, a, b : f = req[q] /\ a = term[req[q].node]
                         /\ b = proposedIndex(req[q].node)
      OBVIOUS
    <3>2. /\ req[q].at = "propose"
          /\ \/ answered(q)
             \/ req' = [req EXCEPT ![q].at = "wait", ![q].term = term[req[q].node],
                                   ![q].index = proposedIndex(req[q].node)]
      BY <2>1, Zenon DEF Propose
    <3>3. CASE req' = [req EXCEPT ![q].at = "wait", ![q].term = term[req[q].node],
                                  ![q].index = proposedIndex(req[q].node)]
      <4>1. req' = [req EXCEPT ![q] = [f EXCEPT !.at = "wait", !.term = a,
                                                 !.index = b]]
        BY <3>1, <3>3, Zenon
      <4> QED
        BY <1>1, <3>2, <4>1
    <3> QED
      BY <1>2, <3>2, <3>3
  <2>2. CASE mutateApplied(q) \/ turnApplied(q) \/ createApplied(q)
    <3>1. answered(q)
      BY <2>2, Zenon DEF mutateApplied, turnApplied, createApplied
    <3> QED
      BY <1>2, <3>1
  <2>3. CASE fillLogApplied(q)
    <3>1. /\ req[q].at = "wait"
          /\ answered(q) \/ \E y : req' = [req EXCEPT ![q] = y]
      BY <2>3, Zenon DEF fillLogApplied, applied
    <3> QED
      BY <1>1, <1>2, <3>1
  <2> QED
    BY <1>13, <2>1, <2>2, <2>3
<1>14. ASSUME NEW q \in Request, NEW m \in Node, NEW a \in BOOLEAN,
              confirmPeer(q, m, a)
       PROVE  FALSE
  <2>1. /\ req[q].at = "confirm"
        /\ req' = req \/ \E y : req' = [req EXCEPT ![q] = y]
    BY <1>14, Zenon DEF confirmPeer
  <2> QED
    BY <1>1, <2>1
<1> QED
  BY <1>3, <1>4, <1>5, <1>6, <1>7, <1>10, <1>11, <1>12, <1>13, <1>14, Zenon
     DEF Next

-----------------------------------------------------------------------------
(* Theorems *)

\* A node that has led since it proposed answers every request with the
\* result of its own command, although it waits for an index only: its log
\* only grows while it leads, and agrees with what it has applied
\* (ProposeAndWaitTimeout).
THEOREM OwnAnswers == Spec => []LeaderAnswersOwn
<1>1. IInv => LeaderAnswersOwn
  BY DEF IInv
<1> QED
  BY <1>1, Invariance, PTL

\* What a client was told is done is in the log of whoever leads, although
\* calls that come late cut the log of the peer (ProposeAndWaitTimeout,
\* AppendEntries).
THEOREM AcksSurvive == Spec => []AckedKept
<1>1. IInv => AckedKept
  <2> SUFFICES ASSUME IInv, NEW n \in Node, NEW a \in ghost.acked, leads[n]
               PROVE  a[1] <= Len(log[n]) /\ log[n][a[1]].cmd = a[2]
    BY DEF AckedKept
  <2>1. a[1] \in 1..Len(log[n]) /\ log[n][a[1]].cmd = a[2]
    BY DEF IInv, LogKept, Whole
  <2> QED
    BY <2>1, LogTyped
<1> QED
  BY <1>1, Invariance, PTL

\* A mutation is proposed only if its key is not among the last CacheCap that
\* its node has put into the idempotency cache (processLocalMutate,
\* SessionCache).
THEOREM RetriesReplay == Spec => RetryReplayed
<1> DEFINE fresh(r) ==
             (req[r].at = "route" /\ req[r].kind = "mutate" /\ req'[r].at = "propose")
             => req[r].cmd \notin recent(req[r].node)
<1>1. ASSUME IInv, [Next]_vars, NEW r \in Request PROVE fresh(r)
  <2> SUFFICES ASSUME req[r].at = "route", req[r].kind = "mutate",
                      req'[r].at = "propose"
               PROVE  req[r].cmd \notin recent(req[r].node)
    OBVIOUS
  <2>1. CASE UNCHANGED vars
    <3>1. req' = req
      BY <2>1, Zenon DEF vars
    <3> QED
      BY <3>1
  <2>2. CASE Next
    <3>1. req[r].cmd \notin cache[req[r].node].entries
      BY <1>1, <2>2, LookedUp
    <3>2. req[r].node \in Node
      BY <1>1 DEF IInv, ReqTyped, Placed
    <3> QED
      BY <1>1, <3>1, <3>2, RecentIsKept
  <2> QED
    BY <1>1, <2>1, <2>2
<1>2. IInv /\ [Next]_vars => \A r \in Request : fresh(r)
  BY <1>1
<1> QED
  BY <1>2, Invariance, PTL DEF Spec, RetryReplayed
=============================================================================
