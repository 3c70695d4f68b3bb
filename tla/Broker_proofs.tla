---------------------------- MODULE Broker_proofs ----------------------------
(***************************************************************************)
(* What the broker and its worker pools keep for any number of publishers, *)
(* subscriptions, workers and events, and buffers of any size; above all   *)
(* that they implement EventDelivery.                                      *)
(***************************************************************************)
EXTENDS Broker, SequenceTheorems, FiniteSetTheorems, TLAPS

Chan == [open : BOOLEAN, queue : Seq(Event)]
PublisherState == [at : {"idle", "checked", "sending"}, n : 0..MaxEvents,
                   targets : Seq(Sub)]
GhostState == [offered : [Event -> SUBSET Sub], taken : [Sub -> SUBSET Event]]

Typed ==
    /\ publish \in [Publisher -> PublisherState]
    /\ subscribers \in Seq(Sub)
    /\ events \in [Sub -> Chan]
    /\ jobs \in [Sub -> Chan]
    /\ janitor \in [Sub -> {"none", "waiting", "removed", "ended"}]
    /\ dispatcher \in [Sub -> {"none", "ready", "holding", "ended"}]
    /\ held \in [Sub -> Event \cup {None}]
    /\ main \in {"up", "workers", "raft", "down"}
    /\ retention \in [Event -> Nat]
    /\ ghost \in GhostState

\* The goroutines of a pool start together, and only a dispatcher between its
\* two selects has an event in its hands.
PoolShape ==
    \A s \in Sub :
        /\ dispatcher[s] = "none" <=> janitor[s] = "none"
        /\ held[s] # None <=> dispatcher[s] = "holding"

\* A subscription in the map has not been cancelled, and its channel is open;
\* so is that of a pool that has not started.
Registered ==
    /\ \A i \in DOMAIN subscribers :
          /\ events[subscribers[i]].open
          /\ janitor[subscribers[i]] = "waiting"
    /\ \A s \in Sub : janitor[s] = "none" => events[s].open

\* Nothing is closed and nothing has panicked before the teardown.
UpOpen ==
    main = "up" =>
        /\ panic = "none"
        /\ \A s \in Sub : /\ events[s].open /\ jobs[s].open
                          /\ janitor[s] \in {"none", "waiting"}

distinct(q) == \A i, j \in DOMAIN q : q[i] = q[j] => i = j

\* No subscription is listed twice, in the map or among the targets of an
\* event under way.
ListedOnce ==
    /\ distinct(subscribers)
    /\ \A p \in Publisher :
          /\ distinct(publish[p].targets)
          /\ publish[p].at = "sending" => publish[p].targets # << >>
          /\ publish[p].at # "idle" => publish[p].n > 0

\* Pool s has event e, or had it.
seen(s, e) ==
    \/ e \in ghost.taken[s]
    \/ e = held[s]
    \/ \E i \in DOMAIN jobs[s].queue : jobs[s].queue[i] = e
    \/ \E i \in DOMAIN events[s].queue : events[s].queue[i] = e

\* p has yet to offer its k-th event to s.
ahead(p, k, s) ==
    \/ k > publish[p].n
    \/ k = publish[p].n /\ publish[p].at = "checked"
    \/ /\ k = publish[p].n /\ publish[p].at = "sending"
       /\ \E i \in DOMAIN publish[p].targets : publish[p].targets[i] = s

\* No pool has an event that is yet to be offered to it.
NotYetSeen ==
    \A p \in Publisher, k \in 1..MaxEvents, s \in Sub :
        ahead(p, k, s) => ~seen(s, <<p, k>>)

IInv == /\ Typed /\ PoolShape /\ Registered /\ UpOpen /\ ListedOnce
        /\ NotYetSeen

-----------------------------------------------------------------------------
(* Sequences *)

LEMMA TailFacts ==
    ASSUME NEW S, NEW q \in Seq(S), q # << >>
    PROVE  /\ Tail(q) \in Seq(S) /\ Head(q) \in S
           /\ Head(q) = q[1] /\ 1 \in DOMAIN q
           /\ \A i \in DOMAIN Tail(q) : i + 1 \in DOMAIN q /\ Tail(q)[i] = q[i + 1]
           /\ Len(Tail(q)) = Len(q) - 1
  OBVIOUS

LEMMA AppendFacts ==
    ASSUME NEW S, NEW q \in Seq(S), NEW e \in S
    PROVE  /\ Append(q, e) \in Seq(S)
           /\ DOMAIN Append(q, e) = 1..(Len(q) + 1) /\ DOMAIN q = 1..Len(q)
           /\ \A i \in DOMAIN q : Append(q, e)[i] = q[i]
           /\ Append(q, e)[Len(q) + 1] = e
           /\ Len(q) \in Nat /\ Len(Append(q, e)) = Len(q) + 1
  OBVIOUS

LEMMA DistinctTail ==
    ASSUME NEW S, NEW q \in Seq(S), q # << >>, distinct(q)
    PROVE  /\ distinct(Tail(q))
           /\ \A i \in DOMAIN Tail(q) : Tail(q)[i] # Head(q)
<1>1. \A i \in DOMAIN Tail(q) : i \in Nat /\ i # 0
  OBVIOUS
<1> QED
  BY <1>1, TailFacts DEF distinct

LEMMA DistinctAppend ==
    ASSUME NEW S, NEW q \in Seq(S), NEW e \in S, distinct(q),
           \A i \in DOMAIN q : q[i] # e
    PROVE  distinct(Append(q, e))
  BY AppendFacts DEF distinct

\* What is left when position i is cut out.
LEMMA CutFacts ==
    ASSUME NEW S, NEW q \in Seq(S), NEW i \in 1..Len(q)
    PROVE  LET r == SubSeq(q, 1, i - 1) \o SubSeq(q, i + 1, Len(q)) IN
           /\ r \in Seq(S)
           /\ DOMAIN r = 1..(Len(q) - 1) /\ DOMAIN q = 1..Len(q)
           /\ \A j \in DOMAIN r : /\ j < i => r[j] = q[j]
                                  /\ j >= i => r[j] = q[j + 1]
<1> DEFINE a == SubSeq(q, 1, i - 1)
           b == SubSeq(q, i + 1, Len(q))
           r == a \o b
<1>1. DOMAIN q = 1..Len(q) /\ Len(q) \in Nat
  OBVIOUS
<1>2. /\ a \in Seq(S) /\ Len(a) = i - 1
      /\ \A j \in 1..(i - 1) : a[j] = q[j]
  <2>1. \A j \in 1..(i - 1) : q[j] \in S
    BY <1>1
  <2>2. /\ a \in Seq(S) /\ Len(a) = IF 1 <= i - 1 THEN (i - 1) - 1 + 1 ELSE 0
        /\ \A j \in 1..((i - 1) - 1 + 1) : a[j] = q[1 + j - 1]
    BY <1>1, <2>1, SubSeqProperties
  <2> HIDE DEF a
  <2> QED
    BY <1>1, <2>2
<1>3. /\ b \in Seq(S) /\ Len(b) = Len(q) - i
      /\ \A j \in 1..(Len(q) - i) : b[j] = q[i + j]
  <2>1. \A j \in (i + 1)..Len(q) : q[j] \in S
    BY <1>1
  <2>2. /\ b \in Seq(S)
        /\ \A j \in 1..(Len(q) - (i + 1) + 1) : b[j] = q[(i + 1) + j - 1]
    BY <1>1, <2>1, SubSeqProperties
  <2>a. Len(b) = IF i + 1 <= Len(q) THEN Len(q) - (i + 1) + 1 ELSE 0
    BY <1>1, <2>1, SubSeqProperties
  <2> HIDE DEF b
  <2>b. i \in Int /\ 1 <= i /\ i <= Len(q) /\ Len(q) \in Int
    BY <1>1
  <2>3. Len(b) = Len(q) - i
    BY ONLY <2>a, <2>b
  <2>4. ASSUME NEW j \in 1..(Len(q) - i) PROVE b[j] = q[i + j]
    <3>1. j \in 1..(Len(q) - (i + 1) + 1) /\ (i + 1) + j - 1 = i + j
      BY <1>1
    <3> QED
      BY <2>2, <3>1
  <2> QED
    BY <2>2, <2>3, <2>4
<1> HIDE DEF a, b
<1>4. /\ r \in Seq(S) /\ Len(r) = Len(a) + Len(b)
      /\ \A j \in 1..Len(a) + Len(b) :
            r[j] = IF j <= Len(a) THEN a[j] ELSE b[j - Len(a)]
  BY <1>2, <1>3, ConcatProperties, Zenon
<1> HIDE DEF r
<1>5. DOMAIN r = 1..(Len(q) - 1)
  <2>1. Len(r) = Len(q) - 1
    BY <1>1, <1>2, <1>3, <1>4
  <2>2. DOMAIN r = 1..Len(r)
    BY <1>4
  <2> QED
    BY <2>1, <2>2
<1>6. ASSUME NEW j \in DOMAIN r, j < i PROVE r[j] = q[j]
  <2>1. j \in 1..(i - 1) /\ j \in 1..Len(a) + Len(b) /\ j <= Len(a)
    BY <1>1, <1>2, <1>3, <1>5, <1>6
  <2> QED
    BY <1>2, <1>4, <2>1
<1>7. ASSUME NEW j \in DOMAIN r, j >= i PROVE r[j] = q[j + 1]
  <2>0. j \in Int /\ i \in Int /\ Len(q) \in Int /\ i <= j /\ j <= Len(q) - 1
        /\ 1 <= i /\ Len(a) = i - 1 /\ Len(b) = Len(q) - i
    BY <1>1, <1>2, <1>3, <1>5, <1>7
  <2>1. /\ j \in 1..Len(a) + Len(b) /\ ~(j <= Len(a)) /\ j - Len(a) = j - i + 1
        /\ j - i + 1 \in 1..(Len(q) - i) /\ i + (j - i + 1) = j + 1
    BY ONLY <2>0
  <2>2. r[j] = b[j - i + 1]
    BY <1>4, <2>1
  <2>3. b[j - i + 1] = q[i + (j - i + 1)]
    BY <1>3, <2>1
  <2> QED
    BY <2>1, <2>2, <2>3
<1> QED
  BY <1>1, <1>4, <1>5, <1>6, <1>7 DEF r, a, b
LEMMA DistinctCut ==
    ASSUME NEW S, NEW q \in Seq(S), NEW i \in 1..Len(q), distinct(q)
    PROVE  LET r == SubSeq(q, 1, i - 1) \o SubSeq(q, i + 1, Len(q)) IN
           /\ r \in Seq(S)
           /\ distinct(r)
           /\ \A j \in DOMAIN r : r[j] # q[i] /\ \E k \in DOMAIN q : r[j] = q[k]
<1> DEFINE r == SubSeq(q, 1, i - 1) \o SubSeq(q, i + 1, Len(q))
           at(j) == IF j < i THEN j ELSE j + 1
<1>0. /\ r \in Seq(S)
      /\ DOMAIN r = 1..(Len(q) - 1) /\ DOMAIN q = 1..Len(q)
      /\ \A j \in DOMAIN r : /\ j < i => r[j] = q[j]
                             /\ j >= i => r[j] = q[j + 1]
  BY CutFacts, Zenon
<1> HIDE DEF r
<1>1. \A j \in DOMAIN r : at(j) \in DOMAIN q /\ at(j) # i
  BY <1>0
<1>2. \A j \in DOMAIN r : r[j] = q[at(j)]
  BY <1>0
<1>3. \A j, k \in DOMAIN r : at(j) = at(k) => j = k
  BY <1>0
<1>4. i \in DOMAIN q
  OBVIOUS
<1> HIDE DEF at
<1>5. ASSUME NEW j \in DOMAIN r, NEW k \in DOMAIN r, r[j] = r[k] PROVE j = k
  <2>1. q[at(j)] = q[at(k)]
    BY <1>2, <1>5, Zenon
  <2> QED
    BY <1>1, <1>3, <2>1, Zenon DEF distinct
<1>6. ASSUME NEW j \in DOMAIN r
      PROVE  r[j] # q[i] /\ \E k \in DOMAIN q : r[j] = q[k]
  <2>1. r[j] = q[at(j)] /\ at(j) \in DOMAIN q /\ at(j) # i
    BY <1>1, <1>2, Zenon
  <2> QED
    BY <1>4, <2>1, Zenon DEF distinct
<1>7. distinct(r)
  BY <1>5, Zenon DEF distinct
<1> QED
  BY <1>0, <1>6, <1>7, Zenon DEF r

-----------------------------------------------------------------------------
(* Channels *)

withQueue(f, s, q) == [f EXCEPT ![s].queue = q]
withClosed(f, s) == [f EXCEPT ![s].open = FALSE]

LEMMA QueueUpdate ==
    ASSUME NEW f \in [Sub -> Chan], NEW s \in Sub, NEW q \in Seq(Event)
    PROVE  LET g == withQueue(f, s, q) IN
           /\ g \in [Sub -> Chan]
           /\ g[s].queue = q /\ g[s].open = f[s].open
           /\ \A t \in Sub : t # s => g[t] = f[t]
           /\ \A t \in Sub : g[t].open = f[t].open
<1> DEFINE g == withQueue(f, s, q)
           r == [f[s] EXCEPT !.queue = q]
<1>1. r \in Chan /\ r.queue = q /\ r.open = f[s].open
  BY DEF Chan
<1>2. g = [f EXCEPT ![s] = r]
  BY Zenon DEF withQueue, withClosed
<1> HIDE DEF r, g
<1>3. /\ g \in [Sub -> Chan] /\ g[s] = r
      /\ \A t \in Sub : t # s => g[t] = f[t]
  BY <1>1, <1>2
<1> QED
  BY <1>1, <1>3 DEF g

LEMMA CloseUpdate ==
    ASSUME NEW f \in [Sub -> Chan], NEW s \in Sub
    PROVE  LET g == withClosed(f, s) IN
           /\ g \in [Sub -> Chan]
           /\ ~g[s].open
           /\ \A t \in Sub : t # s => g[t] = f[t]
           /\ \A t \in Sub : g[t].queue = f[t].queue
<1> DEFINE g == withClosed(f, s)
           r == [f[s] EXCEPT !.open = FALSE]
<1>1. r \in Chan /\ r.queue = f[s].queue /\ r.open = FALSE
  BY DEF Chan
<1>2. g = [f EXCEPT ![s] = r]
  BY Zenon DEF withQueue, withClosed
<1> HIDE DEF r, g
<1>3. /\ g \in [Sub -> Chan] /\ g[s] = r
      /\ \A t \in Sub : t # s => g[t] = f[t]
  BY <1>1, <1>2
<1> QED
  BY <1>1, <1>3 DEF g

LEMMA EventsUpdate ==
    ASSUME events \in [Sub -> Chan], NEW s \in Sub, NEW q \in Seq(Event),
           events' = [events EXCEPT ![s].queue = q]
    PROVE  /\ events' \in [Sub -> Chan] /\ events'[s].queue = q
           /\ \A t \in Sub : t # s => events'[t] = events[t]
           /\ \A t \in Sub : events'[t].open = events[t].open
<1>1. events' = withQueue(events, s, q)
  BY Zenon DEF withQueue
<1>0. events \in [Sub -> Chan] /\ s \in Sub /\ q \in Seq(Event)
  OBVIOUS
<1>2. LET g == withQueue(events, s, q) IN
      /\ g \in [Sub -> Chan]
      /\ g[s].queue = q /\ g[s].open = events[s].open
      /\ \A t \in Sub : t # s => g[t] = events[t]
      /\ \A t \in Sub : g[t].open = events[t].open
  BY ONLY <1>0, QueueUpdate, ZenonT(60)
<1> QED
  BY ONLY <1>1, <1>2, Zenon

LEMMA JobsUpdate ==
    ASSUME jobs \in [Sub -> Chan], NEW s \in Sub, NEW q \in Seq(Event),
           jobs' = [jobs EXCEPT ![s].queue = q]
    PROVE  /\ jobs' \in [Sub -> Chan] /\ jobs'[s].queue = q
           /\ \A t \in Sub : t # s => jobs'[t] = jobs[t]
           /\ \A t \in Sub : jobs'[t].open = jobs[t].open
<1>1. jobs' = withQueue(jobs, s, q)
  BY Zenon DEF withQueue
<1>0. jobs \in [Sub -> Chan] /\ s \in Sub /\ q \in Seq(Event)
  OBVIOUS
<1>2. LET g == withQueue(jobs, s, q) IN
      /\ g \in [Sub -> Chan]
      /\ g[s].queue = q /\ g[s].open = jobs[s].open
      /\ \A t \in Sub : t # s => g[t] = jobs[t]
      /\ \A t \in Sub : g[t].open = jobs[t].open
  BY ONLY <1>0, QueueUpdate, ZenonT(60)
<1> QED
  BY ONLY <1>1, <1>2, Zenon

LEMMA EventsClose ==
    ASSUME events \in [Sub -> Chan], NEW s \in Sub,
           events' = [events EXCEPT ![s].open = FALSE]
    PROVE  /\ events' \in [Sub -> Chan]
           /\ \A t \in Sub : t # s => events'[t] = events[t]
           /\ \A t \in Sub : events'[t].queue = events[t].queue
<1>1. events' = withClosed(events, s)
  BY Zenon DEF withClosed
<1>2. LET g == withClosed(events, s) IN
      /\ g \in [Sub -> Chan] /\ ~g[s].open
      /\ \A t \in Sub : t # s => g[t] = events[t]
      /\ \A t \in Sub : g[t].queue = events[t].queue
  BY CloseUpdate, Zenon
<1> QED
  BY ONLY <1>1, <1>2, Zenon

LEMMA JobsClose ==
    ASSUME jobs \in [Sub -> Chan], NEW s \in Sub,
           jobs' = [jobs EXCEPT ![s].open = FALSE]
    PROVE  /\ jobs' \in [Sub -> Chan]
           /\ \A t \in Sub : t # s => jobs'[t] = jobs[t]
           /\ \A t \in Sub : jobs'[t].queue = jobs[t].queue
<1>1. jobs' = withClosed(jobs, s)
  BY Zenon DEF withClosed
<1>2. LET g == withClosed(jobs, s) IN
      /\ g \in [Sub -> Chan] /\ ~g[s].open
      /\ \A t \in Sub : t # s => g[t] = jobs[t]
      /\ \A t \in Sub : g[t].queue = jobs[t].queue
  BY CloseUpdate, Zenon
<1> QED
  BY ONLY <1>1, <1>2, Zenon

-----------------------------------------------------------------------------
(* The inductive invariant *)

LEMMA InitInv == Init => IInv
<1> SUFFICES ASSUME Init PROVE IInv
  OBVIOUS
<1>1. /\ subscribers = << >> /\ main = "up" /\ panic = "none"
      /\ \A s \in Sub : /\ events[s].open /\ events[s].queue = << >>
                        /\ jobs[s].open /\ jobs[s].queue = << >>
                        /\ janitor[s] = "none" /\ dispatcher[s] = "none"
                        /\ held[s] = None /\ ghost.taken[s] = {}
      /\ \A p \in Publisher : /\ publish[p].at = "idle" /\ publish[p].n = 0
                              /\ publish[p].targets = << >>
  BY DEF Init
<1>2. Typed
  <2>1. events \in [Sub -> Chan] /\ jobs \in [Sub -> Chan]
    BY DEF Init, Chan
  <2>2. publish \in [Publisher -> PublisherState]
    BY BrokerAssumption DEF Init, PublisherState
  <2>3. ghost \in GhostState
    BY DEF Init, GhostState
  <2> QED
    BY <2>1, <2>2, <2>3 DEF Init, Typed
<1>3. PoolShape /\ Registered /\ UpOpen
  BY <1>1 DEF PoolShape, Registered, UpOpen
<1>4. ListedOnce
  BY <1>1 DEF ListedOnce, distinct
<1>5. NotYetSeen
  <2>1. \A p \in Publisher, k \in 1..MaxEvents : <<p, k>> # None
    BY BrokerAssumption
  <2> QED
    BY <1>1, <2>1 DEF NotYetSeen, seen
<1> QED
  BY <1>2, <1>3, <1>4, <1>5 DEF IInv

\* What a step of a publisher changes, when it neither sends nor panics.
LEMMA PublisherMoves ==
    ASSUME IInv, NEW p \in Publisher,
           UNCHANGED <<subscribers, events, janitor, jobs, dispatcher, held,
                       main, ghost>>,
           retention' \in [Event -> Nat],
           panic' = panic \/ main # "up",
           NEW r \in PublisherState, publish' = [publish EXCEPT ![p] = r],
           distinct(r.targets),
           r.at = "sending" => r.targets # << >>,
           r.at # "idle" => r.n > 0,
           \A k \in 1..MaxEvents, s \in Sub : ahead(p, k, s)' => ahead(p, k, s)
    PROVE  IInv'
<1>t. publish \in [Publisher -> PublisherState]
  BY DEF IInv, Typed
<1>0. /\ publish' \in [Publisher -> PublisherState]
      /\ publish'[p] = r /\ \A q \in Publisher : q # p => publish'[q] = publish[q]
  BY <1>t
<1>1. Typed'
  BY <1>0 DEF IInv, Typed
<1>2. PoolShape' /\ Registered' /\ UpOpen'
  BY DEF IInv, PoolShape, Registered, UpOpen
<1>3. ListedOnce'
  <2>1. distinct(subscribers)'
    BY DEF IInv, ListedOnce, distinct
  <2>2. ASSUME NEW q \in Publisher
        PROVE  /\ distinct(publish'[q].targets)
               /\ publish'[q].at = "sending" => publish'[q].targets # << >>
               /\ publish'[q].at # "idle" => publish'[q].n > 0
    BY <1>0 DEF IInv, ListedOnce
  <2>3. \A q \in Publisher :
            distinct(publish[q].targets)' <=> distinct(publish'[q].targets)
    BY Zenon DEF distinct
  <2> QED
    BY <2>1, <2>2, <2>3 DEF ListedOnce
<1>4. NotYetSeen'
  <2>1. ASSUME NEW q \in Publisher, NEW k \in 1..MaxEvents, NEW s \in Sub,
               ahead(q, k, s)'
        PROVE  ahead(q, k, s)
    BY <1>0, <2>1 DEF ahead
  <2>2. \A s \in Sub, q \in Publisher, k \in 1..MaxEvents :
            seen(s, <<q, k>>)' => seen(s, <<q, k>>)
    BY DEF seen
  <2> QED
    BY <2>1, <2>2, Zenon DEF IInv, NotYetSeen
<1> QED
  BY <1>1, <1>2, <1>3, <1>4 DEF IInv

LEMMA CheckKeeps ==
    ASSUME IInv, NEW p \in Publisher, PublishCheck(p)
    PROVE  IInv'
<1> DEFINE r == [at |-> IF closed THEN "idle" ELSE "checked",
                 n |-> publish[p].n + 1, targets |-> << >>]
<1>1. /\ publish[p].n \in 0..MaxEvents /\ publish[p].n < MaxEvents
      /\ publish[p].at = "idle"
  BY DEF IInv, Typed, PublisherState, PublishCheck
<1>2. /\ r \in PublisherState /\ r.targets = << >> /\ r.n = publish[p].n + 1
      /\ r.at \in {"idle", "checked"} /\ r.n > 0
  BY <1>1, BrokerAssumption DEF PublisherState
<1>3. /\ publish' = [publish EXCEPT ![p] = r]
      /\ UNCHANGED <<subscribers, events, janitor, jobs, dispatcher, held,
                     main, ghost>>
      /\ retention' = retention /\ panic' = panic
  BY Zenon DEF PublishCheck, poolVars
<1> HIDE DEF r
<1>4. publish'[p] = r
  BY <1>3 DEF IInv, Typed
<1>5. ASSUME NEW k \in 1..MaxEvents, NEW s \in Sub, ahead(p, k, s)'
      PROVE  ahead(p, k, s)
  BY <1>1, <1>2, <1>4, <1>5 DEF ahead
<1>6. distinct(r.targets)
  BY <1>2 DEF distinct
<1>7. retention' \in [Event -> Nat]
  BY <1>3 DEF IInv, Typed
<1> QED
  BY <1>2, <1>3, <1>5, <1>6, <1>7, PublisherMoves

\* The record of a publisher that goes on with the given targets.
LEMMA SendingFacts ==
    ASSUME IInv, NEW p \in Publisher, NEW q \in Seq(Sub), sending(p, q)
    PROVE  \E r \in PublisherState :
              /\ publish' = [publish EXCEPT ![p] = r] /\ publish'[p] = r
              /\ r.targets = q /\ r.n = publish[p].n
              /\ r.at = IF q = << >> THEN "idle" ELSE "sending"
<1> DEFINE r == [at |-> IF q = << >> THEN "idle" ELSE "sending",
                 n |-> publish[p].n, targets |-> q]
<1>1. publish[p].n \in 0..MaxEvents
  BY DEF IInv, Typed, PublisherState
<1>2. /\ r \in PublisherState /\ r.targets = q /\ r.n = publish[p].n
      /\ r.at = IF q = << >> THEN "idle" ELSE "sending"
  BY <1>1 DEF PublisherState
<1>3. publish' = [publish EXCEPT ![p] = r]
  BY Zenon DEF sending
<1> HIDE DEF r
<1>4. publish'[p] = r
  BY <1>3 DEF IInv, Typed
<1> QED
  BY <1>2, <1>3, <1>4

LEMMA CopyKeeps ==
    ASSUME IInv, NEW p \in Publisher, PublishCopy(p)
    PROVE  IInv'
<1>1. /\ publish[p].n \in 0..MaxEvents /\ publish[p].n > 0
      /\ publish[p].at = "checked" /\ subscribers \in Seq(Sub)
  BY DEF IInv, Typed, PublisherState, PublishCopy, ListedOnce
<1>2. PICK r \in PublisherState :
         /\ publish' = [publish EXCEPT ![p] = r] /\ publish'[p] = r
         /\ r.targets = subscribers /\ r.n = publish[p].n
         /\ r.at = IF subscribers = << >> THEN "idle" ELSE "sending"
  BY <1>1, SendingFacts DEF PublishCopy
<1>3. /\ UNCHANGED <<subscribers, events, janitor, jobs, dispatcher, held,
                     main, ghost>>
      /\ retention' = retention /\ panic' = panic
  BY Zenon DEF PublishCopy, poolVars
<1>5. ASSUME NEW k \in 1..MaxEvents, NEW s \in Sub, ahead(p, k, s)'
      PROVE  ahead(p, k, s)
  BY <1>1, <1>2, <1>5 DEF ahead
<1>6. distinct(r.targets)
  BY <1>2 DEF IInv, ListedOnce
<1>7. retention' \in [Event -> Nat]
  BY <1>3 DEF IInv, Typed
<1>8. (r.at = "sending" => r.targets # << >>) /\ r.n > 0
  BY <1>1, <1>2
<1> QED
  BY <1>2, <1>3, <1>5, <1>6, <1>7, <1>8, PublisherMoves

\* A publisher that sends has a target and an event.
LEMMA SendFacts ==
    ASSUME IInv, NEW p \in Publisher, publish[p].at = "sending"
    PROVE  /\ publish[p].targets \in Seq(Sub) /\ publish[p].targets # << >>
           /\ Head(publish[p].targets) \in Sub
           /\ Tail(publish[p].targets) \in Seq(Sub)
           /\ distinct(Tail(publish[p].targets))
           /\ publish[p].n \in 1..MaxEvents
           /\ <<p, publish[p].n>> \in Event
           /\ ahead(p, publish[p].n, Head(publish[p].targets))
           /\ \A i \in DOMAIN Tail(publish[p].targets) :
                 /\ Tail(publish[p].targets)[i] # Head(publish[p].targets)
                 /\ \E j \in DOMAIN publish[p].targets :
                       Tail(publish[p].targets)[i] = publish[p].targets[j]
<1> DEFINE q == publish[p].targets
<1>1. q \in Seq(Sub) /\ q # << >> /\ distinct(q)
      /\ publish[p].n \in 0..MaxEvents /\ publish[p].n > 0
  BY DEF IInv, Typed, PublisherState, ListedOnce
<1>2. publish[p].n \in 1..MaxEvents
  BY <1>1
<1>3. <<p, publish[p].n>> \in Event
  BY <1>2 DEF Event
<1> HIDE DEF q
<1>4. /\ Head(q) \in Sub /\ Tail(q) \in Seq(Sub) /\ distinct(Tail(q))
      /\ \A i \in DOMAIN Tail(q) :
            Tail(q)[i] # Head(q) /\ \E j \in DOMAIN q : Tail(q)[i] = q[j]
      /\ \E j \in DOMAIN q : q[j] = Head(q)
  BY <1>1, TailFacts, DistinctTail
<1>5. ahead(p, publish[p].n, Head(q))
  BY <1>4 DEF ahead, q
<1> QED
  BY <1>1, <1>2, <1>3, <1>4, <1>5 DEF q

\* Offering an event is noted, and leaves what was started alone.
LEMMA OfferedFacts ==
    ASSUME IInv, NEW p \in Publisher, publish[p].at = "sending",
           ghost' = offered(p)
    PROVE  ghost' \in GhostState /\ ghost'.taken = ghost.taken
<1> DEFINE e == <<p, publish[p].n>>
           s == Head(publish[p].targets)
           o == [ghost.offered EXCEPT ![e] = @ \cup {s}]
<1>1. e \in Event /\ s \in Sub /\ ghost \in GhostState
  BY SendFacts DEF IInv, Typed
<1>2. ghost' = [ghost EXCEPT !.offered = o]
  BY Zenon DEF offered
<1> HIDE DEF e, s
<1>3. o \in [Event -> SUBSET Sub]
  BY <1>1 DEF GhostState
<1> HIDE DEF o
<1> QED
  BY <1>1, <1>2, <1>3 DEF GhostState

\* The four outcomes of one turn of the loop.
LEMMA SendCases ==
    ASSUME NEW p \in Publisher, PublishSend(p)
    PROVE  LET s == Head(publish[p].targets)
               e == <<p, publish[p].n>>
           IN /\ publish[p].at = "sending"
              /\ UNCHANGED <<subscribers, janitor, jobs, dispatcher, held, main>>
              /\ \/ /\ sending(p, << >>)
                    /\ UNCHANGED <<events, retention, panic, ghost>>
                 \/ /\ events[s].open /\ ~full(s)
                    /\ events' = [events EXCEPT ![s].queue =
                                    Append(events[s].queue, e)]
                    /\ sending(p, Tail(publish[p].targets))
                    /\ ghost' = offered(p)
                    /\ UNCHANGED <<retention, panic>>
                 \/ /\ full(s)
                    /\ retention' = [retention EXCEPT ![e] = retention[e] + 1]
                    /\ sending(p, Tail(publish[p].targets))
                    /\ ghost' = offered(p)
                    /\ UNCHANGED <<events, panic>>
                 \/ /\ ~events[s].open
                    /\ UNCHANGED <<publish, events, retention, ghost>>
  BY Zenon DEF PublishSend, poolVars, logDroppedEvent

\* Sending to s is over for the event, when it is done.
LEMMA SentAhead ==
    ASSUME IInv, NEW p \in Publisher, publish[p].at = "sending",
           sending(p, Tail(publish[p].targets)),
           NEW q \in Publisher, NEW k \in 1..MaxEvents, NEW s \in Sub,
           ahead(q, k, s)'
    PROVE  /\ ahead(q, k, s)
           /\ ~(q = p /\ k = publish[p].n /\ s = Head(publish[p].targets))
<1>1. /\ Tail(publish[p].targets) \in Seq(Sub)
      /\ publish[p].n \in 1..MaxEvents
      /\ \A i \in DOMAIN Tail(publish[p].targets) :
            /\ Tail(publish[p].targets)[i] # Head(publish[p].targets)
            /\ \E j \in DOMAIN publish[p].targets :
                  Tail(publish[p].targets)[i] = publish[p].targets[j]
  BY SendFacts
<1>2. PICK r \in PublisherState :
         /\ publish' = [publish EXCEPT ![p] = r] /\ publish'[p] = r
         /\ r.targets = Tail(publish[p].targets) /\ r.n = publish[p].n
         /\ r.at = IF Tail(publish[p].targets) = << >> THEN "idle" ELSE "sending"
  BY <1>1, SendingFacts
<1>3. q # p => publish'[q] = publish[q]
  BY <1>2 DEF IInv, Typed
<1>4. CASE q # p
  BY <1>3, <1>4 DEF ahead
<1>5. CASE q = p
  <2>1. k > publish[p].n \/ (/\ k = publish[p].n
                             /\ \E i \in DOMAIN r.targets : r.targets[i] = s)
    BY <1>2, <1>5 DEF ahead
  <2>2. CASE k > publish[p].n
    BY <1>1, <1>5, <2>2 DEF ahead
  <2>3. CASE k = publish[p].n /\ \E i \in DOMAIN r.targets : r.targets[i] = s
    <3>1. /\ s # Head(publish[p].targets)
          /\ \E j \in DOMAIN publish[p].targets : publish[p].targets[j] = s
      BY <1>1, <1>2, <2>3, Zenon
    <3> QED
      BY <1>5, <2>3, <3>1 DEF ahead
  <2> QED
    BY <2>1, <2>2, <2>3
<1> QED
  BY <1>4, <1>5

LEMMA SendKeeps ==
    ASSUME IInv, NEW p \in Publisher, PublishSend(p)
    PROVE  IInv'
<1> DEFINE s == Head(publish[p].targets)
           e == <<p, publish[p].n>>
           q == Tail(publish[p].targets)
<1>0. /\ publish[p].at = "sending" /\ s \in Sub /\ e \in Event /\ q \in Seq(Sub)
      /\ distinct(q) /\ publish[p].n \in 1..MaxEvents
      /\ UNCHANGED <<subscribers, janitor, jobs, dispatcher, held, main>>
      /\ retention \in [Event -> Nat] /\ events \in [Sub -> Chan]
  <2>1. /\ publish[p].at = "sending"
        /\ UNCHANGED <<subscribers, janitor, jobs, dispatcher, held, main>>
    BY SendCases, Zenon
  <2> QED
    BY <2>1, SendFacts DEF IInv, Typed
<1>f. sending(p, q) => \E r \in PublisherState :
         /\ publish' = [publish EXCEPT ![p] = r] /\ publish'[p] = r
         /\ r.targets = q /\ r.n = publish[p].n
         /\ r.at = IF q = << >> THEN "idle" ELSE "sending"
  <2> HIDE DEF q
  <2> QED
    BY <1>0, SendingFacts
<1>a. ASSUME sending(p, q), NEW u \in Publisher, NEW k \in 1..MaxEvents,
             NEW t \in Sub, ahead(u, k, t)'
      PROVE  ahead(u, k, t) /\ ~(<<u, k>> = e /\ t = s)
  BY <1>0, <1>a, SentAhead
<1>c. \/ sending(p, << >>) /\ UNCHANGED <<events, retention, panic, ghost>>
      \/ /\ events[s].open /\ ~full(s)
         /\ events' = [events EXCEPT ![s].queue = Append(events[s].queue, e)]
         /\ sending(p, q) /\ ghost' = offered(p)
         /\ UNCHANGED <<retention, panic>>
      \/ /\ full(s)
         /\ retention' = [retention EXCEPT ![e] = retention[e] + 1]
         /\ sending(p, q) /\ ghost' = offered(p)
         /\ UNCHANGED <<events, panic>>
      \/ /\ ~events[s].open
         /\ UNCHANGED <<publish, events, retention, ghost>>
  BY SendCases, Zenon
<1> HIDE DEF s, e, q
<1>1. CASE sending(p, << >>) /\ UNCHANGED <<events, retention, panic, ghost>>
  <2>1. PICK r \in PublisherState :
           /\ publish' = [publish EXCEPT ![p] = r] /\ publish'[p] = r
           /\ r.targets = << >> /\ r.n = publish[p].n
           /\ r.at = IF << >> = << >> THEN "idle" ELSE "sending"
    <3>1. << >> \in Seq(Sub)
      OBVIOUS
    <3> QED
      BY <1>1, <3>1, SendingFacts
  <2>2. ASSUME NEW k \in 1..MaxEvents, NEW t \in Sub, ahead(p, k, t)'
        PROVE  ahead(p, k, t)
    BY <1>0, <2>1, <2>2 DEF ahead
  <2>3. distinct(r.targets) /\ r.at = "idle"
    BY <2>1 DEF distinct
  <2> QED
    BY <1>0, <1>1, <2>1, <2>2, <2>3, PublisherMoves
<1>2. CASE /\ events[s].open /\ ~full(s)
           /\ events' = [events EXCEPT ![s].queue = Append(events[s].queue, e)]
           /\ sending(p, q) /\ ghost' = offered(p)
           /\ UNCHANGED <<retention, panic>>
  <2>1. PICK r \in PublisherState :
           /\ publish' = [publish EXCEPT ![p] = r] /\ publish'[p] = r
           /\ r.targets = q /\ r.n = publish[p].n
           /\ r.at = IF q = << >> THEN "idle" ELSE "sending"
    BY <1>2, <1>f, Zenon
  <2>2. ghost' \in GhostState /\ ghost'.taken = ghost.taken
    BY <1>0, <1>2, OfferedFacts
  <2>3. events[s].queue \in Seq(Event)
    BY <1>0 DEF Chan
  <2>4. Append(events[s].queue, e) \in Seq(Event)
    BY <1>0, <2>3, AppendFacts
  <2>5. /\ events' \in [Sub -> Chan]
        /\ events'[s].queue = Append(events[s].queue, e)
        /\ \A t \in Sub : t # s => events'[t] = events[t]
        /\ \A t \in Sub : events'[t].open = events[t].open
    BY <1>0, <1>2, <2>4, EventsUpdate, Zenon
  <2>p. /\ publish' \in [Publisher -> PublisherState]
        /\ \A u \in Publisher : u # p => publish'[u] = publish[u]
    BY <2>1 DEF IInv, Typed
  <2>6. Typed'
    BY <1>0, <1>2, <2>p, <2>2, <2>5 DEF IInv, Typed
  <2>7. PoolShape' /\ UpOpen'
    BY <1>0, <1>2, <2>5 DEF IInv, PoolShape, UpOpen
  <2>8. Registered'
    <3>1. \A i \in DOMAIN subscribers : subscribers[i] \in Sub
      BY DEF IInv, Typed
    <3> QED
      BY <1>0, <1>2, <2>5, <3>1 DEF IInv, Registered
  <2>9. ListedOnce'
    <3>1. distinct(subscribers)'
      BY <1>0 DEF IInv, ListedOnce, distinct
    <3>2. ASSUME NEW u \in Publisher
          PROVE  /\ distinct(publish'[u].targets)
                 /\ publish'[u].at = "sending" => publish'[u].targets # << >>
                 /\ publish'[u].at # "idle" => publish'[u].n > 0
      BY <1>0, <2>1, <2>p DEF IInv, ListedOnce
    <3>3. \A u \in Publisher :
              distinct(publish[u].targets)' <=> distinct(publish'[u].targets)
      BY Zenon DEF distinct
    <3> QED
      BY <3>1, <3>2, <3>3 DEF ListedOnce
  <2>10. ASSUME NEW u \in Publisher, NEW k \in 1..MaxEvents, NEW t \in Sub,
                ahead(u, k, t)', seen(t, <<u, k>>)'
         PROVE  FALSE
    <3>1. ahead(u, k, t) /\ ~(<<u, k>> = e /\ t = s)
      BY <1>2, <1>a, <2>10
    <3>2. ~seen(t, <<u, k>>)
      BY <3>1, Zenon DEF IInv, NotYetSeen
    <3>3. t = s
      BY <1>0, <2>2, <2>5, <2>10, <3>2 DEF seen
    <3>4. \E i \in DOMAIN Append(events[s].queue, e) :
              Append(events[s].queue, e)[i] = <<u, k>>
      BY <1>0, <2>2, <2>5, <2>10, <3>2, <3>3 DEF seen
    <3>5. ~\E i \in DOMAIN events[s].queue : events[s].queue[i] = <<u, k>>
      BY <3>2, <3>3 DEF seen
    <3>6. e = <<u, k>>
      <4> DEFINE x == <<u, k>>
                 z == events[s].queue
      <4>1. z \in Seq(Event) /\ (~\E i \in DOMAIN z : z[i] = x)
            /\ \E i \in DOMAIN Append(z, e) : Append(z, e)[i] = x
        BY <2>3, <3>4, <3>5
      <4> HIDE DEF x, z
      <4>2. e = x
        BY <1>0, <4>1, AppendFacts
      <4> QED
        BY <4>2 DEF x
    <3> QED
      BY <3>1, <3>3, <3>6
  <2>11. NotYetSeen'
    BY <2>10, Zenon DEF NotYetSeen
  <2> QED
    BY <2>6, <2>7, <2>8, <2>9, <2>11 DEF IInv
<1>3. CASE /\ full(s)
           /\ retention' = [retention EXCEPT ![e] = retention[e] + 1]
           /\ sending(p, q) /\ ghost' = offered(p)
           /\ UNCHANGED <<events, panic>>
  <2>1. PICK r \in PublisherState :
           /\ publish' = [publish EXCEPT ![p] = r] /\ publish'[p] = r
           /\ r.targets = q /\ r.n = publish[p].n
           /\ r.at = IF q = << >> THEN "idle" ELSE "sending"
    BY <1>3, <1>f, Zenon
  <2>2. ghost' \in GhostState /\ ghost'.taken = ghost.taken
    BY <1>0, <1>3, OfferedFacts
  <2>3. retention' \in [Event -> Nat]
    BY <1>0, <1>3
  <2>p. /\ publish' \in [Publisher -> PublisherState]
        /\ \A u \in Publisher : u # p => publish'[u] = publish[u]
    BY <2>1 DEF IInv, Typed
  <2>6. Typed'
    BY <1>0, <1>3, <2>p, <2>2, <2>3 DEF IInv, Typed
  <2>7. PoolShape' /\ UpOpen' /\ Registered'
    BY <1>0, <1>3 DEF IInv, PoolShape, UpOpen, Registered
  <2>9. ListedOnce'
    <3>1. distinct(subscribers)'
      BY <1>0 DEF IInv, ListedOnce, distinct
    <3>2. ASSUME NEW u \in Publisher
          PROVE  /\ distinct(publish'[u].targets)
                 /\ publish'[u].at = "sending" => publish'[u].targets # << >>
                 /\ publish'[u].at # "idle" => publish'[u].n > 0
      BY <1>0, <2>1, <2>p DEF IInv, ListedOnce
    <3>3. \A u \in Publisher :
              distinct(publish[u].targets)' <=> distinct(publish'[u].targets)
      BY Zenon DEF distinct
    <3> QED
      BY <3>1, <3>2, <3>3 DEF ListedOnce
  <2>10. ASSUME NEW u \in Publisher, NEW k \in 1..MaxEvents, NEW t \in Sub,
                ahead(u, k, t)', seen(t, <<u, k>>)'
         PROVE  FALSE
    <3>1. ahead(u, k, t)
      BY <1>3, <1>a, <2>10
    <3>2. ~seen(t, <<u, k>>)
      BY <3>1, Zenon DEF IInv, NotYetSeen
    <3> QED
      BY <1>0, <1>3, <2>2, <2>10, <3>2 DEF seen
  <2>11. NotYetSeen'
    BY <2>10, Zenon DEF NotYetSeen
  <2> QED
    BY <2>6, <2>7, <2>9, <2>11 DEF IInv
<1>4. CASE /\ ~events[s].open
           /\ UNCHANGED <<publish, events, retention, ghost>>
  <2>1. main # "up"
    BY <1>0, <1>4 DEF IInv, UpOpen
  <2>2. publish[p] \in PublisherState /\ publish' = [publish EXCEPT ![p] = publish[p]]
    BY <1>4 DEF IInv, Typed
  <2>3. \A k \in 1..MaxEvents, t \in Sub : ahead(p, k, t)' => ahead(p, k, t)
    BY <1>4 DEF ahead
  <2>4. /\ distinct(publish[p].targets)
        /\ publish[p].at = "sending" => publish[p].targets # << >>
        /\ publish[p].at # "idle" => publish[p].n > 0
    BY DEF IInv, ListedOnce
  <2> QED
    BY <1>0, <1>4, <2>1, <2>2, <2>3, <2>4, PublisherMoves
<1> QED
  BY <1>1, <1>2, <1>3, <1>4, <1>c, Zenon

\* A step that no publisher takes.
LEMMA OthersMove ==
    ASSUME IInv, publish' = publish, Typed', PoolShape', Registered', UpOpen',
           distinct(subscribers)',
           \A s \in Sub, e \in Event : seen(s, e)' => seen(s, e)
    PROVE  IInv'
<1>1. ListedOnce'
  <2>1. \A p \in Publisher :
            distinct(publish[p].targets)' <=> distinct(publish[p].targets)
    BY DEF distinct
  <2> QED
    BY <2>1 DEF IInv, ListedOnce
<1>2. NotYetSeen'
  <2>1. \A p \in Publisher, k \in 1..MaxEvents, s \in Sub :
            ahead(p, k, s)' <=> ahead(p, k, s)
    BY DEF ahead
  <2>2. \A p \in Publisher, k \in 1..MaxEvents : <<p, k>> \in Event
    BY DEF Event
  <2> QED
    BY <2>1, <2>2, Zenon DEF IInv, NotYetSeen
<1> QED
  BY <1>1, <1>2 DEF IInv

LEMMA StartKeeps ==
    ASSUME IInv, NEW s \in Sub, startTopicWorkerPool(s)
    PROVE  IInv'
<1>0. /\ subscribers \in Seq(Sub) /\ janitor[s] = "none" /\ dispatcher[s] = "none"
      /\ \A i \in DOMAIN subscribers : subscribers[i] # s
      /\ events[s].open /\ held[s] = None
  BY DEF IInv, Typed, PoolShape, Registered, startTopicWorkerPool
<1>1. /\ subscribers' = Append(subscribers, s)
      /\ janitor' = [janitor EXCEPT ![s] = "waiting"]
      /\ dispatcher' = [dispatcher EXCEPT ![s] = "ready"]
      /\ UNCHANGED <<publish, events, jobs, held, main, retention, panic, ghost>>
  BY Zenon DEF startTopicWorkerPool
<1>2. /\ subscribers' \in Seq(Sub)
      /\ \A i \in DOMAIN subscribers' :
            \/ i \in DOMAIN subscribers /\ subscribers'[i] = subscribers[i]
            \/ subscribers'[i] = s
  BY <1>0, <1>1, AppendFacts
<1>3. distinct(subscribers)'
  <2>1. distinct(Append(subscribers, s))
    BY <1>0, DistinctAppend DEF IInv, ListedOnce
  <2> QED
    BY <1>1, <2>1 DEF distinct
<1>4. /\ janitor' \in [Sub -> {"none", "waiting", "removed", "ended"}]
      /\ dispatcher' \in [Sub -> {"none", "ready", "holding", "ended"}]
      /\ janitor'[s] = "waiting" /\ dispatcher'[s] = "ready"
      /\ \A t \in Sub : t # s => /\ janitor'[t] = janitor[t]
                                 /\ dispatcher'[t] = dispatcher[t]
  BY <1>1 DEF IInv, Typed
<1>5. Typed'
  BY <1>1, <1>2, <1>4 DEF IInv, Typed
<1>6. PoolShape' /\ UpOpen'
  BY <1>0, <1>1, <1>4 DEF IInv, PoolShape, UpOpen
<1>7. Registered'
  <2>1. \A i \in DOMAIN subscribers : subscribers[i] \in Sub
    BY <1>0
  <2> QED
    BY <1>0, <1>1, <1>2, <1>4, <2>1 DEF IInv, Registered
<1>8. \A t \in Sub, e \in Event : seen(t, e)' => seen(t, e)
  BY <1>1 DEF seen
<1> QED
  BY <1>1, <1>3, <1>5, <1>6, <1>7, <1>8, OthersMove

LEMMA CutOutFacts ==
    ASSUME subscribers \in Seq(Sub), distinct(subscribers), NEW s, cutOut(s)
    PROVE  /\ subscribers' \in Seq(Sub) /\ distinct(subscribers')
           /\ \A j \in DOMAIN subscribers' :
                 /\ subscribers'[j] # s
                 /\ \E k \in DOMAIN subscribers : subscribers'[j] = subscribers[k]
<1>1. CASE /\ \A i \in DOMAIN subscribers : subscribers[i] # s
           /\ UNCHANGED subscribers
  BY <1>1
<1>2. ASSUME NEW i \in DOMAIN subscribers, subscribers[i] = s,
             subscribers' = SubSeq(subscribers, 1, i - 1)
                              \o SubSeq(subscribers, i + 1, Len(subscribers))
      PROVE  /\ subscribers' \in Seq(Sub) /\ distinct(subscribers')
             /\ \A j \in DOMAIN subscribers' :
                   /\ subscribers'[j] # s
                   /\ \E k \in DOMAIN subscribers : subscribers'[j] = subscribers[k]
  <2>1. i \in 1..Len(subscribers)
    OBVIOUS
  <2> DEFINE r == SubSeq(subscribers, 1, i - 1)
                    \o SubSeq(subscribers, i + 1, Len(subscribers))
  <2>2. /\ r \in Seq(Sub)
        /\ distinct(r)
        /\ \A j \in DOMAIN r : /\ r[j] # subscribers[i]
                               /\ \E k \in DOMAIN subscribers : r[j] = subscribers[k]
    BY <2>1, DistinctCut, ZenonT(60)
  <2>3. subscribers' = r
    BY <1>2
  <2> HIDE DEF r
  <2> QED
    BY <1>2, <2>2, <2>3, Zenon
<1> QED
  BY <1>1, <1>2, Zenon DEF cutOut

LEMMA RemoveKeeps ==
    ASSUME IInv, NEW s \in Sub, removeSubscriber(s)
    PROVE  IInv'
<1>0. main # "up" /\ janitor[s] = "waiting"
  BY DEF removeSubscriber, workerCtxDone
<1>1. /\ janitor' = [janitor EXCEPT ![s] = "removed"]
      /\ UNCHANGED <<publish, events, jobs, dispatcher, held, main, retention,
                     panic, ghost>>
  BY Zenon DEF removeSubscriber, poolVars
<1>2. /\ subscribers' \in Seq(Sub) /\ distinct(subscribers')
      /\ \A j \in DOMAIN subscribers' :
            /\ subscribers'[j] # s
            /\ \E k \in DOMAIN subscribers : subscribers'[j] = subscribers[k]
  BY CutOutFacts DEF removeSubscriber, IInv, Typed, ListedOnce
<1>3. distinct(subscribers)'
  BY <1>2 DEF distinct
<1>4. /\ janitor' \in [Sub -> {"none", "waiting", "removed", "ended"}]
      /\ janitor'[s] = "removed"
      /\ \A t \in Sub : t # s => janitor'[t] = janitor[t]
  BY <1>1 DEF IInv, Typed
<1>5. Typed'
  BY <1>1, <1>2, <1>4 DEF IInv, Typed
<1>6. PoolShape' /\ UpOpen'
  BY <1>0, <1>1, <1>4 DEF IInv, PoolShape, UpOpen
<1>7. Registered'
  <2>1. \A j \in DOMAIN subscribers' : subscribers'[j] \in Sub
    BY <1>2
  <2>2. ASSUME NEW j \in DOMAIN subscribers'
        PROVE  events[subscribers'[j]].open /\ janitor'[subscribers'[j]] = "waiting"
    <3>1. PICK k \in DOMAIN subscribers : subscribers'[j] = subscribers[k]
      BY <1>2
    <3>2. events[subscribers[k]].open /\ janitor[subscribers[k]] = "waiting"
      BY DEF IInv, Registered
    <3> QED
      BY <1>2, <1>4, <2>1, <3>1, <3>2
  <2>3. \A t \in Sub : janitor'[t] = "none" => events[t].open
    BY <1>4 DEF IInv, Registered
  <2> QED
    BY <1>1, <2>2, <2>3 DEF Registered
<1>8. \A t \in Sub, e \in Event : seen(t, e)' => seen(t, e)
  BY <1>1 DEF seen
<1> QED
  BY <1>1, <1>3, <1>5, <1>6, <1>7, <1>8, OthersMove

LEMMA CloseEventsKeeps ==
    ASSUME IInv, NEW s \in Sub, closeEvents(s)
    PROVE  IInv'
<1>0. janitor[s] = "removed"
  BY DEF closeEvents
<1>1. /\ janitor' = [janitor EXCEPT ![s] = "ended"]
      /\ events' = [events EXCEPT ![s].open = FALSE]
      /\ UNCHANGED <<publish, subscribers, jobs, dispatcher, held, main,
                     retention, ghost>>
  BY Zenon DEF closeEvents, poolVars
<1>2. main # "up"
  BY <1>0 DEF IInv, UpOpen
<1>3. /\ events' \in [Sub -> Chan]
      /\ \A t \in Sub : t # s => events'[t] = events[t]
      /\ \A t \in Sub : events'[t].queue = events[t].queue
  BY <1>1, EventsClose DEF IInv, Typed
<1>4. /\ janitor' \in [Sub -> {"none", "waiting", "removed", "ended"}]
      /\ janitor'[s] = "ended"
      /\ \A t \in Sub : t # s => janitor'[t] = janitor[t]
  BY <1>1 DEF IInv, Typed
<1>5. Typed'
  BY <1>1, <1>3, <1>4 DEF IInv, Typed
<1>6. PoolShape' /\ UpOpen'
  BY <1>0, <1>1, <1>2, <1>4 DEF IInv, PoolShape, UpOpen
<1>7. Registered'
  <2>1. \A j \in DOMAIN subscribers : subscribers[j] \in Sub /\ subscribers[j] # s
    BY <1>0 DEF IInv, Typed, Registered
  <2> QED
    BY <1>0, <1>1, <1>3, <1>4, <2>1 DEF IInv, Registered
<1>8. \A t \in Sub, e \in Event : seen(t, e)' => seen(t, e)
  BY <1>1, <1>3 DEF seen
<1>9. distinct(subscribers)'
  BY <1>1 DEF IInv, ListedOnce, distinct
<1> QED
  BY <1>1, <1>5, <1>6, <1>7, <1>8, <1>9, OthersMove

LEMMA ReceiveKeeps ==
    ASSUME IInv, NEW s \in Sub, receive(s)
    PROVE  IInv'
<1>0. dispatcher[s] = "ready" /\ held[s] = None /\ janitor[s] # "none"
  BY DEF receive, IInv, PoolShape
<1>1. UNCHANGED <<publish, subscribers, jobs, janitor, main, retention, panic, ghost>>
  BY Zenon DEF receive
<1>d. distinct(subscribers)'
  BY <1>1 DEF IInv, ListedOnce, distinct
<1>2. CASE /\ dispatcher' = [dispatcher EXCEPT ![s] = "ended"]
           /\ UNCHANGED <<held, events>>
  <2>1. /\ dispatcher' \in [Sub -> {"none", "ready", "holding", "ended"}]
        /\ dispatcher'[s] = "ended"
        /\ \A t \in Sub : t # s => dispatcher'[t] = dispatcher[t]
    BY <1>2 DEF IInv, Typed
  <2>2. Typed'
    BY <1>1, <1>2, <2>1 DEF IInv, Typed
  <2>3. PoolShape' /\ Registered' /\ UpOpen'
    BY <1>0, <1>1, <1>2, <2>1 DEF IInv, PoolShape, Registered, UpOpen
  <2>4. \A t \in Sub, e \in Event : seen(t, e)' => seen(t, e)
    BY <1>1, <1>2 DEF seen
  <2> QED
    BY <1>1, <1>d, <2>2, <2>3, <2>4, OthersMove
<1>3. CASE /\ events[s].queue # << >>
           /\ dispatcher' = [dispatcher EXCEPT ![s] = "holding"]
           /\ held' = [held EXCEPT ![s] = Head(events[s].queue)]
           /\ events' = [events EXCEPT ![s].queue = Tail(events[s].queue)]
  <2>0. events[s].queue \in Seq(Event)
    BY DEF IInv, Typed, Chan
  <2>1. /\ dispatcher' \in [Sub -> {"none", "ready", "holding", "ended"}]
        /\ dispatcher'[s] = "holding"
        /\ \A t \in Sub : t # s => dispatcher'[t] = dispatcher[t]
    BY <1>3 DEF IInv, Typed
  <2>2. /\ Head(events[s].queue) \in Event /\ Tail(events[s].queue) \in Seq(Event)
        /\ \E i \in DOMAIN events[s].queue : events[s].queue[i] = Head(events[s].queue)
        /\ \A i \in DOMAIN Tail(events[s].queue) :
              \E j \in DOMAIN events[s].queue :
                 events[s].queue[j] = Tail(events[s].queue)[i]
    BY <1>3, <2>0, TailFacts
  <2>3. /\ events' \in [Sub -> Chan] /\ events'[s].queue = Tail(events[s].queue)
        /\ \A t \in Sub : t # s => events'[t] = events[t]
        /\ \A t \in Sub : events'[t].open = events[t].open
    BY <1>3, <2>2, EventsUpdate, Zenon DEF IInv, Typed
  <2>4. /\ held' \in [Sub -> Event \cup {None}]
        /\ held'[s] = Head(events[s].queue)
        /\ \A t \in Sub : t # s => held'[t] = held[t]
    BY <1>3, <2>2 DEF IInv, Typed
  <2>5. held'[s] # None
    BY <2>2, <2>4, BrokerAssumption DEF Event
  <2>6. Typed'
    BY <1>1, <2>1, <2>3, <2>4 DEF IInv, Typed
  <2>7. PoolShape'
    BY <1>0, <1>1, <2>1, <2>4, <2>5 DEF IInv, PoolShape
  <2>8. UpOpen'
    BY <1>1, <2>3 DEF IInv, UpOpen
  <2>9. Registered'
    <3>1. \A i \in DOMAIN subscribers : subscribers[i] \in Sub
      BY DEF IInv, Typed
    <3> QED
      BY <1>1, <2>3, <3>1 DEF IInv, Registered
  <2>10. ASSUME NEW t \in Sub, NEW e \in Event, seen(t, e)'
         PROVE  seen(t, e)
    <3>1. CASE t # s
      BY <1>1, <2>3, <2>4, <2>10, <3>1 DEF seen
    <3>2. CASE t = s
      <4>1. \/ e \in ghost.taken[s] \/ e = Head(events[s].queue)
            \/ \E i \in DOMAIN jobs[s].queue : jobs[s].queue[i] = e
            \/ \E i \in DOMAIN Tail(events[s].queue) : Tail(events[s].queue)[i] = e
        BY <1>1, <2>3, <2>4, <2>10, <3>2, Zenon DEF seen
      <4> QED
        BY <2>2, <3>2, <4>1, Zenon DEF seen
    <3> QED
      BY <3>1, <3>2
  <2> QED
    BY <1>1, <1>d, <2>6, <2>7, <2>8, <2>9, <2>10, OthersMove
<1> QED
  BY <1>2, <1>3, Zenon DEF receive

LEMMA DispatchKeeps ==
    ASSUME IInv, NEW s \in Sub, dispatch(s)
    PROVE  IInv'
<1>0. /\ dispatcher[s] = "holding" /\ held[s] # None /\ janitor[s] # "none"
      /\ held[s] \in Event /\ jobs[s].queue \in Seq(Event)
  BY DEF dispatch, IInv, PoolShape, Typed, Chan
<1>1. UNCHANGED <<publish, subscribers, events, janitor, main, retention, ghost>>
  BY Zenon DEF dispatch
<1>d. distinct(subscribers)'
  BY <1>1 DEF IInv, ListedOnce, distinct
<1>r. Registered'
  BY <1>1 DEF IInv, Registered
<1>2. ASSUME NEW to \in {"ready", "ended"},
             dispatcher' = [dispatcher EXCEPT ![s] = to],
             held' = [held EXCEPT ![s] = None]
      PROVE  /\ dispatcher' \in [Sub -> {"none", "ready", "holding", "ended"}]
             /\ held' \in [Sub -> Event \cup {None}]
             /\ PoolShape'
             /\ held'[s] = None /\ \A t \in Sub : t # s => held'[t] = held[t]
  <2>1. /\ dispatcher' \in [Sub -> {"none", "ready", "holding", "ended"}]
        /\ dispatcher'[s] = to
        /\ \A t \in Sub : t # s => dispatcher'[t] = dispatcher[t]
        /\ held' \in [Sub -> Event \cup {None}]
        /\ held'[s] = None
        /\ \A t \in Sub : t # s => held'[t] = held[t]
    BY <1>2 DEF IInv, Typed
  <2> QED
    BY <1>0, <1>1, <2>1 DEF IInv, PoolShape
<1>3. CASE /\ jobs' = [jobs EXCEPT ![s].queue = Append(jobs[s].queue, held[s])]
           /\ dispatcher' = [dispatcher EXCEPT ![s] = "ready"]
           /\ held' = [held EXCEPT ![s] = None]
           /\ UNCHANGED panic
  <2>1. Append(jobs[s].queue, held[s]) \in Seq(Event)
    BY <1>0, AppendFacts
  <2>2. /\ jobs' \in [Sub -> Chan]
        /\ jobs'[s].queue = Append(jobs[s].queue, held[s])
        /\ \A t \in Sub : t # s => jobs'[t] = jobs[t]
        /\ \A t \in Sub : jobs'[t].open = jobs[t].open
    BY <1>3, <2>1, JobsUpdate, Zenon DEF IInv, Typed
  <2>3. Typed' /\ PoolShape'
    BY <1>1, <1>2, <1>3, <2>2 DEF IInv, Typed
  <2>4. UpOpen'
    BY <1>1, <1>3, <2>2 DEF IInv, UpOpen
  <2>5. ASSUME NEW t \in Sub, NEW e \in Event, seen(t, e)'
        PROVE  seen(t, e)
    <3>1. CASE t # s
      BY <1>1, <1>2, <1>3, <2>2, <2>5, <3>1 DEF seen
    <3>2. CASE t = s
      <4>1. e # None
        BY BrokerAssumption DEF Event
      <4>2. \/ e \in ghost.taken[s]
            \/ \E i \in DOMAIN events[s].queue : events[s].queue[i] = e
            \/ \E i \in DOMAIN Append(jobs[s].queue, held[s]) :
                  Append(jobs[s].queue, held[s])[i] = e
        BY <1>1, <1>2, <1>3, <2>2, <2>5, <3>2, <4>1 DEF seen
      <4>3. (\E i \in DOMAIN Append(jobs[s].queue, held[s]) :
                  Append(jobs[s].queue, held[s])[i] = e)
            => e = held[s] \/ \E i \in DOMAIN jobs[s].queue : jobs[s].queue[i] = e
        BY <1>0, AppendFacts
      <4> QED
        BY <3>2, <4>2, <4>3, Zenon DEF seen
    <3> QED
      BY <3>1, <3>2
  <2> QED
    BY <1>1, <1>d, <1>r, <2>3, <2>4, <2>5, OthersMove
<1>4. CASE /\ dispatcher' = [dispatcher EXCEPT ![s] = "ended"]
           /\ held' = [held EXCEPT ![s] = None]
           /\ UNCHANGED <<jobs, panic>>
  <2>3. Typed' /\ PoolShape'
    BY <1>1, <1>2, <1>4 DEF IInv, Typed
  <2>4. UpOpen'
    BY <1>1, <1>4 DEF IInv, UpOpen
  <2>5. ASSUME NEW t \in Sub, NEW e \in Event, seen(t, e)'
        PROVE  seen(t, e)
    <3>1. e # None
      BY BrokerAssumption DEF Event
    <3> QED
      BY <1>1, <1>2, <1>4, <2>5, <3>1 DEF seen
  <2> QED
    BY <1>1, <1>d, <1>r, <2>3, <2>4, <2>5, OthersMove
<1>5. CASE ~jobs[s].open /\ UNCHANGED <<jobs, dispatcher, held>>
  <2>1. main # "up"
    BY <1>5 DEF IInv, UpOpen
  <2>2. Typed' /\ PoolShape' /\ UpOpen'
    BY <1>1, <1>5, <2>1 DEF IInv, Typed, PoolShape, UpOpen
  <2>3. \A t \in Sub, e \in Event : seen(t, e)' => seen(t, e)
    BY <1>1, <1>5 DEF seen
  <2> QED
    BY <1>1, <1>d, <1>r, <2>2, <2>3, OthersMove
<1> QED
  BY <1>3, <1>4, <1>5, Zenon DEF dispatch

LEMMA CloseJobsKeeps ==
    ASSUME IInv, NEW s \in Sub, closeJobs(s)
    PROVE  IInv'
<1>1. /\ jobs' = [jobs EXCEPT ![s].open = FALSE]
      /\ UNCHANGED <<publish, subscribers, events, janitor, dispatcher, held,
                     main, retention, panic, ghost>>
      /\ main # "up"
  BY Zenon DEF closeJobs, workerCtxDone
<1>2. /\ jobs' \in [Sub -> Chan]
      /\ \A t \in Sub : jobs'[t].queue = jobs[t].queue
  BY <1>1, JobsClose DEF IInv, Typed
<1>3. Typed' /\ PoolShape' /\ Registered' /\ UpOpen'
  BY <1>1, <1>2 DEF IInv, Typed, PoolShape, Registered, UpOpen
<1>4. \A t \in Sub, e \in Event : seen(t, e)' => seen(t, e)
  BY <1>1, <1>2 DEF seen
<1>5. distinct(subscribers)'
  BY <1>1 DEF IInv, ListedOnce, distinct
<1> QED
  BY <1>1, <1>3, <1>4, <1>5, OthersMove

\* What taking the first job changes.
LEMMA TakeFacts ==
    ASSUME IInv, NEW s \in Sub, jobs[s].queue # << >>,
           jobs' = [jobs EXCEPT ![s].queue = Tail(jobs[s].queue)],
           ghost' = [ghost EXCEPT !.taken[s] =
                       ghost.taken[s] \cup {Head(jobs[s].queue)}]
    PROVE  /\ jobs[s].queue \in Seq(Event)
           /\ jobs' \in [Sub -> Chan] /\ jobs'[s].queue = Tail(jobs[s].queue)
           /\ \A t \in Sub : t # s => jobs'[t] = jobs[t]
           /\ \A t \in Sub : jobs'[t].open = jobs[t].open
           /\ ghost' \in GhostState
           /\ ghost'.taken = [ghost.taken EXCEPT ![s] =
                                ghost.taken[s] \cup {Head(jobs[s].queue)}]
<1>1. jobs[s].queue \in Seq(Event)
  BY DEF IInv, Typed, Chan
<1>2. Tail(jobs[s].queue) \in Seq(Event) /\ Head(jobs[s].queue) \in Event
  BY <1>1, TailFacts
<1>3. /\ jobs' \in [Sub -> Chan] /\ jobs'[s].queue = Tail(jobs[s].queue)
      /\ \A t \in Sub : t # s => jobs'[t] = jobs[t]
      /\ \A t \in Sub : jobs'[t].open = jobs[t].open
  BY <1>2, JobsUpdate, Zenon DEF IInv, Typed
<1> DEFINE k == [ghost.taken EXCEPT ![s] = ghost.taken[s] \cup {Head(jobs[s].queue)}]
<1>4. ghost' = [ghost EXCEPT !.taken = k]
  BY Zenon
<1>5. k \in [Sub -> SUBSET Event]
  BY <1>2 DEF IInv, Typed, GhostState
<1> HIDE DEF k
<1>6. ghost' \in GhostState /\ ghost'.taken = k
  BY <1>4, <1>5 DEF IInv, Typed, GhostState
<1> QED
  BY <1>1, <1>3, <1>6 DEF k

LEMMA TakeKeeps ==
    ASSUME IInv, NEW s \in Sub, NEW w \in Worker, takeJob(s, w)
    PROVE  IInv'
<1>1. UNCHANGED <<publish, subscribers, events, janitor, dispatcher, held,
                  main, retention, panic>>
  BY Zenon DEF takeJob
<1>d. distinct(subscribers)'
  BY <1>1 DEF IInv, ListedOnce, distinct
<1>2. PoolShape' /\ Registered'
  BY <1>1 DEF IInv, PoolShape, Registered
<1>3. CASE UNCHANGED <<jobs, ghost>>
  <2>1. Typed' /\ UpOpen'
    BY <1>1, <1>3 DEF IInv, Typed, UpOpen
  <2>2. \A t \in Sub, e \in Event : seen(t, e)' => seen(t, e)
    BY <1>1, <1>3 DEF seen
  <2> QED
    BY <1>1, <1>d, <1>2, <2>1, <2>2, OthersMove
<1>4. CASE /\ jobs[s].queue # << >>
           /\ jobs' = [jobs EXCEPT ![s].queue = Tail(jobs[s].queue)]
           /\ ghost' = [ghost EXCEPT !.taken[s] =
                          ghost.taken[s] \cup {Head(jobs[s].queue)}]
  <2>1. /\ jobs[s].queue \in Seq(Event)
        /\ jobs' \in [Sub -> Chan] /\ jobs'[s].queue = Tail(jobs[s].queue)
        /\ \A t \in Sub : t # s => jobs'[t] = jobs[t]
        /\ \A t \in Sub : jobs'[t].open = jobs[t].open
        /\ ghost' \in GhostState
        /\ ghost'.taken = [ghost.taken EXCEPT ![s] =
                             ghost.taken[s] \cup {Head(jobs[s].queue)}]
    BY <1>4, TakeFacts, Zenon
  <2>2. Typed' /\ UpOpen'
    BY <1>1, <2>1 DEF IInv, Typed, UpOpen
  <2>3. ghost.taken \in [Sub -> SUBSET Event]
    BY DEF IInv, Typed, GhostState
  <2>4. /\ ghost'.taken[s] = ghost.taken[s] \cup {Head(jobs[s].queue)}
        /\ \A t \in Sub : t # s => ghost'.taken[t] = ghost.taken[t]
    BY <2>1, <2>3
  <2>5. ASSUME NEW t \in Sub, NEW e \in Event, seen(t, e)'
        PROVE  seen(t, e)
    <3>1. CASE t # s
      BY <1>1, <2>1, <2>4, <2>5, <3>1 DEF seen
    <3>2. CASE t = s
      <4>1. \/ e \in ghost.taken[s] \/ e = Head(jobs[s].queue)
            \/ e = held[s]
            \/ \E i \in DOMAIN events[s].queue : events[s].queue[i] = e
            \/ \E i \in DOMAIN Tail(jobs[s].queue) : Tail(jobs[s].queue)[i] = e
        BY <1>1, <2>1, <2>4, <2>5, <3>2 DEF seen
      <4>2. /\ \E i \in DOMAIN jobs[s].queue : jobs[s].queue[i] = Head(jobs[s].queue)
            /\ \A i \in DOMAIN Tail(jobs[s].queue) :
                  \E j \in DOMAIN jobs[s].queue :
                     jobs[s].queue[j] = Tail(jobs[s].queue)[i]
        BY <1>4, <2>1, TailFacts
      <4> QED
        BY <3>2, <4>1, <4>2, Zenon DEF seen
    <3> QED
      BY <3>1, <3>2
  <2> QED
    BY <1>1, <1>d, <1>2, <2>2, <2>5, OthersMove
<1> QED
  BY <1>3, <1>4, Zenon DEF takeJob

\* Steps that change no queue: the end of a handler, and the teardown.
LEMMA TeardownKeeps ==
    ASSUME IInv,
           \/ \E s \in Sub, w \in Worker : finish(s, w)
           \/ workerCancel \/ raftCancel \/ deferredClose
    PROVE  IInv'
<1>1. CASE \/ \E s \in Sub, w \in Worker : finish(s, w)
           \/ workerCancel \/ raftCancel
  <2>1. /\ UNCHANGED <<publish, subscribers, events, janitor, jobs, dispatcher,
                       held, retention, panic, ghost>>
        /\ main' \in {main, "workers", "raft"}
        /\ main' = "up" => main = "up"
    BY <1>1, Zenon DEF finish, workerCancel, raftCancel, poolVars
  <2>2. Typed' /\ PoolShape' /\ Registered' /\ UpOpen'
    BY <2>1 DEF IInv, Typed, PoolShape, Registered, UpOpen
  <2>3. \A t \in Sub, e \in Event : seen(t, e)' => seen(t, e)
    BY <2>1 DEF seen
  <2>4. distinct(subscribers)'
    BY <2>1 DEF IInv, ListedOnce, distinct
  <2> QED
    BY <2>1, <2>2, <2>3, <2>4, OthersMove
<1>2. CASE deferredClose
  <2> DEFINE gone == {subscribers[i] : i \in DOMAIN subscribers}
  <2>1. /\ UNCHANGED <<publish, janitor, jobs, dispatcher, held, retention, ghost>>
        /\ subscribers' = << >> /\ main' = "down"
        /\ events' = [s \in Sub |-> [open |-> events[s].open /\ s \notin gone,
                                     queue |-> events[s].queue]]
    BY <1>2, Zenon DEF deferredClose, Close, poolVars
  <2>2. \A s \in Sub : janitor[s] = "none" => s \notin gone
    BY DEF IInv, Registered
  <2>a. \A s \in Sub : (events[s].open /\ s \notin gone) \in BOOLEAN
                       /\ events[s].queue \in Seq(Event)
    BY DEF IInv, Typed, Chan
  <2> HIDE DEF gone
  <2>3. /\ events' \in [Sub -> Chan]
        /\ \A s \in Sub : events'[s].queue = events[s].queue
        /\ \A s \in Sub : janitor[s] = "none" => events'[s].open
    <3>1. \A s \in Sub : /\ events'[s].queue = events[s].queue
                         /\ events'[s].open = (events[s].open /\ s \notin gone)
      BY <2>1
    <3>2. events' \in [Sub -> Chan]
      BY <2>1, <2>a DEF Chan
    <3> QED
      BY <2>2, <3>1, <3>2 DEF IInv, Registered
  <2>4. Typed' /\ PoolShape' /\ Registered' /\ UpOpen'
    BY <2>1, <2>3 DEF IInv, Typed, PoolShape, Registered, UpOpen
  <2>5. \A t \in Sub, e \in Event : seen(t, e)' => seen(t, e)
    BY <2>1, <2>3 DEF seen
  <2>6. distinct(subscribers)'
    BY <2>1 DEF distinct
  <2> QED
    BY <2>1, <2>4, <2>5, <2>6, OthersMove
<1> QED
  BY <1>1, <1>2

LEMMA NextInv == IInv /\ [Next]_vars => IInv'
<1> SUFFICES ASSUME IInv, [Next]_vars PROVE IInv'
  OBVIOUS
<1>1. CASE Next
  BY <1>1, CheckKeeps, CopyKeeps, SendKeeps, StartKeeps, RemoveKeeps,
     CloseEventsKeeps, ReceiveKeeps, DispatchKeeps, CloseJobsKeeps, TakeKeeps,
     TeardownKeeps, Zenon
     DEF Next, janitorStep, dispatcherStep, workerStep
<1>2. CASE UNCHANGED vars
  <2>1. UNCHANGED <<publish, subscribers, events, janitor, jobs, dispatcher,
                    held, main, retention, panic, ghost>>
    BY <1>2, Zenon DEF vars, poolVars
  <2>2. Typed' /\ PoolShape' /\ Registered' /\ UpOpen'
    BY <2>1 DEF IInv, Typed, PoolShape, Registered, UpOpen
  <2>3. \A t \in Sub, e \in Event : seen(t, e)' => seen(t, e)
    BY <2>1 DEF seen
  <2>4. distinct(subscribers)'
    BY <2>1 DEF IInv, ListedOnce, distinct
  <2> QED
    BY <2>1, <2>2, <2>3, <2>4, OthersMove
<1> QED
  BY <1>1, <1>2

\* The invariant holds in every reachable state.
THEOREM BrokerInvariant == Spec => []IInv
  BY InitInv, NextInv, PTL DEF Spec

\* Nothing panics before the teardown begins: while the workers' context is
\* live no channel is closed, whoever publishes, receives or works.
THEOREM NoPanicWhileUp == Spec => []PanicOnlyAtTeardown
<1>1. IInv => PanicOnlyAtTeardown
  BY DEF IInv, UpOpen, PanicOnlyAtTeardown
<1> QED
  BY <1>1, BrokerInvariant, PTL

\* Close finds no channel in the map that a subscription has closed itself.
THEOREM MapHoldsOpen == Spec => []RegisteredOpen
<1>1. IInv => RegisteredOpen
  BY DEF IInv, Registered, RegisteredOpen
<1> QED
  BY <1>1, BrokerInvariant, PTL

-----------------------------------------------------------------------------
(* A pipeline is three queues one after the other *)

LEMMA EnqueueAtEnd ==
    ASSUME NEW S, NEW a \in Seq(S), NEW b \in Seq(S), NEW e \in S
    PROVE  a \o Append(b, e) = Append(a \o b, e)
<1>1. a \o b \in Seq(S) /\ <<e>> \in Seq(S)
  BY ConcatProperties
<1>2. Append(b, e) = b \o <<e>> /\ Append(a \o b, e) = (a \o b) \o <<e>>
  BY <1>1, AppendIsConcat
<1>3. (a \o b) \o <<e>> = a \o (b \o <<e>>)
  BY <1>1, ConcatAssociative
<1> QED
  BY <1>2, <1>3

LEMMA TakeAtFront ==
    ASSUME NEW S, NEW a \in Seq(S), NEW b \in Seq(S), a # << >>
    PROVE  /\ a \o b # << >> /\ Head(a \o b) = Head(a)
           /\ Tail(a \o b) = Tail(a) \o b
<1> DEFINE c == a \o b
<1>1. /\ c \in Seq(S) /\ Len(c) = Len(a) + Len(b)
      /\ \A i \in 1..Len(a) + Len(b) :
            c[i] = IF i <= Len(a) THEN a[i] ELSE b[i - Len(a)]
  BY ConcatProperties
<1>2. Len(a) \in Nat /\ Len(b) \in Nat /\ Len(a) > 0
  BY EmptySeq
<1> HIDE DEF c
<1>3. c # << >> /\ c[1] = a[1]
  BY <1>1, <1>2
<1>4. Head(c) = c[1] /\ Head(a) = a[1]
  BY <1>1, <1>3
<1> DEFINE t == Tail(a)
           d == t \o b
<1>5. /\ t \in Seq(S) /\ Len(t) = Len(a) - 1
      /\ \A i \in 1..Len(t) : t[i] = a[i + 1]
  BY HeadTailProperties
<1> HIDE DEF t
<1>6. /\ d \in Seq(S) /\ Len(d) = Len(t) + Len(b)
      /\ \A i \in 1..Len(t) + Len(b) :
            d[i] = IF i <= Len(t) THEN t[i] ELSE b[i - Len(t)]
  BY <1>5, ConcatProperties
<1> HIDE DEF d
<1> DEFINE u == Tail(c)
<1>7. /\ u \in Seq(S) /\ Len(u) = Len(c) - 1
      /\ \A i \in 1..Len(u) : u[i] = c[i + 1]
  BY <1>1, <1>3, HeadTailProperties
<1> HIDE DEF u
<1>8. Len(u) = Len(d)
  BY <1>1, <1>2, <1>5, <1>6, <1>7
<1>9. ASSUME NEW i \in 1..Len(u) PROVE u[i] = d[i]
  <2>1. i \in Nat /\ i + 1 \in 1..Len(a) + Len(b) /\ i \in 1..Len(t) + Len(b)
    BY <1>1, <1>2, <1>5, <1>7
  <2>2. u[i] = IF i + 1 <= Len(a) THEN a[i + 1] ELSE b[i + 1 - Len(a)]
    BY <1>1, <1>7, <2>1
  <2>3. d[i] = IF i <= Len(t) THEN t[i] ELSE b[i - Len(t)]
    BY <1>6, <2>1
  <2>4. CASE i + 1 <= Len(a)
    <3>1. i <= Len(t) /\ i \in 1..Len(t)
      BY <1>2, <1>5, <2>1, <2>4
    <3> QED
      BY <1>5, <2>2, <2>3, <2>4, <3>1
  <2>5. CASE ~(i + 1 <= Len(a))
    <3>1. ~(i <= Len(t)) /\ i + 1 - Len(a) = i - Len(t)
      BY <1>2, <1>5, <2>1, <2>5
    <3> QED
      BY <2>2, <2>3, <2>5, <3>1
  <2> QED
    BY <2>4, <2>5
<1>10. u = d
  BY <1>6, <1>7, <1>8, <1>9, SeqEqual
<1> QED
  BY <1>3, <1>4, <1>10 DEF c, d, t, u

\* The event in hand goes over to the queue in front.
LEMMA HandOver ==
    ASSUME NEW S, NEW a \in Seq(S), NEW b \in Seq(S), NEW e \in S
    PROVE  (a \o <<e>>) \o b = (Append(a, e) \o << >>) \o b
<1>1. Append(a, e) = a \o <<e>> /\ Append(a, e) \in Seq(S)
  BY AppendIsConcat, AppendProperties
<1>2. Append(a, e) \o << >> = Append(a, e)
  BY <1>1, ConcatEmptySeq
<1> QED
  BY <1>1, <1>2

\* The first event of the channel comes into the hands of the dispatcher.
LEMMA TakeOver ==
    ASSUME NEW S, NEW a \in Seq(S), NEW b \in Seq(S), b # << >>
    PROVE  (a \o << >>) \o b = (a \o <<Head(b)>>) \o Tail(b)
<1>1. Head(b) \in S /\ Tail(b) \in Seq(S) /\ Len(Tail(b)) = Len(b) - 1
      /\ \A i \in 1..Len(Tail(b)) : Tail(b)[i] = b[i + 1]
  BY HeadTailProperties
<1> DEFINE h == <<Head(b)>>
           t == Tail(b)
           c == h \o t
<1>2. h \in Seq(S) /\ Len(h) = 1 /\ h[1] = b[1]
  BY <1>1
<1>3. t \in Seq(S) /\ Len(t) = Len(b) - 1 /\ \A i \in 1..Len(t) : t[i] = b[i + 1]
  BY <1>1
<1>4. (a \o h) \o t = a \o c
  BY <1>2, <1>3, ConcatAssociative
<1>5. a \o << >> = a
  BY ConcatEmptySeq
<1> HIDE DEF h, t
<1>6. /\ c \in Seq(S) /\ Len(c) = Len(h) + Len(t)
      /\ \A i \in 1..Len(h) + Len(t) :
            c[i] = IF i <= Len(h) THEN h[i] ELSE t[i - Len(h)]
  <2>1. h \in Seq(S) /\ t \in Seq(S)
    BY <1>2, <1>3
  <2> QED
    BY ONLY <2>1, ConcatProperties, Zenon
<1> HIDE DEF c
<1>7. Len(b) \in Nat
  OBVIOUS
<1>8. ASSUME NEW i \in 1..Len(c) PROVE c[i] = b[i]
  <2>1. i \in Int /\ i \in 1..Len(h) + Len(t) /\ i <= Len(b)
    BY <1>2, <1>3, <1>6, <1>7
  <2>2. CASE i = 1
    BY <1>2, <1>6, <2>1, <2>2
  <2>3. CASE i # 1
    <3>1. i - 1 \in 1..Len(t) /\ ~(i <= Len(h)) /\ (i - 1) + 1 = i
      BY <1>2, <1>3, <1>7, <2>1, <2>3
    <3>2. c[i] = t[i - 1]
      BY <1>2, <1>6, <2>1, <3>1
    <3>3. t[i - 1] = b[(i - 1) + 1]
      BY <1>3, <3>1
    <3> QED
      BY <3>1, <3>2, <3>3
  <2> QED
    BY <2>2, <2>3
<1>9. Len(c) = Len(b)
  BY <1>2, <1>3, <1>6, <1>7
<1>10. c = b
  BY <1>6, <1>8, <1>9, SeqEqual
<1> QED
  BY <1>4, <1>5, <1>10 DEF h, t

\* An event is in the pipeline when it is in one of the parts.
LEMMA InPipeline ==
    ASSUME NEW S, NEW a \in Seq(S), NEW b \in Seq(S)
    PROVE  /\ a \o b \in Seq(S) /\ Len(a \o b) = Len(a) + Len(b)
           /\ \A i \in DOMAIN (a \o b) :
                 \/ \E j \in DOMAIN a : (a \o b)[i] = a[j]
                 \/ \E j \in DOMAIN b : (a \o b)[i] = b[j]
<1> DEFINE c == a \o b
<1>1. /\ c \in Seq(S) /\ Len(c) = Len(a) + Len(b)
      /\ \A i \in 1..Len(a) + Len(b) :
            c[i] = IF i <= Len(a) THEN a[i] ELSE b[i - Len(a)]
  BY ConcatProperties
<1>2. /\ DOMAIN a = 1..Len(a) /\ DOMAIN b = 1..Len(b) /\ DOMAIN c = 1..Len(c)
      /\ Len(a) \in Nat /\ Len(b) \in Nat
  BY <1>1
<1> HIDE DEF c
<1>3. ASSUME NEW i \in DOMAIN c
      PROVE  (\E j \in DOMAIN a : c[i] = a[j]) \/ (\E j \in DOMAIN b : c[i] = b[j])
  <2>1. i \in Int /\ i \in 1..Len(a) + Len(b)
    BY <1>1, <1>2
  <2>2. CASE i <= Len(a)
    <3>1. i \in DOMAIN a /\ c[i] = a[i]
      BY <1>1, <1>2, <2>1, <2>2
    <3> QED
      BY <3>1
  <2>3. CASE ~(i <= Len(a))
    <3>1. i - Len(a) \in DOMAIN b
      BY <1>2, <2>1, <2>3
    <3>2. c[i] = b[i - Len(a)]
      BY <1>1, <2>1, <2>3
    <3> QED
      BY <3>1, <3>2
  <2> QED
    BY <2>2, <2>3
<1> QED
  BY <1>1, <1>3 DEF c

\* Giving up the event in hand cuts it out of the pipeline.
LEMMA GiveUp ==
    ASSUME NEW S, NEW a \in Seq(S), NEW b \in Seq(S), NEW e \in S
    PROVE  LET p == (a \o <<e>>) \o b
               i == Len(a) + 1
           IN /\ i \in DOMAIN p
              /\ SubSeq(p, 1, i - 1) \o SubSeq(p, i + 1, Len(p)) = (a \o << >>) \o b
<1> DEFINE h == a \o <<e>>
           p == h \o b
           k == Len(a) + 1
           x == SubSeq(p, 1, k - 1)
           y == SubSeq(p, k + 1, Len(p))
<1>0. <<e>> \in Seq(S) /\ Len(<<e>>) = 1 /\ Len(a) \in Nat /\ Len(b) \in Nat
  OBVIOUS
<1>1. /\ h \in Seq(S) /\ Len(h) = Len(a) + 1
      /\ \A i \in 1..Len(a) : h[i] = a[i]
  <2>1. h = Append(a, e)
    BY AppendIsConcat
  <2> HIDE DEF h
  <2> QED
    BY <2>1, AppendProperties
<1> HIDE DEF h
<1>2. /\ p \in Seq(S) /\ Len(p) = Len(h) + Len(b)
      /\ \A i \in 1..Len(h) + Len(b) :
            p[i] = IF i <= Len(h) THEN h[i] ELSE b[i - Len(h)]
  <2>1. h \in Seq(S) /\ b \in Seq(S)
    BY <1>1
  <2> QED
    BY ONLY <2>1, ConcatProperties, Zenon
<1> HIDE DEF p
<1>3. DOMAIN p = 1..Len(p) /\ \A i \in 1..Len(p) : p[i] \in S
  BY <1>2
<1>4. k \in DOMAIN p
  BY <1>0, <1>1, <1>2, <1>3
<1>5. x = a
  <2>1. \A i \in 1..(k - 1) : p[i] \in S
    BY <1>0, <1>1, <1>2, <1>3
  <2>2. k \in Int /\ k - 1 = Len(a) /\ 1 \in Int /\ k - 1 \in Int
    BY <1>0
  <2>3. /\ x \in Seq(S) /\ Len(x) = IF 1 <= k - 1 THEN k - 1 - 1 + 1 ELSE 0
        /\ \A i \in 1..(k - 1 - 1 + 1) : x[i] = p[1 + i - 1]
    <3> HIDE DEF k
    <3> QED
      BY ONLY <2>1, <2>2, SubSeqProperties
  <2> HIDE DEF x
  <2>4. Len(x) = Len(a)
    BY ONLY <1>0, <2>2, <2>3
  <2>5. ASSUME NEW i \in 1..Len(x) PROVE x[i] = a[i]
    <3>1. /\ i \in 1..(k - 1 - 1 + 1) /\ 1 + i - 1 = i /\ i \in 1..Len(a)
          /\ i \in 1..Len(h) + Len(b) /\ i <= Len(h)
      BY <1>0, <1>1, <2>2, <2>4
    <3>2. x[i] = p[i]
      BY <2>3, <3>1
    <3>3. p[i] = h[i]
      BY <1>2, <3>1
    <3> QED
      BY <1>1, <3>1, <3>2, <3>3
  <2> QED
    BY <2>3, <2>4, <2>5, SeqEqual
<1>6. y = b
  <2>1. \A i \in (k + 1)..Len(p) : p[i] \in S
    BY <1>0, <1>3
  <2>2. k + 1 \in Int /\ Len(p) \in Int /\ k + 1 = Len(h) + 1
        /\ Len(p) = Len(h) + Len(b) /\ Len(h) \in Nat
    BY <1>0, <1>1, <1>2
  <2>3. /\ y \in Seq(S)
        /\ Len(y) = IF k + 1 <= Len(p) THEN Len(p) - (k + 1) + 1 ELSE 0
        /\ \A i \in 1..(Len(p) - (k + 1) + 1) : y[i] = p[(k + 1) + i - 1]
    <3> HIDE DEF k
    <3> QED
      BY ONLY <2>1, <2>2, SubSeqProperties
  <2> HIDE DEF y, k
  <2>4. Len(y) = Len(b)
    BY ONLY <1>0, <2>2, <2>3
  <2>5. ASSUME NEW i \in 1..Len(y) PROVE y[i] = b[i]
    <3>1. /\ i \in 1..(Len(p) - (k + 1) + 1) /\ (k + 1) + i - 1 = Len(h) + i
          /\ Len(h) + i \in 1..Len(h) + Len(b) /\ ~(Len(h) + i <= Len(h))
          /\ (Len(h) + i) - Len(h) = i
      BY <1>0, <2>2, <2>4
    <3>2. y[i] = p[Len(h) + i]
      BY <2>3, <3>1
    <3>3. p[Len(h) + i] = b[(Len(h) + i) - Len(h)]
      BY <1>2, <3>1
    <3> QED
      BY <3>1, <3>2, <3>3
  <2> QED
    BY <2>3, <2>4, <2>5, SeqEqual
<1>7. a \o << >> = a
  BY ConcatEmptySeq
<1>8. /\ k \in DOMAIN p /\ x \o y = (a \o << >>) \o b
  BY <1>4, <1>5, <1>6, <1>7, Zenon
<1> QED
  BY <1>8 DEF p, h

-----------------------------------------------------------------------------
(* The refinement *)

inHand(s) == IF held[s] = None THEN << >> ELSE <<held[s]>>

pending == [s \in Sub |-> pipeline(s)]

LEMMA PipelineFacts ==
    ASSUME IInv, NEW s \in Sub
    PROVE  /\ pipeline(s) = (jobs[s].queue \o inHand(s)) \o events[s].queue
           /\ jobs[s].queue \in Seq(Event) /\ events[s].queue \in Seq(Event)
           /\ inHand(s) \in Seq(Event)
           /\ jobs[s].queue \o inHand(s) \in Seq(Event)
           /\ pipeline(s) \in Seq(Event)
           /\ Len(pipeline(s)) >= Len(events[s].queue)
           /\ \A i \in DOMAIN pipeline(s) : seen(s, pipeline(s)[i])
<1>1. pipeline(s) = (jobs[s].queue \o inHand(s)) \o events[s].queue
  BY DEF pipeline, inHand
<1>2. /\ jobs[s].queue \in Seq(Event) /\ events[s].queue \in Seq(Event)
      /\ held[s] \in Event \cup {None}
  BY DEF IInv, Typed, Chan
<1>3. /\ inHand(s) \in Seq(Event)
      /\ \A i \in DOMAIN inHand(s) : inHand(s)[i] = held[s]
  BY <1>2 DEF inHand
<1> DEFINE a == jobs[s].queue
           h == inHand(s)
           b == events[s].queue
           c == a \o h
           d == c \o b
<1>4. a \in Seq(Event) /\ b \in Seq(Event) /\ h \in Seq(Event)
  BY <1>2, <1>3
<1> HIDE DEF a, h, b
<1>5. /\ c \in Seq(Event) /\ Len(c) = Len(a) + Len(h)
      /\ \A i \in DOMAIN c : \/ \E j \in DOMAIN a : c[i] = a[j]
                             \/ \E j \in DOMAIN h : c[i] = h[j]
  <2>1. a \in Seq(Event) /\ h \in Seq(Event)
    BY <1>4
  <2> QED
    BY ONLY <2>1, InPipeline
<1> HIDE DEF c
<1>6. /\ d \in Seq(Event) /\ Len(d) = Len(c) + Len(b)
      /\ \A i \in DOMAIN d : \/ \E j \in DOMAIN c : d[i] = c[j]
                             \/ \E j \in DOMAIN b : d[i] = b[j]
  <2>1. c \in Seq(Event) /\ b \in Seq(Event)
    BY <1>4, <1>5
  <2> QED
    BY ONLY <2>1, InPipeline
<1> HIDE DEF d
<1>7. Len(d) >= Len(b)
  <2>1. Len(c) \in Nat /\ Len(b) \in Nat
    BY <1>4, <1>5
  <2> QED
    BY <1>6, <2>1
<1>8. ASSUME NEW i \in DOMAIN d
      PROVE  \/ \E j \in DOMAIN a : d[i] = a[j]
             \/ \E j \in DOMAIN h : d[i] = h[j]
             \/ \E j \in DOMAIN b : d[i] = b[j]
  <2>1. CASE \E j \in DOMAIN b : d[i] = b[j]
    BY <2>1
  <2>2. CASE \E j \in DOMAIN c : d[i] = c[j]
    BY <1>5, <2>2, Zenon
  <2> QED
    BY <1>6, <2>1, <2>2
<1>9. ASSUME NEW i \in DOMAIN d PROVE seen(s, d[i])
  <2>1. \A j \in DOMAIN h : h[j] = held[s]
    BY <1>3 DEF h
  <2>2. \/ \E j \in DOMAIN jobs[s].queue : jobs[s].queue[j] = d[i]
        \/ d[i] = held[s]
        \/ \E j \in DOMAIN events[s].queue : events[s].queue[j] = d[i]
    BY <1>8, <2>1, Zenon DEF a, b
  <2> QED
    BY <2>2, Zenon DEF seen
<1>10. pipeline(s) = d
  BY <1>1 DEF d, c, a, h, b
<1> QED
  BY <1>1, <1>2, <1>3, <1>5, <1>6, <1>7, <1>9, <1>10 DEF c, a, h, b

\* An event that is being sent is new to its target.
LEMMA SendFresh ==
    ASSUME IInv, NEW p \in Publisher, publish[p].at = "sending"
    PROVE  Delivery!fresh(Head(publish[p].targets), <<p, publish[p].n>>)
<1> DEFINE s == Head(publish[p].targets)
           e == <<p, publish[p].n>>
<1>1. s \in Sub /\ publish[p].n \in 1..MaxEvents /\ ahead(p, publish[p].n, s)
  BY SendFacts
<1>2. ~seen(s, e)
  BY <1>1, Zenon DEF IInv, NotYetSeen
<1> HIDE DEF s, e
<1>3. e \notin ghost.taken[s]
  BY <1>2 DEF seen
<1>4. \A i \in DOMAIN pipeline(s) : pipeline(s)[i] # e
  BY <1>1, <1>2, PipelineFacts, Zenon
<1>5. pending[s] = pipeline(s)
  BY <1>1 DEF pending
<1> QED
  BY <1>1, <1>3, <1>4, <1>5 DEF Delivery!fresh, s, e, pending

\* A step that leaves every pipeline alone is a stutter.
LEMMA Stutters ==
    ASSUME \A s \in Sub : pipeline(s)' = pipeline(s),
           ghost'.taken = ghost.taken, retention' = retention,
           workerCtxDone' = workerCtxDone
    PROVE  UNCHANGED Delivery!vars
<1>1. pending' = pending
  BY DEF pending
<1> QED
  BY <1>1, Zenon DEF Delivery!vars, pending

\* Queues and hands that stay as they are.
LEMMA SameQueues ==
    ASSUME NEW s, jobs'[s].queue = jobs[s].queue, held'[s] = held[s],
           events'[s].queue = events[s].queue
    PROVE  pipeline(s)' = pipeline(s)
  BY DEF pipeline

LEMMA RefinesSend ==
    ASSUME IInv, NEW p \in Publisher, PublishSend(p)
    PROVE  Delivery!Next \/ UNCHANGED Delivery!vars
<1>0. /\ publish[p].at = "sending"
      /\ UNCHANGED <<jobs, held, main>>
  BY SendCases, Zenon
<1>p. PICK s \in Sub, e \in Event :
         s = Head(publish[p].targets) /\ e = <<p, publish[p].n>>
  BY <1>0, SendFacts
<1>1. s \in Sub /\ e \in Event /\ Delivery!fresh(s, e)
  BY <1>0, <1>p, SendFresh
<1>2. ghost' = offered(p) => ghost'.taken = ghost.taken
  BY <1>0, OfferedFacts
<1>3. workerCtxDone' = workerCtxDone
  BY <1>0 DEF workerCtxDone
<1>c. \/ UNCHANGED <<events, retention, ghost>>
      \/ /\ events' = [events EXCEPT ![s].queue = Append(events[s].queue, e)]
         /\ ghost' = offered(p)
         /\ UNCHANGED retention
      \/ /\ full(s)
         /\ retention' = [retention EXCEPT ![e] = retention[e] + 1]
         /\ ghost' = offered(p)
         /\ UNCHANGED events
  BY <1>p, SendCases
<1>4. CASE UNCHANGED <<events, retention, ghost>>
  <2>1. \A t \in Sub : pipeline(t)' = pipeline(t)
    BY <1>0, <1>4 DEF pipeline
  <2> QED
    BY <1>3, <1>4, <2>1, Stutters
<1>5. CASE /\ events' = [events EXCEPT ![s].queue = Append(events[s].queue, e)]
           /\ ghost' = offered(p)
           /\ UNCHANGED retention
  <2>1. /\ pipeline(s) = (jobs[s].queue \o inHand(s)) \o events[s].queue
        /\ jobs[s].queue \o inHand(s) \in Seq(Event)
        /\ events[s].queue \in Seq(Event)
    BY <1>1, PipelineFacts
  <2>2. Append(events[s].queue, e) \in Seq(Event)
    BY <1>1, <2>1, AppendFacts
  <2>3. /\ events'[s].queue = Append(events[s].queue, e)
        /\ \A t \in Sub : t # s => events'[t] = events[t]
    BY <1>1, <1>5, <2>2, EventsUpdate, Zenon DEF IInv, Typed
  <2>4. \A t \in Sub : t # s => pipeline(t)' = pipeline(t)
    BY <1>0, <2>3 DEF pipeline
  <2>5. pipeline(s)' = (jobs[s].queue \o inHand(s)) \o Append(events[s].queue, e)
    BY <1>0, <2>3 DEF pipeline, inHand
  <2>6. (jobs[s].queue \o inHand(s)) \o Append(events[s].queue, e)
          = Append((jobs[s].queue \o inHand(s)) \o events[s].queue, e)
    <3> DEFINE a == jobs[s].queue \o inHand(s)
               b == events[s].queue
    <3>1. a \in Seq(Event) /\ b \in Seq(Event) /\ e \in Event
      BY <1>1, <2>1
    <3> HIDE DEF a, b
    <3>2. a \o Append(b, e) = Append(a \o b, e)
      BY ONLY <3>1, EnqueueAtEnd
    <3> QED
      BY <3>2 DEF a, b
  <2>7. pipeline(s)' = Append(pipeline(s), e)
    BY <2>1, <2>5, <2>6, Zenon
  <2>8. pending' = [pending EXCEPT ![s] = Append(pending[s], e)]
    BY <1>1, <2>4, <2>7 DEF pending
  <2>9. Delivery!enqueue(s, e)
    BY <1>1, <1>2, <1>3, <1>5, <2>8, Zenon DEF Delivery!enqueue, pending
  <2> QED
    BY <1>1, <2>9, Zenon DEF Delivery!Next
<1>6. CASE /\ full(s)
           /\ retention' = [retention EXCEPT ![e] = retention[e] + 1]
           /\ ghost' = offered(p)
           /\ UNCHANGED events
  <2>1. Len(pipeline(s)) >= Len(events[s].queue) /\ Len(events[s].queue) >= BufCap
        /\ pipeline(s) \in Seq(Event) /\ events[s].queue \in Seq(Event)
    BY <1>1, <1>6, PipelineFacts DEF full
  <2>2. Len(pipeline(s)) >= BufCap
    <3>1. Len(pipeline(s)) \in Nat /\ Len(events[s].queue) \in Nat
      BY <2>1
    <3> QED
      BY <2>1, <3>1, BrokerAssumption
  <2>3. pending[s] = pipeline(s)
    BY <1>1 DEF pending
  <2>4. \A t \in Sub : pipeline(t)' = pipeline(t)
    BY <1>0, <1>6 DEF pipeline
  <2>5. pending' = pending
    BY <2>4 DEF pending
  <2>6. Len(pending[s]) >= BufCap
    BY <2>2, <2>3
  <2>7. Delivery!drop(s, e)
    BY <1>1, <1>2, <1>3, <1>6, <2>5, <2>6, Zenon DEF Delivery!drop, pending
  <2> QED
    BY <1>1, <2>7, Zenon DEF Delivery!Next
<1> QED
  BY <1>4, <1>5, <1>6, <1>c, Zenon

LEMMA RefinesReceive ==
    ASSUME IInv, NEW s \in Sub, receive(s)
    PROVE  UNCHANGED Delivery!vars
<1>1. UNCHANGED <<jobs, main, retention, ghost>>
  BY Zenon DEF receive
<1>2. workerCtxDone' = workerCtxDone
  BY <1>1 DEF workerCtxDone
<1>3. CASE UNCHANGED <<held, events>>
  <2>1. \A t \in Sub : pipeline(t)' = pipeline(t)
    BY <1>1, <1>3 DEF pipeline
  <2> QED
    BY <1>1, <1>2, <2>1, Stutters
<1>4. CASE /\ events[s].queue # << >>
           /\ held' = [held EXCEPT ![s] = Head(events[s].queue)]
           /\ events' = [events EXCEPT ![s].queue = Tail(events[s].queue)]
  <2>1. held[s] = None /\ held \in [Sub -> Event \cup {None}]
    BY DEF receive, IInv, Typed, PoolShape
  <2>2. /\ pipeline(s) = (jobs[s].queue \o inHand(s)) \o events[s].queue
        /\ jobs[s].queue \in Seq(Event) /\ events[s].queue \in Seq(Event)
    BY PipelineFacts
  <2>3. Head(events[s].queue) \in Event /\ Tail(events[s].queue) \in Seq(Event)
    BY <1>4, <2>2, TailFacts
  <2>4. /\ events'[s].queue = Tail(events[s].queue)
        /\ \A t \in Sub : t # s => events'[t] = events[t]
    BY <1>4, <2>3, EventsUpdate, Zenon DEF IInv, Typed
  <2>5. /\ held'[s] = Head(events[s].queue) /\ held'[s] # None
        /\ \A t \in Sub : t # s => held'[t] = held[t]
    BY <1>4, <2>1, <2>3, BrokerAssumption DEF Event
  <2>6. pipeline(s)' = (jobs[s].queue \o <<Head(events[s].queue)>>)
                          \o Tail(events[s].queue)
    <3>1. pipeline(s)' = (jobs'[s].queue \o <<held'[s]>>) \o events'[s].queue
      BY <2>5, Zenon DEF pipeline
    <3> QED
      BY <1>1, <2>4, <2>5, <3>1, Zenon
  <2>7. pipeline(s) = (jobs[s].queue \o << >>) \o events[s].queue
    BY <2>1, Zenon DEF pipeline
  <2>8. (jobs[s].queue \o << >>) \o events[s].queue
          = (jobs[s].queue \o <<Head(events[s].queue)>>) \o Tail(events[s].queue)
    BY <1>4, <2>2, TakeOver, Zenon
  <2>9. \A t \in Sub : t # s => pipeline(t)' = pipeline(t)
    BY <1>1, <2>4, <2>5 DEF pipeline
  <2>10. \A t \in Sub : pipeline(t)' = pipeline(t)
    BY <2>6, <2>7, <2>8, <2>9, Zenon
  <2> QED
    BY <1>1, <1>2, <2>10, Stutters
<1> QED
  BY <1>3, <1>4, Zenon DEF receive

LEMMA RefinesDispatch ==
    ASSUME IInv, NEW s \in Sub, dispatch(s)
    PROVE  Delivery!Next \/ UNCHANGED Delivery!vars
<1>1. UNCHANGED <<events, main, retention, ghost>>
  BY Zenon DEF dispatch
<1>2. workerCtxDone' = workerCtxDone
  BY <1>1 DEF workerCtxDone
<1>3. held[s] # None /\ held[s] \in Event /\ held \in [Sub -> Event \cup {None}]
  BY DEF dispatch, IInv, PoolShape, Typed
<1>4. jobs[s].queue \in Seq(Event) /\ events[s].queue \in Seq(Event)
  BY PipelineFacts
<1>5. pipeline(s) = (jobs[s].queue \o <<held[s]>>) \o events[s].queue
  BY <1>3, Zenon DEF pipeline
<1>6. ASSUME held' = [held EXCEPT ![s] = None]
      PROVE  /\ pipeline(s)' = (jobs'[s].queue \o << >>) \o events[s].queue
             /\ \A t \in Sub : t # s => held'[t] = held[t]
  <2>1. held'[s] = None /\ \A t \in Sub : t # s => held'[t] = held[t]
    BY <1>3, <1>6
  <2>2. pipeline(s)' = (jobs'[s].queue \o << >>) \o events'[s].queue
    BY <2>1, Zenon DEF pipeline
  <2> QED
    BY <1>1, <2>1, <2>2, Zenon
<1>7. CASE /\ jobs' = [jobs EXCEPT ![s].queue = Append(jobs[s].queue, held[s])]
           /\ held' = [held EXCEPT ![s] = None]
  <2>1. Append(jobs[s].queue, held[s]) \in Seq(Event)
    BY <1>3, <1>4, AppendFacts
  <2>2. /\ jobs'[s].queue = Append(jobs[s].queue, held[s])
        /\ \A t \in Sub : t # s => jobs'[t] = jobs[t]
    BY <1>7, <2>1, JobsUpdate, Zenon DEF IInv, Typed
  <2>3. pipeline(s)' = pipeline(s)
    <3> DEFINE a == jobs[s].queue
               b == events[s].queue
               h == held[s]
    <3>1. a \in Seq(Event) /\ b \in Seq(Event) /\ h \in Event
      BY <1>3, <1>4
    <3>2. /\ pipeline(s) = (a \o <<h>>) \o b
          /\ pipeline(s)' = (Append(a, h) \o << >>) \o b
      BY <1>5, <1>6, <1>7, <2>2, Zenon
    <3> HIDE DEF a, b, h
    <3>3. (a \o <<h>>) \o b = (Append(a, h) \o << >>) \o b
      BY ONLY <3>1, HandOver
    <3> QED
      BY <3>2, <3>3, Zenon
  <2>4. \A t \in Sub : t # s => pipeline(t)' = pipeline(t)
    <3>1. \A t \in Sub : t # s => held'[t] = held[t]
      BY <1>6, <1>7, Zenon
    <3> QED
      BY <1>1, <2>2, <3>1 DEF pipeline
  <2>5. \A t \in Sub : pipeline(t)' = pipeline(t)
    BY <2>3, <2>4, Zenon
  <2> QED
    BY <1>1, <1>2, <2>5, Stutters
<1>8. CASE /\ workerCtxDone
           /\ held' = [held EXCEPT ![s] = None]
           /\ UNCHANGED jobs
  <2> DEFINE q == pipeline(s)
             i == Len(jobs[s].queue) + 1
             r == SubSeq(q, 1, i - 1) \o SubSeq(q, i + 1, Len(q))
  <2>1. i \in DOMAIN q /\ r = (jobs[s].queue \o << >>) \o events[s].queue
    <3> DEFINE a == jobs[s].queue
               b == events[s].queue
               h == held[s]
    <3>1. a \in Seq(Event) /\ b \in Seq(Event) /\ h \in Event
      BY <1>3, <1>4
    <3>2. q = (a \o <<h>>) \o b /\ i = Len(a) + 1
      BY <1>5
    <3> HIDE DEF a, b, h, q, i
    <3>3. LET p == (a \o <<h>>) \o b
              k == Len(a) + 1
          IN /\ k \in DOMAIN p
             /\ SubSeq(p, 1, k - 1) \o SubSeq(p, k + 1, Len(p)) = (a \o << >>) \o b
      BY ONLY <3>1, GiveUp, ZenonT(60)
    <3>4. i \in DOMAIN q /\ r = (a \o << >>) \o b
      BY <3>2, <3>3
    <3> QED
      BY <3>4 DEF a, b
  <2>2. pipeline(s)' = r
    <3>1. pipeline(s)' = (jobs'[s].queue \o << >>) \o events[s].queue
      BY <1>6, <1>8, Zenon
    <3>2. jobs' = jobs
      BY <1>8
    <3> QED
      BY <2>1, <3>1, <3>2, Zenon
  <2>3. \A t \in Sub : t # s => pipeline(t)' = pipeline(t)
    <3>1. \A t \in Sub : t # s => held'[t] = held[t]
      BY <1>6, <1>8, Zenon
    <3>2. jobs' = jobs /\ events' = events
      BY <1>1, <1>8
    <3> QED
      BY <3>1, <3>2 DEF pipeline
  <2>4. pending[s] = q
    BY DEF pending
  <2>5. \E k \in DOMAIN pending[s] :
           pending' = [pending EXCEPT ![s] =
              SubSeq(pending[s], 1, k - 1)
                \o SubSeq(pending[s], k + 1, Len(pending[s]))]
    <3>1. PICK k \in DOMAIN q :
             pipeline(s)' = SubSeq(q, 1, k - 1) \o SubSeq(q, k + 1, Len(q))
      BY <2>1, <2>2, Zenon
    <3> DEFINE x == SubSeq(q, 1, k - 1) \o SubSeq(q, k + 1, Len(q))
    <3>2. pipeline(s)' = x
      BY <3>1
    <3> HIDE DEF x
    <3>3. pending' = [pending EXCEPT ![s] = x]
      BY <2>3, <3>2 DEF pending
    <3> QED
      BY <2>4, <3>3, Zenon DEF x
  <2>6. Delivery!discard(s)
    BY <1>1, <1>2, <1>8, <2>5, Zenon DEF Delivery!discard, pending
  <2> QED
    BY <2>6, Zenon DEF Delivery!Next
<1>9. CASE UNCHANGED <<jobs, held>>
  <2>1. \A t \in Sub : pipeline(t)' = pipeline(t)
    BY <1>1, <1>9 DEF pipeline
  <2> QED
    BY <1>1, <1>2, <2>1, Stutters
<1> QED
  BY <1>7, <1>8, <1>9, Zenon DEF dispatch

LEMMA RefinesTake ==
    ASSUME IInv, NEW s \in Sub, NEW w \in Worker, takeJob(s, w)
    PROVE  Delivery!Next \/ UNCHANGED Delivery!vars
<1>1. UNCHANGED <<events, held, main, retention>>
  BY Zenon DEF takeJob
<1>2. workerCtxDone' = workerCtxDone
  BY <1>1 DEF workerCtxDone
<1>3. CASE UNCHANGED <<jobs, ghost>>
  <2>1. \A t \in Sub : pipeline(t)' = pipeline(t)
    BY <1>1, <1>3 DEF pipeline
  <2> QED
    BY <1>1, <1>2, <1>3, <2>1, Stutters
<1>4. CASE /\ jobs[s].queue # << >>
           /\ jobs' = [jobs EXCEPT ![s].queue = Tail(jobs[s].queue)]
           /\ ghost' = [ghost EXCEPT !.taken[s] =
                          ghost.taken[s] \cup {Head(jobs[s].queue)}]
  <2>1. /\ jobs'[s].queue = Tail(jobs[s].queue)
        /\ \A t \in Sub : t # s => jobs'[t] = jobs[t]
        /\ ghost'.taken = [ghost.taken EXCEPT ![s] =
                             ghost.taken[s] \cup {Head(jobs[s].queue)}]
    BY <1>4, TakeFacts, Zenon
  <2> DEFINE a == jobs[s].queue
             h == inHand(s)
             b == events[s].queue
             c == a \o h
  <2>2. /\ pipeline(s) = c \o b
        /\ a \in Seq(Event) /\ h \in Seq(Event) /\ b \in Seq(Event)
        /\ c \in Seq(Event) /\ a # << >>
    BY <1>4, PipelineFacts
  <2>3. pipeline(s)' = (Tail(a) \o h) \o b
    <3>1. pipeline(s)' = (jobs'[s].queue \o (IF held'[s] = None THEN << >>
                                             ELSE <<held'[s]>>)) \o events'[s].queue
      BY Zenon DEF pipeline
    <3> QED
      BY <1>1, <2>1, <3>1 DEF inHand
  <2> HIDE DEF a, h, b
  <2>4. c # << >> /\ Head(c) = Head(a) /\ Tail(c) = Tail(a) \o h
    BY ONLY <2>2, TakeAtFront
  <2> HIDE DEF c
  <2>5. c \o b # << >> /\ Head(c \o b) = Head(c) /\ Tail(c \o b) = Tail(c) \o b
    BY ONLY <2>2, <2>4, TakeAtFront
  <2>6. /\ pipeline(s) # << >> /\ Head(pipeline(s)) = Head(jobs[s].queue)
        /\ pipeline(s)' = Tail(pipeline(s))
    BY <2>2, <2>3, <2>4, <2>5, Zenon DEF a
  <2>7. \A t \in Sub : t # s => pipeline(t)' = pipeline(t)
    BY <1>1, <2>1 DEF pipeline
  <2>8. pending[s] = pipeline(s)
    BY DEF pending
  <2>9. pending' = [pending EXCEPT ![s] = Tail(pending[s])]
    BY <2>6, <2>7 DEF pending
  <2>10. pending[s] # << >> /\ Head(pending[s]) = Head(jobs[s].queue)
    BY <2>6, <2>8
  <2>11. Delivery!take(s)
    BY <1>1, <1>2, <2>1, <2>9, <2>10, Zenon DEF Delivery!take, pending
  <2> QED
    BY <2>11, Zenon DEF Delivery!Next
<1> QED
  BY <1>3, <1>4, Zenon DEF takeJob

\* The other steps leave the queues as they are, and the first of the
\* teardown is the stop.
LEMMA RefinesRest ==
    ASSUME IInv,
           \/ \E p \in Publisher : PublishCheck(p) \/ PublishCopy(p)
           \/ \E s \in Sub : \/ startTopicWorkerPool(s) \/ janitorStep(s)
                             \/ closeJobs(s)
           \/ \E s \in Sub, w \in Worker : finish(s, w)
           \/ workerCancel \/ raftCancel \/ deferredClose
    PROVE  Delivery!Next \/ UNCHANGED Delivery!vars
<1>e. events \in [Sub -> Chan] /\ jobs \in [Sub -> Chan]
  BY DEF IInv, Typed
<1>s. ASSUME \A t \in Sub : /\ jobs'[t].queue = jobs[t].queue
                            /\ events'[t].queue = events[t].queue,
             held' = held, ghost' = ghost, retention' = retention,
             main' = main \/ (main # "up" /\ main' # "up")
      PROVE  UNCHANGED Delivery!vars
  <2>1. \A t \in Sub : pipeline(t)' = pipeline(t)
    BY <1>s DEF pipeline
  <2>2. workerCtxDone' = workerCtxDone
    BY <1>s DEF workerCtxDone
  <2> QED
    BY <1>s, <2>1, <2>2, Stutters
<1>1. CASE \/ \E p \in Publisher : PublishCheck(p) \/ PublishCopy(p)
           \/ \E s \in Sub : startTopicWorkerPool(s) \/ removeSubscriber(s)
           \/ \E s \in Sub, w \in Worker : finish(s, w)
           \/ raftCancel
  <2>1. /\ UNCHANGED <<jobs, events, held, ghost, retention>>
        /\ main' = main \/ (main = "workers" /\ main' = "raft")
    BY <1>1, Zenon DEF PublishCheck, PublishCopy, startTopicWorkerPool,
       removeSubscriber, finish, raftCancel, poolVars
  <2> QED
    BY <1>s, <2>1
<1>2. ASSUME NEW s \in Sub, closeEvents(s) PROVE UNCHANGED Delivery!vars
  <2>1. /\ UNCHANGED <<jobs, held, ghost, retention, main>>
        /\ events' = [events EXCEPT ![s].open = FALSE]
    BY <1>2, Zenon DEF closeEvents, poolVars
  <2>2. \A t \in Sub : events'[t].queue = events[t].queue
    BY <1>e, <2>1, EventsClose, Zenon
  <2> QED
    BY <1>s, <2>1, <2>2
<1>3. ASSUME NEW s \in Sub, closeJobs(s) PROVE UNCHANGED Delivery!vars
  <2>1. /\ UNCHANGED <<events, held, ghost, retention, main>>
        /\ jobs' = [jobs EXCEPT ![s].open = FALSE]
    BY <1>3, Zenon DEF closeJobs
  <2>2. \A t \in Sub : jobs'[t].queue = jobs[t].queue
    BY <1>e, <2>1, JobsClose, Zenon
  <2> QED
    BY <1>s, <2>1, <2>2
<1>4. CASE workerCancel
  <2>1. /\ UNCHANGED <<jobs, events, held, ghost, retention>>
        /\ main' = "workers"
    BY <1>4, Zenon DEF workerCancel, poolVars
  <2>2. \A t \in Sub : pipeline(t)' = pipeline(t)
    BY <2>1 DEF pipeline
  <2>3. pending' = pending
    BY <2>2 DEF pending
  <2>4. workerCtxDone' = TRUE
    BY <2>1 DEF workerCtxDone
  <2>5. Delivery!stop
    BY <2>1, <2>3, <2>4, Zenon DEF Delivery!stop, pending
  <2> QED
    BY <2>5, Zenon DEF Delivery!Next
<1>5. CASE deferredClose
  <2>1. /\ UNCHANGED <<jobs, held, ghost, retention>>
        /\ main = "raft" /\ main' = "down"
    BY <1>5, Zenon DEF deferredClose, poolVars
  <2>2. \A t \in Sub : events'[t].queue = events[t].queue
    BY <1>5 DEF deferredClose, Close
  <2> QED
    BY <1>s, <2>1, <2>2
<1> QED
  BY <1>1, <1>2, <1>3, <1>4, <1>5, Zenon DEF janitorStep

LEMMA RefinesInit == Init => Delivery!Init
<1> SUFFICES ASSUME Init PROVE Delivery!Init
  OBVIOUS
<1>1. \A s \in Sub : pipeline(s) = (<< >> \o << >>) \o << >>
  BY DEF Init, pipeline
<1>2. (<< >> \o << >>) \o << >> = << >>
  <2>1. << >> \in Seq(Event)
    OBVIOUS
  <2> QED
    BY <2>1, ConcatEmptySeq
<1>3. \A s \in Sub : pipeline(s) = << >>
  BY <1>1, <1>2
<1>4. pending = [s \in Sub |-> << >>]
  BY <1>3 DEF pending
<1>5. ghost.taken = [s \in Sub |-> {}] /\ retention = [e \in Event |-> 0]
  BY DEF Init
<1>6. workerCtxDone = FALSE
  BY DEF Init, workerCtxDone
<1> QED
  BY <1>4, <1>5, <1>6, Zenon DEF Delivery!Init, pending

LEMMA RefinesNext ==
    IInv /\ [Next]_vars => [Delivery!Next]_(Delivery!vars)
<1> SUFFICES ASSUME IInv, [Next]_vars
             PROVE  Delivery!Next \/ UNCHANGED Delivery!vars
  OBVIOUS
<1>1. CASE Next
  BY <1>1, RefinesSend, RefinesReceive, RefinesDispatch, RefinesTake,
     RefinesRest, Zenon
     DEF Next, dispatcherStep, workerStep
<1>2. CASE UNCHANGED vars
  <2>1. UNCHANGED <<jobs, events, held, ghost, retention, main>>
    BY <1>2, Zenon DEF vars, poolVars
  <2>2. \A t \in Sub : pipeline(t)' = pipeline(t)
    BY <2>1 DEF pipeline
  <2>3. workerCtxDone' = workerCtxDone
    BY <2>1 DEF workerCtxDone
  <2> QED
    BY <2>1, <2>2, <2>3, Stutters
<1> QED
  BY <1>1, <1>2

\* The broker with its worker pools implements EventDelivery: per pool one
\* queue in which no event is repeated or overtaken, none is lost before the
\* teardown, and none dropped without a record and a full buffer before it.
THEOREM BrokerDelivers == Spec => DeliveryImplemented
<1>1. Init => Delivery!Init
  BY RefinesInit
<1>2. IInv /\ [Next]_vars => [Delivery!Next]_(Delivery!vars)
  BY RefinesNext
<1> QED
  BY <1>1, <1>2, BrokerInvariant, PTL DEF Spec, Delivery!Spec, DeliveryImplemented

-----------------------------------------------------------------------------
(* Every offer is accounted for *)

\* Nothing is noted as offered that is yet to be offered.
OfferAhead ==
    \A p \in Publisher, k \in 1..MaxEvents, s \in Sub :
        ahead(p, k, s) => s \notin ghost.offered[<<p, k>>]

viewers(e) == {s \in Sub : seen(s, e)}

Audited ==
    main = "up" =>
        \A e \in Event :
            Cardinality(ghost.offered[e]) = Cardinality(viewers(e)) + retention[e]

In(q, e) == \E i \in DOMAIN q : q[i] = e

LEMMA InAppend ==
    ASSUME NEW S, NEW q \in Seq(S), NEW x \in S, NEW e
    PROVE  In(Append(q, x), e) <=> In(q, e) \/ e = x
<1>1. /\ DOMAIN Append(q, x) = 1..(Len(q) + 1) /\ DOMAIN q = 1..Len(q)
      /\ \A i \in DOMAIN q : Append(q, x)[i] = q[i]
      /\ Append(q, x)[Len(q) + 1] = x /\ Len(q) \in Nat
  BY AppendFacts
<1>2. \A i \in DOMAIN Append(q, x) : i \in DOMAIN q \/ i = Len(q) + 1
  BY <1>1
<1>3. \A i \in DOMAIN q : i \in DOMAIN Append(q, x)
  BY <1>1
<1>4. Len(q) + 1 \in DOMAIN Append(q, x)
  BY <1>1
<1> QED
  BY <1>1, <1>2, <1>3, <1>4, Zenon DEF In

LEMMA InTail ==
    ASSUME NEW S, NEW q \in Seq(S), q # << >>, NEW e
    PROVE  In(q, e) <=> e = Head(q) \/ In(Tail(q), e)
<1>1. PICK L \in Nat : L = Len(q) /\ L > 0
  OBVIOUS
<1>2. /\ DOMAIN q = 1..L /\ DOMAIN Tail(q) = 1..(L - 1) /\ Head(q) = q[1]
      /\ \A i \in 1..(L - 1) : Tail(q)[i] = q[i + 1]
  <2>1. Tail(q) \in Seq(S) /\ Len(Tail(q)) = L - 1
    BY <1>1
  <2>2. DOMAIN Tail(q) = 1..(L - 1)
    BY <2>1
  <2> QED
    BY <1>1, <2>2
<1>3. ASSUME NEW i \in 1..L, i # 1 PROVE q[i] = Tail(q)[i - 1] /\ i - 1 \in 1..(L - 1)
  <2>1. i - 1 \in 1..(L - 1) /\ (i - 1) + 1 = i
    BY <1>3
  <2> QED
    BY <1>2, <2>1
<1>4. \A i \in 1..(L - 1) : i + 1 \in 1..L
  OBVIOUS
<1>5. 1 \in 1..L
  BY <1>1
<1>6. ASSUME In(q, e), e # Head(q) PROVE In(Tail(q), e)
  BY <1>2, <1>3, <1>6 DEF In
<1>7. ASSUME In(Tail(q), e) PROVE In(q, e)
  BY <1>2, <1>4, <1>7 DEF In
<1> QED
  BY <1>2, <1>5, <1>6, <1>7 DEF In

LEMMA InConcat ==
    ASSUME NEW S, NEW a \in Seq(S), NEW b \in Seq(S), NEW e
    PROVE  In(a \o b, e) <=> In(a, e) \/ In(b, e)
<1>1. /\ a \o b \in Seq(S) /\ Len(a \o b) = Len(a) + Len(b)
      /\ \A i \in DOMAIN (a \o b) :
            \/ \E j \in DOMAIN a : (a \o b)[i] = a[j]
            \/ \E j \in DOMAIN b : (a \o b)[i] = b[j]
  BY InPipeline
<1>2. /\ DOMAIN (a \o b) = 1..(Len(a) + Len(b)) /\ DOMAIN a = 1..Len(a)
      /\ DOMAIN b = 1..Len(b) /\ Len(a) \in Nat /\ Len(b) \in Nat
  BY <1>1
<1>3. \A j \in DOMAIN a : j \in DOMAIN (a \o b) /\ (a \o b)[j] = a[j]
  BY <1>2
<1>4. \A j \in DOMAIN b : Len(a) + j \in DOMAIN (a \o b) /\ (a \o b)[Len(a) + j] = b[j]
  BY <1>2
<1> QED
  BY <1>1, <1>3, <1>4 DEF In

\* To be in the pipeline of a pool is to be in one of its parts.
LEMMA ReachedSeen ==
    ASSUME IInv, NEW s \in Sub, NEW e \in Event
    PROVE  reached(s, e) <=> seen(s, e)
<1> DEFINE a == jobs[s].queue
           h == inHand(s)
           b == events[s].queue
<1>1. /\ pipeline(s) = (a \o h) \o b
      /\ a \in Seq(Event) /\ b \in Seq(Event) /\ h \in Seq(Event)
      /\ a \o h \in Seq(Event)
  BY PipelineFacts
<1>2. In(h, e) <=> e = held[s]
  <2>1. e # None
    BY BrokerAssumption DEF Event
  <2>2. CASE held[s] = None
    BY <2>1, <2>2 DEF inHand, In
  <2>3. CASE held[s] # None
    BY <2>3 DEF inHand, In
  <2> QED
    BY <2>2, <2>3
<1> HIDE DEF a, h, b
<1>3. In((a \o h) \o b, e) <=> In(a, e) \/ In(h, e) \/ In(b, e)
  <2>1. In((a \o h) \o b, e) <=> In(a \o h, e) \/ In(b, e)
    BY <1>1, InConcat
  <2>2. In(a \o h, e) <=> In(a, e) \/ In(h, e)
    BY <1>1, InConcat
  <2> QED
    BY <2>1, <2>2
<1>4. reached(s, e) <=> e \in ghost.taken[s] \/ In(pipeline(s), e)
  BY DEF reached, In
<1>5. seen(s, e) <=> e \in ghost.taken[s] \/ e = held[s] \/ In(a, e) \/ In(b, e)
  BY DEF seen, In, a, b
<1> QED
  BY <1>1, <1>2, <1>3, <1>4, <1>5

\* A step that offers nothing, and before the teardown moves no event in or
\* out of a pool.
LEMMA AuditSame ==
    ASSUME OfferAhead, Audited, ghost'.offered = ghost.offered,
           retention' = retention,
           main' = "up" => /\ main = "up"
                           /\ \A s \in Sub, e \in Event : seen(s, e)' <=> seen(s, e),
           \A p \in Publisher, k \in 1..MaxEvents, s \in Sub :
              ahead(p, k, s)' => ahead(p, k, s)
    PROVE  OfferAhead' /\ Audited'
<1>1. OfferAhead'
  BY DEF OfferAhead
<1>2. ASSUME main' = "up", NEW e \in Event
      PROVE  Cardinality(ghost'.offered[e]) = Cardinality(viewers(e)') + retention'[e]
  <2>1. viewers(e)' = viewers(e)
    BY <1>2 DEF viewers
  <2> QED
    BY <1>2, <2>1 DEF Audited
<1> QED
  BY <1>1, <1>2 DEF Audited

LEMMA AuditPublisher ==
    ASSUME IInv, OfferAhead, Audited, NEW p \in Publisher,
           PublishCheck(p) \/ PublishCopy(p)
    PROVE  OfferAhead' /\ Audited'
<1>1. /\ publish[p].n \in 0..MaxEvents /\ subscribers \in Seq(Sub)
      /\ publish \in [Publisher -> PublisherState]
  BY DEF IInv, Typed, PublisherState
<1>2. UNCHANGED <<events, jobs, held, main, retention, ghost>>
  BY Zenon DEF PublishCheck, PublishCopy, poolVars
<1>3. ASSUME NEW k \in 1..MaxEvents, NEW s \in Sub, ahead(p, k, s)'
      PROVE  ahead(p, k, s)
  <2>1. CASE PublishCheck(p)
    <3> DEFINE r == [at |-> IF closed THEN "idle" ELSE "checked",
                     n |-> publish[p].n + 1, targets |-> << >>]
    <3>1. publish[p].at = "idle" /\ publish' = [publish EXCEPT ![p] = r]
      BY <2>1, Zenon DEF PublishCheck
    <3>2. r.n = publish[p].n + 1 /\ r.at \in {"idle", "checked"}
      OBVIOUS
    <3> HIDE DEF r
    <3>3. publish'[p] = r
      BY <1>1, <3>1
    <3> QED
      BY <1>1, <1>3, <3>1, <3>2, <3>3 DEF ahead
  <2>2. CASE PublishCopy(p)
    <3>1. publish[p].at = "checked" /\ sending(p, subscribers)
      BY <2>2 DEF PublishCopy
    <3>2. PICK r \in PublisherState :
             publish' = [publish EXCEPT ![p] = r] /\ publish'[p] = r
             /\ r.n = publish[p].n
      BY <1>1, <3>1, SendingFacts
    <3> QED
      BY <1>1, <1>3, <3>1, <3>2 DEF ahead
  <2> QED
    BY <2>1, <2>2
<1>4. \A q \in Publisher : q # p => publish'[q] = publish[q]
  BY <1>1 DEF PublishCheck, PublishCopy, sending
<1>5. \A q \in Publisher, k \in 1..MaxEvents, s \in Sub :
         ahead(q, k, s)' => ahead(q, k, s)
  BY <1>3, <1>4 DEF ahead
<1>6. \A s \in Sub, e \in Event : seen(s, e)' <=> seen(s, e)
  BY <1>2 DEF seen
<1> QED
  BY <1>2, <1>5, <1>6, AuditSame

\* One more subscription is offered the event, and has it or is recorded.
LEMMA OneMore ==
    ASSUME NEW A \in SUBSET Sub, NEW B \in SUBSET Sub, NEW s \in Sub,
           s \notin A, NEW r \in Nat, Cardinality(A) = Cardinality(B) + r
    PROVE  /\ s \notin B =>
                 Cardinality(A \cup {s}) = Cardinality(B \cup {s}) + r
           /\ Cardinality(A \cup {s}) = Cardinality(B) + (r + 1)
<1>1. IsFiniteSet(A) /\ IsFiniteSet(B)
  BY FS_Subset, BrokerAssumption
<1>2. Cardinality(A) \in Nat /\ Cardinality(B) \in Nat
  BY <1>1, FS_CardinalityType
<1>3. Cardinality(A \cup {s}) = Cardinality(A) + 1
  BY <1>1, FS_AddElement
<1>4. s \notin B => Cardinality(B \cup {s}) = Cardinality(B) + 1
  BY <1>1, FS_AddElement
<1> QED
  BY <1>2, <1>3, <1>4

LEMMA AuditSend ==
    ASSUME IInv, OfferAhead, Audited, NEW p \in Publisher, PublishSend(p)
    PROVE  OfferAhead' /\ Audited'
<1>0. /\ publish[p].at = "sending" /\ UNCHANGED <<jobs, held, main>>
  BY SendCases, Zenon
<1>1. PICK s \in Sub, k \in 1..MaxEvents :
         /\ s = Head(publish[p].targets) /\ k = publish[p].n
         /\ <<p, k>> \in Event /\ ahead(p, k, s)
  BY <1>0, SendFacts
<1>2. PICK e \in Event : e = <<p, k>>
  BY <1>1
<1>3. ~seen(s, e) /\ s \notin ghost.offered[e]
  BY <1>1, <1>2 DEF IInv, NotYetSeen, OfferAhead
<1>4. /\ ghost \in GhostState /\ retention \in [Event -> Nat]
      /\ events \in [Sub -> Chan] /\ events[s].queue \in Seq(Event)
  BY DEF IInv, Typed, Chan
<1>5. ASSUME sending(p, Tail(publish[p].targets)), ghost' = offered(p)
      PROVE  /\ OfferAhead' /\ ghost'.taken = ghost.taken
             /\ ghost'.offered[e] = ghost.offered[e] \cup {s}
             /\ \A d \in Event : d # e => ghost'.offered[d] = ghost.offered[d]
  <2>1. ghost'.taken = ghost.taken
    BY <1>0, <1>5, OfferedFacts
  <2> DEFINE o == [ghost.offered EXCEPT ![e] = @ \cup {s}]
  <2>2. /\ ghost' = [ghost EXCEPT !.offered = o]
    BY <1>1, <1>2, <1>5, Zenon DEF offered
  <2>3. /\ o \in [Event -> SUBSET Sub] /\ o[e] = ghost.offered[e] \cup {s}
        /\ \A d \in Event : d # e => o[d] = ghost.offered[d]
    BY <1>4 DEF GhostState
  <2> HIDE DEF o
  <2>4. ghost'.offered = o
    BY <1>4, <2>2 DEF GhostState
  <2>5. ASSUME NEW q \in Publisher, NEW j \in 1..MaxEvents, NEW t \in Sub,
               ahead(q, j, t)'
        PROVE  t \notin ghost'.offered[<<q, j>>]
    <3>1. ahead(q, j, t) /\ ~(q = p /\ j = k /\ t = s)
      BY <1>0, <1>1, <1>5, <2>5, SentAhead
    <3>2. t \notin ghost.offered[<<q, j>>]
      BY <3>1 DEF OfferAhead
    <3>3. <<q, j>> \in Event
      BY DEF Event
    <3>4. CASE <<q, j>> = e
      <4>1. q = p /\ j = k
        BY <1>2, <3>4
      <4> QED
        BY <2>3, <2>4, <3>1, <3>2, <3>4, <4>1
    <3>5. CASE <<q, j>> # e
      BY <2>3, <2>4, <3>2, <3>3, <3>5
    <3> QED
      BY <3>4, <3>5
  <2> QED
    BY <2>1, <2>3, <2>4, <2>5 DEF OfferAhead
<1>6. ASSUME NEW d \in Event
      PROVE  viewers(d) \in SUBSET Sub /\ ghost.offered[d] \in SUBSET Sub
             /\ retention[d] \in Nat
  BY <1>4 DEF viewers, GhostState
<1>7. CASE sending(p, << >>) /\ UNCHANGED <<events, retention, panic, ghost>>
  <2>1. << >> \in Seq(Sub)
    OBVIOUS
  <2>2. PICK r \in PublisherState :
           /\ publish' = [publish EXCEPT ![p] = r] /\ publish'[p] = r
           /\ r.n = publish[p].n
           /\ r.at = IF << >> = << >> THEN "idle" ELSE "sending"
    BY <1>7, <2>1, SendingFacts
  <2>3. \A q \in Publisher : q # p => publish'[q] = publish[q]
    BY <2>2 DEF IInv, Typed
  <2>4. r.at = "idle"
    BY <2>2
  <2>5. \A q \in Publisher, j \in 1..MaxEvents, t \in Sub :
           ahead(q, j, t)' => ahead(q, j, t)
    BY <2>2, <2>3, <2>4 DEF ahead
  <2>6. \A t \in Sub, d \in Event : seen(t, d)' <=> seen(t, d)
    BY <1>0, <1>7 DEF seen
  <2> QED
    BY <1>0, <1>7, <2>5, <2>6, AuditSame
<1>8. CASE /\ events' = [events EXCEPT ![s].queue = Append(events[s].queue, e)]
           /\ sending(p, Tail(publish[p].targets)) /\ ghost' = offered(p)
           /\ UNCHANGED retention
  <2>1. Append(events[s].queue, e) \in Seq(Event)
    BY <1>4, AppendFacts
  <2>2. /\ events'[s].queue = Append(events[s].queue, e)
        /\ \A t \in Sub : t # s => events'[t] = events[t]
    BY <1>4, <1>8, <2>1, EventsUpdate, Zenon
  <2>3. /\ OfferAhead' /\ ghost'.taken = ghost.taken
        /\ ghost'.offered[e] = ghost.offered[e] \cup {s}
        /\ \A d \in Event : d # e => ghost'.offered[d] = ghost.offered[d]
    BY <1>5, <1>8
  <2>4. \A t \in Sub, d \in Event : seen(t, d)' <=> seen(t, d) \/ (t = s /\ d = e)
    <3>1. \A d \in Event : In(events'[s].queue, d) <=> In(events[s].queue, d) \/ d = e
      BY <1>4, <2>2, InAppend
    <3>2. \A t \in Sub, d \in Event :
             (\E i \in DOMAIN events'[t].queue : events'[t].queue[i] = d) <=>
             (\E i \in DOMAIN events[t].queue : events[t].queue[i] = d) \/ (t = s /\ d = e)
      BY <2>2, <3>1 DEF In
    <3> QED
      BY <1>0, <2>3, <3>2 DEF seen
  <2>5. /\ viewers(e)' = viewers(e) \cup {s} /\ s \notin viewers(e)
        /\ \A d \in Event : d # e => viewers(d)' = viewers(d)
    BY <1>3, <2>4 DEF viewers
  <2>6. ASSUME main' = "up", NEW d \in Event
        PROVE  Cardinality(ghost'.offered[d]) = Cardinality(viewers(d)') + retention'[d]
    <3>1. Cardinality(ghost.offered[d]) = Cardinality(viewers(d)) + retention[d]
      BY <1>0, <2>6 DEF Audited
    <3>2. CASE d = e
      <4>1. Cardinality(ghost.offered[e] \cup {s})
              = Cardinality(viewers(e) \cup {s}) + retention[e]
        BY <1>3, <1>6, <2>5, <3>1, <3>2, OneMore
      <4> QED
        BY <1>8, <2>3, <2>5, <3>2, <4>1
    <3>3. CASE d # e
      BY <1>8, <2>3, <2>5, <3>1, <3>3
    <3> QED
      BY <3>2, <3>3
  <2> QED
    BY <2>3, <2>6 DEF Audited
<1>9. CASE /\ retention' = [retention EXCEPT ![e] = retention[e] + 1]
           /\ sending(p, Tail(publish[p].targets)) /\ ghost' = offered(p)
           /\ UNCHANGED events
  <2>1. /\ OfferAhead' /\ ghost'.taken = ghost.taken
        /\ ghost'.offered[e] = ghost.offered[e] \cup {s}
        /\ \A d \in Event : d # e => ghost'.offered[d] = ghost.offered[d]
    BY <1>5, <1>9
  <2>2. \A d \in Event : viewers(d)' = viewers(d)
    BY <1>0, <1>9, <2>1 DEF viewers, seen
  <2>3. /\ retention'[e] = retention[e] + 1
        /\ \A d \in Event : d # e => retention'[d] = retention[d]
    BY <1>4, <1>9
  <2>4. ASSUME main' = "up", NEW d \in Event
        PROVE  Cardinality(ghost'.offered[d]) = Cardinality(viewers(d)') + retention'[d]
    <3>1. Cardinality(ghost.offered[d]) = Cardinality(viewers(d)) + retention[d]
      BY <1>0, <2>4 DEF Audited
    <3>2. CASE d = e
      <4>1. Cardinality(ghost.offered[e] \cup {s})
              = Cardinality(viewers(e)) + (retention[e] + 1)
        BY <1>3, <1>6, <3>1, <3>2, OneMore, ZenonT(60)
      <4> QED
        BY <2>1, <2>2, <2>3, <3>2, <4>1
    <3>3. CASE d # e
      BY <2>1, <2>2, <2>3, <3>1, <3>3
    <3> QED
      BY <3>2, <3>3
  <2> QED
    BY <2>1, <2>4 DEF Audited
<1>10. CASE UNCHANGED <<publish, events, retention, ghost>>
  <2>1. \A t \in Sub, d \in Event : seen(t, d)' <=> seen(t, d)
    BY <1>0, <1>10 DEF seen
  <2>2. \A q \in Publisher, j \in 1..MaxEvents, t \in Sub :
           ahead(q, j, t)' => ahead(q, j, t)
    BY <1>10 DEF ahead
  <2> QED
    BY <1>0, <1>10, <2>1, <2>2, AuditSame
<1> QED
  BY <1>1, <1>2, <1>7, <1>8, <1>9, <1>10, SendCases, Zenon

\* Inside a pool an event only changes hands.
LEMMA AuditPool ==
    ASSUME IInv, OfferAhead, Audited, NEW s \in Sub, NEW w,
           receive(s) \/ dispatch(s) \/ takeJob(s, w)
    PROVE  OfferAhead' /\ Audited'
<1>0. /\ events \in [Sub -> Chan] /\ jobs \in [Sub -> Chan]
      /\ events[s].queue \in Seq(Event) /\ jobs[s].queue \in Seq(Event)
      /\ held \in [Sub -> Event \cup {None}] /\ ghost \in GhostState
      /\ \A e \in Event : e # None
  BY BrokerAssumption DEF IInv, Typed, Chan, Event
<1>1. UNCHANGED <<publish, main, retention>>
  BY Zenon DEF receive, dispatch, takeJob
<1>2. \A q \in Publisher, j \in 1..MaxEvents, t \in Sub :
         ahead(q, j, t)' => ahead(q, j, t)
  BY <1>1 DEF ahead
<1>3. CASE receive(s)
  <2>1. UNCHANGED <<jobs, ghost>> /\ dispatcher[s] = "ready" /\ held[s] = None
    BY <1>3 DEF receive, IInv, PoolShape
  <2>2. CASE UNCHANGED <<held, events>>
    <3>1. \A t \in Sub, e \in Event : seen(t, e)' <=> seen(t, e)
      BY <2>1, <2>2 DEF seen
    <3> QED
      BY <1>1, <1>2, <2>1, <3>1, AuditSame
  <2>3. CASE /\ events[s].queue # << >>
             /\ held' = [held EXCEPT ![s] = Head(events[s].queue)]
             /\ events' = [events EXCEPT ![s].queue = Tail(events[s].queue)]
    <3>1. Tail(events[s].queue) \in Seq(Event)
      BY <1>0, <2>3, TailFacts
    <3>2. /\ events'[s].queue = Tail(events[s].queue)
          /\ \A t \in Sub : t # s => events'[t] = events[t]
      BY <1>0, <2>3, <3>1, EventsUpdate, Zenon
    <3>3. /\ held'[s] = Head(events[s].queue)
          /\ \A t \in Sub : t # s => held'[t] = held[t]
      BY <1>0, <2>3
    <3>4. \A e \in Event : In(events[s].queue, e) <=>
                              e = held'[s] \/ In(events'[s].queue, e)
      BY <1>0, <2>3, <3>2, <3>3, InTail
    <3>5. \A t \in Sub, e \in Event : seen(t, e)' <=> seen(t, e)
      <4> SUFFICES ASSUME NEW t \in Sub, NEW e \in Event
                   PROVE  seen(t, e)' <=> seen(t, e)
        OBVIOUS
      <4>1. CASE t = s
        BY <1>0, <2>1, <3>4, <4>1 DEF seen, In
      <4>2. CASE t # s
        BY <2>1, <3>2, <3>3, <4>2 DEF seen
      <4> QED
        BY <4>1, <4>2
    <3> QED
      BY <1>1, <1>2, <2>1, <3>5, AuditSame
  <2> QED
    BY <1>3, <2>2, <2>3, Zenon DEF receive
<1>4. CASE dispatch(s)
  <2>1. UNCHANGED <<events, ghost>>
    BY <1>4 DEF dispatch
  <2>2. CASE /\ jobs' = [jobs EXCEPT ![s].queue = Append(jobs[s].queue, held[s])]
             /\ held' = [held EXCEPT ![s] = None]
    <3>0. held[s] \in Event
      BY <1>0, <1>4 DEF dispatch, IInv, PoolShape
    <3>1. Append(jobs[s].queue, held[s]) \in Seq(Event)
      BY <1>0, <3>0, AppendFacts
    <3>2. /\ jobs'[s].queue = Append(jobs[s].queue, held[s])
          /\ \A t \in Sub : t # s => jobs'[t] = jobs[t]
      BY <1>0, <2>2, <3>1, JobsUpdate, Zenon
    <3>3. /\ held'[s] = None
          /\ \A t \in Sub : t # s => held'[t] = held[t]
      BY <1>0, <2>2
    <3>4. \A e \in Event : In(jobs'[s].queue, e) <=>
                              In(jobs[s].queue, e) \/ e = held[s]
      BY <1>0, <3>0, <3>2, InAppend
    <3>5. \A t \in Sub, e \in Event : seen(t, e)' <=> seen(t, e)
      <4> SUFFICES ASSUME NEW t \in Sub, NEW e \in Event
                   PROVE  seen(t, e)' <=> seen(t, e)
        OBVIOUS
      <4>1. CASE t = s
        BY <1>0, <2>1, <3>3, <3>4, <4>1 DEF seen, In
      <4>2. CASE t # s
        BY <2>1, <3>2, <3>3, <4>2 DEF seen
      <4> QED
        BY <4>1, <4>2
    <3> QED
      BY <1>1, <1>2, <2>1, <3>5, AuditSame
  <2>3. CASE workerCtxDone
    BY <1>1, <1>2, <2>1, <2>3, AuditSame DEF workerCtxDone
  <2>4. CASE UNCHANGED <<jobs, held>>
    <3>1. \A t \in Sub, e \in Event : seen(t, e)' <=> seen(t, e)
      BY <2>1, <2>4 DEF seen
    <3> QED
      BY <1>1, <1>2, <2>1, <3>1, AuditSame
  <2> QED
    BY <1>4, <2>2, <2>3, <2>4, Zenon DEF dispatch
<1>5. CASE takeJob(s, w)
  <2>1. UNCHANGED <<events, held>>
    BY <1>5 DEF takeJob
  <2>2. CASE UNCHANGED <<jobs, ghost>>
    <3>1. \A t \in Sub, e \in Event : seen(t, e)' <=> seen(t, e)
      BY <2>1, <2>2 DEF seen
    <3> QED
      BY <1>1, <1>2, <2>2, <3>1, AuditSame
  <2>3. CASE /\ jobs[s].queue # << >>
             /\ jobs' = [jobs EXCEPT ![s].queue = Tail(jobs[s].queue)]
             /\ ghost' = [ghost EXCEPT !.taken[s] =
                            ghost.taken[s] \cup {Head(jobs[s].queue)}]
    <3>1. /\ jobs'[s].queue = Tail(jobs[s].queue)
          /\ \A t \in Sub : t # s => jobs'[t] = jobs[t]
          /\ ghost'.taken = [ghost.taken EXCEPT ![s] =
                               ghost.taken[s] \cup {Head(jobs[s].queue)}]
      BY <2>3, TakeFacts
    <3>2. /\ ghost'.taken[s] = ghost.taken[s] \cup {Head(jobs[s].queue)}
          /\ \A t \in Sub : t # s => ghost'.taken[t] = ghost.taken[t]
      BY <1>0, <3>1 DEF GhostState
    <3>3. ghost'.offered = ghost.offered
      BY <1>0, <2>3 DEF GhostState
    <3>4. \A e \in Event : In(jobs[s].queue, e) <=>
                              e = Head(jobs[s].queue) \/ In(jobs'[s].queue, e)
      BY <1>0, <2>3, <3>1, InTail
    <3>5. \A t \in Sub, e \in Event : seen(t, e)' <=> seen(t, e)
      <4> SUFFICES ASSUME NEW t \in Sub, NEW e \in Event
                   PROVE  seen(t, e)' <=> seen(t, e)
        OBVIOUS
      <4>1. CASE t = s
        BY <2>1, <3>2, <3>4, <4>1 DEF seen, In
      <4>2. CASE t # s
        BY <2>1, <3>1, <3>2, <4>2 DEF seen
      <4> QED
        BY <4>1, <4>2
    <3> QED
      BY <1>1, <1>2, <3>3, <3>5, AuditSame
  <2> QED
    BY <1>5, <2>2, <2>3, Zenon DEF takeJob
<1> QED
  BY <1>3, <1>4, <1>5

LEMMA AuditRest ==
    ASSUME IInv, OfferAhead, Audited,
           \/ \E s \in Sub : startTopicWorkerPool(s) \/ removeSubscriber(s)
                               \/ closeEvents(s) \/ closeJobs(s)
           \/ \E s \in Sub, w \in Worker : finish(s, w)
           \/ workerCancel \/ raftCancel \/ deferredClose
           \/ UNCHANGED vars
    PROVE  OfferAhead' /\ Audited'
<1>1. UNCHANGED <<publish, held, retention, ghost>>
  BY Zenon DEF startTopicWorkerPool, removeSubscriber, closeEvents, closeJobs, finish,
     workerCancel, raftCancel, deferredClose, vars, poolVars
<1>2. \A q \in Publisher, j \in 1..MaxEvents, t \in Sub :
         ahead(q, j, t)' => ahead(q, j, t)
  BY <1>1 DEF ahead
<1>3. CASE workerCancel \/ raftCancel \/ deferredClose
  <2>1. main' # "up"
    BY <1>3 DEF workerCancel, raftCancel, deferredClose
  <2> QED
    BY <1>1, <1>2, <2>1, AuditSame
<1>4. CASE \/ \E s \in Sub : startTopicWorkerPool(s) \/ removeSubscriber(s)
                               \/ closeEvents(s) \/ closeJobs(s)
           \/ \E s \in Sub, w \in Worker : finish(s, w)
           \/ UNCHANGED vars
  <2>1. main' = main
    BY <1>4, Zenon DEF startTopicWorkerPool, removeSubscriber, closeEvents,
       closeJobs, finish, vars
  <2>2. \/ UNCHANGED <<events, jobs>>
        \/ \E s \in Sub : events' = [events EXCEPT ![s].open = FALSE] /\ UNCHANGED jobs
        \/ \E s \in Sub : jobs' = [jobs EXCEPT ![s].open = FALSE] /\ UNCHANGED events
    BY <1>4, Zenon DEF startTopicWorkerPool, removeSubscriber, closeEvents,
       closeJobs, finish, vars, poolVars
  <2>3. events \in [Sub -> Chan] /\ jobs \in [Sub -> Chan]
    BY DEF IInv, Typed
  <2>4. \A t \in Sub : /\ events'[t].queue = events[t].queue
                       /\ jobs'[t].queue = jobs[t].queue
    <3>1. CASE UNCHANGED <<events, jobs>>
      BY <3>1
    <3>2. ASSUME NEW s \in Sub, events' = [events EXCEPT ![s].open = FALSE]
          PROVE  \A t \in Sub : events'[t].queue = events[t].queue
      BY <2>3, <3>2, EventsClose, Zenon
    <3>3. ASSUME NEW s \in Sub, jobs' = [jobs EXCEPT ![s].open = FALSE]
          PROVE  \A t \in Sub : jobs'[t].queue = jobs[t].queue
      BY <2>3, <3>3, JobsClose, Zenon
    <3> QED
      BY <2>2, <3>1, <3>2, <3>3
  <2>5. \A t \in Sub, e \in Event : seen(t, e)' <=> seen(t, e)
    BY <1>1, <2>4 DEF seen
  <2> QED
    BY <1>1, <1>2, <2>1, <2>5, AuditSame
<1> QED
  BY <1>3, <1>4

LEMMA AuditInit == Init => OfferAhead /\ Audited
<1> SUFFICES ASSUME Init PROVE OfferAhead /\ Audited
  OBVIOUS
<1>1. \A e \in Event : ghost.offered[e] = {} /\ retention[e] = 0
  BY DEF Init
<1>2. \A e \in Event : e # None
  BY BrokerAssumption DEF Event
<1>3. \A e \in Event : viewers(e) = {}
  BY <1>2 DEF Init, viewers, seen
<1>4. Cardinality({}) = 0
  BY FS_EmptySet
<1>5. OfferAhead
  BY <1>1 DEF OfferAhead, Event
<1>6. Audited
  BY <1>1, <1>3, <1>4, SMTT(30) DEF Audited
<1> QED
  BY <1>5, <1>6

LEMMA AuditStep ==
    IInv /\ OfferAhead /\ Audited /\ [Next]_vars => OfferAhead' /\ Audited'
<1> SUFFICES ASSUME IInv, OfferAhead, Audited, [Next]_vars
             PROVE  OfferAhead' /\ Audited'
  OBVIOUS
<1> QED
  BY AuditPublisher, AuditSend, AuditPool, AuditRest, Zenon
     DEF Next, janitorStep, dispatcherStep, workerStep

\* Until the teardown every event is accounted for at every subscription it
\* was offered to: it waits there, was started, or left a record of its drop,
\* with any number of publishers, pools and workers and buffers of any size.
THEOREM EveryDropRecorded == Spec => []DropsAudited
<1>1. IInv /\ Audited => DropsAudited
  <2> SUFFICES ASSUME IInv, Audited, ~workerCtxDone, NEW e \in Event
               PROVE  Cardinality(ghost.offered[e])
                        = Cardinality({s \in Sub : reached(s, e)}) + retention[e]
    BY DEF DropsAudited
  <2>1. {s \in Sub : reached(s, e)} = viewers(e)
    BY ReachedSeen DEF viewers
  <2> QED
    BY <2>1 DEF Audited, workerCtxDone
<1> QED
  BY <1>1, AuditInit, AuditStep, BrokerInvariant, PTL DEF Spec
=============================================================================
