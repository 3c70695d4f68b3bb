# Verification of the domino server

TLA+ modules for the domino match server (`src/`), the TLC configurations that
check them on small instances, and the TLAPS proofs of what holds for every
instance.

1. The system
2. Plan
3. Modules and how they correspond to the code
4. Runs, bounds and fairness
5. Proofs
6. Where the code and its documentation disagree
7. What is not modelled

## 1. The system

A cluster of identical Go processes replicates the state of domino matches.

| Part | State | Operations | Interacts with |
|---|---|---|---|
| Raft node (`pkg/consensus/raft_node.go`) | term, vote, role, log, snapshot, commit and apply indexes, `nextIndex`/`matchIndex` | `RequestVote`, `AppendEntries`, `InstallSnapshot`, election and heartbeat tickers, `Propose`, `ReadIndex`, membership commands, compaction, bootstrap | peers over RPC, storage, the match FSM, gateway callers |
| RPC transport (`transport.go`) | connections, registry | one `net/rpc` call per goroutine with a 200 ms limit | Raft nodes |
| Durable storage (`pkg/database/storage.go`) | snapshot, log and metadata files | load and persist, each by rename | Raft node |
| Match FSM (`fsm.go`, `commands.go`) | none of its own | `Apply`, `CreateSnapshot`, `Restore` | game manager |
| Game session (`pkg/models`) | hands, boneyard, board, turn, status | play, draw, pass, deal, evaluate | game manager |
| Game manager (`pkg/engine`) | session registry, recovered ids, ledger profiles | turns, abandonment, lazy hydration, replicated start | FSM, repository, game engine |
| Broker and worker pools (`pkg/broker`, `pkg/game`) | subscriber channels, job queues | publish, subscribe, close | game manager, hub |
| WebSocket hub (`pkg/ws`) | clients, connection states, timers, pending statistics | register, unregister, abandon, broadcast | clients, game handler, ledger |
| Ledger and rating workers (`pkg/engine`, `pkg/resilience`) | job queue, spool, breakers | persist, retry, spool, replay, rate | hub, graph store |
| Match gateway (`pkg/gateway`) | idempotency cache | mutate, forward to the leader | Raft node |
| Repository, API, telemetry, pagination, rating, web client | – | queries, formatting, logging, arithmetic, user interface | – |

A move travels from a socket through the router and the gateway into the log of
the leader, is replicated, committed and applied on every node by the match FSM
through the game manager; the new state goes to the sockets of each node through
the hub. A match that ends is published on the broker; a worker takes the event
to `TerminateMatch` of the hub, which tells the players and hands the record to
the ledger worker. The ledger worker saves it and rates the players, and the new
ratings come back to the players through the hub.

What is hard, part by part, and what makes the part correct:

* **Raft.** RPCs overtake each other, are lost, or are served after the caller
  gave up; compaction re-bases the log under calls in flight; a crash keeps what
  happened to be persisted. Correct: one leader per term, one history, nothing
  applied is taken back, every slice of the log is in range, proposals commit.
* **Game.** Commands come in log order, but abandonment, failed saves and the
  encoding of snapshots happen beside it, and abandonment gives up the session
  mutex half way; the pips of a played tile come from the client. Correct: replicas
  agree, tiles are conserved, the board is a chain, a match that is decided does
  not go on, its end is announced once and for the right reason.
* **Hub.** Sockets of one player replace each other while unregister requests,
  timers, timer callbacks and three kinds of events are under way, and every
  channel drops what does not fit. Correct: status and sockets agree, no channel
  is closed twice, announced states, ratings and disconnections are not forgotten,
  nobody is abandoned early.
* **Ledger and ratings.** The store may refuse a call or carry it out without
  answering; calls are retried, records spooled and replayed; every node of the
  cluster does all this for the same match. Correct: every record is accounted
  for, a node adds one row and one rating per match, the queue moves.
* **Broker and worker pools.** A publisher gives up the lock before it sends;
  subscriptions, job queues and the broker are closed by different goroutines;
  buffers fill. Correct: events are handed over in order and once or their drop is
  on record, nothing panics while the server is up, cancelled pools end.
* **Gateway.** A request is forwarded, proposed, waited for by index and
  remembered, while leaders change, hops time out and clients retry. Correct: a
  caller gets the result of its own command, what was acknowledged stays and is
  seen by reads (it is not: section 6), a remembered retry is not proposed again.
* **Session registry.** Readers, the FSM and abandonment look up one match while
  one of them reads it from the repository and a snapshot holds the map mutex.
  Correct: one read at a time, nothing that was applied is lost, no older state is
  saved over a newer one, nobody waits for ever.

`PROJECT.json` lists these hazards one by one, each at its line and with the
properties that would catch it.

## 2. Plan

Done, in this order: `RaftNode`, `GameSession`, `Hub`, `LedgerPipeline`, `Broker`
with the abstract `EventDelivery` it implements, `MatchGateway` (gateway,
idempotency cache, `ProposeAndWait` and `ReadIndex` over the log),
`SessionRegistry`, each with its proofs (section 5).

To come, most useful first:

1. An abstract `ReplicatedLog` (a growing sequence, replicas hold prefixes of it)
   that `RaftNode` implements for two nodes that stay up; `LogInv` (section 5) has
   the sequence.
2. `RaftStorage`: crash points between the files of one handler.
3. `RaftMembership`: joint consensus, once the server proposes membership changes.

The suite keeps to a dozen runs. A question that only repeats a disagreement of
section 6 has no run; the section says how to reproduce it.

## 3. Modules and how they correspond to the code

`PROJECT.json`, "map", gives the lines of every definition.

### RaftNode (with MCRaftNode, RaftLiveness, RaftNode_proofs)

A handler runs under the mutex of its node, so it is one action; calls that wait
for an answer are two. `replica[n]` collects log, snapshot, indexes and FSM, so
that helpers such as `applyCommitted`, `maybeCompact`, `installed` and `appended`
are functions of one replica, as the `...Locked` methods are of one node. The
log omits the sentinel at offset 0; `termAt` puts it back. The FSM is the
sequence of commands applied to it.

Calls are sets of messages. Those in flight with equal contents count as one.
A request whose caller has crashed (or given up after 200 ms) is no longer
`live`: it may still be served, but nobody takes the answer. `replicateAndCommit`
chooses the peers that its round reaches; the others time out.

`disk[n]` is what the files hold after a complete handler, written where
`persistDurableStateLocked` or `PersistSnapshot` is called and nowhere else.
`crash` restarts from it, `shutdown` flushes first.

`RaftLiveness` adds the fairness of section 4 and the property that proposals
commit.

### GameSession (with MCGameSession, GameSession_proofs)

One match on all nodes. The log is taken at its word: `commit` appends one
command to the queue of every node. `session[n]` is the session of node `n` as
`GameManager` holds it. A tile of the deck stands for its id; a hand is a set
because code finds tiles in it by id, the boneyard and the board are sequences
because their order counts. A play carries an id and pips: those of the hand, when
the web socket router looked the id up (`PLAYER_MOVE`), or the ones that came with
the id (`PLAY_TILE` and the HTTP gateway), any of `SentPips`. As in the code the id
decides whether the player holds the tile and which one leaves the hand, and the
pips of the payload decide whether it may be played, which way it lies and what the
open end becomes. The board keeps both. Nothing says that they belong together:
`TilesConserved` is about ids, `BoardChained` about pips.

Actions: `commit`, `ApplyReplicatedStartMatch`, `ApplyReplicatedTurn` (rules,
rotation, evaluation, save, publication in one critical section),
`HandlePlayerAbandoned` and `evaluateAndMaybeFinalize` (its second critical
section, after the mutex was free), `SnapshotSessions` (copy under the mutex),
`CreateSnapshot` (the encoding, which still reads shared hands and tiles, as
`seenByEncoder` says) and `Restore`. While a node takes a snapshot the Raft mutex
keeps it from applying commands, but not from abandoning players.

`history` is auxiliary: which ends were published and who passed since a tile was
last placed. Nothing but properties reads it, and it travels with snapshots.

### Hub (with Hub_proofs)

One session on one node. Each case of `Run` is one action. `conn` says whether the
pumps of a socket run, `send` is its channel: how much is queued and which
session state was offered last. What is left in a channel when it is closed is
dropped from the model because no property looks at it. `version` counts the changes
of the session on this node. A command sends a delta (`applyNotifier`); an
abandonment (`HandlePlayerAbandoned`, called by the hub itself) and a restored
snapshot (`RestoreSessions`) do not, so the version moves and the hub is not told.
`timer` is the timer the
connection state points to, `strays` the ones it no longer points to,
`callbacks` are timers that have fired and not sent their event. `crash` records
a panic: `"hub"` for a channel closed twice, `"pump"` for an error frame sent
on a closed channel by a read pump. `ghost` is auxiliary.

### LedgerPipeline (with MCLedgerPipeline, LedgerPipeline_proofs)

Any number of nodes and one store. `Ends` says which match ends on which node: one
that ends by a command ends on all, one that ends by an abandonment on the node
that saw it. A node's worker goroutine goes through
`save`, `read`, `update`, `stamp` and `next`; between these are the calls of the
store, each of which is answered, refused, or carried out without an answer.
Retries go back to `save` or, for ratings, to `read`.

The mutations carry no uid (`hub.go:506`, `rating_worker.go:160`), so the store adds
nodes whatever ids they carry; `@upsert` in `schema.dgraph` only lets transactions
detect conflicts. `rows[n][m]` and `careers[n][m]` count, up to two, what node `n`
has added. The players linked to a row are nodes of their own that no later update
changes, so every rating starts from a newcomer's career and there is nothing to
read back. `applied[m]` is the stamp of the row that the query returns; with several
rows (`first: 1`) this is taken to be the oldest, uids being handed out in ascending
order.

The breaker is the state machine of `gobreaker`, which is external. A record with
no match uid does not reach the rating step in the running server and is left
out. `ghost` is auxiliary.

### EventDelivery and Broker (with Broker_proofs)

`EventDelivery` is what the broker and the pools promise together: per
subscription one queue, events enter at its end or are recorded as dropped when
at least a buffer of others waits, workers take from its front, each event once;
only after the cancellation may something be discarded.

`Broker` is the code: one topic, its publishers, subscriptions and pools. An
action is what a goroutine does between two points where another can come in.
`Publish` is three steps because it gives up the lock after reading `closed` and
after copying the subscribers. The goroutine of a subscription removes it from
the map under the lock (`removeSubscriber`) and closes the channel without it
(`closeEvents`). A pool is a dispatcher (`receive`, `dispatch`), the goroutine that
closes the job queue (`closeJobs`) and workers (`takeJob`, `finish`). `main` is the
teardown in the order of `cmd/server/main.go`: cancel the workers, cancel Raft,
close the broker. A select whose cases are all ready may take any of them, so a
send on a closed channel is one of the outcomes; it, or a second close, sets
`panic` and ends the process.

Refinement mapping: the queue of a subscription is its job queue, followed by
the event the dispatcher holds, followed by the channel of the subscription.

### MatchGateway (with MatchGateway_proofs)

Two nodes, one match. A request slot goes through `route` (forwarding, with the
idempotency cache on the leader), `propose`, `wait` (for commit and apply of an
index) and is free again; a state request goes through `confirm`. One action per
handler: `handleMutate`, `handleCreate`, `handleState`, `handleFillLog`, the turn
of a web socket (`proposeTurn`), the `forward...ToLeader` and `processLocal...`
functions, and what follows the apply result (`mutateApplied` and so on).
A hop that times out (`giveUp`) leaves the handler it called running.
`Put` evicts as `SessionCache.Put` does, in order of insertion.

Of Raft it has what a waiting caller notices, as the code does it. In an election
the vote request is lost, served without an answer, or answered; a vote of the same
term is given again after `AppendEntries` has cleared it. A peer serves any call that
its leader may have made since it was elected (`callsOf`), in whatever order, so a
call that was overtaken cuts the peer's log below what it has acknowledged, while its
commit index and `results` (`applyResults`) stay; and the answer may be lost. An
election and the service of a call are one step each; single messages, snapshots and
restarts are in `RaftNode`. The module is about two nodes, because with three the log
itself does not keep what was acknowledged (section 6).

### SessionRegistry (with SessionRegistry_proofs)

The registry of one node and one match. A session is the set of what was carried
out on it, since the properties ask what is lost; the rules are in `GameSession`.
Entries stay on `heap` after they are unregistered, because goroutines keep
pointers to them. A goroutine goes through `lookupSession`,
`hydrateRecoveredSession` (to the unlock), `readStore` (the call of the
repository, which may fail), `addHydrated` (the second critical section, which
also wakes the waiters) and then `write` and `persistState` under the mutex of the
entry. `SnapshotSessions` holds the map mutex until it has the mutex of the entry
(`copied`); lookups that need the write lock wait meanwhile. Only the FSM
goroutine starts, plays, snapshots and restores. `ghost` is auxiliary.

## 4. Runs, bounds and fairness

| Run | Instance | Shows |
|---|---|---|
| `raft_two_nodes` | 2 nodes, no storage | leader per term, histories, completeness, applied entries stay, compaction in range |
| `raft_restart` | 2 durable nodes, one restart | FSM, log and terms fit after a restart, one history, a leader only appends, `nextIndex` in range |
| `raft_commits` | 2 nodes, no compaction, fair | proposals commit |
| `game_replicas` | 2 nodes, double-one deck (3 tiles) in two orders, lag 2, failing saves, snapshots | replicas agree |
| `game_table` | 1 node, 3 players, double-one deck, any pips in a payload, hand sizes 1 and 2, 2 starts, everybody may leave | conservation, chain, one announcement, a decided match ends |
| `hub_sockets` | 1 player, 3 sockets, buffers of 1 and 2, 3 commands or restores and the abandonments, 3 ratings | sockets, channels, announced states, ratings, disconnection |
| `ledger_nodes` | 2 nodes that share a match, 2 more on one of them, queue 1, spool 2, 2 attempts, 2 faults | records, rows and ratings of each node, queue |
| `broker_pool` | 3 publishers, one of them with the Raft context, a pool of 2 workers, buffers of 1 | refinement of `EventDelivery`, drops on record, panics only at teardown, events handed over, pools end |
| `gateway_requests` | 2 nodes, 2 requests at a time and 3 in all, 2 keys, cache of 1, 2 terms, 2 log positions, 1 hop | own results, acknowledged commands stay, retries replayed |
| `registry_hydration` | FSM, a reader, a leaver; a start, a turn, a snapshot, a restore, a failing call | nothing applied lost, saves current, lookups end |

Two more runs, `raft_divergence` and `gateway_reads`, end in a counterexample:
section 6. The longest run, `gateway_requests`, takes about two minutes.

Why the bounds are enough for what they are meant to show. Raft: two terms allow
a deposed leader and its successor, two or three log positions allow an entry to
be overwritten and a compaction to re-base the log, two calls in flight allow one
to overtake the other. Two nodes are where the promises hold at all; with three
they do not (section 6). A threshold of three and three log positions let two entries be
applied beyond the snapshot, so that a late request with one of them cuts the log
below what is applied (`CompactionInRange`), and let a late snapshot replace an FSM
that is ahead of it, which `AppliedStable` excepts; both happen in `raft_two_nodes`.
Game: with three players a match goes on after somebody has left; hand size 2 with
three tiles makes the deal fail, two starts reset a running match; payloads with any
pips make boards of every kind. Plays at both ends, blocked boards and won hands
occur; draws do in `game_replicas`, where a tile is left in the boneyard, and after a
failed deal. `game_replicas` sends only ids, whose pips count as zero, or the
pips of the tile. Hub: three sockets allow one to be replaced
while another is still to unregister; every channel can be filled. The players
of a session meet only in the shared channels, so one player and small channels
show what several do; the proofs cover any number. Ledger: three records fill the
queue and overflow into the spool, the first failure opens the breaker, two faults
allow a failed save to be followed by a failed rating, and two nodes meet in the
stamp of one row. Broker: with one event in
the job queue, one in the hands of the dispatcher and one in the subscription the
pipeline is full only if a publisher more sends, so three publishers fill every
stage and, before the pool moves, overflow; subscriptions of one topic share only
the loop of `Publish`, so one pool meets every close. Gateway: three sends are a
request, its retry and another request that evicts it from a cache of one; two
terms are a leader and its successor; two log positions let a late call cut the
second entry off; the first request is of any kind and the others are mutations
(`MaxOthers`), because these are retried; the other kinds meet them only in the log. Registry: an entry
can be orphaned by a hydration and by a restore, and three goroutines are one who
reads, one who waits and one who writes.

`MaxTerm`, `MaxIndex`, `MaxRestarts`, `MaxInFlight`, `MaxLag`, `MaxStarts`,
`MaxConnects`, `MaxVersion`, `MaxStats`, `MaxFaults`, `MaxEvents`, `MaxSends`,
`MaxOthers`, `MaxHops`, `MaxTurn`, `MaxStart`, `MaxSnapshot`, `MaxRestore` and `MaxFault` are
bounds of the model; the other constants are parameters of the code. Deadlock is not checked where
the bounds, the end of a match or a crash let the system stop.

Fairness:

* `RaftLiveness`: the heartbeat ticker fires every 50 ms, so a leader's rounds
  reach each peer again and again, and requests and answers get through again and
  again unless a partition lasts for ever (strong fairness, since a round in
  between may disable them); snapshot goroutines run (weak fairness). Elections
  and proposals are not fair.
* `Hub`: timers expire, their goroutines run, and the select of `Run` comes to
  the abandon channel (weak fairness). Sockets and commands are not fair.
* `LedgerPipeline`: the worker goroutine moves (weak fairness); its retries are
  bounded. Calls of the store are taken to return: the code gives them a context
  without a limit (`ledger_worker.go:104`), so this is an assumption about the store
  and not something the code sees to.
* `Broker`: goroutines that can move are scheduled, and the handler of a worker
  returns (weak fairness). Nobody has to publish, and the server need not go down.
* `SessionRegistry`: goroutines that can move do so and the repository answers
  every call, if only with an error (weak fairness). A mutex is free again after
  a bounded section. Nobody has to send anything.
* `GameSession` and `MatchGateway` have no liveness properties and no fairness.

## 5. Proofs

TLAPS proves the following for every value of the constants that satisfies the
`ASSUME` of the module.

**RaftNode_proofs.** `TypeCorrect`, `FsmStaysInStep`, `NextIndexSafe`,
`CallsSafe`, `TermsSafe`, `LeaderKeepsLog`, for clusters of any size with or
without storage. None is inductive by itself. `nextIndex` is written from the
contents of old requests, so its range needs the range of every call a node still
waits for, which in turn needs that a node leads a term at most once and that it
is not a candidate for a term it has calls in: that is `callInRange`. Terms of
log entries are bounded only together with the terms in requests, snapshots and
files. `LeaderKeepsLog` follows step by step from the same invariant: only
`Propose` and compaction change the log of a leader.

`CompactionSafe`, for clusters of any size, if there is no storage or nobody
restarts (`NothingRecovered`). A late request may cut the log below `lastApplied`.
The invariant (`Recent`) says that less than a threshold of entries was applied
since the last snapshot, so a log that is short of `lastApplied` is too short to be
compacted. A process that recovers applies its whole log without compaction, and
then the index may be out of range.

`PairElectsOnce`, `PairAppliesSame`, `PairLeaderComplete`, `PairAppliedStable`, for
two nodes that stay up (`Pair`), any commands, threshold, number of terms, entries
and calls. With three nodes the first three are false (section 6). With restarts
votes are forgotten. The invariant has two layers:

* Votes (`Voting`). A vote is cleared by every `AppendEntries`, so that a node has
  voted cannot be read off `VotedFor`. The invariant says instead that the peer of a
  leader, whoever granted a vote and whoever is sent entries or a snapshot has
  *yielded* the term: it follows in it or is past it (`Yields`), and whoever sent
  these does not stand in that term again (`Held`). With two nodes a candidate needs
  its peer, hence one leader per term, and requests of one term have one sender.
* Logs (`LogInv`). The state is that of two logs `F`, compacted entries included, and
  a sequence `C` of committed entries, which the invariant (`LogsSound`) quantifies
  over. A replica shows a part of its log (`Fits`) and has applied a prefix of `C`
  (`Applies`). An entry of one term at one index determines what comes before it
  (`LogsAgree`). A leader's log extends its peer's or was as good when it was elected
  (`LeaderWon`). Requests that will still be looked at carry the sender's log from
  one index up to where only entries of its own term follow (`Carries`), an
  acknowledgement means that the peer's log is a prefix of the leader's (`Acks`),
  images are prefixes of `C`, and a node that leads has all of `C`.

The hard steps are the heartbeat that a follower with a longer log accepts
(`HeartbeatMatches`: the leader won, so there is no such log) and the commit
(`CommitLogs`): `matchIndex` is overwritten by old answers and proves nothing, but
any successful answer to a leader of the same term means that the peer's log is a
prefix of its own, so everything in it may be committed. `AppliedStable` is inductive
only with `C`: a late snapshot may shorten the FSM (section 6), but both are
prefixes of `C`.

**GameSession_proofs.**

* `BoardAlwaysChained` from the invariant that sessions, commands and the snapshot
  are well typed and their boards are chains whose outer pips are the cached ends;
  it needs that a tile is turned before it is put down. The pips of the payloads are
  arbitrary integers other than -1: the code takes two ends of -1 for an empty
  board (section 6).
* `TilesAlwaysConserved`, for every deck, hand size, number of players and all pips
  that payloads carry. The
  invariant says of every session, also the one in the snapshot, that either no
  tile is anywhere (not dealt, or a deal that failed) or every tile is in exactly
  one hand, at one index of the boneyard, or at one index of the board. It is
  stated with places and not with counts, so that playing, drawing and dealing are
  moves from one place to another; a tile put in front shifts the others by one.
* `ReplicasAlwaysAgree`, when nobody leaves (`Abandonable = {}`; section 6 has the
  disagreement otherwise), with failing saves and snapshots. The invariant gives
  the log a witness, the sequence of all committed commands and the session after
  each prefix of it: every node, and the snapshot, holds the session of the
  prefix it has applied. The witness is extended by `commit` alone. What the
  rules compute, sums of pips included, is not needed, only that it is a
  function of the session.
* `EndAnnouncedOnce`, when saves do not fail: the session is locked exactly when
  its end was published once, on every node and in the snapshot, where the second
  half of an abandonment must find the lock of a turn that came between.
* `BlockedOnlyAfterPasses`, for two players without snapshots: until the end
  is published, a player who does not have the turn and whose `HasPassed` is set
  has passed since a tile was last placed, because the other one either places a
  tile and gives the turn back or passes too. With three players it fails (section
  6), and a snapshot may hold half an abandonment.
* `DecidedAlwaysEnds`, for two players or more without snapshots and failing saves:
  a match that is not locked is undecided, or an abandonment is between its two
  critical sections and will look at it again (`GoesOn`). The property is about a
  match started once, so the invariant also counts the `START_MATCH` commands that
  are still to be applied. With one player there is a lone survivor from the deal.

**Hub_proofs.** For any number of players, sockets and capacities.

* `HubTyped`, `OneSocketPerPlayer`, `ClosedOnce`. That a channel is closed once
  rests on the agreement of status, registry and open channels; that agreement is
  inductive only together with two facts, that the socket registered for a player
  is one of its own and that a socket not yet registered is open.
* `LatestStateOffered`: the broadcast channel, unless it refused the delta announced
  last, ends with that state, and when it is empty every registered socket that took
  its last frame has been offered it or a newer one (`Fresh`). A socket that registers
  in between gets the state of the node, which abandonments and restored snapshots may
  have moved past what was announced, and not an older one.
* `NoUpdateLost`: `StatsKept` with the type of what was sent and seen; the steps to
  look at are the flush when a socket registers and a delivery that finds none.

**LedgerPipeline_proofs.**

* `NoRecordDisappears`, for any number of nodes, matches, capacities, attempts and
  failing calls. `AccountedFor` is not inductive: to know that a record that moves
  leaves nothing behind, the invariant (`Keeps`) says that a record is in *one*
  place, with a caller, in the queue, in the spool, among the drained ones, in the
  worker's hands before its save, or saved, that none of these holds it twice, and that
  the node was given it.
* `RowWrittenOnce` and `CareersCountOnce`, for any number of nodes, each of which adds
  its own row: what is proved is that a node does not add two. A row is written where
  the record leaves the unsaved places, so one place means one row, unless a save was
  carried out without an answer. For the careers the invariant follows the worker:
  before the update it has added nothing for this match, and between update and stamp
  it has added it once and a failed stamp is on record. Other nodes only set stamps,
  which makes a node rate less and never more.

**Broker_proofs.** `BrokerDelivers`: the broker with its pools implements
`EventDelivery`, for any publishers, subscriptions, workers, buffers and number of
events; TLC checks the same refinement in `broker_pool`. Under the mapping of
section 3 a publisher's send is the abstract enqueue, or the drop if the buffer is
full (a full channel means that the abstract queue has at least a buffer of
events), a worker's `takeJob` is the take, `workerCancel` is the abstract stop, the
event that a dispatcher gives up after it is a discard, and every other step moves
an event within the one abstract queue or touches none, so it stutters. The lemmas on sequences say what happens to a concatenation when its
middle part moves to the left.
The invariant behind it: a dispatcher holds an event only where its program
counter says so (`PoolShape`); what the map lists is subscribed and open
(`Registered`), and until the teardown so are the channel and the job queue of
every pool (`UpOpen`); a publisher's copied list names no subscription twice and
none it has sent to already (`ListedOnce`, `NotYetSeen`), which is what keeps an
event from being enqueued twice. `NoPanicWhileUp` follows from `UpOpen`,
`MapHoldsOpen` from `Registered`. `EveryDropRecorded` counts: until the teardown an
event has as many offers as pools that have seen it plus drops on record
(`Audited`). An offer adds one to either side only if the pool was not counted
before (`OfferAhead`, `NotYetSeen`). It assumes finitely many subscriptions,
because it compares cardinalities.

**MatchGateway_proofs.** For two nodes and any requests, keys, terms, log positions
and capacity.

* `OwnAnswers`. A request waits for an index. That its entry is still there is true only
  while its node leads in the term it proposed in, so the invariant (`Waits`) says it
  under that condition, together with a bound on the request's term; each step of Raft
  then has to show that terms do not go back and that whoever still leads in the same
  term has kept its log (`WaitsKept`). What the node has applied at that index is what
  its log has there, which is where the next point comes in.
* `AcksSurvive` and what was applied. Late calls cut logs, votes are given twice, and a
  confirmed entry may be gone from the peer that confirmed it. What remains (`LogKept`)
  is that one of the two nodes is `Whole`: it has all that is in either log, that
  either has applied and that was acknowledged. A leader is whole, it is the only one,
  and it keeps the vote it gave itself, so that its peer cannot be elected in the same
  term. A call of the leader leaves the peer with a part of the leader's log. A
  candidate needs its peer's vote, and a voter whose log is no newer than the
  candidate's has nothing that the candidate lacks (`VoterHasNoMore`): either the
  candidate was whole, or the voter was, and then a log that is a part of it and not
  shorter is equal to it. With three nodes neither of them need be
  the whole one.
* `RetriesReplay` rests on `Remembers`: the queue of the cache is the end of the
  sequence of all keys ever stored, without repetition, and the map has just these
  keys, so what is recent is found. Without the distinctness of the queue an eviction
  would take away a key that is stored again later.

**SessionRegistry_proofs.** `AppliedStays`, `SavesStayCurrent`, `ReadsShared`, for any
number of readers and leavers and any bounds. At most one goroutine is between the
marker and its removal (`ReaderMarked`), nothing is registered meanwhile unless the
race of section 6 has happened (`EmptyWhileRead`), and an entry in somebody's hands
is the registered one unless it was replaced (`EntryCurrent`); with the mutex of the
entry (`SavesUnderMutex`) what is saved is then the newest state.

The properties `CallsInRange` of `RaftNode`, `BlockedAfterPasses` of `GameSession`,
`RegisteredOpen` of `Broker` and `OneRead` of `SessionRegistry` are stated for the
proofs and in no run. `TypeOK` is
in the runs of `RaftNode`, `Hub` and `MatchGateway`; the other modules state theirs for the reader,
and the same instances satisfy it.

Only model-checked, by module:

* all liveness and everything under fairness (`ProposalCommits`,
  `DisconnectResolved`, `QueueDrains`, `HandedOver`, `PoolsEnd`, `LookupsEnd`), which
  the prover does not reach;
* `RaftNode` with storage and a restart: `raft_restart` checks `StateMachineSafety`
  for two nodes; no theorem covers it, because a restart forgets its vote and takes
  its whole log for committed.

## 6. Where the code and its documentation disagree

With a run that ends in a counterexample:

* `raft_divergence`: with three nodes a heartbeat clears `VotedFor`, a follower
  votes twice in one term, and two leaders commit different commands at one index
  (`raft_node.go:306`).
* `gateway_reads`: `ReadIndex` of a new leader takes its commit index before it has
  committed in its term (`raft_node.go:1012`), its peer confirms it, and the read
  misses what the predecessor acknowledged, against the comment at line 972.

Seen as counterexamples of TLC, without a run in the suite. In brackets what to
change to see it again.

* The answer of `InstallSnapshot` updates neither `nextIndex` nor `matchIndex`;
  the peer counts for no commit any more (`raft_node.go:1612`).
  [`RaftCommits.cfg` with `CompactThreshold = 1`, `MaxTerm = 1`.]
* An abandonment is applied on the node whose timer fired and on no other
  (`gateway/session.go:104`), although replicas are to converge.
  [`GameReplicas.cfg` with `Abandonable = {1}`.]
* An event of an earlier grace period ends a later one at once (`ws/hub.go:277`).
  [`HubSockets.cfg` with the property `GraceHonoured`.]
* With three players `HasPassed` of one may date from before the last tile placed by
  somebody who then leaves, and the match is called blocked (`evaluation.go:71`).
  [`GameTable.cfg` with the invariant `BlockedAfterPasses`.]
* "idempotent mutation handling" (`match_gateway.go:106`): the cache is local to
  the leader, consulted before the proposal and filled after it. Two attempts
  under way, an attempt that timed out and was committed later, and a retry after
  a change of leader are all proposed; the rules refuse most second moves, but
  not a draw or a pass that is legal again. [`GatewayRequests.cfg` with the
  invariant `MutationOnce`.] `RetryReplayed` is what the cache does promise.

Met while modelling, in the modules as the code has them, without a run of their
own:

* A restart takes the whole persisted log for committed (`raft_node.go:1421`).
* A late `InstallSnapshot` lowers `commitIndex` and may replace the FSM of a node
  that has applied more (`raft_node.go:394`); `AppliedStable` excepts it, and says
  that the node is then at an earlier point of the same history.
* A cluster of one node never advances its commit index (`raft_node.go:611`).
* With three nodes a late `AppendEntries` with fewer entries cuts an acknowledged entry
  off a follower (`raft_node.go:329`), which then elects a leader without it together
  with the node that never had it: acknowledged commands are lost even if nobody
  votes twice.
* With three players the turn may go to one who has left, where nobody can move
  it on (`game_methods.go:432`), and the match hangs. A second start also deals to
  players who have left and evaluates nothing; `DecidedMatchEnds` excepts it.
* A played tile is found in the hand by its id, and the pips that are checked and
  placed are those of the payload (`game_methods.go:289`, `:307`): nothing compares
  them with the tile held, and the board may show pips that no tile has. Ends of
  -1 count as an empty board (`game_methods.go:272`), where the next tile
  need not match; `BoardAlwaysChained` excepts such payloads.
* Every node saves and rates a match for itself: a match has a row per node, and the
  check of the stamp and the update are separate calls, so two nodes may both rate it
  (`engine/rating_worker.go:95`). `OneRowPerNode` and `RatedOncePerNode` are about
  each node alone.
* `UpdatePlayerCareers` "upserts career stat mutations keyed by player.id"
  (`stats_repository.go:58`), but the mutation has no uid and the store adds nodes: the
  careers of a player do not accumulate.
* `EvaluateMatch` of a session that was never dealt finds an empty hand
  (`evaluation.go:9`).
* When saving fails after a match was locked, its end is not published
  (`lifecycle.go:119`).
* `SnapshotSessions` copies sessions shallowly: an abandonment during the encoding
  is half in the snapshot (`replicated.go:134`).
* Changes made by an abandonment (`ws/hub.go:292`) or a restored snapshot are not sent
  to clients as a delta; `ViewsCatchUp` is about announced states. A delta that was
  still in the channel then takes a new socket back to the state before.
* The read pump of a replaced socket may send an error on a closed channel, which
  panics (`ws/client.go:115`; `crash = "pump"`).
* A full abandon channel drops the event and the timer is not started again
  (`ws/hub.go:342`); `DisconnectResolved` excepts it.
* When a replay fails, the records drained with it and not yet saved are lost
  (`ledger_worker.go:150`), and `Enqueue` after `Stop` sends on a closed channel
  (`cmd/server/main.go:249`); `AccountedFor` excepts both.
* When stamping fails after careers were written, the match is rated again
  (`rating_worker.go:197`); `RatedOncePerNode` excepts it.
* `main` closes the queue and does not wait for `Run` to come to its end
  (`cmd/server/main.go:249`): what is still queued or spooled ends with the process.
  `QueueDrains` is about a process that goes on.
* `Publish` sends after it has released the lock (`event_broker.go:132`), although
  the broker is described as thread-safe (`event_broker.go:32`): at teardown the
  channel may have been closed and the process panics. So it does when the
  dispatcher picks the send to a job queue that is already closed (`loop.go:276`),
  and when `Close` comes before `removeSubscriber`: the goroutine of the subscription
  then closes the channel a second time (`event_broker.go:172`).
  `PanicOnlyAtTeardown` says that this is the only time.
* The pools start late in `main`: what is published before goes to nobody and is
  not recorded as dropped. `Subscribe` on a closed broker succeeds.
* `ProposeAndWait` waits for an index. A node that loses office may answer with the
  result of the command its successor put there (`raft_node.go:866`);
  `LeaderAnswersOwn` is stated for nodes that keep it.
* The "bounded LRU" of `session_cache.go:17` evicts in order of insertion; a lookup
  does not renew an entry.
* Two nodes that take each other for the leader forward a request to and fro
  until the callers give up.
* A create request retried without a match id makes another match.
* A hydration under way registers what it read over a session that `START_MATCH` or
  a restore has registered meanwhile (`game_manager.go:198`); `AppliedKept` excepts
  it. When the FSM's own hydration fails and a reader's succeeds in between,
  `CreateSession` returns an error on this node and on no other.
* `SnapshotSessions` holds the map mutex while it waits for an entry whose owner is
  saving to the repository; `game_manager.go:23` says that mutex is never held
  during long database operations.
* A goroutine with an entry that a restore has replaced saves its older state;
  `SavesCurrent` excepts it.
* `ListActiveSessionIDs` queries `game_session.status`
  (`game_respository.go:133`), a session is saved with the predicate `status`
  (`models/game.go:49`), so recovery may find nothing. Not modelled.

## 7. What is not modelled

* The graph repository and its queries (I/O; the modules that use it treat it as an
  external store), the player and leaderboard statistics and their cursors, HTTP
  handlers, telemetry and rate limiting, flags and wiring.
* ELO ratings: floating-point arithmetic.
* `LEDGER_BALANCE`, `AddSession` and `EvictSession`: no code uses them.
* `/match/read`, which answers from local memory and promises nothing.
* What other nodes write to the shared repository while one node hydrates; the
  encoding of hands and board for it (`FlushPlayState`, `HydratePlayState`).
* The web client.
* Raft membership: only tests propose its commands. Crash points inside a handler
  are planned (section 2).
