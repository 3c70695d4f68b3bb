--------------------------- MODULE MatchGateway ---------------------------
(***************************************************************************)
(* The HTTP gateway of two nodes (pkg/gateway) on top of the Raft log:     *)
(* requests are forwarded to the leader, proposed, waited for by index and *)
(* remembered under their idempotency key; state is read after a ReadIndex *)
(* barrier (raft_node.go).                                                 *)
(*                                                                         *)
(* Of Raft this module keeps what a waiting caller can see.  An election   *)
(* or a call is one step, with an answer that may be lost, and calls may   *)
(* be served late; RaftNode has them message by message, with snapshots    *)
(* and restarts.  It is about two nodes, because with three the log itself *)
(* breaks its promises (README.md, section 6).                             *)
(***************************************************************************)
EXTENDS Integers, Sequences, FiniteSets, TLC

CONSTANTS
    Node,        \* two of them: a majority is both
    Request,     \* slots for HTTP requests: as many are under way at most
    Kind,        \* which of "mutate", "create", "state", "fill" are sent, and
                 \* "turn", a move that a player makes over the web socket
    Key,         \* client_id and sequence_number of a mutation
    Repeatable,  \* keys of moves that the rules accept a second time
    Start,       \* the command of a create request
    Noop,        \* the command of a fill-log request
    CacheCap,    \* capacity of the idempotency cache
    FillCount,   \* defaultFillLogCount
    MaxSends,    \* requests and retries in all
    MaxOthers,   \* mutations only once as many have been sent
    MaxHops,     \* times a request is forwarded before its callers give up
    MaxTerm,
    MaxIndex,
    None

ASSUME GatewayAssumption ==
    /\ \E a, b \in Node : a # b /\ Node = {a, b}
    /\ Kind \subseteq {"mutate", "create", "state", "fill", "turn"}
    /\ Repeatable \subseteq Key /\ Start \notin Key /\ Noop \notin Key
    /\ CacheCap \in Nat \ {0} /\ FillCount \in Nat \ {0}
    /\ MaxSends \in Nat /\ MaxOthers \in Nat /\ MaxHops \in Nat
    /\ MaxTerm \in Nat /\ MaxIndex \in Nat
    /\ None \notin Node \cup Key \cup {Start, Noop}

Command == Key \cup {Start, Noop}
Entry == [term : 1..MaxTerm, cmd : Command]

VARIABLES
    term,         \* of a node: CurrentTerm
    votedFor,     \* of a node: VotedFor
    leads,        \* of a node: State = leader
    knownLeader,  \* of a node: knownLeaderID
    log,          \* of a node: its log
    commitIndex,  \* of a node: commitIndex
    results,      \* of a node: applyResults from 1 to lastApplied; a result
                  \* is the command it belongs to
    matchIndex,   \* of a leader: what its peer has confirmed to it, or 0
    cache,        \* of a node: SessionCache, the keys of its map and their
                  \* order; what a cached response says plays no part
    req,          \* of a request: where it is and what it knows
    sent,         \* requests sent so far
    ghost         \* what the properties remember, see Init

raftVars == <<term, votedFor, leads, knownLeader, log, commitIndex, results,
              matchIndex>>
vars == <<raftVars, cache, req, sent, ghost>>

At == {"idle", "route", "propose", "wait", "confirm"}

TypeOK ==
    /\ term \in [Node -> 0..MaxTerm]
    /\ votedFor \in [Node -> Node \cup {None}]
    /\ leads \in [Node -> BOOLEAN]
    /\ knownLeader \in [Node -> Node \cup {None}]
    /\ log \in [Node -> Seq(Entry)] /\ results \in [Node -> Seq(Command)]
    /\ commitIndex \in [Node -> 0..MaxIndex]
    /\ matchIndex \in [Node -> 0..MaxIndex]
    /\ \A n \in Node :
          /\ cache[n].order \in Seq(Key) /\ Len(cache[n].order) <= CacheCap
          /\ cache[n].entries
                = {cache[n].order[i] : i \in DOMAIN cache[n].order}
    /\ sent \in 0..MaxSends
    /\ req \in [Request -> [at : At, kind : Kind \cup {"none"},
                            cmd : Command \cup {None}, node : Node \cup {None},
                            hops : 0..MaxHops, heard : BOOLEAN,
                            index : 0..MaxIndex, term : 0..MaxTerm,
                            left : 0..FillCount, acked : BOOLEAN]]

idleRequest == [at |-> "idle", kind |-> "none", cmd |-> None, node |-> None,
                hops |-> 0, heard |-> TRUE, index |-> 0, term |-> 0, left |-> 0,
                acked |-> FALSE]

\* ghost.acked: commands that clients were told are done, and where they are;
\* ghost.foreign: a node that led all the time answered with the result of
\* another command; ghost.before: what was acked when a state request began
\* its read; ghost.stale: a read missed one of these; ghost.stores: the keys
\* a node has put into its cache, oldest first.
Init ==
    /\ term = [n \in Node |-> 0]
    /\ votedFor = [n \in Node |-> None]
    /\ leads = [n \in Node |-> FALSE]
    /\ knownLeader = [n \in Node |-> None]
    /\ log = [n \in Node |-> << >>]
    /\ commitIndex = [n \in Node |-> 0]
    /\ results = [n \in Node |-> << >>]
    /\ matchIndex = [n \in Node |-> 0]
    /\ cache = [n \in Node |-> [order |-> << >>, entries |-> {}]]
    /\ req = [r \in Request |-> idleRequest]
    /\ sent = 0
    /\ ghost = [acked |-> {}, foreign |-> FALSE, stale |-> FALSE,
                before |-> [r \in Request |-> {}],
                stores |-> [n \in Node |-> << >>]]

-----------------------------------------------------------------------------
(* Raft, as far as a caller notices it.                                    *)

lastTerm(l) == IF l = << >> THEN 0 ELSE l[Len(l)].term

\* mutant: the length of the log does not count.
upToDateByTerm(l, other) == lastTerm(l) >= lastTerm(other)

upToDate(l, other) ==
    \/ lastTerm(l) > lastTerm(other)
    \/ lastTerm(l) = lastTerm(other) /\ Len(l) >= Len(other)

Least(a, b) == IF a < b THEN a ELSE b
Most(a, b) == IF a > b THEN a ELSE b

\* n stands for election and asks m for its vote.  The request is lost, it is
\* served and the answer is lost, or it is answered.  A vote of this term is
\* free again once AppendEntries has cleared it.
startElection(n, m, fate) ==
    LET t == term[n] + 1
        newer == fate # "lost" /\ term[m] < t
        grant == /\ fate # "lost" /\ term[m] <= t
                 /\ newer \/ votedFor[m] \in {None, n}
                 /\ upToDate(log[n], log[m])
        behind == fate = "answered" /\ term[m] > t
    IN /\ m # n /\ ~leads[n] /\ t <= MaxTerm
       /\ term' = [term EXCEPT ![n] = IF behind THEN term[m] ELSE t,
                               ![m] = IF newer THEN t ELSE @]
       /\ votedFor' = [votedFor EXCEPT
                         ![n] = IF behind THEN None ELSE n,
                         ![m] = IF grant THEN n ELSE IF newer THEN None ELSE @]
       /\ leads' = [leads EXCEPT ![n] = grant /\ fate = "answered",
                                 ![m] = @ /\ ~newer]
       /\ matchIndex' = [matchIndex EXCEPT ![n] = 0, ![m] = IF newer THEN 0 ELSE @]
       /\ UNCHANGED <<knownLeader, log, commitIndex, results, cache, req, sent,
                      ghost>>

\* The commit index of leader n once its peer has confirmed the first k entries.
advanced(n, k) ==
    LET ready == {i \in (commitIndex[n] + 1)..Least(k, Len(log[n])) :
                     log[n][i].term = term[n]}
    IN IF ready = {} THEN commitIndex[n]
       ELSE CHOOSE i \in ready : \A j \in ready : j <= i

\* Results done, after entries of log l up to commit index c have been applied
\* as far as they are there.
applyCommitted(done, l, c) ==
    LET upTo == Most(Len(done), Least(c, Len(l)))
    IN [i \in 1..upTo |-> IF i <= Len(done) THEN done[i] ELSE l[i].cmd]

\* A call that the leader n may have made since it was elected: the entries
\* from prev to last, which was the end of its log then, and its commit index.
isCall(n, call) ==
    /\ call.prev <= call.last
    /\ \A i \in (call.last + 1)..Len(log[n]) : log[n][i].term = term[n]
    /\ call.commit <= call.last

callsOf(n) ==
    {call \in [prev : 0..Len(log[n]), last : 0..Len(log[n]),
               commit : 0..commitIndex[n]] : isCall(n, call)}

\* The consistency check of AppendEntries.
prevMatches(n, m, call) ==
    \/ call.prev = 0
    \/ call.prev <= Len(log[m]) /\ log[m][call.prev].term = log[n][call.prev].term

\* What is behind prev goes, however short the call is.
received(n, m, call) ==
    IF call.prev = call.last THEN log[m]
    ELSE SubSeq(log[m], 1, call.prev) \o SubSeq(log[n], call.prev + 1, call.last)

\* What a call of n makes of m and, if its answer counts, of n.
served(n, m, call, counts) ==
    LET ok == prevMatches(n, m, call)
        newLog == IF ok THEN received(n, m, call) ELSE log[m]
    IN [log |-> newLog,
        commit |-> IF ok /\ call.commit > commitIndex[m]
                   THEN Least(call.commit, Len(newLog)) ELSE commitIndex[m],
        advanced |-> IF ok /\ counts THEN advanced(n, call.last) ELSE commitIndex[n],
        match |-> IF ok /\ counts THEN call.last ELSE matchIndex[n],
        success |-> ok]

\* AppendEntries at m, which follows n and forgets its vote.
AppendEntries(n, m, s) ==
    /\ term' = [term EXCEPT ![m] = term[n]]
    /\ votedFor' = [votedFor EXCEPT ![m] = None]
    /\ leads' = [leads EXCEPT ![m] = FALSE]
    /\ knownLeader' = [knownLeader EXCEPT ![m] = n]
    /\ log' = [log EXCEPT ![m] = s.log]
    /\ commitIndex' = [commitIndex EXCEPT ![m] = s.commit, ![n] = s.advanced]
    /\ results' = [results EXCEPT
                     ![m] = IF s.success THEN applyCommitted(@, s.log, s.commit) ELSE @,
                     ![n] = applyCommitted(@, log[n], s.advanced)]
    /\ matchIndex' = [matchIndex EXCEPT ![m] = 0, ![n] = s.match]

\* The answer of m carries a newer term.
deposed(n, m) ==
    /\ term' = [term EXCEPT ![n] = term[m]]
    /\ votedFor' = [votedFor EXCEPT ![n] = None]
    /\ leads' = [leads EXCEPT ![n] = FALSE]
    /\ matchIndex' = [matchIndex EXCEPT ![n] = 0]
    /\ UNCHANGED <<knownLeader, log, commitIndex, results>>

\* All that the calls of n may come to, whether their answers arrive or not.
outcomes(n, m) ==
    {served(n, m, call, back) : call \in callsOf(n), back \in BOOLEAN}

\* Peer m serves a call of n, which may have been overtaken by later ones.  A
\* node that leads no more has no calls that its peer would not refuse: it was
\* the peer that deposed it.
replicateToPeer(n, m) ==
    /\ leads[n] /\ m # n
    /\ \/ term[m] > term[n] /\ deposed(n, m)
       \/ /\ term[m] <= term[n]
          /\ \E s \in outcomes(n, m) : AppendEntries(n, m, s)
    /\ UNCHANGED <<cache, req, sent, ghost>>

-----------------------------------------------------------------------------
(* Requests.                                                               *)

become(r, at) == req' = [req EXCEPT ![r].at = at]

\* The handler has written its answer and ends, and its variables with it.
answered(r) == req' = [req EXCEPT ![r] = idleRequest]

\* A request that passes validation on its first node.
arrives(r, n, kind, cmd, next) ==
    /\ kind \in Kind
    /\ req[r].at = "idle" /\ sent < MaxSends
    /\ kind # "mutate" => sent < MaxOthers
    /\ sent' = sent + 1
    /\ req' = [req EXCEPT ![r] =
                 [idleRequest EXCEPT !.at = next, !.kind = kind, !.cmd = cmd,
                     !.node = n, !.left = IF kind = "fill" THEN FillCount ELSE 0]]
    /\ UNCHANGED <<raftVars, cache, ghost>>

handleMutate(r, n) == \E k \in Key : arrives(r, n, "mutate", k, "route")

handleCreate(r, n) == arrives(r, n, "create", Start, "route")

handleState(r, n) == arrives(r, n, "state", None, "route")

handleFillLog(r, n) == arrives(r, n, "fill", Noop, "route")

\* A move over the web socket: proposed where the player is connected, and
\* neither forwarded nor remembered.
proposeTurn(r, n) == \E k \in Key : arrives(r, n, "turn", k, "propose")

\* The node a request was forwarded to validates it again: it may know the
\* match, and that the player is not in it.
refuse(r) ==
    /\ req[r].at = "route" /\ req[r].hops > 0
    /\ answered(r)
    /\ UNCHANGED <<raftVars, cache, sent, ghost>>

\* The leader a follower has last heard of.
LeaderEndpoint(n) == knownLeader[n]

\* What the forward...ToLeader functions share.
forward(r, kind) ==
    LET leader == LeaderEndpoint(req[r].node)
    IN /\ req[r].at = "route" /\ req[r].kind = kind /\ ~leads[req[r].node]
       /\ \/ leader = None /\ answered(r)
          \/ /\ leader # None /\ req[r].hops < MaxHops
             /\ req' = [req EXCEPT ![r].node = leader, ![r].hops = @ + 1]
       /\ UNCHANGED <<raftVars, cache, sent, ghost>>

forwardMutateToLeader(r) == forward(r, "mutate")

forwardCreateToLeader(r) == forward(r, "create")

forwardStateToLeader(r) == forward(r, "state")

forwardFillLogToLeader(r) == forward(r, "fill")

\* A proxying hop times out and answers 503; the node it asked goes on, and
\* nobody hears what it answers.
giveUp(r) ==
    /\ req[r].hops > 0 /\ req[r].heard
    /\ req' = [req EXCEPT ![r].heard = FALSE]
    /\ UNCHANGED <<raftVars, cache, sent, ghost>>

\* SessionCache.Get on the leader.
Get(n, k) == k \in cache[n].entries

\* mutant: a cache that is full takes nothing in.
PutIfRoom(c, k) ==
    IF k \in c.entries \/ Len(c.order) >= CacheCap THEN c
    ELSE [order |-> Append(c.order, k), entries |-> c.entries \cup {k}]

\* mutant: the oldest key leaves the queue and stays in the map.
PutWithoutDelete(c, k) ==
    LET order == Append(c.order, k)
    IN IF k \in c.entries THEN c
       ELSE [order |-> IF Len(order) > CacheCap THEN Tail(order) ELSE order,
             entries |-> c.entries \cup {k}]

\* SessionCache.Put: a new key goes to the end of the queue, and when that
\* is too long the oldest key goes.
Put(c, k) ==
    LET order == Append(c.order, k)
        entries == c.entries \cup {k}
    IN IF k \in c.entries THEN c
       ELSE IF Len(order) > CacheCap
            THEN [order |-> Tail(order), entries |-> entries \ {Head(order)}]
            ELSE [order |-> order, entries |-> entries]

local(r, kind) ==
    req[r].at = "route" /\ req[r].kind = kind /\ leads[req[r].node]

\* The cache may have the answer.
processLocalMutate(r) ==
    LET hit == Get(req[r].node, req[r].cmd)
    IN /\ local(r, "mutate")
       /\ \/ hit /\ answered(r)
          \/ ~hit /\ become(r, "propose")
       /\ UNCHANGED <<raftVars, cache, sent, ghost>>

processLocalCreate(r) ==
    /\ local(r, "create")
    /\ become(r, "propose")
    /\ UNCHANGED <<raftVars, cache, sent, ghost>>

processLocalFillLog(r) ==
    /\ local(r, "fill")
    /\ become(r, "propose")
    /\ UNCHANGED <<raftVars, cache, sent, ghost>>

\* mutant: the index is counted from the last committed entry.
indexAfterCommit(n) == commitIndex[n] + 1

\* The index that Propose returns: that of the entry it appends.
proposedIndex(n) == Len(log[n]) + 1

\* Propose, on the node that was the leader a moment ago.
Propose(r) ==
    LET n == req[r].node
    IN /\ req[r].at = "propose"
       /\ \/ /\ ~leads[n] /\ answered(r)
             /\ UNCHANGED log
          \/ /\ leads[n] /\ Len(log[n]) < MaxIndex
             /\ log' = [log EXCEPT ![n] =
                          Append(@, [term |-> term[n], cmd |-> req[r].cmd])]
             /\ req' = [req EXCEPT ![r].at = "wait", ![r].term = term[n],
                                   ![r].index = proposedIndex(n)]
       /\ UNCHANGED <<term, votedFor, leads, knownLeader, commitIndex, results,
                      matchIndex, cache, sent, ghost>>

\* Apply accepts the i-th command: a move that was carried out before may not
\* be legal any more.
accepted(done, i) ==
    \/ done[i] \in Repeatable \cup {Start, Noop}
    \/ \A j \in 1..(i - 1) : done[j] # done[i]

\* waitForCommit and waitForApply are over: there is a result for the index.
applied(r, kind) ==
    /\ req[r].at = "wait" /\ req[r].kind = kind
    /\ req[r].index <= commitIndex[req[r].node]
    /\ req[r].index <= Len(results[req[r].node])

result(r) == results[req[r].node][req[r].index]
own(r) == result(r) = req[r].cmd
executed(r) == accepted(results[req[r].node], req[r].index)

\* What the client has been told, and whether it was about its own command.
told(r) ==
    LET n == req[r].node
        stillLeads == leads[n] /\ term[n] = req[r].term
    IN [ghost EXCEPT
          !.acked = IF own(r) /\ req[r].heard
                    THEN @ \cup {<<req[r].index, result(r)>>} ELSE @,
          !.foreign = @ \/ (stillLeads /\ ~own(r)),
          !.stores[n] = IF req[r].kind = "mutate" /\ ~Get(n, req[r].cmd)
                        THEN Append(@, req[r].cmd) ELSE @]

\* Only answers that went well are put into the cache.  The result of
\* another match cannot be masked for the player.
mutateApplied(r) ==
    /\ applied(r, "mutate")
    /\ answered(r)
    /\ \/ /\ executed(r)
          /\ cache' = [cache EXCEPT ![req[r].node] = Put(@, req[r].cmd)]
          /\ ghost' = told(r)
       \/ ~(executed(r) /\ own(r)) /\ UNCHANGED <<cache, ghost>>
    /\ UNCHANGED <<raftVars, sent>>

turnApplied(r) ==
    /\ applied(r, "turn")
    /\ answered(r)
    /\ ghost' = IF executed(r) THEN told(r) ELSE ghost
    /\ UNCHANGED <<raftVars, cache, sent>>

createApplied(r) ==
    /\ applied(r, "create")
    /\ answered(r)
    /\ ghost' = IF executed(r) THEN told(r) ELSE ghost
    /\ UNCHANGED <<raftVars, cache, sent>>

\* One no-op after the other, until one is refused.
fillLogApplied(r) ==
    /\ applied(r, "fill")
    /\ \/ /\ executed(r) /\ req[r].left > 1
          /\ req' = [req EXCEPT ![r].at = "propose", ![r].left = @ - 1]
          /\ UNCHANGED ghost
       \/ /\ executed(r) /\ req[r].left <= 1
          /\ answered(r)
          /\ ghost' = told(r)
       \/ ~executed(r) /\ answered(r) /\ UNCHANGED ghost
    /\ UNCHANGED <<raftVars, cache, sent>>

\* The proposal is not committed in time.  It stays in the log.
timeout(r) ==
    /\ req[r].at = "wait"
    /\ answered(r)
    /\ UNCHANGED <<raftVars, cache, sent, ghost>>

-----------------------------------------------------------------------------
(* Linearizable reads.                                                     *)

\* beginReadIndex.
beginReadIndex(r) ==
    LET n == req[r].node
    IN /\ req[r].at = "route" /\ leads[n] /\ req[r].kind = "state"
       /\ req' = [req EXCEPT ![r].at = "confirm", ![r].index = commitIndex[n],
                             ![r].term = term[n]]
       /\ ghost' = [ghost EXCEPT !.before[r] = ghost.acked]
       /\ UNCHANGED <<raftVars, cache, sent>>

\* confirmLeadershipForRead asks the peer: an AppendEntries without entries
\* that ends at the last entry of the leader.  A peer that lacks it does not
\* confirm, and its answer may be lost.
confirmPeer(r, m, back) ==
    LET n == req[r].node
        last == Len(log[n])
        call == [prev |-> last, last |-> last,
                 commit |-> Most(commitIndex[n], req[r].index)]
        s == served(n, m, call, FALSE)
    IN /\ req[r].at = "confirm" /\ m # n
       /\ leads[n] /\ term[n] = req[r].term
       /\ \/ /\ term[m] > term[n] /\ back
             /\ deposed(n, m)
             /\ UNCHANGED req
          \/ /\ term[m] <= term[n]
             /\ AppendEntries(n, m, s)
             /\ req' = [req EXCEPT ![r].acked = @ \/ (s.success /\ back)]
       /\ UNCHANGED <<cache, sent, ghost>>

\* The last check of confirmLeadershipForRead.
confirmed(r) ==
    leads[req[r].node] /\ term[req[r].node] = req[r].term /\ req[r].acked

\* The peer has answered or not.  A confirmed leader that has applied its read
\* index answers from the session it holds.
finishRead(r) ==
    LET n == req[r].node
        misses(a) == a[1] > Len(results[n]) \/ results[n][a[1]] # a[2]
    IN /\ req[r].at = "confirm"
       /\ \/ /\ confirmed(r)
             /\ req[r].index <= Len(results[n])
             /\ answered(r)
             /\ ghost' = [ghost EXCEPT
                  !.before[r] = {},
                  !.stale = @ \/ \E a \in ghost.before[r] : misses(a)]
          \/ /\ ~confirmed(r)
             /\ answered(r)
             /\ ghost' = [ghost EXCEPT !.before[r] = {}]
       /\ UNCHANGED <<raftVars, cache, sent>>

RaftNext ==
    \E n, m \in Node :
        \/ \E fate \in {"lost", "served", "answered"} : startElection(n, m, fate)
        \/ replicateToPeer(n, m)

Register ==
    \E r \in Request, n \in Node :
        \/ handleMutate(r, n) \/ handleCreate(r, n)
        \/ handleState(r, n) \/ handleFillLog(r, n) \/ proposeTurn(r, n)

Next ==
    \/ RaftNext
    \/ Register
    \/ \E r \in Request :
          \/ refuse(r) \/ giveUp(r) \/ Propose(r) \/ timeout(r)
          \/ forwardMutateToLeader(r) \/ forwardCreateToLeader(r)
          \/ forwardStateToLeader(r) \/ forwardFillLogToLeader(r)
          \/ processLocalMutate(r) \/ processLocalCreate(r)
          \/ processLocalFillLog(r)
          \/ mutateApplied(r) \/ turnApplied(r)
          \/ createApplied(r) \/ fillLogApplied(r)
          \/ beginReadIndex(r) \/ finishRead(r)
          \/ \E m \in Node, a \in BOOLEAN : confirmPeer(r, m, a)

Spec == Init /\ [][Next]_vars

-----------------------------------------------------------------------------
(* Properties *)

\* A node that has led since it proposed answers with the result of the
\* request's own command: ProposeAndWaitTimeout waits for an index only.
LeaderAnswersOwn == ~ghost.foreign

\* What a client was told is done stays done: whoever leads has every
\* acknowledged command at its index, although a late call may have cut it out
\* of the log of the peer (ProposeAndWaitTimeout, AppendEntries).
AckedKept ==
    \A n \in Node, a \in ghost.acked :
        leads[n] => a[1] <= Len(log[n]) /\ log[n][a[1]].cmd = a[2]

\* A state request is answered with all that was acknowledged before it was
\* read (EnsureLinearizableRead, "subsequent local state reads are
\* linearizable").  Does not hold: a new leader does not know yet what its
\* predecessor has committed.
ReadsSeeAcked == ~ghost.stale

recent(n) ==
    LET s == ghost.stores[n]
    IN {s[i] : i \in {i \in 1..Len(s) : i > Len(s) - CacheCap}}

\* A retry on the node that answered is not proposed again, until as many
\* other keys as the cache holds have come after it (processLocalMutate).
RetryReplayed ==
    [][\A r \in Request :
          (req[r].at = "route" /\ req[r].kind = "mutate" /\ req'[r].at = "propose")
          => req[r].cmd \notin recent(req[r].node)]_vars

\* A mutation is carried out at most once, however often it is sent
\* (match_gateway.go, "idempotent mutation handling").  Does not hold: the
\* cache is per node, looked up before and filled after the proposal.  No run
\* checks it; README.md, section 6.
MutationOnce ==
    \A n \in Node, i, j \in 1..MaxIndex :
        (i < j /\ j <= Len(results[n]) /\ results[n][i] = results[n][j]
         /\ results[n][i] \in Key)
        => ~accepted(results[n], j)

Symmetry == {p @@ q : p \in Permutations(Request), q \in Permutations(Node)}
=============================================================================
