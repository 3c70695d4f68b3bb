------------------------------ MODULE RaftNode ------------------------------
(***************************************************************************)
(* The replicated log of the domino server: pkg/consensus/raft_node.go.    *)
(* Every node runs the same handlers under one mutex, so a handler is one  *)
(* action.  An RPC is a goroutine that dials, waits at most 200ms and then *)
(* forgets the answer (transport.go): requests of one caller may overtake  *)
(* each other, be lost, or be served after the caller has given up.  The   *)
(* identical requests in flight at one time count as one.                  *)
(*                                                                         *)
(* Membership is fixed to Node: the server never calls ProposeAddNode or   *)
(* ProposeRemoveNode, and Command holds the commands of the match FSM.     *)
(***************************************************************************)
EXTENDS Naturals, FiniteSets, Sequences

CONSTANTS
    Node,              \* the keys of PeerAddresses, this node included
    Command,           \* encoded commands of the match FSM
    Nil,               \* the empty node id ""
    CompactThreshold,  \* RAFT_COMPACT_THRESHOLD
    Durable,           \* TRUE when RAFT_DATA_DIR is set (n.storage # nil)
    MaxTerm,           \* bound: no election starts in term MaxTerm
    MaxIndex,          \* bound: no proposal beyond log index MaxIndex
    MaxRestarts,       \* bound: crashes and shutdowns over all nodes
    MaxInFlight        \* bound: AppendEntries requests and answers in flight

ASSUME ConstantsAssumption ==
    /\ IsFiniteSet(Node)
    /\ Nil \notin Node
    /\ CompactThreshold \in Nat \ {0}
    /\ Durable \in BOOLEAN
    /\ MaxTerm \in Nat
    /\ MaxIndex \in Nat
    /\ MaxRestarts \in Nat
    /\ MaxInFlight \in Nat

Follower  == "Follower"
Candidate == "Candidate"
Leader    == "Leader"

VARIABLES
    currentTerm, votedFor, state,  \* CurrentTerm, VotedFor, State
    knownLeader,                   \* knownLeaderID
    replica,                       \* log, snapshot, indexes and FSM: see Replica
    nextIndex, matchIndex,         \* 0 where the Go map is nil
    votes,                         \* voters counted by the running election
    disk,                          \* what RaftStorage holds
    voteReqs, voteReplies,         \* RequestVote RPCs, each sent once
    appendReqs, appendReplies,     \* AppendEntries RPCs
    snapTasks, snapReqs,           \* InstallSnapshot: goroutines and RPCs
    restarts                       \* number of restarts so far

electionVars == <<currentTerm, votedFor, state, knownLeader, votes>>
leaderVars   == <<nextIndex, matchIndex>>
voteRpcs     == <<voteReqs, voteReplies>>
appendRpcs   == <<appendReqs, appendReplies>>
snapRpcs     == <<snapTasks, snapReqs>>
vars == <<electionVars, replica, leaderVars, disk, voteRpcs, appendRpcs,
          snapRpcs, restarts>>

-----------------------------------------------------------------------------
(* The state the handlers share.  A replica's log holds the entries after  *)
(* the sentinel; the entry at position k has index snapshotIndex + k.  The *)
(* FSM is the sequence of commands applied to it, a snapshot is the FSM    *)
(* it was taken from, and an apply result is the command that produced it. *)

Index == 1..MaxIndex
Entry == [term : Nat, cmd : Command]

Replica == [log : Seq(Entry), snapshotIndex : Nat, snapshotTerm : Nat,
            snapshot : Seq(Command), commitIndex : Nat, lastApplied : Nat,
            fsm : Seq(Command), applyResults : [Index -> Command \cup {Nil}]]

Disk == [log : Seq(Entry), snapshotIndex : Nat, snapshotTerm : Nat,
         snapshot : Seq(Command), commitIndex : Nat,
         term : Nat, votedFor : Node \cup {Nil}]

VoteReq    == [from : Node, to : Node, live : BOOLEAN, term : Nat,
               lastLogIndex : Nat, lastLogTerm : Nat]
VoteReply  == [req : VoteReq, term : Nat, granted : BOOLEAN]
AppendReq  == [from : Node, to : Node, live : BOOLEAN, term : Nat,
               prevLogIndex : Nat, prevLogTerm : Nat, entries : Seq(Entry),
               leaderCommit : Nat]
AppendReply == [req : AppendReq, term : Nat, success : BOOLEAN]
SnapTask   == [from : Node, to : Node, term : Nat]
SnapReq    == [from : Node, to : Node, term : Nat, lastIncludedIndex : Nat,
               lastIncludedTerm : Nat, data : Seq(Command)]

\* Every variable holds a value of its Go type.
TypeOK ==
    /\ currentTerm \in [Node -> Nat]
    /\ votedFor \in [Node -> Node \cup {Nil}]
    /\ state \in [Node -> {Follower, Candidate, Leader}]
    /\ knownLeader \in [Node -> Node \cup {Nil}]
    /\ replica \in [Node -> Replica]
    /\ nextIndex \in [Node -> [Node -> Nat]]
    /\ matchIndex \in [Node -> [Node -> Nat]]
    /\ votes \in [Node -> SUBSET Node]
    /\ disk \in [Node -> Disk]
    /\ voteReqs \subseteq VoteReq
    /\ voteReplies \subseteq VoteReply
    /\ appendReqs \subseteq AppendReq
    /\ appendReplies \subseteq AppendReply
    /\ snapTasks \subseteq SnapTask
    /\ snapReqs \subseteq SnapReq
    /\ restarts \in Nat

-----------------------------------------------------------------------------
(* Pure functions of a replica.                                            *)

Lesser(a, b)  == IF a < b THEN a ELSE b
Greater(a, b) == IF a > b THEN a ELSE b

majority == Cardinality(Node) \div 2 + 1
peers(n) == Node \ {n}

lastLogIndex(r) == r.snapshotIndex + Len(r.log)

\* The term of entry i, the sentinel included: snapshotIndex <= i <= lastLogIndex.
termAt(r, i) ==
    IF i = r.snapshotIndex THEN r.snapshotTerm
                           ELSE r.log[i - r.snapshotIndex].term

lastLogTerm(r) == termAt(r, lastLogIndex(r))

\* Mutant of logIsUpToDate: the length of the log does not count.
logIsUpToDateByTerm(r, index, term) == term >= lastLogTerm(r)

logIsUpToDate(r, index, term) ==
    \/ term > lastLogTerm(r)
    \/ term = lastLogTerm(r) /\ index >= lastLogIndex(r)

\* The log after index i: the tail that compaction and snapshots keep.
tailAfter(r, i) == SubSeq(r.log, i - r.snapshotIndex + 1, Len(r.log))

\* Where the apply loop stops: at the commit index or at the end of the log.
applicable(r) == Greater(r.lastApplied, Lesser(r.commitIndex, lastLogIndex(r)))

\* Feeds the committed entries that are in the log to the FSM.
applyCommitted(r) ==
    LET upTo == applicable(r)
        cmdAt(i) == r.log[i - r.snapshotIndex].cmd
    IN  [r EXCEPT
            !.lastApplied = upTo,
            !.fsm = r.fsm \o [k \in 1..(upTo - r.lastApplied) |->
                                  cmdAt(r.lastApplied + k)],
            !.applyResults = [i \in Index |->
                IF r.lastApplied < i /\ i <= upTo THEN cmdAt(i)
                                                  ELSE r.applyResults[i]]]

\* Mutant of compactionDue: the comparison is the wrong way round.
compactionDueBelow(r) ==
    /\ Len(r.log) < CompactThreshold
    /\ r.lastApplied > r.snapshotIndex

compactionDue(r) ==
    /\ Len(r.log) >= CompactThreshold
    /\ r.lastApplied > r.snapshotIndex

\* n.log[logOffsetForIndex(lastApplied)] is out of range: the process dies.
compactionPanics(r) == compactionDue(r) /\ r.lastApplied > lastLogIndex(r)

\* Mutant of maybeCompact: the entries after the snapshot are dropped too.
maybeCompactWholeLog(r) ==
    IF ~compactionDue(r) \/ compactionPanics(r) THEN r
    ELSE [r EXCEPT !.snapshotIndex = r.lastApplied,
                   !.snapshotTerm = termAt(r, r.lastApplied),
                   !.snapshot = r.fsm,
                   !.log = <<>>]

maybeCompact(r) ==
    IF ~compactionDue(r) \/ compactionPanics(r) THEN r
    ELSE [r EXCEPT !.snapshotIndex = r.lastApplied,
                   !.snapshotTerm = termAt(r, r.lastApplied),
                   !.snapshot = r.fsm,
                   !.log = tailAfter(r, r.lastApplied)]

\* Mutant of persistDurableState: the term is left out of the metadata.
persistWithoutTerm(r, term, vote) ==
    [log |-> r.log, snapshotIndex |-> r.snapshotIndex,
     snapshotTerm |-> r.snapshotTerm, snapshot |-> r.snapshot,
     commitIndex |-> r.commitIndex, term |-> 0, votedFor |-> vote]

\* PersistSnapshot and persistDurableState, written by one handler.
persistDurableState(r, term, vote) ==
    [log |-> r.log, snapshotIndex |-> r.snapshotIndex,
     snapshotTerm |-> r.snapshotTerm, snapshot |-> r.snapshot,
     commitIndex |-> r.commitIndex, term |-> term, votedFor |-> vote]

\* Mutant of bootstrapFromStorage: the snapshot is not restored into the FSM.
bootstrapWithoutRestore(d) ==
    applyCommitted(
        [log |-> d.log, snapshotIndex |-> d.snapshotIndex,
         snapshotTerm |-> d.snapshotTerm, snapshot |-> d.snapshot,
         commitIndex |-> Greater(d.commitIndex, d.snapshotIndex + Len(d.log)),
         lastApplied |-> d.snapshotIndex, fsm |-> <<>>,
         applyResults |-> [i \in Index |-> Nil]])

\* What a starting process makes of its disk: the whole log counts as
\* committed, and is replayed into the FSM without compaction.
bootstrapFromStorage(d) ==
    applyCommitted(
        [log |-> d.log, snapshotIndex |-> d.snapshotIndex,
         snapshotTerm |-> d.snapshotTerm, snapshot |-> d.snapshot,
         commitIndex |-> Greater(d.commitIndex, d.snapshotIndex + Len(d.log)),
         lastApplied |-> d.snapshotIndex, fsm |-> d.snapshot,
         applyResults |-> [i \in Index |-> Nil]])

EmptyDisk == [log |-> <<>>, snapshotIndex |-> 0, snapshotTerm |-> 0,
              snapshot |-> <<>>, commitIndex |-> 0, term |-> 0, votedFor |-> Nil]

written(n, r, term, vote) ==
    IF Durable THEN [disk EXCEPT ![n] = persistDurableState(r, term, vote)]
               ELSE disk

Zero == [p \in Node |-> 0]

Init ==
    /\ currentTerm = [n \in Node |-> 0]
    /\ votedFor = [n \in Node |-> Nil]
    /\ state = [n \in Node |-> Follower]
    /\ knownLeader = [n \in Node |-> Nil]
    /\ replica = [n \in Node |-> bootstrapFromStorage(EmptyDisk)]
    /\ nextIndex = [n \in Node |-> Zero]
    /\ matchIndex = [n \in Node |-> Zero]
    /\ votes = [n \in Node |-> {}]
    /\ disk = [n \in Node |-> EmptyDisk]
    /\ voteReqs = {} /\ voteReplies = {}
    /\ appendReqs = {} /\ appendReplies = {}
    /\ snapTasks = {} /\ snapReqs = {}
    /\ restarts = 0

-----------------------------------------------------------------------------
(* Elections.                                                              *)

\* A request of n that nobody waits for any more.
orphaned(m, n) == IF m.from = n THEN [m EXCEPT !.live = FALSE] ELSE m

\* The answer to request m, unless its caller has stopped waiting for it.
answer(m, reply) == IF m.live THEN {reply} ELSE {}

\* becomeFollowerLocked(term), leaving vote in VotedFor.  For a follower it
\* is also what the same-term branch of AppendEntries assigns.
becomeFollower(n, term, vote) ==
    /\ currentTerm' = [currentTerm EXCEPT ![n] = term]
    /\ votedFor' = [votedFor EXCEPT ![n] = vote]
    /\ state' = [state EXCEPT ![n] = Follower]
    /\ nextIndex' = [nextIndex EXCEPT ![n] = Zero]
    /\ matchIndex' = [matchIndex EXCEPT ![n] = Zero]

\* Mutant of promoteToLeader: nextIndex skips the entry after the log.
promoteToLeaderPastLog(n) ==
    /\ state' = [state EXCEPT ![n] = Leader]
    /\ nextIndex' = [nextIndex EXCEPT ![n] =
           [p \in Node |-> IF p = n THEN 0 ELSE lastLogIndex(replica[n]) + 2]]
    /\ matchIndex' = [matchIndex EXCEPT ![n] = Zero]

\* promoteToLeader and initLeaderReplicationLocked.
promoteToLeader(n) ==
    /\ state' = [state EXCEPT ![n] = Leader]
    /\ nextIndex' = [nextIndex EXCEPT ![n] =
           [p \in Node |-> IF p = n THEN 0 ELSE lastLogIndex(replica[n]) + 1]]
    /\ matchIndex' = [matchIndex EXCEPT ![n] = Zero]

\* The election timer of n fires.  The ticker has waited for the RPCs of the
\* previous election, so no answer to one of those is counted any more.
startElection(n) ==
    /\ state[n] # Leader
    /\ currentTerm[n] < MaxTerm
    /\ currentTerm' = [currentTerm EXCEPT ![n] = @ + 1]
    /\ votedFor' = [votedFor EXCEPT ![n] = n]
    /\ votes' = [votes EXCEPT ![n] = {n}]
    /\ voteReplies' = {m \in voteReplies : m.req.from # n}
    /\ voteReqs' = {orphaned(m, n) : m \in voteReqs}
            \cup {[from |-> n, to |-> p, live |-> TRUE,
                   term |-> currentTerm[n] + 1,
                   lastLogIndex |-> lastLogIndex(replica[n]),
                   lastLogTerm |-> lastLogTerm(replica[n])] : p \in peers(n)}
    /\ IF 1 >= majority
       THEN promoteToLeader(n)
       ELSE state' = [state EXCEPT ![n] = Candidate] /\ UNCHANGED leaderVars
    /\ UNCHANGED <<knownLeader, replica, disk, appendRpcs, snapRpcs, restarts>>

\* Mutant of mayVote: the earlier vote of this term is not looked at.
mayVoteAgain(vote, candidate) == TRUE

\* The vote of this term is still free or went to the same candidate.
mayVote(vote, candidate) == vote \in {Nil, candidate}

\* The RequestVote handler.  Neither the term nor the vote is persisted.
RequestVote(m) ==
    LET n     == m.to
        newer == m.term > currentTerm[n]
        vote  == IF newer THEN Nil ELSE votedFor[n]
        grant == /\ m.term >= currentTerm[n]
                 /\ mayVote(vote, m.from)
                 /\ logIsUpToDate(replica[n], m.lastLogIndex, m.lastLogTerm)
        vote2 == IF grant THEN m.from ELSE vote
        term  == Greater(m.term, currentTerm[n])
    IN  /\ IF newer
           THEN becomeFollower(n, m.term, vote2)
           ELSE /\ votedFor' = [votedFor EXCEPT ![n] = vote2]
                /\ UNCHANGED <<currentTerm, state, leaderVars>>
        /\ voteReqs' = voteReqs \ {m}
        /\ voteReplies' = voteReplies \cup
               answer(m, [req |-> m, term |-> term, granted |-> grant])
        /\ UNCHANGED <<knownLeader, votes, replica, disk, appendRpcs, snapRpcs, restarts>>

\* startElection's goroutine gets the answer of one peer.  Any other answer
\* than these two is ignored.
RequestVoteReply(m) ==
    LET n        == m.req.from
        newVotes == votes[n] \cup {m.req.to}
    IN  /\ voteReplies' = voteReplies \ {m}
        /\ \/ /\ m.term > currentTerm[n]
              /\ becomeFollower(n, m.term, Nil)
              /\ UNCHANGED votes
           \/ /\ m.term <= currentTerm[n]
              /\ m.granted
              /\ m.term = m.req.term
              /\ state[n] = Candidate
              /\ currentTerm[n] = m.req.term
              /\ votes' = [votes EXCEPT ![n] = newVotes]
              /\ IF Cardinality(newVotes) >= majority
                 THEN promoteToLeader(n)
                 ELSE UNCHANGED <<state, leaderVars>>
              /\ UNCHANGED <<currentTerm, votedFor>>
        /\ UNCHANGED <<knownLeader, replica, disk, voteReqs, appendRpcs,
                       snapRpcs, restarts>>

-----------------------------------------------------------------------------
(* Replication.                                                            *)

\* Propose: the leader appends and persists; replication is a goroutine.
Propose(n, c) ==
    LET r == [replica[n] EXCEPT !.log =
                  Append(@, [term |-> currentTerm[n], cmd |-> c])]
    IN  /\ state[n] = Leader
        /\ lastLogIndex(replica[n]) < MaxIndex
        /\ replica' = [replica EXCEPT ![n] = r]
        /\ disk' = written(n, r, currentTerm[n], votedFor[n])
        /\ UNCHANGED <<electionVars, leaderVars, voteRpcs, appendRpcs,
                       snapRpcs, restarts>>

\* replicateAndCommit: the heartbeat ticker, Propose or waitForCommit starts a
\* round, of which the dials to the peers in reach succeed.  A peer whose next
\* entry is compacted away gets a snapshot task.
replicateAndCommit(n, reach) ==
    LET r == replica[n]
        lagging == {p \in reach : nextIndex[n][p] <= r.snapshotIndex}
        task(p) == [from |-> n, to |-> p, live |-> TRUE,
                    term |-> currentTerm[n],
                    prevLogIndex |-> nextIndex[n][p] - 1,
                    prevLogTerm |-> termAt(r, nextIndex[n][p] - 1),
                    entries |-> tailAfter(r, nextIndex[n][p] - 1),
                    leaderCommit |-> r.commitIndex]
    IN  /\ state[n] = Leader
        /\ appendReqs' = appendReqs \cup {task(p) : p \in reach \ lagging}
        /\ Cardinality(appendReqs') + Cardinality(appendReplies) <= MaxInFlight
        /\ snapTasks' = snapTasks \cup
               {[from |-> n, to |-> p, term |-> currentTerm[n]] : p \in lagging}
        /\ UNCHANGED <<electionVars, replica, leaderVars, disk, voteRpcs,
                       appendReplies, snapReqs, restarts>>

\* sendInstallSnapshotWithContext reads the snapshot when it runs, not when
\* it was started.  Every round may have started one such goroutine and every
\* call may be delayed, so the task and the request stay where they are.
sendInstallSnapshot(t) ==
    LET n == t.from
        r == replica[n]
    IN  /\ state[n] = Leader
        /\ currentTerm[n] = t.term
        /\ r.snapshotIndex > 0
        /\ snapReqs' = snapReqs \cup
               {[from |-> n, to |-> t.to, term |-> t.term,
                 lastIncludedIndex |-> r.snapshotIndex,
                 lastIncludedTerm |-> r.snapshotTerm, data |-> r.snapshot]}
        /\ UNCHANGED <<electionVars, replica, leaderVars, disk, voteRpcs,
                       appendRpcs, snapTasks, restarts>>

\* Mutant of prevMatches: the sentinel itself does not count as a match.
prevMatchesAfterSentinel(r, m) ==
    /\ m.prevLogIndex > r.snapshotIndex
    /\ m.prevLogIndex <= lastLogIndex(r)
    /\ termAt(r, m.prevLogIndex) = m.prevLogTerm

\* The consistency check of AppendEntries.
prevMatches(r, m) ==
    /\ m.prevLogIndex >= r.snapshotIndex
    /\ m.prevLogIndex <= lastLogIndex(r)
    /\ termAt(r, m.prevLogIndex) = m.prevLogTerm

\* Entries replace everything after prevLogIndex; then the commit index moves
\* and the FSM follows.
appended(r, m) ==
    LET log2 == IF m.entries = <<>> THEN r.log
                ELSE SubSeq(r.log, 1, m.prevLogIndex - r.snapshotIndex) \o m.entries
    IN  applyCommitted(
            [r EXCEPT !.log = log2,
                      !.commitIndex =
                          IF m.leaderCommit > @
                          THEN Lesser(m.leaderCommit, r.snapshotIndex + Len(log2))
                          ELSE @])

\* A process dies and starts again: its goroutines and their pending answers
\* are gone, its requests stay in the network, d is what its disk holds and
\* reqs are the AppendEntries requests that are still in flight.
restartFrom(n, d, reqs) ==
    /\ disk' = [disk EXCEPT ![n] = d]
    /\ replica' = [replica EXCEPT ![n] = bootstrapFromStorage(d)]
    /\ becomeFollower(n, d.term, d.votedFor)
    /\ knownLeader' = [knownLeader EXCEPT ![n] = Nil]
    /\ votes' = [votes EXCEPT ![n] = {}]
    /\ voteReqs' = {orphaned(m, n) : m \in voteReqs}
    /\ voteReplies' = {m \in voteReplies : m.req.from # n}
    /\ appendReqs' = {orphaned(m, n) : m \in reqs}
    /\ appendReplies' = {m \in appendReplies : m.req.from # n}
    /\ snapTasks' = {t \in snapTasks : t.from # n}
    /\ UNCHANGED snapReqs

\* The AppendEntries handler.  A leader or candidate of the same term steps
\* down, and a follower forgets its vote of this term.
AppendEntries(m) ==
    LET n == m.to
        r == appended(replica[n], m)
        r2 == maybeCompact(r)
        reply(success) == answer(m, [req |-> m, success |-> success,
                                     term |-> Greater(m.term, currentTerm[n])])
    IN  \/ /\ m.term < currentTerm[n]
           /\ appendReqs' = appendReqs \ {m}
           /\ appendReplies' = appendReplies \cup reply(FALSE)
           /\ UNCHANGED <<electionVars, leaderVars, replica, disk, voteRpcs,
                          snapRpcs, restarts>>
        \/ /\ m.term >= currentTerm[n]
           /\ ~prevMatches(replica[n], m)
           /\ becomeFollower(n, m.term, Nil)
           /\ knownLeader' = [knownLeader EXCEPT ![n] = m.from]
           /\ appendReqs' = appendReqs \ {m}
           /\ appendReplies' = appendReplies \cup reply(FALSE)
           /\ UNCHANGED <<votes, replica, disk, voteRpcs, snapRpcs, restarts>>
        \/ /\ m.term >= currentTerm[n]
           /\ prevMatches(replica[n], m)
           /\ ~compactionPanics(r)
           /\ becomeFollower(n, m.term, Nil)
           /\ knownLeader' = [knownLeader EXCEPT ![n] = m.from]
           /\ replica' = [replica EXCEPT ![n] = r2]
           /\ disk' = written(n, r2, m.term, Nil)
           /\ appendReqs' = appendReqs \ {m}
           /\ appendReplies' = appendReplies \cup reply(TRUE)
           /\ UNCHANGED <<votes, voteRpcs, snapRpcs, restarts>>
        \/ /\ m.term >= currentTerm[n]
           /\ prevMatches(replica[n], m)
           /\ compactionPanics(r)
           /\ restartFrom(n, disk[n], appendReqs \ {m})
           /\ UNCHANGED restarts

\* advanceCommitIndexLocked: the last entry of this term that a majority has,
\* counting this node without asking.
advanceCommitIndex(n, r, match) ==
    LET acked(i) == {n} \cup {p \in peers(n) : match[p] >= i}
        ready == {i \in Greater(r.commitIndex + 1, r.snapshotIndex)..lastLogIndex(r) :
                      /\ termAt(r, i) = currentTerm[n]
                      /\ Cardinality(acked(i)) >= majority}
    IN  IF ready = {} THEN r
        ELSE LET last == CHOOSE i \in ready : \A j \in ready : j <= i
             IN  applyCommitted([r EXCEPT !.commitIndex = last])

\* handleAppendEntriesReply: success overwrites matchIndex with what this
\* request carried, failure moves nextIndex back by one.
AppendEntriesReply(m) ==
    LET n     == m.req.from
        p     == m.req.to
        r     == replica[n]
        acked == m.req.prevLogIndex + Len(m.req.entries)
        match == [matchIndex[n] EXCEPT ![p] = acked]
        r2    == advanceCommitIndex(n, r, match)
        r3    == IF r2.commitIndex = r.commitIndex THEN r ELSE maybeCompact(r2)
        current == state[n] = Leader /\ currentTerm[n] = m.req.term
                   /\ m.term <= currentTerm[n]
    IN  IF current /\ m.success /\ r2.commitIndex # r.commitIndex /\ compactionPanics(r2)
        THEN restartFrom(n, disk[n], appendReqs) /\ UNCHANGED restarts
        ELSE
        /\ \/ /\ m.term > currentTerm[n]
              /\ becomeFollower(n, m.term, Nil)
              /\ UNCHANGED <<replica, disk, snapTasks>>
           \/ /\ m.term <= currentTerm[n] /\ ~current
              /\ UNCHANGED <<currentTerm, votedFor, state, leaderVars, replica,
                             disk, snapTasks>>
           \/ /\ current /\ m.success
              /\ matchIndex' = [matchIndex EXCEPT ![n] = match]
              /\ nextIndex' = [nextIndex EXCEPT ![n][p] = acked + 1]
              /\ replica' = [replica EXCEPT ![n] = r3]
              /\ disk' = IF r3.snapshotIndex = r.snapshotIndex THEN disk
                         ELSE written(n, r3, currentTerm[n], votedFor[n])
              /\ UNCHANGED <<currentTerm, votedFor, state, snapTasks>>
           \/ /\ current /\ ~m.success
              /\ nextIndex[n][p] <= r.snapshotIndex + 1
              /\ snapTasks' = snapTasks \cup
                     {[from |-> n, to |-> p, term |-> currentTerm[n]]}
              /\ UNCHANGED <<currentTerm, votedFor, state, replica, disk, leaderVars>>
           \/ /\ current /\ ~m.success
              /\ nextIndex[n][p] > r.snapshotIndex + 1
              /\ nextIndex' = [nextIndex EXCEPT ![n][p] = @ - 1]
              /\ UNCHANGED <<currentTerm, votedFor, state, replica, disk,
                             matchIndex, snapTasks>>
        /\ appendReplies' = appendReplies \ {m}
        /\ UNCHANGED <<knownLeader, votes, voteRpcs, appendReqs, snapReqs, restarts>>

\* A request or an answer is lost, or its caller stops waiting for the answer.
loseAppend ==
    /\ \/ \E m \in appendReqs : appendReqs' = appendReqs \ {m} /\ UNCHANGED appendReplies
       \/ \E m \in appendReplies : appendReplies' = appendReplies \ {m} /\ UNCHANGED appendReqs
    /\ UNCHANGED <<electionVars, replica, leaderVars, disk, voteRpcs, snapRpcs, restarts>>

\* Mutant of installed: the commit index becomes an offset into the new log.
installedCommitOffset(r, m) ==
    [r EXCEPT !.log = tailAfter(r, m.lastIncludedIndex),
              !.snapshotIndex = m.lastIncludedIndex,
              !.snapshotTerm = m.lastIncludedTerm,
              !.snapshot = m.data,
              !.fsm = m.data,
              !.lastApplied = m.lastIncludedIndex,
              !.commitIndex = @ - m.lastIncludedIndex]

\* The InstallSnapshot handler.  The tail of the log survives whatever its
\* terms are, and a larger commit index is lowered to the snapshot's.  The
\* caller ignores the answer.
installed(r, m) ==
    [r EXCEPT !.log = tailAfter(r, m.lastIncludedIndex),
              !.snapshotIndex = m.lastIncludedIndex,
              !.snapshotTerm = m.lastIncludedTerm,
              !.snapshot = m.data,
              !.fsm = m.data,
              !.lastApplied = m.lastIncludedIndex,
              !.commitIndex = Lesser(@, m.lastIncludedIndex)]

\* Mutant of alreadyInstalled: the snapshot a node has is installed again.
alreadyInstalledNewer(r, m) == m.lastIncludedIndex < r.snapshotIndex

alreadyInstalled(r, m) == m.lastIncludedIndex <= r.snapshotIndex

InstallSnapshot(m) ==
    LET n == m.to
        r == installed(replica[n], m)
    IN  /\ m.term >= currentTerm[n]
        /\ becomeFollower(n, m.term, Nil)
        /\ knownLeader' = [knownLeader EXCEPT ![n] = m.from]
        /\ \/ /\ alreadyInstalled(replica[n], m)
              /\ UNCHANGED <<replica, disk>>
           \/ /\ ~alreadyInstalled(replica[n], m)
              /\ replica' = [replica EXCEPT ![n] = r]
              /\ disk' = written(n, r, m.term, Nil)
        /\ UNCHANGED <<votes, voteRpcs, appendRpcs, snapRpcs, restarts>>

-----------------------------------------------------------------------------
(* Processes.                                                              *)

\* The process dies between two handlers and is started again.
crash(n) ==
    /\ restarts < MaxRestarts
    /\ restarts' = restarts + 1
    /\ restartFrom(n, disk[n], appendReqs)

\* A graceful shutdown flushes the durable state first.
shutdown(n) ==
    /\ restarts < MaxRestarts
    /\ restarts' = restarts + 1
    /\ restartFrom(n, written(n, replica[n], currentTerm[n], votedFor[n])[n], appendReqs)

Next ==
    \/ \E n \in Node : startElection(n)
    \/ \E m \in voteReqs : RequestVote(m)
    \/ \E m \in voteReplies : RequestVoteReply(m)
    \/ \E n \in Node, c \in Command : Propose(n, c)
    \/ \E n \in Node : \E reach \in SUBSET peers(n) : replicateAndCommit(n, reach)
    \/ \E m \in appendReqs : AppendEntries(m)
    \/ \E m \in appendReplies : AppendEntriesReply(m)
    \/ loseAppend
    \/ \E t \in snapTasks : sendInstallSnapshot(t)
    \/ \E m \in snapReqs : InstallSnapshot(m)
    \/ \E n \in Node : crash(n)
    \/ \E n \in Node : shutdown(n)

Spec == Init /\ [][Next]_vars

-----------------------------------------------------------------------------
(* Properties that hold for every cluster.                                 *)

\* The slice expressions of collectReplicationTasks stay in range: a leader
\* never means to send an entry more than one past its log, whatever stale
\* answers have written into nextIndex.
NextIndexInRange ==
    \A n, p \in Node :
        state[n] = Leader => nextIndex[n][p] <= lastLogIndex(replica[n]) + 1

\* What a node that waits for the answer to m may rely on.
callInRange(m) ==
    LET n == m.from IN
    /\ m.term <= currentTerm[n]
    /\ state[n] = Candidate => m.term < currentTerm[n]
    /\ (state[n] = Leader /\ m.term = currentTerm[n])
       => m.prevLogIndex + Len(m.entries) <= lastLogIndex(replica[n])

\* A call that n waits for ends inside the log of n as long as n leads the
\* term of the call, and n never stands for election in that term again:
\* handleAppendEntriesReply may write what the call carried into nextIndex.
CallsInRange ==
    /\ \A m \in appendReqs : m.live => callInRange(m)
    /\ \A m \in appendReplies : callInRange(m.req)

\* Through truncation, compaction, snapshots and restarts the FSM holds one
\* command per applied index, and no index below the snapshot is left to apply.
FsmInStep ==
    \A n \in Node : LET r == replica[n] IN
        r.snapshotIndex <= r.lastApplied /\ Len(r.fsm) = r.lastApplied

\* s has every entry of r that it has not compacted, unchanged.
extends(s, r) ==
    /\ lastLogIndex(r) <= lastLogIndex(s)
    /\ \A i \in (s.snapshotIndex + 1)..lastLogIndex(r) :
           s.log[i - s.snapshotIndex] = r.log[i - r.snapshotIndex]

leaderAppends ==
    \A n \in Node :
        (state[n] = Leader /\ state'[n] = Leader /\ currentTerm'[n] = currentTerm[n])
        => extends(replica'[n], replica[n])

\* While a node leads a term it only appends: no handler changes the term or
\* the command of an entry it keeps, and none removes an entry from the end.
LeaderAppendOnly == [][leaderAppends]_vars

\* No entry and no snapshot carries a term its holder has not reached, across
\* restarts as well: the term on disk keeps up with the log on disk.
LogTermsBounded ==
    \A n \in Node :
        /\ replica[n].snapshotTerm <= currentTerm[n]
        /\ \A k \in 1..Len(replica[n].log) : replica[n].log[k].term <= currentTerm[n]

\* maybeCompactLocked never indexes past the end of the log, whichever
\* request in flight is served next.
CompactionInRange ==
    \A m \in appendReqs :
        (m.term >= currentTerm[m.to] /\ prevMatches(replica[m.to], m))
        => ~compactionPanics(appended(replica[m.to], m))

-----------------------------------------------------------------------------
(* The promises of a replicated log.                                       *)

isPrefix(s, t) == Len(s) <= Len(t) /\ \A i \in 1..Len(s) : s[i] = t[i]

\* Every command a replica knows of, applied or not.
history(r) == r.snapshot \o [k \in 1..Len(r.log) |-> r.log[k].cmd]

\* At most one leader per term.
ElectionSafety ==
    \A a, b \in Node :
        (state[a] = Leader /\ state[b] = Leader /\ currentTerm[a] = currentTerm[b])
        => a = b

\* All nodes apply the same commands in the same order.
StateMachineSafety ==
    \A a, b \in Node : LET f == replica[a].fsm  g == replica[b].fsm IN
        isPrefix(f, g) \/ isPrefix(g, f)

\* A leader has every command that a node of its term or an earlier one has
\* applied.
LeaderCompleteness ==
    \A a, b \in Node :
        (state[a] = Leader /\ currentTerm[b] <= currentTerm[a])
        => isPrefix(replica[b].fsm, history(replica[a]))

\* A node that stays up takes back a command it has applied only when it
\* installs a snapshot older than its FSM, and then it is at an earlier point
\* of the same history: nothing it applies contradicts what it applied before.
AppliedStable ==
    [][restarts' = restarts =>
        \A n \in Node : LET f == replica[n].fsm  g == replica'[n].fsm IN
            \/ isPrefix(f, g)
            \/ /\ isPrefix(g, f)
               /\ replica'[n].snapshotIndex > replica[n].snapshotIndex]_vars

=============================================================================
