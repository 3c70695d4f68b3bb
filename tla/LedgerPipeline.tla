--------------------------- MODULE LedgerPipeline ---------------------------
(***************************************************************************)
(* What happens to a finished match on each node (pkg/engine ledger and    *)
(* rating workers, pkg/resilience): the record is queued, saved with       *)
(* retries behind a circuit breaker, spooled when that fails, and the      *)
(* players are rated once it is saved.                                     *)
(*                                                                         *)
(* One goroutine per node works through the queue.  Its calls to the graph *)
(* store are the steps between which other nodes and callers move.         *)
(***************************************************************************)
EXTENDS Integers, FiniteSets, Sequences, Functions

CONSTANTS
    Node,         \* processes that share the store
    Match,        \* matches that end
    Ends,         \* where they do, once: an end in the log is applied by every
                  \* node, one by abandonment by the node that sees it
    QueueCap,     \* capacity of jobs
    SpoolCap,     \* capacity of the spool
    MaxAttempts,  \* RetryConfig.MaxAttempts
    TripAfter,    \* consecutive failures that open the breaker
    MaxRequests,  \* successes that close a half-open breaker
    MaxFaults,    \* calls of the store that fail
    None

ASSUME LedgerAssumption ==
    /\ QueueCap \in Nat /\ SpoolCap \in Nat \ {0} /\ MaxAttempts \in Nat \ {0}
    /\ TripAfter \in Nat \ {0} /\ MaxRequests \in Nat \ {0} /\ MaxFaults \in Nat
    /\ None \notin Match /\ Ends \subseteq Node \X Match

VARIABLES
    phase,     \* of a node: "up", "stopped" (jobs is closed) or "down"
    jobs,      \* of a node: the queue of records
    spooling,  \* of a node: records whose caller has found the queue full
    spool,     \* of a node: the dead-letter spool
    worker,    \* of a node: the goroutine of Run, see Idle
    breaker,   \* of a node: its ledger and its rating breaker
    rows,      \* of a node and a match: ledger rows that the node has added,
               \* 2 for two or more
    applied,   \* of a match: ratings_applied of the row that queries return,
               \* which is the oldest
    careers,   \* of a node and a match: how often the node has added the
               \* players' results of the match, 2 for twice or more
    faults,    \* store calls that have failed
    ghost      \* what the properties remember, see Init

store == <<rows, applied, careers>>
vars == <<phase, jobs, spooling, spool, worker, breaker, store, faults, ghost>>

\* record is what the worker is on, batch what is left of the drained spool,
\* replaying whether record came from there.
Idle == [pc |-> "idle", record |-> None, batch |-> <<>>, replaying |-> FALSE,
         attempt |-> 1]

Closed == [state |-> "closed", failures |-> 0, successes |-> 0]

Breakers == {"ledger", "rating"}

BreakerState ==
    [state : {"closed", "open", "half-open"}, failures : 0..TripAfter,
     successes : 0..MaxRequests]

TypeOK ==
    /\ phase \in [Node -> {"up", "stopped", "down"}]
    /\ jobs \in [Node -> Seq(Match)]
    /\ spooling \in [Node -> SUBSET Match]
    /\ spool \in [Node -> Seq(Match)]
    /\ \A n \in Node : Len(jobs[n]) <= QueueCap /\ Len(spool[n]) <= SpoolCap
    /\ \A n \in Node :
         /\ worker[n].pc \in {"idle", "save", "read", "update", "stamp", "next"}
         /\ worker[n].record \in Match \cup {None}
         /\ worker[n].batch \in Seq(Match)
         /\ worker[n].replaying \in BOOLEAN
         /\ worker[n].attempt \in 1..MaxAttempts
    /\ breaker \in [Node -> [Breakers -> BreakerState]]
    /\ rows \in [Node -> [Match -> 0..2]]
    /\ applied \in [Match -> BOOLEAN]
    /\ careers \in [Node -> [Match -> 0..2]]
    /\ faults \in 0..MaxFaults

Init ==
    /\ phase = [n \in Node |-> "up"]
    /\ jobs = [n \in Node |-> <<>>]
    /\ spooling = [n \in Node |-> {}]
    /\ spool = [n \in Node |-> <<>>]
    /\ worker = [n \in Node |-> Idle]
    /\ breaker = [n \in Node |-> [b \in Breakers |-> Closed]]
    /\ rows = [n \in Node |-> [m \in Match |-> 0]]
    /\ applied = [m \in Match |-> FALSE]
    /\ careers = [n \in Node |-> [m \in Match |-> 0]]
    /\ faults = 0
    /\ ghost = [ended |-> [n \in Node |-> {}],  \* records handed to Enqueue
                saved |-> [n \in Node |-> {}],  \* records saved by n
                lost  |-> [n \in Node |-> {}],  \* overwritten, or drained and left
                unsure |-> [n \in Node |-> {}], \* saved without an answer
                torn  |-> [n \in Node |-> {}]]  \* rated, but not known or not
                                                \* stamped afterwards

-----------------------------------------------------------------------------
(* Resilience.                                                             *)

\* The calls of Execute that gobreaker counts when fn returns.
success(b) ==
    IF b.state = "half-open" /\ b.successes + 1 < MaxRequests
    THEN [b EXCEPT !.successes = @ + 1]
    ELSE Closed

failure(b) ==
    IF b.state = "half-open" \/ b.failures + 1 >= TripAfter
    THEN [Closed EXCEPT !.state = "open"]
    ELSE [b EXCEPT !.failures = @ + 1]

report(n, which, outcome) ==
    breaker' = [breaker EXCEPT ![n][which] =
                   IF outcome = "ok" THEN success(@) ELSE failure(@)]

refuses(n, which) == breaker[n][which].state = "open"

\* Time passes: an open breaker tries again, a closed one forgets failures.
breakerTimeout(n, which) ==
    /\ LET b == breaker[n][which]
       IN  /\ b.state = "open" \/ b.failures > 0
           /\ breaker' = [breaker EXCEPT ![n][which] =
                 IF b.state = "open" THEN [b EXCEPT !.state = "half-open"]
                 ELSE Closed]
    /\ UNCHANGED <<phase, jobs, spooling, spool, worker, store, faults, ghost>>

\* DeadLetterSpool.Spool: the oldest record gives way on overflow.
Spool(s, m) == IF Len(s) >= SpoolCap THEN Append(Tail(s), m) ELSE Append(s, m)

overwritten(s) == IF Len(s) >= SpoolCap THEN {Head(s)} ELSE {}

\* A call of the store is answered, refused, or done but not answered.
outcomes == {"ok"} \cup IF faults < MaxFaults THEN {"refused", "unanswered"} ELSE {}

\* Retry gives up after this attempt.
exhausted(n) == worker[n].attempt = MaxAttempts

count(outcome) == faults' = IF outcome = "ok" THEN faults ELSE faults + 1

-----------------------------------------------------------------------------
(* Callers.                                                                *)

\* Enqueue, called by TerminateMatch on a match.ended worker.  A send on the
\* closed channel ends the process.
Enqueue(n, m) ==
    /\ phase[n] # "down"
    /\ <<n, m>> \in Ends /\ m \notin ghost.ended[n]
    /\ ghost' = [ghost EXCEPT !.ended[n] = @ \cup {m}]
    /\ \/ /\ phase[n] = "stopped"
          /\ phase' = [phase EXCEPT ![n] = "down"]
          /\ UNCHANGED <<jobs, spooling>>
       \/ /\ phase[n] = "up" /\ Len(jobs[n]) < QueueCap
          /\ jobs' = [jobs EXCEPT ![n] = Append(@, m)]
          /\ UNCHANGED <<phase, spooling>>
       \/ /\ phase[n] = "up" /\ Len(jobs[n]) >= QueueCap
          /\ spooling' = [spooling EXCEPT ![n] = @ \cup {m}]
          /\ UNCHANGED <<phase, jobs>>
    /\ UNCHANGED <<spool, worker, breaker, store, faults>>

\* The default case of Enqueue, after the worker may have moved on.
enqueueSpools(n, m) ==
    /\ phase[n] # "down"
    /\ m \in spooling[n]
    /\ spooling' = [spooling EXCEPT ![n] = @ \ {m}]
    /\ spool' = [spool EXCEPT ![n] = Spool(@, m)]
    /\ ghost' = [ghost EXCEPT !.lost[n] = @ \cup overwritten(spool[n])]
    /\ UNCHANGED <<phase, jobs, worker, breaker, store, faults>>

Stop(n) ==
    /\ phase[n] = "up"
    /\ phase' = [phase EXCEPT ![n] = "stopped"]
    /\ UNCHANGED <<jobs, spooling, spool, worker, breaker, store, faults, ghost>>

-----------------------------------------------------------------------------
(* The worker.                                                             *)

at(n, pc) == phase[n] # "down" /\ worker[n].pc = pc

\* Mutant of Run: the loop ends at Stop instead of when the queue is empty.
RunUntilStop(n) ==
    /\ worker[n].pc = "idle" /\ phase[n] = "up"
    /\ jobs[n] # <<>>
    /\ worker' = [worker EXCEPT ![n] = [Idle EXCEPT !.pc = "save",
                                                    !.record = Head(jobs[n])]]
    /\ jobs' = [jobs EXCEPT ![n] = Tail(@)]
    /\ UNCHANGED <<phase, spooling, spool, breaker, store, faults, ghost>>

\* Run takes the next record, also from a closed channel.
Run(n) ==
    /\ at(n, "idle")
    /\ jobs[n] # <<>>
    /\ worker' = [worker EXCEPT ![n] = [Idle EXCEPT !.pc = "save",
                                                    !.record = Head(jobs[n])]]
    /\ jobs' = [jobs EXCEPT ![n] = Tail(@)]
    /\ UNCHANGED <<phase, spooling, spool, breaker, store, faults, ghost>>

\* Mutant of spoolFailed: a record that cannot be saved is only logged.
spoolNothing(n, g) ==
    /\ worker' = [worker EXCEPT ![n] = Idle]
    /\ ghost' = g
    /\ UNCHANGED spool

\* The record goes to the spool.  A failed replay also gives up the rest of
\* the records it has drained.
spoolFailed(n, g) ==
    LET w == worker[n] IN
    /\ spool' = [spool EXCEPT ![n] = Spool(@, w.record)]
    /\ worker' = [worker EXCEPT ![n] = Idle]
    /\ ghost' = [g EXCEPT !.lost[n] = @ \cup overwritten(spool[n])
                                        \cup Range(w.batch)]

\* A mutation without a uid: the store adds nodes, whatever ids they carry.
added(nodes, n, m) == [nodes EXCEPT ![n][m] = IF @ = 0 THEN 1 ELSE 2]

doubt(outcome, n, m) ==
    IF outcome = "unanswered" THEN [ghost EXCEPT !.unsure[n] = @ \cup {m}]
    ELSE ghost

\* persistWithResilience: one attempt of SaveMatchRecord, or the refusal of
\* the breaker.  Each save that is carried out adds a row, with players of its
\* own who have no career.
persistWithResilience(n) ==
    LET w == worker[n] IN
    /\ at(n, "save")
    /\ \/ /\ refuses(n, "ledger")
          /\ spoolFailed(n, ghost)
          /\ UNCHANGED <<breaker, rows, faults>>
       \/ \E outcome \in outcomes :
          /\ ~refuses(n, "ledger")
          /\ count(outcome)
          /\ rows' = IF outcome = "refused" THEN rows ELSE added(rows, n, w.record)
          /\ \/ /\ outcome = "ok"
                /\ worker' = [worker EXCEPT ![n].pc = "read", ![n].attempt = 1]
                /\ ghost' = [ghost EXCEPT !.saved[n] = @ \cup {w.record}]
                /\ report(n, "ledger", outcome)
                /\ UNCHANGED spool
             \/ /\ outcome # "ok" /\ ~exhausted(n)
                /\ worker' = [worker EXCEPT ![n].attempt = @ + 1]
                /\ ghost' = doubt(outcome, n, w.record)
                /\ UNCHANGED <<spool, breaker>>
             \/ /\ outcome # "ok" /\ exhausted(n)
                /\ spoolFailed(n, doubt(outcome, n, w.record))
                /\ report(n, "ledger", outcome)
    /\ UNCHANGED <<phase, jobs, spooling, applied, careers>>

\* The end of an attempt of ProcessMatch: done, tried again from the query, or
\* given up.
ratingDone(n) ==
    /\ worker' = [worker EXCEPT ![n].pc = "next", ![n].attempt = 1]
    /\ report(n, "rating", "ok")

ratingFailed(n) ==
    IF exhausted(n)
    THEN /\ worker' = [worker EXCEPT ![n].pc = "next", ![n].attempt = 1]
         /\ report(n, "rating", "failed")
    ELSE /\ worker' = [worker EXCEPT ![n].pc = "read", ![n].attempt = @ + 1]
         /\ UNCHANGED breaker

\* Mutant of alreadyRated: the stamp is not looked at.
alreadyRatedNever(m) == FALSE

alreadyRated(m) == applied[m]

\* GetMatchWithPlayers: the oldest row and the players linked to it, whose
\* careers are those of newcomers, since updates go to other nodes.  A match
\* without a winner is not rated.
readMatch(n) ==
    LET w == worker[n] IN
    /\ at(n, "read")
    /\ \/ /\ refuses(n, "rating")
          /\ worker' = [worker EXCEPT ![n].pc = "next"]
          /\ UNCHANGED <<breaker, faults>>
       \/ \E outcome \in outcomes :
          /\ ~refuses(n, "rating")
          /\ count(outcome)
          /\ \/ outcome # "ok" /\ ratingFailed(n)
             \/ outcome = "ok" /\ ratingDone(n)       \* rated, or no winner
             \/ /\ outcome = "ok" /\ ~alreadyRated(w.record)
                /\ worker' = [worker EXCEPT ![n].pc = "update"]
                /\ UNCHANGED breaker
    /\ UNCHANGED <<phase, jobs, spooling, spool, store, ghost>>

\* The results of the players, which the store adds as nodes of their own.
UpdatePlayerCareers(n) ==
    LET w == worker[n] IN
    /\ at(n, "update")
    /\ \E outcome \in outcomes :
       /\ count(outcome)
       /\ IF outcome = "refused" THEN UNCHANGED <<careers, ghost>>
          ELSE /\ careers' = added(careers, n, w.record)
               /\ ghost' = [ghost EXCEPT
                     !.torn[n] = IF outcome = "ok" THEN @ ELSE @ \cup {w.record}]
       /\ IF outcome # "ok" THEN ratingFailed(n)
          ELSE /\ worker' = [worker EXCEPT ![n].pc = "stamp"]
               /\ UNCHANGED breaker
    /\ UNCHANGED <<phase, jobs, spooling, spool, rows, applied>>

stamped(m) == [applied EXCEPT ![m] = TRUE]

ApplyMatchRatings(n) ==
    LET w == worker[n] IN
    /\ at(n, "stamp")
    /\ \E outcome \in outcomes :
       /\ count(outcome)
       /\ IF outcome = "refused"
          THEN /\ ghost' = [ghost EXCEPT !.torn[n] = @ \cup {w.record}]
               /\ UNCHANGED applied
          ELSE /\ applied' = stamped(w.record)
               /\ UNCHANGED ghost
       /\ IF outcome = "ok" THEN ratingDone(n) ELSE ratingFailed(n)
    /\ UNCHANGED <<phase, jobs, spooling, spool, rows, careers>>

\* What is left to replay: the spool is drained once, after the record of
\* the queue and unless the breaker is open.
nextBatch(n) ==
    IF worker[n].replaying THEN worker[n].batch
    ELSE IF refuses(n, "ledger") THEN <<>> ELSE spool[n]

\* Mutant of drains: the records stay in the spool while they are replayed.
drainsNever(n) == FALSE

drains(n) == ~worker[n].replaying /\ ~refuses(n, "ledger")

\* replaySpool.
replaySpool(n) ==
    LET batch == nextBatch(n) IN
    /\ at(n, "next")
    /\ worker' = [worker EXCEPT ![n] =
                     IF batch = <<>> THEN Idle
                     ELSE [Idle EXCEPT !.pc = "save", !.record = Head(batch),
                                       !.batch = Tail(batch), !.replaying = TRUE]]
    /\ spool' = [spool EXCEPT ![n] = IF drains(n) THEN <<>> ELSE @]
    /\ UNCHANGED <<phase, jobs, spooling, breaker, store, faults, ghost>>

processes(n) ==
    \/ Run(n)
    \/ persistWithResilience(n)
    \/ readMatch(n)
    \/ UpdatePlayerCareers(n)
    \/ ApplyMatchRatings(n)
    \/ replaySpool(n)

Next ==
    \E n \in Node :
        \/ \E m \in Match : Enqueue(n, m) \/ enqueueSpools(n, m)
        \/ Stop(n)
        \/ processes(n)
        \/ \E which \in Breakers : breakerTimeout(n, which)

\* The goroutine of Run goes on as long as the process lives: retries are
\* bounded and every call of the store returns.
Fairness == \A n \in Node : WF_vars(processes(n))

Spec == Init /\ [][Next]_vars /\ Fairness

-----------------------------------------------------------------------------
(* Properties.                                                             *)

\* Every record a living node was given is queued, spooled, in the worker's
\* hands or saved; a record is lost only when the spool overflows or a replay
\* fails with records drained behind it.
AccountedFor ==
    \A n \in Node : phase[n] # "down" =>
        \A m \in ghost.ended[n] :
            \/ m \in spooling[n] \cup Range(jobs[n]) \cup Range(spool[n])
            \/ m = worker[n].record
            \/ m \in Range(worker[n].batch)
            \/ m \in ghost.saved[n] \cup ghost.lost[n]

\* A node adds its row of a match once: retries, spooling and replays save it
\* again only after a save that the store may have carried out without
\* answering.  The rows of several nodes stand beside each other.
OneRowPerNode ==
    \A n \in Node, m \in Match : rows[n][m] > 1 => m \in ghost.unsure[n]

\* A node rates a match once, whatever retries, replays and other nodes do,
\* except after a failure between adding the results and stamping the row.
RatedOncePerNode ==
    \A n \in Node, m \in Match : careers[n][m] > 1 => m \in ghost.torn[n]

\* The queue moves: however the store behaves, and also after Stop, a living
\* node comes to the end of its queue again and again.
QueueDrains == \A n \in Node : []<>(jobs[n] = <<>> \/ phase[n] = "down")

=============================================================================
