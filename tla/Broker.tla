------------------------------ MODULE Broker ------------------------------
(***************************************************************************)
(* One topic of the event broker (pkg/broker) with the worker pools that   *)
(* subscribe to it (pkg/game/loop.go), from the start of the pools to the  *)
(* teardown of the server (cmd/server/main.go).                            *)
(*                                                                         *)
(* An action is what a goroutine does between two points where another can *)
(* come in: the lock of the broker, a channel operation, a select.         *)
(* Publish reads "closed", copies the subscribers and sends in three       *)
(* steps, since it gives up the lock in between.  A send on a closed       *)
(* channel, and a second close, end the process: "panic" names the place.  *)
(***************************************************************************)
EXTENDS Integers, Sequences, FiniteSets

CONSTANTS
    Publisher,      \* goroutines that publish turns and ends of matches
    RaftPublisher,  \* those that do so with the context of the Raft node
    Sub,            \* worker pools, each with one subscription
    Worker,         \* workers of a pool
    BufCap,         \* defaultSubscriberBuffer
    JobCap,         \* defaultJobQueueSize
    MaxEvents,      \* events a publisher publishes
    None

ASSUME BrokerAssumption ==
    /\ RaftPublisher \subseteq Publisher /\ IsFiniteSet(Sub)
    /\ BufCap \in Nat \ {0} /\ JobCap \in Nat \ {0} /\ MaxEvents \in Nat
    /\ None \notin Publisher \X (1..MaxEvents)

\* <<p, n>> is the n-th event that p publishes.
Event == Publisher \X (1..MaxEvents)

VARIABLES
    publish,      \* of a publisher: where it is in Publish, the number of its
                  \* event and the targets it has yet to send to
    subscribers,  \* the subscriptions of the topic in the broker's map
    events,       \* of a subscription: its channel
    jobs,         \* of a pool: the job queue
    janitor,      \* of a subscription: its goroutine that waits for ctx
    dispatcher,   \* of a pool: the goroutine from events to jobs
    held,         \* of a pool: the event in the hands of the dispatcher
    worker,       \* of a worker of a pool: where it is
    closed,       \* InMemoryBroker.closed
    main,         \* how far the teardown of the server is
    retention,    \* of an event: records in the retention buffer
    panic,        \* "none", or what panicked
    ghost         \* subscriptions an event was offered to, and events that a
                  \* pool has started

poolVars == <<jobs, dispatcher, held, worker>>
vars == <<publish, subscribers, events, janitor, poolVars, closed, main,
          retention, panic, ghost>>

Channel(cap) == [open : BOOLEAN, queue : UNION {[1..k -> Event] : k \in 0..cap}]

TypeOK ==
    /\ publish \in [Publisher -> [at : {"idle", "checked", "sending"},
                                  n : 0..MaxEvents, targets : Seq(Sub)]]
    /\ subscribers \in Seq(Sub)
    /\ events \in [Sub -> Channel(BufCap)]
    /\ jobs \in [Sub -> Channel(JobCap)]
    /\ janitor \in [Sub -> {"none", "waiting", "removed", "ended"}]
    /\ dispatcher \in [Sub -> {"none", "ready", "holding", "ended"}]
    /\ held \in [Sub -> Event \cup {None}]
    /\ worker \in [Sub \X Worker -> {"none", "ready", "busy", "ended"}]
    /\ closed \in BOOLEAN
    /\ main \in {"up", "workers", "raft", "down"}
    /\ retention \in [Event -> Nat]
    /\ panic \in {"none", "send", "close", "jobs"}
    /\ ghost \in [offered : [Event -> SUBSET Sub],
                  taken : [Sub -> SUBSET Event]]

Init ==
    /\ publish = [p \in Publisher |-> [at |-> "idle", n |-> 0, targets |-> << >>]]
    /\ subscribers = << >>
    /\ events = [s \in Sub |-> [open |-> TRUE, queue |-> << >>]]
    /\ jobs = [s \in Sub |-> [open |-> TRUE, queue |-> << >>]]
    /\ janitor = [s \in Sub |-> "none"]
    /\ dispatcher = [s \in Sub |-> "none"]
    /\ held = [s \in Sub |-> None]
    /\ worker = [w \in Sub \X Worker |-> "none"]
    /\ closed = FALSE
    /\ main = "up"
    /\ retention = [e \in Event |-> 0]
    /\ panic = "none"
    /\ ghost = [offered |-> [e \in Event |-> {}], taken |-> [s \in Sub |-> {}]]

raftCtxDone == main \in {"raft", "down"}
workerCtxDoneLate == raftCtxDone                                     \* mutant
workerCtxDone == main # "up"

-----------------------------------------------------------------------------
(* Broker *)

\* Subscribe as startTopicWorkerPool calls it, with the goroutines that the
\* two start.  A closed broker takes subscriptions as well.
startTopicWorkerPool(s) ==
    /\ dispatcher[s] = "none"
    /\ subscribers' = Append(subscribers, s)
    /\ janitor' = [janitor EXCEPT ![s] = "waiting"]
    /\ dispatcher' = [dispatcher EXCEPT ![s] = "ready"]
    /\ worker' = [w \in Sub \X Worker |-> IF w[1] = s THEN "ready" ELSE worker[w]]
    /\ UNCHANGED <<publish, events, jobs, held, closed, main, retention,
                   panic, ghost>>

\* The first critical section of Publish: a closed broker returns an error.
PublishCheck(p) ==
    /\ publish[p].at = "idle" /\ publish[p].n < MaxEvents
    /\ publish' = [publish EXCEPT ![p] =
                     [at |-> IF closed THEN "idle" ELSE "checked",
                      n |-> publish[p].n + 1, targets |-> << >>]]
    /\ UNCHANGED <<subscribers, events, janitor, poolVars, closed, main,
                   retention, panic, ghost>>

\* The loop of Publish goes on with the targets that are left, if any.
sending(p, targets) ==
    publish' = [publish EXCEPT ![p] =
                  [at |-> IF targets = << >> THEN "idle" ELSE "sending",
                   n |-> publish[p].n, targets |-> targets]]

\* The second critical section copies the subscribers.
PublishCopy(p) ==
    /\ publish[p].at = "checked"
    /\ sending(p, subscribers)
    /\ UNCHANGED <<subscribers, events, janitor, poolVars, closed, main,
                   retention, panic, ghost>>

offered(p) ==
    [ghost EXCEPT !.offered[<<p, publish[p].n>>] =
       @ \cup {Head(publish[p].targets)}]

fullEarly(s) == Len(events[s].queue) >= BufCap - 1                   \* mutant
full(s) == Len(events[s].queue) >= BufCap

logNoDroppedEvent(e) == retention                                    \* mutant
\* The retention buffer as logDroppedEvent leaves it.
logDroppedEvent(e) == [retention EXCEPT ![e] = @ + 1]

\* One turn of the loop: the context is done, the channel takes the event,
\* is closed, or is full and the event is dropped.
PublishSend(p) ==
    LET s == Head(publish[p].targets)
        e == <<p, publish[p].n>>
    IN /\ publish[p].at = "sending"
       /\ \/ /\ p \in RaftPublisher /\ raftCtxDone
             /\ sending(p, << >>)
             /\ UNCHANGED <<events, retention, panic, ghost>>
          \/ /\ events[s].open /\ ~full(s)
             /\ events' = [events EXCEPT ![s].queue = Append(@, e)]
             /\ sending(p, Tail(publish[p].targets))
             /\ ghost' = offered(p)
             /\ UNCHANGED <<retention, panic>>
          \/ /\ events[s].open /\ full(s)
             /\ ~(p \in RaftPublisher /\ raftCtxDone)
             /\ retention' = logDroppedEvent(e)
             /\ sending(p, Tail(publish[p].targets))
             /\ ghost' = offered(p)
             /\ UNCHANGED <<events, panic>>
          \/ /\ ~events[s].open
             /\ panic' = "send"
             /\ UNCHANGED <<publish, events, retention, ghost>>
       /\ UNCHANGED <<subscribers, janitor, poolVars, closed, main>>

\* The first subscription s is cut out of the list; Close may have emptied it.
cutOut(s) ==
    \/ \E i \in DOMAIN subscribers :
          /\ subscribers[i] = s
          /\ \A j \in 1..(i - 1) : subscribers[j] # s
          /\ subscribers' = SubSeq(subscribers, 1, i - 1)
                              \o SubSeq(subscribers, i + 1, Len(subscribers))
    \/ /\ \A i \in DOMAIN subscribers : subscribers[i] # s
       /\ UNCHANGED subscribers

\* mutant: the goroutine of a subscription does not wait for its context.
removeSubscriberAtOnce(s) ==
    /\ janitor[s] = "waiting"
    /\ janitor' = [janitor EXCEPT ![s] = "removed"]
    /\ cutOut(s)
    /\ UNCHANGED <<publish, events, poolVars, closed, main, retention, panic,
                   ghost>>

\* The goroutine of a subscription: removeSubscriber under the lock, and then
\* the close of the channel without it.
removeSubscriber(s) ==
    /\ janitor[s] = "waiting" /\ workerCtxDone
    /\ janitor' = [janitor EXCEPT ![s] = "removed"]
    /\ cutOut(s)
    /\ UNCHANGED <<publish, events, poolVars, closed, main, retention, panic,
                   ghost>>

closeEvents(s) ==
    /\ janitor[s] = "removed"
    /\ janitor' = [janitor EXCEPT ![s] = "ended"]
    /\ events' = [events EXCEPT ![s].open = FALSE]
    /\ panic' = IF events[s].open THEN panic ELSE "close"
    /\ UNCHANGED <<publish, subscribers, poolVars, closed, main, retention,
                   ghost>>

\* Close, run by main on its way out.
Close ==
    LET gone == {subscribers[i] : i \in DOMAIN subscribers}
    IN /\ closed' = TRUE
       /\ events' = [s \in Sub |-> [open |-> events[s].open /\ s \notin gone,
                                    queue |-> events[s].queue]]
       /\ panic' = IF \E s \in gone : ~events[s].open THEN "close" ELSE panic
       /\ subscribers' = << >>

-----------------------------------------------------------------------------
(* Worker pools *)

\* The outer select of the dispatcher.
receive(s) ==
    /\ dispatcher[s] = "ready"
    /\ \/ /\ workerCtxDone \/ (~events[s].open /\ events[s].queue = << >>)
          /\ dispatcher' = [dispatcher EXCEPT ![s] = "ended"]
          /\ UNCHANGED <<held, events>>
       \/ /\ events[s].queue # << >>
          /\ dispatcher' = [dispatcher EXCEPT ![s] = "holding"]
          /\ held' = [held EXCEPT ![s] = Head(events[s].queue)]
          /\ events' = [events EXCEPT ![s].queue = Tail(@)]
    /\ UNCHANGED <<publish, subscribers, jobs, janitor, worker, closed, main,
                   retention, panic, ghost>>

\* The inner select: the event goes to the workers, is given up, or meets a
\* job queue that is closed already.
dispatch(s) ==
    /\ dispatcher[s] = "holding"
    /\ \/ /\ jobs[s].open /\ Len(jobs[s].queue) < JobCap
          /\ jobs' = [jobs EXCEPT ![s].queue = Append(@, held[s])]
          /\ dispatcher' = [dispatcher EXCEPT ![s] = "ready"]
          /\ held' = [held EXCEPT ![s] = None]
          /\ UNCHANGED panic
       \/ /\ workerCtxDone
          /\ dispatcher' = [dispatcher EXCEPT ![s] = "ended"]
          /\ held' = [held EXCEPT ![s] = None]
          /\ UNCHANGED <<jobs, panic>>
       \/ /\ ~jobs[s].open
          /\ panic' = "jobs"
          /\ UNCHANGED <<jobs, dispatcher, held>>
    /\ UNCHANGED <<publish, subscribers, events, janitor, worker, closed,
                   main, retention, ghost>>

\* The goroutine that waits for the context and closes the job queue.
closeJobs(s) ==
    /\ dispatcher[s] # "none" /\ jobs[s].open /\ workerCtxDone
    /\ jobs' = [jobs EXCEPT ![s].open = FALSE]
    /\ UNCHANGED <<publish, subscribers, events, janitor, dispatcher, held,
                   worker, closed, main, retention, panic, ghost>>

\* mutant: a worker that finds no job ends.
takeJobOrEnd(s, w) ==
    /\ worker[<<s, w>>] = "ready" /\ jobs[s].queue = << >>
    /\ worker' = [worker EXCEPT ![<<s, w>>] = "ended"]
    /\ UNCHANGED <<publish, subscribers, events, jobs, janitor, dispatcher,
                   held, closed, main, retention, panic, ghost>>

\* The select of a worker.
takeJob(s, w) ==
    /\ worker[<<s, w>>] = "ready"
    /\ \/ /\ workerCtxDone \/ (~jobs[s].open /\ jobs[s].queue = << >>)
          /\ worker' = [worker EXCEPT ![<<s, w>>] = "ended"]
          /\ UNCHANGED <<jobs, ghost>>
       \/ /\ jobs[s].queue # << >>
          /\ worker' = [worker EXCEPT ![<<s, w>>] = "busy"]
          /\ jobs' = [jobs EXCEPT ![s].queue = Tail(@)]
          /\ ghost' = [ghost EXCEPT !.taken[s] = @ \cup {Head(jobs[s].queue)}]
    /\ UNCHANGED <<publish, subscribers, events, janitor, dispatcher, held,
                   closed, main, retention, panic>>

\* The handler returns.
finish(s, w) ==
    /\ worker[<<s, w>>] = "busy"
    /\ worker' = [worker EXCEPT ![<<s, w>>] = "ready"]
    /\ UNCHANGED <<publish, subscribers, events, jobs, janitor, dispatcher,
                   held, closed, main, retention, panic, ghost>>

-----------------------------------------------------------------------------
(* The teardown of the server: the workers' context, then the context of   *)
(* the Raft node, and the deferred Close last.                             *)

workerCancel ==
    /\ main = "up" /\ main' = "workers"
    /\ UNCHANGED <<publish, subscribers, events, janitor, poolVars, closed,
                   retention, panic, ghost>>

raftCancel ==
    /\ main = "workers" /\ main' = "raft"
    /\ UNCHANGED <<publish, subscribers, events, janitor, poolVars, closed,
                   retention, panic, ghost>>

deferredClose ==
    /\ main = "raft" /\ main' = "down"
    /\ Close
    /\ UNCHANGED <<publish, janitor, poolVars, retention, ghost>>

janitorStep(s) == removeSubscriber(s) \/ closeEvents(s)
dispatcherStep(s) == receive(s) \/ dispatch(s)
workerStep(s, w) == takeJob(s, w) \/ finish(s, w)

Next ==
    /\ panic = "none"
    /\ \/ \E p \in Publisher : PublishCheck(p) \/ PublishCopy(p) \/ PublishSend(p)
       \/ \E s \in Sub : startTopicWorkerPool(s) \/ janitorStep(s) \/ closeJobs(s)
                           \/ dispatcherStep(s)
       \/ \E s \in Sub, w \in Worker : workerStep(s, w)
       \/ workerCancel \/ raftCancel \/ deferredClose

\* Goroutines that can move are scheduled, and handlers return.  Nobody has
\* to publish, and the server need not be torn down.
Fairness ==
    /\ \A s \in Sub : /\ WF_vars(panic = "none" /\ janitorStep(s))
                      /\ WF_vars(panic = "none" /\ closeJobs(s))
                      /\ WF_vars(panic = "none" /\ dispatcherStep(s))
    /\ \A s \in Sub, w \in Worker : WF_vars(panic = "none" /\ workerStep(s, w))

Spec == Init /\ [][Next]_vars /\ Fairness

-----------------------------------------------------------------------------
(* Properties *)

\* What waits for the workers of a pool, oldest first: the job queue, the
\* event in the hands of the dispatcher, the channel of the subscription.
pipeline(s) ==
    jobs[s].queue \o (IF held[s] = None THEN << >> ELSE <<held[s]>>)
                  \o events[s].queue

reached(s, e) ==
    e \in ghost.taken[s] \/ \E i \in DOMAIN pipeline(s) : pipeline(s)[i] = e

Delivery == INSTANCE EventDelivery WITH
    Slack <- BufCap, pending <- [s \in Sub |-> pipeline(s)],
    started <- ghost.taken, records <- retention, stopped <- workerCtxDone

\* Two channels with a dispatcher between them, filled by several publishers
\* and emptied by several workers, are one queue per pool: no event is
\* repeated, overtaken or lost before the teardown, and one is dropped only
\* when a whole buffer of others waits (Publish, startTopicWorkerPool).
DeliveryImplemented == Delivery!Spec

\* Until the teardown begins, each subscription that an event was offered to
\* has it in its pipeline, has started it, or accounts for one record of the
\* retention buffer (logDroppedEvent).
DropsAudited ==
    ~workerCtxDone =>
        \A e \in Event :
            Cardinality(ghost.offered[e])
              = Cardinality({s \in Sub : reached(s, e)}) + retention[e]

\* A channel in the broker's map is open: Close never closes one that the
\* goroutine of its subscription has closed (removeSubscriber comes first).
RegisteredOpen ==
    \A i \in DOMAIN subscribers : events[subscribers[i]].open

\* While the server is up nothing panics, whatever the order in which
\* publishers, dispatchers and workers meet in the channels.
PanicOnlyAtTeardown == panic # "none" => main # "up"

\* An event that waits is started by a worker, unless the server goes down.
HandedOver ==
    \A s \in Sub, e \in Event :
        (\E i \in DOMAIN pipeline(s) : pipeline(s)[i] = e)
          ~> (e \in ghost.taken[s] \/ main # "up")

\* Cancelling the workers' context ends every goroutine of every pool, or the
\* process with them: no dispatcher stays with an event that nobody takes, no
\* worker with a queue that nobody closes.
PoolsEnd ==
    (main # "up") ~>
        \/ panic # "none"
        \/ \A s \in Sub :
              /\ janitor[s] \in {"none", "ended"}
              /\ dispatcher[s] \in {"none", "ended"}
              /\ \A w \in Worker : worker[<<s, w>>] \in {"none", "ended"}
=============================================================================
