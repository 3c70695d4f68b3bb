--------------------------- MODULE EventDelivery ---------------------------
(***************************************************************************)
(* What the broker and the worker pools promise about one topic: each      *)
(* subscription is one queue.  An event goes to the end of it, or is       *)
(* recorded as dropped because enough others wait; workers take events     *)
(* from its front, each once.  Once the worker context is cancelled an     *)
(* event that waits may be given up, and no record is made.                *)
(***************************************************************************)
EXTENDS Integers, Sequences

CONSTANTS
    Sub,      \* subscriptions
    Event,    \* events
    Slack     \* events that must be waiting before one is dropped

VARIABLES
    pending,  \* of a subscription: events that wait, oldest first
    started,  \* of a subscription: events a worker has taken
    records,  \* of an event: records of a drop
    stopped   \* the worker context is cancelled

vars == <<pending, started, records, stopped>>

Init ==
    /\ pending = [s \in Sub |-> << >>]
    /\ started = [s \in Sub |-> {}]
    /\ records = [e \in Event |-> 0]
    /\ stopped = FALSE

fresh(s, e) ==
    /\ e \notin started[s]
    /\ \A i \in DOMAIN pending[s] : pending[s][i] # e

enqueue(s, e) ==
    /\ fresh(s, e)
    /\ pending' = [pending EXCEPT ![s] = Append(@, e)]
    /\ UNCHANGED <<started, records, stopped>>

drop(s, e) ==
    /\ Len(pending[s]) >= Slack
    /\ fresh(s, e)
    /\ records' = [records EXCEPT ![e] = @ + 1]
    /\ UNCHANGED <<pending, started, stopped>>

take(s) ==
    /\ pending[s] # << >>
    /\ started' = [started EXCEPT ![s] = @ \cup {Head(pending[s])}]
    /\ pending' = [pending EXCEPT ![s] = Tail(@)]
    /\ UNCHANGED <<records, stopped>>

stop == stopped' = TRUE /\ UNCHANGED <<pending, started, records>>

\* After the cancellation an event in the middle of the queue, the one the
\* dispatcher holds, may be given up.
discard(s) ==
    /\ stopped
    /\ \E i \in DOMAIN pending[s] :
          pending' = [pending EXCEPT
                        ![s] = SubSeq(@, 1, i - 1) \o SubSeq(@, i + 1, Len(@))]
    /\ UNCHANGED <<started, records, stopped>>

Next ==
    \/ \E s \in Sub, e \in Event : enqueue(s, e) \/ drop(s, e)
    \/ \E s \in Sub : take(s) \/ discard(s)
    \/ stop

Spec == Init /\ [][Next]_vars
=============================================================================
