-------------------------- MODULE SessionRegistry --------------------------
(***************************************************************************)
(* The session registry of one node (pkg/engine/game_manager.go and        *)
(* replicated.go): who has the entry of a match while readers hydrate it   *)
(* lazily from the repository, the FSM starts, plays, snapshots and        *)
(* restores it, and an abandonment writes to it.                           *)
(*                                                                         *)
(* One match.  A session is the set of what has been carried out on it;    *)
(* the rules are in GameSession.  An entry that is no longer registered    *)
(* stays on the heap as long as somebody holds it.  The map mutex is held  *)
(* for one step, except by SnapshotSessions, which waits under it for the  *)
(* mutex of the entry.                                                     *)
(***************************************************************************)
EXTENDS Integers, Sequences, FiniteSets

CONSTANTS
    Fsm,         \* the goroutine that applies committed commands
    Reader,      \* goroutines of requests that call GetSession
    Leaver,      \* abandonment timers
    MaxTurn,     \* committed turns
    MaxStart,    \* committed START_MATCH commands
    MaxSnapshot, \* snapshots taken
    MaxRestore,  \* snapshots installed
    MaxFault,    \* repository calls that fail
    None

ASSUME RegistryAssumption ==
    /\ Fsm \notin Reader \cup Leaver /\ Reader \cap Leaver = {}
    /\ None \notin {Fsm} \cup Reader \cup Leaver
    /\ MaxTurn \in Nat /\ MaxStart \in Nat /\ MaxSnapshot \in Nat
    /\ MaxRestore \in Nat /\ MaxFault \in Nat

Process == {Fsm} \cup Reader \cup Leaver

\* What is carried out on a session: the deal of a START_MATCH with setup or
\* one without, the turns by number, and the two writes of an abandonment.
Deal == 0
Open == -1
Leave == -2
Final == -3
Op == Final..MaxTurn

\* A session after some turns.
Played(k) == Deal..k

VARIABLES
    heap,       \* every sessionEntry: what is done on it, who holds its mutex
    sessions,   \* the registered entry, or 0
    recovered,  \* recoveredIDs
    hydrating,  \* who reads the repository for the session
    store,      \* the session in the repository, or None
    proc,       \* of a goroutine: where it is and what it holds
    budget,     \* what is left of the bounds, and the next turn
    ghost       \* what the properties remember, see Init

shared == <<heap, sessions, recovered, hydrating, store, budget, ghost>>
vars == <<shared, proc>>

At == {"idle", "lookup", "hydrate", "wait", "waited", "reading", "read",
       "hydrated", "missing", "has", "saving", "copying", "done"}

\* SnapshotSessions holds the map mutex.
copying == proc[Fsm].at = "copying"

TypeOK ==
    /\ heap \in Seq([ops : SUBSET Op, mu : Process \cup {None}])
    /\ sessions \in 0..Len(heap)
    /\ recovered \in BOOLEAN
    /\ hydrating \in Process \cup {None}
    /\ hydrating # None => proc[hydrating].at \in {"reading", "read"}
    /\ store \in (SUBSET Op) \cup {None}
    /\ proc \in [Process -> [at : At, op : Op \cup {None}, entry : 0..Len(heap),
                             doc : (SUBSET Op) \cup {None}]]
    /\ budget \in [turn : 0..MaxTurn, start : 0..MaxStart, snapshot : 0..MaxSnapshot,
                   restore : 0..MaxRestore, fault : 0..MaxFault]

idleProc == [at |-> "idle", op |-> None, entry |-> 0, doc |-> None]

\* After a restart the repository may hold the match, active and so listed
\* for recovery, or finished, or not at all.  ghost.applied: what the FSM has
\* carried out since the last deal or restore; ghost.raced: a session was
\* created or restored while somebody was reading the repository for it;
\* ghost.replaced: that, or a restore took the entry of a writer away.
Init ==
    /\ heap = << >> /\ sessions = 0
    /\ store \in {None, Played(MaxTurn)}
    /\ recovered \in {r \in BOOLEAN : r => store # None}
    /\ hydrating = None
    /\ proc = [p \in Process |-> idleProc]
    /\ budget = [turn |-> 0, start |-> MaxStart, snapshot |-> MaxSnapshot,
                 restore |-> MaxRestore, fault |-> MaxFault]
    /\ ghost = [applied |-> {}, raced |-> FALSE, replaced |-> FALSE]

goes(p, at) == proc' = [proc EXCEPT ![p].at = at]

\* With the entry that is registered.
takes(p, at) == proc' = [proc EXCEPT ![p].at = at, ![p].entry = sessions]

-----------------------------------------------------------------------------
(* Looking a session up, and hydrating it.                                 *)

\* The first look, under the read lock.
lookupSession(p) ==
    /\ proc[p].at = "lookup"
    /\ \/ sessions # 0 /\ takes(p, "has")
       \/ sessions = 0 /\ recovered /\ goes(p, "hydrate")
       \/ sessions = 0 /\ ~recovered /\ goes(p, "missing")
    /\ UNCHANGED shared

\* mutant: what was seen under the read lock is still trusted.
hydrateUnchecked(p) ==
    /\ proc[p].at = "hydrate" /\ ~copying
    /\ IF hydrating # None
       THEN goes(p, "wait") /\ UNCHANGED hydrating
       ELSE goes(p, "reading") /\ hydrating' = p
    /\ UNCHANGED <<heap, sessions, recovered, store, budget, ghost>>

\* hydrateRecoveredSession up to the unlock.
hydrateRecoveredSession(p) ==
    /\ proc[p].at = "hydrate" /\ ~copying
    /\ \/ /\ sessions # 0
          /\ takes(p, "hydrated")
          /\ UNCHANGED hydrating
       \/ /\ sessions = 0 /\ hydrating # None
          /\ goes(p, "wait")
          /\ UNCHANGED hydrating
       \/ /\ sessions = 0 /\ hydrating = None /\ ~recovered
          /\ goes(p, "missing")
          /\ UNCHANGED hydrating
       \/ /\ sessions = 0 /\ hydrating = None /\ recovered
          /\ goes(p, "reading")
          /\ hydrating' = p
    /\ UNCHANGED <<heap, sessions, recovered, store, budget, ghost>>

\* The repository answers, with the session or with an error.
readStore(p) ==
    /\ proc[p].at = "reading"
    /\ \/ /\ proc' = [proc EXCEPT ![p].at = "read", ![p].doc = store]
          /\ UNCHANGED budget
       \/ /\ budget.fault > 0
          /\ proc' = [proc EXCEPT ![p].at = "read", ![p].doc = None]
          /\ budget' = [budget EXCEPT !.fault = @ - 1]
    /\ UNCHANGED <<heap, sessions, recovered, hydrating, store, ghost>>

\* mutant: the others are woken only by a session that was found.
wokenByFound(q, found) == found /\ proc[q].at = "wait"

\* wg.Done
woken(q, found) == proc[q].at = "wait"

\* The second half: whatever was read is registered, and all who wait for it
\* go on.
addHydrated(p) ==
    LET found == proc[p].doc # None
        next == IF found THEN "hydrated" ELSE "missing"
        mine == [at |-> next, op |-> proc[p].op, doc |-> None,
                 entry |-> IF found THEN Len(heap) + 1 ELSE 0]
    IN /\ proc[p].at = "read" /\ ~copying
       /\ hydrating' = None
       /\ proc' = [q \in Process |->
                     IF q = p THEN mine
                     ELSE IF woken(q, found) THEN [proc[q] EXCEPT !.at = "waited"]
                     ELSE proc[q]]
       /\ \/ /\ found
             /\ heap' = Append(heap, [ops |-> proc[p].doc, mu |-> None])
             /\ sessions' = Len(heap) + 1
             /\ recovered' = FALSE
          \/ ~found /\ UNCHANGED <<heap, sessions, recovered>>
       /\ UNCHANGED <<store, budget, ghost>>

\* A waiter looks once more.
afterWait(p) ==
    /\ proc[p].at = "waited"
    /\ \/ sessions # 0 /\ takes(p, "hydrated")
       \/ sessions = 0 /\ goes(p, "missing")
    /\ UNCHANGED shared

\* lookupSession takes the entry that is registered by then; GetSession has
\* the session already.
lookAgain(p) ==
    /\ proc[p].at = "hydrated" /\ p \notin Reader
    /\ \/ sessions # 0 /\ takes(p, "has")
       \/ sessions = 0 /\ goes(p, "missing")
    /\ UNCHANGED shared

GetSession(p) ==
    /\ p \in Reader /\ proc[p].at = "idle"
    /\ goes(p, "lookup")
    /\ UNCHANGED shared

\* The reader has its answer.
answer(p) ==
    /\ p \in Reader /\ proc[p].at \in {"has", "hydrated", "missing"}
    /\ proc' = [proc EXCEPT ![p].at = "done", ![p].entry = 0]
    /\ UNCHANGED shared

-----------------------------------------------------------------------------
(* Writing to a session.                                                   *)

\* ResetForSetup and a new deal, or one operation more.
carriedOut(ops, op) == IF op = Deal THEN {Deal} ELSE ops \cup {op}

\* mutant: the mutex is not held while the session is saved.
heldNoLonger(p) == None

\* defer entry.mu.Unlock(): the mutex is held until the session is saved.
heldUntilSaved(p) == p

\* The entry is locked and changed.
write(p) ==
    LET e == proc[p].entry
        new == carriedOut(heap[e].ops, proc[p].op)
    IN /\ proc[p].at = "has" /\ p \notin Reader /\ heap[e].mu = None
       /\ heap' = [heap EXCEPT ![e] = [ops |-> new, mu |-> heldUntilSaved(p)]]
       /\ proc' = [proc EXCEPT ![p].at = "saving", ![p].doc = new]
       /\ ghost' = IF p = Fsm
                   THEN [ghost EXCEPT !.applied = carriedOut(@, proc[p].op)]
                   ELSE ghost
       /\ UNCHANGED <<sessions, recovered, hydrating, store, budget>>

\* What comes next: a leaver has the match evaluated, with a new lookup.
afterSave(p, saved) ==
    IF p = Fsm THEN idleProc
    ELSE IF saved /\ proc[p].op = Leave
    THEN [idleProc EXCEPT !.at = "lookup", !.op = Final]
    ELSE [idleProc EXCEPT !.at = "done"]

\* Nothing has to be changed: ProcessGameTurn refuses the turn, the player is
\* not in the match, or the match has not ended.
skip(p) ==
    /\ proc[p].at = "has" /\ p \notin Reader
    /\ proc[p].op \notin {Deal, Open}
    /\ heap[proc[p].entry].mu = None
    /\ proc' = [proc EXCEPT ![p] = afterSave(p, FALSE)]
    /\ UNCHANGED shared

\* persistState, and the mutex is free again.
persistState(p) ==
    LET e == proc[p].entry
    IN /\ proc[p].at = "saving"
       /\ heap' = [heap EXCEPT ![e].mu = None]
       /\ \/ /\ store' = proc[p].doc
             /\ proc' = [proc EXCEPT ![p] = afterSave(p, TRUE)]
             /\ UNCHANGED budget
          \/ /\ budget.fault > 0
             /\ budget' = [budget EXCEPT !.fault = @ - 1]
             /\ proc' = [proc EXCEPT ![p] = afterSave(p, FALSE)]
             /\ UNCHANGED store
       /\ UNCHANGED <<sessions, recovered, hydrating, ghost>>

HandlePlayerAbandoned(p) ==
    /\ p \in Leaver /\ proc[p].at = "idle"
    /\ proc' = [proc EXCEPT ![p].at = "lookup", ![p].op = Leave]
    /\ UNCHANGED shared

\* The session is not there: an error for a turn and for a leaver.
notFound(p) ==
    /\ proc[p].at = "missing" /\ p \notin Reader
    /\ proc[p].op \notin {Deal, Open}
    /\ proc' = [proc EXCEPT ![p] = IF p = Fsm THEN idleProc
                                   ELSE [idleProc EXCEPT !.at = "done"]]
    /\ UNCHANGED shared

-----------------------------------------------------------------------------
(* The FSM.                                                                *)

ApplyReplicatedStartMatch ==
    /\ proc[Fsm].at = "idle" /\ budget.start > 0
    /\ \E op \in {Deal, Open} :
          proc' = [proc EXCEPT ![Fsm].at = "lookup", ![Fsm].op = op]
    /\ budget' = [budget EXCEPT !.start = @ - 1]
    /\ UNCHANGED <<heap, sessions, recovered, hydrating, store, ghost>>

\* The lookup failed.  CreateSession, unless somebody has hydrated it since.
CreateSession ==
    /\ proc[Fsm].at = "missing" /\ proc[Fsm].op \in {Deal, Open}
    /\ \/ /\ sessions # 0
          /\ proc' = [proc EXCEPT ![Fsm] = idleProc]
          /\ UNCHANGED <<heap, sessions, recovered, ghost>>
       \/ /\ sessions = 0
          /\ heap' = Append(heap, [ops |-> {}, mu |-> None])
          /\ sessions' = Len(heap) + 1
          /\ recovered' = FALSE
          /\ goes(Fsm, "lookup")
          /\ ghost' = [ghost EXCEPT !.raced = @ \/ hydrating # None,
                                    !.replaced = @ \/ hydrating # None]
    /\ UNCHANGED <<hydrating, store, budget>>

ApplyReplicatedTurn ==
    /\ proc[Fsm].at = "idle" /\ budget.turn < MaxTurn
    /\ proc' = [proc EXCEPT ![Fsm].at = "lookup", ![Fsm].op = budget.turn + 1]
    /\ budget' = [budget EXCEPT !.turn = @ + 1]
    /\ UNCHANGED <<heap, sessions, recovered, hydrating, store, ghost>>

\* RestoreSessions from the snapshot of a leader that is some turns ahead, or
\* from one without the match.
RestoreSessions(has, k) ==
    /\ proc[Fsm].at = "idle" /\ budget.restore > 0
    /\ has \/ (budget.start = MaxStart /\ budget.turn = 0)
    /\ k >= budget.turn
    /\ \/ /\ has
          /\ heap' = Append(heap, [ops |-> Played(k), mu |-> None])
          /\ sessions' = Len(heap) + 1
       \/ ~has /\ sessions' = 0 /\ UNCHANGED heap
    /\ recovered' = FALSE
    /\ budget' = [budget EXCEPT !.restore = @ - 1, !.turn = k]
    /\ ghost' = [applied |-> IF has THEN Played(k) ELSE {},
                 raced |-> ghost.raced \/ hydrating # None,
                 replaced |-> TRUE]
    /\ UNCHANGED <<hydrating, store, proc>>

\* SnapshotSessions takes the map mutex, then that of the entry.
SnapshotSessions ==
    /\ proc[Fsm].at = "idle" /\ budget.snapshot > 0
    /\ budget' = [budget EXCEPT !.snapshot = @ - 1]
    /\ goes(Fsm, "copying")
    /\ UNCHANGED <<heap, sessions, recovered, hydrating, store, ghost>>

copied ==
    /\ copying
    /\ sessions # 0 => heap[sessions].mu = None
    /\ proc' = [proc EXCEPT ![Fsm] = idleProc]
    /\ UNCHANGED shared

step(p) ==
    \/ lookupSession(p) \/ hydrateRecoveredSession(p) \/ readStore(p)
    \/ addHydrated(p) \/ afterWait(p) \/ lookAgain(p) \/ answer(p)
    \/ write(p) \/ skip(p) \/ persistState(p) \/ notFound(p)

FsmStep == CreateSession \/ copied

Arrive ==
    \/ \E p \in Reader : GetSession(p)
    \/ \E p \in Leaver : HandlePlayerAbandoned(p)
    \/ ApplyReplicatedStartMatch \/ ApplyReplicatedTurn \/ SnapshotSessions
    \/ \E has \in BOOLEAN, k \in 0..MaxTurn : RestoreSessions(has, k)

Next == Arrive \/ FsmStep \/ \E p \in Process : step(p)

\* A goroutine goes on and the repository answers every call; nobody has to
\* send anything.
Fairness == WF_vars(FsmStep) /\ \A p \in Process : WF_vars(step(p))

Spec == Init /\ [][Next]_vars /\ Fairness

-----------------------------------------------------------------------------
(* Properties *)

\* Goroutines that need the match at the same time share one read of the
\* repository (hydrateRecoveredSession).
OneRead == Cardinality({p \in Process : proc[p].at = "reading"}) <= 1

\* The registered session has all that the FSM has carried out, unless it was
\* created or restored in the middle of a hydration (addSessionLocked).
AppliedKept ==
    ~ghost.raced =>
        ghost.applied \subseteq (IF sessions = 0 THEN {} ELSE heap[sessions].ops)

\* What is saved is what the registered session is at that moment, never an
\* older state of it, as long as nobody was left with an entry that has been
\* replaced (withSessionWrite saves under the mutex of the session).
SavesCurrent ==
    [][(~ghost.replaced /\ store' # store)
        => sessions # 0 /\ store' = heap[sessions].ops]_vars

\* Whoever looks up a session gets an answer, also when the one who reads the
\* repository fails (wg.Done), and whoever waits for a mutex gets it.
LookupsEnd ==
    \A p \in Process :
        proc[p].at \notin {"idle", "done"} ~> proc[p].at \in {"idle", "done"}
=============================================================================
