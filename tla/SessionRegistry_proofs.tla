----------------------- MODULE SessionRegistry_proofs -----------------------
(***************************************************************************)
(* What the session registry keeps for any number of readers and leavers,  *)
(* turns, starts, snapshots, restores and failing calls.                   *)
(***************************************************************************)
EXTENDS SessionRegistry, FiniteSetTheorems, TLAPS

Entries == [ops : SUBSET Op, mu : Process \cup {None}]
ProcState(k) == [at : At, op : Op \cup {None}, entry : 0..k,
                 doc : (SUBSET Op) \cup {None}]
Budget == [turn : 0..MaxTurn, start : 0..MaxStart, snapshot : 0..MaxSnapshot,
           restore : 0..MaxRestore, fault : 0..MaxFault]
Ghost == [applied : SUBSET Op, raced : BOOLEAN, replaced : BOOLEAN]

\* The marker names the one goroutine that reads the repository.
ReaderMarked ==
    \A p \in Process : proc[p].at \in {"reading", "read"} => hydrating = p

\* Unless the race has happened, nothing is registered during a hydration.
EmptyWhileRead == (~ghost.raced /\ hydrating # None) => sessions = 0

\* A goroutine that is about to write holds an entry, and knows what to do.
HoldsEntry ==
    \A p \in Process :
        /\ proc[p].at \in {"has", "saving"} => proc[p].entry # 0
        /\ (p \notin Reader /\ proc[p].at \notin {"idle", "done", "copying"})
             => proc[p].op \in Op
        /\ (p \in Leaver /\ proc[p].at \notin {"idle", "done"})
             => proc[p].op \in {Leave, Final}

\* The entry of the FSM is the registered one; that of anybody else is, as
\* long as none was replaced.
EntryCurrent ==
    \A p \in Process :
        (/\ proc[p].at \in {"has", "saving"}
         /\ ~ghost.replaced \/ (p = Fsm /\ ~ghost.raced))
        => proc[p].entry = sessions

\* Whoever saves has the mutex, and saves what the entry is.
SavesUnderMutex ==
    \A p \in Process : proc[p].at = "saving" =>
        /\ heap[proc[p].entry].mu = p
        /\ heap[proc[p].entry].ops = proc[p].doc

IInv ==
    /\ TypeOK
    /\ ghost \in Ghost
    /\ ghost.raced => ghost.replaced
    /\ ReaderMarked
    /\ EmptyWhileRead
    /\ HoldsEntry
    /\ EntryCurrent
    /\ SavesUnderMutex
    /\ AppliedKept

-----------------------------------------------------------------------------

LEMMA InitInv == Init => IInv
<1> SUFFICES ASSUME Init PROVE IInv
  OBVIOUS
<1> USE RegistryAssumption
<1>1. /\ heap = << >> /\ sessions = 0 /\ hydrating = None
      /\ \A p \in Process : proc[p] = idleProc
      /\ ghost.raced = FALSE /\ ghost.replaced = FALSE /\ ghost.applied = {}
  BY DEF Init
<1>2. idleProc \in ProcState(0)
  BY DEF idleProc, ProcState, At
<1>3. TypeOK
  <2>1. heap \in Seq(Entries) /\ Len(heap) = 0
    BY <1>1
  <2>2. proc \in [Process -> ProcState(0)]
    BY <1>2 DEF Init
  <2>3. store \in (SUBSET Op) \cup {None}
    BY DEF Init, Played, Op, Deal, Final
  <2>4. recovered \in BOOLEAN
    BY DEF Init
  <2>5. budget \in Budget
    BY DEF Init, Budget
  <2> QED
    BY <1>1, <2>1, <2>2, <2>3, <2>4, <2>5
       DEF TypeOK, Entries, ProcState, Budget
<1>4. ghost \in Ghost
  BY DEF Init, Ghost
<1>5. idleProc.at = "idle" /\ idleProc.op = None
  BY DEF idleProc
<1> QED
  BY <1>1, <1>3, <1>4, <1>5
     DEF IInv, ReaderMarked, EmptyWhileRead, HoldsEntry, EntryCurrent,
         SavesUnderMutex, AppliedKept

\* A step that changes one goroutine and nothing that is shared but the
\* repository and the bounds.
LEMMA Moves ==
    ASSUME IInv, NEW p \in Process,
           UNCHANGED <<heap, sessions, recovered, hydrating, ghost>>,
           store' \in (SUBSET Op) \cup {None},
           budget' \in Budget,
           proc' \in [Process -> ProcState(Len(heap))],
           \A q \in Process \ {p} : proc'[q] = proc[q],
           proc'[p].at \in {"reading", "read"} <=> hydrating = p,
           proc'[p].at = "has" => sessions # 0 /\ proc'[p].entry = sessions,
           proc'[p].at # "saving",
           (p \in Leaver /\ proc'[p].at \notin {"idle", "done"})
             => proc'[p].op \in {Leave, Final},
           (p \notin Reader /\ proc'[p].at \notin {"idle", "done", "copying"})
             => proc'[p].op \in Op
    PROVE  IInv'
<1> USE RegistryAssumption
<1>1. TypeOK'
  <2>1. hydrating # None => proc'[hydrating].at \in {"reading", "read"}
    BY DEF IInv, TypeOK
  <2> QED
    BY <2>1 DEF IInv, TypeOK, ProcState, Budget
<1>2. ReaderMarked'
  BY DEF IInv, ReaderMarked
<1>3. EmptyWhileRead' /\ AppliedKept' /\ ghost' \in Ghost
      /\ (ghost'.raced => ghost'.replaced)
  BY DEF IInv, EmptyWhileRead, AppliedKept
<1>4. HoldsEntry'
  BY DEF IInv, HoldsEntry
<1>5. EntryCurrent'
  BY DEF IInv, EntryCurrent
<1>6. SavesUnderMutex'
  BY DEF IInv, SavesUnderMutex
<1> QED
  BY <1>1, <1>2, <1>3, <1>4, <1>5, <1>6 DEF IInv

\* The steps of one goroutine that lemma Moves is about.
LEMMA StepMoves ==
    ASSUME IInv, NEW p \in Process,
           \/ lookupSession(p) \/ readStore(p) \/ afterWait(p)
           \/ lookAgain(p) \/ answer(p) \/ skip(p) \/ notFound(p)
           \/ (p \in Reader /\ GetSession(p))
           \/ (p \in Leaver /\ HandlePlayerAbandoned(p))
    PROVE  IInv'
<1> USE RegistryAssumption
<1>t. /\ proc \in [Process -> ProcState(Len(heap))]
      /\ sessions \in 0..Len(heap)
      /\ Len(heap) \in Nat
      /\ store \in (SUBSET Op) \cup {None} /\ budget \in Budget
      /\ Leave \in Op /\ Final \in Op
  BY DEF IInv, TypeOK, ProcState, Budget, Op, Leave, Final
<1>u. /\ p \notin Reader /\ p # Fsm => p \in Leaver
      /\ p = Fsm => p \notin Leaver
  BY DEF Process
<1>h. /\ proc[p].at \in {"reading", "read"} <=> hydrating = p
      /\ (p \in Leaver /\ proc[p].at \notin {"idle", "done"})
           => proc[p].op \in {Leave, Final}
      /\ (p \notin Reader /\ proc[p].at \notin {"idle", "done", "copying"})
           => proc[p].op \in Op
  <2>1. p # None
    BY DEF Process
  <2>2. hydrating = p => proc[p].at \in {"reading", "read"}
    BY <2>1 DEF IInv, TypeOK
  <2> QED
    BY <2>2 DEF IInv, ReaderMarked, HoldsEntry
<1>1. CASE lookupSession(p)
  <2>1. \A q \in Process \ {p} : proc'[q] = proc[q]
    BY <1>1, <1>t, Zenon DEF lookupSession, takes, goes
  <2>2. /\ proc' \in [Process -> ProcState(Len(heap))]
        /\ proc'[p].op = proc[p].op
        /\ \/ proc'[p].at \in {"hydrate", "missing"}
           \/ proc'[p].at = "has" /\ proc'[p].entry = sessions /\ sessions # 0
    BY <1>1, <1>t, SMTT(30) DEF lookupSession, takes, goes, ProcState, At
  <2> QED
    BY <1>1, <1>t, <1>h, <2>1, <2>2, Moves DEF lookupSession, shared
<1>2. CASE readStore(p)
  <2>1. \A q \in Process \ {p} : proc'[q] = proc[q]
    BY <1>2, <1>t, Zenon DEF readStore
  <2>2. /\ proc' \in [Process -> ProcState(Len(heap))]
        /\ proc'[p].op = proc[p].op /\ proc'[p].at = "read"
    BY <1>2, <1>t DEF readStore, ProcState, At
  <2>3. budget' \in Budget
    BY <1>2, <1>t DEF readStore, Budget
  <2> QED
    BY <1>2, <1>t, <1>h, <2>1, <2>2, <2>3, Moves DEF readStore
<1>3. CASE afterWait(p)
  <2>1. \A q \in Process \ {p} : proc'[q] = proc[q]
    BY <1>3, <1>t, Zenon DEF afterWait, takes, goes
  <2>2. \/ proc' = [proc EXCEPT ![p].at = "hydrated", ![p].entry = sessions]
        \/ proc' = [proc EXCEPT ![p].at = "missing"]
    BY <1>3 DEF afterWait, takes, goes
  <2>a. proc[p] \in ProcState(Len(heap))
    BY <1>t
  <2>3. /\ proc' \in [Process -> ProcState(Len(heap))]
        /\ proc'[p].op = proc[p].op /\ proc'[p].at \in {"hydrated", "missing"}
    <3>1. CASE proc' = [proc EXCEPT ![p].at = "hydrated", ![p].entry = sessions]
      <4> DEFINE r == [proc[p] EXCEPT !.at = "hydrated", !.entry = sessions]
      <4>1. r \in ProcState(Len(heap)) /\ r.at = "hydrated" /\ r.op = proc[p].op
        BY <1>t, <2>a DEF ProcState, At
      <4>2. proc' = [proc EXCEPT ![p] = r]
        BY <3>1, Zenon
      <4> HIDE DEF r
      <4> QED
        BY <1>t, <4>1, <4>2
    <3>2. CASE proc' = [proc EXCEPT ![p].at = "missing"]
      BY <1>t, <3>2 DEF ProcState, At
    <3> QED
      BY <2>2, <3>1, <3>2
  <2> QED
    BY <1>3, <1>t, <1>h, <2>1, <2>3, Moves DEF afterWait, shared
<1>4. CASE lookAgain(p)
  <2>1. \A q \in Process \ {p} : proc'[q] = proc[q]
    BY <1>4, <1>t, Zenon DEF lookAgain, takes, goes
  <2>2. /\ proc' \in [Process -> ProcState(Len(heap))]
        /\ proc'[p].op = proc[p].op
        /\ \/ proc'[p].at = "missing"
           \/ proc'[p].at = "has" /\ proc'[p].entry = sessions /\ sessions # 0
    BY <1>4, <1>t DEF lookAgain, takes, goes, ProcState, At
  <2> QED
    BY <1>4, <1>t, <1>h, <2>1, <2>2, Moves DEF lookAgain, shared
<1>5. CASE answer(p)
  <2>1. \A q \in Process \ {p} : proc'[q] = proc[q]
    BY <1>5, <1>t, Zenon DEF answer
  <2> DEFINE r == [proc[p] EXCEPT !.at = "done", !.entry = 0]
  <2>2. r \in ProcState(Len(heap)) /\ r.at = "done" /\ r.op = proc[p].op
    <3>1. proc[p] \in ProcState(Len(heap)) /\ 0 \in 0..Len(heap)
      BY <1>t
    <3> QED
      BY <3>1 DEF ProcState, At
  <2>4. proc' = [proc EXCEPT ![p] = r]
    BY <1>5, Zenon DEF answer
  <2> HIDE DEF r
  <2>3. /\ proc' \in [Process -> ProcState(Len(heap))]
        /\ proc'[p].op = proc[p].op /\ proc'[p].at = "done"
    BY <1>t, <2>2, <2>4
  <2> QED
    BY <1>5, <1>t, <1>h, <2>1, <2>3, Moves DEF answer, shared
<1>6. CASE skip(p)
  <2>1. /\ \A q \in Process \ {p} : proc'[q] = proc[q]
        /\ proc'[p] = afterSave(p, FALSE)
    BY <1>6, <1>t, Zenon DEF skip
  <2>2. afterSave(p, FALSE) \in {idleProc, [idleProc EXCEPT !.at = "done"]}
    BY DEF afterSave
  <2>3. ASSUME NEW r \in {idleProc, [idleProc EXCEPT !.at = "done"]}
        PROVE  r \in ProcState(Len(heap)) /\ r.at \in {"idle", "done"}
               /\ r.op = None
    BY <1>t DEF idleProc, ProcState, At
  <2>4. proc' \in [Process -> ProcState(Len(heap))]
    BY <1>6, <1>t, <2>2, <2>3 DEF skip
  <2> QED
    BY <1>6, <1>t, <1>h, <2>1, <2>2, <2>3, <2>4, Moves DEF skip, shared
<1>7. CASE notFound(p)
  <2>1. /\ \A q \in Process \ {p} : proc'[q] = proc[q]
        /\ proc'[p] \in {idleProc, [idleProc EXCEPT !.at = "done"]}
    BY <1>7, <1>t, Zenon DEF notFound
  <2>2. /\ proc'[p] \in ProcState(Len(heap))
        /\ proc'[p].at \in {"idle", "done"} /\ proc'[p].op = None
    BY <1>t, <2>1 DEF idleProc, ProcState, At
  <2>3. proc' \in [Process -> ProcState(Len(heap))]
    BY <1>7, <1>t, <2>1, <2>2 DEF notFound
  <2> QED
    BY <1>7, <1>t, <1>h, <2>1, <2>2, <2>3, Moves DEF notFound, shared
<1>8. CASE p \in Reader /\ GetSession(p)
  <2>1. \A q \in Process \ {p} : proc'[q] = proc[q]
    BY <1>8, <1>t, Zenon DEF GetSession, goes
  <2>2. /\ proc' \in [Process -> ProcState(Len(heap))]
        /\ proc'[p].op = proc[p].op /\ proc'[p].at = "lookup"
    BY <1>8, <1>t DEF GetSession, goes, ProcState, At
  <2> QED
    BY <1>8, <1>t, <1>h, <2>1, <2>2, Moves DEF GetSession, shared
<1>9. CASE p \in Leaver /\ HandlePlayerAbandoned(p)
  <2>1. \A q \in Process \ {p} : proc'[q] = proc[q]
    BY <1>9, <1>t, Zenon DEF HandlePlayerAbandoned
  <2>2. /\ proc' \in [Process -> ProcState(Len(heap))]
        /\ proc'[p].op = Leave /\ proc'[p].at = "lookup"
    BY <1>9, <1>t, ZenonT(60) DEF HandlePlayerAbandoned, ProcState, At
  <2> QED
    BY <1>9, <1>t, <1>h, <2>1, <2>2, Moves DEF HandlePlayerAbandoned, shared
<1> QED
  BY <1>1, <1>2, <1>3, <1>4, <1>5, <1>6, <1>7, <1>8, <1>9

\* The steps of the FSM that lemma Moves is about.
LEMMA FsmMoves ==
    ASSUME IInv,
           \/ ApplyReplicatedStartMatch \/ ApplyReplicatedTurn
           \/ SnapshotSessions \/ copied
           \/ (CreateSession /\ sessions # 0)
    PROVE  IInv'
<1> USE RegistryAssumption
<1>t. /\ proc \in [Process -> ProcState(Len(heap))]
      /\ Len(heap) \in Nat /\ Fsm \in Process /\ Fsm \notin Leaver
      /\ store \in (SUBSET Op) \cup {None} /\ budget \in Budget
      /\ Deal \in Op /\ Open \in Op
  BY DEF IInv, TypeOK, ProcState, Budget, Op, Final, Deal, Open, Process
<1>h. proc[Fsm].at \in {"reading", "read"} <=> hydrating = Fsm
  BY <1>t DEF IInv, TypeOK, ReaderMarked
<1>1. CASE ApplyReplicatedStartMatch
  <2>1. \A q \in Process \ {Fsm} : proc'[q] = proc[q]
    BY <1>1, <1>t, Zenon DEF ApplyReplicatedStartMatch
  <2>2. /\ proc' \in [Process -> ProcState(Len(heap))]
        /\ proc'[Fsm].op \in Op /\ proc'[Fsm].at = "lookup"
    BY <1>1, <1>t DEF ApplyReplicatedStartMatch, ProcState, At
  <2>3. budget' \in Budget
    BY <1>1, <1>t DEF ApplyReplicatedStartMatch, Budget
  <2>4. proc[Fsm].at = "idle"
    BY <1>1 DEF ApplyReplicatedStartMatch
  <2> QED
    BY <1>1, <1>t, <1>h, <2>1, <2>2, <2>3, <2>4, Moves
       DEF ApplyReplicatedStartMatch
<1>2. CASE ApplyReplicatedTurn
  <2>1. \A q \in Process \ {Fsm} : proc'[q] = proc[q]
    BY <1>2, <1>t, Zenon DEF ApplyReplicatedTurn
  <2>2. /\ budget.turn \in 0..MaxTurn /\ budget.turn < MaxTurn
        /\ budget' = [budget EXCEPT !.turn = @ + 1]
    BY <1>2, <1>t DEF ApplyReplicatedTurn, Budget
  <2>5. budget.turn + 1 \in Op /\ budget.turn + 1 \in 0..MaxTurn
    BY <2>2 DEF Op, Final
  <2>6. budget' \in Budget
    BY <1>t, <2>2, <2>5 DEF Budget
  <2>3. /\ proc' \in [Process -> ProcState(Len(heap))]
        /\ proc'[Fsm].op \in Op /\ proc'[Fsm].at = "lookup"
    BY <1>2, <1>t, <2>5, ZenonT(60) DEF ApplyReplicatedTurn, ProcState, At
  <2>4. proc[Fsm].at = "idle"
    BY <1>2 DEF ApplyReplicatedTurn
  <2> QED
    BY <1>2, <1>t, <1>h, <2>1, <2>3, <2>4, <2>6, Moves DEF ApplyReplicatedTurn
<1>3. CASE SnapshotSessions
  <2>1. \A q \in Process \ {Fsm} : proc'[q] = proc[q]
    BY <1>3, <1>t, Zenon DEF SnapshotSessions, goes
  <2>2. /\ proc' \in [Process -> ProcState(Len(heap))]
        /\ proc'[Fsm].at = "copying"
    BY <1>3, <1>t DEF SnapshotSessions, goes, ProcState, At
  <2>3. budget' \in Budget
    BY <1>3, <1>t, SMTT(30) DEF SnapshotSessions, Budget
  <2>4. proc[Fsm].at = "idle"
    BY <1>3 DEF SnapshotSessions
  <2> QED
    BY <1>3, <1>t, <1>h, <2>1, <2>2, <2>3, <2>4, Moves DEF SnapshotSessions
<1>4. ASSUME proc' = [proc EXCEPT ![Fsm] = idleProc],
             proc[Fsm].at \in {"copying", "missing"},
             UNCHANGED shared
      PROVE  IInv'
  <2>1. /\ \A q \in Process \ {Fsm} : proc'[q] = proc[q]
        /\ proc'[Fsm] = idleProc
    BY <1>4, <1>t, Zenon
  <2>2. idleProc \in ProcState(Len(heap)) /\ idleProc.at = "idle"
    BY <1>t DEF idleProc, ProcState, At
  <2>3. proc' \in [Process -> ProcState(Len(heap))]
    BY <1>4, <1>t, <2>2
  <2> QED
    BY <1>4, <1>t, <1>h, <2>1, <2>2, <2>3, Moves DEF shared
<1> QED
  BY <1>1, <1>2, <1>3, <1>4
     DEF copied, copying, CreateSession, shared

\* hydrateRecoveredSession keeps the invariant: who becomes the reader finds
\* nothing registered and no other reader.
LEMMA HydrateInv ==
    ASSUME IInv, NEW p \in Process, hydrateRecoveredSession(p)
    PROVE  IInv'
<1> USE RegistryAssumption
<1>t. /\ proc \in [Process -> ProcState(Len(heap))]
      /\ proc[p] \in ProcState(Len(heap))
      /\ sessions \in 0..Len(heap)
      /\ Len(heap) \in Nat
      /\ store \in (SUBSET Op) \cup {None} /\ budget \in Budget
  BY DEF IInv, TypeOK, ProcState, Budget
<1>n. p # None
  BY DEF Process
<1>h. /\ hydrating # p
      /\ p \in Leaver => proc[p].op \in {Leave, Final}
      /\ p \notin Reader => proc[p].op \in Op
  BY <1>n DEF IInv, TypeOK, ReaderMarked, HoldsEntry, hydrateRecoveredSession
<1>1. CASE UNCHANGED hydrating
  <2>1. \/ proc' = [proc EXCEPT ![p].at = "hydrated", ![p].entry = sessions]
        \/ \E at \in {"wait", "missing"} : proc' = [proc EXCEPT ![p].at = at]
    BY <1>1, <1>h DEF hydrateRecoveredSession, takes, goes
  <2>2. PICK r \in ProcState(Len(heap)) :
          /\ proc' = [proc EXCEPT ![p] = r]
          /\ r.at \in {"hydrated", "wait", "missing"} /\ r.op = proc[p].op
    <3>1. CASE proc' = [proc EXCEPT ![p].at = "hydrated", ![p].entry = sessions]
      <4> DEFINE r == [proc[p] EXCEPT !.at = "hydrated", !.entry = sessions]
      <4>1. r \in ProcState(Len(heap)) /\ r.at = "hydrated" /\ r.op = proc[p].op
        BY <1>t DEF ProcState, At
      <4>2. proc' = [proc EXCEPT ![p] = r]
        BY <3>1, Zenon
      <4> HIDE DEF r
      <4> QED
        BY <4>1, <4>2
    <3>2. ASSUME NEW at \in {"wait", "missing"},
                 proc' = [proc EXCEPT ![p].at = at]
          PROVE  \E r \in ProcState(Len(heap)) :
                    /\ proc' = [proc EXCEPT ![p] = r]
                    /\ r.at \in {"hydrated", "wait", "missing"}
                    /\ r.op = proc[p].op
      <4> DEFINE r == [proc[p] EXCEPT !.at = at]
      <4>1. r \in ProcState(Len(heap)) /\ r.at = at /\ r.op = proc[p].op
        BY <1>t DEF ProcState, At
      <4>2. proc' = [proc EXCEPT ![p] = r]
        BY <3>2, Zenon
      <4> HIDE DEF r
      <4> QED
        BY <4>1, <4>2
    <3> QED
      BY <2>1, <3>1, <3>2
  <2>3. /\ proc' \in [Process -> ProcState(Len(heap))]
        /\ proc'[p] = r
        /\ \A q \in Process \ {p} : proc'[q] = proc[q]
    BY <1>t, <2>2
  <2> QED
    BY <1>1, <1>t, <1>h, <2>2, <2>3, Moves DEF hydrateRecoveredSession
<1>2. CASE ~UNCHANGED hydrating
  <2>1. /\ sessions = 0 /\ hydrating = None /\ hydrating' = p
        /\ proc' = [proc EXCEPT ![p].at = "reading"]
        /\ UNCHANGED <<heap, sessions, recovered, store, budget, ghost>>
    BY <1>2 DEF hydrateRecoveredSession, goes
  <2>2. /\ proc' \in [Process -> ProcState(Len(heap))]
        /\ proc'[p].at = "reading" /\ proc'[p].op = proc[p].op
        /\ \A q \in Process \ {p} : proc'[q] = proc[q]
    BY <1>t, <2>1 DEF ProcState, At
  <2>3. \A q \in Process : proc[q].at \notin {"reading", "read"}
    BY <2>1 DEF IInv, ReaderMarked, Process
  <2>4. TypeOK'
    BY <1>t, <1>n, <2>1, <2>2 DEF IInv, TypeOK, ProcState, Budget
  <2>5. ReaderMarked'
    BY <2>1, <2>2, <2>3 DEF ReaderMarked
  <2>6. EmptyWhileRead' /\ AppliedKept' /\ ghost' \in Ghost
        /\ (ghost'.raced => ghost'.replaced)
    BY <2>1 DEF IInv, EmptyWhileRead, AppliedKept
  <2>7. HoldsEntry'
    BY <1>h, <2>1, <2>2 DEF IInv, HoldsEntry
  <2>8. EntryCurrent'
    BY <2>1, <2>2 DEF IInv, EntryCurrent
  <2>9. SavesUnderMutex'
    BY <2>1, <2>2 DEF IInv, SavesUnderMutex
  <2> QED
    BY <2>4, <2>5, <2>6, <2>7, <2>8, <2>9 DEF IInv
<1> QED
  BY <1>1, <1>2

\* addHydrated keeps the invariant: outside the race it finds nothing
\* registered, so nobody holds an entry and nothing has been applied.
LEMMA AddHydratedInv ==
    ASSUME IInv, NEW p \in Process, addHydrated(p)
    PROVE  IInv'
<1> USE RegistryAssumption
<1> DEFINE found == proc[p].doc # None
           new == [ops |-> proc[p].doc, mu |-> None]
<1>n. /\ p # None
      /\ proc[p].at = "read" /\ hydrating = p
  BY DEF Process, IInv, ReaderMarked, addHydrated
<1>t. /\ proc \in [Process -> ProcState(Len(heap))]
      /\ proc[p] \in ProcState(Len(heap))
      /\ heap \in Seq(Entries) /\ Len(heap) \in Nat
      /\ sessions \in 0..Len(heap)
      /\ store \in (SUBSET Op) \cup {None} /\ budget \in Budget
  BY DEF IInv, TypeOK, ProcState, Budget, Entries
<1>1. /\ hydrating' = None /\ UNCHANGED <<store, budget, ghost>>
      /\ proc'[p].at \in {"hydrated", "missing"}
      /\ proc'[p].op = proc[p].op
      /\ \A q \in Process \ {p} :
            proc'[q] \in {proc[q], [proc[q] EXCEPT !.at = "waited"]}
      /\ \A q \in Process \ {p} :
            proc'[q].at = proc[q].at \/ (proc[q].at = "wait" /\ proc'[q].at = "waited")
      /\ \A q \in Process \ {p} : proc'[q].op = proc[q].op
      /\ \A q \in Process \ {p} : proc'[q].entry = proc[q].entry
      /\ \A q \in Process \ {p} : proc'[q].doc = proc[q].doc
  BY <1>t DEF addHydrated, woken, ProcState
<1>2. /\ found => /\ heap' = Append(heap, new) /\ sessions' = Len(heap) + 1
                  /\ recovered' = FALSE
      /\ ~found => UNCHANGED <<heap, sessions, recovered>>
  BY DEF addHydrated
<1>3. found => new \in Entries
  BY <1>t DEF ProcState, Entries
<1> HIDE DEF new
<1>4. /\ heap' \in Seq(Entries)
      /\ Len(heap') = IF found THEN Len(heap) + 1 ELSE Len(heap)
      /\ \A i \in 1..Len(heap) : heap'[i] = heap[i]
  BY <1>t, <1>2, <1>3
<1>5. proc' \in [Process -> ProcState(Len(heap'))]
  <2>1. ASSUME NEW q \in Process PROVE proc'[q] \in ProcState(Len(heap'))
    <3>1. CASE q # p
      <4>1. proc[q] \in ProcState(Len(heap'))
        BY <1>t, <1>4 DEF ProcState
      <4> QED
        BY <1>1, <3>1, <4>1 DEF ProcState, At
    <3>2. CASE q = p
      <4>1. proc'[p] = [at |-> IF found THEN "hydrated" ELSE "missing",
                        op |-> proc[p].op, doc |-> None,
                        entry |-> IF found THEN Len(heap) + 1 ELSE 0]
        BY DEF addHydrated
      <4> QED
        BY <1>t, <1>4, <3>2, <4>1 DEF ProcState, At
    <3> QED
      BY <3>1, <3>2
  <2>2. DOMAIN proc' = Process /\ proc' = [q \in Process |-> proc'[q]]
    BY DEF addHydrated
  <2> QED
    BY <2>1, <2>2
<1>6. TypeOK'
  <2>1. sessions' \in 0..Len(heap')
    BY <1>t, <1>2, <1>4
  <2>2. recovered' \in BOOLEAN
    BY <1>2 DEF IInv, TypeOK
  <2> QED
    BY <1>t, <1>1, <1>4, <1>5, <2>1, <2>2
       DEF TypeOK, ProcState, Budget, Entries
<1>7. ReaderMarked'
  BY <1>n, <1>1 DEF IInv, ReaderMarked
<1>8. ~ghost.raced => sessions = 0 /\ ghost.applied = {}
  BY <1>n DEF IInv, EmptyWhileRead, AppliedKept
<1>9. EmptyWhileRead' /\ ghost' \in Ghost /\ (ghost'.raced => ghost'.replaced)
  BY <1>1 DEF IInv, EmptyWhileRead
<1>10. HoldsEntry'
  BY <1>n, <1>1 DEF IInv, HoldsEntry
<1>11. EntryCurrent'
  <2> SUFFICES ASSUME NEW q \in Process,
                      proc'[q].at \in {"has", "saving"},
                      ~ghost'.replaced \/ (q = Fsm /\ ~ghost'.raced)
               PROVE  FALSE
    BY DEF EntryCurrent
  <2>1. q # p /\ proc[q].at \in {"has", "saving"}
    BY <1>1
  <2>2. proc[q].entry = sessions /\ proc[q].entry # 0 /\ ~ghost.raced
    BY <1>1, <2>1 DEF IInv, EntryCurrent, HoldsEntry, Ghost
  <2> QED
    BY <1>8, <2>2
<1>12. SavesUnderMutex'
  <2> SUFFICES ASSUME NEW q \in Process, proc'[q].at = "saving"
               PROVE  /\ heap'[proc'[q].entry].mu = q
                      /\ heap'[proc'[q].entry].ops = proc'[q].doc
    BY DEF SavesUnderMutex
  <2>1. q # p /\ proc[q].at = "saving"
    BY <1>1
  <2>2. proc[q].entry \in 1..Len(heap)
    BY <1>t, <2>1 DEF IInv, HoldsEntry, ProcState
  <2> QED
    BY <1>1, <1>4, <2>1, <2>2, SMTT(30) DEF IInv, SavesUnderMutex
<1>13. AppliedKept'
  <2>1. CASE found
    BY <1>1, <1>8 DEF AppliedKept
  <2>2. CASE ~found
    BY <1>1, <1>2, <2>2 DEF IInv, AppliedKept
  <2> QED
    BY <2>1, <2>2
<1> QED
  BY <1>6, <1>7, <1>9, <1>10, <1>11, <1>12, <1>13 DEF IInv

\* A write keeps the invariant: the mutex of the entry was free, so nobody is
\* saving it, and what the FSM applies goes to the registered entry.
LEMMA WriteInv ==
    ASSUME IInv, NEW p \in Process, write(p)
    PROVE  IInv'
<1> USE RegistryAssumption
<1> DEFINE e == proc[p].entry
           op == proc[p].op
           new == carriedOut(heap[e].ops, op)
<1>a. /\ proc[p].at = "has" /\ p \notin Reader /\ heap[e].mu = None
      /\ heap' = [heap EXCEPT ![e] = [ops |-> new, mu |-> p]]
      /\ proc' = [proc EXCEPT ![p].at = "saving", ![p].doc = new]
      /\ ghost' = IF p = Fsm
                  THEN [ghost EXCEPT !.applied = carriedOut(@, op)] ELSE ghost
      /\ UNCHANGED <<sessions, recovered, hydrating, store, budget>>
  BY DEF write, heldUntilSaved
<1>t. /\ proc \in [Process -> ProcState(Len(heap))]
      /\ proc[p] \in ProcState(Len(heap))
      /\ heap \in Seq(Entries) /\ Len(heap) \in Nat
      /\ sessions \in 0..Len(heap)
      /\ ghost \in Ghost
  BY DEF IInv, TypeOK, ProcState, Entries
<1>b. /\ op \in Op /\ e # 0 /\ p # None
      /\ p \in Leaver => op \in {Leave, Final}
      /\ p # Fsm => p \in Leaver
      /\ hydrating # p
  BY <1>a DEF IInv, TypeOK, HoldsEntry, Process
<1>c. e \in 1..Len(heap) /\ heap[e] \in Entries
  <2>1. e \in 1..Len(heap)
    BY <1>t, <1>b DEF ProcState
  <2> QED
    BY <1>t, <2>1
<1>d. new \in SUBSET Op /\ Deal \in Op
  BY <1>b, <1>c DEF carriedOut, Entries, Op, Deal, Final
<1>e. p # Fsm => heap[e].ops \subseteq new
  <2>1. p # Fsm => op # Deal
    BY <1>b DEF Leave, Final, Deal
  <2> QED
    BY <2>1 DEF carriedOut
<1> HIDE DEF new
<1>1. /\ heap' \in Seq(Entries) /\ Len(heap') = Len(heap)
      /\ heap'[e] = [ops |-> new, mu |-> p]
      /\ \A i \in 1..Len(heap) : i # e => heap'[i] = heap[i]
  <2>1. [ops |-> new, mu |-> p] \in Entries
    BY <1>d DEF Entries
  <2> QED
    BY <1>a, <1>t, <1>c, <2>1
<1>2. /\ proc' \in [Process -> ProcState(Len(heap))]
      /\ proc'[p].at = "saving" /\ proc'[p].doc = new
      /\ proc'[p].entry = e /\ proc'[p].op = op
      /\ \A q \in Process \ {p} : proc'[q] = proc[q]
  <2> DEFINE r == [proc[p] EXCEPT !.at = "saving", !.doc = new]
  <2>1. /\ r \in ProcState(Len(heap)) /\ r.at = "saving" /\ r.doc = new
        /\ r.entry = e /\ r.op = op
    BY <1>t, <1>d DEF ProcState, At
  <2>2. proc' = [proc EXCEPT ![p] = r]
    BY <1>a, Zenon
  <2> HIDE DEF r
  <2> QED
    BY <1>t, <2>1, <2>2
<1>3. /\ ghost' \in Ghost /\ ghost'.raced = ghost.raced
      /\ ghost'.replaced = ghost.replaced
      /\ ghost'.applied = IF p = Fsm THEN carriedOut(ghost.applied, op)
                          ELSE ghost.applied
  BY <1>a, <1>b, <1>d, <1>t DEF Ghost, carriedOut
<1>4. TypeOK'
  <2>1. hydrating' # None => proc'[hydrating'].at \in {"reading", "read"}
    BY <1>a, <1>b, <1>2 DEF IInv, TypeOK
  <2> QED
    BY <1>a, <1>1, <1>2, <2>1 DEF IInv, TypeOK, ProcState, Entries
<1>5. ReaderMarked'
  BY <1>a, <1>2 DEF IInv, ReaderMarked
<1>6. EmptyWhileRead' /\ (ghost'.raced => ghost'.replaced)
  BY <1>a, <1>3 DEF IInv, EmptyWhileRead
<1>7. HoldsEntry'
  BY <1>b, <1>2 DEF IInv, HoldsEntry
<1>8. EntryCurrent'
  BY <1>a, <1>2, <1>3 DEF IInv, EntryCurrent
<1>9. SavesUnderMutex'
  <2> SUFFICES ASSUME NEW q \in Process, proc'[q].at = "saving"
               PROVE  /\ heap'[proc'[q].entry].mu = q
                      /\ heap'[proc'[q].entry].ops = proc'[q].doc
    BY DEF SavesUnderMutex
  <2>1. CASE q = p
    BY <1>1, <1>2, <2>1
  <2>2. CASE q # p
    <3>1. /\ proc'[q] = proc[q] /\ heap[proc[q].entry].mu = q /\ q # None
          /\ heap[proc[q].entry].ops = proc[q].doc
      BY <1>2, <2>2 DEF IInv, SavesUnderMutex, Process
    <3>2. proc[q].entry \in 1..Len(heap)
      BY <1>t, <3>1 DEF IInv, HoldsEntry, ProcState
    <3> QED
      BY <1>a, <1>1, <3>1, <3>2
  <2> QED
    BY <2>1, <2>2
<1>10. AppliedKept'
  <2> SUFFICES ASSUME ~ghost.raced
               PROVE  ghost'.applied \subseteq
                        (IF sessions = 0 THEN {} ELSE heap'[sessions].ops)
    BY <1>a, <1>3 DEF AppliedKept
  <2>1. ghost.applied \subseteq
          (IF sessions = 0 THEN {} ELSE heap[sessions].ops)
    BY DEF IInv, AppliedKept
  <2>2. CASE p = Fsm
    <3>1. e = sessions
      BY <1>a, <2>2 DEF IInv, EntryCurrent
    <3>2. ghost.applied \subseteq heap[e].ops /\ heap'[sessions].ops = new
      BY <1>b, <1>1, <2>1, <3>1
    <3>3. carriedOut(ghost.applied, op) \subseteq new
      BY <3>2 DEF new, carriedOut
    <3> QED
      BY <1>b, <1>3, <2>2, <3>1, <3>2, <3>3
  <2>3. CASE p # Fsm
    <3>1. sessions # 0 => heap[sessions].ops \subseteq heap'[sessions].ops
      <4>1. CASE sessions = e
        BY <1>e, <1>1, <2>3, <4>1
      <4>2. CASE sessions # e
        BY <1>t, <1>1, <4>2
      <4> QED
        BY <4>1, <4>2
    <3> QED
      BY <1>3, <2>1, <2>3, <3>1
  <2> QED
    BY <2>2, <2>3
<1> QED
  BY <1>3, <1>4, <1>5, <1>6, <1>7, <1>8, <1>9, <1>10 DEF IInv

\* The end of a save keeps the invariant: only the holder of the mutex frees
\* it, so nobody else is saving the entry.
LEMMA PersistInv ==
    ASSUME IInv, NEW p \in Process, persistState(p)
    PROVE  IInv'
<1> USE RegistryAssumption
<1> DEFINE e == proc[p].entry
<1>t. /\ proc \in [Process -> ProcState(Len(heap))]
      /\ proc[p] \in ProcState(Len(heap))
      /\ heap \in Seq(Entries) /\ Len(heap) \in Nat
      /\ sessions \in 0..Len(heap)
      /\ store \in (SUBSET Op) \cup {None} /\ budget \in Budget
      /\ Final \in Op
  BY DEF IInv, TypeOK, ProcState, Entries, Budget, Op, Final
<1>a. /\ proc[p].at = "saving"
      /\ heap' = [heap EXCEPT ![e].mu = None]
      /\ \E saved \in BOOLEAN : proc' = [proc EXCEPT ![p] = afterSave(p, saved)]
      /\ UNCHANGED <<sessions, recovered, hydrating, ghost>>
  BY Zenon DEF persistState
<1>b. e # 0 /\ hydrating # p /\ heap[e].mu = p
  BY <1>a DEF IInv, TypeOK, HoldsEntry, SavesUnderMutex, Process
<1>c. e \in 1..Len(heap) /\ heap[e] \in Entries
  <2>1. e \in 1..Len(heap)
    BY <1>t, <1>b DEF ProcState
  <2> QED
    BY <1>t, <2>1
<1>1. /\ heap' \in Seq(Entries) /\ Len(heap') = Len(heap)
      /\ \A i \in 1..Len(heap) : heap'[i].ops = heap[i].ops
      /\ \A i \in 1..Len(heap) : i # e => heap'[i] = heap[i]
  <2> DEFINE r == [heap[e] EXCEPT !.mu = None]
  <2>1. r \in Entries /\ r.ops = heap[e].ops
    BY <1>c DEF Entries
  <2>2. heap' = [heap EXCEPT ![e] = r]
    BY <1>a, Zenon
  <2> HIDE DEF r
  <2> QED
    BY <1>t, <1>c, <2>1, <2>2
<1>2. /\ store' \in (SUBSET Op) \cup {None}
      /\ budget' \in Budget
  <2>1. CASE store' = proc[p].doc /\ UNCHANGED budget
    BY <1>t, <2>1 DEF ProcState
  <2>2. CASE /\ budget.fault > 0 /\ budget' = [budget EXCEPT !.fault = @ - 1]
             /\ UNCHANGED store
    BY <1>t, <2>2, SMTT(30) DEF Budget
  <2> QED
    BY <2>1, <2>2 DEF persistState
<1>3. PICK saved \in BOOLEAN : proc' = [proc EXCEPT ![p] = afterSave(p, saved)]
  BY <1>a
<1>4. PICK r \in ProcState(Len(heap)) :
        /\ r = afterSave(p, saved)
        /\ \/ r.at \in {"idle", "done"}
           \/ r.at = "lookup" /\ r.op = Final
  <2>1. \/ afterSave(p, saved) = idleProc
        \/ afterSave(p, saved) = [idleProc EXCEPT !.at = "lookup", !.op = Final]
        \/ afterSave(p, saved) = [idleProc EXCEPT !.at = "done"]
    BY DEF afterSave
  <2>2. \A r \in {idleProc, [idleProc EXCEPT !.at = "done"]} :
          r \in ProcState(Len(heap)) /\ r.at \in {"idle", "done"}
    BY <1>t DEF idleProc, ProcState, At
  <2>3. ASSUME NEW r, r = [idleProc EXCEPT !.at = "lookup", !.op = Final]
        PROVE  r \in ProcState(Len(heap)) /\ r.at = "lookup" /\ r.op = Final
    <3>1. r = [at |-> "lookup", op |-> Final, entry |-> 0, doc |-> None]
      BY <2>3 DEF idleProc
    <3>2. 0 \in 0..Len(heap) /\ Final \in Op
      BY <1>t
    <3> QED
      BY <3>1, <3>2 DEF ProcState, At
  <2> QED
    BY <2>1, <2>2, <2>3
<1>5. /\ proc' \in [Process -> ProcState(Len(heap))]
      /\ proc'[p] = r
      /\ \A q \in Process \ {p} : proc'[q] = proc[q]
  BY <1>t, <1>3, <1>4
<1>6. TypeOK'
  <2>1. hydrating' # None => proc'[hydrating'].at \in {"reading", "read"}
    BY <1>a, <1>b, <1>5 DEF IInv, TypeOK
  <2> QED
    BY <1>a, <1>1, <1>2, <1>5, <2>1
       DEF IInv, TypeOK, ProcState, Entries, Budget
<1>7. ReaderMarked'
  BY <1>a, <1>4, <1>5 DEF IInv, ReaderMarked
<1>8. EmptyWhileRead' /\ (ghost'.raced => ghost'.replaced) /\ ghost' \in Ghost
  BY <1>a DEF IInv, EmptyWhileRead
<1>9. HoldsEntry'
  BY <1>t, <1>4, <1>5 DEF IInv, HoldsEntry
<1>10. EntryCurrent'
  BY <1>a, <1>4, <1>5 DEF IInv, EntryCurrent
<1>11. SavesUnderMutex'
  <2> SUFFICES ASSUME NEW q \in Process, proc'[q].at = "saving"
               PROVE  /\ heap'[proc'[q].entry].mu = q
                      /\ heap'[proc'[q].entry].ops = proc'[q].doc
    BY DEF SavesUnderMutex
  <2>1. q # p /\ proc'[q] = proc[q]
    BY <1>4, <1>5
  <2>2. /\ heap[proc[q].entry].mu = q
        /\ heap[proc[q].entry].ops = proc[q].doc
        /\ proc[q].entry # 0
    BY <2>1 DEF IInv, SavesUnderMutex, HoldsEntry
  <2>3. proc[q].entry \in 1..Len(heap) /\ proc[q].entry # e
    BY <1>t, <1>b, <2>1, <2>2 DEF ProcState
  <2> QED
    BY <1>1, <2>1, <2>2, <2>3
<1>12. AppliedKept'
  BY <1>t, <1>a, <1>1 DEF IInv, AppliedKept
<1> QED
  BY <1>6, <1>7, <1>8, <1>9, <1>10, <1>11, <1>12 DEF IInv

\* A new entry that the FSM registers, by CreateSession or RestoreSessions,
\* or the empty registry of a restore.  Whoever holds an entry keeps it.
LEMMA Registers ==
    ASSUME IInv, NEW new \in Entries, NEW at \in {"idle", "lookup"},
           proc[Fsm].at \in {"idle", "missing"},
           at = "lookup" => proc[Fsm].op \in Op,
           UNCHANGED <<hydrating, store>>,
           recovered' = FALSE, budget' \in Budget,
           \/ heap' = Append(heap, new) /\ sessions' = Len(heap) + 1
           \/ UNCHANGED heap /\ sessions' = 0,
           proc' = [proc EXCEPT ![Fsm].at = at],
           ghost' \in Ghost,
           ghost'.raced = (ghost.raced \/ hydrating # None),
           ghost'.replaced \/ (sessions = 0 /\ ~ghost.replaced),
           ghost'.raced => ghost'.replaced,
           ghost'.applied \subseteq (IF sessions' = 0 THEN {} ELSE new.ops)
             \/ ghost'.raced
    PROVE  IInv'
<1> USE RegistryAssumption
<1>t. /\ proc \in [Process -> ProcState(Len(heap))]
      /\ heap \in Seq(Entries) /\ Len(heap) \in Nat
      /\ sessions \in 0..Len(heap) /\ Fsm \in Process
      /\ Fsm \notin Leaver /\ hydrating # Fsm
  BY SMTT(30) DEF IInv, TypeOK, ProcState, Entries, Process
<1>1. /\ heap' \in Seq(Entries) /\ Len(heap') \in Nat /\ Len(heap) <= Len(heap')
      /\ sessions' \in 0..Len(heap')
      /\ \A i \in 1..Len(heap) : heap'[i] = heap[i]
      /\ sessions' # 0 => heap'[sessions'] = new
  <2>1. CASE heap' = Append(heap, new) /\ sessions' = Len(heap) + 1
    <3>1. /\ heap' \in Seq(Entries) /\ Len(heap') = Len(heap) + 1
          /\ \A i \in 1..Len(heap) : heap'[i] = heap[i]
          /\ heap'[Len(heap) + 1] = new
      BY <1>t, <2>1
    <3> QED
      BY <1>t, <2>1, <3>1
  <2>2. CASE UNCHANGED heap /\ sessions' = 0
    BY <1>t, <2>2
  <2> QED
    BY <2>1, <2>2
<1>2. /\ proc' \in [Process -> ProcState(Len(heap))]
      /\ proc'[Fsm].at = at /\ proc'[Fsm].op = proc[Fsm].op
      /\ \A q \in Process \ {Fsm} : proc'[q] = proc[q]
  BY <1>t, SMTT(30) DEF ProcState, At
<1>3. TypeOK'
  <2>3. 0..Len(heap) \subseteq 0..Len(heap')
    BY <1>1, <1>t
  <2>4. ProcState(Len(heap)) \subseteq ProcState(Len(heap'))
    BY <2>3 DEF ProcState
  <2>1. proc' \in [Process -> ProcState(Len(heap'))]
    BY <1>2, <2>4
  <2>2. hydrating' # None => proc'[hydrating'].at \in {"reading", "read"}
    BY <1>t, <1>2 DEF IInv, TypeOK
  <2> QED
    BY <1>1, <2>1, <2>2 DEF IInv, TypeOK, ProcState, Entries, Budget
<1>4. ReaderMarked'
  BY <1>2 DEF IInv, ReaderMarked
<1>5. EmptyWhileRead'
  BY DEF EmptyWhileRead
<1>6. HoldsEntry'
  BY <1>t, <1>2 DEF IInv, HoldsEntry
<1>7. EntryCurrent'
  <2> SUFFICES ASSUME NEW q \in Process,
                      proc'[q].at \in {"has", "saving"},
                      ~ghost'.replaced \/ (q = Fsm /\ ~ghost'.raced)
               PROVE  FALSE
    BY DEF EntryCurrent
  <2>1. q # Fsm /\ proc[q].at \in {"has", "saving"}
    BY <1>2
  <2>2. proc[q].entry = 0
    BY <2>1 DEF IInv, EntryCurrent
  <2> QED
    BY <2>1, <2>2 DEF IInv, HoldsEntry
<1>8. SavesUnderMutex'
  <2> SUFFICES ASSUME NEW q \in Process, proc'[q].at = "saving"
               PROVE  /\ heap'[proc'[q].entry].mu = q
                      /\ heap'[proc'[q].entry].ops = proc'[q].doc
    BY DEF SavesUnderMutex
  <2>1. q # Fsm /\ proc'[q] = proc[q]
    BY <1>2
  <2>2. proc[q].entry \in 1..Len(heap)
    BY <1>t, <2>1 DEF IInv, HoldsEntry, ProcState
  <2> QED
    BY <1>1, <2>1, <2>2 DEF IInv, SavesUnderMutex
<1>9. AppliedKept'
  BY <1>1 DEF AppliedKept
<1> QED
  BY <1>3, <1>4, <1>5, <1>6, <1>7, <1>8, <1>9 DEF IInv

LEMMA CreateInv ==
    ASSUME IInv, CreateSession, sessions = 0
    PROVE  IInv'
<1> USE RegistryAssumption
<1>t. /\ Fsm \in Process /\ budget \in Budget /\ ghost \in Ghost
      /\ proc[Fsm].at = "missing" /\ Fsm \notin Reader
      /\ proc[Fsm].op \in Op
  BY DEF IInv, TypeOK, Budget, Process, CreateSession, HoldsEntry
<1>1. [ops |-> {}, mu |-> None] \in Entries
  BY DEF Entries
<1>2. /\ heap' = Append(heap, [ops |-> {}, mu |-> None])
      /\ sessions' = Len(heap) + 1 /\ recovered' = FALSE
      /\ proc' = [proc EXCEPT ![Fsm].at = "lookup"]
      /\ UNCHANGED <<hydrating, store, budget>>
      /\ ghost' = [ghost EXCEPT !.raced = @ \/ hydrating # None,
                                !.replaced = @ \/ hydrating # None]
  BY DEF CreateSession, goes
<1>3. /\ ghost' \in Ghost
      /\ ghost'.raced = (ghost.raced \/ hydrating # None)
      /\ ghost'.replaced = (ghost.replaced \/ hydrating # None)
      /\ ghost'.applied = ghost.applied
  BY <1>2, <1>t, Zenon DEF Ghost
<1>4. /\ ghost.raced => ghost.replaced
      /\ ~ghost.raced => ghost.applied = {}
  BY DEF IInv, AppliedKept
<1>5. ghost'.applied \subseteq (IF sessions' = 0 THEN {} ELSE {}) \/ ghost'.raced
  BY <1>3, <1>4, <1>t DEF Ghost
<1>6. /\ ghost'.raced => ghost'.replaced
      /\ ghost'.replaced \/ (sessions = 0 /\ ~ghost.replaced)
  BY <1>3, <1>4, <1>t DEF Ghost
<1> QED
  BY <1>t, <1>1, <1>2, <1>3, <1>5, <1>6, Registers

LEMMA RestoreInv ==
    ASSUME IInv, NEW has \in BOOLEAN, NEW k \in 0..MaxTurn,
           RestoreSessions(has, k)
    PROVE  IInv'
<1> USE RegistryAssumption
<1> DEFINE new == [ops |-> Played(k), mu |-> None]
<1>t. /\ Fsm \in Process /\ budget \in Budget /\ ghost \in Ghost
      /\ proc[Fsm].at = "idle" /\ proc \in [Process -> ProcState(Len(heap))]
  BY DEF IInv, TypeOK, Budget, Process, RestoreSessions, ProcState
<1>1. Played(k) \in SUBSET Op /\ new \in Entries
  BY DEF Entries, Played, Deal, Op, Final
<1>2. /\ \/ has /\ heap' = Append(heap, new) /\ sessions' = Len(heap) + 1
         \/ ~has /\ UNCHANGED heap /\ sessions' = 0
      /\ recovered' = FALSE
      /\ UNCHANGED <<hydrating, store, proc>>
      /\ ghost' = [applied |-> IF has THEN Played(k) ELSE {},
                   raced |-> ghost.raced \/ hydrating # None,
                   replaced |-> TRUE]
  BY DEF RestoreSessions
<1>3. budget' \in Budget
  <2>1. /\ budget' = [budget EXCEPT !.restore = @ - 1, !.turn = k]
        /\ budget.restore > 0
    BY DEF RestoreSessions
  <2>2. budget.restore - 1 \in 0..MaxRestore
    BY <1>t, <2>1 DEF Budget
  <2> HIDE DEF new
  <2> QED
    BY <1>t, <2>1, <2>2 DEF Budget
<1>4. /\ ghost' \in Ghost
      /\ ghost'.raced = (ghost.raced \/ hydrating # None)
      /\ ghost'.replaced = TRUE
      /\ ghost'.applied = IF has THEN Played(k) ELSE {}
  BY <1>1, <1>2, <1>t, Zenon DEF Ghost
<1>5. proc' = [proc EXCEPT ![Fsm].at = "idle"]
  BY <1>t, <1>2 DEF ProcState
<1>6. new.ops = Played(k)
  OBVIOUS
<1> HIDE DEF new
<1>7. ghost'.applied \subseteq (IF sessions' = 0 THEN {} ELSE new.ops)
  BY <1>2, <1>4, <1>6
<1> QED
  BY <1>t, <1>1, <1>2, <1>3, <1>4, <1>5, <1>7, Registers

LEMMA StepInv == IInv /\ [Next]_vars => IInv'
<1> SUFFICES ASSUME IInv, [Next]_vars PROVE IInv'
  OBVIOUS
<1>1. CASE Arrive
  <2>1. ASSUME NEW p \in Reader, GetSession(p) PROVE IInv'
    BY <2>1, StepMoves DEF Process
  <2>2. ASSUME NEW p \in Leaver, HandlePlayerAbandoned(p) PROVE IInv'
    BY <2>2, StepMoves DEF Process
  <2> QED
    BY <1>1, <2>1, <2>2, FsmMoves, RestoreInv DEF Arrive
<1>2. CASE FsmStep
  BY <1>2, FsmMoves, CreateInv DEF FsmStep
<1>3. ASSUME NEW p \in Process, step(p) PROVE IInv'
  BY <1>3, StepMoves, HydrateInv, AddHydratedInv, WriteInv, PersistInv DEF step
<1>4. CASE UNCHANGED vars
  BY <1>4 DEF vars, shared, IInv, TypeOK, ReaderMarked, EmptyWhileRead,
              HoldsEntry, EntryCurrent, SavesUnderMutex, AppliedKept
<1> QED
  BY <1>1, <1>2, <1>3, <1>4 DEF Next

\* The inductive invariant holds in every reachable state.
THEOREM RegistryInvariant == Spec => []IInv
<1>1. Init => IInv
  BY InitInv
<1>2. IInv /\ [Next]_vars => IInv'
  BY StepInv
<1> QED
  BY <1>1, <1>2, PTL DEF Spec

\* Nothing that the FSM has carried out disappears from the registered
\* session outside the race of a hydration with a creation or a restore
\* (addSessionLocked), for any number of goroutines, commands and faults.
THEOREM AppliedStays == Spec => []AppliedKept
<1>1. IInv => AppliedKept
  BY DEF IInv
<1> QED
  BY <1>1, RegistryInvariant, PTL

\* One read of the repository at a time: the marker in the map of hydrations
\* names the only goroutine that reads (hydrateRecoveredSession).
THEOREM ReadsShared == Spec => []OneRead
<1>1. IInv => OneRead
  <2> SUFFICES ASSUME IInv PROVE OneRead
    OBVIOUS
  <2> DEFINE R == {p \in Process : proc[p].at = "reading"}
  <2>1. R \subseteq {hydrating}
    BY DEF IInv, ReaderMarked
  <2>2. IsFiniteSet({hydrating}) /\ Cardinality({hydrating}) = 1
    BY FS_Singleton
  <2>3. Cardinality(R) <= Cardinality({hydrating})
    BY <2>1, <2>2, FS_Subset
  <2> QED
    BY <2>2, <2>3 DEF OneRead
<1> QED
  BY <1>1, RegistryInvariant, PTL

\* A save writes what the registered session is, as long as no entry in use
\* was replaced: the mutex of the session covers change and save
\* (withSessionWrite), for any number of writers.
THEOREM SavesStayCurrent == Spec => SavesCurrent
<1>1. IInv /\ [Next]_vars =>
        ((~ghost.replaced /\ store' # store)
          => sessions # 0 /\ store' = heap[sessions].ops)
  <2> SUFFICES ASSUME IInv, [Next]_vars, ~ghost.replaced, store' # store
               PROVE  sessions # 0 /\ store' = heap[sessions].ops
    OBVIOUS
  <2>1. PICK p \in Process : persistState(p)
    <3>1. ASSUME NEW p \in Process, step(p) PROVE persistState(p)
      BY <3>1 DEF step, shared, lookupSession, hydrateRecoveredSession,
         readStore, addHydrated, afterWait, lookAgain, answer, write, skip,
         notFound
    <3>2. ~Arrive
      BY DEF Arrive, GetSession, HandlePlayerAbandoned, shared,
         ApplyReplicatedStartMatch, ApplyReplicatedTurn, SnapshotSessions,
         RestoreSessions
    <3>3. ~FsmStep
      BY DEF FsmStep, CreateSession, copied, shared
    <3>4. ~UNCHANGED vars
      BY DEF vars, shared
    <3> QED
      BY <3>1, <3>2, <3>3, <3>4 DEF Next
  <2>2. proc[p].at = "saving" /\ store' = proc[p].doc
    BY <2>1 DEF persistState
  <2>3. /\ proc[p].entry = sessions /\ proc[p].entry # 0
        /\ heap[proc[p].entry].ops = proc[p].doc
    BY <2>2 DEF IInv, EntryCurrent, HoldsEntry, SavesUnderMutex
  <2> QED
    BY <2>2, <2>3
<1> QED
  BY <1>1, RegistryInvariant, PTL DEF Spec, SavesCurrent
=============================================================================
