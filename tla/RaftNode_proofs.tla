--------------------------- MODULE RaftNode_proofs ---------------------------
(***************************************************************************)
(* Proofs about RaftNode.  Those of the first part hold for every set of   *)
(* nodes and commands, every compaction threshold and every bound.  That   *)
(* compaction stays in range holds unless a process recovers a log from    *)
(* storage; that there is one leader per term and one history holds for    *)
(* two nodes that stay up, however calls are lost, delayed and reordered.  *)
(***************************************************************************)
EXTENDS RaftNode, SequenceTheorems, FiniteSetTheorems, WellFoundedInduction, TLAPS

-----------------------------------------------------------------------------
(* Lemmas about the functions of a replica.                                *)

\* A replica whose FSM and snapshot hold one command per index they cover.
WellFormed(r) ==
    /\ r \in Replica
    /\ r.snapshotIndex <= r.lastApplied
    /\ Len(r.fsm) = r.lastApplied
    /\ Len(r.snapshot) = r.snapshotIndex

\* No term in the replica exceeds t.
TermsUpTo(r, t) ==
    /\ r.snapshotTerm <= t
    /\ \A k \in 1..Len(r.log) : r.log[k].term <= t

\* s keeps the log of r, of which it may have compacted a prefix.
SameTail(r, s) ==
    /\ lastLogIndex(s) = lastLogIndex(r)
    /\ r.snapshotIndex <= s.snapshotIndex
    /\ \A i \in (s.snapshotIndex + 1)..lastLogIndex(r) :
           s.log[i - s.snapshotIndex] = r.log[i - r.snapshotIndex]

\* The apply loop of applyCommittedLocked feeds the FSM one command per index
\* and touches neither the log nor the snapshot.
LEMMA ApplyCommittedKeeps ==
    ASSUME NEW r, WellFormed(r)
    PROVE  LET s == applyCommitted(r) IN
           /\ WellFormed(s)
           /\ s.log = r.log
           /\ s.snapshotIndex = r.snapshotIndex
           /\ s.snapshotTerm = r.snapshotTerm
           /\ s.commitIndex = r.commitIndex
<1> DEFINE upTo == applicable(r)
           cmdAt(i) == r.log[i - r.snapshotIndex].cmd
           fed == [k \in 1..(upTo - r.lastApplied) |-> cmdAt(r.lastApplied + k)]
           results == [i \in Index |->
                          IF r.lastApplied < i /\ i <= upTo THEN cmdAt(i)
                                                            ELSE r.applyResults[i]]
<1>1. /\ r \in Replica /\ r.log \in Seq(Entry) /\ r.fsm \in Seq(Command)
      /\ r.snapshotIndex \in Nat /\ r.lastApplied \in Nat /\ r.commitIndex \in Nat
      /\ r.snapshotIndex <= r.lastApplied /\ Len(r.fsm) = r.lastApplied
      /\ r.applyResults \in [Index -> Command \cup {Nil}]
      /\ Len(r.log) \in Nat
  BY DEF WellFormed, Replica
<1>2. /\ upTo \in Nat /\ upTo >= r.lastApplied
      /\ upTo > r.lastApplied => upTo <= r.snapshotIndex + Len(r.log)
  BY <1>1 DEF applicable, Greater, Lesser, lastLogIndex
<1>3. \A i \in (r.lastApplied + 1)..upTo : cmdAt(i) \in Command
  <2> TAKE i \in (r.lastApplied + 1)..upTo
  <2>1. i - r.snapshotIndex \in 1..Len(r.log)
    BY <1>1, <1>2
  <2>2. r.log[i - r.snapshotIndex] \in Entry
    BY <1>1, <2>1, ElementOfSeq
  <2> QED BY <2>2 DEF Entry
<1>4. fed \in Seq(Command) /\ Len(fed) = upTo - r.lastApplied
  <2> DEFINE len == upTo - r.lastApplied
             e(k) == cmdAt(r.lastApplied + k)
  <2>1. len \in Nat
    BY <1>1, <1>2
  <2>2. \A k \in 1..len : r.lastApplied + k \in (r.lastApplied + 1)..upTo
    BY <1>1, <1>2
  <2>3. \A k \in 1..len : e(k) \in Command
    BY <2>2, <1>3
  <2>4. fed = [k \in 1..len |-> e(k)]
    OBVIOUS
  <2> HIDE DEF len, e, fed, upTo
  <2>5. fed \in Seq(Command)
    BY <2>1, <2>3, <2>4, IsASeq
  <2>6. Len(fed) = len
    BY <2>1, <2>4, <2>5, LenProperties
  <2> QED BY <2>5, <2>6 DEF len
<1>5. /\ r.fsm \o fed \in Seq(Command)
      /\ Len(r.fsm \o fed) = upTo
  <2> HIDE DEF fed, upTo
  <2>1. /\ r.fsm \o fed \in Seq(Command)
        /\ Len(r.fsm \o fed) = Len(r.fsm) + Len(fed)
    BY <1>1, <1>4, ConcatProperties
  <2> QED BY <1>1, <1>2, <1>4, <2>1
<1>6. results \in [Index -> Command \cup {Nil}]
  <2> DEFINE e(i) == IF r.lastApplied < i /\ i <= upTo THEN cmdAt(i)
                                                       ELSE r.applyResults[i]
  <2> SUFFICES ASSUME NEW i \in Index
               PROVE  e(i) \in Command \cup {Nil}
    OBVIOUS
  <2> HIDE DEF upTo, cmdAt
  <2>1. CASE r.lastApplied < i /\ i <= upTo
    <3>1. i \in (r.lastApplied + 1)..upTo
      BY <1>1, <1>2, <2>1 DEF Index
    <3> QED BY <1>3, <2>1, <3>1
  <2>2. CASE ~(r.lastApplied < i /\ i <= upTo)
    BY <1>1, <2>2
  <2> QED BY <2>1, <2>2
<1>7. applyCommitted(r) = [r EXCEPT !.lastApplied = upTo,
                                    !.fsm = r.fsm \o fed,
                                    !.applyResults = results]
  BY DEF applyCommitted
<1> DEFINE s == applyCommitted(r)
           newFsm == r.fsm \o fed
<1> HIDE DEF upTo, fed, results, newFsm
<1>8. /\ s \in Replica
      /\ s.lastApplied = upTo /\ s.fsm = newFsm
      /\ s.log = r.log /\ s.snapshotIndex = r.snapshotIndex
      /\ s.snapshotTerm = r.snapshotTerm /\ s.commitIndex = r.commitIndex
      /\ s.snapshot = r.snapshot
  BY <1>1, <1>2, <1>5, <1>6, <1>7 DEF Replica, newFsm
<1> QED BY <1>1, <1>2, <1>5, <1>8 DEF WellFormed, newFsm

\* The fields of a well-formed replica and the entries of its log.
LEMMA ReplicaFields ==
    ASSUME NEW r, WellFormed(r)
    PROVE  /\ r \in Replica
           /\ r.log \in Seq(Entry) /\ Len(r.log) \in Nat
           /\ r.snapshotIndex \in Nat /\ r.snapshotTerm \in Nat
           /\ r.snapshot \in Seq(Command) /\ r.commitIndex \in Nat
           /\ r.lastApplied \in Nat /\ r.fsm \in Seq(Command)
           /\ r.applyResults \in [Index -> Command \cup {Nil}]
           /\ r.snapshotIndex <= r.lastApplied
           /\ Len(r.fsm) = r.lastApplied /\ Len(r.snapshot) = r.snapshotIndex
           /\ lastLogIndex(r) \in Nat
           /\ lastLogIndex(r) = r.snapshotIndex + Len(r.log)
           /\ \A k \in 1..Len(r.log) : r.log[k] \in Entry /\ r.log[k].term \in Nat
<1>1. \A k \in 1..Len(r.log) : r.log[k] \in Entry
  BY ElementOfSeq DEF WellFormed, Replica
<1> QED BY <1>1 DEF WellFormed, Replica, lastLogIndex, Entry

\* termAt reads a term of the replica for every index between the sentinel
\* and the end of the log.
LEMMA TermAtInLog ==
    ASSUME NEW r, WellFormed(r),
           NEW i \in r.snapshotIndex..lastLogIndex(r)
    PROVE  /\ termAt(r, i) \in Nat
           /\ \A t \in Nat : TermsUpTo(r, t) => termAt(r, i) <= t
<1>1. CASE i = r.snapshotIndex
  BY <1>1, ReplicaFields DEF termAt, TermsUpTo
<1>2. CASE i # r.snapshotIndex
  <2>1. i - r.snapshotIndex \in 1..Len(r.log)
    BY <1>2, ReplicaFields
  <2> QED BY <1>2, <2>1, ReplicaFields DEF termAt, TermsUpTo
<1> QED BY <1>1, <1>2

\* The tail of the log after an index that is not below the sentinel.
LEMMA TailAfterEntries ==
    ASSUME NEW r, WellFormed(r), NEW i \in Nat, i >= r.snapshotIndex
    PROVE  LET t == tailAfter(r, i) IN
           /\ t \in Seq(Entry)
           /\ Len(t) = IF i <= lastLogIndex(r) THEN lastLogIndex(r) - i ELSE 0
           /\ \A k \in 1..Len(t) : /\ i + k - r.snapshotIndex \in 1..Len(r.log)
                                   /\ t[k] = r.log[i + k - r.snapshotIndex]
<1> DEFINE si == r.snapshotIndex
           n == Len(r.log)
           m == i - si + 1
           t == tailAfter(r, i)
<1>1. /\ si \in Nat /\ n \in Nat /\ i \in Nat /\ i >= si
      /\ lastLogIndex(r) = si + n
      /\ \A k \in 1..n : r.log[k] \in Entry
  BY ReplicaFields
<1>2. t = SubSeq(r.log, m, n)
  BY DEF tailAfter
<1> SUFFICES /\ t \in Seq(Entry)
             /\ Len(t) = IF i <= si + n THEN si + n - i ELSE 0
             /\ \A k \in 1..Len(t) : i + k - si \in 1..n /\ t[k] = r.log[i + k - si]
  BY <1>1
<1> HIDE DEF si, n, t
<1>3. m \in Nat /\ \A k \in m..n : k \in 1..n
  BY <1>1
<1>4. /\ t \in Seq(Entry)
      /\ Len(t) = IF m <= n THEN n - m + 1 ELSE 0
      /\ \A k \in 1..(n - m + 1) : t[k] = r.log[m + k - 1]
  <2> HIDE DEF m
  <2> QED BY <1>1, <1>2, <1>3, SubSeqProperties
<1>5. Len(t) = IF i <= si + n THEN si + n - i ELSE 0
  BY <1>1, <1>4
<1>6. ASSUME NEW k \in 1..Len(t)
      PROVE  i + k - si \in 1..n /\ t[k] = r.log[i + k - si]
  <2>1. k \in 1..(n - m + 1) /\ m + k - 1 = i + k - si /\ i + k - si \in 1..n
    BY <1>1, <1>5
  <2> QED BY <1>4, <2>1
<1> QED BY <1>4, <1>5, <1>6

\* Compaction keeps the end of the log where it is and every entry after the
\* snapshot.
LEMMA MaybeCompactKeeps ==
    ASSUME NEW r, WellFormed(r)
    PROVE  LET s == maybeCompact(r) IN
           /\ WellFormed(s)
           /\ SameTail(r, s)
           /\ \A t \in Nat : TermsUpTo(r, t) => TermsUpTo(s, t)
<1> DEFINE s == maybeCompact(r)
           tail == tailAfter(r, r.lastApplied)
           term == termAt(r, r.lastApplied)
<1>1. CASE ~compactionDue(r) \/ compactionPanics(r)
  <2>1. s = r
    BY <1>1 DEF maybeCompact
  <2> QED BY <2>1, ReplicaFields DEF SameTail
<1>2. CASE compactionDue(r) /\ ~compactionPanics(r)
  <2>1. /\ r.lastApplied > r.snapshotIndex
        /\ r.lastApplied <= lastLogIndex(r)
    BY <1>2, ReplicaFields DEF compactionDue, compactionPanics
  <2>2. s = [r EXCEPT !.snapshotIndex = r.lastApplied, !.snapshotTerm = term,
                      !.snapshot = r.fsm, !.log = tail]
    BY <1>2 DEF maybeCompact
  <2>3. /\ term \in Nat
        /\ \A t \in Nat : TermsUpTo(r, t) => term <= t
    BY <2>1, ReplicaFields, TermAtInLog
  <2>4. /\ tail \in Seq(Entry)
        /\ Len(tail) = lastLogIndex(r) - r.lastApplied
        /\ \A k \in 1..Len(tail) :
               /\ r.lastApplied + k - r.snapshotIndex \in 1..Len(r.log)
               /\ tail[k] = r.log[r.lastApplied + k - r.snapshotIndex]
    BY <2>1, ReplicaFields, TailAfterEntries
  <2> HIDE DEF tail, term
  <2>f. /\ r \in Replica /\ r.lastApplied \in Nat /\ r.fsm \in Seq(Command)
        /\ r.snapshotIndex \in Nat /\ lastLogIndex(r) \in Nat
    BY ReplicaFields
  <2>5. /\ s \in Replica
        /\ s.log = tail /\ s.snapshotIndex = r.lastApplied
        /\ s.snapshotTerm = term /\ s.snapshot = r.fsm
        /\ s.lastApplied = r.lastApplied /\ s.fsm = r.fsm
    BY <2>2, <2>3, <2>4, <2>f DEF Replica
  <2> HIDE DEF s
  <2>6. WellFormed(s)
    BY <2>5, ReplicaFields DEF WellFormed
  <2>7. SameTail(r, s)
    <3>1. lastLogIndex(s) = lastLogIndex(r)
      BY <2>4, <2>5, <2>6, ReplicaFields
    <3>2. ASSUME NEW i \in (s.snapshotIndex + 1)..lastLogIndex(r)
          PROVE  s.log[i - s.snapshotIndex] = r.log[i - r.snapshotIndex]
      <4>1. /\ i - r.lastApplied \in 1..Len(tail)
            /\ r.lastApplied + (i - r.lastApplied) - r.snapshotIndex = i - r.snapshotIndex
        BY <2>4, <2>5, <2>f
      <4>2. tail[i - r.lastApplied] = r.log[i - r.snapshotIndex]
        BY <2>4, <4>1
      <4> QED BY <2>5, <4>2
    <3> QED BY <2>1, <2>5, <3>1, <3>2, ReplicaFields DEF SameTail
  <2>8. ASSUME NEW t \in Nat, TermsUpTo(r, t) PROVE TermsUpTo(s, t)
    BY <2>3, <2>4, <2>5, <2>8 DEF TermsUpTo
  <2> QED BY <2>6, <2>7, <2>8 DEF s
<1> QED BY <1>1, <1>2

\* A bounded set of indexes has a last one: the loop of advanceCommitIndexLocked
\* runs down from the end of the log and stops at it.
LEMMA LastExists ==
    ASSUME NEW S \in SUBSET Nat, S # {}, NEW b \in Nat, \A i \in S : i <= b
    PROVE  \E i \in S : \A j \in S : j <= i
<1> DEFINE T == {k \in Nat : \E i \in S : k = b - i}
           R == {ss \in Nat \X Nat : ss[1] < ss[2]}
<1>1. T \subseteq Nat /\ T # {}
  <2>1. PICK i \in S : TRUE
    OBVIOUS
  <2>2. b - i \in Nat
    OBVIOUS
  <2>3. b - i \in T
    BY <2>2
  <2> QED BY <2>3
<1>2. \E x \in T : \A y \in T : <<y, x>> \notin R
  <2>1. IsWellFoundedOn(R, Nat)
    BY NatLessThanWellFounded, Zenon DEF OpToRel
  <2> HIDE DEF T, R
  <2> QED BY <1>1, <2>1, WFMin
<1>3. PICK x \in T : \A y \in T : <<y, x>> \notin R
  BY <1>2
<1>4. \A y \in T : x <= y
  <2> SUFFICES ASSUME NEW y \in T, y < x
               PROVE  FALSE
    BY <1>1
  <2>1. y \in Nat /\ x \in Nat
    BY <1>1
  <2>2. <<y, x>> \in R
    BY <2>1
  <2> HIDE DEF R, T
  <2> QED BY <2>2, <1>3
<1>5. PICK i \in S : x = b - i
  OBVIOUS
<1>6. \A j \in S : b - j \in T
  OBVIOUS
<1>7. \A j \in S : b - i <= b - j
  BY <1>4, <1>5, <1>6
<1>8. \A j \in S : j <= i
  BY <1>7
<1> QED BY <1>8

\* advanceCommitIndexLocked moves the commit index and applies, no more.
LEMMA AdvanceCommitIndexKeeps ==
    ASSUME NEW r, WellFormed(r), NEW n, NEW match
    PROVE  LET s == advanceCommitIndex(n, r, match) IN
           /\ WellFormed(s)
           /\ s.log = r.log
           /\ s.snapshotIndex = r.snapshotIndex
           /\ s.snapshotTerm = r.snapshotTerm
<1> DEFINE acked(i) == {n} \cup {p \in peers(n) : match[p] >= i}
           ready == {i \in Greater(r.commitIndex + 1, r.snapshotIndex)..lastLogIndex(r) :
                         /\ termAt(r, i) = currentTerm[n]
                         /\ Cardinality(acked(i)) >= majority}
           last == CHOOSE i \in ready : \A j \in ready : j <= i
           c == [r EXCEPT !.commitIndex = last]
<1>1. advanceCommitIndex(n, r, match) =
          IF ready = {} THEN r ELSE applyCommitted(c)
  BY DEF advanceCommitIndex
<1>2. ready \in SUBSET Nat /\ \A i \in ready : i <= lastLogIndex(r)
  BY ReplicaFields DEF Greater
<1>3. CASE ready = {}
  BY <1>1, <1>3
<1>4. CASE ready # {}
  <2>1. last \in Nat
    <3> HIDE DEF ready
    <3>1. \E i \in ready : \A j \in ready : j <= i
      BY <1>2, <1>4, ReplicaFields, LastExists
    <3> QED BY <1>2, <3>1
  <2> HIDE DEF last
  <2>2. /\ WellFormed(c) /\ c.log = r.log
        /\ c.snapshotIndex = r.snapshotIndex /\ c.snapshotTerm = r.snapshotTerm
    BY <2>1 DEF WellFormed, Replica
  <2> HIDE DEF c, ready
  <2> QED BY <1>1, <1>4, <2>2, ApplyCommittedKeeps
<1> QED BY <1>3, <1>4

\* The entries of an accepted AppendEntries keep the replica well formed.
LEMMA AppendedKeeps ==
    ASSUME NEW r, WellFormed(r), NEW m \in AppendReq, prevMatches(r, m)
    PROVE  LET s == appended(r, m) IN
           /\ WellFormed(s)
           /\ s.snapshotIndex = r.snapshotIndex
           /\ \A t \in Nat :
                  (TermsUpTo(r, t) /\ \A k \in 1..Len(m.entries) : m.entries[k].term <= t)
                  => TermsUpTo(s, t)
<1> DEFINE keep == m.prevLogIndex - r.snapshotIndex
           log2 == IF m.entries = <<>> THEN r.log
                   ELSE SubSeq(r.log, 1, keep) \o m.entries
           commit2 == IF m.leaderCommit > r.commitIndex
                      THEN Lesser(m.leaderCommit, r.snapshotIndex + Len(log2))
                      ELSE r.commitIndex
           c == [r EXCEPT !.log = log2, !.commitIndex = commit2]
<1>1. /\ m.entries \in Seq(Entry) /\ m.leaderCommit \in Nat
      /\ keep \in 0..Len(r.log)
      /\ r.log \in Seq(Entry) /\ Len(r.log) \in Nat
      /\ r.commitIndex \in Nat /\ r.snapshotIndex \in Nat
      /\ \A k \in 1..Len(r.log) : r.log[k] \in Entry
  BY ReplicaFields, SMTT(30) DEF AppendReq, prevMatches
<1>2. /\ log2 \in Seq(Entry)
      /\ \A k \in 1..Len(log2) : \/ \E j \in 1..Len(r.log) : log2[k] = r.log[j]
                                 \/ \E j \in 1..Len(m.entries) : log2[k] = m.entries[j]
  <2>1. CASE m.entries = <<>>
    BY <1>1, <2>1
  <2>2. CASE m.entries # <<>>
    <3> DEFINE head == SubSeq(r.log, 1, keep)
    <3> HIDE DEF keep
    <3>1. /\ head \in Seq(Entry) /\ Len(head) = keep
          /\ \A k \in 1..keep : head[k] = r.log[k] /\ k \in 1..Len(r.log)
      <4>1. keep \in Int /\ 1 \in Int /\ \A k \in 1..keep : r.log[k] \in Entry
        BY <1>1
      <4>2. /\ head \in Seq(Entry)
            /\ Len(head) = IF 1 <= keep THEN keep - 1 + 1 ELSE 0
            /\ \A k \in 1..(keep - 1 + 1) : head[k] = r.log[1 + k - 1]
        BY <4>1, SubSeqProperties
      <4> QED BY <1>1, <4>2
    <3> HIDE DEF head
    <3>2. log2 = head \o m.entries
      BY <2>2 DEF head
    <3>3. /\ head \o m.entries \in Seq(Entry)
          /\ Len(head \o m.entries) = Len(head) + Len(m.entries)
          /\ \A k \in 1..Len(head) + Len(m.entries) : (head \o m.entries)[k] =
                 IF k <= Len(head) THEN head[k] ELSE m.entries[k - Len(head)]
      BY <1>1, <3>1, ConcatProperties
    <3>4. Len(m.entries) \in Nat
      BY <1>1
    <3>5. ASSUME NEW k \in 1..Len(log2)
          PROVE  \/ \E j \in 1..Len(r.log) : log2[k] = r.log[j]
                 \/ \E j \in 1..Len(m.entries) : log2[k] = m.entries[j]
      <4> HIDE DEF log2
      <4>1. k \in 1..Len(head) + Len(m.entries)
        BY <3>2, <3>3
      <4>2. CASE k <= Len(head)
        <5>1. k \in 1..keep
          BY <1>1, <3>1, <4>1, <4>2
        <5>2. head[k] = r.log[k] /\ k \in 1..Len(r.log)
          BY <3>1, <5>1
        <5> QED BY <3>2, <3>3, <4>1, <4>2, <5>2
      <4>3. CASE k > Len(head)
        <5>1. k - Len(head) \in 1..Len(m.entries)
          BY <3>1, <3>4, <4>1, <4>3, <1>1
        <5> QED BY <3>1, <3>2, <3>3, <4>1, <4>3, <5>1, <1>1, SMTT(30)
      <4> QED BY <3>1, <4>1, <4>2, <4>3, <1>1
    <3> QED BY <3>2, <3>3, <3>5
  <2> QED BY <2>1, <2>2
<1>3. commit2 \in Nat
  <2> HIDE DEF log2
  <2> QED BY <1>1, <1>2 DEF Lesser
<1>4. appended(r, m) = applyCommitted(c)
  BY DEF appended
<1> HIDE DEF log2, commit2
<1>5. /\ WellFormed(c) /\ c.log = log2
      /\ c.snapshotIndex = r.snapshotIndex /\ c.snapshotTerm = r.snapshotTerm
  BY <1>2, <1>3 DEF WellFormed, Replica
<1> HIDE DEF c
<1>6. LET s == applyCommitted(c) IN
      /\ WellFormed(s) /\ s.log = log2
      /\ s.snapshotIndex = r.snapshotIndex /\ s.snapshotTerm = r.snapshotTerm
  BY <1>5, ApplyCommittedKeeps
<1> QED BY <1>2, <1>4, <1>6 DEF TermsUpTo

\* A snapshot that is installed keeps the replica well formed.
LEMMA InstalledKeeps ==
    ASSUME NEW r, WellFormed(r), NEW m \in SnapReq,
           Len(m.data) = m.lastIncludedIndex, ~alreadyInstalled(r, m)
    PROVE  LET s == installed(r, m) IN
           /\ WellFormed(s)
           /\ \A t \in Nat :
                  (TermsUpTo(r, t) /\ m.lastIncludedTerm <= t) => TermsUpTo(s, t)
<1> DEFINE s == installed(r, m)
           tail == tailAfter(r, m.lastIncludedIndex)
           commit2 == Lesser(r.commitIndex, m.lastIncludedIndex)
<1>1. /\ m.lastIncludedIndex \in Nat /\ m.lastIncludedTerm \in Nat
      /\ m.data \in Seq(Command)
      /\ m.lastIncludedIndex >= r.snapshotIndex
      /\ r \in Replica /\ r.commitIndex \in Nat
  BY ReplicaFields DEF SnapReq, alreadyInstalled
<1>2. /\ tail \in Seq(Entry)
      /\ \A k \in 1..Len(tail) : \E j \in 1..Len(r.log) : tail[k] = r.log[j]
  BY <1>1, TailAfterEntries, SMTT(30)
<1>3. commit2 \in Nat
  BY <1>1 DEF Lesser
<1>4. s = [r EXCEPT !.log = tail, !.snapshotIndex = m.lastIncludedIndex,
                    !.snapshotTerm = m.lastIncludedTerm, !.snapshot = m.data,
                    !.fsm = m.data, !.lastApplied = m.lastIncludedIndex,
                    !.commitIndex = commit2]
  BY DEF installed
<1> HIDE DEF tail, commit2
<1>5. /\ s \in Replica
      /\ s.log = tail /\ s.snapshotIndex = m.lastIncludedIndex
      /\ s.snapshotTerm = m.lastIncludedTerm /\ s.snapshot = m.data
      /\ s.fsm = m.data /\ s.lastApplied = m.lastIncludedIndex
  BY <1>1, <1>2, <1>3, <1>4 DEF Replica
<1> HIDE DEF s
<1>6. WellFormed(s)
  BY <1>1, <1>5 DEF WellFormed
<1>7. ASSUME NEW t \in Nat, TermsUpTo(r, t), m.lastIncludedTerm <= t
      PROVE  TermsUpTo(s, t)
  BY <1>2, <1>5, <1>7 DEF TermsUpTo
<1> QED BY <1>6, <1>7 DEF s

\* A disk whose snapshot holds one command per index and whose terms are
\* those that had been reached when it was written.
SoundDisk(d) ==
    /\ d \in Disk
    /\ Len(d.snapshot) = d.snapshotIndex
    /\ TermsUpTo(d, d.term)

\* What bootstrapFromStorage rebuilds from a sound disk is well formed.
LEMMA BootstrapWellFormed ==
    ASSUME NEW d, SoundDisk(d)
    PROVE  LET s == bootstrapFromStorage(d) IN
           WellFormed(s) /\ TermsUpTo(s, d.term)
<1> DEFINE commit2 == Greater(d.commitIndex, d.snapshotIndex + Len(d.log))
           none == [i \in Index |-> Nil]
           c == [log |-> d.log, snapshotIndex |-> d.snapshotIndex,
                 snapshotTerm |-> d.snapshotTerm, snapshot |-> d.snapshot,
                 commitIndex |-> commit2,
                 lastApplied |-> d.snapshotIndex, fsm |-> d.snapshot,
                 applyResults |-> none]
<1>1. /\ d.log \in Seq(Entry) /\ Len(d.log) \in Nat /\ d.snapshotIndex \in Nat
      /\ d.snapshotTerm \in Nat /\ d.snapshot \in Seq(Command)
      /\ d.commitIndex \in Nat /\ Len(d.snapshot) = d.snapshotIndex
  BY DEF SoundDisk, Disk
<1>2. commit2 \in Nat /\ none \in [Index -> Command \cup {Nil}]
  BY <1>1 DEF Greater
<1>3. bootstrapFromStorage(d) = applyCommitted(c)
  BY DEF bootstrapFromStorage
<1> HIDE DEF commit2, none
<1>4. WellFormed(c)
  BY <1>1, <1>2 DEF WellFormed, Replica
<1>5. c.log = d.log /\ c.snapshotTerm = d.snapshotTerm
  OBVIOUS
<1> HIDE DEF c
<1>6. LET s == applyCommitted(c) IN
      WellFormed(s) /\ s.log = d.log /\ s.snapshotTerm = d.snapshotTerm
  BY <1>4, <1>5, ApplyCommittedKeeps
<1> QED BY <1>3, <1>6 DEF SoundDisk, TermsUpTo

\* What persistDurableStateLocked writes for a node that has reached term is
\* sound.
LEMMA PersistSound ==
    ASSUME NEW r, WellFormed(r), NEW term \in Nat, TermsUpTo(r, term),
           NEW vote \in Node \cup {Nil}
    PROVE  /\ SoundDisk(persistDurableState(r, term, vote))
           /\ persistDurableState(r, term, vote).term = term
<1>1. persistDurableState(r, term, vote) \in Disk
  BY ReplicaFields DEF persistDurableState, Disk
<1> QED BY <1>1, ReplicaFields DEF persistDurableState, SoundDisk, TermsUpTo

-----------------------------------------------------------------------------
(* The inductive invariant.  The type of an AppendEntries request depends  *)
(* on nextIndex being in range, which depends on what the calls in flight  *)
(* carry; the type of the FSM depends on the apply loop staying inside the *)
(* log.  So the types and these invariants are proved together.            *)

\* Every replica is well formed and knows no term beyond its node's.
ReplicasSound ==
    \A n \in Node : WellFormed(replica[n]) /\ TermsUpTo(replica[n], currentTerm[n])

DisksSound == \A n \in Node : SoundDisk(disk[n])

\* An AppendEntries request carries no term beyond its own.
soundAppend(m) == \A k \in 1..Len(m.entries) : m.entries[k].term <= m.term

\* An image has one command per index it covers and a term its sender reached.
soundImage(m) == Len(m.data) = m.lastIncludedIndex /\ m.lastIncludedTerm <= m.term

MessagesSound ==
    /\ \A m \in appendReqs : soundAppend(m)
    /\ \A m \in snapReqs : soundImage(m)

IInv ==
    /\ TypeOK
    /\ ReplicasSound
    /\ DisksSound
    /\ MessagesSound
    /\ NextIndexInRange
    /\ CallsInRange

\* What a step may do to the office of n while its calls are still waited for:
\* a new term, a step down, a won election, or nothing but a longer log.
OfficeStep(n) ==
    \/ currentTerm'[n] > currentTerm[n]
    \/ currentTerm'[n] >= currentTerm[n] /\ state'[n] = Follower
    \/ currentTerm'[n] = currentTerm[n] /\ state[n] = Candidate /\ state'[n] # Candidate
    \/ /\ currentTerm'[n] = currentTerm[n]
       /\ state'[n] = state[n]
       /\ lastLogIndex(replica'[n]) >= lastLogIndex(replica[n])

\* A call in range stays in range as long as its caller does not restart.
LEMMA CallStaysInRange ==
    ASSUME currentTerm \in [Node -> Nat], currentTerm' \in [Node -> Nat],
           NEW m \in AppendReq, callInRange(m), OfficeStep(m.from),
           WellFormed(replica[m.from]), WellFormed(replica'[m.from])
    PROVE  callInRange(m)'
<1> DEFINE n == m.from
           a == lastLogIndex(replica[n])
           b == lastLogIndex(replica'[n])
           c == m.prevLogIndex + Len(m.entries)
<1>1. n \in Node /\ m.term \in Nat /\ c \in Nat
  BY DEF AppendReq
<1>2. a \in Nat /\ b \in Nat
  BY ReplicaFields
<1>3. currentTerm[n] \in Nat /\ currentTerm'[n] \in Nat
  BY <1>1
<1> SUFFICES /\ m.term <= currentTerm'[n]
             /\ state'[n] = Candidate => m.term < currentTerm'[n]
             /\ (state'[n] = Leader /\ m.term = currentTerm'[n]) => c <= b
  BY DEF callInRange
<1>4. /\ m.term <= currentTerm[n]
      /\ state[n] = Candidate => m.term < currentTerm[n]
      /\ (state[n] = Leader /\ m.term = currentTerm[n]) => c <= a
  BY DEF callInRange
<1>5. \/ currentTerm'[n] > currentTerm[n]
      \/ currentTerm'[n] >= currentTerm[n] /\ state'[n] = "Follower"
      \/ currentTerm'[n] = currentTerm[n] /\ state[n] = Candidate /\ state'[n] # Candidate
      \/ currentTerm'[n] = currentTerm[n] /\ state'[n] = state[n] /\ b >= a
  BY DEF OfficeStep, Follower
<1> HIDE DEF n, a, b, c
<1> QED BY <1>1, <1>2, <1>3, <1>4, <1>5 DEF Candidate, Leader

\* becomeFollowerLocked as a step of the invariant's variables.
LEMMA BecomeFollowerStep ==
    ASSUME TypeOK, NEW n \in Node, NEW term \in Nat, NEW vote \in Node \cup {Nil},
           becomeFollower(n, term, vote)
    PROVE  /\ currentTerm' \in [Node -> Nat]
           /\ votedFor' \in [Node -> Node \cup {Nil}]
           /\ state' \in [Node -> {Follower, Candidate, Leader}]
           /\ nextIndex' \in [Node -> [Node -> Nat]]
           /\ matchIndex' \in [Node -> [Node -> Nat]]
           /\ currentTerm'[n] = term /\ state'[n] = Follower
           /\ \A p \in Node \ {n} :
                  /\ currentTerm'[p] = currentTerm[p]
                  /\ state'[p] = state[p]
                  /\ nextIndex'[p] = nextIndex[p]
<1>1. Zero \in [Node -> Nat]
  BY DEF Zero
<1> QED BY <1>1 DEF becomeFollower, TypeOK

\* promoteToLeader as a step of the invariant's variables.
LEMMA PromoteToLeaderStep ==
    ASSUME TypeOK, ReplicasSound, NEW n \in Node, promoteToLeader(n)
    PROVE  /\ state' \in [Node -> {Follower, Candidate, Leader}]
           /\ nextIndex' \in [Node -> [Node -> Nat]]
           /\ matchIndex' \in [Node -> [Node -> Nat]]
           /\ state'[n] = Leader
           /\ \A p \in Node : nextIndex'[n][p] <= lastLogIndex(replica[n]) + 1
           /\ \A p \in Node \ {n} :
                  /\ state'[p] = state[p]
                  /\ nextIndex'[p] = nextIndex[p]
<1> DEFINE last == lastLogIndex(replica[n])
           next == [p \in Node |-> IF p = n THEN 0 ELSE last + 1]
<1>1. last \in Nat
  BY ReplicaFields DEF ReplicasSound
<1> HIDE DEF last
<1>2. next \in [Node -> Nat] /\ \A p \in Node : next[p] <= last + 1
  BY <1>1
<1>3. Zero \in [Node -> Nat]
  BY DEF Zero
<1>4. nextIndex' = [nextIndex EXCEPT ![n] = next]
  BY DEF promoteToLeader, last
<1> HIDE DEF next
<1> QED BY <1>2, <1>3, <1>4, ZenonT(60) DEF promoteToLeader, TypeOK, last

\* NextIndexInRange survives a step after which every leader either led before
\* with the same nextIndex and a log no shorter, or has it in range anew.
LEMMA NextIndexStaysInRange ==
    ASSUME NextIndexInRange, ReplicasSound, ReplicasSound',
           nextIndex \in [Node -> [Node -> Nat]],
           \A n \in Node : state'[n] = Leader =>
               \/ /\ state[n] = Leader
                  /\ nextIndex'[n] = nextIndex[n]
                  /\ lastLogIndex(replica'[n]) >= lastLogIndex(replica[n])
               \/ \A p \in Node : nextIndex'[n][p] <= lastLogIndex(replica'[n]) + 1
    PROVE  NextIndexInRange'
<1> SUFFICES ASSUME NEW n \in Node, NEW p \in Node, state'[n] = Leader
             PROVE  nextIndex'[n][p] <= lastLogIndex(replica'[n]) + 1
  BY DEF NextIndexInRange
<1>1. lastLogIndex(replica[n]) \in Nat /\ lastLogIndex(replica'[n]) \in Nat
  BY ReplicaFields DEF ReplicasSound
<1>2. state[n] = Leader => nextIndex[n][p] <= lastLogIndex(replica[n]) + 1
  BY DEF NextIndexInRange
<1>3. nextIndex[n][p] \in Nat
  OBVIOUS
<1> QED BY <1>1, <1>2, <1>3

\* CallsInRange survives a step without a restart whose new requests are in
\* range and whose new answers are to requests that were waited for.
LEMMA CallsStayInRange ==
    ASSUME TypeOK, TypeOK', ReplicasSound, ReplicasSound', CallsInRange,
           \A n \in Node : OfficeStep(n),
           \A m \in appendReqs' : m \in appendReqs \/ callInRange(m)',
           \A m \in appendReplies' :
               m \in appendReplies \/ (m.req \in appendReqs /\ m.req.live)
    PROVE  CallsInRange'
<1>1. ASSUME NEW m \in AppendReq, callInRange(m)
      PROVE  callInRange(m)'
  <2>1. m.from \in Node
    BY DEF AppendReq
  <2>2. WellFormed(replica[m.from]) /\ WellFormed(replica'[m.from])
    BY <2>1 DEF ReplicasSound
  <2> QED BY <1>1, <2>1, <2>2, CallStaysInRange DEF TypeOK
<1>2. ASSUME NEW m \in appendReqs', m.live
      PROVE  callInRange(m)'
  BY <1>1, <1>2 DEF TypeOK, CallsInRange
<1>3. ASSUME NEW m \in appendReplies'
      PROVE  callInRange(m.req)'
  <2>1. m.req \in AppendReq
    BY DEF TypeOK, AppendReply
  <2>2. callInRange(m.req)
    BY DEF CallsInRange
  <2> QED BY <1>1, <2>1, <2>2
<1> QED BY <1>2, <1>3 DEF CallsInRange

\* A higher current term leaves a replica's terms bounded.
LEMMA TermsUpToMonotonic ==
    ASSUME NEW r, WellFormed(r), NEW t \in Nat, NEW u \in Nat, t <= u, TermsUpTo(r, t)
    PROVE  TermsUpTo(r, u)
<1>1. /\ r.snapshotTerm \in Nat
      /\ \A k \in 1..Len(r.log) : r.log[k].term \in Nat
  BY ReplicaFields
<1> QED BY <1>1 DEF TermsUpTo

\* An election timeout (startElection) preserves the invariant.
LEMMA StartElectionStep ==
    ASSUME IInv, NEW n \in Node, startElection(n)
    PROVE  IInv'
<1> USE DEF Follower, Candidate, Leader
<1>1. /\ TypeOK /\ ReplicasSound
      /\ replica' = replica /\ disk' = disk /\ snapReqs' = snapReqs
      /\ appendReqs' = appendReqs /\ appendReplies' = appendReplies
      /\ snapTasks' = snapTasks /\ knownLeader' = knownLeader /\ restarts' = restarts
      /\ currentTerm' = [currentTerm EXCEPT ![n] = @ + 1]
  BY DEF IInv, startElection, appendRpcs, snapRpcs
<1>2. /\ state' \in [Node -> {"Follower", "Candidate", "Leader"}]
      /\ nextIndex' \in [Node -> [Node -> Nat]]
      /\ matchIndex' \in [Node -> [Node -> Nat]]
      /\ state'[n] = Leader =>
             \A p \in Node : nextIndex'[n][p] <= lastLogIndex(replica[n]) + 1
      /\ \A p \in Node \ {n} : state'[p] = state[p] /\ nextIndex'[p] = nextIndex[p]
  <2>1. CASE promoteToLeader(n)
    BY <1>1, <2>1, PromoteToLeaderStep
  <2>2. CASE state' = [state EXCEPT ![n] = Candidate] /\ UNCHANGED leaderVars
    BY <1>1, <2>2 DEF leaderVars, TypeOK
  <2> QED BY <2>1, <2>2 DEF startElection
<1>3. \A p \in Node : lastLogIndex(replica[p]) \in Nat
  BY <1>1, ReplicaFields DEF ReplicasSound
<1>4. voteReqs' \subseteq VoteReq
  <2>1. lastLogTerm(replica[n]) \in Nat
    BY <1>1, <1>3, TermAtInLog, ReplicaFields DEF ReplicasSound, lastLogTerm
  <2>2. \A m \in VoteReq : orphaned(m, n) \in VoteReq
    BY DEF orphaned, VoteReq
  <2>3. \A p \in peers(n) :
            [from |-> n, to |-> p, live |-> TRUE,
             term |-> currentTerm[n] + 1,
             lastLogIndex |-> lastLogIndex(replica[n]),
             lastLogTerm |-> lastLogTerm(replica[n])] \in VoteReq
    BY <1>1, <1>3, <2>1 DEF VoteReq, peers, TypeOK
  <2> QED BY <1>1, <2>2, <2>3 DEF startElection, TypeOK
<1>5. TypeOK'
  <2>1. currentTerm' \in [Node -> Nat] /\ votedFor' \in [Node -> Node \cup {Nil}]
    BY <1>1 DEF startElection, TypeOK
  <2>2. votes' \in [Node -> SUBSET Node] /\ voteReplies' \subseteq VoteReply
    BY <1>1 DEF startElection, TypeOK
  <2> QED BY <1>1, <1>2, <1>4, <2>1, <2>2 DEF TypeOK
<1>6. \A p \in Node : currentTerm'[p] \in Nat /\ currentTerm[p] \in Nat
                      /\ currentTerm'[p] >= currentTerm[p]
  BY <1>1 DEF TypeOK
<1>7. ReplicasSound'
  BY <1>1, <1>6, TermsUpToMonotonic DEF ReplicasSound
<1>8. \A p \in Node : OfficeStep(p)
  BY <1>1, <1>2, <1>3, <1>6 DEF OfficeStep, TypeOK
<1>9. CallsInRange'
  BY <1>1, <1>5, <1>7, <1>8, CallsStayInRange DEF IInv
<1>10. NextIndexInRange'
  BY <1>1, <1>2, <1>3, <1>7, NextIndexStaysInRange DEF IInv, TypeOK
<1>11. DisksSound' /\ MessagesSound'
  BY <1>1 DEF IInv, DisksSound, MessagesSound
<1> QED BY <1>5, <1>7, <1>9, <1>10, <1>11 DEF IInv

\* The RequestVote handler preserves the invariant, granted or not.
LEMMA RequestVoteStep ==
    ASSUME IInv, NEW m \in voteReqs, RequestVote(m)
    PROVE  IInv'
<1> USE DEF Follower, Candidate, Leader
<1> DEFINE n == m.to
           newer == m.term > currentTerm[n]
           vote == IF newer THEN Nil ELSE votedFor[n]
           grant == /\ m.term >= currentTerm[n]
                    /\ mayVote(vote, m.from)
                    /\ logIsUpToDate(replica[n], m.lastLogIndex, m.lastLogTerm)
           vote2 == IF grant THEN m.from ELSE vote
           term == Greater(m.term, currentTerm[n])
<1>1. /\ TypeOK /\ ReplicasSound
      /\ replica' = replica /\ disk' = disk /\ snapReqs' = snapReqs
      /\ appendReqs' = appendReqs /\ appendReplies' = appendReplies
      /\ snapTasks' = snapTasks /\ knownLeader' = knownLeader
      /\ votes' = votes /\ restarts' = restarts
  BY DEF IInv, RequestVote, appendRpcs, snapRpcs
<1>2. /\ m \in VoteReq /\ n \in Node /\ m.from \in Node /\ m.term \in Nat
      /\ currentTerm[n] \in Nat /\ votedFor[n] \in Node \cup {Nil}
  BY <1>1 DEF TypeOK, VoteReq
<1>3. vote2 \in Node \cup {Nil} /\ term \in Nat /\ grant \in BOOLEAN
  <2> HIDE DEF grant
  <2>1. grant \in BOOLEAN
    BY DEF grant
  <2> QED BY <1>2, <2>1 DEF Greater
<1>4. /\ \/ newer /\ becomeFollower(n, m.term, vote2)
         \/ /\ ~newer /\ votedFor' = [votedFor EXCEPT ![n] = vote2]
            /\ UNCHANGED <<currentTerm, state, leaderVars>>
      /\ voteReqs' = voteReqs \ {m}
      /\ voteReplies' = voteReplies \cup
             answer(m, [req |-> m, term |-> term, granted |-> grant])
  BY DEF RequestVote
<1> HIDE DEF vote2, term, grant, newer
<1>5. /\ currentTerm' \in [Node -> Nat]
      /\ votedFor' \in [Node -> Node \cup {Nil}]
      /\ state' \in [Node -> {"Follower", "Candidate", "Leader"}]
      /\ nextIndex' \in [Node -> [Node -> Nat]]
      /\ matchIndex' \in [Node -> [Node -> Nat]]
      /\ \A p \in Node :
             \/ currentTerm'[p] > currentTerm[p] /\ state'[p] = "Follower"
             \/ /\ currentTerm'[p] = currentTerm[p] /\ state'[p] = state[p]
                /\ nextIndex'[p] = nextIndex[p]
  <2>1. CASE newer /\ becomeFollower(n, m.term, vote2)
    BY <1>1, <1>2, <1>3, <2>1, BecomeFollowerStep DEF newer
  <2>2. CASE /\ votedFor' = [votedFor EXCEPT ![n] = vote2]
             /\ UNCHANGED <<currentTerm, state, leaderVars>>
    BY <1>1, <1>3, <2>2 DEF TypeOK, leaderVars
  <2> QED BY <1>4, <2>1, <2>2
<1>6. TypeOK'
  <2>1. [req |-> m, term |-> term, granted |-> grant] \in VoteReply
    BY <1>2, <1>3 DEF VoteReply
  <2>2. voteReplies' \subseteq VoteReply
    BY <1>1, <1>4, <2>1 DEF TypeOK, answer
  <2> QED BY <1>1, <1>4, <1>5, <2>2 DEF TypeOK
<1>7. \A p \in Node : /\ currentTerm'[p] \in Nat /\ currentTerm[p] \in Nat
                      /\ currentTerm'[p] >= currentTerm[p]
                      /\ lastLogIndex(replica[p]) \in Nat
  <2>1. \A p \in Node : lastLogIndex(replica[p]) \in Nat
    BY <1>1, ReplicaFields DEF ReplicasSound
  <2>2. currentTerm \in [Node -> Nat]
    BY <1>1 DEF TypeOK
  <2> QED BY <1>5, <2>1, <2>2
<1>8. ReplicasSound'
  BY <1>1, <1>7, TermsUpToMonotonic DEF ReplicasSound
<1>9. \A p \in Node : OfficeStep(p)
  BY <1>1, <1>5, <1>7 DEF OfficeStep
<1>10. CallsInRange'
  BY <1>1, <1>6, <1>8, <1>9, CallsStayInRange DEF IInv
<1>11. NextIndexInRange'
  BY <1>1, <1>5, <1>7, <1>8, NextIndexStaysInRange DEF IInv, TypeOK
<1>12. DisksSound' /\ MessagesSound'
  BY <1>1 DEF IInv, DisksSound, MessagesSound
<1> QED BY <1>6, <1>8, <1>10, <1>11, <1>12 DEF IInv

\* Counting a vote, or stepping down at a newer term, preserves the invariant.
LEMMA RequestVoteReplyStep ==
    ASSUME IInv, NEW m \in voteReplies, RequestVoteReply(m)
    PROVE  IInv'
<1> USE DEF Follower, Candidate, Leader
<1> DEFINE n == m.req.from
<1>1. /\ TypeOK /\ ReplicasSound
      /\ replica' = replica /\ disk' = disk /\ snapReqs' = snapReqs
      /\ appendReqs' = appendReqs /\ appendReplies' = appendReplies
      /\ snapTasks' = snapTasks /\ knownLeader' = knownLeader
      /\ voteReqs' = voteReqs /\ restarts' = restarts
      /\ voteReplies' = voteReplies \ {m}
  BY DEF IInv, RequestVoteReply, appendRpcs, snapRpcs
<1>2. /\ n \in Node /\ m.req.to \in Node /\ m.term \in Nat /\ currentTerm[n] \in Nat
      /\ \A p \in Node : lastLogIndex(replica[p]) \in Nat
  BY <1>1, ReplicaFields DEF TypeOK, VoteReply, VoteReq, ReplicasSound
<1>3. /\ currentTerm' \in [Node -> Nat]
      /\ votedFor' \in [Node -> Node \cup {Nil}]
      /\ state' \in [Node -> {"Follower", "Candidate", "Leader"}]
      /\ nextIndex' \in [Node -> [Node -> Nat]]
      /\ matchIndex' \in [Node -> [Node -> Nat]]
      /\ votes' \in [Node -> SUBSET Node]
      /\ \A p \in Node :
             \/ currentTerm'[p] > currentTerm[p] /\ state'[p] = "Follower"
             \/ /\ currentTerm'[p] = currentTerm[p]
                /\ state[p] = "Candidate" /\ state'[p] = "Leader"
                /\ \A q \in Node : nextIndex'[p][q] <= lastLogIndex(replica[p]) + 1
             \/ /\ currentTerm'[p] = currentTerm[p] /\ state'[p] = state[p]
                /\ nextIndex'[p] = nextIndex[p]
  <2>1. CASE m.term > currentTerm[n] /\ becomeFollower(n, m.term, Nil) /\ UNCHANGED votes
    BY <1>1, <1>2, <2>1, BecomeFollowerStep DEF TypeOK
  <2>2. CASE /\ state[n] = Candidate
             /\ votes' = [votes EXCEPT ![n] = votes[n] \cup {m.req.to}]
             /\ promoteToLeader(n)
             /\ UNCHANGED <<currentTerm, votedFor>>
    <3>1. /\ state' \in [Node -> {"Follower", "Candidate", "Leader"}]
          /\ nextIndex' \in [Node -> [Node -> Nat]]
          /\ matchIndex' \in [Node -> [Node -> Nat]]
          /\ state'[n] = "Leader"
          /\ \A p \in Node : nextIndex'[n][p] <= lastLogIndex(replica[n]) + 1
          /\ \A p \in Node \ {n} : state'[p] = state[p] /\ nextIndex'[p] = nextIndex[p]
      BY <1>1, <1>2, <2>2, PromoteToLeaderStep
    <3>2. votes' \in [Node -> SUBSET Node]
      BY <1>1, <1>2, <2>2 DEF TypeOK
    <3> QED BY <1>1, <2>2, <3>1, <3>2 DEF TypeOK
  <2>3. CASE /\ votes' = [votes EXCEPT ![n] = votes[n] \cup {m.req.to}]
             /\ UNCHANGED <<state, leaderVars, currentTerm, votedFor>>
    BY <1>1, <1>2, <2>3 DEF TypeOK, leaderVars
  <2> QED BY <2>1, <2>2, <2>3 DEF RequestVoteReply
<1>4. TypeOK'
  BY <1>1, <1>3 DEF TypeOK
<1>5. \A p \in Node : /\ currentTerm'[p] \in Nat /\ currentTerm[p] \in Nat
                      /\ currentTerm'[p] >= currentTerm[p]
  BY <1>1, <1>3, SMTT(30) DEF TypeOK
<1>6. ReplicasSound'
  BY <1>1, <1>5, TermsUpToMonotonic DEF ReplicasSound
<1>7. \A p \in Node : OfficeStep(p)
  BY <1>1, <1>2, <1>3, <1>5 DEF OfficeStep
<1>8. CallsInRange'
  BY <1>1, <1>4, <1>6, <1>7, CallsStayInRange DEF IInv
<1>9. NextIndexInRange'
  BY <1>1, <1>2, <1>3, <1>6, NextIndexStaysInRange DEF IInv, TypeOK
<1>10. DisksSound' /\ MessagesSound'
  BY <1>1 DEF IInv, DisksSound, MessagesSound
<1> QED BY <1>4, <1>6, <1>8, <1>9, <1>10 DEF IInv

\* A write to the disk of n keeps the disks sound and typed.
LEMMA WrittenSound ==
    ASSUME DisksSound, disk \in [Node -> Disk], NEW n \in Node,
           NEW r, WellFormed(r), NEW term \in Nat, TermsUpTo(r, term),
           NEW vote \in Node \cup {Nil}
    PROVE  /\ written(n, r, term, vote) \in [Node -> Disk]
           /\ \A p \in Node : SoundDisk(written(n, r, term, vote)[p])
<1>1. /\ SoundDisk(persistDurableState(r, term, vote))
      /\ persistDurableState(r, term, vote) \in Disk
  BY PersistSound DEF SoundDisk
<1> QED BY <1>1 DEF written, DisksSound

\* A leader that appends a command (Propose) preserves the invariant.
LEMMA ProposeStep ==
    ASSUME IInv, NEW n \in Node, NEW c \in Command, Propose(n, c)
    PROVE  IInv'
<1> DEFINE e == [term |-> currentTerm[n], cmd |-> c]
           log2 == Append(replica[n].log, e)
           r == [replica[n] EXCEPT !.log = log2]
<1>1. /\ TypeOK /\ ReplicasSound
      /\ snapReqs' = snapReqs /\ appendReqs' = appendReqs
      /\ appendReplies' = appendReplies /\ snapTasks' = snapTasks
      /\ voteReqs' = voteReqs /\ voteReplies' = voteReplies
      /\ knownLeader' = knownLeader /\ votes' = votes /\ restarts' = restarts
      /\ currentTerm' = currentTerm /\ votedFor' = votedFor /\ state' = state
      /\ nextIndex' = nextIndex /\ matchIndex' = matchIndex
  BY DEF IInv, Propose, electionVars, leaderVars, voteRpcs, appendRpcs, snapRpcs
<1>2. /\ replica' = [replica EXCEPT ![n] = r]
      /\ disk' = written(n, r, currentTerm[n], votedFor[n])
  BY DEF Propose
<1>3. /\ WellFormed(replica[n]) /\ TermsUpTo(replica[n], currentTerm[n])
      /\ currentTerm[n] \in Nat /\ votedFor[n] \in Node \cup {Nil}
  BY <1>1 DEF TypeOK, ReplicasSound
<1>4. e \in Entry /\ e.term = currentTerm[n]
  BY <1>3 DEF Entry
<1>5. /\ replica[n].log \in Seq(Entry) /\ Len(replica[n].log) \in Nat
      /\ replica[n].snapshotIndex \in Nat /\ replica[n] \in Replica
  BY <1>3, ReplicaFields
<1> HIDE DEF e
<1>6. /\ log2 \in Seq(Entry) /\ Len(log2) = Len(replica[n].log) + 1
      /\ \A i \in 1..Len(replica[n].log) : log2[i] = replica[n].log[i]
      /\ log2[Len(replica[n].log) + 1] = e
  BY <1>4, <1>5, AppendProperties
<1> HIDE DEF log2
<1>7. /\ WellFormed(r) /\ r.log = log2
      /\ r.snapshotIndex = replica[n].snapshotIndex
      /\ r.snapshotTerm = replica[n].snapshotTerm
  BY <1>3, <1>6 DEF WellFormed, Replica
<1> HIDE DEF r
<1>8. lastLogIndex(r) >= lastLogIndex(replica[n])
  BY <1>5, <1>6, <1>7 DEF lastLogIndex
<1>9. TermsUpTo(r, currentTerm[n])
  <2>1. \A i \in 1..Len(log2) : i \in 1..Len(replica[n].log) \/ i = Len(replica[n].log) + 1
    BY <1>5, <1>6
  <2>2. \A i \in 1..Len(log2) : log2[i].term <= currentTerm[n]
    BY <1>3, <1>4, <1>6, <2>1, SMTT(30) DEF TermsUpTo
  <2> QED BY <1>3, <1>7, <2>2 DEF TermsUpTo
<1>10. /\ disk' \in [Node -> Disk] /\ DisksSound'
  BY <1>1, <1>2, <1>3, <1>7, <1>9, WrittenSound DEF IInv, TypeOK, DisksSound
<1>11. TypeOK'
  <2>1. replica' \in [Node -> Replica]
    BY <1>1, <1>2, <1>7 DEF TypeOK, WellFormed
  <2> QED BY <1>1, <1>10, <2>1 DEF TypeOK
<1>12. \A p \in Node : replica'[p] = IF p = n THEN r ELSE replica[p]
  BY <1>1, <1>2 DEF TypeOK
<1>13. ReplicasSound'
  BY <1>1, <1>7, <1>9, <1>12 DEF ReplicasSound
<1>14. \A p \in Node : lastLogIndex(replica'[p]) >= lastLogIndex(replica[p])
  <2>1. \A p \in Node : lastLogIndex(replica[p]) \in Nat
    BY <1>1, ReplicaFields DEF ReplicasSound
  <2> QED BY <1>8, <1>12, <2>1
<1>15. CallsInRange'
  <2>1. \A p \in Node : OfficeStep(p)
    BY <1>1, <1>14 DEF OfficeStep
  <2> QED BY <1>1, <1>11, <1>13, <2>1, CallsStayInRange DEF IInv
<1>16. NextIndexInRange'
  BY <1>1, <1>13, <1>14, NextIndexStaysInRange DEF IInv, TypeOK
<1>17. MessagesSound'
  BY <1>1 DEF IInv, MessagesSound
<1> QED BY <1>10, <1>11, <1>13, <1>15, <1>16, <1>17 DEF IInv

\* A replication round sends only calls that end inside the log of the leader.
LEMMA ReplicateAndCommitStep ==
    ASSUME IInv, NEW n \in Node, NEW reach \in SUBSET peers(n),
           replicateAndCommit(n, reach)
    PROVE  IInv'
<1> DEFINE r == replica[n]
           lagging == {p \in reach : nextIndex[n][p] <= r.snapshotIndex}
           task(p) == [from |-> n, to |-> p, live |-> TRUE,
                       term |-> currentTerm[n],
                       prevLogIndex |-> nextIndex[n][p] - 1,
                       prevLogTerm |-> termAt(r, nextIndex[n][p] - 1),
                       entries |-> tailAfter(r, nextIndex[n][p] - 1),
                       leaderCommit |-> r.commitIndex]
<1>1. /\ TypeOK /\ ReplicasSound
      /\ snapReqs' = snapReqs /\ replica' = replica /\ disk' = disk
      /\ appendReplies' = appendReplies
      /\ voteReqs' = voteReqs /\ voteReplies' = voteReplies
      /\ knownLeader' = knownLeader /\ votes' = votes /\ restarts' = restarts
      /\ currentTerm' = currentTerm /\ votedFor' = votedFor /\ state' = state
      /\ nextIndex' = nextIndex /\ matchIndex' = matchIndex
  BY DEF IInv, replicateAndCommit, electionVars, leaderVars, voteRpcs
<1>2. /\ state[n] = Leader
      /\ appendReqs' = appendReqs \cup {task(p) : p \in reach \ lagging}
      /\ snapTasks' = snapTasks \cup
             {[from |-> n, to |-> p, term |-> currentTerm[n]] : p \in lagging}
  BY DEF replicateAndCommit
<1>3. /\ WellFormed(r) /\ TermsUpTo(r, currentTerm[n])
      /\ currentTerm[n] \in Nat /\ r.commitIndex \in Nat
      /\ r.snapshotIndex \in Nat /\ lastLogIndex(r) \in Nat
      /\ lastLogIndex(r) = r.snapshotIndex + Len(r.log)
  BY <1>1, ReplicaFields DEF TypeOK, ReplicasSound
<1>4. ASSUME NEW m, NEW p \in reach \ lagging, m = task(p)
      PROVE  m \in AppendReq /\ soundAppend(m) /\ callInRange(m)'
  <2> DEFINE i == nextIndex[n][p] - 1
             t == tailAfter(r, i)
  <2>1. p \in Node /\ nextIndex[n][p] \in Nat
    BY <1>1 DEF peers, TypeOK
  <2>2. nextIndex[n][p] <= lastLogIndex(r) + 1
    BY <1>2, <2>1 DEF IInv, NextIndexInRange
  <2>3. i \in Nat /\ i >= r.snapshotIndex /\ i \in r.snapshotIndex..lastLogIndex(r)
    BY <1>3, <1>4, <2>1, <2>2
  <2>4. m = [from |-> n, to |-> p, live |-> TRUE, term |-> currentTerm[n],
             prevLogIndex |-> i, prevLogTerm |-> termAt(r, i),
             entries |-> t, leaderCommit |-> r.commitIndex]
    BY <1>4
  <2> HIDE DEF i
  <2>5. termAt(r, i) \in Nat
    BY <1>3, <2>3, TermAtInLog
  <2>6. /\ t \in Seq(Entry)
        /\ Len(t) = IF i <= lastLogIndex(r) THEN lastLogIndex(r) - i ELSE 0
        /\ \A k \in 1..Len(t) : \E j \in 1..Len(r.log) : t[k] = r.log[j]
    <3>1. /\ t \in Seq(Entry)
          /\ Len(t) = IF i <= lastLogIndex(r) THEN lastLogIndex(r) - i ELSE 0
          /\ \A k \in 1..Len(t) : /\ i + k - r.snapshotIndex \in 1..Len(r.log)
                                  /\ t[k] = r.log[i + k - r.snapshotIndex]
      BY <1>3, <2>3, TailAfterEntries
    <3> HIDE DEF t, r
    <3>2. \A k \in 1..Len(t) : \E j \in 1..Len(r.log) : t[k] = r.log[j]
      BY <3>1
    <3> QED BY <3>1, <3>2
  <2> HIDE DEF t
  <2>7. m \in AppendReq
    BY <1>3, <2>1, <2>3, <2>4, <2>5, <2>6 DEF AppendReq
  <2>8. soundAppend(m)
    BY <1>3, <2>4, <2>6 DEF soundAppend, TermsUpTo
  <2>9. i + Len(t) <= lastLogIndex(r)
    <3> DEFINE last == lastLogIndex(r)
    <3> HIDE DEF last
    <3>1. last \in Nat /\ i \in Nat /\ i <= last
          /\ Len(t) = IF i <= last THEN last - i ELSE 0
      BY <1>3, <2>3, <2>6 DEF last
    <3>2. i + Len(t) <= last
      BY <3>1
    <3> QED BY <3>2 DEF last
  <2>10. /\ m.from = n /\ m.term = currentTerm[n]
         /\ m.prevLogIndex = i /\ m.entries = t
    BY <2>4
  <2>11. callInRange(m)'
    BY <1>1, <1>2, <1>3, <2>9, <2>10 DEF callInRange, Leader, Candidate
  <2> QED BY <2>7, <2>8, <2>11
<1> HIDE DEF task
<1>5. TypeOK'
  <2>1. appendReqs' \subseteq AppendReq
    BY <1>1, <1>2, <1>4 DEF TypeOK
  <2>2. snapTasks' \subseteq SnapTask
    BY <1>1, <1>2, <1>3 DEF TypeOK, SnapTask, peers
  <2> QED BY <1>1, <2>1, <2>2 DEF TypeOK
<1>6. ReplicasSound' /\ DisksSound'
  BY <1>1 DEF IInv, ReplicasSound, DisksSound
<1>7. MessagesSound'
  BY <1>1, <1>2, <1>4 DEF IInv, MessagesSound
<1>8. \A p \in Node : lastLogIndex(replica'[p]) >= lastLogIndex(replica[p])
  <2>1. \A p \in Node : lastLogIndex(replica[p]) \in Nat
    BY <1>1, ReplicaFields DEF ReplicasSound
  <2> QED BY <1>1, <2>1
<1>9. CallsInRange'
  <2>1. \A p \in Node : OfficeStep(p)
    BY <1>1, <1>8 DEF OfficeStep
  <2>2. \A m \in appendReqs' : m \in appendReqs \/ callInRange(m)'
    BY <1>2, <1>4
  <2> QED BY <1>1, <1>5, <1>6, <2>1, <2>2, CallsStayInRange DEF IInv
<1>10. NextIndexInRange'
  BY <1>1, <1>6, <1>8, NextIndexStaysInRange DEF IInv, TypeOK
<1> QED BY <1>5, <1>6, <1>7, <1>9, <1>10 DEF IInv

\* sendInstallSnapshotWithContext ships a snapshot that satisfies the invariant.
LEMMA SendInstallSnapshotStep ==
    ASSUME IInv, NEW t \in snapTasks, sendInstallSnapshot(t)
    PROVE  IInv'
<1> DEFINE n == t.from
           r == replica[n]
           m == [from |-> n, to |-> t.to, term |-> t.term,
                 lastIncludedIndex |-> r.snapshotIndex,
                 lastIncludedTerm |-> r.snapshotTerm, data |-> r.snapshot]
<1>1. /\ TypeOK /\ ReplicasSound
      /\ replica' = replica /\ disk' = disk /\ snapTasks' = snapTasks
      /\ appendReqs' = appendReqs /\ appendReplies' = appendReplies
      /\ voteReqs' = voteReqs /\ voteReplies' = voteReplies
      /\ knownLeader' = knownLeader /\ votes' = votes /\ restarts' = restarts
      /\ currentTerm' = currentTerm /\ votedFor' = votedFor /\ state' = state
      /\ nextIndex' = nextIndex /\ matchIndex' = matchIndex
      /\ currentTerm[n] = t.term
      /\ snapReqs' = snapReqs \cup {m}
  BY DEF IInv, sendInstallSnapshot, electionVars, leaderVars, voteRpcs, appendRpcs
<1>2. n \in Node /\ t.to \in Node /\ t.term \in Nat
  BY <1>1 DEF TypeOK, SnapTask
<1>3. WellFormed(r) /\ TermsUpTo(r, currentTerm[n])
  BY <1>1, <1>2 DEF ReplicasSound
<1>4. m \in SnapReq /\ soundImage(m)
  <2>1. /\ r.snapshotIndex \in Nat /\ r.snapshotTerm \in Nat
        /\ r.snapshot \in Seq(Command) /\ Len(r.snapshot) = r.snapshotIndex
        /\ r.snapshotTerm <= t.term
    BY <1>1, <1>3, ReplicaFields DEF TermsUpTo
  <2> QED BY <1>2, <2>1 DEF SnapReq, soundImage
<1> HIDE DEF m
<1>5. TypeOK'
  BY <1>1, <1>4 DEF TypeOK
<1>6. ReplicasSound' /\ DisksSound' /\ NextIndexInRange' /\ CallsInRange'
  BY <1>1 DEF IInv, ReplicasSound, DisksSound, NextIndexInRange, CallsInRange, callInRange
<1>7. MessagesSound'
  BY <1>1, <1>4 DEF IInv, MessagesSound
<1> QED BY <1>5, <1>6, <1>7 DEF IInv

\* Losing a request or an answer preserves the invariant.
LEMMA LoseAppendStep ==
    ASSUME IInv, loseAppend
    PROVE  IInv'
<1>1. /\ replica' = replica /\ disk' = disk
      /\ snapTasks' = snapTasks /\ snapReqs' = snapReqs
      /\ voteReqs' = voteReqs /\ voteReplies' = voteReplies
      /\ knownLeader' = knownLeader /\ votes' = votes /\ restarts' = restarts
      /\ currentTerm' = currentTerm /\ votedFor' = votedFor /\ state' = state
      /\ nextIndex' = nextIndex /\ matchIndex' = matchIndex
  BY DEF loseAppend, electionVars, leaderVars, voteRpcs, snapRpcs
<1>2. appendReqs' \subseteq appendReqs /\ appendReplies' \subseteq appendReplies
  BY DEF loseAppend
<1>3. TypeOK'
  BY <1>1, <1>2 DEF IInv, TypeOK
<1>4. ReplicasSound' /\ DisksSound' /\ NextIndexInRange'
  BY <1>1 DEF IInv, ReplicasSound, DisksSound, NextIndexInRange
<1>5. MessagesSound' /\ CallsInRange'
  BY <1>1, <1>2 DEF IInv, MessagesSound, CallsInRange, callInRange
<1> QED BY <1>3, <1>4, <1>5 DEF IInv

\* A restart from a sound disk: the term may fall, but no call of the dead
\* process is waited for any more.
LEMMA RestartStep ==
    ASSUME IInv, NEW n \in Node, NEW d, SoundDisk(d),
           NEW reqs \in SUBSET appendReqs, restartFrom(n, d, reqs),
           restarts' \in Nat
    PROVE  IInv'
<1> USE DEF Follower, Candidate, Leader
<1> DEFINE r == bootstrapFromStorage(d)
<1>1. /\ TypeOK /\ ReplicasSound /\ CallsInRange /\ MessagesSound /\ NextIndexInRange
      /\ disk' = [disk EXCEPT ![n] = d]
      /\ replica' = [replica EXCEPT ![n] = r]
      /\ becomeFollower(n, d.term, d.votedFor)
      /\ knownLeader' = [knownLeader EXCEPT ![n] = Nil]
      /\ votes' = [votes EXCEPT ![n] = {}]
      /\ voteReqs' = {orphaned(m, n) : m \in voteReqs}
      /\ voteReplies' = {m \in voteReplies : m.req.from # n}
      /\ appendReqs' = {orphaned(m, n) : m \in reqs}
      /\ appendReplies' = {m \in appendReplies : m.req.from # n}
      /\ snapTasks' = {t \in snapTasks : t.from # n}
      /\ snapReqs' = snapReqs
  BY DEF IInv, restartFrom
<1>2. d \in Disk /\ d.term \in Nat /\ d.votedFor \in Node \cup {Nil}
  BY DEF SoundDisk, Disk
<1>3. WellFormed(r) /\ TermsUpTo(r, d.term) /\ r \in Replica
  BY BootstrapWellFormed DEF WellFormed
<1> HIDE DEF r
<1>4. /\ currentTerm' \in [Node -> Nat]
      /\ votedFor' \in [Node -> Node \cup {Nil}]
      /\ state' \in [Node -> {Follower, Candidate, Leader}]
      /\ nextIndex' \in [Node -> [Node -> Nat]]
      /\ matchIndex' \in [Node -> [Node -> Nat]]
      /\ currentTerm'[n] = d.term /\ state'[n] = Follower
      /\ \A p \in Node \ {n} : /\ currentTerm'[p] = currentTerm[p]
                               /\ state'[p] = state[p]
                               /\ nextIndex'[p] = nextIndex[p]
  BY <1>1, <1>2, BecomeFollowerStep
<1>5. \A p \in Node : /\ replica'[p] = IF p = n THEN r ELSE replica[p]
                      /\ disk'[p] = IF p = n THEN d ELSE disk[p]
  BY <1>1 DEF TypeOK
<1>6. ASSUME NEW m \in AppendReq
      PROVE  /\ orphaned(m, n) \in AppendReq
             /\ orphaned(m, n).live => orphaned(m, n) = m /\ m.from # n
             /\ soundAppend(m) => soundAppend(orphaned(m, n))
  BY DEF orphaned, AppendReq, soundAppend
<1>7. appendReqs' \subseteq AppendReq
  BY <1>1, <1>6 DEF TypeOK
<1>8. TypeOK'
  <2>1. voteReqs' \subseteq VoteReq
    <3>1. \A m \in VoteReq : orphaned(m, n) \in VoteReq
      BY DEF orphaned, VoteReq
    <3> QED BY <1>1, <3>1 DEF TypeOK
  <2>2. replica' \in [Node -> Replica] /\ disk' \in [Node -> Disk]
    BY <1>1, <1>2, <1>3 DEF TypeOK
  <2>3. knownLeader' \in [Node -> Node \cup {Nil}] /\ votes' \in [Node -> SUBSET Node]
    BY <1>1 DEF TypeOK
  <2> QED BY <1>1, <1>4, <1>7, <2>1, <2>2, <2>3 DEF TypeOK
<1>9. ReplicasSound'
  BY <1>1, <1>3, <1>4, <1>5 DEF ReplicasSound
<1>10. DisksSound'
  BY <1>5 DEF IInv, DisksSound
<1>11. MessagesSound'
  BY <1>1, <1>6 DEF TypeOK, MessagesSound
<1>12. NextIndexInRange'
  BY <1>1, <1>4, <1>5 DEF NextIndexInRange
<1>13. CallsInRange'
  <2>1. ASSUME NEW m \in AppendReq, m.from # n, callInRange(m)
        PROVE  callInRange(m)'
    <3>1. m.from \in Node \ {n}
      BY <2>1 DEF AppendReq
    <3> QED BY <1>4, <1>5, <2>1, <3>1 DEF callInRange
  <2>2. ASSUME NEW m \in appendReqs', m.live PROVE callInRange(m)'
    <3>1. PICK q \in reqs : m = orphaned(q, n)
      BY <1>1
    <3>2. q \in AppendReq /\ q \in appendReqs
      BY <1>1 DEF TypeOK
    <3>3. m = q /\ q.from # n
      BY <1>6, <2>2, <3>1, <3>2
    <3>4. callInRange(m)
      BY <1>1, <2>2, <3>2, <3>3 DEF CallsInRange
    <3> QED BY <2>1, <3>2, <3>3, <3>4
  <2>3. ASSUME NEW m \in appendReplies' PROVE callInRange(m.req)'
    <3>1. m \in appendReplies /\ m.req.from # n /\ m.req \in AppendReq
      BY <1>1 DEF TypeOK, AppendReply
    <3>2. callInRange(m.req)
      BY <1>1, <3>1 DEF CallsInRange
    <3> QED BY <2>1, <3>1, <3>2
  <2> QED BY <2>2, <2>3 DEF CallsInRange
<1> QED BY <1>8, <1>9, <1>10, <1>11, <1>12, <1>13 DEF IInv

\* The part AppendEntries and InstallSnapshot have in common: the node follows
\* the sender's term, with r as its replica, written to disk or not.
LEMMA FollowSender ==
    ASSUME IInv, NEW n \in Node, NEW term \in Nat, term >= currentTerm[n],
           becomeFollower(n, term, Nil),
           NEW from \in Node \cup {Nil},
           knownLeader' = [knownLeader EXCEPT ![n] = from],
           NEW r, WellFormed(r), TermsUpTo(r, term),
           replica' = [replica EXCEPT ![n] = r],
           disk' = disk \/ disk' = written(n, r, term, Nil),
           votes' = votes, voteReqs' = voteReqs, voteReplies' = voteReplies,
           snapTasks' = snapTasks, snapReqs' = snapReqs, restarts' = restarts,
           appendReqs' \subseteq appendReqs, appendReplies' \subseteq AppendReply,
           \A m \in appendReplies' :
               m \in appendReplies \/ (m.req \in appendReqs /\ m.req.live)
    PROVE  IInv'
<1> USE DEF Follower, Candidate, Leader
<1>1. TypeOK /\ ReplicasSound /\ DisksSound /\ MessagesSound
  BY DEF IInv
<1>2. /\ currentTerm' \in [Node -> Nat]
      /\ votedFor' \in [Node -> Node \cup {Nil}]
      /\ state' \in [Node -> {Follower, Candidate, Leader}]
      /\ nextIndex' \in [Node -> [Node -> Nat]]
      /\ matchIndex' \in [Node -> [Node -> Nat]]
      /\ currentTerm'[n] = term /\ state'[n] = Follower
      /\ \A p \in Node \ {n} : /\ currentTerm'[p] = currentTerm[p]
                               /\ state'[p] = state[p]
                               /\ nextIndex'[p] = nextIndex[p]
  BY <1>1, BecomeFollowerStep
<1>3. disk' \in [Node -> Disk] /\ DisksSound'
  <2>1. disk \in [Node -> Disk]
    BY <1>1 DEF TypeOK
  <2>2. CASE disk' = disk
    BY <1>1, <2>1, <2>2 DEF DisksSound
  <2>3. CASE disk' = written(n, r, term, Nil)
    BY <1>1, <2>1, <2>3, WrittenSound DEF DisksSound
  <2> QED BY <2>2, <2>3
<1>4. TypeOK'
  <2>1. replica' \in [Node -> Replica]
    BY <1>1 DEF TypeOK, WellFormed
  <2>2. knownLeader' \in [Node -> Node \cup {Nil}]
    BY <1>1 DEF TypeOK
  <2>3. appendReqs' \subseteq AppendReq
    BY <1>1 DEF TypeOK
  <2> QED BY <1>1, <1>2, <1>3, <2>1, <2>2, <2>3 DEF TypeOK
<1>5. \A p \in Node : replica'[p] = IF p = n THEN r ELSE replica[p]
  BY <1>1 DEF TypeOK
<1>6. ReplicasSound'
  <2> SUFFICES ASSUME NEW p \in Node
               PROVE  WellFormed(replica'[p]) /\ TermsUpTo(replica'[p], currentTerm'[p])
    BY DEF ReplicasSound
  <2>1. CASE p = n
    BY <1>1, <1>2, <1>5, <2>1
  <2>2. CASE p # n
    BY <1>1, <1>2, <1>5, <2>2, Zenon DEF ReplicasSound
  <2> QED BY <2>1, <2>2
<1>7. \A p \in Node \ {n} : lastLogIndex(replica'[p]) >= lastLogIndex(replica[p])
  <2>1. \A p \in Node : lastLogIndex(replica[p]) \in Nat
    BY <1>1, ReplicaFields DEF ReplicasSound
  <2> QED BY <1>5, <2>1
<1>8. \A p \in Node : OfficeStep(p)
  BY <1>2, <1>7 DEF OfficeStep
<1>9. CallsInRange'
  <2>1. \A m \in appendReqs' : m \in appendReqs \/ callInRange(m)'
    OBVIOUS
  <2> QED BY <1>1, <1>4, <1>6, <1>8, <2>1, CallsStayInRange DEF IInv
<1>10. NextIndexInRange'
  <2>1. nextIndex \in [Node -> [Node -> Nat]]
    BY <1>1 DEF TypeOK
  <2>2. \A p \in Node : state'[p] = Leader =>
            /\ state[p] = Leader
            /\ nextIndex'[p] = nextIndex[p]
            /\ lastLogIndex(replica'[p]) >= lastLogIndex(replica[p])
    BY <1>2, <1>7
  <2> QED BY <1>1, <1>6, <2>1, <2>2, NextIndexStaysInRange DEF IInv
<1>11. MessagesSound'
  BY <1>1 DEF MessagesSound
<1> QED BY <1>3, <1>4, <1>6, <1>9, <1>10, <1>11 DEF IInv

\* The InstallSnapshot handler preserves the invariant on a node that is a follower after it.
LEMMA InstallSnapshotStep ==
    ASSUME IInv, NEW m \in snapReqs, InstallSnapshot(m)
    PROVE  IInv'
<1> DEFINE n == m.to
<1>1. /\ m \in SnapReq /\ n \in Node /\ m.from \in Node /\ m.term \in Nat
      /\ m.lastIncludedTerm <= m.term /\ Len(m.data) = m.lastIncludedIndex
      /\ currentTerm[n] \in Nat
      /\ WellFormed(replica[n]) /\ TermsUpTo(replica[n], currentTerm[n])
  BY DEF IInv, TypeOK, SnapReq, MessagesSound, soundImage, ReplicasSound
<1>2. /\ m.term >= currentTerm[n]
      /\ becomeFollower(n, m.term, Nil)
      /\ knownLeader' = [knownLeader EXCEPT ![n] = m.from]
      /\ votes' = votes /\ voteReqs' = voteReqs /\ voteReplies' = voteReplies
      /\ snapTasks' = snapTasks /\ snapReqs' = snapReqs /\ restarts' = restarts
      /\ appendReqs' = appendReqs /\ appendReplies' = appendReplies
  BY DEF InstallSnapshot, voteRpcs, snapRpcs, appendRpcs
<1>3. TermsUpTo(replica[n], m.term)
  BY <1>1, <1>2, TermsUpToMonotonic
<1>4. appendReplies' \subseteq AppendReply
  BY <1>2 DEF IInv, TypeOK
<1>5. CASE alreadyInstalled(replica[n], m) /\ UNCHANGED <<replica, disk>>
  <2>1. replica' = [replica EXCEPT ![n] = replica[n]]
    BY <1>5 DEF IInv, TypeOK
  <2> QED BY <1>1, <1>2, <1>3, <1>4, <1>5, <2>1, FollowSender
<1>6. CASE /\ ~alreadyInstalled(replica[n], m)
           /\ replica' = [replica EXCEPT ![n] = installed(replica[n], m)]
           /\ disk' = written(n, installed(replica[n], m), m.term, Nil)
  <2>1. /\ WellFormed(installed(replica[n], m))
        /\ TermsUpTo(installed(replica[n], m), m.term)
    BY <1>1, <1>3, <1>6, InstalledKeeps
  <2> QED BY <1>1, <1>2, <1>4, <1>6, <2>1, FollowSender
<1> QED BY <1>5, <1>6 DEF InstallSnapshot

\* The AppendEntries handler preserves the invariant on all four of its paths.
LEMMA AppendEntriesStep ==
    ASSUME IInv, NEW m \in appendReqs, AppendEntries(m)
    PROVE  IInv'
<1> DEFINE n == m.to
           r == appended(replica[n], m)
           r2 == maybeCompact(r)
           reply(success) == answer(m, [req |-> m, success |-> success,
                                        term |-> Greater(m.term, currentTerm[n])])
<1>1. /\ m \in AppendReq /\ n \in Node /\ m.from \in Node /\ m.term \in Nat
      /\ soundAppend(m) /\ currentTerm[n] \in Nat
      /\ WellFormed(replica[n]) /\ TermsUpTo(replica[n], currentTerm[n])
  BY DEF IInv, TypeOK, AppendReq, MessagesSound, ReplicasSound
<1>2. ASSUME NEW b \in BOOLEAN, appendReplies' = appendReplies \cup reply(b)
      PROVE  /\ appendReplies' \subseteq AppendReply
             /\ \A a \in appendReplies' :
                    a \in appendReplies \/ (a.req \in appendReqs /\ a.req.live)
  <2> DEFINE a == [req |-> m, success |-> b, term |-> Greater(m.term, currentTerm[n])]
  <2>1. a \in AppendReply /\ a.req = m
    BY <1>1 DEF AppendReply, Greater
  <2> HIDE DEF a
  <2>2. appendReplies' = appendReplies \cup answer(m, a)
    BY <1>2 DEF a
  <2> QED BY <2>1, <2>2 DEF answer, IInv, TypeOK
<1>3. CASE /\ m.term < currentTerm[n]
           /\ appendReqs' = appendReqs \ {m}
           /\ appendReplies' = appendReplies \cup reply(FALSE)
           /\ UNCHANGED <<electionVars, leaderVars, replica, disk, voteRpcs,
                          snapRpcs, restarts>>
  <2>1. /\ replica' = replica /\ disk' = disk
        /\ snapTasks' = snapTasks /\ snapReqs' = snapReqs
        /\ voteReqs' = voteReqs /\ voteReplies' = voteReplies
        /\ knownLeader' = knownLeader /\ votes' = votes /\ restarts' = restarts
        /\ currentTerm' = currentTerm /\ votedFor' = votedFor /\ state' = state
        /\ nextIndex' = nextIndex /\ matchIndex' = matchIndex
        /\ appendReqs' = appendReqs \ {m}
    BY <1>3 DEF electionVars, leaderVars, voteRpcs, snapRpcs
  <2>2. /\ appendReplies' \subseteq AppendReply
        /\ \A a \in appendReplies' :
               a \in appendReplies \/ (a.req \in appendReqs /\ a.req.live)
    BY <1>2, <1>3
  <2>3. TypeOK'
    BY <2>1, <2>2 DEF IInv, TypeOK
  <2>4. ReplicasSound' /\ DisksSound' /\ NextIndexInRange'
    BY <2>1 DEF IInv, ReplicasSound, DisksSound, NextIndexInRange
  <2>5. MessagesSound' /\ CallsInRange'
    BY <2>1, <2>2 DEF IInv, MessagesSound, CallsInRange, callInRange
  <2> QED BY <2>3, <2>4, <2>5 DEF IInv
<1>4. CASE /\ m.term >= currentTerm[n]
           /\ becomeFollower(n, m.term, Nil)
           /\ knownLeader' = [knownLeader EXCEPT ![n] = m.from]
           /\ appendReqs' = appendReqs \ {m}
           /\ appendReplies' = appendReplies \cup reply(FALSE)
           /\ UNCHANGED <<votes, replica, disk, voteRpcs, snapRpcs, restarts>>
  <2>1. /\ appendReplies' \subseteq AppendReply
        /\ \A a \in appendReplies' :
               a \in appendReplies \/ (a.req \in appendReqs /\ a.req.live)
    BY <1>2, <1>4
  <2>2. TermsUpTo(replica[n], m.term)
    BY <1>1, <1>4, TermsUpToMonotonic
  <2>3. replica' = [replica EXCEPT ![n] = replica[n]]
    BY <1>4 DEF IInv, TypeOK
  <2> HIDE DEF reply
  <2> QED BY <1>1, <1>4, <2>1, <2>2, <2>3, FollowSender DEF voteRpcs, snapRpcs
<1>5. CASE /\ m.term >= currentTerm[n]
           /\ prevMatches(replica[n], m)
           /\ becomeFollower(n, m.term, Nil)
           /\ knownLeader' = [knownLeader EXCEPT ![n] = m.from]
           /\ replica' = [replica EXCEPT ![n] = r2]
           /\ disk' = written(n, r2, m.term, Nil)
           /\ appendReqs' = appendReqs \ {m}
           /\ appendReplies' = appendReplies \cup reply(TRUE)
           /\ UNCHANGED <<votes, voteRpcs, snapRpcs, restarts>>
  <2>1. /\ appendReplies' \subseteq AppendReply
        /\ \A a \in appendReplies' :
               a \in appendReplies \/ (a.req \in appendReqs /\ a.req.live)
    BY <1>2, <1>5
  <2>2. TermsUpTo(replica[n], m.term)
    BY <1>1, <1>5, TermsUpToMonotonic
  <2>3. WellFormed(r) /\ TermsUpTo(r, m.term)
    BY <1>1, <1>5, <2>2, AppendedKeeps DEF soundAppend
  <2> HIDE DEF r
  <2>4. WellFormed(r2) /\ TermsUpTo(r2, m.term)
    BY <1>1, <2>3, MaybeCompactKeeps
  <2> HIDE DEF r2, reply
  <2> QED BY <1>1, <1>5, <2>1, <2>4, FollowSender DEF voteRpcs, snapRpcs
<1>6. CASE restartFrom(n, disk[n], appendReqs \ {m}) /\ UNCHANGED restarts
  <2>1. SoundDisk(disk[n]) /\ restarts' \in Nat
    BY <1>1, <1>6 DEF IInv, DisksSound, TypeOK
  <2> QED BY <1>1, <1>6, <2>1, RestartStep
<1> QED BY <1>3, <1>4, <1>5, <1>6 DEF AppendEntries

\* What handleAppendEntriesReply makes of the leader's replica: the log stays,
\* but for a prefix that may be compacted.
LEMMA CommitKeeps ==
    ASSUME NEW r, WellFormed(r), NEW n, NEW match
    PROVE  LET r2 == advanceCommitIndex(n, r, match)
               s == IF r2.commitIndex = r.commitIndex THEN r ELSE maybeCompact(r2) IN
           /\ WellFormed(s)
           /\ SameTail(r, s)
           /\ \A t \in Nat : TermsUpTo(r, t) => TermsUpTo(s, t)
<1> DEFINE r2 == advanceCommitIndex(n, r, match)
           s == maybeCompact(r2)
<1>1. /\ WellFormed(r2) /\ r2.log = r.log
      /\ r2.snapshotIndex = r.snapshotIndex /\ r2.snapshotTerm = r.snapshotTerm
  BY AdvanceCommitIndexKeeps
<1> HIDE DEF r2
<1>2. /\ WellFormed(s) /\ SameTail(r2, s)
      /\ \A t \in Nat : TermsUpTo(r2, t) => TermsUpTo(s, t)
  BY <1>1, MaybeCompactKeeps
<1> HIDE DEF s
<1>3. lastLogIndex(r2) = lastLogIndex(r)
  BY <1>1 DEF lastLogIndex
<1>4. SameTail(r, s)
  BY <1>1, <1>2, <1>3 DEF SameTail
<1>5. \A t \in Nat : TermsUpTo(r, t) => TermsUpTo(s, t)
  BY <1>1, <1>2 DEF TermsUpTo
<1>6. SameTail(r, r)
  BY ReplicaFields DEF SameTail
<1> QED BY <1>2, <1>4, <1>5, <1>6 DEF r2, s

\* handleAppendEntriesReply preserves the invariant, its compaction and its panic included.
LEMMA AppendEntriesReplyStep ==
    ASSUME IInv, NEW m \in appendReplies, AppendEntriesReply(m)
    PROVE  IInv'
<1> USE DEF Follower, Candidate, Leader
<1> DEFINE n == m.req.from
           p == m.req.to
           r == replica[n]
           acked == m.req.prevLogIndex + Len(m.req.entries)
           match == [matchIndex[n] EXCEPT ![p] = acked]
           r2 == advanceCommitIndex(n, r, match)
           r3 == IF r2.commitIndex = r.commitIndex THEN r ELSE maybeCompact(r2)
           current == state[n] = Leader /\ currentTerm[n] = m.req.term
                      /\ m.term <= currentTerm[n]
           rest == /\ appendReplies' = appendReplies \ {m}
                   /\ UNCHANGED <<knownLeader, votes, voteRpcs, appendReqs, snapReqs,
                                  restarts>>
<1>1. /\ TypeOK /\ ReplicasSound /\ DisksSound /\ MessagesSound
      /\ n \in Node /\ p \in Node /\ m.term \in Nat /\ acked \in Nat
      /\ m.req \in AppendReq /\ callInRange(m.req)
      /\ WellFormed(r) /\ TermsUpTo(r, currentTerm[n]) /\ lastLogIndex(r) \in Nat
      /\ currentTerm[n] \in Nat /\ votedFor[n] \in Node \cup {Nil}
  <2>1. /\ TypeOK /\ ReplicasSound /\ DisksSound /\ MessagesSound /\ m \in AppendReply
    BY DEF IInv, TypeOK
  <2>2. m.req \in AppendReq /\ callInRange(m.req) /\ m.term \in Nat
    BY <2>1 DEF AppendReply, IInv, CallsInRange
  <2>3. n \in Node /\ p \in Node /\ acked \in Nat
    BY <2>2 DEF AppendReq
  <2> QED BY <2>1, <2>2, <2>3, ReplicaFields DEF ReplicasSound, TypeOK
<1>2. \A q \in Node : lastLogIndex(replica[q]) \in Nat
  BY <1>1, ReplicaFields DEF ReplicasSound
<1>3. CASE restartFrom(n, disk[n], appendReqs) /\ UNCHANGED restarts
  <2>1. SoundDisk(disk[n]) /\ restarts' \in Nat
    BY <1>1, <1>3 DEF DisksSound, TypeOK
  <2> QED BY <1>1, <1>3, <2>1, RestartStep
<1>4. CASE /\ m.term > currentTerm[n]
           /\ becomeFollower(n, m.term, Nil)
           /\ UNCHANGED <<replica, disk, snapTasks>>
           /\ rest
  <2>1. /\ replica' = [replica EXCEPT ![n] = r] /\ TermsUpTo(r, m.term)
    BY <1>1, <1>4, TermsUpToMonotonic DEF TypeOK
  <2>2. knownLeader' = [knownLeader EXCEPT ![n] = knownLeader[n]]
        /\ knownLeader[n] \in Node \cup {Nil}
    BY <1>1, <1>4 DEF TypeOK
  <2>3. appendReplies' \subseteq AppendReply /\ appendReplies' \subseteq appendReplies
    BY <1>1, <1>4 DEF TypeOK
  <2>4. /\ votes' = votes /\ voteReqs' = voteReqs /\ voteReplies' = voteReplies
        /\ snapTasks' = snapTasks /\ snapReqs' = snapReqs /\ restarts' = restarts
        /\ appendReqs' \subseteq appendReqs /\ disk' = disk
        /\ m.term >= currentTerm[n] /\ becomeFollower(n, m.term, Nil)
    BY <1>1, <1>4 DEF voteRpcs
  <2> HIDE DEF n, r
  <2> QED BY <1>1, <2>1, <2>2, <2>3, <2>4, FollowSender
<1>5. CASE /\ UNCHANGED <<currentTerm, votedFor, state, replica, disk>>
           /\ \/ UNCHANGED <<leaderVars, snapTasks>>
              \/ /\ snapTasks' = snapTasks \cup
                        {[from |-> n, to |-> p, term |-> currentTerm[n]]}
                 /\ UNCHANGED leaderVars
              \/ /\ nextIndex[n][p] > r.snapshotIndex + 1
                 /\ nextIndex' = [nextIndex EXCEPT ![n][p] = @ - 1]
                 /\ UNCHANGED <<matchIndex, snapTasks>>
           /\ rest
  <2>1. /\ nextIndex' \in [Node -> [Node -> Nat]]
        /\ \A a, b \in Node : nextIndex'[a][b] <= nextIndex[a][b]
    <3>1. nextIndex \in [Node -> [Node -> Nat]] /\ r.snapshotIndex \in Nat
      BY <1>1, ReplicaFields DEF TypeOK
    <3>2. CASE nextIndex' = nextIndex
      BY <3>1, <3>2
    <3>3. CASE /\ nextIndex[n][p] > r.snapshotIndex + 1
               /\ nextIndex' = [nextIndex EXCEPT ![n][p] = @ - 1]
      <4> DEFINE x == nextIndex[n][p]
                 y == r.snapshotIndex
                 z == x - 1
      <4>1. x \in Nat /\ y \in Nat /\ x > y + 1
        BY <1>1, <3>1, <3>3
      <4>2. /\ nextIndex' = [nextIndex EXCEPT ![n][p] = z]
            /\ n \in Node /\ p \in Node
        BY <1>1, <3>3
      <4> HIDE DEF x, y, n, p
      <4>3. z \in Nat /\ z <= x
        BY <4>1
      <4> HIDE DEF z
      <4>4. nextIndex' \in [Node -> [Node -> Nat]]
        BY <3>1, <4>2, <4>3
      <4>5. \A a, b \in Node :
                nextIndex'[a][b] = IF a = n /\ b = p THEN z ELSE nextIndex[a][b]
        BY <3>1, <4>2
      <4>6. \A a, b \in Node : nextIndex[a][b] \in Nat
        BY <3>1
      <4> QED BY <4>3, <4>4, <4>5, <4>6 DEF x
    <3> QED BY <1>5, <3>2, <3>3 DEF leaderVars
  <2>2. snapTasks' \subseteq SnapTask
    <3>1. [from |-> n, to |-> p, term |-> currentTerm[n]] \in SnapTask
      BY <1>1 DEF SnapTask
    <3>2. snapTasks \subseteq SnapTask
      BY <1>1 DEF TypeOK
    <3> QED BY <1>5, <3>1, <3>2
  <2>3. TypeOK'
    BY <1>1, <1>5, <2>1, <2>2 DEF TypeOK, leaderVars, voteRpcs
  <2>4. ReplicasSound' /\ DisksSound' /\ MessagesSound'
    BY <1>1, <1>5 DEF ReplicasSound, DisksSound, MessagesSound
  <2>5. NextIndexInRange'
    <3> SUFFICES ASSUME NEW a \in Node, NEW b \in Node, state[a] = Leader
                 PROVE  nextIndex'[a][b] <= lastLogIndex(replica[a]) + 1
      BY <1>5 DEF NextIndexInRange
    <3>1. nextIndex[a][b] <= lastLogIndex(replica[a]) + 1
      BY DEF IInv, NextIndexInRange
    <3>2. nextIndex[a][b] \in Nat /\ nextIndex'[a][b] \in Nat
      BY <1>1, <2>1 DEF TypeOK
    <3> QED BY <1>2, <2>1, <3>1, <3>2
  <2>6. CallsInRange'
    BY <1>5 DEF IInv, CallsInRange, callInRange
  <2> QED BY <2>3, <2>4, <2>5, <2>6 DEF IInv
<1>6. CASE /\ current /\ m.success
           /\ matchIndex' = [matchIndex EXCEPT ![n] = match]
           /\ nextIndex' = [nextIndex EXCEPT ![n][p] = acked + 1]
           /\ replica' = [replica EXCEPT ![n] = r3]
           /\ disk' = IF r3.snapshotIndex = r.snapshotIndex THEN disk
                      ELSE written(n, r3, currentTerm[n], votedFor[n])
           /\ UNCHANGED <<currentTerm, votedFor, state, snapTasks>>
           /\ rest
  <2>1. WellFormed(r3) /\ SameTail(r, r3) /\ TermsUpTo(r3, currentTerm[n])
    BY <1>1, CommitKeeps
  <2>2. acked <= lastLogIndex(r)
    BY <1>1, <1>6 DEF callInRange
  <2>3. match \in [Node -> Nat]
    BY <1>1 DEF TypeOK
  <2> HIDE DEF r2, r3, match, acked
  <2>4. disk' \in [Node -> Disk] /\ DisksSound'
    <3>1. disk \in [Node -> Disk]
      BY <1>1 DEF TypeOK
    <3>2. CASE disk' = disk
      BY <1>1, <3>1, <3>2 DEF DisksSound
    <3>3. CASE disk' = written(n, r3, currentTerm[n], votedFor[n])
      BY <1>1, <2>1, <3>1, <3>3, WrittenSound DEF DisksSound
    <3> QED BY <1>6, <3>2, <3>3
  <2>5. /\ nextIndex' \in [Node -> [Node -> Nat]]
        /\ \A a, b \in Node :
               nextIndex'[a][b] = IF a = n /\ b = p THEN acked + 1 ELSE nextIndex[a][b]
    <3>1. nextIndex \in [Node -> [Node -> Nat]]
      BY <1>1 DEF TypeOK
    <3> QED BY <1>1, <1>6, <3>1
  <2>6. TypeOK'
    <3>1. replica' \in [Node -> Replica] /\ matchIndex' \in [Node -> [Node -> Nat]]
      BY <1>1, <1>6, <2>1, <2>3 DEF TypeOK, WellFormed
    <3> QED BY <1>1, <1>6, <2>4, <2>5, <3>1 DEF TypeOK, voteRpcs
  <2>7. \A q \in Node : /\ replica'[q] = IF q = n THEN r3 ELSE replica[q]
                        /\ lastLogIndex(replica'[q]) = lastLogIndex(replica[q])
    BY <1>1, <1>6, <2>1 DEF TypeOK, SameTail
  <2>8. ReplicasSound'
    BY <1>1, <1>6, <2>1, <2>7 DEF ReplicasSound
  <2>9. NextIndexInRange'
    <3> SUFFICES ASSUME NEW a \in Node, NEW b \in Node, state[a] = Leader
                 PROVE  nextIndex'[a][b] <= lastLogIndex(replica[a]) + 1
      BY <1>6, <2>7 DEF NextIndexInRange
    <3>1. nextIndex[a][b] <= lastLogIndex(replica[a]) + 1
      BY DEF IInv, NextIndexInRange
    <3> QED BY <1>1, <1>2, <2>2, <2>5, <3>1
  <2>10. MessagesSound'
    BY <1>1, <1>6 DEF MessagesSound
  <2>11. CallsInRange'
    <3>1. \A q \in Node : OfficeStep(q)
      BY <1>2, <1>6, <2>7 DEF OfficeStep
    <3>2. \A a \in appendReplies' : a \in appendReplies
      BY <1>6
    <3>3. appendReqs' = appendReqs
      BY <1>6
    <3> QED BY <1>1, <2>6, <2>8, <3>1, <3>2, <3>3, CallsStayInRange DEF IInv
  <2> QED BY <2>4, <2>6, <2>8, <2>9, <2>10, <2>11 DEF IInv
<1> HIDE DEF r2, r3, match, acked
<1> QED BY <1>3, <1>4, <1>5, <1>6 DEF AppendEntriesReply, r2, r3, match, acked

\* A crash and a graceful shutdown preserve the invariant.
LEMMA CrashStep ==
    ASSUME IInv, NEW n \in Node, crash(n) \/ shutdown(n)
    PROVE  IInv'
<1> DEFINE w == written(n, replica[n], currentTerm[n], votedFor[n])
<1>1. restarts' \in Nat
  BY DEF IInv, TypeOK, crash, shutdown
<1>2. SoundDisk(disk[n]) /\ SoundDisk(w[n])
  <2>1. /\ WellFormed(replica[n]) /\ TermsUpTo(replica[n], currentTerm[n])
        /\ currentTerm[n] \in Nat /\ votedFor[n] \in Node \cup {Nil}
        /\ DisksSound /\ disk \in [Node -> Disk]
    BY DEF IInv, ReplicasSound, TypeOK
  <2> QED BY <2>1, WrittenSound DEF DisksSound
<1> HIDE DEF w
<1>3. CASE crash(n)
  BY <1>1, <1>2, <1>3, RestartStep DEF crash
<1>4. CASE shutdown(n)
  BY <1>1, <1>2, <1>4, RestartStep DEF shutdown, w
<1> QED BY <1>3, <1>4

\* The state after NewRaftNode on empty disks satisfies the invariant.
LEMMA InitIInv == Init => IInv
<1> SUFFICES ASSUME Init PROVE IInv
  OBVIOUS
<1> USE DEF Follower, Candidate, Leader
<1>1. EmptyDisk \in Disk /\ Len(EmptyDisk.snapshot) = EmptyDisk.snapshotIndex
      /\ Len(EmptyDisk.log) = 0 /\ EmptyDisk.term = 0 /\ EmptyDisk.snapshotTerm = 0
  BY DEF EmptyDisk, Disk
<1>2. SoundDisk(EmptyDisk)
  BY <1>1 DEF SoundDisk, TermsUpTo
<1> DEFINE r == bootstrapFromStorage(EmptyDisk)
<1>3. WellFormed(r) /\ TermsUpTo(r, 0) /\ r \in Replica
  BY <1>1, <1>2, BootstrapWellFormed DEF WellFormed
<1>4. replica = [n \in Node |-> r] /\ disk = [n \in Node |-> EmptyDisk]
  BY DEF Init
<1> HIDE DEF r
<1>5. TypeOK
  <2>1. replica \in [Node -> Replica] /\ disk \in [Node -> Disk]
    BY <1>1, <1>3, <1>4
  <2>2. Zero \in [Node -> Nat]
    BY DEF Zero
  <2> QED BY <2>1, <2>2 DEF Init, TypeOK
<1>6. ReplicasSound /\ DisksSound
  BY <1>2, <1>3, <1>4 DEF Init, ReplicasSound, DisksSound
<1>7. MessagesSound /\ NextIndexInRange /\ CallsInRange
  BY DEF Init, MessagesSound, NextIndexInRange, CallsInRange
<1> QED BY <1>5, <1>6, <1>7 DEF IInv

\* A step that changes no variable preserves the invariant.
LEMMA StutterIInv ==
    ASSUME IInv, UNCHANGED vars
    PROVE  IInv'
<1>1. /\ replica' = replica /\ disk' = disk
      /\ snapTasks' = snapTasks /\ snapReqs' = snapReqs
      /\ voteReqs' = voteReqs /\ voteReplies' = voteReplies
      /\ appendReqs' = appendReqs /\ appendReplies' = appendReplies
      /\ knownLeader' = knownLeader /\ votes' = votes /\ restarts' = restarts
      /\ currentTerm' = currentTerm /\ votedFor' = votedFor /\ state' = state
      /\ nextIndex' = nextIndex /\ matchIndex' = matchIndex
  BY DEF vars, electionVars, leaderVars, voteRpcs, appendRpcs, snapRpcs
<1>2. TypeOK'
  BY <1>1 DEF IInv, TypeOK
<1> QED BY <1>1, <1>2 DEF IInv, ReplicasSound, DisksSound, MessagesSound,
                         NextIndexInRange, CallsInRange, callInRange

\* Every step of a cluster preserves the invariant.
LEMMA NextIInv == IInv /\ [Next]_vars => IInv'
<1> SUFFICES ASSUME IInv, [Next]_vars PROVE IInv'
  OBVIOUS
<1>1. ASSUME NEW n \in Node, startElection(n) PROVE IInv'
  BY <1>1, StartElectionStep
<1>2. ASSUME NEW m \in voteReqs, RequestVote(m) PROVE IInv'
  BY <1>2, RequestVoteStep
<1>3. ASSUME NEW m \in voteReplies, RequestVoteReply(m) PROVE IInv'
  BY <1>3, RequestVoteReplyStep
<1>4. ASSUME NEW n \in Node, NEW c \in Command, Propose(n, c) PROVE IInv'
  BY <1>4, ProposeStep
<1>5. ASSUME NEW n \in Node, NEW reach \in SUBSET peers(n), replicateAndCommit(n, reach)
      PROVE  IInv'
  BY <1>5, ReplicateAndCommitStep
<1>6. ASSUME NEW m \in appendReqs, AppendEntries(m) PROVE IInv'
  BY <1>6, AppendEntriesStep
<1>7. ASSUME NEW m \in appendReplies, AppendEntriesReply(m) PROVE IInv'
  BY <1>7, AppendEntriesReplyStep
<1>8. CASE loseAppend
  BY <1>8, LoseAppendStep
<1>9. ASSUME NEW t \in snapTasks, sendInstallSnapshot(t) PROVE IInv'
  BY <1>9, SendInstallSnapshotStep
<1>10. ASSUME NEW m \in snapReqs, InstallSnapshot(m) PROVE IInv'
  BY <1>10, InstallSnapshotStep
<1>11. ASSUME NEW n \in Node, crash(n) \/ shutdown(n) PROVE IInv'
  BY <1>11, CrashStep
<1>12. CASE UNCHANGED vars
  BY <1>12, StutterIInv
<1> QED BY <1>1, <1>2, <1>3, <1>4, <1>5, <1>6, <1>7, <1>8, <1>9, <1>10, <1>11, <1>12
        DEF Next

\* The invariant holds in every reachable state of a cluster of any size.
LEMMA Invariance == Spec => []IInv
BY InitIInv, NextIInv, PTL DEF Spec

-----------------------------------------------------------------------------
(* The theorems.                                                           *)

\* Every handler leaves values of their types behind: no apply loop, slice of
\* the log or term lookup of raft_node.go reads an entry that is not there.
THEOREM TypeCorrect == Spec => []TypeOK
<1>1. IInv => TypeOK
  BY DEF IInv
<1> QED BY <1>1, Invariance, PTL

\* The FSM holds one command per applied index, through truncation, compaction,
\* snapshots and restarts (applyCommittedLocked, InstallSnapshot,
\* bootstrapFromStorage).
THEOREM FsmStaysInStep == Spec => []FsmInStep
<1>1. IInv => FsmInStep
  BY DEF IInv, ReplicasSound, WellFormed, FsmInStep
<1> QED BY <1>1, Invariance, PTL

\* collectReplicationTasks never slices past the end of the leader's log, in
\* spite of late answers and of terms that fall back in a restart.
THEOREM NextIndexSafe == Spec => []NextIndexInRange
<1>1. IInv => NextIndexInRange
  BY DEF IInv
<1> QED BY <1>1, Invariance, PTL

\* Every call a leader waits for ends inside its log.
THEOREM CallsSafe == Spec => []CallsInRange
<1>1. IInv => CallsInRange
  BY DEF IInv
<1> QED BY <1>1, Invariance, PTL

\* No node holds an entry or a snapshot of a term it has not reached, although
\* RequestVote and startElection never persist the term.
THEOREM TermsSafe == Spec => []LogTermsBounded
<1>1. IInv => LogTermsBounded
  BY DEF IInv, ReplicasSound, TermsUpTo, LogTermsBounded
<1> QED BY <1>1, Invariance, PTL

-----------------------------------------------------------------------------
(* The action property.                                                    *)

\* A well-formed replica extends itself.
LEMMA ExtendsItself ==
    ASSUME NEW r, WellFormed(r)
    PROVE  extends(r, r)
BY ReplicaFields DEF extends

\* A step that leaves every replica alone appends trivially.
LEMMA SameReplicasAppend ==
    ASSUME IInv, replica' = replica
    PROVE  leaderAppends
BY ExtendsItself DEF leaderAppends, IInv, ReplicasSound

\* A step that replaces the replica of one node that does not lead afterwards.
LEMMA FollowerReplaces ==
    ASSUME IInv, NEW n \in Node, NEW r, replica' = [replica EXCEPT ![n] = r],
           state'[n] # Leader
    PROVE  leaderAppends
<1> SUFFICES ASSUME NEW p \in Node, state'[p] = Leader
             PROVE  extends(replica'[p], replica[p])
  BY DEF leaderAppends
<1>1. p # n
  OBVIOUS
<1>2. replica'[p] = replica[p]
  BY <1>1 DEF IInv, TypeOK
<1> QED BY <1>2, ExtendsItself DEF IInv, ReplicasSound

\* A step that replaces the replica of one node by one that extends it.
LEMMA LeaderExtends ==
    ASSUME IInv, NEW n \in Node, NEW r, replica' = [replica EXCEPT ![n] = r],
           extends(r, replica[n])
    PROVE  leaderAppends
<1> SUFFICES ASSUME NEW p \in Node
             PROVE  extends(replica'[p], replica[p])
  BY DEF leaderAppends
<1>1. replica'[p] = IF p = n THEN r ELSE replica[p]
  BY DEF IInv, TypeOK
<1> QED BY <1>1, ExtendsItself DEF IInv, ReplicasSound

\* Propose only adds one entry to the log of the leader.
LEMMA ProposeAppends ==
    ASSUME IInv, NEW n \in Node, NEW c \in Command, Propose(n, c)
    PROVE  leaderAppends
<1> DEFINE e == [term |-> currentTerm[n], cmd |-> c]
           q == replica[n]
           log2 == Append(q.log, e)
           r == [q EXCEPT !.log = log2]
<1>1. replica' = [replica EXCEPT ![n] = r]
  BY DEF Propose
<1>2. WellFormed(q) /\ currentTerm[n] \in Nat
  BY DEF IInv, ReplicasSound, TypeOK
<1>3. e \in Entry
  BY <1>2 DEF Entry
<1>4. /\ q \in Replica /\ q.log \in Seq(Entry) /\ Len(q.log) \in Nat
      /\ q.snapshotIndex \in Nat
      /\ lastLogIndex(q) = q.snapshotIndex + Len(q.log)
  BY <1>2, ReplicaFields
<1> HIDE DEF e, q
<1>5. /\ log2 \in Seq(Entry) /\ Len(log2) = Len(q.log) + 1
      /\ \A i \in 1..Len(q.log) : log2[i] = q.log[i]
  BY <1>3, <1>4, AppendProperties
<1> HIDE DEF log2
<1>6. r.log = log2 /\ r.snapshotIndex = q.snapshotIndex
  BY <1>4, <1>5 DEF Replica
<1> HIDE DEF r
<1>7. extends(r, q)
  <2>1. lastLogIndex(q) <= lastLogIndex(r)
    BY <1>4, <1>5, <1>6 DEF lastLogIndex
  <2>2. \A i \in (r.snapshotIndex + 1)..lastLogIndex(q) :
            i - q.snapshotIndex \in 1..Len(q.log)
    BY <1>4, <1>6
  <2>3. \A i \in (r.snapshotIndex + 1)..lastLogIndex(q) :
            r.log[i - r.snapshotIndex] = q.log[i - q.snapshotIndex]
    BY <1>5, <1>6, <2>2
  <2> QED BY <2>1, <2>3 DEF extends
<1> QED BY <1>1, <1>7, LeaderExtends DEF q

\* Commit and compaction in handleAppendEntriesReply keep every entry after the snapshot.
LEMMA ReplyAppends ==
    ASSUME IInv, NEW m \in appendReplies, AppendEntriesReply(m)
    PROVE  leaderAppends
<1> DEFINE n == m.req.from
           r == replica[n]
           acked == m.req.prevLogIndex + Len(m.req.entries)
           match == [matchIndex[n] EXCEPT ![m.req.to] = acked]
           r2 == advanceCommitIndex(n, r, match)
           r3 == IF r2.commitIndex = r.commitIndex THEN r ELSE maybeCompact(r2)
<1>1. n \in Node /\ WellFormed(r)
  BY DEF IInv, TypeOK, AppendReply, AppendReq, ReplicasSound
<1>2. CASE restartFrom(n, disk[n], appendReqs)
  <2>1. replica' = [replica EXCEPT ![n] = bootstrapFromStorage(disk[n])]
        /\ state'[n] # Leader
    BY <1>1, <1>2 DEF restartFrom, becomeFollower, IInv, TypeOK, Follower, Leader
  <2> QED BY <1>1, <2>1, FollowerReplaces
<1>3. CASE replica' = replica
  BY <1>3, SameReplicasAppend
<1>4. CASE replica' = [replica EXCEPT ![n] = r3]
  <2>1. SameTail(r, r3) /\ WellFormed(r3)
    BY <1>1, CommitKeeps
  <2>2. lastLogIndex(r) \in Nat
    BY <1>1, ReplicaFields
  <2> HIDE DEF r3, r2
  <2>3. extends(r3, r)
    BY <2>1, <2>2 DEF SameTail, extends
  <2> QED BY <1>1, <1>4, <2>3, LeaderExtends
<1> QED BY <1>2, <1>3, <1>4 DEF AppendEntriesReply

\* No step of a cluster rewrites the log of a node that leads before and after it.
LEMMA NextAppends == IInv /\ [Next]_vars => [leaderAppends]_vars
<1> SUFFICES ASSUME IInv, Next PROVE leaderAppends
  OBVIOUS
<1> USE DEF Follower, Leader
<1>1. CASE replica' = replica
  BY <1>1, SameReplicasAppend
<1>2. ASSUME NEW n \in Node, NEW d, NEW reqs, restartFrom(n, d, reqs) PROVE leaderAppends
  <2>1. replica' = [replica EXCEPT ![n] = bootstrapFromStorage(d)] /\ state'[n] # Leader
    BY <1>2 DEF restartFrom, becomeFollower, IInv, TypeOK
  <2> QED BY <2>1, FollowerReplaces
<1>3. ASSUME NEW n \in Node, NEW term, NEW r, becomeFollower(n, term, Nil),
             replica' = [replica EXCEPT ![n] = r]
      PROVE  leaderAppends
  <2>1. state'[n] # Leader
    BY <1>3 DEF becomeFollower, IInv, TypeOK
  <2> QED BY <1>3, <2>1, FollowerReplaces
<1>4. ASSUME NEW m \in appendReqs, AppendEntries(m) PROVE leaderAppends
  <2>1. m.to \in Node
    BY DEF IInv, TypeOK, AppendReq
  <2> QED BY <1>1, <1>2, <1>3, <1>4, <2>1 DEF AppendEntries
<1>5. ASSUME NEW m \in snapReqs, InstallSnapshot(m) PROVE leaderAppends
  <2>1. m.to \in Node
    BY DEF IInv, TypeOK, SnapReq
  <2> QED BY <1>1, <1>3, <1>5, <2>1 DEF InstallSnapshot
<1>6. ASSUME NEW n \in Node, crash(n) \/ shutdown(n) PROVE leaderAppends
  BY <1>2, <1>6 DEF crash, shutdown
<1>7. ASSUME NEW n \in Node, startElection(n) PROVE leaderAppends
  BY <1>1, <1>7 DEF startElection
<1>8. ASSUME NEW m \in voteReqs, RequestVote(m) PROVE leaderAppends
  BY <1>1, <1>8 DEF RequestVote
<1>9. ASSUME NEW m \in voteReplies, RequestVoteReply(m) PROVE leaderAppends
  BY <1>1, <1>9 DEF RequestVoteReply
<1>10. ASSUME NEW n \in Node, NEW reach \in SUBSET peers(n), replicateAndCommit(n, reach)
       PROVE  leaderAppends
  BY <1>1, <1>10 DEF replicateAndCommit
<1>11. ASSUME NEW t \in snapTasks, sendInstallSnapshot(t) PROVE leaderAppends
  BY <1>1, <1>11 DEF sendInstallSnapshot
<1>12. CASE loseAppend
  BY <1>1, <1>12 DEF loseAppend
<1> QED BY <1>4, <1>5, <1>6, <1>7, <1>8, <1>9, <1>10, <1>11, <1>12,
           ProposeAppends, ReplyAppends DEF Next

\* No handler makes a leader drop or rewrite an entry of its own log while it
\* leads: AppendEntries and InstallSnapshot make it step down first, and
\* compaction in handleAppendEntriesReply only removes what is in the snapshot.
THEOREM LeaderKeepsLog == Spec => LeaderAppendOnly
BY Invariance, NextAppends, PTL DEF Spec, LeaderAppendOnly

-----------------------------------------------------------------------------
(* Compaction.  The apply loop may leave lastApplied past                  *)
(* the end of a log that a late request has cut, but never by so much that *)
(* a log long enough to be compacted ends before it.                       *)

Recent(r) == r.lastApplied < r.snapshotIndex + CompactThreshold

NothingStored == disk = [n \in Node |-> EmptyDisk]

RecentInv == (Durable = FALSE => NothingStored) /\ \A n \in Node : Recent(replica[n])

\* No process starts from a log that it has stored.
NothingRecovered == Durable = FALSE \/ MaxRestarts = 0

\* What the apply loop feeds the FSM.
LEMMA Applied ==
    ASSUME NEW r, WellFormed(r)
    PROVE  LET s == applyCommitted(r) IN
           /\ s.lastApplied \in Nat /\ s.lastApplied >= r.lastApplied
           /\ \/ s.lastApplied = r.lastApplied
              \/ s.lastApplied <= r.commitIndex /\ s.lastApplied <= lastLogIndex(r)
           /\ s.snapshot = r.snapshot
           /\ \A i \in 1..r.lastApplied : s.fsm[i] = r.fsm[i]
           /\ \A i \in (r.lastApplied + 1)..s.lastApplied :
                  /\ i - r.snapshotIndex \in 1..Len(r.log)
                  /\ s.fsm[i] = r.log[i - r.snapshotIndex].cmd
<1> DEFINE upTo == applicable(r)
           cmdAt(i) == r.log[i - r.snapshotIndex].cmd
           fed == [k \in 1..(upTo - r.lastApplied) |-> cmdAt(r.lastApplied + k)]
           s == applyCommitted(r)
<1>1. /\ r \in Replica /\ r.fsm \in Seq(Command) /\ Len(r.log) \in Nat
      /\ r.snapshotIndex \in Nat /\ r.lastApplied \in Nat /\ r.commitIndex \in Nat
      /\ r.snapshotIndex <= r.lastApplied /\ Len(r.fsm) = r.lastApplied
      /\ lastLogIndex(r) = r.snapshotIndex + Len(r.log)
  BY ReplicaFields
<1>2. /\ upTo \in Nat /\ upTo >= r.lastApplied
      /\ upTo = r.lastApplied \/ (upTo <= r.commitIndex /\ upTo <= r.snapshotIndex + Len(r.log))
  BY <1>1 DEF applicable, Greater, Lesser
<1>3. s.lastApplied = upTo /\ s.fsm = r.fsm \o fed /\ s.snapshot = r.snapshot
  BY <1>1 DEF applyCommitted, Replica
<1> HIDE DEF upTo, s
<1>4. DOMAIN fed = 1..(upTo - r.lastApplied) /\ upTo - r.lastApplied \in Nat
  BY <1>1, <1>2
<1>5. Len(fed) = upTo - r.lastApplied
  BY <1>4
<1>6. \A k \in 1..(upTo - r.lastApplied) :
        /\ (r.lastApplied + k) - r.snapshotIndex \in 1..Len(r.log)
        /\ cmdAt(r.lastApplied + k) \in Command
  <2> SUFFICES ASSUME NEW k \in 1..(upTo - r.lastApplied)
               PROVE  /\ (r.lastApplied + k) - r.snapshotIndex \in 1..Len(r.log)
                      /\ cmdAt(r.lastApplied + k) \in Command
    OBVIOUS
  <2>1. (r.lastApplied + k) - r.snapshotIndex \in 1..Len(r.log)
    BY <1>1, <1>2
  <2>2. r.log[(r.lastApplied + k) - r.snapshotIndex] \in Entry
    BY <2>1, ReplicaFields
  <2> QED BY <2>1, <2>2 DEF Entry
<1>7. fed \in Seq(Command)
  <2> DEFINE len == upTo - r.lastApplied
             e(k) == cmdAt(r.lastApplied + k)
  <2>1. len \in Nat /\ fed = [k \in 1..len |-> e(k)] /\ \A k \in 1..len : e(k) \in Command
    BY <1>4, <1>6
  <2> HIDE DEF len, e, fed
  <2> QED BY <2>1, IsASeq
<1>8. \A k \in 1..(upTo - r.lastApplied) : fed[k] = cmdAt(r.lastApplied + k)
  OBVIOUS
<1> HIDE DEF fed
<1>9. \A i \in 1..(Len(r.fsm) + Len(fed)) :
        (r.fsm \o fed)[i] = IF i <= Len(r.fsm) THEN r.fsm[i] ELSE fed[i - Len(r.fsm)]
  BY <1>1, <1>7, ConcatProperties
<1>10. ASSUME NEW i \in (r.lastApplied + 1)..upTo
       PROVE  /\ i - r.snapshotIndex \in 1..Len(r.log)
              /\ (r.fsm \o fed)[i] = cmdAt(i)
  <2>1. PICK k \in 1..(upTo - r.lastApplied) : i = r.lastApplied + k
    <3>1. i - r.lastApplied \in 1..(upTo - r.lastApplied) /\ i = r.lastApplied + (i - r.lastApplied)
      BY <1>1, <1>2
    <3> QED BY <3>1
  <2>2. i \in 1..(Len(r.fsm) + Len(fed)) /\ ~(i <= Len(r.fsm)) /\ i - Len(r.fsm) = k
    <3>1. Len(r.fsm) = r.lastApplied /\ r.lastApplied \in Nat
      BY <1>1
    <3>2. Len(r.fsm) + Len(fed) = upTo
      BY <1>2, <1>5, <3>1
    <3>3. k \in Nat /\ k >= 1 /\ i \in Int /\ i <= upTo
      BY <1>2, <1>4, <3>1
    <3>4. i = r.lastApplied + k
      BY <2>1
    <3>5. i \in 1..upTo /\ ~(i <= r.lastApplied) /\ i - r.lastApplied = k
      <4> DEFINE a == r.lastApplied
      <4>1. a \in Nat /\ i = a + k
        BY <3>1, <3>4
      <4> HIDE DEF a
      <4>2. i \in 1..upTo /\ ~(i <= a) /\ i - a = k
        BY <1>2, <3>3, <4>1
      <4> QED BY <4>2 DEF a
    <3> QED BY <3>1, <3>2, <3>5
  <2>3. (r.fsm \o fed)[i] = fed[k]
    BY <1>9, <2>2
  <2>4. fed[k] = cmdAt(i)
    BY <1>8, <2>1
  <2>5. i - r.snapshotIndex \in 1..Len(r.log)
    BY <1>6, <2>1
  <2> QED BY <2>3, <2>4, <2>5
<1>11. \A i \in 1..r.lastApplied : (r.fsm \o fed)[i] = r.fsm[i]
  BY <1>1, <1>5, <1>9
<1> QED BY <1>1, <1>2, <1>3, <1>10, <1>11 DEF s

\* From r a handler has come to s, the apply loop included: no panic, and
\* after the compaction the FSM is not far from the snapshot.
LEMMA CompactedRecently ==
    ASSUME NEW r, WellFormed(r), Recent(r), NEW s, WellFormed(s),
           s.snapshotIndex = r.snapshotIndex,
           s.lastApplied = r.lastApplied \/ s.lastApplied <= lastLogIndex(s)
    PROVE  /\ ~compactionPanics(s)
           /\ Recent(maybeCompact(s))
<1>1. /\ s \in Replica /\ s.snapshotIndex \in Nat /\ s.lastApplied \in Nat
      /\ Len(s.log) \in Nat /\ lastLogIndex(s) = s.snapshotIndex + Len(s.log)
      /\ CompactThreshold \in Nat /\ CompactThreshold >= 1
  BY ReplicaFields, ConstantsAssumption
<1>2. r.lastApplied < s.snapshotIndex + CompactThreshold
  BY DEF Recent
<1>3. ~compactionPanics(s)
  BY <1>1, <1>2 DEF compactionPanics, compactionDue
<1>4. CASE compactionDue(s)
  <2>1. maybeCompact(s).lastApplied = s.lastApplied
        /\ maybeCompact(s).snapshotIndex = s.lastApplied
    BY <1>1, <1>3, <1>4 DEF maybeCompact, Replica
  <2> QED BY <1>1, <1>3, <2>1 DEF Recent
<1>5. CASE ~compactionDue(s)
  <2>1. maybeCompact(s) = s
    BY <1>5 DEF maybeCompact
  <2>2. s.lastApplied < s.snapshotIndex + CompactThreshold
    BY <1>1, <1>2, <1>5 DEF compactionDue
  <2> QED BY <1>3, <2>1, <2>2 DEF Recent
<1> QED BY <1>4, <1>5

\* The log that AppendEntries m leaves.
logAfter(r, m) ==
    IF m.entries = <<>> THEN r.log
    ELSE SubSeq(r.log, 1, m.prevLogIndex - r.snapshotIndex) \o m.entries

\* What appended makes of a replica, in the fields.
LEMMA AppendedFields ==
    ASSUME NEW r, WellFormed(r), NEW m \in AppendReq, prevMatches(r, m)
    PROVE  \E c : /\ WellFormed(c) /\ appended(r, m) = applyCommitted(c)
                  /\ c.log = logAfter(r, m) /\ c.snapshotIndex = r.snapshotIndex
                  /\ c.snapshotTerm = r.snapshotTerm /\ c.snapshot = r.snapshot
                  /\ c.lastApplied = r.lastApplied /\ c.fsm = r.fsm
                  /\ \/ c.commitIndex = r.commitIndex
                     \/ c.commitIndex <= m.leaderCommit
<1> DEFINE keep == m.prevLogIndex - r.snapshotIndex
           log2 == logAfter(r, m)
           commit2 == IF m.leaderCommit > r.commitIndex
                      THEN Lesser(m.leaderCommit, r.snapshotIndex + Len(log2))
                      ELSE r.commitIndex
           c == [r EXCEPT !.log = log2, !.commitIndex = commit2]
<1>1. /\ m.entries \in Seq(Entry) /\ m.leaderCommit \in Nat /\ m.prevLogIndex \in Nat
      /\ r \in Replica /\ r.log \in Seq(Entry) /\ Len(r.log) \in Nat
      /\ r.commitIndex \in Nat /\ r.snapshotIndex \in Nat
      /\ lastLogIndex(r) = r.snapshotIndex + Len(r.log)
  BY ReplicaFields DEF AppendReq
<1>2. keep \in 0..Len(r.log)
  BY <1>1 DEF prevMatches
<1>3. log2 \in Seq(Entry) /\ Len(log2) \in Nat
  <2>1. SubSeq(r.log, 1, keep) \in Seq(Entry)
    BY <1>1, <1>2
  <2>2. SubSeq(r.log, 1, keep) \o m.entries \in Seq(Entry)
    BY <1>1, <2>1
  <2> QED BY <1>1, <2>2 DEF logAfter
<1>4. commit2 \in Nat /\ (commit2 = r.commitIndex \/ commit2 <= m.leaderCommit)
  BY <1>1, <1>3 DEF Lesser
<1>5. appended(r, m) = applyCommitted(c)
  BY DEF appended, logAfter
<1> HIDE DEF commit2, log2
<1>6. /\ c.log = log2 /\ c.snapshotIndex = r.snapshotIndex
      /\ c.snapshotTerm = r.snapshotTerm /\ c.snapshot = r.snapshot
      /\ c.lastApplied = r.lastApplied /\ c.fsm = r.fsm
      /\ c.commitIndex = commit2 /\ c \in Replica
  BY <1>1, <1>3, <1>4 DEF Replica
<1>7. WellFormed(c)
  BY <1>6 DEF WellFormed
<1> HIDE DEF c
<1> QED BY <1>4, <1>5, <1>6, <1>7 DEF log2

\* What advanceCommitIndexLocked makes of a replica, in the fields.
LEMMA AdvancedFields ==
    ASSUME NEW r, WellFormed(r), NEW n, NEW match
    PROVE  \/ advanceCommitIndex(n, r, match) = r
           \/ \E c : /\ WellFormed(c) /\ advanceCommitIndex(n, r, match) = applyCommitted(c)
                     /\ c.log = r.log /\ c.snapshotIndex = r.snapshotIndex
                     /\ c.snapshotTerm = r.snapshotTerm /\ c.snapshot = r.snapshot
                     /\ c.lastApplied = r.lastApplied /\ c.fsm = r.fsm
                     /\ c.commitIndex <= lastLogIndex(r)
                     /\ c.commitIndex # r.commitIndex
<1> DEFINE acked(i) == {n} \cup {p \in peers(n) : match[p] >= i}
           ready == {i \in Greater(r.commitIndex + 1, r.snapshotIndex)..lastLogIndex(r) :
                         /\ termAt(r, i) = currentTerm[n]
                         /\ Cardinality(acked(i)) >= majority}
           last == CHOOSE i \in ready : \A j \in ready : j <= i
           c == [r EXCEPT !.commitIndex = last]
<1>1. advanceCommitIndex(n, r, match) =
          IF ready = {} THEN r ELSE applyCommitted(c)
  BY DEF advanceCommitIndex
<1>2. /\ ready \in SUBSET Nat
      /\ \A i \in ready : i <= lastLogIndex(r) /\ i > r.commitIndex
      /\ lastLogIndex(r) \in Nat /\ r \in Replica
  BY ReplicaFields DEF Greater
<1> HIDE DEF ready
<1>3. CASE ready # {}
  <2>1. last \in ready
    BY <1>2, <1>3, LastExists
  <2>2. last \in Nat /\ last <= lastLogIndex(r) /\ last > r.commitIndex
    BY <1>2, <2>1
  <2> HIDE DEF last
  <2>3. /\ c.log = r.log /\ c.snapshotIndex = r.snapshotIndex
        /\ c.snapshotTerm = r.snapshotTerm /\ c.snapshot = r.snapshot
        /\ c.lastApplied = r.lastApplied /\ c.fsm = r.fsm
        /\ c.commitIndex = last /\ c \in Replica
    BY <1>2, <2>2 DEF Replica
  <2>4. WellFormed(c) /\ r.commitIndex \in Nat
    BY <2>3, ReplicaFields DEF WellFormed
  <2>5. c.commitIndex <= lastLogIndex(r) /\ c.commitIndex # r.commitIndex
    BY <2>2, <2>3, <2>4
  <2> HIDE DEF c
  <2> QED BY <1>1, <1>3, <2>3, <2>4, <2>5
<1> QED BY <1>1, <1>3

\* AppendEntries on a replica whose FSM is not far from its snapshot.
LEMMA AppendedRecently ==
    ASSUME NEW r, WellFormed(r), Recent(r), NEW m \in AppendReq, prevMatches(r, m)
    PROVE  /\ ~compactionPanics(appended(r, m))
           /\ Recent(maybeCompact(appended(r, m)))
<1> DEFINE s == appended(r, m)
<1>1. PICK c : /\ WellFormed(c) /\ s = applyCommitted(c)
               /\ c.snapshotIndex = r.snapshotIndex /\ c.lastApplied = r.lastApplied
  <2> HIDE DEF s
  <2>1. \E c : /\ WellFormed(c) /\ appended(r, m) = applyCommitted(c)
               /\ c.snapshotIndex = r.snapshotIndex /\ c.lastApplied = r.lastApplied
    BY AppendedFields
  <2> QED BY <2>1 DEF s
<1>2. /\ WellFormed(s) /\ s.log = c.log /\ s.snapshotIndex = c.snapshotIndex
      /\ s.lastApplied = c.lastApplied \/ s.lastApplied <= lastLogIndex(c)
  BY <1>1, ApplyCommittedKeeps, Applied
<1> HIDE DEF s
<1>3. lastLogIndex(c) = lastLogIndex(s)
  BY <1>2 DEF lastLogIndex
<1>4. s.snapshotIndex = r.snapshotIndex
      /\ (s.lastApplied = r.lastApplied \/ s.lastApplied <= lastLogIndex(s))
  BY <1>1, <1>2, <1>3
<1>5. ~compactionPanics(s) /\ Recent(maybeCompact(s))
  BY <1>2, <1>4, CompactedRecently
<1> QED BY <1>5 DEF s

\* The same of the leader that advances its commit index.
LEMMA CommittedRecently ==
    ASSUME NEW r, WellFormed(r), Recent(r), NEW n, NEW match,
           NEW s, s = advanceCommitIndex(n, r, match)
    PROVE  /\ ~compactionPanics(s)
           /\ Recent(maybeCompact(s))
<1>1. CASE s = r
  BY <1>1, CompactedRecently
<1>2. CASE s # r
  <2>1. PICK c : /\ WellFormed(c) /\ s = applyCommitted(c)
                 /\ c.snapshotIndex = r.snapshotIndex /\ c.lastApplied = r.lastApplied
    BY <1>2, AdvancedFields
  <2>2. /\ WellFormed(s) /\ s.log = c.log /\ s.snapshotIndex = c.snapshotIndex
        /\ s.lastApplied = c.lastApplied \/ s.lastApplied <= lastLogIndex(c)
    BY <2>1, ApplyCommittedKeeps, Applied
  <2>3. lastLogIndex(c) = lastLogIndex(s)
    BY <2>2 DEF lastLogIndex
  <2> QED BY <2>1, <2>2, <2>3, CompactedRecently
<1> QED BY <1>1, <1>2

\* A process that starts without a stored state has an empty log.
LEMMA EmptyStart ==
    LET r == bootstrapFromStorage(EmptyDisk) IN
    /\ WellFormed(r) /\ r.log = <<>> /\ r.snapshotIndex = 0 /\ r.snapshotTerm = 0
    /\ r.snapshot = <<>> /\ r.lastApplied = 0 /\ r.commitIndex = 0
<1> DEFINE none == [i \in Index |-> Nil]
           c == [log |-> <<>>, snapshotIndex |-> 0, snapshotTerm |-> 0,
                 snapshot |-> <<>>, commitIndex |-> 0, lastApplied |-> 0,
                 fsm |-> <<>>, applyResults |-> none]
<1>1. none \in [Index -> Command \cup {Nil}]
  OBVIOUS
<1>2. bootstrapFromStorage(EmptyDisk) = applyCommitted(c)
  BY DEF bootstrapFromStorage, EmptyDisk, Greater
<1> HIDE DEF none
<1>3. /\ c \in Replica /\ c.log = <<>> /\ c.snapshotIndex = 0 /\ c.snapshotTerm = 0
      /\ c.snapshot = <<>> /\ c.lastApplied = 0 /\ c.commitIndex = 0 /\ c.fsm = <<>>
  BY <1>1 DEF Replica
<1> HIDE DEF c
<1>4. WellFormed(c)
  BY <1>3 DEF WellFormed
<1>5. LET r == applyCommitted(c) IN
      /\ WellFormed(r) /\ r.log = c.log /\ r.snapshotIndex = c.snapshotIndex
      /\ r.snapshotTerm = c.snapshotTerm /\ r.commitIndex = c.commitIndex
  BY <1>4, ApplyCommittedKeeps
<1>6. LET r == applyCommitted(c) IN
      /\ r.lastApplied \in Nat /\ r.lastApplied >= c.lastApplied
      /\ r.lastApplied = c.lastApplied \/ r.lastApplied <= c.commitIndex
      /\ r.snapshot = c.snapshot
  BY <1>4, Applied
<1> QED BY <1>2, <1>3, <1>5, <1>6

\* One replica changes, to one that is recent.
LEMMA RecentUpdate ==
    ASSUME RecentInv, NEW n \in Node, NEW r, replica' = [replica EXCEPT ![n] = r],
           Recent(r), Durable = FALSE => disk' = disk, replica \in [Node -> Replica]
    PROVE  RecentInv'
<1>1. \A p \in Node : replica'[p] = IF p = n THEN r ELSE replica[p]
  OBVIOUS
<1>2. \A p \in Node : Recent(replica'[p])
  BY <1>1 DEF RecentInv
<1> QED BY <1>2 DEF RecentInv, NothingStored

\* A restart without storage.
LEMMA RecentRestart ==
    ASSUME RecentInv, Durable = FALSE, NEW n \in Node, NEW reqs,
           restartFrom(n, EmptyDisk, reqs), replica \in [Node -> Replica]
    PROVE  RecentInv'
<1>1. Recent(bootstrapFromStorage(EmptyDisk))
  BY EmptyStart, ConstantsAssumption DEF Recent
<1>2. /\ replica' = [replica EXCEPT ![n] = bootstrapFromStorage(EmptyDisk)]
      /\ disk' = [disk EXCEPT ![n] = EmptyDisk]
  BY DEF restartFrom
<1>3. disk' = disk
  <2>1. disk = [p \in Node |-> EmptyDisk]
    BY DEF RecentInv, NothingStored
  <2> HIDE DEF EmptyDisk
  <2> QED BY <1>2, <2>1
<1> QED BY <1>1, <1>2, <1>3, RecentUpdate

\* Every step keeps the FSM close to the snapshot.
LEMMA RecentNext ==
    ASSUME NothingRecovered, IInv, RecentInv, [Next]_vars
    PROVE  RecentInv'
<1>1. /\ replica \in [Node -> Replica] /\ appendReqs \subseteq AppendReq
      /\ appendReplies \subseteq AppendReply /\ snapReqs \subseteq SnapReq
      /\ \A n \in Node : WellFormed(replica[n]) /\ Recent(replica[n])
      /\ restarts \in Nat
  BY DEF IInv, TypeOK, ReplicasSound, RecentInv, NothingStored
<1>2. \A n \in Node : \A r, t, v : Durable = FALSE => written(n, r, t, v) = disk
  BY DEF written
<1>3. CASE replica' = replica /\ (Durable = FALSE => disk' = disk)
  BY <1>3 DEF RecentInv, NothingStored
<1>4. ASSUME NEW n \in Node, NEW c \in Command, Propose(n, c) PROVE RecentInv'
  <2> DEFINE r == [replica[n] EXCEPT !.log = Append(@, [term |-> currentTerm[n], cmd |-> c])]
  <2>1. replica' = [replica EXCEPT ![n] = r] /\ (Durable = FALSE => disk' = disk)
    BY <1>2, <1>4 DEF Propose
  <2>2. r.lastApplied = replica[n].lastApplied /\ r.snapshotIndex = replica[n].snapshotIndex
    BY <1>1 DEF Replica
  <2>3. Recent(r)
    BY <1>1, <2>2 DEF Recent
  <2> QED BY <1>1, <2>1, <2>3, RecentUpdate
<1>5. ASSUME NEW m \in appendReqs, AppendEntries(m) PROVE RecentInv'
  <2> DEFINE n == m.to
             r == appended(replica[n], m)
  <2>1. m \in AppendReq /\ n \in Node
    BY <1>1 DEF AppendReq
  <2>2. CASE replica' = replica /\ (Durable = FALSE => disk' = disk)
    BY <1>3, <2>2
  <2>3. CASE prevMatches(replica[n], m)
    <3>1. ~compactionPanics(r) /\ Recent(maybeCompact(r))
      BY <1>1, <2>1, <2>3, AppendedRecently
    <3>2. CASE replica' = [replica EXCEPT ![n] = maybeCompact(r)] /\ (Durable = FALSE => disk' = disk)
      BY <1>1, <2>1, <3>1, <3>2, RecentUpdate
    <3> HIDE DEF r
    <3> QED BY <1>2, <1>5, <2>1, <2>2, <2>3, <3>1, <3>2 DEF AppendEntries, r
  <2> QED BY <1>5, <2>2, <2>3 DEF AppendEntries
<1>6. ASSUME NEW m \in appendReplies, AppendEntriesReply(m) PROVE RecentInv'
  <2> DEFINE n == m.req.from
             acked == m.req.prevLogIndex + Len(m.req.entries)
             match == [matchIndex[n] EXCEPT ![m.req.to] = acked]
             r2 == advanceCommitIndex(n, replica[n], match)
             r3 == IF r2.commitIndex = replica[n].commitIndex THEN replica[n]
                   ELSE maybeCompact(r2)
  <2>1. n \in Node
    BY <1>1 DEF AppendReply, AppendReq
  <2>2. ~compactionPanics(r2) /\ Recent(maybeCompact(r2))
    BY <1>1, <2>1, CommittedRecently
  <2>3. Recent(r3)
    BY <1>1, <2>1, <2>2
  <2>4. CASE replica' = replica /\ (Durable = FALSE => disk' = disk)
    BY <1>3, <2>4
  <2>5. CASE replica' = [replica EXCEPT ![n] = r3] /\ (Durable = FALSE => disk' = disk)
    BY <1>1, <2>1, <2>3, <2>5, RecentUpdate
  <2>6. Durable = FALSE => \A t, v : written(n, r3, t, v) = disk
    BY <1>2, <2>1
  <2>7. \/ replica' = replica /\ disk' = disk
        \/ /\ replica' = [replica EXCEPT ![n] = r3]
           /\ disk' = IF r3.snapshotIndex = replica[n].snapshotIndex THEN disk
                      ELSE written(n, r3, currentTerm[n], votedFor[n])
    BY <1>6, <2>2 DEF AppendEntriesReply
  <2> QED BY <2>4, <2>5, <2>6, <2>7
<1>7. ASSUME NEW m \in snapReqs, InstallSnapshot(m) PROVE RecentInv'
  <2> DEFINE n == m.to
             r == installed(replica[n], m)
  <2>1. m \in SnapReq /\ n \in Node /\ m.lastIncludedIndex \in Nat
    BY <1>1 DEF SnapReq
  <2>2. r.lastApplied = m.lastIncludedIndex /\ r.snapshotIndex = m.lastIncludedIndex
    BY <1>1, <2>1 DEF installed, Replica
  <2>3. Recent(r)
    BY <2>1, <2>2, ConstantsAssumption DEF Recent
  <2>4. \/ replica' = replica /\ (Durable = FALSE => disk' = disk)
        \/ replica' = [replica EXCEPT ![n] = r] /\ (Durable = FALSE => disk' = disk)
    BY <1>2, <1>7, <2>1 DEF InstallSnapshot
  <2> QED BY <1>1, <1>3, <2>1, <2>3, <2>4, RecentUpdate
<1>8. ASSUME NEW n \in Node, crash(n) PROVE RecentInv'
  <2>1. Durable = FALSE
    BY <1>1, <1>8 DEF crash, NothingRecovered
  <2>2. disk[n] = EmptyDisk
    BY <2>1 DEF RecentInv, NothingStored
  <2> QED BY <1>1, <1>8, <2>1, <2>2, RecentRestart DEF crash
<1>9. ASSUME NEW n \in Node, shutdown(n) PROVE RecentInv'
  <2>1. Durable = FALSE
    BY <1>1, <1>9 DEF shutdown, NothingRecovered
  <2>2. disk[n] = EmptyDisk
    BY <2>1 DEF RecentInv, NothingStored
  <2> QED BY <1>1, <1>2, <1>9, <2>1, <2>2, RecentRestart DEF shutdown
<1>10. ASSUME NEW n \in Node, startElection(n) PROVE RecentInv'
  BY <1>3, <1>10 DEF startElection
<1>11. ASSUME NEW m \in voteReqs, RequestVote(m) PROVE RecentInv'
  BY <1>3, <1>11 DEF RequestVote
<1>12. ASSUME NEW m \in voteReplies, RequestVoteReply(m) PROVE RecentInv'
  BY <1>3, <1>12 DEF RequestVoteReply
<1>13. ASSUME NEW n \in Node, NEW reach \in SUBSET peers(n), replicateAndCommit(n, reach)
       PROVE RecentInv'
  BY <1>3, <1>13 DEF replicateAndCommit
<1>14. CASE loseAppend
  BY <1>3, <1>14 DEF loseAppend
<1>15. ASSUME NEW t \in snapTasks, sendInstallSnapshot(t) PROVE RecentInv'
  BY <1>3, <1>15 DEF sendInstallSnapshot
<1>16. CASE UNCHANGED vars
  BY <1>3, <1>16 DEF vars
<1> QED
  BY <1>4, <1>5, <1>6, <1>7, <1>8, <1>9, <1>10, <1>11, <1>12, <1>13, <1>14, <1>15, <1>16
  DEF Next

\* Without recovery, no replica is ever far behind its log: see Recent.
LEMMA RecentInvariance ==
    ASSUME NothingRecovered
    PROVE  Spec => []RecentInv
<1>1. Init => RecentInv
  <2> SUFFICES ASSUME Init PROVE RecentInv
    OBVIOUS
  <2>1. \A n \in Node : replica[n] = bootstrapFromStorage(EmptyDisk)
    BY DEF Init
  <2>2. Recent(bootstrapFromStorage(EmptyDisk))
    BY EmptyStart, ConstantsAssumption DEF Recent
  <2>3. NothingStored
    BY DEF Init, NothingStored
  <2> QED BY <2>1, <2>2, <2>3 DEF RecentInv
<1>2. IInv /\ RecentInv /\ [Next]_vars => RecentInv'
  BY RecentNext
<1> QED BY <1>1, <1>2, Invariance, PTL DEF Spec

\* In a cluster of any size, with any restarts when nothing is stored and
\* without restarts when the log is: maybeCompactLocked never indexes past the
\* end of the log, although a late request may cut the log below what was
\* applied.
THEOREM CompactionSafe ==
    ASSUME NothingRecovered
    PROVE  Spec => []CompactionInRange
<1>1. ASSUME IInv, RecentInv PROVE CompactionInRange
  <2> SUFFICES ASSUME NEW m \in appendReqs, prevMatches(replica[m.to], m)
               PROVE  ~compactionPanics(appended(replica[m.to], m))
    BY DEF CompactionInRange
  <2>1. m \in AppendReq /\ m.to \in Node
    BY <1>1 DEF IInv, TypeOK, AppendReq
  <2>2. WellFormed(replica[m.to]) /\ Recent(replica[m.to])
    BY <1>1, <2>1 DEF IInv, ReplicasSound, RecentInv
  <2> QED BY <2>1, <2>2, AppendedRecently
<1>2. IInv /\ RecentInv => CompactionInRange
  BY <1>1
<1> QED BY <1>2, RecentInvariance, Invariance, PTL

-----------------------------------------------------------------------------
(* Two nodes that stay up.  A candidate needs the vote of its only peer.   *)

Pair == Cardinality(Node) = 2 /\ MaxRestarts = 0

\* n has been the leader of term t: it does not stand for election in it.
Held(n, t) == currentTerm[n] > t \/ (currentTerm[n] = t /\ state[n] # Candidate)

\* p has left term t behind or follows in it.
Yields(p, t) == currentTerm[p] > t \/ (currentTerm[p] = t /\ state[p] = Follower)

Requests == appendReqs \cup snapReqs

\* A candidate votes for itself, and its peer follows it before it leads.  Only
\* a leader sends entries and snapshots, so those of one term have one sender.
OwnVote == \A n \in Node : state[n] # Follower => votedFor[n] = n
PeerYields == \A n, p \in Node : (n # p /\ state[n] = Leader) => Yields(p, currentTerm[n])
VotesFair ==
    /\ \A m \in voteReqs : m.from # m.to /\ m.term <= currentTerm[m.from]
    /\ \A m \in voteReplies : /\ m.req.from # m.req.to
                              /\ m.granted => Yields(m.req.to, m.req.term)
SendersLed ==
    /\ \A m \in Requests : m.from # m.to /\ Yields(m.to, m.term) /\ Held(m.from, m.term)
    /\ \A m, k \in Requests : m.term = k.term => m.from = k.from
    /\ \A m \in appendReplies : m.req.from # m.req.to
    /\ \A t \in snapTasks : t.from # t.to

Voting == OwnVote /\ PeerYields /\ VotesFair /\ SendersLed

\* What a step without a restart may do to the office of n.
Moves(n) ==
    \/ currentTerm'[n] > currentTerm[n]
    \/ /\ currentTerm'[n] = currentTerm[n]
       /\ \/ state'[n] = state[n]
          \/ state'[n] = Follower
          \/ state[n] = Candidate /\ state'[n] = Leader

\* The two nodes, and what a majority of them is.
LEMMA PairNodes ==
    ASSUME Pair, NEW n \in Node
    PROVE  /\ majority = 2
           /\ \E p \in Node : p # n /\ peers(n) = {p} /\ Node = {n, p}
<1>1. IsFiniteSet(Node) /\ Cardinality(Node) = 2
  BY ConstantsAssumption DEF Pair
<1>2. majority = 2
  BY <1>1 DEF majority
<1>3. IsFiniteSet(peers(n)) /\ Cardinality(peers(n)) = 1
  <2>1. IsFiniteSet(Node \ {n}) /\ Cardinality(Node \ {n}) = Cardinality(Node) - 1
    BY <1>1, FS_RemoveElement
  <2> QED BY <1>1, <2>1 DEF peers
<1>4. PICK p : peers(n) = {p}
  BY <1>3, FS_Singleton
<1>5. p \in Node /\ p # n /\ Node = {n, p}
  BY <1>4 DEF peers
<1> QED BY <1>2, <1>4, <1>5

\* Whoever holds or yields a term does so for good.
LEMMA OfficesLast ==
    ASSUME NEW n \in Node, Moves(n), NEW t \in Nat,
           currentTerm \in [Node -> Nat], currentTerm' \in [Node -> Nat]
    PROVE  /\ Held(n, t) => Held(n, t)'
           /\ Yields(n, t) => Yields(n, t)'
<1>1. currentTerm[n] \in Nat /\ currentTerm'[n] \in Nat
  OBVIOUS
<1> QED BY <1>1 DEF Moves, Held, Yields, Follower, Candidate, Leader

\* At most one of the nodes leads, whatever its term.
LEMMA OneLeader ==
    ASSUME TypeOK, PeerYields, NEW n \in Node, NEW p \in Node,
           state[n] = Leader, state[p] = Leader
    PROVE  n = p
<1>1. currentTerm[n] \in Nat /\ currentTerm[p] \in Nat
  BY DEF TypeOK
<1> QED BY <1>1 DEF PeerYields, Yields, Follower, Leader

\* The voting invariant survives a step whose new leaders have a peer that
\* yields and whose new messages come from a leader.
LEMMA VotingKept ==
    ASSUME Pair, TypeOK, TypeOK', Voting, \A n \in Node : Moves(n), OwnVote', VotesFair',
           \A n, p \in Node : (n # p /\ state'[n] = Leader) =>
               \/ state[n] = Leader /\ currentTerm'[n] = currentTerm[n]
               \/ Yields(p, currentTerm'[n]),
           \A m \in Requests' :
               m \in Requests
               \/ /\ m.from \in Node /\ m.to \in Node /\ m.from # m.to
                  /\ state[m.from] = Leader /\ m.term = currentTerm[m.from],
           \A m \in appendReplies' : m \in appendReplies \/ m.req \in appendReqs,
           \A t \in snapTasks' : t \in snapTasks \/ t.from # t.to
    PROVE  Voting'
<1>1. /\ currentTerm \in [Node -> Nat] /\ currentTerm' \in [Node -> Nat]
      /\ \A m \in Requests : m.from \in Node /\ m.to \in Node /\ m.term \in Nat
  BY DEF TypeOK, Requests, AppendReq, SnapReq
<1>2. \A n \in Node, t \in Nat : /\ Held(n, t) => Held(n, t)'
                                 /\ Yields(n, t) => Yields(n, t)'
  BY <1>1, OfficesLast
<1>3. PeerYields'
  <2> SUFFICES ASSUME NEW n \in Node, NEW p \in Node, n # p, state'[n] = Leader
               PROVE  Yields(p, currentTerm[n])'
    BY DEF PeerYields
  <2>1. Yields(p, currentTerm'[n])
    BY DEF Voting, PeerYields
  <2>2. currentTerm'[n] \in Nat
    BY <1>1
  <2>3. Yields(p, currentTerm'[n]) => currentTerm'[p] > currentTerm'[n]
            \/ (currentTerm'[p] = currentTerm'[n] /\ state'[p] = Follower)
    BY <1>2, <2>2 DEF Yields
  <2> QED BY <2>1, <2>3 DEF Yields
<1>4. ASSUME NEW m \in Requests'
      PROVE  /\ m.from \in Node /\ m.to \in Node /\ m.from # m.to /\ m.term \in Nat
             /\ Yields(m.to, m.term) /\ Held(m.from, m.term)
  <2>1. CASE m \in Requests
    BY <1>1, <2>1 DEF Voting, SendersLed
  <2>2. CASE /\ m.from \in Node /\ m.to \in Node /\ m.from # m.to
             /\ state[m.from] = Leader /\ m.term = currentTerm[m.from]
    BY <1>1, <2>2 DEF Voting, PeerYields, Held, Leader, Candidate
  <2> QED BY <2>1, <2>2
<1>5. ASSUME NEW m \in Requests', NEW k \in Requests', m.term = k.term
      PROVE  m.from = k.from
  <2> DEFINE new(x) == state[x.from] = Leader /\ x.term = currentTerm[x.from]
  <2>1. ASSUME NEW x \in Requests', NEW y \in Requests', x.term = y.term, new(x)
        PROVE  x.from = y.from
    <3>1. /\ x.from \in Node /\ y.from \in Node /\ Held(y.from, y.term)
          /\ currentTerm[x.from] \in Nat /\ currentTerm[y.from] \in Nat
          /\ Yields(y.to, y.term) /\ y.to # y.from /\ y.to \in Node
      BY <1>1, <1>4
    <3>2. x.from # y.to
      BY <2>1, <3>1 DEF Yields, Leader, Follower
    <3>3. PICK p \in Node : p # y.to /\ Node = {y.to, p}
      BY <3>1, PairNodes
    <3> QED BY <2>1, <3>1, <3>2, <3>3
  <2>2. CASE m \in Requests /\ k \in Requests
    BY <1>5, <2>2 DEF Voting, SendersLed
  <2>3. (m \in Requests \/ new(m)) /\ (k \in Requests \/ new(k))
    OBVIOUS
  <2>4. CASE new(m)
    BY <1>5, <2>1, <2>4
  <2>5. CASE new(k)
    BY <1>5, <2>1, <2>5
  <2> HIDE DEF new
  <2> QED BY <2>2, <2>3, <2>4, <2>5
<1>6. \A m \in Requests' : m.from # m.to /\ Yields(m.to, m.term)' /\ Held(m.from, m.term)'
  BY <1>2, <1>4
<1>7. \A m \in appendReplies' : m.req.from # m.req.to
  BY DEF Voting, SendersLed, Requests
<1>8. \A t \in snapTasks' : t.from # t.to
  BY DEF Voting, SendersLed
<1>9. SendersLed'
  BY <1>5, <1>6, <1>7, <1>8 DEF SendersLed
<1> QED BY <1>3, <1>9 DEF Voting

\* The new entries and snapshots of a step come from a leader, and its new
\* answers are to requests.
FromLeaders ==
    /\ \A m \in Requests' :
          m \in Requests
          \/ /\ m.from \in Node /\ m.to \in Node /\ m.from # m.to
             /\ state[m.from] = Leader /\ m.term = currentTerm[m.from]
    /\ \A m \in appendReplies' : m \in appendReplies \/ m.req \in appendReqs
    /\ \A t \in snapTasks' : t \in snapTasks \/ t.from # t.to

\* Nobody's office changes.
LEMMA QuietVotes ==
    ASSUME Pair, TypeOK, TypeOK', Voting, FromLeaders,
           currentTerm' = currentTerm, votedFor' = votedFor, state' = state,
           voteReqs' = voteReqs, voteReplies' = voteReplies
    PROVE  Voting' /\ \A n \in Node : Moves(n)
<1>1. \A n \in Node : Moves(n)
  BY DEF Moves
<1>2. OwnVote' /\ VotesFair'
  BY DEF Voting, OwnVote, VotesFair, Yields
<1>3. \A n, p \in Node : (n # p /\ state'[n] = Leader) =>
          state[n] = Leader /\ currentTerm'[n] = currentTerm[n]
  OBVIOUS
<1> QED BY <1>1, <1>2, <1>3, VotingKept DEF FromLeaders

\* One node follows, in its term or a later one.
LEMMA FollowVotes ==
    ASSUME Pair, TypeOK, TypeOK', Voting, FromLeaders,
           NEW n \in Node, NEW term \in Nat, NEW vote, term >= currentTerm[n],
           becomeFollower(n, term, vote),
           voteReqs' = voteReqs, voteReplies' \subseteq voteReplies
    PROVE  Voting' /\ \A p \in Node : Moves(p)
<1>1. /\ currentTerm \in [Node -> Nat] /\ currentTerm' \in [Node -> Nat]
      /\ \A p \in Node : /\ currentTerm'[p] = IF p = n THEN term ELSE currentTerm[p]
                         /\ state'[p] = IF p = n THEN Follower ELSE state[p]
                         /\ p # n => votedFor'[p] = votedFor[p]
  BY DEF becomeFollower, TypeOK
<1>2. \A p \in Node : currentTerm[p] \in Nat /\ currentTerm'[p] \in Nat
  BY <1>1
<1>3. \A p \in Node : Moves(p)
  BY <1>1, <1>2 DEF Moves
<1>4. OwnVote'
  BY <1>1 DEF Voting, OwnVote
<1>5. VotesFair'
  <2>1. \A m \in voteReqs' : m.from # m.to /\ m.term <= currentTerm'[m.from]
    <3> SUFFICES ASSUME NEW m \in voteReqs
                 PROVE  m.from # m.to /\ m.term <= currentTerm'[m.from]
      OBVIOUS
    <3>1. /\ m.from \in Node /\ m.term \in Nat
          /\ m.from # m.to /\ m.term <= currentTerm[m.from]
      BY DEF TypeOK, VoteReq, Voting, VotesFair
    <3> QED BY <1>1, <1>2, <3>1
  <2>2. ASSUME NEW m \in voteReplies'
        PROVE  m.req.from # m.req.to /\ (m.granted => Yields(m.req.to, m.req.term)')
    <3>1. /\ m.req.to \in Node /\ m.req.term \in Nat
          /\ m.req.from # m.req.to /\ (m.granted => Yields(m.req.to, m.req.term))
      BY DEF TypeOK, VoteReply, VoteReq, Voting, VotesFair
    <3> QED BY <1>1, <1>3, <3>1, OfficesLast
  <2> QED BY <2>1, <2>2 DEF VotesFair
<1>6. \A a, p \in Node : (a # p /\ state'[a] = Leader) =>
          state[a] = Leader /\ currentTerm'[a] = currentTerm[a]
  BY <1>1 DEF Leader, Follower
<1> QED BY <1>3, <1>4, <1>5, <1>6, VotingKept DEF FromLeaders

\* startElection: the candidate's term is new, so its peer does not count yet.
LEMMA StartElectionVotes ==
    ASSUME Pair, TypeOK, TypeOK', Voting, NEW n \in Node, startElection(n)
    PROVE  /\ Voting' /\ \A p \in Node : Moves(p)
           /\ state' = [state EXCEPT ![n] = Candidate]
<1>1. majority = 2
  BY PairNodes
<1>2. /\ state' = [state EXCEPT ![n] = Candidate] /\ state[n] # Leader
      /\ currentTerm' = [currentTerm EXCEPT ![n] = @ + 1]
      /\ votedFor' = [votedFor EXCEPT ![n] = n]
      /\ voteReplies' \subseteq voteReplies
      /\ appendReqs' = appendReqs /\ appendReplies' = appendReplies
      /\ snapTasks' = snapTasks /\ snapReqs' = snapReqs
  BY <1>1 DEF startElection, appendRpcs, snapRpcs
<1>3. /\ currentTerm \in [Node -> Nat] /\ currentTerm' \in [Node -> Nat]
      /\ \A p \in Node :
            /\ currentTerm'[p] = IF p = n THEN currentTerm[p] + 1 ELSE currentTerm[p]
            /\ state'[p] = IF p = n THEN Candidate ELSE state[p]
            /\ votedFor'[p] = IF p = n THEN n ELSE votedFor[p]
  BY <1>2 DEF TypeOK
<1>4. \A p \in Node : currentTerm[p] \in Nat /\ currentTerm'[p] \in Nat
  BY <1>3
<1>5. \A p \in Node : Moves(p)
  BY <1>3, <1>4 DEF Moves
<1>6. OwnVote'
  BY <1>3 DEF Voting, OwnVote
<1>7. ASSUME NEW m \in voteReqs' PROVE m.from # m.to /\ m.term <= currentTerm'[m.from]
  <2>1. CASE \E k \in voteReqs : m = orphaned(k, n)
    <3>1. PICK k \in voteReqs : m = orphaned(k, n)
      BY <2>1
    <3>2. /\ k \in VoteReq /\ k.from \in Node /\ k.term \in Nat
          /\ k.from # k.to /\ k.term <= currentTerm[k.from]
      BY DEF TypeOK, VoteReq, Voting, VotesFair
    <3>3. m.from = k.from /\ m.to = k.to /\ m.term = k.term
      BY <3>1, <3>2 DEF orphaned, VoteReq
    <3> QED BY <1>3, <1>4, <3>2, <3>3
  <2>2. CASE \E p \in peers(n) : m.from = n /\ m.to = p /\ m.term = currentTerm[n] + 1
    BY <1>3, <1>4, <2>2 DEF peers
  <2>3. \/ \E k \in voteReqs : m = orphaned(k, n)
        \/ \E p \in peers(n) : m.from = n /\ m.to = p /\ m.term = currentTerm[n] + 1
    BY DEF startElection
  <2> QED BY <2>1, <2>2, <2>3
<1>8. ASSUME NEW m \in voteReplies'
      PROVE  m.req.from # m.req.to /\ (m.granted => Yields(m.req.to, m.req.term)')
  <2>1. /\ m.req.to \in Node /\ m.req.term \in Nat
        /\ m.req.from # m.req.to /\ (m.granted => Yields(m.req.to, m.req.term))
    BY <1>2 DEF TypeOK, VoteReply, VoteReq, Voting, VotesFair
  <2> QED BY <1>3, <1>5, <2>1, OfficesLast
<1>9. VotesFair'
  BY <1>7, <1>8 DEF VotesFair
<1>10. \A a, p \in Node : (a # p /\ state'[a] = Leader) =>
          state[a] = Leader /\ currentTerm'[a] = currentTerm[a]
  BY <1>3 DEF Leader, Candidate
<1>11. /\ \A m \in Requests' : m \in Requests
       /\ \A m \in appendReplies' : m \in appendReplies
       /\ \A t \in snapTasks' : t \in snapTasks
  BY <1>2 DEF Requests
<1> QED BY <1>2, <1>5, <1>6, <1>9, <1>10, <1>11, VotingKept

\* RequestVote: a node that grants a vote follows in the term of the vote.
LEMMA RequestVoteVotes ==
    ASSUME Pair, TypeOK, TypeOK', Voting, NEW m \in voteReqs, RequestVote(m)
    PROVE  Voting' /\ \A p \in Node : Moves(p)
<1> DEFINE n == m.to
           newer == m.term > currentTerm[n]
           vote  == IF newer THEN Nil ELSE votedFor[n]
           grant == /\ m.term >= currentTerm[n]
                    /\ mayVote(vote, m.from)
                    /\ logIsUpToDate(replica[n], m.lastLogIndex, m.lastLogTerm)
           vote2 == IF grant THEN m.from ELSE vote
           reply == [req |-> m, term |-> Greater(m.term, currentTerm[n]), granted |-> grant]
<1>1. /\ n \in Node /\ m.from \in Node /\ m.term \in Nat /\ m.from # n
      /\ currentTerm \in [Node -> Nat] /\ currentTerm' \in [Node -> Nat]
  BY DEF TypeOK, VoteReq, Voting, VotesFair
<1>2. /\ IF newer
         THEN becomeFollower(n, m.term, vote2)
         ELSE /\ votedFor' = [votedFor EXCEPT ![n] = vote2]
              /\ currentTerm' = currentTerm /\ state' = state
      /\ voteReqs' \subseteq voteReqs
      /\ voteReplies' = voteReplies \cup answer(m, reply)
      /\ appendReqs' = appendReqs /\ appendReplies' = appendReplies
      /\ snapTasks' = snapTasks /\ snapReqs' = snapReqs
  BY DEF RequestVote, appendRpcs, snapRpcs
<1>3. /\ \A p \in Node :
            /\ currentTerm'[p] = IF p = n /\ newer THEN m.term ELSE currentTerm[p]
            /\ state'[p] = IF p = n /\ newer THEN Follower ELSE state[p]
            /\ votedFor'[p] = IF p = n THEN vote2 ELSE votedFor[p]
  <2> HIDE DEF vote2
  <2> QED BY <1>1, <1>2 DEF becomeFollower, TypeOK
<1>4. \A p \in Node : currentTerm[p] \in Nat /\ currentTerm'[p] \in Nat
  BY <1>1
<1>5. \A p \in Node : Moves(p)
  BY <1>1, <1>3, <1>4 DEF Moves
<1>6. (grant /\ ~newer) => state[n] = Follower /\ currentTerm[n] = m.term
  <2>1. state[n] # Follower => votedFor[n] = n /\ n # Nil
    BY <1>1, ConstantsAssumption DEF Voting, OwnVote
  <2> QED BY <1>1, <1>4, <2>1 DEF mayVote
<1>7. OwnVote'
  <2> SUFFICES ASSUME NEW p \in Node, state'[p] # Follower PROVE votedFor'[p] = p
    BY DEF OwnVote
  <2>1. ~(p = n /\ newer) /\ state[p] # Follower
    BY <1>3
  <2>2. votedFor[p] = p
    BY <2>1 DEF Voting, OwnVote
  <2> HIDE DEF grant
  <2> QED BY <1>3, <1>6, <2>1, <2>2
<1>8. grant => Yields(n, m.term)'
  <2> HIDE DEF grant
  <2> QED BY <1>1, <1>3, <1>6 DEF Yields
<1>9. VotesFair'
  <2>1. ASSUME NEW k \in voteReqs' PROVE k.from # k.to /\ k.term <= currentTerm'[k.from]
    <3>1. k.from \in Node /\ k.term \in Nat /\ k.from # k.to /\ k.term <= currentTerm[k.from]
      BY <1>2 DEF TypeOK, VoteReq, Voting, VotesFair
    <3>2. currentTerm'[k.from] >= currentTerm[k.from]
      BY <1>4, <1>5, <3>1 DEF Moves
    <3> QED BY <1>4, <3>1, <3>2
  <2>2. ASSUME NEW k \in voteReplies'
        PROVE  k.req.from # k.req.to /\ (k.granted => Yields(k.req.to, k.req.term)')
    <3>1. CASE k \in voteReplies
      <4>1. /\ k.req.to \in Node /\ k.req.term \in Nat
            /\ k.req.from # k.req.to /\ (k.granted => Yields(k.req.to, k.req.term))
        BY <3>1 DEF TypeOK, VoteReply, VoteReq, Voting, VotesFair
      <4> QED BY <1>1, <1>5, <4>1, OfficesLast
    <3>2. CASE k.req = m /\ k.granted = grant
      <4> HIDE DEF grant
      <4> QED BY <1>1, <1>8, <3>2
    <3>3. reply.req = m /\ reply.granted = grant
      OBVIOUS
    <3>4. k \in voteReplies \/ k = reply
      <4> HIDE DEF reply
      <4> QED BY <1>2 DEF answer
    <3> HIDE DEF reply, grant
    <3> QED BY <3>1, <3>2, <3>3, <3>4
  <2> QED BY <2>1, <2>2 DEF VotesFair
<1>10. \A a, p \in Node : (a # p /\ state'[a] = Leader) =>
          state[a] = Leader /\ currentTerm'[a] = currentTerm[a]
  BY <1>3 DEF Leader, Follower
<1>11. /\ \A k \in Requests' : k \in Requests
       /\ \A k \in appendReplies' : k \in appendReplies
       /\ \A t \in snapTasks' : t \in snapTasks
  BY <1>2 DEF Requests
<1> QED BY <1>5, <1>7, <1>9, <1>10, <1>11, VotingKept

\* The answer to RequestVote: the peer that granted its vote yields.
LEMMA RequestVoteReplyVotes ==
    ASSUME Pair, TypeOK, TypeOK', Voting, NEW m \in voteReplies, RequestVoteReply(m)
    PROVE  Voting' /\ \A p \in Node : Moves(p)
<1> DEFINE n == m.req.from
<1>1. /\ n \in Node /\ m.req.to \in Node /\ m.term \in Nat /\ m.req.term \in Nat
      /\ currentTerm \in [Node -> Nat] /\ currentTerm' \in [Node -> Nat]
      /\ n # m.req.to /\ (m.granted => Yields(m.req.to, m.req.term))
  BY DEF TypeOK, VoteReply, VoteReq, Voting, VotesFair
<1>2. /\ voteReqs' = voteReqs /\ voteReplies' \subseteq voteReplies
      /\ appendReqs' = appendReqs /\ appendReplies' = appendReplies
      /\ snapTasks' = snapTasks /\ snapReqs' = snapReqs
  BY DEF RequestVoteReply, appendRpcs, snapRpcs
<1>3. FromLeaders
  BY <1>2 DEF FromLeaders, Requests
<1>4. CASE m.term > currentTerm[n] /\ becomeFollower(n, m.term, Nil)
  <2>1. m.term >= currentTerm[n]
    BY <1>1, <1>4
  <2> HIDE DEF n
  <2> QED BY <1>1, <1>2, <1>3, <1>4, <2>1, FollowVotes
<1>5. CASE /\ m.granted /\ state[n] = Candidate /\ currentTerm[n] = m.req.term
           /\ state' \in {state, [state EXCEPT ![n] = Leader]}
           /\ currentTerm' = currentTerm /\ votedFor' = votedFor
  <2>1. \A p \in Node : state'[p] = state[p] \/ (p = n /\ state'[p] = Leader)
    BY <1>1, <1>5 DEF TypeOK
  <2>2. \A p \in Node : Moves(p)
    BY <1>5, <2>1 DEF Moves
  <2>3. OwnVote'
    BY <1>5, <2>1 DEF Voting, OwnVote, Candidate, Follower
  <2>4. VotesFair'
    <3>1. \A k \in voteReqs' : k.from # k.to /\ k.term <= currentTerm'[k.from]
      BY <1>2, <1>5 DEF Voting, VotesFair
    <3>2. ASSUME NEW k \in voteReplies'
          PROVE  k.req.from # k.req.to /\ (k.granted => Yields(k.req.to, k.req.term)')
      <4>1. /\ k.req.to \in Node /\ k.req.term \in Nat
            /\ k.req.from # k.req.to /\ (k.granted => Yields(k.req.to, k.req.term))
        BY <1>2 DEF TypeOK, VoteReply, VoteReq, Voting, VotesFair
      <4> QED BY <1>1, <2>2, <4>1, OfficesLast
    <3> QED BY <3>1, <3>2 DEF VotesFair
  <2>5. ASSUME NEW a \in Node, NEW p \in Node, a # p, state'[a] = Leader
        PROVE  \/ state[a] = Leader /\ currentTerm'[a] = currentTerm[a]
               \/ Yields(p, currentTerm'[a])
    <3>1. CASE a # n
      BY <1>5, <2>1, <2>5, <3>1
    <3>2. CASE a = n
      <4>1. p = m.req.to
        BY <1>1, <2>5, <3>2, PairNodes
      <4> QED BY <1>1, <1>5, <3>2, <4>1
    <3> QED BY <3>1, <3>2
  <2> QED BY <1>3, <2>2, <2>3, <2>4, <2>5, VotingKept DEF FromLeaders
<1> QED BY <1>4, <1>5 DEF RequestVoteReply, promoteToLeader, leaderVars

\* No handler panics.
LEMMA NoPanic ==
    ASSUME IInv, RecentInv
    PROVE  /\ \A m \in appendReqs :
                  prevMatches(replica[m.to], m) => ~compactionPanics(appended(replica[m.to], m))
           /\ \A n \in Node : \A match :
                  ~compactionPanics(advanceCommitIndex(n, replica[n], match))
<1>1. \A n \in Node : WellFormed(replica[n]) /\ Recent(replica[n])
  BY DEF IInv, ReplicasSound, RecentInv
<1>2. \A m \in appendReqs : m \in AppendReq /\ m.to \in Node
  BY DEF IInv, TypeOK, AppendReq
<1>3. \A m \in appendReqs :
          prevMatches(replica[m.to], m) => ~compactionPanics(appended(replica[m.to], m))
  BY <1>1, <1>2, AppendedRecently
<1>4. \A n \in Node : \A match : ~compactionPanics(advanceCommitIndex(n, replica[n], match))
  BY <1>1, CommittedRecently
<1> QED BY <1>3, <1>4

\* AppendEntries: a request that is not stale finds a follower of its term.
LEMMA AppendEntriesVotes ==
    ASSUME Pair, IInv, IInv', RecentInv, Voting, NEW m \in appendReqs, AppendEntries(m)
    PROVE  Voting' /\ \A p \in Node : Moves(p)
<1> DEFINE n == m.to
<1>1. n \in Node /\ m.term \in Nat /\ TypeOK /\ TypeOK' /\ currentTerm[n] \in Nat
  BY DEF IInv, TypeOK, AppendReq
<1>2. /\ appendReqs' = appendReqs \ {m}
      /\ \E b \in BOOLEAN, t \in Nat : appendReplies' = appendReplies
                             \cup answer(m, [req |-> m, success |-> b, term |-> t])
      /\ voteReqs' = voteReqs /\ voteReplies' = voteReplies
      /\ snapTasks' = snapTasks /\ snapReqs' = snapReqs
      /\ \/ currentTerm' = currentTerm /\ votedFor' = votedFor /\ state' = state
         \/ m.term >= currentTerm[n] /\ becomeFollower(n, m.term, Nil)
  <2>1. Greater(m.term, currentTerm[n]) \in Nat
    BY <1>1 DEF Greater
  <2>2. ~(prevMatches(replica[n], m) /\ compactionPanics(appended(replica[n], m)))
    BY NoPanic
  <2> QED BY <2>1, <2>2 DEF AppendEntries, voteRpcs, snapRpcs, electionVars
<1>3. FromLeaders
  <2>1. \A k \in Requests' : k \in Requests
    BY <1>2 DEF Requests
  <2>2. ASSUME NEW k \in appendReplies' PROVE k \in appendReplies \/ k.req \in appendReqs
    <3>1. PICK b \in BOOLEAN, t \in Nat : appendReplies' = appendReplies
                             \cup answer(m, [req |-> m, success |-> b, term |-> t])
      BY <1>2
    <3> QED BY <3>1 DEF answer
  <2> QED BY <1>2, <2>1, <2>2 DEF FromLeaders
<1>4. CASE currentTerm' = currentTerm /\ votedFor' = votedFor /\ state' = state
  BY <1>1, <1>2, <1>3, <1>4, QuietVotes
<1>5. CASE m.term >= currentTerm[n] /\ becomeFollower(n, m.term, Nil)
  BY <1>1, <1>2, <1>3, <1>5, FollowVotes
<1> QED BY <1>2, <1>4, <1>5

\* The answer to AppendEntries: a higher term in it makes the leader follow.
LEMMA AppendEntriesReplyVotes ==
    ASSUME Pair, IInv, IInv', RecentInv, Voting, NEW m \in appendReplies,
           AppendEntriesReply(m)
    PROVE  Voting' /\ \A p \in Node : Moves(p)
<1> DEFINE n == m.req.from
<1>1. /\ n \in Node /\ m.term \in Nat /\ TypeOK /\ TypeOK' /\ currentTerm[n] \in Nat
      /\ m.req.to # n
  BY DEF IInv, TypeOK, AppendReply, AppendReq, Voting, SendersLed
<1>2. \A match : ~compactionPanics(advanceCommitIndex(n, replica[n], match))
  BY <1>1, NoPanic
<1>3. /\ appendReqs' = appendReqs /\ appendReplies' \subseteq appendReplies
      /\ voteReqs' = voteReqs /\ voteReplies' = voteReplies
      /\ snapReqs' = snapReqs
      /\ snapTasks' \in {snapTasks, snapTasks \cup {[from |-> n, to |-> m.req.to,
                                                     term |-> currentTerm[n]]}}
      /\ \/ currentTerm' = currentTerm /\ votedFor' = votedFor /\ state' = state
         \/ m.term > currentTerm[n] /\ becomeFollower(n, m.term, Nil)
  BY <1>2 DEF AppendEntriesReply, voteRpcs
<1>4. FromLeaders
  BY <1>1, <1>3 DEF FromLeaders, Requests
<1>5. CASE currentTerm' = currentTerm /\ votedFor' = votedFor /\ state' = state
  BY <1>1, <1>3, <1>4, <1>5, QuietVotes
<1>6. CASE m.term > currentTerm[n] /\ becomeFollower(n, m.term, Nil)
  <2>1. m.term >= currentTerm[n]
    BY <1>1, <1>6
  <2> HIDE DEF n
  <2> QED BY <1>1, <1>3, <1>4, <1>6, <2>1, FollowVotes
<1> QED BY <1>3, <1>5, <1>6

\* A round of replication: what the leader sends.
LEMMA ReplicateVotes ==
    ASSUME Pair, IInv, IInv', Voting, NEW n \in Node, NEW reach \in SUBSET peers(n),
           replicateAndCommit(n, reach)
    PROVE  Voting' /\ \A p \in Node : Moves(p)
<1>1. /\ currentTerm' = currentTerm /\ votedFor' = votedFor /\ state' = state
      /\ voteReqs' = voteReqs /\ voteReplies' = voteReplies
      /\ snapReqs' = snapReqs /\ appendReplies' = appendReplies /\ state[n] = Leader
  BY DEF replicateAndCommit, electionVars, voteRpcs
<1>2. \A m \in appendReqs' : m \in appendReqs
          \/ (m.from = n /\ m.to \in peers(n) /\ m.term = currentTerm[n])
  BY DEF replicateAndCommit
<1>3. \A t \in snapTasks' : t \in snapTasks \/ (t.from = n /\ t.to \in peers(n))
  BY DEF replicateAndCommit
<1>4. \A p \in peers(n) : p \in Node /\ p # n
  BY DEF peers
<1>5. FromLeaders
  BY <1>1, <1>2, <1>3, <1>4 DEF FromLeaders, Requests
<1> QED BY <1>1, <1>5, QuietVotes DEF IInv

\* The goroutine that sends a snapshot: its node still leads.
LEMMA SendInstallSnapshotVotes ==
    ASSUME Pair, IInv, IInv', Voting, NEW t \in snapTasks, sendInstallSnapshot(t)
    PROVE  Voting' /\ \A p \in Node : Moves(p)
<1>1. /\ currentTerm' = currentTerm /\ votedFor' = votedFor /\ state' = state
      /\ voteReqs' = voteReqs /\ voteReplies' = voteReplies
      /\ snapTasks' = snapTasks /\ appendReqs' = appendReqs
      /\ appendReplies' = appendReplies
      /\ state[t.from] = Leader /\ currentTerm[t.from] = t.term
  BY DEF sendInstallSnapshot, electionVars, voteRpcs, appendRpcs
<1>2. \A m \in snapReqs' : m \in snapReqs
          \/ (m.from = t.from /\ m.to = t.to /\ m.term = t.term)
  BY DEF sendInstallSnapshot
<1>3. t.from \in Node /\ t.to \in Node /\ t.from # t.to
  BY DEF IInv, TypeOK, SnapTask, Voting, SendersLed
<1>4. FromLeaders
  BY <1>1, <1>2, <1>3 DEF FromLeaders, Requests
<1> QED BY <1>1, <1>4, QuietVotes DEF IInv

\* Every step of the pair.
LEMMA VotingNext ==
    ASSUME Pair, IInv, IInv', RecentInv, Voting, [Next]_vars
    PROVE  Voting' /\ \A p \in Node : Moves(p)
<1>1. TypeOK /\ TypeOK' /\ restarts \in Nat
  BY DEF IInv, TypeOK
<1>2. CASE /\ currentTerm' = currentTerm /\ votedFor' = votedFor /\ state' = state
           /\ voteReqs' = voteReqs /\ voteReplies' = voteReplies
           /\ appendReqs' \subseteq appendReqs /\ appendReplies' \subseteq appendReplies
           /\ snapTasks' = snapTasks /\ snapReqs' = snapReqs
  <2>1. FromLeaders
    BY <1>2 DEF FromLeaders, Requests
  <2> QED BY <1>1, <1>2, <2>1, QuietVotes
<1>3. ASSUME NEW n \in Node, startElection(n) PROVE Voting' /\ \A p \in Node : Moves(p)
  BY <1>1, <1>3, StartElectionVotes
<1>4. ASSUME NEW m \in voteReqs, RequestVote(m) PROVE Voting' /\ \A p \in Node : Moves(p)
  BY <1>1, <1>4, RequestVoteVotes
<1>5. ASSUME NEW m \in voteReplies, RequestVoteReply(m)
      PROVE  Voting' /\ \A p \in Node : Moves(p)
  BY <1>1, <1>5, RequestVoteReplyVotes
<1>6. ASSUME NEW n \in Node, NEW c \in Command, Propose(n, c)
      PROVE  Voting' /\ \A p \in Node : Moves(p)
  BY <1>2, <1>6 DEF Propose, electionVars, voteRpcs, appendRpcs, snapRpcs
<1>7. ASSUME NEW n \in Node, NEW reach \in SUBSET peers(n), replicateAndCommit(n, reach)
      PROVE  Voting' /\ \A p \in Node : Moves(p)
  BY <1>7, ReplicateVotes
<1>8. ASSUME NEW m \in appendReqs, AppendEntries(m)
      PROVE  Voting' /\ \A p \in Node : Moves(p)
  BY <1>8, AppendEntriesVotes
<1>9. ASSUME NEW m \in appendReplies, AppendEntriesReply(m)
      PROVE  Voting' /\ \A p \in Node : Moves(p)
  BY <1>9, AppendEntriesReplyVotes
<1>10. CASE loseAppend
  BY <1>2, <1>10 DEF loseAppend, electionVars, voteRpcs, snapRpcs
<1>11. ASSUME NEW t \in snapTasks, sendInstallSnapshot(t)
       PROVE  Voting' /\ \A p \in Node : Moves(p)
  BY <1>11, SendInstallSnapshotVotes
<1>12. ASSUME NEW m \in snapReqs, InstallSnapshot(m)
       PROVE  Voting' /\ \A p \in Node : Moves(p)
  <2>1. /\ m.to \in Node /\ m.term \in Nat /\ m.term >= currentTerm[m.to]
        /\ becomeFollower(m.to, m.term, Nil)
        /\ voteReqs' = voteReqs /\ voteReplies' = voteReplies
        /\ appendReqs' = appendReqs /\ appendReplies' = appendReplies
        /\ snapTasks' = snapTasks /\ snapReqs' = snapReqs
    BY <1>1, <1>12 DEF InstallSnapshot, TypeOK, SnapReq, voteRpcs, appendRpcs, snapRpcs
  <2>2. FromLeaders
    BY <2>1 DEF FromLeaders, Requests
  <2> QED BY <1>1, <2>1, <2>2, FollowVotes
<1>13. ~(restarts < MaxRestarts)
  BY <1>1 DEF Pair
<1>14. CASE UNCHANGED vars
  BY <1>2, <1>14 DEF vars, electionVars, voteRpcs, appendRpcs, snapRpcs
<1> QED
  BY <1>3, <1>4, <1>5, <1>6, <1>7, <1>8, <1>9, <1>10, <1>11, <1>12, <1>13, <1>14
  DEF Next, crash, shutdown

\* What holds of the pair apart from the logs.
PairInv == IInv /\ RecentInv /\ Voting

\* The voting invariant holds in every reachable state of the pair.
LEMMA PairInvariance == Pair => (Spec => []PairInv)
<1> SUFFICES ASSUME Pair PROVE Spec => []PairInv
  OBVIOUS
<1>1. Init => Voting
  BY DEF Init, Voting, OwnVote, PeerYields, VotesFair, SendersLed, Requests, Follower, Leader
<1>2. IInv /\ IInv' /\ RecentInv /\ Voting /\ [Next]_vars => Voting'
  BY VotingNext
<1>3. Spec => []RecentInv
  <2>1. NothingRecovered
    BY DEF Pair, NothingRecovered
  <2> QED BY <2>1, RecentInvariance
<1> QED BY <1>1, <1>2, <1>3, Invariance, PTL DEF Spec, PairInv

\* Two nodes without restarts, whatever is lost, delayed or reordered: there is
\* at most one leader per term, although AppendEntries and InstallSnapshot
\* clear the vote of the term.
THEOREM PairElectsOnce ==
    ASSUME Pair
    PROVE  Spec => []ElectionSafety
<1>1. PairInv => ElectionSafety
  BY OneLeader DEF PairInv, IInv, Voting, ElectionSafety
<1> QED BY <1>1, PairInvariance, PTL

-----------------------------------------------------------------------------
(* Logs as sequences of entries, those that are compacted included.        *)

termOf(f, i) == IF i = 0 THEN 0 ELSE f[i].term
lastTermOf(f) == termOf(f, Len(f))

cut(f, i) == SubSeq(f, 1, i)

Ordered(f) == \A i, j \in 1..Len(f) : i <= j => f[i].term <= f[j].term

\* Logs f and g with an entry of one term at one index agree up to it.
AgreeOn(f, g) ==
    \A i \in 1..Len(f) :
        (i <= Len(g) /\ f[i].term = g[i].term) => \A h \in 1..i : f[h] = g[h]

\* Neither of f and g contradicts the other.
Joined(f, g) == isPrefix(f, g) \/ isPrefix(g, f)

\* A log that ends at index i with term t is as good as g.
asGood(t, i, g) == t > lastTermOf(g) \/ (t = lastTermOf(g) /\ i >= Len(g))

\* The log f of a leader of term t was as good as g before the leader wrote
\* entries of its own.
Won(f, t, g) ==
    \A i \in 0..Len(f) :
        (\A j \in (i + 1)..Len(f) : f[j].term = t) => asGood(termOf(f, i), i, g)

\* The entries and terms of a log.
LEMMA EntryFacts ==
    ASSUME NEW f \in Seq(Entry)
    PROVE  /\ Len(f) \in Nat
           /\ \A i \in 1..Len(f) : f[i] \in Entry /\ f[i].term \in Nat /\ f[i].cmd \in Command
           /\ \A i \in 0..Len(f) : termOf(f, i) \in Nat
           /\ lastTermOf(f) \in Nat
<1>1. Len(f) \in Nat /\ \A i \in 1..Len(f) : f[i] \in Entry
  BY ElementOfSeq
<1>2. \A i \in 1..Len(f) : f[i].term \in Nat /\ f[i].cmd \in Command
  BY <1>1 DEF Entry
<1>3. \A i \in 0..Len(f) : termOf(f, i) \in Nat
  BY <1>1, <1>2 DEF termOf
<1>4. lastTermOf(f) \in Nat
  BY <1>1, <1>3 DEF lastTermOf
<1> QED BY <1>1, <1>2, <1>3, <1>4

\* A log is a prefix of itself.
LEMMA PrefixItself ==
    ASSUME NEW f \in Seq(Entry)
    PROVE  isPrefix(f, f)
BY EntryFacts DEF isPrefix

\* A prefix of a prefix is a prefix.
LEMMA PrefixTransitive ==
    ASSUME NEW f \in Seq(Entry), NEW g \in Seq(Entry), NEW h \in Seq(Entry),
           isPrefix(f, g), isPrefix(g, h)
    PROVE  isPrefix(f, h)
<1>1. Len(f) \in Nat /\ Len(g) \in Nat /\ Len(h) \in Nat
  BY EntryFacts
<1> QED BY <1>1 DEF isPrefix

\* Two prefixes of one log do not contradict each other.
LEMMA PrefixesJoined ==
    ASSUME NEW f \in Seq(Entry), NEW g \in Seq(Entry), NEW h \in Seq(Entry),
           isPrefix(f, h), isPrefix(g, h)
    PROVE  Joined(f, g)
<1>1. Len(f) \in Nat /\ Len(g) \in Nat /\ Len(h) \in Nat
  BY EntryFacts
<1> QED BY <1>1 DEF isPrefix, Joined

\* Joined logs agree wherever both have an entry.
LEMMA JoinedAgree ==
    ASSUME NEW f \in Seq(Entry), NEW g \in Seq(Entry), Joined(f, g)
    PROVE  \A i \in 1..Len(f) : i <= Len(g) => f[i] = g[i]
<1>1. Len(f) \in Nat /\ Len(g) \in Nat
  BY EntryFacts
<1> QED BY <1>1 DEF isPrefix, Joined

\* The beginning of a log.
LEMMA CutPrefix ==
    ASSUME NEW f \in Seq(Entry), NEW i \in 0..Len(f)
    PROVE  /\ cut(f, i) \in Seq(Entry) /\ Len(cut(f, i)) = i
           /\ isPrefix(cut(f, i), f)
           /\ \A j \in 1..i : cut(f, i)[j] = f[j]
<1>1. i \in Nat /\ Len(f) \in Nat /\ i <= Len(f) /\ \A j \in 1..Len(f) : f[j] \in Entry
  BY EntryFacts
<1>2. \A j \in 1..i : j \in 1..Len(f)
  BY <1>1
<1>3. /\ cut(f, i) \in Seq(Entry) /\ Len(cut(f, i)) = i
      /\ \A j \in 1..i : cut(f, i)[j] = f[j]
  <2>1. cut(f, i) \in Seq(Entry) /\ Len(cut(f, i)) = (IF 1 <= i THEN i - 1 + 1 ELSE 0)
        /\ \A j \in 1..(i - 1 + 1) : cut(f, i)[j] = f[1 + j - 1]
    BY <1>1, <1>2, SubSeqProperties DEF cut
  <2> QED BY <1>1, <2>1
<1> QED BY <1>1, <1>3 DEF isPrefix

\* A prefix no longer than i is a prefix of the first i entries.
LEMMA PrefixOfCut ==
    ASSUME NEW f \in Seq(Entry), NEW i \in 0..Len(f), NEW g \in Seq(Entry),
           isPrefix(g, f), Len(g) <= i
    PROVE  isPrefix(g, cut(f, i))
<1>1. i \in Nat /\ Len(f) \in Nat /\ Len(g) \in Nat
  BY EntryFacts
<1>2. Len(cut(f, i)) = i /\ \A j \in 1..i : cut(f, i)[j] = f[j]
  BY CutPrefix
<1> QED BY <1>1, <1>2 DEF isPrefix

\* A prefix has the terms of the log.
LEMMA PrefixTerms ==
    ASSUME NEW f \in Seq(Entry), NEW g \in Seq(Entry), isPrefix(g, f)
    PROVE  \A i \in 0..Len(g) : termOf(g, i) = termOf(f, i)
<1>1. Len(f) \in Nat /\ Len(g) \in Nat
  BY EntryFacts
<1> QED BY <1>1 DEF isPrefix, termOf

\* Terms do not fall, from the sentinel on.
LEMMA OrderedTerms ==
    ASSUME NEW f \in Seq(Entry), Ordered(f)
    PROVE  \A i, j \in 0..Len(f) : i <= j => termOf(f, i) <= termOf(f, j)
<1>1. Len(f) \in Nat /\ \A i \in 0..Len(f) : termOf(f, i) \in Nat
  BY EntryFacts
<1> QED BY <1>1 DEF Ordered, termOf

\* A prefix of an ordered log is ordered.
LEMMA PrefixOrdered ==
    ASSUME NEW f \in Seq(Entry), NEW g \in Seq(Entry), isPrefix(g, f), Ordered(f)
    PROVE  Ordered(g)
<1>1. Len(f) \in Nat /\ Len(g) \in Nat
  BY EntryFacts
<1> QED BY <1>1 DEF isPrefix, Ordered

\* Agreement goes both ways.
LEMMA AgreeSymmetric ==
    ASSUME NEW f \in Seq(Entry), NEW g \in Seq(Entry), AgreeOn(f, g)
    PROVE  AgreeOn(g, f)
<1>1. Len(f) \in Nat /\ Len(g) \in Nat
  BY EntryFacts
<1> QED BY <1>1 DEF AgreeOn

\* A prefix agrees with the log.
LEMMA PrefixAgrees ==
    ASSUME NEW f \in Seq(Entry), NEW g \in Seq(Entry), isPrefix(g, f)
    PROVE  AgreeOn(g, f)
<1>1. Len(f) \in Nat /\ Len(g) \in Nat
  BY EntryFacts
<1> QED BY <1>1 DEF isPrefix, AgreeOn

\* Logs that have one term at index i agree up to i.
LEMMA MatchedPrefix ==
    ASSUME NEW f \in Seq(Entry), NEW g \in Seq(Entry), AgreeOn(f, g),
           NEW i \in 0..Len(f), i <= Len(g), termOf(f, i) = termOf(g, i)
    PROVE  \A h \in 1..i : f[h] = g[h]
<1>1. Len(f) \in Nat /\ Len(g) \in Nat
  BY EntryFacts
<1> QED BY <1>1 DEF AgreeOn, termOf

\* A candidate whose log is as good as g has won as far as g is concerned.
LEMMA WonByVote ==
    ASSUME NEW f \in Seq(Entry), NEW t \in Nat, NEW g \in Seq(Entry),
           \A i \in 1..Len(f) : f[i].term < t,
           asGood(lastTermOf(f), Len(f), g)
    PROVE  Won(f, t, g)
<1>1. Len(f) \in Nat /\ \A i \in 1..Len(f) : f[i].term \in Nat
  BY EntryFacts
<1> SUFFICES ASSUME NEW i \in 0..Len(f), \A j \in (i + 1)..Len(f) : f[j].term = t
             PROVE  asGood(termOf(f, i), i, g)
  BY DEF Won
<1>2. i = Len(f)
  <2>1. i < Len(f) => Len(f) \in (i + 1)..Len(f) /\ Len(f) \in 1..Len(f)
    BY <1>1
  <2> QED BY <1>1, <2>1
<1> QED BY <1>2 DEF lastTermOf

\* The length and the entries of a log with one more entry.
LEMMA AppendFacts ==
    ASSUME NEW f \in Seq(Entry), NEW e \in Entry
    PROVE  LET h == Append(f, e) IN
           /\ h \in Seq(Entry) /\ Len(h) = Len(f) + 1
           /\ h[Len(f) + 1] = e
           /\ \A i \in 1..Len(f) : h[i] = f[i]
           /\ isPrefix(f, h)
<1>1. Len(f) \in Nat
  BY EntryFacts
<1>2. LET h == Append(f, e) IN
      /\ h \in Seq(Entry) /\ Len(h) = Len(f) + 1
      /\ h[Len(f) + 1] = e
      /\ \A i \in 1..Len(f) : h[i] = f[i]
  BY AppendProperties
<1> QED BY <1>1, <1>2 DEF isPrefix

\* A leader of term t that has won stays so when it appends.
LEMMA WonAppend ==
    ASSUME NEW f \in Seq(Entry), NEW t \in Nat, NEW g \in Seq(Entry), Won(f, t, g),
           \A i \in 1..Len(f) : f[i].term <= t,
           NEW e \in Entry, e.term = t
    PROVE  Won(Append(f, e), t, g)
<1> DEFINE h == Append(f, e)
<1>1. /\ Len(f) \in Nat /\ Len(g) \in Nat /\ lastTermOf(g) \in Nat
      /\ \A i \in 0..Len(f) : termOf(f, i) \in Nat
  BY EntryFacts
<1>2. /\ Len(h) = Len(f) + 1 /\ h[Len(f) + 1] = e
      /\ \A i \in 1..Len(f) : h[i] = f[i]
  BY AppendFacts
<1> HIDE DEF h
<1> SUFFICES ASSUME NEW i \in 0..Len(h), \A j \in (i + 1)..Len(h) : h[j].term = t
             PROVE  asGood(termOf(h, i), i, g)
  BY DEF Won, h
<1>3. asGood(termOf(f, Len(f)), Len(f), g)
  BY <1>1 DEF Won
<1>4. CASE i = Len(f) + 1
  <2>1. termOf(h, i) = t
    BY <1>1, <1>2, <1>4 DEF termOf
  <2>2. termOf(f, Len(f)) <= t
    BY <1>1 DEF termOf
  <2> QED BY <1>1, <1>3, <1>4, <2>1, <2>2 DEF asGood
<1>5. CASE i \in 0..Len(f)
  <2>1. \A j \in (i + 1)..Len(f) : f[j].term = t
    BY <1>1, <1>2
  <2>2. termOf(h, i) = termOf(f, i)
    BY <1>1, <1>2, <1>5 DEF termOf
  <2> QED BY <1>5, <2>1, <2>2 DEF Won
<1> QED BY <1>1, <1>2, <1>4, <1>5

\* The entry a leader appends is not in the log of its peer.
LEMMA AgreeAppend ==
    ASSUME NEW f \in Seq(Entry), NEW t \in Nat, NEW g \in Seq(Entry),
           AgreeOn(f, g), Ordered(g), isPrefix(g, f) \/ Won(f, t, g),
           \A i \in 1..Len(f) : f[i].term <= t,
           NEW e \in Entry, e.term = t
    PROVE  AgreeOn(Append(f, e), g)
<1> DEFINE h == Append(f, e)
<1>1. /\ Len(f) \in Nat /\ Len(g) \in Nat /\ lastTermOf(g) \in Nat
      /\ \A i \in 0..Len(f) : termOf(f, i) \in Nat
      /\ \A i \in 1..Len(g) : g[i].term \in Nat
  BY EntryFacts
<1>2. /\ Len(h) = Len(f) + 1 /\ h[Len(f) + 1] = e
      /\ \A i \in 1..Len(f) : h[i] = f[i]
  BY AppendFacts
<1> HIDE DEF h
<1> SUFFICES ASSUME NEW i \in 1..Len(h), i <= Len(g), h[i].term = g[i].term
             PROVE  \A k \in 1..i : h[k] = g[k]
  BY DEF AgreeOn, h
<1>3. CASE i \in 1..Len(f)
  <2>1. f[i].term = g[i].term
    BY <1>2, <1>3
  <2>2. \A k \in 1..i : f[k] = g[k]
    BY <1>3, <2>1 DEF AgreeOn
  <2>3. \A k \in 1..i : h[k] = f[k]
    BY <1>1, <1>2, <1>3
  <2> QED BY <2>2, <2>3
<1>4. CASE i = Len(f) + 1
  <2>1. Won(f, t, g)
    BY <1>1, <1>4 DEF isPrefix
  <2>2. asGood(termOf(f, Len(f)), Len(f), g)
    BY <1>1, <2>1 DEF Won
  <2>3. termOf(f, Len(f)) <= t
    BY <1>1 DEF termOf
  <2>4. g[i].term = t /\ g[i].term <= lastTermOf(g)
    BY <1>1, <1>2, <1>4 DEF Ordered, lastTermOf, termOf
  <2> QED BY <1>1, <1>4, <2>2, <2>3, <2>4 DEF asGood
<1> QED BY <1>1, <1>2, <1>3, <1>4

\* A candidate whose log is as good as its peer's has what is committed.
LEMMA ElectedHolds ==
    ASSUME NEW f \in Seq(Entry), NEW g \in Seq(Entry), NEW c \in Seq(Entry),
           Ordered(g), Joined(f, c), isPrefix(c, f) \/ isPrefix(c, g),
           asGood(lastTermOf(f), Len(f), g)
    PROVE  isPrefix(c, f)
<1>1. Len(f) \in Nat /\ Len(g) \in Nat /\ Len(c) \in Nat
      /\ lastTermOf(f) \in Nat /\ lastTermOf(g) \in Nat
  BY EntryFacts
<1>2. CASE isPrefix(f, c) /\ isPrefix(c, g)
  <2>1. isPrefix(f, g) /\ Len(f) <= Len(c) /\ Len(c) <= Len(g)
    BY <1>2, PrefixTransitive DEF isPrefix
  <2>2. lastTermOf(f) = termOf(g, Len(f))
    BY <1>1, <2>1, PrefixTerms DEF lastTermOf
  <2>3. lastTermOf(f) <= lastTermOf(g)
    BY <1>1, <2>1, <2>2, OrderedTerms DEF lastTermOf
  <2>4. Len(f) >= Len(g)
    BY <1>1, <2>3 DEF asGood
  <2>5. Len(c) = Len(f)
    BY <1>1, <2>1, <2>4
  <2> QED BY <1>1, <1>2, <2>5 DEF isPrefix
<1> QED BY <1>2 DEF Joined

\* A heartbeat of a leader that has won is accepted only by a log that the
\* leader's log extends.
LEMMA HeartbeatMatches ==
    ASSUME NEW f \in Seq(Entry), NEW t \in Nat, NEW g \in Seq(Entry),
           AgreeOn(f, g), Ordered(g), Won(f, t, g),
           NEW i \in 0..Len(f), i <= Len(g), termOf(f, i) = termOf(g, i),
           \A j \in (i + 1)..Len(f) : f[j].term = t
    PROVE  isPrefix(g, f)
<1>1. /\ Len(f) \in Nat /\ Len(g) \in Nat /\ lastTermOf(g) \in Nat
      /\ termOf(g, i) \in Nat
  BY EntryFacts
<1>2. asGood(termOf(g, i), i, g)
  BY DEF Won
<1>3. termOf(g, i) <= lastTermOf(g)
  BY <1>1, OrderedTerms DEF lastTermOf
<1>4. i = Len(g)
  BY <1>1, <1>2, <1>3 DEF asGood
<1>5. \A h \in 1..i : f[h] = g[h]
  BY MatchedPrefix
<1> QED BY <1>1, <1>4, <1>5 DEF isPrefix

-----------------------------------------------------------------------------
(* A replica and the log it stands for.                                    *)

\* f is the log of replica r with the entries it has compacted.
Fits(r, f) ==
    /\ Len(f) = lastLogIndex(r)
    /\ \A i \in 1..Len(r.log) : f[r.snapshotIndex + i] = r.log[i]
    /\ termOf(f, r.snapshotIndex) = r.snapshotTerm
    /\ \A i \in 1..r.snapshotIndex : r.snapshot[i] = f[i].cmd

\* Replica r has committed and applied entries of c only.
Applies(r, c) ==
    /\ r.commitIndex <= Len(c) /\ r.lastApplied <= Len(c)
    /\ \A i \in 1..r.lastApplied : r.fsm[i] = c[i].cmd

\* Request m carries f from an index on, up to where only entries of its own
\* term can follow.
Carries(m, f) ==
    /\ m.prevLogIndex + Len(m.entries) <= Len(f)
    /\ m.prevLogTerm = termOf(f, m.prevLogIndex)
    /\ \A i \in 1..Len(m.entries) : m.entries[i] = f[m.prevLogIndex + i]
    /\ \A j \in (m.prevLogIndex + Len(m.entries) + 1)..Len(f) : f[j].term = m.term

\* Snapshot m is the beginning of c.
Image(m, c) ==
    /\ m.lastIncludedIndex <= Len(c)
    /\ m.lastIncludedTerm = termOf(c, m.lastIncludedIndex)
    /\ \A i \in 1..m.lastIncludedIndex : m.data[i] = c[i].cmd

\* The terms a replica knows are those of its log.
LEMMA FitsTerms ==
    ASSUME NEW r, WellFormed(r), NEW f \in Seq(Entry), Fits(r, f)
    PROVE  /\ \A i \in r.snapshotIndex..lastLogIndex(r) : termAt(r, i) = termOf(f, i)
           /\ lastLogTerm(r) = lastTermOf(f)
           /\ Len(f) = r.snapshotIndex + Len(r.log)
<1>1. /\ r.snapshotIndex \in Nat /\ Len(r.log) \in Nat /\ Len(f) \in Nat
      /\ lastLogIndex(r) = r.snapshotIndex + Len(r.log) /\ Len(f) = lastLogIndex(r)
  BY ReplicaFields, EntryFacts DEF Fits
<1>2. ASSUME NEW i \in r.snapshotIndex..lastLogIndex(r)
      PROVE  termAt(r, i) = termOf(f, i)
  <2>1. CASE i = r.snapshotIndex
    BY <2>1 DEF termAt, Fits
  <2>2. CASE i # r.snapshotIndex
    <3>1. /\ i - r.snapshotIndex \in 1..Len(r.log) /\ i # 0
          /\ r.snapshotIndex + (i - r.snapshotIndex) = i
      BY <1>1, <2>2
    <3>2. f[i] = r.log[i - r.snapshotIndex]
      BY <3>1 DEF Fits
    <3> QED BY <2>2, <3>1, <3>2 DEF termAt, termOf
  <2> QED BY <2>1, <2>2
<1> QED BY <1>1, <1>2 DEF lastLogTerm, lastTermOf

\* A log knows no term that its replica does not.
LEMMA FitsBounded ==
    ASSUME NEW r, WellFormed(r), NEW f \in Seq(Entry), Fits(r, f), Ordered(f),
           NEW t \in Nat, TermsUpTo(r, t)
    PROVE  \A i \in 1..Len(f) : f[i].term <= t
<1>1. Len(f) \in Nat /\ \A i \in 1..Len(f) : f[i].term \in Nat
  BY EntryFacts
<1> SUFFICES ASSUME NEW i \in 1..Len(f) PROVE f[i].term <= t
  OBVIOUS
<1>2. f[i].term <= f[Len(f)].term /\ f[Len(f)].term = lastTermOf(f) /\ lastTermOf(f) \in Nat
  BY <1>1 DEF Ordered, lastTermOf, termOf
<1>3. lastTermOf(f) <= t
  <2>1. lastLogIndex(r) \in r.snapshotIndex..lastLogIndex(r)
    BY ReplicaFields
  <2>2. termAt(r, lastLogIndex(r)) <= t
    BY <2>1, TermAtInLog
  <2> QED BY <2>2, FitsTerms DEF lastLogTerm
<1> QED BY <1>1, <1>2, <1>3

\* A replica with the log and the snapshot of r stands for the same log.
LEMMA FitsSame ==
    ASSUME NEW r, NEW s, NEW f, Fits(r, f),
           s.log = r.log, s.snapshotIndex = r.snapshotIndex,
           s.snapshotTerm = r.snapshotTerm, s.snapshot = r.snapshot
    PROVE  Fits(s, f)
BY DEF Fits, lastLogIndex

\* Propose appends to the log and to nothing else.
LEMMA FitsAppend ==
    ASSUME NEW r, WellFormed(r), NEW f \in Seq(Entry), Fits(r, f), NEW e \in Entry
    PROVE  LET s == [r EXCEPT !.log = Append(@, e)] IN
           /\ Fits(s, Append(f, e))
           /\ \A c : Applies(r, c) => Applies(s, c)
           /\ s.fsm = r.fsm
<1> DEFINE log2 == Append(r.log, e)
           s == [r EXCEPT !.log = log2]
           h == Append(f, e)
<1>1. /\ r \in Replica /\ r.log \in Seq(Entry) /\ r.snapshotIndex \in Nat
      /\ Len(r.log) \in Nat /\ Len(f) \in Nat
      /\ lastLogIndex(r) = r.snapshotIndex + Len(r.log) /\ Len(f) = lastLogIndex(r)
  BY ReplicaFields, EntryFacts DEF Fits
<1>2. /\ Len(h) = Len(f) + 1 /\ h[Len(f) + 1] = e
      /\ \A i \in 1..Len(f) : h[i] = f[i]
  BY AppendFacts
<1>3. /\ Len(log2) = Len(r.log) + 1 /\ log2[Len(r.log) + 1] = e
      /\ \A i \in 1..Len(r.log) : log2[i] = r.log[i]
  BY <1>1, AppendFacts
<1> HIDE DEF h, log2
<1>4. /\ s.log = log2 /\ s.snapshotIndex = r.snapshotIndex
      /\ s.snapshotTerm = r.snapshotTerm /\ s.snapshot = r.snapshot
      /\ s.lastApplied = r.lastApplied /\ s.fsm = r.fsm /\ s.commitIndex = r.commitIndex
  BY <1>1 DEF Replica
<1> HIDE DEF s
<1>5. Len(h) = lastLogIndex(s)
  BY <1>1, <1>2, <1>3, <1>4 DEF lastLogIndex
<1>6. \A i \in 1..Len(s.log) : h[s.snapshotIndex + i] = s.log[i]
  <2> SUFFICES ASSUME NEW i \in 1..(Len(r.log) + 1) PROVE h[r.snapshotIndex + i] = log2[i]
    BY <1>3, <1>4
  <2>1. CASE i = Len(r.log) + 1
    <3>1. r.snapshotIndex + i = Len(f) + 1
      BY <1>1, <2>1
    <3> QED BY <1>2, <1>3, <2>1, <3>1
  <2>2. CASE i \in 1..Len(r.log)
    <3>1. r.snapshotIndex + i \in 1..Len(f)
      BY <1>1, <2>2
    <3> QED BY <1>2, <1>3, <2>2, <3>1 DEF Fits
  <2>3. i = Len(r.log) + 1 \/ i \in 1..Len(r.log)
    BY <1>1
  <2> QED BY <2>1, <2>2, <2>3
<1>7. termOf(h, s.snapshotIndex) = s.snapshotTerm
  BY <1>1, <1>2, <1>4 DEF Fits, termOf
<1>8. \A i \in 1..s.snapshotIndex : s.snapshot[i] = h[i].cmd
  BY <1>1, <1>2, <1>4 DEF Fits
<1>9. Fits(s, h)
  BY <1>5, <1>6, <1>7, <1>8 DEF Fits
<1>10. \A c : Applies(r, c) => Applies(s, c)
  BY <1>4 DEF Applies
<1> QED BY <1>4, <1>9, <1>10 DEF s, h, log2

\* The apply loop feeds committed entries to the FSM.
LEMMA FitsApplied ==
    ASSUME NEW r, WellFormed(r), NEW f \in Seq(Entry), NEW c \in Seq(Entry),
           Fits(r, f), Applies(r, c), Joined(f, c)
    PROVE  LET s == applyCommitted(r) IN
           /\ Fits(s, f) /\ Applies(s, c)
           /\ isPrefix(r.fsm, s.fsm)
<1> DEFINE s == applyCommitted(r)
<1>1. /\ r.snapshotIndex \in Nat /\ Len(r.log) \in Nat /\ Len(f) \in Nat /\ Len(c) \in Nat
      /\ r.lastApplied \in Nat /\ r.commitIndex \in Nat /\ Len(r.fsm) = r.lastApplied
      /\ lastLogIndex(r) = r.snapshotIndex + Len(r.log) /\ Len(f) = lastLogIndex(r)
  BY ReplicaFields, EntryFacts DEF Fits
<1>2. /\ WellFormed(s) /\ s.log = r.log /\ s.snapshotIndex = r.snapshotIndex
      /\ s.snapshotTerm = r.snapshotTerm /\ s.commitIndex = r.commitIndex
  BY ApplyCommittedKeeps
<1>3. /\ s.lastApplied \in Nat /\ s.lastApplied >= r.lastApplied
      /\ \/ s.lastApplied = r.lastApplied
         \/ s.lastApplied <= r.commitIndex /\ s.lastApplied <= lastLogIndex(r)
      /\ s.snapshot = r.snapshot
      /\ \A i \in 1..r.lastApplied : s.fsm[i] = r.fsm[i]
      /\ \A i \in (r.lastApplied + 1)..s.lastApplied :
             /\ i - r.snapshotIndex \in 1..Len(r.log)
             /\ s.fsm[i] = r.log[i - r.snapshotIndex].cmd
  BY Applied
<1>4. Len(s.fsm) = s.lastApplied
  BY <1>2, ReplicaFields
<1> HIDE DEF s
<1>5. Fits(s, f)
  BY <1>2, <1>3, FitsSame
<1>6. s.commitIndex <= Len(c) /\ s.lastApplied <= Len(c)
  BY <1>1, <1>2, <1>3 DEF Applies
<1>7. ASSUME NEW i \in 1..s.lastApplied PROVE s.fsm[i] = c[i].cmd
  <2>1. CASE i \in 1..r.lastApplied
    BY <1>3, <2>1 DEF Applies
  <2>2. CASE i \in (r.lastApplied + 1)..s.lastApplied
    <3>1. /\ i - r.snapshotIndex \in 1..Len(r.log)
          /\ s.fsm[i] = r.log[i - r.snapshotIndex].cmd
      BY <1>3, <2>2
    <3>2. r.snapshotIndex + (i - r.snapshotIndex) = i /\ i \in 1..Len(f) /\ i <= Len(c)
      BY <1>1, <1>3, <1>6, <3>1
    <3>3. f[i] = r.log[i - r.snapshotIndex]
      BY <3>1, <3>2 DEF Fits
    <3>4. f[i] = c[i]
      BY <3>2, JoinedAgree
    <3> QED BY <3>1, <3>3, <3>4
  <2> QED BY <1>1, <1>3, <2>1, <2>2
<1>8. isPrefix(r.fsm, s.fsm)
  BY <1>1, <1>3, <1>4 DEF isPrefix
<1>9. Applies(s, c)
  BY <1>6, <1>7 DEF Applies
<1> QED BY <1>5, <1>8, <1>9 DEF s

\* Compaction moves the entries it removes into the snapshot.
LEMMA FitsCompacted ==
    ASSUME NEW r, WellFormed(r), NEW f \in Seq(Entry), NEW c \in Seq(Entry),
           Fits(r, f), Applies(r, c), Joined(f, c)
    PROVE  LET s == maybeCompact(r) IN
           /\ Fits(s, f) /\ Applies(s, c) /\ s.fsm = r.fsm
<1> DEFINE s == maybeCompact(r)
           tail == tailAfter(r, r.lastApplied)
<1>1. CASE ~compactionDue(r) \/ compactionPanics(r)
  BY <1>1 DEF maybeCompact
<1>2. CASE compactionDue(r) /\ ~compactionPanics(r)
  <2>1. /\ r \in Replica /\ r.snapshotIndex \in Nat /\ Len(r.log) \in Nat
        /\ Len(f) \in Nat /\ Len(c) \in Nat /\ r.lastApplied \in Nat
        /\ lastLogIndex(r) = r.snapshotIndex + Len(r.log) /\ Len(f) = lastLogIndex(r)
        /\ r.lastApplied > r.snapshotIndex /\ r.lastApplied <= lastLogIndex(r)
    BY <1>2, ReplicaFields, EntryFacts DEF Fits, compactionDue, compactionPanics
  <2>2. /\ tail \in Seq(Entry) /\ Len(tail) \in Nat
        /\ Len(tail) = lastLogIndex(r) - r.lastApplied
        /\ \A k \in 1..Len(tail) :
               /\ r.lastApplied + k - r.snapshotIndex \in 1..Len(r.log)
               /\ tail[k] = r.log[r.lastApplied + k - r.snapshotIndex]
    <3>1. r.lastApplied \in Nat /\ r.lastApplied >= r.snapshotIndex
      BY <2>1
    <3>2. /\ tail \in Seq(Entry)
          /\ Len(tail) = IF r.lastApplied <= lastLogIndex(r)
                         THEN lastLogIndex(r) - r.lastApplied ELSE 0
          /\ \A k \in 1..Len(tail) :
                 /\ r.lastApplied + k - r.snapshotIndex \in 1..Len(r.log)
                 /\ tail[k] = r.log[r.lastApplied + k - r.snapshotIndex]
      BY <3>1, TailAfterEntries, Zenon
    <3> HIDE DEF tail
    <3> QED BY <2>1, <3>2
  <2>3. termAt(r, r.lastApplied) = termOf(f, r.lastApplied)
    BY <2>1, FitsTerms
  <2> HIDE DEF tail
  <2>4. /\ s.log = tail /\ s.snapshotIndex = r.lastApplied
        /\ s.snapshotTerm = termOf(f, r.lastApplied) /\ s.snapshot = r.fsm
        /\ s.lastApplied = r.lastApplied /\ s.fsm = r.fsm /\ s.commitIndex = r.commitIndex
    BY <1>2, <2>1, <2>3 DEF maybeCompact, Replica, tail
  <2> HIDE DEF s
  <2>5. Len(f) = lastLogIndex(s)
    BY <2>1, <2>2, <2>4 DEF lastLogIndex
  <2>6. ASSUME NEW k \in 1..Len(tail) PROVE f[r.lastApplied + k] = tail[k]
    <3>1. /\ r.lastApplied + k - r.snapshotIndex \in 1..Len(r.log)
          /\ tail[k] = r.log[r.lastApplied + k - r.snapshotIndex]
      BY <2>2
    <3>2. r.snapshotIndex + (r.lastApplied + k - r.snapshotIndex) = r.lastApplied + k
      <4>1. k \in Nat /\ r.snapshotIndex \in Nat /\ r.lastApplied \in Nat
        BY <2>1, <2>2
      <4> QED BY <4>1
    <3> QED BY <3>1, <3>2 DEF Fits
  <2>7. ASSUME NEW i \in 1..r.lastApplied PROVE r.fsm[i] = f[i].cmd
    <3>1. i \in 1..Len(f) /\ i <= Len(c)
      BY <2>1 DEF Applies
    <3>2. f[i] = c[i]
      BY <3>1, JoinedAgree
    <3> QED BY <3>2 DEF Applies
  <2>8. Fits(s, f)
    BY <2>4, <2>5, <2>6, <2>7 DEF Fits
  <2>9. Applies(s, c)
    BY <2>4 DEF Applies
  <2> QED BY <2>4, <2>8, <2>9 DEF s
<1> QED BY <1>1, <1>2

\* AppendEntries writes nothing but entries of the sender's log.
LEMMA FitsAppended ==
    ASSUME NEW r, WellFormed(r), NEW g \in Seq(Entry), Fits(r, g),
           NEW m \in AppendReq, prevMatches(r, m),
           NEW f \in Seq(Entry), AgreeOn(f, g), Carries(m, f),
           NEW c \in Seq(Entry), isPrefix(c, f), Joined(g, c), Applies(r, c),
           m.leaderCommit <= Len(c)
    PROVE  LET s == appended(r, m) IN
           \E h \in Seq(Entry) :
               /\ Fits(s, h) /\ Applies(s, c) /\ Joined(h, c)
               /\ isPrefix(r.fsm, s.fsm)
               /\ (m.entries = <<>> /\ h = g) \/ isPrefix(h, f)
<1> DEFINE prev == m.prevLogIndex
           keep == prev - r.snapshotIndex
           size == Len(m.entries)
           s == appended(r, m)
<1>1. /\ r.snapshotIndex \in Nat /\ r.log \in Seq(Entry) /\ Len(r.log) \in Nat
      /\ Len(f) \in Nat /\ Len(g) \in Nat /\ Len(c) \in Nat
      /\ prev \in Nat /\ m.entries \in Seq(Entry) /\ size \in Nat
      /\ lastLogIndex(r) = r.snapshotIndex + Len(r.log) /\ Len(g) = lastLogIndex(r)
  BY ReplicaFields, EntryFacts DEF Fits, AppendReq
<1>2. /\ prev >= r.snapshotIndex /\ prev <= Len(g) /\ prev + size <= Len(f)
      /\ termAt(r, prev) = m.prevLogTerm /\ m.prevLogTerm = termOf(f, prev)
      /\ \A i \in 1..size : m.entries[i] = f[prev + i]
  BY <1>1 DEF prevMatches, Carries
<1>3. termOf(g, prev) = termOf(f, prev)
  BY <1>1, <1>2, FitsTerms
<1>4. \A h \in 1..prev : f[h] = g[h]
  <2>1. prev \in 0..Len(f) /\ prev <= Len(g) /\ termOf(f, prev) = termOf(g, prev)
    BY <1>1, <1>2, <1>3
  <2> QED BY <2>1, MatchedPrefix
<1>5. PICK b : /\ WellFormed(b) /\ s = applyCommitted(b)
               /\ b.log = logAfter(r, m) /\ b.snapshotIndex = r.snapshotIndex
               /\ b.snapshotTerm = r.snapshotTerm /\ b.snapshot = r.snapshot
               /\ b.lastApplied = r.lastApplied /\ b.fsm = r.fsm
               /\ b.commitIndex = r.commitIndex \/ b.commitIndex <= m.leaderCommit
  BY AppendedFields
<1>6. Applies(b, c)
  <2>1. b.commitIndex \in Nat /\ m.leaderCommit \in Nat
    BY <1>5, ReplicaFields DEF AppendReq
  <2> QED BY <1>1, <1>5, <2>1 DEF Applies
<1>7. CASE m.entries = <<>>
  <2>1. Fits(b, g)
    BY <1>5, <1>7, FitsSame DEF logAfter
  <2>2. Fits(s, g) /\ Applies(s, c) /\ isPrefix(b.fsm, s.fsm)
    BY <1>5, <1>6, <2>1, FitsApplied
  <2> HIDE DEF s
  <2> QED BY <1>5, <1>7, <2>2 DEF s
<1>8. CASE m.entries # <<>>
  <2> DEFINE h == cut(f, prev + size)
             head == SubSeq(r.log, 1, keep)
             log2 == head \o m.entries
  <2>1. prev + size \in 0..Len(f) /\ keep \in 0..Len(r.log)
    BY <1>1, <1>2
  <2>2. /\ h \in Seq(Entry) /\ Len(h) = prev + size /\ isPrefix(h, f)
        /\ \A j \in 1..(prev + size) : h[j] = f[j]
    BY <2>1, CutPrefix
  <2>3. /\ head \in Seq(Entry) /\ Len(head) = keep
        /\ \A j \in 1..keep : head[j] = r.log[j]
    BY <1>1, <2>1, CutPrefix DEF cut
  <2> HIDE DEF h, head
  <2>4. /\ Len(log2) = keep + size
        /\ \A i \in 1..(keep + size) :
               log2[i] = IF i <= keep THEN head[i] ELSE m.entries[i - keep]
    <3>1. /\ Len(log2) = Len(head) + size
          /\ \A i \in 1..(Len(head) + size) :
                 log2[i] = IF i <= Len(head) THEN head[i] ELSE m.entries[i - Len(head)]
      <4>1. head \in Seq(Entry) /\ m.entries \in Seq(Entry)
        BY <1>1, <2>3
      <4> QED BY <4>1, ConcatProperties, Zenon
    <3> QED BY <2>3, <3>1
  <2>5. b.log = log2
    BY <1>5, <1>8 DEF logAfter, head
  <2> HIDE DEF log2
  <2>6. Len(h) = lastLogIndex(b)
    BY <1>1, <1>2, <1>5, <2>2, <2>4, <2>5 DEF lastLogIndex
  <2>7. ASSUME NEW i \in 1..(keep + size) PROVE h[r.snapshotIndex + i] = log2[i]
    <3>1. i \in Nat /\ r.snapshotIndex + i \in 1..(prev + size)
      BY <1>1, <1>2
    <3>2. CASE i <= keep
      <4>1. /\ i \in 1..keep /\ i \in 1..Len(r.log) /\ r.snapshotIndex + i \in 1..prev
        BY <1>1, <1>2, <3>1, <3>2
      <4>2. h[r.snapshotIndex + i] = f[r.snapshotIndex + i]
        BY <2>2, <3>1
      <4>3. f[r.snapshotIndex + i] = g[r.snapshotIndex + i]
        BY <1>4, <4>1
      <4>4. g[r.snapshotIndex + i] = r.log[i]
        BY <4>1 DEF Fits
      <4>5. log2[i] = r.log[i]
        BY <2>3, <2>4, <3>2, <4>1
      <4> QED BY <4>2, <4>3, <4>4, <4>5
    <3>3. CASE ~(i <= keep)
      <4>1. i - keep \in 1..size /\ prev + (i - keep) = r.snapshotIndex + i
        <5>1. /\ i \in Nat /\ prev \in Nat /\ r.snapshotIndex \in Nat /\ size \in Nat
              /\ prev >= r.snapshotIndex /\ i <= keep + size
          BY <1>1, <1>2, <3>1
        <5> QED BY <3>3, <5>1
      <4>2. log2[i] = f[r.snapshotIndex + i]
        BY <1>2, <2>4, <3>3, <4>1
      <4> QED BY <2>2, <3>1, <4>2
    <3> QED BY <3>2, <3>3
  <2>8. termOf(h, r.snapshotIndex) = r.snapshotTerm
    <3>1. r.snapshotIndex = 0 \/ (r.snapshotIndex \in 1..prev /\ r.snapshotIndex \in 1..(prev + size))
      BY <1>1, <1>2
    <3>2. termOf(h, r.snapshotIndex) = termOf(g, r.snapshotIndex)
      BY <1>1, <1>4, <2>2, <3>1 DEF termOf
    <3> QED BY <3>2 DEF Fits
  <2>9. \A i \in 1..r.snapshotIndex : r.snapshot[i] = h[i].cmd
    <3> SUFFICES ASSUME NEW i \in 1..r.snapshotIndex PROVE r.snapshot[i] = h[i].cmd
      OBVIOUS
    <3>1. i \in 1..prev /\ i \in 1..(prev + size)
      BY <1>1, <1>2
    <3>2. h[i] = g[i]
      BY <1>4, <2>2, <3>1
    <3> QED BY <3>2 DEF Fits
  <2>10. Fits(b, h)
    BY <1>5, <2>4, <2>5, <2>6, <2>7, <2>8, <2>9 DEF Fits
  <2>11. Joined(h, c)
    BY <2>2, PrefixesJoined
  <2>12. Fits(s, h) /\ Applies(s, c) /\ isPrefix(b.fsm, s.fsm)
    BY <1>5, <1>6, <2>2, <2>10, <2>11, FitsApplied
  <2> HIDE DEF s
  <2> QED BY <1>5, <2>2, <2>11, <2>12 DEF s
<1> QED BY <1>7, <1>8

\* What a leader commits extends what is committed, within its log.
LEMMA FitsCommitted ==
    ASSUME NEW r, WellFormed(r), NEW f \in Seq(Entry), NEW c \in Seq(Entry),
           Fits(r, f), Applies(r, c), isPrefix(c, f), NEW n, NEW match
    PROVE  LET s == advanceCommitIndex(n, r, match) IN
           \E d \in Seq(Entry) :
               /\ isPrefix(c, d) /\ isPrefix(d, f)
               /\ Fits(s, f) /\ Applies(s, d)
               /\ isPrefix(r.fsm, s.fsm)
<1> DEFINE s == advanceCommitIndex(n, r, match)
<1>1. /\ Len(f) \in Nat /\ Len(c) \in Nat /\ Len(f) = lastLogIndex(r) /\ Len(c) <= Len(f)
      /\ r.fsm \in Seq(Command) /\ Len(r.fsm) \in Nat /\ r.lastApplied \in Nat
  BY ReplicaFields, EntryFacts DEF Fits, isPrefix
<1>2. CASE s = r
  <2>1. isPrefix(c, c) /\ isPrefix(r.fsm, r.fsm)
    BY <1>1, PrefixItself DEF isPrefix
  <2> HIDE DEF s
  <2> QED BY <1>2, <2>1 DEF s
<1>3. CASE s # r
  <2>1. PICK b : /\ WellFormed(b) /\ s = applyCommitted(b)
                 /\ b.log = r.log /\ b.snapshotIndex = r.snapshotIndex
                 /\ b.snapshotTerm = r.snapshotTerm /\ b.snapshot = r.snapshot
                 /\ b.lastApplied = r.lastApplied /\ b.fsm = r.fsm
                 /\ b.commitIndex <= lastLogIndex(r)
    BY <1>3, AdvancedFields
  <2>2. b.commitIndex \in Nat
    BY <2>1, ReplicaFields
  <2>3. PICK d \in Seq(Entry) : /\ isPrefix(c, d) /\ isPrefix(d, f)
                                /\ b.commitIndex <= Len(d)
    <3>1. CASE b.commitIndex <= Len(c)
      BY <3>1, PrefixItself
    <3>2. CASE ~(b.commitIndex <= Len(c))
      <4> DEFINE d == cut(f, b.commitIndex)
      <4>1. b.commitIndex \in 0..Len(f) /\ Len(c) <= b.commitIndex
        BY <1>1, <2>1, <2>2, <3>2
      <4>2. d \in Seq(Entry) /\ Len(d) = b.commitIndex /\ isPrefix(d, f)
        BY <4>1, CutPrefix
      <4>3. isPrefix(c, d)
        BY <4>1, PrefixOfCut
      <4> HIDE DEF d
      <4> QED BY <2>2, <4>2, <4>3
    <3> QED BY <3>1, <3>2
  <2>4. Fits(b, f)
    BY <2>1, FitsSame
  <2>5. Applies(b, d)
    <3>1. Len(d) \in Nat /\ Len(c) <= Len(d) /\ \A i \in 1..Len(c) : c[i] = d[i]
      BY <2>3, EntryFacts DEF isPrefix
    <3>2. r.lastApplied <= Len(c) /\ \A i \in 1..r.lastApplied : r.fsm[i] = c[i].cmd
      BY DEF Applies
    <3>3. b.lastApplied <= Len(d) /\ b.commitIndex <= Len(d)
      BY <1>1, <2>1, <2>3, <3>1, <3>2
    <3>4. \A i \in 1..b.lastApplied : i \in 1..Len(c) /\ b.fsm[i] = c[i].cmd
      BY <1>1, <2>1, <3>2
    <3> QED BY <3>1, <3>3, <3>4 DEF Applies
  <2>6. Joined(f, d)
    BY <2>3 DEF Joined
  <2>7. Fits(s, f) /\ Applies(s, d) /\ isPrefix(b.fsm, s.fsm)
    BY <2>1, <2>4, <2>5, <2>6, FitsApplied
  <2> HIDE DEF s
  <2> QED BY <2>1, <2>3, <2>7 DEF s
<1> QED BY <1>2, <1>3

\* A snapshot leaves the longer of itself and the log.
LEMMA FitsInstalled ==
    ASSUME NEW r, WellFormed(r), NEW g \in Seq(Entry), NEW c \in Seq(Entry),
           Fits(r, g), Applies(r, c), Joined(g, c),
           NEW m \in SnapReq, Len(m.data) = m.lastIncludedIndex, Image(m, c),
           ~alreadyInstalled(r, m)
    PROVE  LET s == installed(r, m) IN
           \E h \in Seq(Entry) :
               /\ Fits(s, h) /\ Applies(s, c) /\ Joined(h, c)
               /\ h = g \/ isPrefix(h, c)
               /\ isPrefix(r.fsm, s.fsm) \/ isPrefix(s.fsm, r.fsm)
               /\ s.snapshotIndex > r.snapshotIndex
<1> DEFINE k == m.lastIncludedIndex
           s == installed(r, m)
           tail == tailAfter(r, k)
<1>1. /\ r \in Replica /\ r.snapshotIndex \in Nat /\ Len(r.log) \in Nat
      /\ Len(g) \in Nat /\ Len(c) \in Nat /\ r.lastApplied \in Nat /\ r.commitIndex \in Nat
      /\ lastLogIndex(r) = r.snapshotIndex + Len(r.log) /\ Len(g) = lastLogIndex(r)
      /\ Len(r.fsm) = r.lastApplied
      /\ k \in Nat /\ k > r.snapshotIndex /\ k <= Len(c) /\ k \in 0..Len(c)
  BY ReplicaFields, EntryFacts DEF Fits, SnapReq, alreadyInstalled, Image
<1>2. /\ Len(tail) \in Nat /\ Len(tail) = (IF k <= Len(g) THEN Len(g) - k ELSE 0)
      /\ \A j \in 1..Len(tail) : /\ k + j - r.snapshotIndex \in 1..Len(r.log)
                                 /\ tail[j] = r.log[k + j - r.snapshotIndex]
  <2>1. k \in Nat /\ k >= r.snapshotIndex
    BY <1>1
  <2>2. /\ tail \in Seq(Entry)
        /\ Len(tail) = IF k <= lastLogIndex(r) THEN lastLogIndex(r) - k ELSE 0
        /\ \A j \in 1..Len(tail) : /\ k + j - r.snapshotIndex \in 1..Len(r.log)
                                   /\ tail[j] = r.log[k + j - r.snapshotIndex]
    BY <2>1, TailAfterEntries, Zenon
  <2> HIDE DEF tail
  <2> QED BY <1>1, <2>2
<1> HIDE DEF tail
<1>3. /\ s.log = tail /\ s.snapshotIndex = k /\ s.snapshotTerm = m.lastIncludedTerm
      /\ s.snapshot = m.data /\ s.fsm = m.data /\ s.lastApplied = k
      /\ s.commitIndex = Lesser(r.commitIndex, k)
  BY <1>1 DEF installed, Replica, tail
<1> HIDE DEF s
<1>4. Applies(s, c)
  <2>1. Lesser(r.commitIndex, k) <= Len(c)
    BY <1>1 DEF Lesser
  <2> QED BY <1>1, <1>3, <2>1 DEF Applies, Image
<1>5. isPrefix(r.fsm, s.fsm) \/ isPrefix(s.fsm, r.fsm)
  <2>1. \A i \in 1..r.lastApplied : r.fsm[i] = c[i].cmd
    BY DEF Applies
  <2>2. \A i \in 1..k : m.data[i] = c[i].cmd
    BY DEF Image
  <2> QED BY <1>1, <1>3, <2>1, <2>2 DEF isPrefix
<1>6. CASE k < Len(g)
  <2>1. Len(g) = lastLogIndex(s)
    BY <1>1, <1>2, <1>3, <1>6 DEF lastLogIndex
  <2>2. ASSUME NEW j \in 1..Len(tail) PROVE g[k + j] = tail[j]
    <3>1. /\ k + j - r.snapshotIndex \in 1..Len(r.log)
          /\ tail[j] = r.log[k + j - r.snapshotIndex]
      BY <1>2
    <3>2. r.snapshotIndex + (k + j - r.snapshotIndex) = k + j
      <4>1. j \in Nat /\ k \in Nat /\ r.snapshotIndex \in Nat
        BY <1>1, <1>2
      <4> QED BY <4>1
    <3> QED BY <3>1, <3>2 DEF Fits
  <2>3. \A i \in 1..k : g[i] = c[i]
    <3>1. \A i \in 1..k : i \in 1..Len(g) /\ i <= Len(c)
      BY <1>1, <1>6
    <3> QED BY <3>1, JoinedAgree
  <2>4. termOf(g, k) = m.lastIncludedTerm
    <3>1. m.lastIncludedTerm = termOf(c, k)
      BY DEF Image
    <3>2. k # 0 => g[k] = c[k]
      <4>1. k \in Nat
        BY <1>1
      <4>2. k # 0 => k \in 1..k
        BY <4>1
      <4> QED BY <2>3, <4>2
    <3> QED BY <3>1, <3>2 DEF termOf
  <2>5. \A i \in 1..k : m.data[i] = g[i].cmd
    BY <2>3 DEF Image
  <2>6. Fits(s, g)
    BY <1>3, <2>1, <2>2, <2>4, <2>5 DEF Fits
  <2> QED BY <1>1, <1>3, <1>4, <1>5, <2>6 DEF s
<1>7. CASE ~(k < Len(g))
  <2> DEFINE h == cut(c, k)
  <2>1. /\ h \in Seq(Entry) /\ Len(h) = k /\ isPrefix(h, c)
        /\ \A j \in 1..k : h[j] = c[j]
    BY <1>1, CutPrefix
  <2> HIDE DEF h
  <2>2. Len(tail) = 0 /\ Len(h) = lastLogIndex(s)
    BY <1>1, <1>2, <1>3, <1>7, <2>1 DEF lastLogIndex
  <2>3. termOf(h, k) = m.lastIncludedTerm
    BY <1>1, <2>1 DEF termOf, Image
  <2>4. \A i \in 1..k : m.data[i] = h[i].cmd
    BY <2>1 DEF Image
  <2>5. Fits(s, h)
    BY <1>3, <2>2, <2>3, <2>4 DEF Fits
  <2>6. Joined(h, c)
    BY <2>1 DEF Joined
  <2> QED BY <1>1, <1>3, <1>4, <1>5, <2>1, <2>5, <2>6 DEF s
<1> QED BY <1>6, <1>7

-----------------------------------------------------------------------------
(* The logs F of the two nodes and the sequence C of committed entries.    *)

\* The logs are ordered by term, and one entry of one term at one index
\* determines what comes before it.
LogsFit(F) == \A n \in Node : Fits(replica[n], F[n]) /\ Ordered(F[n])
LogsAgree(F) == \A n, p \in Node : AgreeOn(F[n], F[p])

\* A leader's log extends its peer's, or was as good when it was elected.
LeaderWon(F) ==
    \A n, p \in Node : (n # p /\ state[n] = Leader) =>
        isPrefix(F[p], F[n]) \/ Won(F[n], currentTerm[n], F[p])

\* A candidate has no entry of its own term.
CandidateNew(F) ==
    \A n \in Node : state[n] = Candidate =>
        \A i \in 1..Len(F[n]) : F[n][i].term < currentTerm[n]

\* What a candidate asks for and what it is told stay true until it is elected,
\* and what a leader is told until it is deposed.
VotesAsk(F) ==
    \A m \in voteReqs :
        (state[m.from] = Candidate /\ currentTerm[m.from] = m.term)
        => m.lastLogIndex = Len(F[m.from]) /\ m.lastLogTerm = lastTermOf(F[m.from])
VotesGrant(F) ==
    \A m \in voteReplies :
        (m.granted /\ state[m.req.from] = Candidate /\ currentTerm[m.req.from] = m.req.term)
        => asGood(lastTermOf(F[m.req.from]), Len(F[m.req.from]), F[m.req.to])
Acks(F) ==
    \A m \in appendReplies :
        (m.success /\ state[m.req.from] = Leader /\ currentTerm[m.req.from] = m.req.term)
        => isPrefix(F[m.req.to], F[m.req.from])

\* No log contradicts C, a leader has all of C, and so has some node.
CommittedHeld(F, C) ==
    /\ \A n \in Node : Joined(F[n], C)
    /\ \E n \in Node : isPrefix(C, F[n])
    /\ \A n \in Node : state[n] = Leader => isPrefix(C, F[n])
CommittedApplied(C) == \A n \in Node : Applies(replica[n], C)

\* What is on its way to a node that will look at it.
AppendsCarry(F, C) ==
    \A m \in appendReqs :
        /\ m.leaderCommit <= Len(C)
        /\ m.term = currentTerm[m.to] => Carries(m, F[m.from]) /\ isPrefix(C, F[m.from])
ImagesTrue(F, C) ==
    \A m \in snapReqs :
        /\ Image(m, C)
        /\ m.term = currentTerm[m.to] => isPrefix(C, F[m.from])

LogInv(F, C) ==
    /\ LogsFit(F) /\ LogsAgree(F) /\ LeaderWon(F) /\ CandidateNew(F)
    /\ VotesAsk(F) /\ VotesGrant(F) /\ Acks(F)
    /\ CommittedHeld(F, C) /\ CommittedApplied(C)
    /\ AppendsCarry(F, C) /\ ImagesTrue(F, C)

\* A request that a node still looks at after a step, it looked at before.
LEMMA StillLookedAt ==
    ASSUME TypeOK, TypeOK', Voting, \A n \in Node : Moves(n), NEW m \in Requests,
           m.term = currentTerm'[m.to]
    PROVE  m.term = currentTerm[m.to]
<1>1. m.to \in Node /\ m.term \in Nat /\ Yields(m.to, m.term)
  BY DEF TypeOK, Requests, AppendReq, SnapReq, Voting, SendersLed
<1>2. currentTerm[m.to] \in Nat /\ currentTerm'[m.to] \in Nat
  BY <1>1 DEF TypeOK
<1> QED BY <1>1, <1>2 DEF Moves, Yields

\* A step that changes no replica: what is left to show.
LEMMA LogsKept ==
    ASSUME TypeOK, TypeOK', Voting, \A n \in Node : Moves(n), replica' = replica,
           NEW F \in [Node -> Seq(Entry)], NEW C \in Seq(Entry), LogInv(F, C),
           LeaderWon(F)', CandidateNew(F)', VotesAsk(F)', VotesGrant(F)', Acks(F)',
           \A n \in Node : state'[n] = Leader => isPrefix(C, F[n]),
           \A m \in appendReqs' : m \in appendReqs
               \/ /\ m.leaderCommit <= Len(C)
                  /\ Carries(m, F[m.from]) /\ isPrefix(C, F[m.from]),
           \A m \in snapReqs' : m \in snapReqs
               \/ (Image(m, C) /\ isPrefix(C, F[m.from]))
    PROVE  LogInv(F, C)'
<1>1. LogsFit(F)' /\ LogsAgree(F)' /\ CommittedApplied(C)'
  BY DEF LogInv, LogsFit, LogsAgree, CommittedApplied
<1>2. CommittedHeld(F, C)'
  BY DEF LogInv, CommittedHeld
<1>3. AppendsCarry(F, C)'
  <2> SUFFICES ASSUME NEW m \in appendReqs'
               PROVE  /\ m.leaderCommit <= Len(C)
                      /\ m.term = currentTerm'[m.to]
                         => Carries(m, F[m.from]) /\ isPrefix(C, F[m.from])
    BY DEF AppendsCarry
  <2>1. CASE m \in appendReqs
    <3>1. m.term = currentTerm'[m.to] => m.term = currentTerm[m.to]
      BY <2>1, StillLookedAt DEF Requests
    <3> QED BY <2>1, <3>1 DEF LogInv, AppendsCarry
  <2> QED BY <2>1
<1>4. ImagesTrue(F, C)'
  <2> SUFFICES ASSUME NEW m \in snapReqs'
               PROVE  /\ Image(m, C)
                      /\ m.term = currentTerm'[m.to] => isPrefix(C, F[m.from])
    BY DEF ImagesTrue
  <2>1. CASE m \in snapReqs
    <3>1. m.term = currentTerm'[m.to] => m.term = currentTerm[m.to]
      BY <2>1, StillLookedAt DEF Requests
    <3> QED BY <2>1, <3>1 DEF LogInv, ImagesTrue
  <2> QED BY <2>1
<1> QED BY <1>1, <1>2, <1>3, <1>4 DEF LogInv

\* Nobody takes office.
NoneRises ==
    \A n \in Node : state'[n] # Follower =>
        state'[n] = state[n] /\ currentTerm'[n] = currentTerm[n]

\* A step that changes no replica and after which nobody is in a new office.
LEMMA LogsQuiet ==
    ASSUME TypeOK, TypeOK', Voting, \A n \in Node : Moves(n), replica' = replica, NoneRises,
           NEW F \in [Node -> Seq(Entry)], NEW C \in Seq(Entry), LogInv(F, C),
           voteReqs' \subseteq voteReqs, voteReplies' \subseteq voteReplies,
           \A m \in appendReplies' : m \in appendReplies \/ m.success = FALSE,
           \A m \in appendReqs' : m \in appendReqs
               \/ /\ m.leaderCommit <= Len(C)
                  /\ Carries(m, F[m.from]) /\ isPrefix(C, F[m.from]),
           \A m \in snapReqs' : m \in snapReqs
               \/ (Image(m, C) /\ isPrefix(C, F[m.from]))
    PROVE  LogInv(F, C)'
<1>1. \A n \in Node : /\ state'[n] = Leader => /\ state[n] = Leader
                                               /\ currentTerm'[n] = currentTerm[n]
                      /\ state'[n] = Candidate => /\ state[n] = Candidate
                                                  /\ currentTerm'[n] = currentTerm[n]
  BY DEF NoneRises, Follower, Candidate, Leader
<1>2. /\ \A m \in voteReqs' : m.from \in Node
      /\ \A m \in voteReplies' : m.req.from \in Node
      /\ \A m \in appendReplies' : m.req.from \in Node
  BY DEF TypeOK, VoteReq, VoteReply, AppendReply, AppendReq
<1>3. LeaderWon(F)'
  BY <1>1 DEF LogInv, LeaderWon
<1>4. CandidateNew(F)'
  <2> SUFFICES ASSUME NEW n \in Node, state'[n] = Candidate, NEW i \in 1..Len(F[n])
               PROVE  F[n][i].term < currentTerm'[n]
    BY DEF CandidateNew
  <2> QED BY <1>1 DEF LogInv, CandidateNew
<1>5. VotesAsk(F)'
  BY <1>1, <1>2 DEF LogInv, VotesAsk
<1>6. VotesGrant(F)'
  BY <1>1, <1>2 DEF LogInv, VotesGrant
<1>7. Acks(F)'
  BY <1>1, <1>2 DEF LogInv, Acks
<1>8. \A n \in Node : state'[n] = Leader => isPrefix(C, F[n])
  BY <1>1 DEF LogInv, CommittedHeld
<1> QED BY <1>3, <1>4, <1>5, <1>6, <1>7, <1>8, LogsKept

\* An election starts: the candidate has no entry of the new term.
LEMMA StartElectionLogs ==
    ASSUME Pair, IInv, IInv', Voting, NEW n \in Node, startElection(n),
           NEW F \in [Node -> Seq(Entry)], NEW C \in Seq(Entry), LogInv(F, C)
    PROVE  LogInv(F, C)'
<1>1. /\ TypeOK /\ TypeOK' /\ \A p \in Node : Moves(p)
      /\ state' = [state EXCEPT ![n] = Candidate]
  BY StartElectionVotes DEF IInv
<1>2. /\ appendReplies' = appendReplies
      /\ currentTerm' = [currentTerm EXCEPT ![n] = @ + 1]
      /\ voteReplies' = {m \in voteReplies : m.req.from # n}
  BY DEF startElection, appendRpcs
<1>3. \A p \in Node :
          /\ state'[p] = IF p = n THEN Candidate ELSE state[p]
          /\ currentTerm'[p] = IF p = n THEN currentTerm[p] + 1 ELSE currentTerm[p]
          /\ currentTerm[p] \in Nat
  BY <1>1, <1>2 DEF TypeOK
<1>4. \A p \in Node : state'[p] = Leader =>
          p # n /\ state[p] = Leader /\ currentTerm'[p] = currentTerm[p]
  BY <1>3 DEF Candidate, Leader
<1>5. LeaderWon(F)'
  BY <1>4 DEF LogInv, LeaderWon
<1>6. CandidateNew(F)'
  <2> SUFFICES ASSUME NEW p \in Node, state'[p] = Candidate, NEW i \in 1..Len(F[p])
               PROVE  F[p][i].term < currentTerm'[p]
    BY DEF CandidateNew
  <2>1. CASE p # n
    BY <1>3, <2>1 DEF LogInv, CandidateNew
  <2>2. CASE p = n
    <3>1. F[n] \in Seq(Entry) /\ Fits(replica[n], F[n]) /\ Ordered(F[n])
          /\ WellFormed(replica[n]) /\ TermsUpTo(replica[n], currentTerm[n])
      BY DEF LogInv, LogsFit, IInv, ReplicasSound
    <3>2. F[n][i].term <= currentTerm[n]
      BY <1>3, <2>2, <3>1, FitsBounded
    <3>3. F[n][i].term \in Nat
      BY <2>2, <3>1, EntryFacts
    <3> QED BY <1>3, <2>2, <3>2, <3>3
  <2> QED BY <2>1, <2>2
<1>7. VotesAsk(F)'
  <2> SUFFICES ASSUME NEW m \in voteReqs', state'[m.from] = Candidate,
                      currentTerm'[m.from] = m.term
               PROVE  m.lastLogIndex = Len(F[m.from]) /\ m.lastLogTerm = lastTermOf(F[m.from])
    BY DEF VotesAsk
  <2>1. CASE \E k \in voteReqs : m = orphaned(k, n)
    <3>1. PICK k \in voteReqs : m = orphaned(k, n)
      BY <2>1
    <3>2. /\ k \in VoteReq /\ k.from \in Node /\ k.term \in Nat /\ k.term <= currentTerm[k.from]
      BY <1>1 DEF TypeOK, VoteReq, Voting, VotesFair
    <3>3. /\ m.from = k.from /\ m.term = k.term
          /\ m.lastLogIndex = k.lastLogIndex /\ m.lastLogTerm = k.lastLogTerm
      BY <3>1, <3>2 DEF orphaned, VoteReq
    <3>4. m.from # n
      BY <1>3, <3>2, <3>3
    <3> QED BY <1>3, <3>2, <3>3, <3>4 DEF LogInv, VotesAsk
  <2>2. CASE /\ m.from = n /\ m.lastLogIndex = lastLogIndex(replica[n])
             /\ m.lastLogTerm = lastLogTerm(replica[n])
    <3>1. F[n] \in Seq(Entry) /\ Fits(replica[n], F[n]) /\ WellFormed(replica[n])
      BY DEF LogInv, LogsFit, IInv, ReplicasSound
    <3> QED BY <2>2, <3>1, FitsTerms DEF Fits
  <2>3. \/ \E k \in voteReqs : m = orphaned(k, n)
        \/ /\ m.from = n /\ m.lastLogIndex = lastLogIndex(replica[n])
           /\ m.lastLogTerm = lastLogTerm(replica[n])
    BY DEF startElection
  <2> QED BY <2>1, <2>2, <2>3
<1>8. VotesGrant(F)'
  <2>1. \A m \in voteReplies' : m \in voteReplies /\ m.req.from \in Node /\ m.req.from # n
    BY <1>1, <1>2 DEF TypeOK, VoteReply, VoteReq
  <2> QED BY <1>3, <2>1 DEF LogInv, VotesGrant
<1>9. Acks(F)'
  <2>1. \A m \in appendReplies' : m \in appendReplies /\ m.req.from \in Node
    BY <1>1, <1>2 DEF TypeOK, AppendReply, AppendReq
  <2> QED BY <1>4, <2>1 DEF LogInv, Acks
<1>10. \A p \in Node : state'[p] = Leader => isPrefix(C, F[p])
  BY <1>4 DEF LogInv, CommittedHeld
<1>11. replica' = replica /\ appendReqs' = appendReqs /\ snapReqs' = snapReqs
  BY DEF startElection, appendRpcs, snapRpcs
<1>12. TypeOK /\ TypeOK' /\ \A p \in Node : Moves(p)
  BY <1>1
<1> QED BY <1>5, <1>6, <1>7, <1>8, <1>9, <1>10, <1>11, <1>12, LogsKept

\* A vote is granted: the candidate's log is as good as the voter's.
LEMMA RequestVoteLogs ==
    ASSUME Pair, IInv, IInv', Voting, NEW m \in voteReqs, RequestVote(m),
           NEW F \in [Node -> Seq(Entry)], NEW C \in Seq(Entry), LogInv(F, C)
    PROVE  LogInv(F, C)'
<1> DEFINE n == m.to
           newer == m.term > currentTerm[n]
           vote  == IF newer THEN Nil ELSE votedFor[n]
           grant == /\ m.term >= currentTerm[n]
                    /\ mayVote(vote, m.from)
                    /\ logIsUpToDate(replica[n], m.lastLogIndex, m.lastLogTerm)
           reply == [req |-> m, term |-> Greater(m.term, currentTerm[n]), granted |-> grant]
<1>1. TypeOK /\ TypeOK' /\ \A p \in Node : Moves(p)
  BY RequestVoteVotes DEF IInv
<1>2. /\ n \in Node /\ m.from \in Node /\ m.term \in Nat /\ m.from # n
      /\ m.lastLogIndex \in Nat /\ m.lastLogTerm \in Nat
  BY <1>1 DEF TypeOK, VoteReq, Voting, VotesFair
<1>3. /\ replica' = replica /\ appendReqs' = appendReqs /\ snapReqs' = snapReqs
      /\ appendReplies' = appendReplies /\ voteReqs' \subseteq voteReqs
      /\ voteReplies' = voteReplies \cup answer(m, reply)
  BY DEF RequestVote, appendRpcs, snapRpcs
<1>4. \A p \in Node :
          \/ currentTerm'[p] = currentTerm[p] /\ state'[p] = state[p]
          \/ p = n /\ state'[p] = Follower
  <2>1. \/ state' = [state EXCEPT ![n] = Follower]
           /\ currentTerm' = [currentTerm EXCEPT ![n] = m.term]
        \/ state' = state /\ currentTerm' = currentTerm
    BY DEF RequestVote, becomeFollower
  <2> QED BY <1>1, <1>2, <2>1 DEF TypeOK
<1>5. \A p \in Node : /\ state'[p] = Leader => /\ state[p] = Leader
                                               /\ currentTerm'[p] = currentTerm[p]
                      /\ state'[p] = Candidate => /\ state[p] = Candidate
                                                  /\ currentTerm'[p] = currentTerm[p]
  BY <1>4 DEF Leader, Follower, Candidate
<1>6. LeaderWon(F)'
  BY <1>5 DEF LogInv, LeaderWon
<1>7. CandidateNew(F)'
  <2> SUFFICES ASSUME NEW p \in Node, state'[p] = Candidate, NEW i \in 1..Len(F[p])
               PROVE  F[p][i].term < currentTerm'[p]
    BY DEF CandidateNew
  <2> QED BY <1>5 DEF LogInv, CandidateNew
<1>8. VotesAsk(F)'
  <2>1. \A k \in voteReqs' : k \in voteReqs /\ k.from \in Node
    BY <1>1, <1>3 DEF TypeOK, VoteReq
  <2> QED BY <1>5, <2>1 DEF LogInv, VotesAsk
<1>9. VotesGrant(F)'
  <2> SUFFICES ASSUME NEW k \in voteReplies', k.granted, state'[k.req.from] = Candidate,
                      currentTerm'[k.req.from] = k.req.term
               PROVE  asGood(lastTermOf(F[k.req.from]), Len(F[k.req.from]), F[k.req.to])
    BY DEF VotesGrant
  <2>1. CASE k \in voteReplies
    <3>1. k.req.from \in Node
      BY <1>1, <2>1 DEF TypeOK, VoteReply, VoteReq
    <3> QED BY <1>5, <2>1, <3>1 DEF LogInv, VotesGrant
  <2>2. CASE k.req = m /\ k.granted = grant
    <3>1. grant /\ state[m.from] = Candidate /\ currentTerm[m.from] = m.term
      BY <1>2, <1>5, <2>2
    <3>2. m.lastLogIndex = Len(F[m.from]) /\ m.lastLogTerm = lastTermOf(F[m.from])
      BY <3>1 DEF LogInv, VotesAsk
    <3>3. F[n] \in Seq(Entry) /\ Fits(replica[n], F[n]) /\ WellFormed(replica[n])
      BY <1>2 DEF LogInv, LogsFit, IInv, ReplicasSound
    <3>4. lastLogTerm(replica[n]) = lastTermOf(F[n]) /\ lastLogIndex(replica[n]) = Len(F[n])
      BY <3>3, FitsTerms DEF Fits
    <3>5. logIsUpToDate(replica[n], m.lastLogIndex, m.lastLogTerm)
      BY <3>1
    <3> QED BY <2>2, <3>2, <3>4, <3>5 DEF logIsUpToDate, asGood
  <2>3. reply.req = m /\ reply.granted = grant
    OBVIOUS
  <2>4. k \in voteReplies \/ k = reply
    <3> HIDE DEF reply
    <3> QED BY <1>3 DEF answer
  <2> HIDE DEF reply, grant
  <2> QED BY <2>1, <2>2, <2>3, <2>4
<1>10. Acks(F)'
  <2>1. \A k \in appendReplies' : k \in appendReplies /\ k.req.from \in Node
    BY <1>1, <1>3 DEF TypeOK, AppendReply, AppendReq
  <2> QED BY <1>5, <2>1 DEF LogInv, Acks
<1>11. \A p \in Node : state'[p] = Leader => isPrefix(C, F[p])
  BY <1>5 DEF LogInv, CommittedHeld
<1>12. replica' = replica /\ appendReqs' = appendReqs /\ snapReqs' = snapReqs
  BY <1>3
<1> HIDE DEF reply, grant, n
<1> QED BY <1>1, <1>6, <1>7, <1>8, <1>9, <1>10, <1>11, <1>12, LogsKept

\* An election is won: the log of the new leader was as good as its peer's, so
\* it has what is committed.
LEMMA ElectedLogs ==
    ASSUME Pair, IInv, IInv', Voting, \A p \in Node : Moves(p),
           NEW m \in voteReplies, m.granted,
           state[m.req.from] = Candidate, currentTerm[m.req.from] = m.req.term,
           \A p \in Node : state'[p] = IF p = m.req.from THEN Leader ELSE state[p],
           currentTerm' = currentTerm, replica' = replica, voteReqs' = voteReqs,
           voteReplies' \subseteq voteReplies,
           appendReqs' = appendReqs, appendReplies' = appendReplies, snapReqs' = snapReqs,
           NEW F \in [Node -> Seq(Entry)], NEW C \in Seq(Entry), LogInv(F, C)
    PROVE  LogInv(F, C)'
<1> DEFINE n == m.req.from
           q == m.req.to
<1>1. /\ TypeOK /\ TypeOK' /\ n \in Node /\ q \in Node /\ n # q /\ m.req.term \in Nat
      /\ currentTerm[n] \in Nat /\ F[n] \in Seq(Entry) /\ F[q] \in Seq(Entry)
      /\ \A p \in Node : p = n \/ p = q
  <2>1. /\ TypeOK /\ TypeOK' /\ n \in Node /\ q \in Node /\ n # q /\ m.req.term \in Nat
    BY DEF IInv, TypeOK, VoteReply, VoteReq, Voting, VotesFair
  <2>2. \A p \in Node : p = n \/ p = q
    BY <2>1, PairNodes
  <2> QED BY <2>1, <2>2
<1>2. asGood(lastTermOf(F[n]), Len(F[n]), F[q])
  BY DEF LogInv, VotesGrant
<1>3. \A i \in 1..Len(F[n]) : F[n][i].term < currentTerm[n]
  BY <1>1 DEF LogInv, CandidateNew
<1>4. Won(F[n], currentTerm[n], F[q])
  BY <1>1, <1>2, <1>3, WonByVote
<1>5. isPrefix(C, F[n])
  <2>1. isPrefix(C, F[n]) \/ isPrefix(C, F[q])
    BY <1>1 DEF LogInv, CommittedHeld
  <2>2. Ordered(F[q]) /\ Joined(F[n], C)
    BY <1>1 DEF LogInv, LogsFit, CommittedHeld
  <2> QED BY <1>1, <1>2, <2>1, <2>2, ElectedHolds
<1> HIDE DEF n, q
<1>6. state'[n] = Leader /\ state'[q] = state[q] /\ state[n] = Candidate
  BY <1>1 DEF n
<1>7. LeaderWon(F)'
  <2> SUFFICES ASSUME NEW a \in Node, NEW p \in Node, a # p, state'[a] = Leader
               PROVE  isPrefix(F[p], F[a]) \/ Won(F[a], currentTerm'[a], F[p])
    BY DEF LeaderWon
  <2>1. CASE a = n
    BY <1>1, <1>4, <2>1
  <2>2. CASE a = q
    BY <1>6, <2>2 DEF LogInv, LeaderWon
  <2> QED BY <1>1, <2>1, <2>2
<1>8. CandidateNew(F)'
  <2> SUFFICES ASSUME NEW p \in Node, state'[p] = Candidate, NEW i \in 1..Len(F[p])
               PROVE  F[p][i].term < currentTerm'[p]
    BY DEF CandidateNew
  <2>1. state[p] = Candidate
    BY DEF Leader, Candidate
  <2> QED BY <2>1 DEF LogInv, CandidateNew
<1>9. VotesAsk(F)'
  <2> SUFFICES ASSUME NEW k \in voteReqs, state'[k.from] = Candidate,
                      currentTerm[k.from] = k.term
               PROVE  k.lastLogIndex = Len(F[k.from]) /\ k.lastLogTerm = lastTermOf(F[k.from])
    BY DEF VotesAsk
  <2>1. k.from \in Node
    BY <1>1 DEF TypeOK, VoteReq
  <2>2. state[k.from] = Candidate
    BY <2>1 DEF Leader, Candidate
  <2> QED BY <2>2 DEF LogInv, VotesAsk
<1>10. VotesGrant(F)'
  <2> SUFFICES ASSUME NEW k \in voteReplies, k.granted, state'[k.req.from] = Candidate,
                      currentTerm[k.req.from] = k.req.term
               PROVE  asGood(lastTermOf(F[k.req.from]), Len(F[k.req.from]), F[k.req.to])
    BY DEF VotesGrant
  <2>1. k.req.from \in Node
    BY <1>1 DEF TypeOK, VoteReply, VoteReq
  <2>2. state[k.req.from] = Candidate
    BY <2>1 DEF Leader, Candidate
  <2> QED BY <2>2 DEF LogInv, VotesGrant
<1>11. Acks(F)'
  <2> SUFFICES ASSUME NEW k \in appendReplies, k.success, state'[k.req.from] = Leader,
                      currentTerm[k.req.from] = k.req.term
               PROVE  isPrefix(F[k.req.to], F[k.req.from])
    BY DEF Acks
  <2>1. /\ k.req.from \in Node /\ k.req.term \in Nat /\ currentTerm[k.req.from] \in Nat
        /\ state[k.req.from] = Candidate => k.req.term < currentTerm[k.req.from]
    BY <1>1 DEF TypeOK, AppendReply, AppendReq, IInv, CallsInRange, callInRange
  <2>2. state[k.req.from] = Leader
    BY <1>6, <2>1 DEF n
  <2> QED BY <2>2 DEF LogInv, Acks
<1>12. \A p \in Node : state'[p] = Leader => isPrefix(C, F[p])
  <2>1. state[q] = Leader => isPrefix(C, F[q])
    BY <1>1 DEF LogInv, CommittedHeld
  <2> QED BY <1>1, <1>5, <1>6, <2>1
<1> QED BY <1>1, <1>7, <1>8, <1>9, <1>10, <1>11, <1>12, LogsKept

\* An answer to a candidate: it wins, steps down or ignores it.
LEMMA RequestVoteReplyLogs ==
    ASSUME Pair, IInv, IInv', Voting, NEW m \in voteReplies, RequestVoteReply(m),
           NEW F \in [Node -> Seq(Entry)], NEW C \in Seq(Entry), LogInv(F, C)
    PROVE  LogInv(F, C)'
<1> DEFINE n == m.req.from
<1>1. TypeOK /\ TypeOK' /\ (\A p \in Node : Moves(p)) /\ n \in Node
  <2>1. TypeOK /\ TypeOK' /\ n \in Node
    BY DEF IInv, TypeOK, VoteReply, VoteReq
  <2> QED BY <2>1, RequestVoteReplyVotes
<1>2. /\ voteReqs' = voteReqs /\ voteReplies' \subseteq voteReplies
      /\ appendReqs' = appendReqs /\ appendReplies' = appendReplies
      /\ snapReqs' = snapReqs /\ replica' = replica
  BY DEF RequestVoteReply, appendRpcs, snapRpcs
<1>3. CASE becomeFollower(n, m.term, Nil)
  <2>1. NoneRises
    BY <1>1, <1>3 DEF NoneRises, becomeFollower, TypeOK
  <2> QED BY <1>1, <1>2, <2>1, LogsQuiet
<1>4. CASE state' = state /\ currentTerm' = currentTerm
  <2>1. NoneRises
    BY <1>4 DEF NoneRises
  <2> QED BY <1>1, <1>2, <2>1, LogsQuiet
<1>5. CASE /\ m.granted /\ state[n] = Candidate /\ currentTerm[n] = m.req.term
           /\ promoteToLeader(n) /\ currentTerm' = currentTerm
  <2>1. \A p \in Node : state'[p] = IF p = n THEN Leader ELSE state[p]
    BY <1>1, <1>5 DEF promoteToLeader, TypeOK
  <2> QED BY <1>1, <1>2, <1>5, <2>1, ElectedLogs
<1> QED BY <1>3, <1>4, <1>5 DEF RequestVoteReply

\* A round of replication: what the leader sends is its log.
LEMMA ReplicateLogs ==
    ASSUME Pair, IInv, IInv', Voting, NEW n \in Node, NEW reach \in SUBSET peers(n),
           replicateAndCommit(n, reach),
           NEW F \in [Node -> Seq(Entry)], NEW C \in Seq(Entry), LogInv(F, C)
    PROVE  LogInv(F, C)'
<1> DEFINE r == replica[n]
           next(p) == nextIndex[n][p] - 1
           lagging == {p \in reach : nextIndex[n][p] <= r.snapshotIndex}
           task(p) == [from |-> n, to |-> p, live |-> TRUE,
                       term |-> currentTerm[n],
                       prevLogIndex |-> next(p),
                       prevLogTerm |-> termAt(r, next(p)),
                       entries |-> tailAfter(r, next(p)),
                       leaderCommit |-> r.commitIndex]
<1>1. TypeOK /\ TypeOK' /\ \A p \in Node : Moves(p)
  BY ReplicateVotes DEF IInv
<1>2. /\ currentTerm' = currentTerm /\ state' = state /\ replica' = replica
      /\ voteReqs' = voteReqs /\ voteReplies' = voteReplies
      /\ snapReqs' = snapReqs /\ appendReplies' = appendReplies /\ state[n] = Leader
      /\ appendReqs' = appendReqs \cup {task(p) : p \in reach \ lagging}
  BY DEF replicateAndCommit, electionVars, voteRpcs
<1>3. /\ WellFormed(r) /\ F[n] \in Seq(Entry) /\ Fits(r, F[n])
      /\ isPrefix(C, F[n]) /\ Applies(r, C)
  BY <1>2 DEF IInv, ReplicasSound, LogInv, LogsFit, CommittedHeld, CommittedApplied
<1>4. /\ r.snapshotIndex \in Nat /\ Len(r.log) \in Nat /\ Len(F[n]) \in Nat
      /\ lastLogIndex(r) = r.snapshotIndex + Len(r.log) /\ Len(F[n]) = lastLogIndex(r)
  BY <1>3, ReplicaFields, EntryFacts DEF Fits
<1>5. ASSUME NEW p \in reach \ lagging
      PROVE  task(p).from = n /\ task(p).leaderCommit <= Len(C) /\ Carries(task(p), F[n])
  <2> DEFINE i == next(p)
             tail == tailAfter(r, i)
  <2>1. p \in Node /\ nextIndex[n][p] \in Nat /\ nextIndex[n][p] > r.snapshotIndex
    <3>1. p \in Node /\ p \in reach /\ ~(nextIndex[n][p] <= r.snapshotIndex)
      BY DEF peers
    <3>2. nextIndex[n][p] \in Nat
      BY <1>1, <3>1 DEF TypeOK
    <3> HIDE DEF r
    <3> QED BY <1>4, <3>1, <3>2
  <2>2. nextIndex[n][p] <= lastLogIndex(r) + 1
    BY <1>2, <2>1 DEF IInv, NextIndexInRange
  <2>3. i \in Nat /\ i >= r.snapshotIndex /\ i <= Len(F[n])
        /\ i \in r.snapshotIndex..lastLogIndex(r)
    <3>1. i = nextIndex[n][p] - 1
      OBVIOUS
    <3> HIDE DEF i, r, next
    <3> QED BY <1>4, <2>1, <2>2, <3>1
  <2> HIDE DEF next
  <2>4. /\ tail \in Seq(Entry)
        /\ Len(tail) = IF i <= lastLogIndex(r) THEN lastLogIndex(r) - i ELSE 0
        /\ \A k \in 1..Len(tail) : /\ i + k - r.snapshotIndex \in 1..Len(r.log)
                                   /\ tail[k] = r.log[i + k - r.snapshotIndex]
    BY <1>3, <2>3, TailAfterEntries, Zenon
  <2>5. termAt(r, i) = termOf(F[n], i)
    BY <1>3, <2>3, FitsTerms
  <2> HIDE DEF tail
  <2>6. Len(tail) = Len(F[n]) - i /\ Len(tail) \in Nat
    BY <1>4, <2>3, <2>4
  <2>7. ASSUME NEW k \in 1..Len(tail) PROVE tail[k] = F[n][i + k]
    <3>1. /\ i + k - r.snapshotIndex \in 1..Len(r.log)
          /\ tail[k] = r.log[i + k - r.snapshotIndex]
      BY <2>4
    <3>2. k \in Nat /\ i \in Nat /\ r.snapshotIndex \in Nat
      BY <1>4, <2>3, <2>6
    <3>3. r.snapshotIndex + (i + k - r.snapshotIndex) = i + k
      BY <3>2
    <3> QED BY <1>3, <3>1, <3>3 DEF Fits
  <2> DEFINE w == task(p)
  <2>8. /\ w.from = n /\ w.leaderCommit = r.commitIndex /\ w.prevLogIndex = i
        /\ w.prevLogTerm = termAt(r, i) /\ w.entries = tail
    BY DEF tail
  <2> HIDE DEF w, i
  <2>9. w.leaderCommit <= Len(C)
    BY <1>3, <2>8 DEF Applies
  <2>10. i + Len(tail) = Len(F[n]) /\ (i + Len(tail) + 1)..Len(F[n]) = {}
    BY <1>4, <2>3, <2>6
  <2>11. Carries(w, F[n])
    <3>1. w.prevLogIndex + Len(w.entries) <= Len(F[n])
      BY <1>4, <2>8, <2>10
    <3>2. w.prevLogTerm = termOf(F[n], w.prevLogIndex)
      BY <2>5, <2>8
    <3>3. \A k \in 1..Len(w.entries) : w.entries[k] = F[n][w.prevLogIndex + k]
      BY <2>7, <2>8
    <3>4. \A j \in (w.prevLogIndex + Len(w.entries) + 1)..Len(F[n]) : F[n][j].term = w.term
      BY <2>8, <2>10
    <3> QED BY <3>1, <3>2, <3>3, <3>4 DEF Carries
  <2> QED BY <2>8, <2>9, <2>11 DEF w
<1>6. NoneRises
  BY <1>2 DEF NoneRises
<1> HIDE DEF task, lagging, r
<1>7. \A m \in appendReqs' : m \in appendReqs
          \/ (m.leaderCommit <= Len(C) /\ Carries(m, F[m.from]) /\ isPrefix(C, F[m.from]))
  BY <1>2, <1>3, <1>5
<1>8. /\ replica' = replica /\ voteReqs' = voteReqs /\ voteReplies' = voteReplies
      /\ snapReqs' = snapReqs /\ appendReplies' = appendReplies
  BY <1>2
<1> QED BY <1>1, <1>6, <1>7, <1>8, LogsQuiet

\* The snapshot of a leader is the beginning of what is committed.
LEMMA SendInstallSnapshotLogs ==
    ASSUME Pair, IInv, IInv', Voting, NEW t \in snapTasks, sendInstallSnapshot(t),
           NEW F \in [Node -> Seq(Entry)], NEW C \in Seq(Entry), LogInv(F, C)
    PROVE  LogInv(F, C)'
<1> DEFINE n == t.from
           r == replica[n]
<1>1. TypeOK /\ TypeOK' /\ (\A p \in Node : Moves(p)) /\ n \in Node
  <2>1. TypeOK /\ TypeOK' /\ n \in Node
    BY DEF IInv, TypeOK, SnapTask
  <2> QED BY <2>1, SendInstallSnapshotVotes
<1>2. /\ currentTerm' = currentTerm /\ state' = state /\ replica' = replica
      /\ voteReqs' = voteReqs /\ voteReplies' = voteReplies
      /\ appendReqs' = appendReqs /\ appendReplies' = appendReplies /\ state[n] = Leader
      /\ \A m \in snapReqs' : m \in snapReqs
             \/ /\ m.from = n /\ m.lastIncludedIndex = r.snapshotIndex
                /\ m.lastIncludedTerm = r.snapshotTerm /\ m.data = r.snapshot
  BY DEF sendInstallSnapshot, electionVars, voteRpcs, appendRpcs
<1>3. /\ WellFormed(r) /\ F[n] \in Seq(Entry) /\ Fits(r, F[n])
      /\ isPrefix(C, F[n]) /\ Applies(r, C)
  BY <1>1, <1>2 DEF IInv, ReplicasSound, LogInv, LogsFit, CommittedHeld, CommittedApplied
<1>4. /\ r.snapshotIndex \in Nat /\ r.lastApplied \in Nat /\ Len(C) \in Nat
      /\ r.snapshotIndex <= r.lastApplied /\ r.lastApplied <= Len(C)
      /\ r.snapshotIndex \in 0..Len(C)
  BY <1>3, ReplicaFields, EntryFacts DEF Applies
<1>5. r.snapshotTerm = termOf(C, r.snapshotIndex)
  BY <1>3, <1>4, PrefixTerms DEF Fits
<1>6. \A i \in 1..r.snapshotIndex : r.snapshot[i] = C[i].cmd
  BY <1>3, <1>4 DEF Fits, isPrefix
<1>7. \A m \in snapReqs' : m \in snapReqs \/ (Image(m, C) /\ isPrefix(C, F[m.from]))
  <2> SUFFICES ASSUME NEW m \in snapReqs', m \notin snapReqs
               PROVE  Image(m, C) /\ isPrefix(C, F[m.from])
    OBVIOUS
  <2> HIDE DEF r
  <2> QED BY <1>2, <1>3, <1>4, <1>5, <1>6 DEF Image
<1>8. NoneRises
  BY <1>2 DEF NoneRises
<1>9. /\ replica' = replica /\ voteReqs' = voteReqs /\ voteReplies' = voteReplies
      /\ appendReqs' = appendReqs /\ appendReplies' = appendReplies
  BY <1>2
<1> QED BY <1>1, <1>7, <1>8, <1>9, LogsQuiet

\* What a step may do to the FSM of node p.
FsmStable(p) ==
    LET f == replica[p].fsm  g == replica'[p].fsm IN
        \/ isPrefix(f, g)
        \/ /\ isPrefix(g, f)
           /\ replica'[p].snapshotIndex > replica[p].snapshotIndex

\* An FSM that nobody touches.
LEMMA FsmUntouched ==
    ASSUME IInv, NEW p \in Node, replica'[p] = replica[p]
    PROVE  FsmStable(p)
<1>1. Len(replica[p].fsm) \in Nat
  BY ReplicaFields DEF IInv, ReplicasSound
<1> QED BY <1>1 DEF FsmStable, isPrefix

\* Node n is about to look at a request of q: n follows in the term of the
\* request, q has no vote of n for a later one, and looks at nothing of n.
LEMMA SenderAlone ==
    ASSUME Pair, TypeOK, Voting, NEW k \in Requests, k.term = currentTerm[k.to]
    PROVE  /\ k.to \in Node /\ k.from \in Node /\ k.to # k.from
           /\ \A p \in Node : p = k.to \/ p = k.from
           /\ state[k.to] = Follower
           /\ state[k.from] = Leader => currentTerm[k.from] = k.term
           /\ \A w \in Requests : w.from = k.to => w.term # currentTerm[w.to]
           /\ \A a \in voteReplies :
                  (a.granted /\ a.req.from = k.from /\ a.req.term = currentTerm[k.from])
                  => state[k.from] # Candidate
<1> DEFINE n == k.to
           q == k.from
<1>1. /\ n \in Node /\ q \in Node /\ n # q /\ k.term \in Nat
      /\ Yields(n, k.term) /\ Held(q, k.term)
      /\ currentTerm[n] \in Nat /\ currentTerm[q] \in Nat
  BY DEF TypeOK, Requests, AppendReq, SnapReq, Voting, SendersLed
<1>2. \A p \in Node : p = n \/ p = q
  BY <1>1, PairNodes
<1>3. state[n] = Follower
  BY <1>1 DEF Yields
<1>4. state[q] = Leader => currentTerm[q] = k.term
  <2>1. state[q] = Leader => Yields(n, currentTerm[q])
    BY <1>1 DEF Voting, PeerYields
  <2> QED BY <1>1, <2>1 DEF Yields, Held
<1>5. ASSUME NEW w \in Requests, w.from = n, w.term = currentTerm[w.to]
      PROVE  FALSE
  <2>1. /\ w.to \in Node /\ w.to # n /\ w.term \in Nat /\ Held(n, w.term)
    BY <1>5 DEF TypeOK, Requests, AppendReq, SnapReq, Voting, SendersLed
  <2>2. w.to = q
    BY <1>2, <2>1
  <2>3. w.term = k.term
    BY <1>1, <1>5, <2>1, <2>2 DEF Held
  <2>4. w.from = k.from
    BY <2>3 DEF Voting, SendersLed
  <2> QED BY <1>1, <1>5, <2>4
<1>6. ASSUME NEW a \in voteReplies, a.granted, a.req.from = q,
             a.req.term = currentTerm[q], state[q] = Candidate
      PROVE  FALSE
  <2>1. /\ a.req.to \in Node /\ a.req.to # q /\ Yields(a.req.to, a.req.term)
    BY <1>6 DEF TypeOK, VoteReply, VoteReq, Voting, VotesFair
  <2>2. a.req.to = n
    BY <1>2, <2>1
  <2> QED BY <1>1, <1>6, <2>1, <2>2 DEF Yields, Held, Candidate, Follower
<1> QED BY <1>1, <1>2, <1>3, <1>4, <1>5, <1>6

\* A follower takes entries or a snapshot from a sender that has all of C.
LEMMA FollowerTakes ==
    ASSUME Pair, IInv, IInv', Voting, NEW k \in Requests, k.term = currentTerm[k.to],
           NEW n, NEW q, n = k.to, q = k.from,
           NEW F \in [Node -> Seq(Entry)], NEW C \in Seq(Entry), LogInv(F, C),
           currentTerm' = currentTerm, state' = state, voteReqs' = voteReqs,
           voteReplies' = voteReplies, appendReqs' \subseteq appendReqs, snapReqs' = snapReqs,
           NEW r, replica' = [replica EXCEPT ![n] = r],
           NEW h \in Seq(Entry), Fits(r, h), Applies(r, C), Joined(h, C),
           isPrefix(C, F[q]), h = F[n] \/ isPrefix(h, F[q]),
           \A a \in appendReplies' :
               \/ a \in appendReplies
               \/ a.success = FALSE
               \/ /\ a.req.from = q /\ a.req.to = n
                  /\ state[q] = Leader => isPrefix(h, F[q])
    PROVE  LogInv([F EXCEPT ![n] = h], C)'
<1> DEFINE G == [F EXCEPT ![n] = h]
<1>1. TypeOK /\ TypeOK'
  BY DEF IInv
<1>2. /\ n \in Node /\ q \in Node /\ n # q
      /\ \A p \in Node : p = n \/ p = q
      /\ state[n] = Follower
      /\ \A w \in Requests : w.from = n => w.term # currentTerm[w.to]
      /\ \A a \in voteReplies :
             (a.granted /\ a.req.from = q /\ a.req.term = currentTerm[q])
             => state[q] # Candidate
  BY <1>1, SenderAlone
<1>3. /\ G[n] = h /\ G[q] = F[q] /\ F[n] \in Seq(Entry) /\ F[q] \in Seq(Entry)
      /\ replica'[n] = r /\ replica'[q] = replica[q]
  <2>1. n \in Node /\ q \in Node /\ n # q
    BY <1>2
  <2>2. replica \in [Node -> Replica]
    BY <1>1 DEF TypeOK
  <2>3. replica'[n] = r /\ replica'[q] = replica[q]
    BY <2>1, <2>2
  <2>4. G[n] = h /\ G[q] = F[q] /\ F[n] \in Seq(Entry) /\ F[q] \in Seq(Entry)
    BY <2>1
  <2> QED BY <2>3, <2>4
<1> HIDE DEF G
<1>4. /\ Ordered(F[n]) /\ Ordered(F[q]) /\ Fits(replica[q], F[q])
      /\ AgreeOn(F[n], F[q]) /\ AgreeOn(F[q], F[n])
      /\ Joined(F[q], C) /\ Applies(replica[q], C)
  BY <1>2 DEF LogInv, LogsFit, LogsAgree, CommittedHeld, CommittedApplied
<1>5. Ordered(h) /\ AgreeOn(h, F[q]) /\ AgreeOn(F[q], h)
  <2>1. CASE h = F[n]
    BY <1>4, <2>1
  <2>2. CASE isPrefix(h, F[q])
    BY <1>3, <1>4, <2>2, PrefixOrdered, PrefixAgrees, AgreeSymmetric
  <2> QED BY <2>1, <2>2
<1>6. LogsFit(G)'
  <2>1. \A p \in Node : Fits(replica'[p], G[p]) /\ Ordered(G[p])
    BY <1>2, <1>3, <1>4, <1>5
  <2> QED BY <2>1 DEF LogsFit
<1>7. LogsAgree(G)'
  <2>1. AgreeOn(h, h) /\ AgreeOn(F[q], F[q])
    BY <1>3, PrefixItself, PrefixAgrees
  <2>2. \A p, s \in Node : AgreeOn(G[p], G[s])
    BY <1>2, <1>3, <1>5, <2>1
  <2> QED BY <2>2 DEF LogsAgree
<1>8. \A p \in Node : state'[p] # Follower => p = q /\ G[p] = F[p]
  BY <1>2, <1>3
<1>9. state[q] = Leader => isPrefix(h, F[q]) \/ Won(F[q], currentTerm[q], h)
  BY <1>2 DEF LogInv, LeaderWon
<1>10. LeaderWon(G)'
  <2> SUFFICES ASSUME NEW a \in Node, NEW p \in Node, a # p, state'[a] = Leader
               PROVE  isPrefix(G[p], G[a]) \/ Won(G[a], currentTerm'[a], G[p])
    BY DEF LeaderWon
  <2>1. a = q /\ p = n
    BY <1>2, <1>8 DEF Leader, Follower
  <2> QED BY <1>3, <1>9, <2>1
<1>11. CandidateNew(G)'
  <2> SUFFICES ASSUME NEW p \in Node, state'[p] = Candidate, NEW i \in 1..Len(G[p])
               PROVE  G[p][i].term < currentTerm'[p]
    BY DEF CandidateNew
  <2>1. G[p] = F[p] /\ state[p] = Candidate
    BY <1>8 DEF Candidate, Follower
  <2> QED BY <2>1 DEF LogInv, CandidateNew
<1>12. VotesAsk(G)'
  <2> SUFFICES ASSUME NEW m \in voteReqs, state[m.from] = Candidate,
                      currentTerm[m.from] = m.term
               PROVE  m.lastLogIndex = Len(G[m.from]) /\ m.lastLogTerm = lastTermOf(G[m.from])
    BY DEF VotesAsk
  <2>1. m.from \in Node
    BY <1>1 DEF TypeOK, VoteReq
  <2>2. G[m.from] = F[m.from]
    BY <1>8, <2>1 DEF Candidate, Follower
  <2> QED BY <2>2 DEF LogInv, VotesAsk
<1>13. VotesGrant(G)'
  <2> SUFFICES ASSUME NEW m \in voteReplies, m.granted, state[m.req.from] = Candidate,
                      currentTerm[m.req.from] = m.req.term
               PROVE  FALSE
    BY DEF VotesGrant
  <2>1. m.req.from \in Node
    BY <1>1 DEF TypeOK, VoteReply, VoteReq
  <2>2. m.req.from = q
    BY <1>8, <2>1 DEF Candidate, Follower
  <2> QED BY <1>2, <2>2
<1>14. Acks(G)'
  <2> SUFFICES ASSUME NEW m \in appendReplies', m.success, state[m.req.from] = Leader,
                      currentTerm[m.req.from] = m.req.term
               PROVE  isPrefix(G[m.req.to], G[m.req.from])
    BY DEF Acks
  <2>1. /\ m.req.from \in Node /\ m.req.to \in Node
        /\ m \in appendReplies => m.req.from # m.req.to
    BY <1>1 DEF TypeOK, AppendReply, AppendReq, Voting, SendersLed
  <2>2. m.req.from = q
    BY <1>8, <2>1 DEF Leader, Follower
  <2>3. CASE m \in appendReplies
    <3>1. m.req.to = n
      BY <1>2, <2>1, <2>2, <2>3
    <3>2. isPrefix(F[n], F[q])
      BY <2>2, <2>3, <3>1 DEF LogInv, Acks
    <3> QED BY <1>3, <2>2, <3>1, <3>2
  <2>4. CASE m.req.to = n /\ isPrefix(h, F[q])
    BY <1>3, <2>2, <2>4
  <2> QED BY <2>2, <2>3, <2>4
<1>15. CommittedHeld(G, C)'
  <2>1. \A p \in Node : Joined(G[p], C)
    BY <1>2, <1>3, <1>4
  <2>2. \E p \in Node : isPrefix(C, G[p])
    BY <1>2, <1>3
  <2>3. \A p \in Node : state'[p] = Leader => isPrefix(C, G[p])
    BY <1>3, <1>8 DEF Leader, Follower
  <2> QED BY <2>1, <2>2, <2>3 DEF CommittedHeld
<1>16. CommittedApplied(C)'
  <2>1. \A p \in Node : Applies(replica'[p], C)
    BY <1>2, <1>3, <1>4
  <2> QED BY <2>1 DEF CommittedApplied
<1>17. \A w \in Requests : /\ w.from \in Node
                           /\ w.term = currentTerm[w.to] => G[w.from] = F[w.from]
  <2>1. \A w \in Requests : w.from \in Node
    BY <1>1 DEF TypeOK, Requests, AppendReq, SnapReq
  <2> QED BY <1>2, <1>3, <2>1
<1>18. AppendsCarry(G, C)'
  BY <1>17 DEF LogInv, AppendsCarry, Requests
<1>19. ImagesTrue(G, C)'
  BY <1>17 DEF LogInv, ImagesTrue, Requests
<1>20. LogInv(G, C)'
  BY <1>6, <1>7, <1>10, <1>11, <1>12, <1>13, <1>14, <1>15, <1>16, <1>18, <1>19 DEF LogInv
<1> QED BY <1>20 DEF G

\* Entries are served: none of them is in doubt for the sender.
LEMMA AppendEntriesLogs ==
    ASSUME Pair, IInv, IInv', RecentInv, Voting, NEW m \in appendReqs, AppendEntries(m),
           NEW F \in [Node -> Seq(Entry)], NEW C \in Seq(Entry), LogInv(F, C)
    PROVE  /\ \E G \in [Node -> Seq(Entry)] : LogInv(G, C)'
           /\ \A p \in Node : FsmStable(p)
<1> DEFINE n == m.to
           q == m.from
           s == appended(replica[n], m)
           s2 == maybeCompact(s)
           reply(b) == answer(m, [req |-> m, success |-> b,
                                  term |-> Greater(m.term, currentTerm[n])])
<1>1. /\ TypeOK /\ TypeOK' /\ (\A p \in Node : Moves(p))
      /\ m \in AppendReq /\ m \in Requests /\ n \in Node /\ q \in Node /\ m.term \in Nat
      /\ m.prevLogIndex \in Nat /\ m.entries \in Seq(Entry)
      /\ Yields(n, m.term)
  <2>1. TypeOK /\ TypeOK' /\ \A p \in Node : Moves(p)
    BY AppendEntriesVotes DEF IInv
  <2>2. m \in AppendReq /\ m \in Requests
    BY <2>1 DEF TypeOK, Requests
  <2>3. Yields(n, m.term)
    BY <2>2 DEF Voting, SendersLed
  <2> QED BY <2>1, <2>2, <2>3 DEF AppendReq
<1>2. /\ voteReqs' = voteReqs /\ voteReplies' = voteReplies /\ snapReqs' = snapReqs
      /\ appendReqs' = appendReqs \ {m}
      /\ \/ /\ currentTerm' = currentTerm /\ state' = state /\ replica' = replica
            /\ appendReplies' = appendReplies \cup reply(FALSE)
         \/ /\ m.term >= currentTerm[n] /\ becomeFollower(n, m.term, Nil)
            /\ replica' = replica
            /\ appendReplies' = appendReplies \cup reply(FALSE)
         \/ /\ m.term >= currentTerm[n] /\ becomeFollower(n, m.term, Nil)
            /\ prevMatches(replica[n], m)
            /\ replica' = [replica EXCEPT ![n] = s2]
            /\ appendReplies' = appendReplies \cup reply(TRUE)
  <2>1. prevMatches(replica[n], m) => ~compactionPanics(s)
    BY NoPanic
  <2> HIDE DEF s, s2, reply
  <2>2. AppendEntries(m) =>
          \/ /\ appendReqs' = appendReqs \ {m}
             /\ appendReplies' = appendReplies \cup reply(FALSE)
             /\ UNCHANGED <<electionVars, leaderVars, replica, disk, voteRpcs,
                            snapRpcs, restarts>>
          \/ /\ m.term >= currentTerm[n]
             /\ becomeFollower(n, m.term, Nil)
             /\ appendReqs' = appendReqs \ {m}
             /\ appendReplies' = appendReplies \cup reply(FALSE)
             /\ UNCHANGED <<votes, replica, disk, voteRpcs, snapRpcs, restarts>>
          \/ /\ m.term >= currentTerm[n]
             /\ prevMatches(replica[n], m)
             /\ becomeFollower(n, m.term, Nil)
             /\ replica' = [replica EXCEPT ![n] = s2]
             /\ appendReqs' = appendReqs \ {m}
             /\ appendReplies' = appendReplies \cup reply(TRUE)
             /\ UNCHANGED <<votes, voteRpcs, snapRpcs, restarts>>
    BY <2>1, Zenon DEF AppendEntries, s, s2, reply
  <2> QED BY <2>2 DEF electionVars, voteRpcs, snapRpcs
<1>3. /\ \A a \in reply(FALSE) : a.success = FALSE
      /\ \A a \in reply(TRUE) : a.req = m
  BY DEF answer
<1> HIDE DEF reply
<1>4. CASE /\ replica' = replica /\ NoneRises
           /\ appendReplies' = appendReplies \cup reply(FALSE)
  <2>1. LogInv(F, C)'
    BY <1>1, <1>2, <1>3, <1>4, LogsQuiet
  <2>2. \A p \in Node : FsmStable(p)
    BY <1>4, FsmUntouched
  <2> QED BY <2>1, <2>2
<1>5. becomeFollower(n, m.term, Nil) => NoneRises
  BY <1>1 DEF NoneRises, becomeFollower, TypeOK
<1>6. CASE /\ m.term >= currentTerm[n] /\ becomeFollower(n, m.term, Nil)
           /\ prevMatches(replica[n], m)
           /\ replica' = [replica EXCEPT ![n] = s2]
           /\ appendReplies' = appendReplies \cup reply(TRUE)
  <2>1. m.term = currentTerm[n] /\ state[n] = Follower
    <3>1. currentTerm[n] \in Nat
      BY <1>1 DEF TypeOK
    <3> QED BY <1>1, <1>6, <3>1 DEF Yields
  <2>2. currentTerm' = currentTerm /\ state' = state
    BY <1>1, <1>6, <2>1 DEF becomeFollower, TypeOK
  <2>3. /\ n # q /\ \A p \in Node : p = n \/ p = q
        /\ state[q] = Leader => currentTerm[q] = m.term
    BY <1>1, <2>1, SenderAlone
  <2>4. /\ F[n] \in Seq(Entry) /\ F[q] \in Seq(Entry)
        /\ WellFormed(replica[n]) /\ Fits(replica[n], F[n]) /\ Ordered(F[n])
        /\ AgreeOn(F[q], F[n]) /\ Joined(F[n], C) /\ Applies(replica[n], C)
    BY <1>1 DEF IInv, ReplicasSound, LogInv, LogsFit, LogsAgree, CommittedHeld,
                CommittedApplied
  <2>5. m.leaderCommit <= Len(C) /\ Carries(m, F[q]) /\ isPrefix(C, F[q])
    BY <2>1 DEF LogInv, AppendsCarry
  <2>6. PICK h \in Seq(Entry) :
            /\ Fits(s, h) /\ Applies(s, C) /\ Joined(h, C)
            /\ isPrefix(replica[n].fsm, s.fsm)
            /\ (m.entries = <<>> /\ h = F[n]) \/ isPrefix(h, F[q])
    <3> HIDE DEF n, q, s
    <3>1. \E h \in Seq(Entry) :
              /\ Fits(appended(replica[n], m), h) /\ Applies(appended(replica[n], m), C)
              /\ Joined(h, C)
              /\ isPrefix(replica[n].fsm, appended(replica[n], m).fsm)
              /\ (m.entries = <<>> /\ h = F[n]) \/ isPrefix(h, F[q])
      BY <1>1, <1>6, <2>4, <2>5, FitsAppended
    <3> QED BY <3>1 DEF s
  <2>7. WellFormed(s)
    BY <1>1, <1>6, <2>4, AppendedKeeps
  <2>8. Fits(s2, h) /\ Applies(s2, C) /\ s2.fsm = s.fsm
    <3> HIDE DEF s
    <3> QED BY <2>6, <2>7, FitsCompacted
  <2>9. state[q] = Leader => isPrefix(h, F[q])
    <3> SUFFICES ASSUME state[q] = Leader, m.entries = <<>>, h = F[n]
                 PROVE  isPrefix(F[n], F[q])
      BY <2>6
    <3>1. isPrefix(F[n], F[q]) \/ Won(F[q], m.term, F[n])
      BY <1>1, <2>3 DEF LogInv, LeaderWon
    <3>2. CASE Won(F[q], m.term, F[n])
      <4>1. /\ m.prevLogIndex >= replica[n].snapshotIndex
            /\ m.prevLogIndex <= lastLogIndex(replica[n])
            /\ termAt(replica[n], m.prevLogIndex) = m.prevLogTerm
        BY <1>6 DEF prevMatches
      <4>2. /\ replica[n].snapshotIndex \in Nat /\ lastLogIndex(replica[n]) \in Nat
            /\ Len(F[n]) = lastLogIndex(replica[n]) /\ Len(F[q]) \in Nat
        BY <2>4, ReplicaFields, EntryFacts DEF Fits
      <4>3. m.prevLogIndex \in replica[n].snapshotIndex..lastLogIndex(replica[n])
        BY <1>1, <4>1, <4>2
      <4>4. termOf(F[n], m.prevLogIndex) = m.prevLogTerm
        BY <2>4, <4>1, <4>3, FitsTerms
      <4>5. Len(m.entries) = 0
        OBVIOUS
      <4>6. /\ m.prevLogIndex <= Len(F[q])
            /\ termOf(F[q], m.prevLogIndex) = m.prevLogTerm
            /\ \A j \in (m.prevLogIndex + 1)..Len(F[q]) : F[q][j].term = m.term
        <5> HIDE DEF q
        <5>1. /\ m.prevLogIndex + 0 <= Len(F[q])
              /\ m.prevLogTerm = termOf(F[q], m.prevLogIndex)
              /\ \A j \in (m.prevLogIndex + 0 + 1)..Len(F[q]) : F[q][j].term = m.term
          BY <2>5, <4>5 DEF Carries
        <5>2. m.prevLogIndex + 0 = m.prevLogIndex
          BY <1>1
        <5> QED BY <5>1, <5>2
      <4>7. m.prevLogIndex \in 0..Len(F[q]) /\ m.prevLogIndex <= Len(F[n])
        BY <1>1, <4>1, <4>2, <4>6
      <4> HIDE DEF n, q
      <4> QED BY <1>1, <2>4, <3>2, <4>4, <4>6, <4>7, HeartbeatMatches
    <3> QED BY <3>1, <3>2
  <2>10. \A a \in appendReplies' :
             \/ a \in appendReplies
             \/ a.success = FALSE
             \/ /\ a.req.from = q /\ a.req.to = n
                /\ state[q] = Leader => isPrefix(h, F[q])
    BY <1>3, <1>6, <2>9
  <2>11. h = F[n] \/ isPrefix(h, F[q])
    BY <2>6
  <2>12. appendReqs' \subseteq appendReqs
    BY <1>2
  <2> HIDE DEF s, s2
  <2>13. LogInv([F EXCEPT ![n] = h], C)'
    <3>1. m.term = currentTerm[m.to]
      BY <2>1
    <3>2. /\ voteReqs' = voteReqs /\ voteReplies' = voteReplies /\ snapReqs' = snapReqs
          /\ replica' = [replica EXCEPT ![n] = s2] /\ m \in Requests
      BY <1>1, <1>2, <1>6
    <3>3. Fits(s2, h) /\ Applies(s2, C) /\ Joined(h, C) /\ isPrefix(C, F[q])
      BY <2>5, <2>6, <2>8
    <3> QED BY <2>2, <2>10, <2>11, <2>12, <3>1, <3>2, <3>3, FollowerTakes
  <2>14. [F EXCEPT ![n] = h] \in [Node -> Seq(Entry)]
    OBVIOUS
  <2>15. ASSUME NEW p \in Node PROVE FsmStable(p)
    <3>1. replica \in [Node -> Replica]
      BY <1>1 DEF TypeOK
    <3>2. CASE p = n
      <4>1. replica'[n] = s2
        BY <1>1, <1>6, <3>1
      <4> QED BY <2>6, <2>8, <3>2, <4>1 DEF FsmStable
    <3>3. CASE p # n
      <4>1. replica'[p] = replica[p]
        BY <1>1, <1>6, <3>1, <3>3
      <4> QED BY <4>1, FsmUntouched
    <3> QED BY <3>2, <3>3
  <2> QED BY <2>13, <2>14, <2>15
<1>7. state' = state /\ currentTerm' = currentTerm => NoneRises
  BY DEF NoneRises
<1> HIDE DEF n, q, s, s2
<1> QED BY <1>2, <1>4, <1>5, <1>6, <1>7

\* A snapshot is served: it is the beginning of what is committed.
LEMMA InstallSnapshotLogs ==
    ASSUME Pair, IInv, IInv', Voting, NEW m \in snapReqs, InstallSnapshot(m),
           NEW F \in [Node -> Seq(Entry)], NEW C \in Seq(Entry), LogInv(F, C)
    PROVE  /\ \E G \in [Node -> Seq(Entry)] : LogInv(G, C)'
           /\ \A p \in Node : FsmStable(p)
<1> DEFINE n == m.to
           q == m.from
           s == installed(replica[n], m)
<1>1. /\ TypeOK /\ TypeOK' /\ m \in SnapReq /\ m \in Requests
      /\ n \in Node /\ q \in Node /\ m.term \in Nat
      /\ Yields(n, m.term) /\ Len(m.data) = m.lastIncludedIndex
  <2>1. TypeOK /\ TypeOK' /\ m \in SnapReq /\ m \in Requests
    BY DEF IInv, TypeOK, Requests
  <2>2. Yields(n, m.term) /\ Len(m.data) = m.lastIncludedIndex
    BY <2>1 DEF Voting, SendersLed, IInv, MessagesSound, soundImage
  <2> QED BY <2>1, <2>2 DEF SnapReq
<1>2. /\ m.term >= currentTerm[n] /\ becomeFollower(n, m.term, Nil)
      /\ voteReqs' = voteReqs /\ voteReplies' = voteReplies /\ snapReqs' = snapReqs
      /\ appendReqs' = appendReqs /\ appendReplies' = appendReplies
      /\ \/ replica' = replica
         \/ ~alreadyInstalled(replica[n], m) /\ replica' = [replica EXCEPT ![n] = s]
  <2> HIDE DEF s
  <2> QED BY DEF InstallSnapshot, voteRpcs, appendRpcs, snapRpcs, s
<1>3. m.term = currentTerm[n] /\ state[n] = Follower
  <2>1. currentTerm[n] \in Nat
    BY <1>1 DEF TypeOK
  <2> QED BY <1>1, <1>2, <2>1 DEF Yields
<1>4. currentTerm' = currentTerm /\ state' = state
  BY <1>1, <1>2, <1>3 DEF becomeFollower, TypeOK
<1>5. CASE replica' = replica
  <2>1. NoneRises /\ \A p \in Node : Moves(p)
    BY <1>4 DEF NoneRises, Moves
  <2>2. LogInv(F, C)'
    BY <1>1, <1>2, <1>5, <2>1, LogsQuiet
  <2>3. \A p \in Node : FsmStable(p)
    BY <1>5, FsmUntouched
  <2> QED BY <2>2, <2>3
<1>6. CASE ~alreadyInstalled(replica[n], m) /\ replica' = [replica EXCEPT ![n] = s]
  <2>1. /\ F[n] \in Seq(Entry) /\ F[q] \in Seq(Entry)
        /\ WellFormed(replica[n]) /\ Fits(replica[n], F[n])
        /\ Joined(F[n], C) /\ Applies(replica[n], C)
    BY <1>1 DEF IInv, ReplicasSound, LogInv, LogsFit, CommittedHeld, CommittedApplied
  <2>2. Image(m, C) /\ isPrefix(C, F[q])
    BY <1>3 DEF LogInv, ImagesTrue
  <2>3. PICK h \in Seq(Entry) :
            /\ Fits(s, h) /\ Applies(s, C) /\ Joined(h, C)
            /\ h = F[n] \/ isPrefix(h, C)
            /\ isPrefix(replica[n].fsm, s.fsm) \/ isPrefix(s.fsm, replica[n].fsm)
            /\ s.snapshotIndex > replica[n].snapshotIndex
    BY <1>1, <1>6, <2>1, <2>2, FitsInstalled
  <2>4. h = F[n] \/ isPrefix(h, F[q])
    BY <2>1, <2>2, <2>3, PrefixTransitive
  <2> HIDE DEF s
  <2>5. LogInv([F EXCEPT ![n] = h], C)'
    <3>1. m.term = currentTerm[m.to] /\ m \in Requests
      BY <1>1, <1>3
    <3>2. /\ voteReqs' = voteReqs /\ voteReplies' = voteReplies /\ snapReqs' = snapReqs
          /\ appendReqs' \subseteq appendReqs
          /\ \A a \in appendReplies' : a \in appendReplies
      BY <1>2
    <3>3. Fits(s, h) /\ Applies(s, C) /\ Joined(h, C) /\ isPrefix(C, F[q])
      BY <2>2, <2>3
    <3>4. replica' = [replica EXCEPT ![n] = s]
      BY <1>6
    <3> QED BY <1>4, <2>4, <3>1, <3>2, <3>3, <3>4, FollowerTakes
  <2>6. [F EXCEPT ![n] = h] \in [Node -> Seq(Entry)]
    OBVIOUS
  <2>7. ASSUME NEW p \in Node PROVE FsmStable(p)
    <3>1. replica \in [Node -> Replica]
      BY <1>1 DEF TypeOK
    <3>2. CASE p = n
      <4>1. replica'[n] = s
        BY <1>1, <1>6, <3>1
      <4> QED BY <2>3, <3>2, <4>1 DEF FsmStable
    <3>3. CASE p # n
      <4>1. replica'[p] = replica[p]
        BY <1>1, <1>6, <3>1, <3>3
      <4> QED BY <4>1, FsmUntouched
    <3> QED BY <3>2, <3>3
  <2> QED BY <2>5, <2>6, <2>7
<1> QED BY <1>2, <1>5, <1>6

\* A log stays ordered when the entry of a term it has not passed is appended.
LEMMA OrderedAppend ==
    ASSUME NEW f \in Seq(Entry), Ordered(f), NEW t \in Nat,
           \A i \in 1..Len(f) : f[i].term <= t,
           NEW e \in Entry, e.term = t
    PROVE  Ordered(Append(f, e))
<1> DEFINE h == Append(f, e)
<1>1. /\ h \in Seq(Entry) /\ Len(h) = Len(f) + 1 /\ h[Len(f) + 1] = e /\ Len(f) \in Nat
      /\ \A i \in 1..Len(f) : h[i] = f[i]
  BY AppendFacts, EntryFacts
<1> HIDE DEF h
<1> SUFFICES ASSUME NEW i \in 1..Len(h), NEW j \in 1..Len(h), i <= j
             PROVE  h[i].term <= h[j].term
  BY DEF Ordered, h
<1>2. CASE j = Len(f) + 1
  <2>1. CASE i = j
    BY <1>1, <1>2, <2>1
  <2>2. CASE i # j
    <3>1. i \in 1..Len(f)
      BY <1>1, <1>2, <2>2
    <3> QED BY <1>1, <1>2, <3>1
  <2> QED BY <2>1, <2>2
<1>3. CASE j # Len(f) + 1
  <2>1. i \in 1..Len(f) /\ j \in 1..Len(f)
    BY <1>1, <1>3
  <2> QED BY <1>1, <2>1 DEF Ordered
<1> QED BY <1>2, <1>3

\* The node that leads, its peer, and the messages between them.
LEMMA LeaderAlone ==
    ASSUME Pair, TypeOK, Voting, NEW n \in Node, state[n] = Leader
    PROVE  \E p \in Node :
           /\ n # p /\ \A a \in Node : a = n \/ a = p
           /\ state[p] # Leader
           /\ \A k \in Requests : k.term = currentTerm[k.to] =>
                  k.from = n /\ k.to = p /\ k.term = currentTerm[n]
           /\ \A k \in voteReplies :
                  ~ (k.granted /\ state[k.req.from] = Candidate
                     /\ currentTerm[k.req.from] = k.req.term)
           /\ \A k \in appendReplies : state[k.req.from] = Leader =>
                  k.req.from = n /\ k.req.to = p
<1>1. PICK p \in Node : n # p /\ \A a \in Node : a = n \/ a = p
  BY PairNodes
<1>2. /\ Yields(p, currentTerm[n]) /\ currentTerm[n] \in Nat /\ currentTerm[p] \in Nat
  BY <1>1 DEF TypeOK, Voting, PeerYields
<1>3. state[p] # Leader
  BY <1>1, OneLeader DEF Voting
<1>4. ASSUME NEW k \in Requests, k.term = currentTerm[k.to]
      PROVE  k.from = n /\ k.to = p /\ k.term = currentTerm[n]
  <2>1. /\ k.to \in Node /\ k.from \in Node /\ k.from # k.to /\ k.term \in Nat
        /\ Yields(k.to, k.term) /\ Held(k.from, k.term)
    BY DEF TypeOK, Requests, AppendReq, SnapReq, Voting, SendersLed
  <2>2. state[k.to] = Follower
    BY <1>4, <2>1 DEF Yields
  <2>3. k.to = p /\ k.from = n
    BY <1>1, <2>1, <2>2 DEF Follower, Leader
  <2> QED BY <1>2, <1>4, <2>1, <2>3 DEF Yields, Held
<1>5. ASSUME NEW k \in voteReplies, k.granted, state[k.req.from] = Candidate,
             currentTerm[k.req.from] = k.req.term
      PROVE  FALSE
  <2>1. /\ k.req.to \in Node /\ k.req.from \in Node /\ k.req.from # k.req.to
        /\ Yields(k.req.to, k.req.term)
    BY <1>5 DEF TypeOK, VoteReply, VoteReq, Voting, VotesFair
  <2>2. k.req.from = p /\ k.req.to = n
    BY <1>1, <1>5, <2>1 DEF Candidate, Leader
  <2> QED BY <1>2, <1>5, <2>1, <2>2 DEF Yields, Candidate, Leader, Follower
<1>6. ASSUME NEW k \in appendReplies, state[k.req.from] = Leader
      PROVE  k.req.from = n /\ k.req.to = p
  <2>1. k.req.to \in Node /\ k.req.from \in Node /\ k.req.from # k.req.to
    BY DEF TypeOK, AppendReply, AppendReq, Voting, SendersLed
  <2> QED BY <1>1, <1>3, <1>6, <2>1
<1> QED BY <1>1, <1>3, <1>4, <1>5, <1>6

\* The leader appends: only its own log changes, and only it is asked about it.
LEMMA ProposeLogs ==
    ASSUME Pair, IInv, IInv', Voting, NEW n \in Node, NEW c \in Command, Propose(n, c),
           NEW F \in [Node -> Seq(Entry)], NEW C \in Seq(Entry), LogInv(F, C)
    PROVE  /\ \E G \in [Node -> Seq(Entry)] : LogInv(G, C)'
           /\ \A p \in Node : FsmStable(p)
<1> DEFINE t == currentTerm[n]
           e == [term |-> t, cmd |-> c]
           s == [replica[n] EXCEPT !.log = Append(@, e)]
<1>1. /\ TypeOK /\ TypeOK' /\ t \in Nat /\ e \in Entry /\ e.term = t
      /\ state[n] = Leader /\ currentTerm' = currentTerm /\ state' = state
      /\ voteReqs' = voteReqs /\ voteReplies' = voteReplies /\ snapReqs' = snapReqs
      /\ appendReqs' = appendReqs /\ appendReplies' = appendReplies
      /\ replica' = [replica EXCEPT ![n] = s]
  <2>1. TypeOK /\ TypeOK' /\ t \in Nat
    BY DEF IInv, TypeOK
  <2>2. e \in Entry /\ e.term = t
    BY <2>1 DEF Entry
  <2> QED BY <2>1, <2>2
          DEF Propose, electionVars, voteRpcs, appendRpcs, snapRpcs
<1> HIDE DEF e
<1>2. PICK p \in Node :
          /\ n # p /\ \A a \in Node : a = n \/ a = p
          /\ state[p] # Leader
          /\ \A k \in Requests : k.term = currentTerm[k.to] =>
                 k.from = n /\ k.to = p /\ k.term = t
          /\ \A k \in voteReplies :
                 ~ (k.granted /\ state[k.req.from] = Candidate
                    /\ currentTerm[k.req.from] = k.req.term)
          /\ \A k \in appendReplies : state[k.req.from] = Leader =>
                 k.req.from = n /\ k.req.to = p
  BY <1>1, LeaderAlone
<1>3. /\ F[n] \in Seq(Entry) /\ F[p] \in Seq(Entry)
      /\ WellFormed(replica[n]) /\ TermsUpTo(replica[n], t)
      /\ Fits(replica[n], F[n]) /\ Fits(replica[p], F[p]) /\ Ordered(F[n]) /\ Ordered(F[p])
      /\ AgreeOn(F[n], F[p])
      /\ isPrefix(F[p], F[n]) \/ Won(F[n], t, F[p])
      /\ isPrefix(C, F[n]) /\ Joined(F[p], C)
      /\ Applies(replica[n], C) /\ Applies(replica[p], C)
  BY <1>1, <1>2 DEF IInv, ReplicasSound, LogInv, LogsFit, LogsAgree, LeaderWon,
                    CommittedHeld, CommittedApplied
<1>4. \A i \in 1..Len(F[n]) : F[n][i].term <= t
  BY <1>1, <1>3, FitsBounded
<1>5. PICK h \in Seq(Entry) : h = Append(F[n], e)
  BY <1>1, <1>3, AppendFacts
<1>6. /\ Len(h) = Len(F[n]) + 1 /\ h[Len(F[n]) + 1] = e /\ Len(F[n]) \in Nat
      /\ \A i \in 1..Len(F[n]) : h[i] = F[n][i]
      /\ isPrefix(F[n], h)
  BY <1>1, <1>3, <1>5, AppendFacts, EntryFacts
<1>7. Fits(s, h) /\ Applies(s, C) /\ s.fsm = replica[n].fsm
  BY <1>1, <1>3, <1>5, FitsAppend
<1>8. Ordered(h)
  BY <1>1, <1>3, <1>4, <1>5, OrderedAppend
<1>9. AgreeOn(h, F[p]) /\ AgreeOn(F[p], h)
  <2>1. AgreeOn(h, F[p])
    BY <1>1, <1>3, <1>4, <1>5, AgreeAppend
  <2> QED BY <1>3, <2>1, AgreeSymmetric
<1>10. isPrefix(F[p], h) \/ Won(h, t, F[p])
  <2>1. CASE isPrefix(F[p], F[n])
    BY <1>3, <1>6, <2>1, PrefixTransitive
  <2>2. CASE Won(F[n], t, F[p])
    BY <1>1, <1>3, <1>4, <1>5, <2>2, WonAppend
  <2> QED BY <1>3, <2>1, <2>2
<1>11. isPrefix(C, h)
  BY <1>3, <1>6, PrefixTransitive
<1> DEFINE G == [F EXCEPT ![n] = h]
<1>12. /\ G \in [Node -> Seq(Entry)] /\ G[n] = h /\ G[p] = F[p]
  BY <1>2
<1>13. replica'[n] = s /\ replica'[p] = replica[p]
  <2>1. replica \in [Node -> Replica]
    BY <1>1 DEF TypeOK
  <2> QED BY <1>1, <1>2, <2>1
<1> HIDE DEF G, s
<1>14. LogsFit(G)'
  <2>1. \A a \in Node : Fits(replica'[a], G[a]) /\ Ordered(G[a])
    BY <1>2, <1>3, <1>7, <1>8, <1>12, <1>13
  <2> QED BY <2>1 DEF LogsFit
<1>15. LogsAgree(G)'
  <2>1. AgreeOn(h, h) /\ AgreeOn(F[p], F[p])
    BY <1>3, PrefixItself, PrefixAgrees
  <2>2. \A a, b \in Node : AgreeOn(G[a], G[b])
    BY <1>2, <1>9, <1>12, <2>1
  <2> QED BY <2>2 DEF LogsAgree
<1>16. LeaderWon(G)'
  <2> SUFFICES ASSUME NEW a \in Node, NEW b \in Node, a # b, state[a] = Leader
               PROVE  isPrefix(G[b], G[a]) \/ Won(G[a], currentTerm[a], G[b])
    BY <1>1 DEF LeaderWon
  <2>1. a = n /\ b = p
    BY <1>2
  <2> QED BY <1>10, <1>12, <2>1
<1>17. CandidateNew(G)'
  <2> SUFFICES ASSUME NEW a \in Node, state[a] = Candidate, NEW i \in 1..Len(G[a])
               PROVE  G[a][i].term < currentTerm[a]
    BY <1>1 DEF CandidateNew
  <2>1. G[a] = F[a]
    BY <1>1, <1>2, <1>12 DEF Candidate, Leader
  <2> QED BY <2>1 DEF LogInv, CandidateNew
<1>18. VotesAsk(G)'
  <2> SUFFICES ASSUME NEW k \in voteReqs, state[k.from] = Candidate,
                      currentTerm[k.from] = k.term
               PROVE  k.lastLogIndex = Len(G[k.from]) /\ k.lastLogTerm = lastTermOf(G[k.from])
    BY <1>1 DEF VotesAsk
  <2>1. k.from \in Node
    BY <1>1 DEF TypeOK, VoteReq
  <2>2. G[k.from] = F[k.from]
    BY <1>1, <1>2, <1>12, <2>1 DEF Candidate, Leader
  <2> QED BY <2>2 DEF LogInv, VotesAsk
<1>19. VotesGrant(G)'
  BY <1>1, <1>2 DEF VotesGrant
<1>20. Acks(G)'
  <2> SUFFICES ASSUME NEW k \in appendReplies, k.success, state[k.req.from] = Leader,
                      currentTerm[k.req.from] = k.req.term
               PROVE  isPrefix(G[k.req.to], G[k.req.from])
    BY <1>1 DEF Acks
  <2>1. k.req.from = n /\ k.req.to = p
    BY <1>2
  <2>2. isPrefix(F[p], F[n])
    BY <2>1 DEF LogInv, Acks
  <2>3. isPrefix(F[p], h)
    BY <1>3, <1>6, <2>2, PrefixTransitive
  <2> QED BY <1>12, <2>1, <2>3
<1>21. CommittedHeld(G, C)'
  <2>1. \A a \in Node : Joined(G[a], C)
    BY <1>2, <1>3, <1>11, <1>12 DEF Joined
  <2>2. \E a \in Node : isPrefix(C, G[a])
    BY <1>11, <1>12
  <2>3. \A a \in Node : state[a] = Leader => isPrefix(C, G[a])
    BY <1>2, <1>11, <1>12
  <2> QED BY <1>1, <2>1, <2>2, <2>3 DEF CommittedHeld
<1>22. CommittedApplied(C)'
  <2>1. \A a \in Node : Applies(replica'[a], C)
    BY <1>2, <1>3, <1>7, <1>13
  <2> QED BY <2>1 DEF CommittedApplied
<1>23. AppendsCarry(G, C)'
  <2> SUFFICES ASSUME NEW m \in appendReqs
               PROVE  /\ m.leaderCommit <= Len(C)
                      /\ m.term = currentTerm[m.to]
                         => Carries(m, G[m.from]) /\ isPrefix(C, G[m.from])
    BY <1>1 DEF AppendsCarry
  <2>1. m.leaderCommit <= Len(C)
    BY DEF LogInv, AppendsCarry
  <2>2. ASSUME m.term = currentTerm[m.to]
        PROVE  Carries(m, h) /\ m.from = n
    <3>1. m.from = n /\ m.term = t
      BY <1>2, <2>2 DEF Requests
    <3>2. Carries(m, F[n])
      BY <2>2, <3>1 DEF LogInv, AppendsCarry
    <3>3. /\ m.prevLogIndex \in Nat /\ m.entries \in Seq(Entry) /\ Len(m.entries) \in Nat
      BY <1>1, EntryFacts DEF TypeOK, AppendReq
    <3>4. /\ m.prevLogIndex + Len(m.entries) <= Len(F[n])
          /\ m.prevLogTerm = termOf(F[n], m.prevLogIndex)
          /\ \A i \in 1..Len(m.entries) : m.entries[i] = F[n][m.prevLogIndex + i]
          /\ \A j \in (m.prevLogIndex + Len(m.entries) + 1)..Len(F[n]) : F[n][j].term = m.term
      BY <3>2 DEF Carries
    <3>5. m.prevLogTerm = termOf(h, m.prevLogIndex)
      <4>1. m.prevLogIndex \in 0..Len(F[n])
        BY <1>6, <3>3, <3>4
      <4> QED BY <1>3, <1>6, <3>4, <4>1, PrefixTerms
    <3>6. \A i \in 1..Len(m.entries) : m.entries[i] = h[m.prevLogIndex + i]
      <4>1. \A i \in 1..Len(m.entries) : m.prevLogIndex + i \in 1..Len(F[n])
        BY <1>6, <3>3, <3>4
      <4> QED BY <1>6, <3>4, <4>1
    <3>7. ASSUME NEW j \in (m.prevLogIndex + Len(m.entries) + 1)..Len(h)
          PROVE  h[j].term = m.term
      <4>1. CASE j = Len(F[n]) + 1
        BY <1>1, <1>6, <3>1, <4>1
      <4>2. CASE j # Len(F[n]) + 1
        <5>1. /\ j \in (m.prevLogIndex + Len(m.entries) + 1)..Len(F[n])
              /\ j \in 1..Len(F[n])
          BY <1>6, <3>3, <4>2
        <5> QED BY <1>6, <3>4, <5>1
      <4> QED BY <4>1, <4>2
    <3>8. m.prevLogIndex + Len(m.entries) <= Len(h)
      BY <1>6, <3>3, <3>4
    <3> QED BY <3>1, <3>5, <3>6, <3>7, <3>8 DEF Carries
  <2> QED BY <1>11, <1>12, <2>1, <2>2
<1>24. ImagesTrue(G, C)'
  <2> SUFFICES ASSUME NEW m \in snapReqs
               PROVE  /\ Image(m, C)
                      /\ m.term = currentTerm[m.to] => isPrefix(C, G[m.from])
    BY <1>1 DEF ImagesTrue
  <2>1. Image(m, C)
    BY DEF LogInv, ImagesTrue
  <2>2. m.term = currentTerm[m.to] => m.from = n
    BY <1>2 DEF Requests
  <2> QED BY <1>11, <1>12, <2>1, <2>2
<1>25. LogInv(G, C)'
  BY <1>14, <1>15, <1>16, <1>17, <1>18, <1>19, <1>20, <1>21, <1>22, <1>23, <1>24 DEF LogInv
<1>26. ASSUME NEW a \in Node PROVE FsmStable(a)
  <2>1. CASE a = n
    <3>1. Len(replica[n].fsm) \in Nat
      BY <1>3, ReplicaFields
    <3>2. isPrefix(replica[n].fsm, s.fsm)
      BY <1>7, <3>1 DEF isPrefix
    <3> QED BY <1>13, <2>1, <3>2 DEF FsmStable
  <2>2. CASE a = p
    BY <1>13, <2>2, FsmUntouched
  <2> QED BY <1>2, <2>1, <2>2
<1> QED BY <1>12, <1>25, <1>26 DEF G

\* A leader commits entries that its peer has acknowledged.
LEMMA CommitLogs ==
    ASSUME Pair, IInv, IInv', Voting, NEW m \in appendReplies, m.success,
           NEW n \in Node, n = m.req.from, state[n] = Leader, currentTerm[n] = m.req.term,
           currentTerm' = currentTerm, state' = state, voteReqs' = voteReqs,
           voteReplies' = voteReplies, appendReqs' = appendReqs, snapReqs' = snapReqs,
           appendReplies' \subseteq appendReplies,
           NEW F \in [Node -> Seq(Entry)], NEW C \in Seq(Entry), LogInv(F, C),
           NEW s, replica' = [replica EXCEPT ![n] = s],
           NEW D \in Seq(Entry), isPrefix(C, D), isPrefix(D, F[n]),
           Fits(s, F[n]), Applies(s, D)
    PROVE  LogInv(F, D)'
<1>1. TypeOK /\ TypeOK'
  BY DEF IInv
<1>2. PICK p \in Node :
          /\ n # p /\ \A a \in Node : a = n \/ a = p
          /\ state[p] # Leader
          /\ \A k \in Requests : k.term = currentTerm[k.to] => k.from = n
          /\ m.req.to = p
  BY <1>1, LeaderAlone
<1>3. /\ F[n] \in Seq(Entry) /\ F[p] \in Seq(Entry) /\ Fits(replica[p], F[p])
      /\ Applies(replica[p], C) /\ isPrefix(F[p], F[n])
  BY <1>2 DEF LogInv, LogsFit, CommittedApplied, Acks
<1>4. replica'[n] = s /\ replica'[p] = replica[p]
  <2>1. replica \in [Node -> Replica]
    BY <1>1 DEF TypeOK
  <2> QED BY <1>2, <2>1
<1>5. Len(C) \in Nat /\ Len(D) \in Nat /\ Len(C) <= Len(D)
      /\ \A i \in 1..Len(C) : C[i] = D[i]
  BY EntryFacts DEF isPrefix
<1>6. LogsFit(F)'
  <2>1. \A a \in Node : Fits(replica'[a], F[a]) /\ Ordered(F[a])
    BY <1>2, <1>3, <1>4 DEF LogInv, LogsFit
  <2> QED BY <2>1 DEF LogsFit
<1>7. LogsAgree(F)' /\ LeaderWon(F)' /\ VotesAsk(F)' /\ VotesGrant(F)' /\ Acks(F)'
  BY DEF LogInv, LogsAgree, LeaderWon, VotesAsk, VotesGrant, Acks
<1>8. CandidateNew(F)'
  BY DEF LogInv, CandidateNew
<1>9. CommittedHeld(F, D)'
  <2>1. Joined(F[p], D)
    BY <1>3, PrefixesJoined
  <2>2. \A a \in Node : Joined(F[a], D)
    BY <1>2, <2>1 DEF Joined
  <2>3. \A a \in Node : state[a] = Leader => isPrefix(D, F[a])
    BY <1>2
  <2> QED BY <2>2, <2>3 DEF CommittedHeld
<1>10. CommittedApplied(D)'
  <2>1. Applies(replica[p], D)
    <3>1. replica[p].commitIndex \in Nat /\ replica[p].lastApplied \in Nat
      BY ReplicaFields DEF IInv, ReplicasSound
    <3>2. /\ replica[p].commitIndex <= Len(C) /\ replica[p].lastApplied <= Len(C)
          /\ \A i \in 1..replica[p].lastApplied : replica[p].fsm[i] = C[i].cmd
      BY <1>3 DEF Applies
    <3>3. replica[p].commitIndex <= Len(D) /\ replica[p].lastApplied <= Len(D)
      BY <1>5, <3>1, <3>2
    <3>4. \A i \in 1..replica[p].lastApplied : i \in 1..Len(C)
      BY <1>5, <3>1, <3>2
    <3> QED BY <1>5, <3>2, <3>3, <3>4 DEF Applies
  <2>2. \A a \in Node : Applies(replica'[a], D)
    BY <1>2, <1>4, <2>1
  <2> QED BY <2>2 DEF CommittedApplied
<1>11. AppendsCarry(F, D)'
  <2> SUFFICES ASSUME NEW k \in appendReqs
               PROVE  /\ k.leaderCommit <= Len(D)
                      /\ k.term = currentTerm[k.to]
                         => Carries(k, F[k.from]) /\ isPrefix(D, F[k.from])
    BY DEF AppendsCarry
  <2>1. k.leaderCommit \in Nat /\ k.leaderCommit <= Len(C)
    BY <1>1 DEF TypeOK, AppendReq, LogInv, AppendsCarry
  <2>2. k.leaderCommit <= Len(D)
    BY <1>5, <2>1
  <2>3. k.term = currentTerm[k.to] => k.from = n /\ Carries(k, F[k.from])
    BY <1>2 DEF Requests, LogInv, AppendsCarry
  <2> QED BY <2>2, <2>3
<1>12. ImagesTrue(F, D)'
  <2> SUFFICES ASSUME NEW k \in snapReqs
               PROVE  /\ Image(k, D)
                      /\ k.term = currentTerm[k.to] => isPrefix(D, F[k.from])
    BY DEF ImagesTrue
  <2>1. k.lastIncludedIndex \in Nat /\ Image(k, C)
    BY <1>1 DEF TypeOK, SnapReq, LogInv, ImagesTrue
  <2>2. /\ k.lastIncludedIndex \in 0..Len(C) /\ k.lastIncludedIndex <= Len(D)
        /\ \A i \in 1..k.lastIncludedIndex : i \in 1..Len(C)
    BY <1>5, <2>1 DEF Image
  <2>3. termOf(C, k.lastIncludedIndex) = termOf(D, k.lastIncludedIndex)
    BY <2>2, PrefixTerms
  <2>4. Image(k, D)
    BY <1>5, <2>1, <2>2, <2>3 DEF Image
  <2>5. k.term = currentTerm[k.to] => k.from = n
    BY <1>2 DEF Requests
  <2> QED BY <2>4, <2>5
<1> QED BY <1>6, <1>7, <1>8, <1>9, <1>10, <1>11, <1>12 DEF LogInv

\* An answer to a leader: what it commits is in its log.
LEMMA AppendEntriesReplyLogs ==
    ASSUME Pair, IInv, IInv', RecentInv, Voting, NEW m \in appendReplies,
           AppendEntriesReply(m),
           NEW F \in [Node -> Seq(Entry)], NEW C \in Seq(Entry), LogInv(F, C)
    PROVE  /\ \E D \in Seq(Entry) : LogInv(F, D)'
           /\ \A p \in Node : FsmStable(p)
<1> DEFINE n == m.req.from
           r == replica[n]
           match == [matchIndex[n] EXCEPT ![m.req.to] =
                        m.req.prevLogIndex + Len(m.req.entries)]
           r2 == advanceCommitIndex(n, r, match)
           r3 == IF r2.commitIndex = r.commitIndex THEN r ELSE maybeCompact(r2)
<1>1. /\ TypeOK /\ TypeOK' /\ (\A p \in Node : Moves(p)) /\ n \in Node
  <2>1. TypeOK /\ TypeOK' /\ n \in Node
    BY DEF IInv, TypeOK, AppendReply, AppendReq
  <2> QED BY <2>1, AppendEntriesReplyVotes
<1>2. ~compactionPanics(r2)
  BY <1>1, NoPanic
<1>3. /\ appendReqs' = appendReqs /\ appendReplies' \subseteq appendReplies
      /\ voteReqs' = voteReqs /\ voteReplies' = voteReplies /\ snapReqs' = snapReqs
      /\ \/ replica' = replica /\ becomeFollower(n, m.term, Nil)
         \/ replica' = replica /\ state' = state /\ currentTerm' = currentTerm
         \/ /\ state[n] = Leader /\ currentTerm[n] = m.req.term /\ m.success
            /\ replica' = [replica EXCEPT ![n] = r3]
            /\ state' = state /\ currentTerm' = currentTerm
  <2> HIDE DEF r3, r2
  <2>1. AppendEntriesReply(m) =>
        /\ \/ /\ becomeFollower(n, m.term, Nil)
              /\ UNCHANGED <<replica, disk, snapTasks>>
           \/ UNCHANGED <<currentTerm, votedFor, state, replica>>
           \/ /\ state[n] = Leader /\ currentTerm[n] = m.req.term /\ m.success
              /\ replica' = [replica EXCEPT ![n] = r3]
              /\ UNCHANGED <<currentTerm, votedFor, state, snapTasks>>
        /\ appendReplies' = appendReplies \ {m}
        /\ UNCHANGED <<knownLeader, votes, voteRpcs, appendReqs, snapReqs, restarts>>
    BY <1>2 DEF AppendEntriesReply, r3, r2
  <2> QED BY <2>1 DEF voteRpcs
<1>4. CASE replica' = replica
  <2>1. NoneRises
    <3>1. CASE becomeFollower(n, m.term, Nil)
      BY <1>1, <3>1 DEF NoneRises, becomeFollower, TypeOK
    <3>2. CASE state' = state /\ currentTerm' = currentTerm
      BY <3>2 DEF NoneRises
    <3> QED BY <1>3, <3>1, <3>2
  <2>2. LogInv(F, C)'
    BY <1>1, <1>3, <1>4, <2>1, LogsQuiet
  <2>3. \A p \in Node : FsmStable(p)
    BY <1>4, FsmUntouched
  <2> QED BY <2>2, <2>3
<1>5. CASE /\ state[n] = Leader /\ currentTerm[n] = m.req.term /\ m.success
           /\ replica' = [replica EXCEPT ![n] = r3]
           /\ state' = state /\ currentTerm' = currentTerm
  <2>1. /\ F[n] \in Seq(Entry) /\ WellFormed(r) /\ Fits(r, F[n])
        /\ isPrefix(C, F[n]) /\ Applies(r, C)
    BY <1>1, <1>5 DEF IInv, ReplicasSound, LogInv, LogsFit, CommittedHeld, CommittedApplied
  <2> HIDE DEF match
  <2>2. PICK D \in Seq(Entry) :
            /\ isPrefix(C, D) /\ isPrefix(D, F[n])
            /\ Fits(r2, F[n]) /\ Applies(r2, D)
            /\ isPrefix(r.fsm, r2.fsm)
    BY <2>1, FitsCommitted
  <2>3. WellFormed(r2)
    BY <2>1, AdvanceCommitIndexKeeps
  <2>4. \E E \in Seq(Entry) :
            /\ isPrefix(C, E) /\ isPrefix(E, F[n])
            /\ Fits(r3, F[n]) /\ Applies(r3, E)
            /\ isPrefix(r.fsm, r3.fsm)
    <3>1. CASE r2.commitIndex = r.commitIndex
      <4>1. isPrefix(C, C) /\ isPrefix(r.fsm, r.fsm)
        <5>1. Len(r.fsm) \in Nat
          BY <2>1, ReplicaFields
        <5>2. isPrefix(r.fsm, r.fsm)
          <6> HIDE DEF r
          <6> QED BY <5>1 DEF isPrefix
        <5> QED BY <5>2, PrefixItself
      <4>2. r3 = r
        BY <3>1
      <4> HIDE DEF r3, r2, r
      <4> QED BY <2>1, <4>1, <4>2
    <3>2. CASE r2.commitIndex # r.commitIndex
      <4>1. r3 = maybeCompact(r2)
        BY <3>2
      <4> HIDE DEF r3, r2, r
      <4>2. Joined(F[n], D)
        BY <2>2 DEF Joined
      <4>3. Fits(r3, F[n]) /\ Applies(r3, D) /\ r3.fsm = r2.fsm
        BY <2>1, <2>2, <2>3, <4>1, <4>2, FitsCompacted
      <4> QED BY <2>2, <4>3
    <3> QED BY <3>1, <3>2
  <2> HIDE DEF r3, r2
  <2>5. PICK E \in Seq(Entry) :
            /\ isPrefix(C, E) /\ isPrefix(E, F[n])
            /\ Fits(r3, F[n]) /\ Applies(r3, E)
            /\ isPrefix(r.fsm, r3.fsm)
    BY <2>4
  <2>6. LogInv(F, E)'
    <3>1. /\ appendReqs' = appendReqs /\ appendReplies' \subseteq appendReplies
          /\ voteReqs' = voteReqs /\ voteReplies' = voteReplies /\ snapReqs' = snapReqs
      BY <1>3
    <3> QED BY <1>1, <1>5, <2>5, <3>1, CommitLogs
  <2>7. ASSUME NEW a \in Node PROVE FsmStable(a)
    <3>1. replica \in [Node -> Replica]
      BY <1>1 DEF TypeOK
    <3>2. CASE a = n
      <4>1. replica'[n] = r3
        BY <1>1, <1>5, <3>1
      <4> QED BY <2>5, <3>2, <4>1 DEF FsmStable
    <3>3. CASE a # n
      <4>1. replica'[a] = replica[a]
        BY <1>1, <1>5, <3>1, <3>3
      <4> QED BY <4>1, FsmUntouched
    <3> QED BY <3>2, <3>3
  <2> QED BY <2>6, <2>7
<1> HIDE DEF r3, r2, match
<1> QED BY <1>3, <1>4, <1>5

\* Some logs and some committed entries fit the state.
LogsSound ==
    \E F \in [Node -> Seq(Entry)], C \in Seq(Entry) : LogInv(F, C)

\* Every step of the pair.
LEMMA LogsNext ==
    ASSUME Pair, PairInv, IInv', LogsSound, [Next]_vars
    PROVE  LogsSound' /\ \A p \in Node : FsmStable(p)
<1>1. PICK F \in [Node -> Seq(Entry)], C \in Seq(Entry) : LogInv(F, C)
  BY DEF LogsSound
<1>2. /\ IInv /\ RecentInv /\ Voting /\ TypeOK /\ TypeOK' /\ restarts \in Nat
  BY DEF PairInv, IInv, TypeOK
<1>3. CASE LogInv(F, C)' /\ replica' = replica
  <2>1. \A p \in Node : FsmStable(p)
    BY <1>2, <1>3, FsmUntouched
  <2> QED BY <1>3, <2>1 DEF LogsSound
<1>4. CASE (\E G \in [Node -> Seq(Entry)] : LogInv(G, C)') /\ \A p \in Node : FsmStable(p)
  BY <1>4 DEF LogsSound
<1>5. CASE (\E D \in Seq(Entry) : LogInv(F, D)') /\ \A p \in Node : FsmStable(p)
  BY <1>5 DEF LogsSound
<1>6. ASSUME NEW n \in Node, startElection(n) PROVE LogInv(F, C)' /\ replica' = replica
  BY <1>1, <1>2, <1>6, StartElectionLogs DEF startElection
<1>7. ASSUME NEW m \in voteReqs, RequestVote(m) PROVE LogInv(F, C)' /\ replica' = replica
  BY <1>1, <1>2, <1>7, RequestVoteLogs DEF RequestVote
<1>8. ASSUME NEW m \in voteReplies, RequestVoteReply(m)
      PROVE  LogInv(F, C)' /\ replica' = replica
  BY <1>1, <1>2, <1>8, RequestVoteReplyLogs DEF RequestVoteReply
<1>9. ASSUME NEW n \in Node, NEW c \in Command, Propose(n, c)
      PROVE  (\E G \in [Node -> Seq(Entry)] : LogInv(G, C)') /\ \A p \in Node : FsmStable(p)
  BY <1>1, <1>2, <1>9, ProposeLogs
<1>10. ASSUME NEW n \in Node, NEW reach \in SUBSET peers(n), replicateAndCommit(n, reach)
       PROVE  LogInv(F, C)' /\ replica' = replica
  BY <1>1, <1>2, <1>10, ReplicateLogs DEF replicateAndCommit
<1>11. ASSUME NEW m \in appendReqs, AppendEntries(m)
       PROVE  (\E G \in [Node -> Seq(Entry)] : LogInv(G, C)') /\ \A p \in Node : FsmStable(p)
  BY <1>1, <1>2, <1>11, AppendEntriesLogs
<1>12. ASSUME NEW m \in appendReplies, AppendEntriesReply(m)
       PROVE  (\E D \in Seq(Entry) : LogInv(F, D)') /\ \A p \in Node : FsmStable(p)
  BY <1>1, <1>2, <1>12, AppendEntriesReplyLogs
<1>13. CASE /\ currentTerm' = currentTerm /\ state' = state /\ replica' = replica
            /\ voteReqs' = voteReqs /\ voteReplies' = voteReplies
            /\ appendReqs' \subseteq appendReqs /\ appendReplies' \subseteq appendReplies
            /\ snapReqs' = snapReqs
  <2>1. NoneRises /\ \A p \in Node : Moves(p)
    BY <1>13 DEF NoneRises, Moves
  <2>2. LogInv(F, C)'
    BY <1>1, <1>2, <1>13, <2>1, LogsQuiet
  <2> QED BY <1>3, <1>13, <2>2
<1>14. CASE loseAppend
  BY <1>13, <1>14 DEF loseAppend, electionVars, voteRpcs, snapRpcs
<1>15. ASSUME NEW t \in snapTasks, sendInstallSnapshot(t)
       PROVE  LogInv(F, C)' /\ replica' = replica
  BY <1>1, <1>2, <1>15, SendInstallSnapshotLogs DEF sendInstallSnapshot
<1>16. ASSUME NEW m \in snapReqs, InstallSnapshot(m)
       PROVE  (\E G \in [Node -> Seq(Entry)] : LogInv(G, C)') /\ \A p \in Node : FsmStable(p)
  BY <1>1, <1>2, <1>16, InstallSnapshotLogs
<1>17. ~ (restarts < MaxRestarts)
  BY <1>2 DEF Pair
<1>18. ASSUME NEW n \in Node PROVE ~ (crash(n) \/ shutdown(n))
  BY <1>17 DEF crash, shutdown
<1>19. CASE UNCHANGED vars
  BY <1>13, <1>19 DEF vars, electionVars, voteRpcs, appendRpcs, snapRpcs
<1> QED BY <1>3, <1>4, <1>5, <1>6, <1>7, <1>8, <1>9, <1>10, <1>11, <1>12, <1>14,
           <1>15, <1>16, <1>18, <1>19 DEF Next

\* At the start every log is empty and nothing is committed.
LEMMA LogsInit ==
    ASSUME Pair, Init
    PROVE  LogsSound
<1> DEFINE F == [n \in Node |-> <<>>]
<1>1. F \in [Node -> Seq(Entry)] /\ <<>> \in Seq(Entry) /\ \A n \in Node : F[n] = <<>>
  OBVIOUS
<1>2. \A n \in Node : /\ replica[n].log = <<>> /\ replica[n].snapshotIndex = 0
                      /\ replica[n].snapshotTerm = 0 /\ replica[n].lastApplied = 0
                      /\ replica[n].commitIndex = 0 /\ state[n] = Follower
  BY EmptyStart DEF Init
<1>3. /\ voteReqs = {} /\ voteReplies = {} /\ appendReqs = {} /\ appendReplies = {}
      /\ snapReqs = {}
  BY DEF Init
<1>4. Node # {}
  <2>1. Cardinality(Node) = 2
    BY DEF Pair
  <2>2. Cardinality({}) = 0
    BY FS_EmptySet
  <2> QED BY <2>1, <2>2
<1> HIDE DEF F
<1>5. isPrefix(<<>>, <<>>) /\ Ordered(<<>>) /\ AgreeOn(<<>>, <<>>)
  BY DEF isPrefix, Ordered, AgreeOn
<1>6. LogsFit(F) /\ LogsAgree(F)
  <2>1. \A n \in Node : Fits(replica[n], <<>>)
    BY <1>2 DEF Fits, lastLogIndex, termOf
  <2> QED BY <1>1, <1>5, <2>1 DEF LogsFit, LogsAgree
<1>7. LeaderWon(F) /\ CandidateNew(F)
  BY <1>2 DEF LeaderWon, CandidateNew, Leader, Follower, Candidate
<1>8. VotesAsk(F) /\ VotesGrant(F) /\ Acks(F) /\ AppendsCarry(F, <<>>) /\ ImagesTrue(F, <<>>)
  BY <1>3 DEF VotesAsk, VotesGrant, Acks, AppendsCarry, ImagesTrue
<1>9. CommittedHeld(F, <<>>)
  BY <1>1, <1>4, <1>5 DEF CommittedHeld, Joined
<1>10. CommittedApplied(<<>>)
  BY <1>2 DEF CommittedApplied, Applies
<1> QED BY <1>1, <1>6, <1>7, <1>8, <1>9, <1>10 DEF LogInv, LogsSound

\* The logs of the pair are sound in every reachable state.
LEMMA LogsInvariance == Pair => (Spec => []LogsSound)
<1> SUFFICES ASSUME Pair PROVE Spec => []LogsSound
  OBVIOUS
<1>1. Init => LogsSound
  BY LogsInit
<1>2. PairInv /\ PairInv' /\ LogsSound /\ [Next]_vars => LogsSound'
  BY LogsNext DEF PairInv
<1> QED BY <1>1, <1>2, PairInvariance, PTL DEF Spec

\* The commands a replica knows of are those of its log.
LEMMA HistoryOfLog ==
    ASSUME NEW r, WellFormed(r), NEW f \in Seq(Entry), Fits(r, f)
    PROVE  /\ Len(history(r)) = Len(f)
           /\ \A i \in 1..Len(f) : history(r)[i] = f[i].cmd
<1> DEFINE cmds == [k \in 1..Len(r.log) |-> r.log[k].cmd]
<1>1. /\ r.snapshotIndex \in Nat /\ Len(r.log) \in Nat /\ Len(r.snapshot) = r.snapshotIndex
      /\ r.snapshot \in Seq(Command) /\ r.log \in Seq(Entry)
      /\ Len(f) = r.snapshotIndex + Len(r.log)
  BY ReplicaFields, FitsTerms DEF WellFormed, Replica
<1>2. cmds \in Seq(Command) /\ Len(cmds) = Len(r.log)
      /\ \A k \in 1..Len(r.log) : cmds[k] = r.log[k].cmd
  <2>1. \A k \in 1..Len(r.log) : r.log[k].cmd \in Command
    BY <1>1, EntryFacts
  <2> QED BY <1>1, <2>1
<1> HIDE DEF cmds
<1>3. history(r) = r.snapshot \o cmds
  BY DEF history, cmds
<1>4. /\ Len(history(r)) = r.snapshotIndex + Len(r.log)
      /\ \A i \in 1..(r.snapshotIndex + Len(r.log)) :
             history(r)[i] = IF i <= r.snapshotIndex THEN r.snapshot[i]
                                                     ELSE cmds[i - r.snapshotIndex]
  <2>1. /\ Len(r.snapshot \o cmds) = Len(r.snapshot) + Len(cmds)
        /\ \A i \in 1..(Len(r.snapshot) + Len(cmds)) :
               (r.snapshot \o cmds)[i] = IF i <= Len(r.snapshot) THEN r.snapshot[i]
                                         ELSE cmds[i - Len(r.snapshot)]
    BY <1>1, <1>2, ConcatProperties
  <2>2. Len(r.snapshot) = r.snapshotIndex /\ Len(cmds) = Len(r.log)
    BY <1>1, <1>2
  <2> QED BY <1>3, <2>1, <2>2, Zenon
<1>5. ASSUME NEW i \in 1..Len(f) PROVE history(r)[i] = f[i].cmd
  <2>1. CASE i <= r.snapshotIndex
    <3>1. i \in 1..r.snapshotIndex
      BY <1>1, <2>1
    <3>2. r.snapshot[i] = f[i].cmd
      BY <3>1 DEF Fits
    <3>3. history(r)[i] = r.snapshot[i]
      BY <1>1, <1>4, <2>1
    <3> QED BY <3>2, <3>3
  <2>2. CASE ~(i <= r.snapshotIndex)
    <3>1. /\ i - r.snapshotIndex \in 1..Len(r.log)
          /\ r.snapshotIndex + (i - r.snapshotIndex) = i
      BY <1>1, <2>2
    <3>2. f[i] = r.log[i - r.snapshotIndex]
      BY <3>1 DEF Fits
    <3> QED BY <1>1, <1>2, <1>4, <2>2, <3>1, <3>2
  <2> QED BY <2>1, <2>2
<1> QED BY <1>1, <1>4, <1>5

\* Two nodes without restarts, whatever is lost, delayed or reordered: they
\* apply the same commands in the same order, although the commit index counts
\* a matchIndex that an old answer may have written.
THEOREM PairAppliesSame ==
    ASSUME Pair
    PROVE  Spec => []StateMachineSafety
<1>1. ASSUME PairInv, LogsSound, NEW a \in Node, NEW b \in Node
      PROVE  \/ isPrefix(replica[a].fsm, replica[b].fsm)
             \/ isPrefix(replica[b].fsm, replica[a].fsm)
  <2>1. PICK F \in [Node -> Seq(Entry)], C \in Seq(Entry) : LogInv(F, C)
    BY <1>1 DEF LogsSound
  <2>2. \A n \in Node : /\ replica[n].lastApplied \in Nat
                        /\ Len(replica[n].fsm) = replica[n].lastApplied
                        /\ \A i \in 1..replica[n].lastApplied : replica[n].fsm[i] = C[i].cmd
    BY <1>1, <2>1, ReplicaFields
       DEF PairInv, IInv, ReplicasSound, WellFormed, LogInv, CommittedApplied, Applies
  <2>3. CASE replica[a].lastApplied <= replica[b].lastApplied
    <3>1. \A i \in 1..replica[a].lastApplied : i \in 1..replica[b].lastApplied
      BY <2>2, <2>3
    <3> QED BY <2>2, <2>3, <3>1 DEF isPrefix
  <2>4. CASE replica[b].lastApplied <= replica[a].lastApplied
    <3>1. \A i \in 1..replica[b].lastApplied : i \in 1..replica[a].lastApplied
      BY <2>2, <2>4
    <3> QED BY <2>2, <2>4, <3>1 DEF isPrefix
  <2> QED BY <2>2, <2>3, <2>4
<1>2. PairInv /\ LogsSound => StateMachineSafety
  BY <1>1 DEF StateMachineSafety
<1> QED BY <1>2, PairInvariance, LogsInvariance, PTL

\* Two nodes without restarts: whoever leads has every command the other node
\* has applied, those it has compacted included.
THEOREM PairLeaderComplete ==
    ASSUME Pair
    PROVE  Spec => []LeaderCompleteness
<1>1. ASSUME PairInv, LogsSound, NEW a \in Node, NEW b \in Node, state[a] = Leader
      PROVE  isPrefix(replica[b].fsm, history(replica[a]))
  <2>1. PICK F \in [Node -> Seq(Entry)], C \in Seq(Entry) : LogInv(F, C)
    BY <1>1 DEF LogsSound
  <2>2. /\ WellFormed(replica[a]) /\ Fits(replica[a], F[a]) /\ F[a] \in Seq(Entry)
        /\ isPrefix(C, F[a]) /\ WellFormed(replica[b]) /\ Applies(replica[b], C)
    BY <1>1, <2>1 DEF PairInv, IInv, ReplicasSound, LogInv, LogsFit, CommittedHeld,
                      CommittedApplied
  <2>3. /\ replica[b].lastApplied \in Nat /\ Len(replica[b].fsm) = replica[b].lastApplied
        /\ replica[b].lastApplied <= Len(C) /\ Len(C) \in Nat /\ Len(F[a]) \in Nat
        /\ Len(C) <= Len(F[a])
        /\ \A i \in 1..replica[b].lastApplied : replica[b].fsm[i] = C[i].cmd
        /\ \A i \in 1..Len(C) : C[i] = F[a][i]
    BY <2>2, ReplicaFields, EntryFacts DEF WellFormed, Applies, isPrefix
  <2>4. /\ Len(history(replica[a])) = Len(F[a])
        /\ \A i \in 1..Len(F[a]) : history(replica[a])[i] = F[a][i].cmd
    BY <2>2, HistoryOfLog
  <2>5. \A i \in 1..replica[b].lastApplied : i \in 1..Len(C) /\ i \in 1..Len(F[a])
    BY <2>3
  <2>6. replica[b].lastApplied <= Len(F[a])
    BY <2>3
  <2> QED BY <2>3, <2>4, <2>5, <2>6 DEF isPrefix
<1>2. PairInv /\ LogsSound => LeaderCompleteness
  BY <1>1 DEF LeaderCompleteness
<1> QED BY <1>2, PairInvariance, LogsInvariance, PTL

\* Two nodes without restarts: a node takes back what it has applied only when
\* it installs an older snapshot, and never contradicts it.
THEOREM PairAppliedStable ==
    ASSUME Pair
    PROVE  Spec => AppliedStable
<1>1. PairInv /\ PairInv' /\ LogsSound /\ [Next]_vars => \A p \in Node : FsmStable(p)
  BY LogsNext DEF PairInv
<1>2. (\A p \in Node : FsmStable(p)) =>
          [restarts' = restarts =>
              \A n \in Node : LET f == replica[n].fsm  g == replica'[n].fsm IN
                  \/ isPrefix(f, g)
                  \/ /\ isPrefix(g, f)
                     /\ replica'[n].snapshotIndex > replica[n].snapshotIndex]_vars
  BY DEF FsmStable
<1> QED BY <1>1, <1>2, PairInvariance, LogsInvariance, PTL DEF Spec, AppliedStable

=============================================================================
