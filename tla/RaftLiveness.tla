---------------------------- MODULE RaftLiveness ----------------------------
(***************************************************************************)
(* RaftNode with the fairness that the heartbeat ticker and the network    *)
(* give while no partition lasts for ever: a leader's round reaches each   *)
(* peer again and again, and some of the requests and answers get through. *)
(* Elections and proposals are not fair: nothing forces them.              *)
(***************************************************************************)
EXTENDS RaftNode

Fairness ==
    \A n \in Node :
        /\ \A p \in peers(n) : SF_vars(replicateAndCommit(n, {p}))
        /\ SF_vars(\E m \in appendReqs : m.to = n /\ AppendEntries(m))
        /\ SF_vars(\E m \in appendReplies : m.req.from = n /\ AppendEntriesReply(m))
        /\ WF_vars(\E t \in snapTasks : t.from = n /\ sendInstallSnapshot(t))
        /\ WF_vars(\E m \in snapReqs : m.to = n /\ InstallSnapshot(m))

FairSpec == Spec /\ Fairness

\* A command that a leader appended in its own term commits unless the leader
\* loses its office: what ProposeAndWait waits for.
ProposalCommits ==
    \A n \in Node : \A i \in Index :
        (/\ state[n] = Leader
         /\ replica[n].commitIndex < i /\ i <= lastLogIndex(replica[n])
         /\ replica[n].snapshotIndex <= i
         /\ termAt(replica[n], i) = currentTerm[n])
        ~> (replica[n].commitIndex >= i \/ state[n] # Leader)

=============================================================================
