-------------------------- MODULE MCLedgerPipeline --------------------------
(* LedgerPipeline for TLC: two nodes that share a store.                    *)
EXTENDS LedgerPipeline

CONSTANTS n1, n2, m1, m2, m3

\* m1 ends in the log; on n1 two more end because somebody has left.
LogAndAbandonment == {<<n1, m1>>, <<n2, m1>>, <<n1, m2>>, <<n1, m3>>}

=============================================================================
