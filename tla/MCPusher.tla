------------------------------ MODULE MCPusher ------------------------------
(***************************************************************************)
(* The pusher with a few logs, prices and partitions.                      *)
(***************************************************************************)
EXTENDS Pusher, TLC

CONSTANTS p1, p2, planA

\* The partitions are interchangeable: the balancer may pick any.
Symmetry == Permutations(Partition)

\* A log emitted while its listener was subscribed is published in the end,
\* unless a fault or a shutdown costs it (BaseListener.Listen, the handlers).
\* That the call of GetPlan returns is assumed: its context has no deadline.
OwedIsPublished ==
    \A i \in 1..MaxLogs :
        LET d == [log |-> i, removed |-> FALSE]
        IN d \in Owed ~> d \in InTopic \cup dropped
=============================================================================
