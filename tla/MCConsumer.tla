----------------------------- MODULE MCConsumer -----------------------------
(***************************************************************************)
(* The consumer on a small topic that the environment fills message by     *)
(* message.                                                                *)
(***************************************************************************)
EXTENDS Consumer, TLC

CONSTANTS
    p1, p2,      \* two partitions
    MaxProduced  \* bound: messages per partition

MCPartition == {p1, p2}

\* A message that is stored, one whose price overflows, one without a case.
MCMessage ==
    {[title |-> "SubscriptionActivated", price |-> 1],
     [title |-> "SubscriptionCharged", price |-> 2],
     [title |-> "PlanRegistered", price |-> 0]}

\* Each partition carries the good message and one of the refused ones.
Carried(p) == {m \in MCMessage :
    m.title # (IF p = p1 THEN "PlanRegistered" ELSE "SubscriptionCharged")}

Produce(p, m) ==
    /\ Len(topic[p]) < MaxProduced
    /\ topic' = [topic EXCEPT ![p] = Append(@, m)]
    /\ UNCHANGED readerVars

MCNext ==
    \/ ReaderNext
    \/ \E p \in Partition : \E m \in Carried(p) : Produce(p, m)

MCSpec == Init /\ [][MCNext]_vars /\ Fairness

\* A message that reached the topic is fetched in the end, unless MustRun has
\* returned: no message, refused or not, can block the ones behind it.
EveryMessageFetched ==
    \A p \in Partition : \A n \in 1..MaxProduced :
        Len(topic[p]) >= n ~> offset[p] >= n \/ reader = "stopped"
=============================================================================
