------------------------------ MODULE Pipeline ------------------------------
(***************************************************************************)
(* The pusher and the consumer of rest over one topic: from a log on the   *)
(* chain to a row of the table transactions.  The pusher appends to the    *)
(* topic, the consumer reads it; either process may stop, crash and start  *)
(* again while the other goes on.                                          *)
(***************************************************************************)
EXTENDS Pusher

CONSTANTS
    MaxPrice,   \* see Consumer
    MaxFaults

PipelineAssumption == MaxPrice \in Nat /\ MaxFaults \in Nat

ASSUME PipelineAssumption

VARIABLES
    offset, position, life, reader, transactions, reported, faults,
    taken       \* the consumer's hand

C == INSTANCE Consumer WITH hand <- taken

readerVars == <<offset, position, life, reader, taken, transactions, reported, faults>>
pipelineVars == <<vars, readerVars>>

PipelineInit == Init /\ C!Init

\* Apart from the topic the two have nothing in common.
PusherStep == Next /\ UNCHANGED readerVars

ConsumerStep ==
    /\ C!ReaderNext
    /\ UNCHANGED <<chainVars, app, lives, listenerVars, queue, inflight, tries, late,
                   announced, dropped>>

PipelineNext == PusherStep \/ ConsumerStep

PipelineSpec == PipelineInit /\ [][PipelineNext]_pipelineVars

-----------------------------------------------------------------------------
(* Properties                                                              *)

Rows == [i \in DOMAIN transactions |-> transactions[i].event]

Feed == INSTANCE TransactionFeed
    WITH Contract <- Listener, Events <- [l \in Listener |-> Handled(l)],
         Limit <- MaxPrice, Repeats <- MaxAttempts,
         rows <- Rows, excuses <- faults

\* The whole pipeline implements the table that is only added to, with rows about
\* events that happened and few of them twice, whichever process fails, restarts
\* or repeats (pusher, Kafka, KafkaReader, transactions).
FeedSpec == Feed!Spec

\* What the pusher published and the group has not committed.
Unread ==
    UNION {{DeliveryOf(topic[p][i]) : i \in (offset[p] + 1)..Len(topic[p])} :
              p \in Partition}

OnTheWay ==
    Fed \cup InHand \cup Queued \cup Unread
    \cup {DeliveryOf(topic[c[1]][c[2]]) : c \in C!InHand}

Stored == {DeliveryOf(Rows[i]) : i \in DOMAIN Rows}

\* A log the pusher was subscribed to is on its way, in the table or given up by
\* the pusher; of those that are nowhere any more each has cost the consumer a
\* fault of its own. A retried batch or a redelivery may save one, nothing loses
\* a second (runListener, Writer, ReadMessage, Process).
VanishedAreFaults ==
    Cardinality(Owed \ (OnTheWay \cup Stored \cup dropped)) <= faults

\* In one partition the logs of one contract get their first rows in the order of
\* the chain: behind the row of a newer log an older one has a row only as a
\* repetition, or because a fault cost the consumer the copy that came in time,
\* or because the pusher had given it up and a late request brought it after all
\* (runListener, Writer, ReadMessage, Process).
RowsInChainOrder ==
    \A i, j \in DOMAIN transactions :
        LET a == Rows[i]
            b == Rows[j]
        IN /\ i < j /\ transactions[i].part = transactions[j].part
           /\ b.log < a.log /\ ~ a.removed /\ ~ b.removed
           /\ chain[a.log].contract = chain[b.log].contract
           => \/ \E k \in 1..(i - 1) : Rows[k] = b
              \/ \E c \in C!Lost : topic[c[1]][c[2]] = b
              \/ DeliveryOf(b) \in dropped

\* A log the pusher was subscribed to gets its row in the end, unless the pusher
\* gives it up, a call of the consumer fails or rest is stopped. The endpoint and
\* the database are taken to answer (GetPlan, Process), be it with an error.
OwedIsStored ==
    \A i \in 1..MaxLogs :
        LET d == [log |-> i, removed |-> FALSE]
        IN d \in Owed ~> d \in Stored \cup dropped \/ faults > 0 \/ life # "up"
=============================================================================
