------------------------------ MODULE Consumer ------------------------------
(***************************************************************************)
(* The Kafka consumer of the rest service (KafkaReader) and the table it   *)
(* fills.  One goroutine, MustRun, reads a message, commits its offset and *)
(* only then inserts a row.  The process may crash, be restarted, or be    *)
(* shut down by a signal at any moment of that loop; the database and the  *)
(* broker may fail any call.                                               *)
(***************************************************************************)
EXTENDS Integers, Sequences, FiniteSets, FiniteSetsExt

CONSTANTS
    Partition,   \* partitions of the topic
    Message,     \* what a topic may carry: records with a title and a price
    MaxPrice,    \* largest price a NUMERIC(18, 10) column can hold
    MaxFaults    \* bound: how many faults the environment may inject

ConsumerAssumption ==
    /\ \A m \in Message : m.price \in Nat
    /\ MaxPrice \in Nat
    /\ MaxFaults \in Nat

ASSUME ConsumerAssumption

VARIABLES
    topic,         \* [Partition -> Seq(Message)], the broker's log
    offset,        \* [Partition -> Nat], offsets committed by the group
    position,      \* [Partition -> Nat], how far this session has fetched
    life,          \* how far the rest process is in its life
    reader,        \* where the goroutine running MustRun is
    hand,          \* coordinates of the message being processed
    transactions,  \* the transactions table, in insertion order
    reported,      \* messages logged as "transaction successfully saved"
    faults         \* failures seen so far, injected or caused by a shutdown

readerVars ==
    <<offset, position, life, reader, hand, transactions, reported, faults>>

vars == <<topic, readerVars>>

Life == {"up", "closing", "dbClosed", "down"}

ReaderState == {"reading", "processing", "stopped"}

Coordinate == Partition \X Nat

\* A row carries the event; its coordinates are kept to tell equal events apart.
Row == [part : Partition, pos : Nat, event : Message]

MessageAt(c) == topic[c[1]][c[2]]

-----------------------------------------------------------------------------
(* The switch of Process and the checks of the INSERT.                     *)

SupportedTitles ==
    {"DonationProcessed", "SubscriptionActivated", "SubscriptionCharged",
     "SubscriptionCancelled", "SubscriptionFailedFinal",
     "SubscriptionRetryScheduled"}

\* A title without a case is an error; a price with more than eight integer
\* digits overflows the column and the INSERT fails.
Insertable(m) == m.title \in SupportedTitles /\ m.price <= MaxPrice

-----------------------------------------------------------------------------

Init ==
    /\ topic = [p \in Partition |-> <<>>]
    /\ offset = [p \in Partition |-> 0]
    /\ position = [p \in Partition |-> 0]
    /\ life = "up"
    /\ reader = "reading"
    /\ hand \in Partition \X {0}
    /\ transactions = <<>>
    /\ reported = {}
    /\ faults = 0

Advance(p) ==
    /\ position[p] < Len(topic[p])
    /\ offset' = [offset EXCEPT ![p] = position[p] + 1]

\* Mutant: FetchMessage, whose offsets nobody commits.
ReadMessageUncommitted(p) ==
    /\ life \in {"up", "closing"} /\ reader = "reading"
    /\ position[p] < Len(topic[p])
    /\ hand' = <<p, position[p] + 1>>
    /\ reader' = "processing"
    /\ position' = [position EXCEPT ![p] = @ + 1]
    /\ UNCHANGED <<topic, offset, life, transactions, reported, faults>>

\* Mutant: after a rebalance the session starts at the oldest message.
ReadMessageFromOldest(p) ==
    /\ life \in {"up", "closing"} /\ reader = "reading"
    /\ Advance(p)
    /\ hand' = <<p, position[p] + 1>>
    /\ reader' = "processing"
    /\ \/ position' = [position EXCEPT ![p] = @ + 1] /\ UNCHANGED faults
       \/ /\ faults < MaxFaults /\ faults' = faults + 1
          /\ position' = [q \in Partition |-> 0]
    /\ UNCHANGED <<topic, life, transactions, reported>>

\* Mutant: everything the session has buffered is committed at once.
ReadMessageCommitsAhead(p) ==
    /\ life \in {"up", "closing"} /\ reader = "reading"
    /\ position[p] < Len(topic[p])
    /\ offset' = [offset EXCEPT ![p] = Len(topic[p])]
    /\ hand' = <<p, position[p] + 1>>
    /\ reader' = "processing"
    /\ position' = [position EXCEPT ![p] = @ + 1]
    /\ UNCHANGED <<topic, life, transactions, reported, faults>>

\* reader.ReadMessage: with a group id the offset is committed before the
\* message is handed to the caller.  If the group rebalances between the fetch
\* and the commit, the new session starts at the offset fetched before that
\* commit and will deliver the message again.  The call may still win the race
\* against reader.Close.
ReadMessage(p) ==
    /\ life \in {"up", "closing"} /\ reader = "reading"
    /\ Advance(p)
    /\ hand' = <<p, position[p] + 1>>
    /\ reader' = "processing"
    /\ \/ position' = [position EXCEPT ![p] = @ + 1] /\ UNCHANGED faults
       \/ faults < MaxFaults /\ faults' = faults + 1 /\ position' = offset
    /\ UNCHANGED <<topic, life, transactions, reported>>

\* ReadMessage returns an error, spontaneously or because the reader is being
\* closed, and MustRun returns for good.  The failing call may be the commit,
\* applied by the broker while its answer is lost.
ReadFails ==
    /\ reader = "reading"
    /\ \/ life = "up" /\ faults < MaxFaults
       \/ life \in {"closing", "dbClosed"}
    /\ \/ /\ UNCHANGED offset
          /\ faults' = IF life = "up" THEN faults + 1 ELSE faults
       \/ /\ \E p \in Partition : Advance(p)
          /\ faults' = faults + 1
    /\ reader' = "stopped"
    /\ UNCHANGED <<topic, position, life, hand, transactions, reported>>

Insert ==
    /\ Insertable(MessageAt(hand))
    /\ transactions' = Append(transactions,
            [part |-> hand[1], pos |-> hand[2], event |-> MessageAt(hand)])

\* The row is committed, whether Process then returns its id or an error: an
\* INSERT in flight when the context is cancelled may have been executed.
Store ==
    /\ reader = "processing" /\ life # "down"
    /\ Insert
    /\ reported' = reported \cup {hand}
    /\ reader' = "reading"
    /\ UNCHANGED <<topic, offset, position, life, hand, faults>>

\* Mutant: a failed message is processed again until it is stored.
ProcessFailsRetrying ==
    /\ reader = "processing" /\ life # "down"
    /\ \/ ~ Insertable(MessageAt(hand))
       \/ life = "up" /\ faults < MaxFaults
       \/ life \in {"closing", "dbClosed"}
    /\ UNCHANGED vars

\* Process fails and stores nothing: unsupported title, numeric overflow, a
\* database error or a cancelled context.  The error is logged, the message is
\* not tried again, and the line that reports success runs all the same.
ProcessFails ==
    /\ reader = "processing" /\ life # "down"
    /\ \/ ~ Insertable(MessageAt(hand))
       \/ life = "up" /\ faults < MaxFaults
       \/ life \in {"closing", "dbClosed"}
    /\ reported' = reported \cup {hand}
    /\ reader' = "reading"
    /\ faults' = faults + 1
    /\ UNCHANGED <<topic, offset, position, life, hand, transactions>>

\* On a signal main stops the HTTP server and calls reader.Close, which cancels
\* the context of both the read and the INSERT.
CloseReader ==
    /\ life = "up"
    /\ life' = "closing"
    /\ UNCHANGED <<topic, offset, position, reader, hand, transactions,
                   reported, faults>>

\* main never waits for the goroutine of MustRun: storage.Close runs under it.
CloseStorage ==
    /\ life = "closing"
    /\ life' = "dbClosed"
    /\ UNCHANGED <<topic, offset, position, reader, hand, transactions,
                   reported, faults>>

\* The process ends, after storage.Close or by a crash, wherever MustRun is.  A
\* commit or an INSERT already sent may still be executed.
Exit ==
    /\ \/ life = "dbClosed"
       \/ life # "down" /\ faults < MaxFaults
    /\ life' = "down"
    /\ reader' = "stopped"
    /\ \/ /\ reader # "processing"
          /\ faults' = IF life = "dbClosed" THEN faults ELSE faults + 1
          /\ UNCHANGED <<offset, transactions>>
       \/ /\ reader = "reading"
          /\ \E p \in Partition : Advance(p)
          /\ faults' = faults + 1
          /\ UNCHANGED transactions
       \/ /\ reader = "processing"
          /\ Insert \/ UNCHANGED transactions
          /\ faults' = faults + 1
          /\ UNCHANGED offset
    /\ UNCHANGED <<topic, position, hand, reported>>

\* Mutant: a consumer without a group starts every time at the oldest message.
RestartAtOldest ==
    /\ life = "down"
    /\ life' = "up"
    /\ reader' = "reading"
    /\ position' = [p \in Partition |-> 0]
    /\ UNCHANGED <<topic, offset, hand, transactions, reported, faults>>

\* Mutant: the message before the committed offset is read once more.
RestartOneBack ==
    /\ life = "down"
    /\ life' = "up"
    /\ reader' = "reading"
    /\ position' = [p \in Partition |-> offset[p] - 1]
    /\ UNCHANGED <<topic, offset, hand, transactions, reported, faults>>

\* A new process joins the group and resumes at the committed offsets.
Restart ==
    /\ life = "down"
    /\ life' = "up"
    /\ reader' = "reading"
    /\ position' = offset
    /\ UNCHANGED <<topic, offset, hand, transactions, reported, faults>>

MustRun ==
    \/ \E p \in Partition : ReadMessage(p)
    \/ ReadFails
    \/ Store
    \/ ProcessFails

ReaderNext ==
    \/ MustRun
    \/ CloseReader
    \/ CloseStorage
    \/ Exit
    \/ Restart

\* All the consumer relies on of the others: a topic is only ever appended to.
TopicGrows ==
    /\ topic' \in [Partition -> Seq(Message)]
    /\ \A p \in Partition :
         /\ Len(topic[p]) <= Len(topic'[p])
         /\ \A i \in 1..Len(topic[p]) : topic'[p][i] = topic[p][i]

Environment == TopicGrows /\ UNCHANGED readerVars

Next == ReaderNext \/ Environment

Spec == Init /\ [][Next]_vars

\* What the Go scheduler and the broker owe: a message that can be delivered is
\* (the goroutines that fetch the partitions queue for one channel, first come
\* first served), Process returns, and a shutdown that began goes on.
Fairness ==
    /\ \A p \in Partition : SF_vars(life = "up" /\ ReadMessage(p))
    /\ WF_vars(Store \/ ProcessFails)
    /\ WF_vars(life # "up" /\ ReadFails)
    /\ WF_vars(CloseStorage)
    /\ WF_vars(life = "dbClosed" /\ Exit)

-----------------------------------------------------------------------------
(* Properties                                                              *)

\* Every variable of the consumer has its type (KafkaReader, transactions).
TypeOK ==
    /\ topic \in [Partition -> Seq(Message)]
    /\ offset \in [Partition -> Nat]
    /\ position \in [Partition -> Nat]
    /\ life \in Life
    /\ reader \in ReaderState
    /\ hand \in Coordinate
    /\ transactions \in Seq(Row)
    /\ reported \subseteq Coordinate
    /\ faults \in Nat

Stored ==
    {<<transactions[i].part, transactions[i].pos>> : i \in DOMAIN transactions}

Committed == {c \in Partition \X (1..Max({0} \cup {offset[p] : p \in Partition})) :
                c[2] <= offset[c[1]]}

InHand == IF reader = "processing" THEN {hand} ELSE {}

Lost == Committed \ (Stored \cup InHand)

\* A row holds what the topic holds at its coordinates, and no message gets a
\* row before the group has committed its offset (ReadMessage, then Process).
RowsAreCommittedMessages ==
    \A i \in DOMAIN transactions :
        LET row == transactions[i]
        IN /\ row.pos \in 1..offset[row.part]
           /\ row.event = topic[row.part][row.pos]

\* The rows of one partition are inserted in the order of the topic, across any
\* number of failures, rebalances, shutdowns and crashes.
RowsInOffsetOrder ==
    \A i, j \in DOMAIN transactions :
        i < j /\ transactions[i].part = transactions[j].part
            => transactions[i].pos <= transactions[j].pos

\* No restart, rebalance or lost answer makes the group read from further back.
OffsetsNeverRewind ==
    [][\A p \in Partition : offset'[p] >= offset[p]]_vars

\* Each message the consumer skips and each row it inserts twice is paid for by
\* a fault of its own: one fault never costs two messages.
OneMessagePerFault ==
    Cardinality(Lost) + Len(transactions) - Cardinality(Stored) <= faults

\* VIOLATED.  consumer.go logs "transaction successfully saved" for a message
\* that has a row.
SavedMeansStored == reported \subseteq Stored
=============================================================================
