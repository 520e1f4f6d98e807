--------------------------- MODULE PipelineProofs ---------------------------
(***************************************************************************)
(* Proofs about the whole way from a log on the chain to a row of the      *)
(* table, for any contracts, partitions, plans, prices, attempts and       *)
(* faults.  What is proved of the pusher and of the consumer alone carries *)
(* over: each is the environment the other assumes.                        *)
(***************************************************************************)
EXTENDS Pipeline, PusherProofs, OrderProofs

CP == INSTANCE ConsumerProofs WITH hand <- taken

\* The messages of the pusher are what the consumer takes.
LEMMA ConsumerAssumed == CP!ConsumerAssumption
  <1>1. ASSUME NEW m \in Message  PROVE m.price \in Nat
    <2>1. Price \subseteq Nat
      BY PusherAssumption DEF PusherAssumption
    <2>2. m.price \in Price \cup {0}
      BY DEF Message
    <2>3. Price \cup {0} \subseteq Nat
      BY <2>1
    <2> QED  BY <2>2, <2>3, Zenon
  <1> QED  BY <1>1, PipelineAssumption DEF PipelineAssumption, CP!ConsumerAssumption

-----------------------------------------------------------------------------
(* Each part in the composition                                            *)

\* Whatever the pusher does, the topic is only appended to.
LEMMA TopicOnlyGrows ==
    ASSUME IInv, IInv', Next
    PROVE  C!TopicGrows
  <1>1. topic \in [Partition -> Seq(Message)] /\ topic' \in [Partition -> Seq(Message)]
    BY DEF IInv, TypeOK
  <1>2. CASE UNCHANGED topic
    BY <1>1, <1>2 DEF C!TopicGrows
  <1>3. ASSUME NEW p \in Partition, NEW b \in Seq(Message),
               topic' = [topic EXCEPT ![p] = topic[p] \o b]
        PROVE  C!TopicGrows
    <2>1. ASSUME NEW q \in Partition
          PROVE  /\ Len(topic[q]) <= Len(topic'[q])
                 /\ \A i \in 1..Len(topic[q]) : topic'[q][i] = topic[q][i]
      <3>1. CASE q = p
        <4>1. topic'[q] = topic[q] \o b
          BY <1>1, <1>3, <3>1
        <4> QED  BY <1>1, <4>1
      <3>2. CASE q # p
        BY <1>1, <1>3, <3>2
      <3> QED  BY <3>1, <3>2
    <2> QED  BY <1>1, <2>1 DEF C!TopicGrows
  <1>4. ASSUME NEW p \in Partition, Send(p)  PROVE C!TopicGrows
    <2>1. PICK n \in 1..Len(queue[p]) :
            SendAcked(p, n) \/ SendRetried(p, n) \/ SendAbandoned(p, n)
      BY <1>4 DEF Send
    <2>2. UNCHANGED <<topic, late>> \/ Appended(p, n) \/ Delayed(p, n)
      BY <2>1 DEF SendAcked, SendRetried, SendAbandoned
    <2>3. queue[p] \in Seq(Message)
      BY DEF IInv, TypeOK
    <2>4. Batch(p, n) \in Seq(Message)
      BY <2>3 DEF Batch
    <2>5. CASE Appended(p, n)
      BY <1>3, <2>4, <2>5 DEF Appended
    <2>6. CASE UNCHANGED <<topic, late>> \/ Delayed(p, n)
      BY <1>2, <2>6 DEF Delayed
    <2> QED  BY <2>2, <2>5, <2>6
  <1>5. ASSUME NEW r \in late, LateAppend(r)  PROVE C!TopicGrows
    <2>1. r.part \in Partition /\ r.batch \in Seq(Message)
      BY DEF IInv, TypeOK, Request
    <2> QED  BY <1>3, <1>5, <2>1 DEF LateAppend
  <1>6. CASE ChainNext
    BY <1>2, <1>6 DEF ChainNext, EmitLog, UpdatePlan, Revert, Disconnect, writerVars
  <1>7. ASSUME NEW l \in Listener, ListenerNext(l)  PROVE UNCHANGED topic
    BY <1>7 DEF ListenerNext, SubscribeOk, SubscribeFail, Wake, ListenErr, ListenDone,
       ListenLog, PlanOk, PlanFail, WriteEnqueue, WriteReject, AwaitCancel, writerVars
  <1>8. CASE Stop \/ Shutdown \/ Kill \/ Restart
    BY <1>2, <1>8
    DEF Stop, Shutdown, CloseClient, CloseWriter, Exit, Kill, Restart, writerVars
  <1> QED  BY <1>2, <1>4, <1>5, <1>6, <1>7, <1>8 DEF Next

\* A reader's step leaves the topic alone.
LEMMA ReaderLeavesTopic == C!ReaderNext => UNCHANGED topic
  BY DEF C!ReaderNext, C!MustRun, C!ReadMessage, C!ReadFails, C!Store, C!ProcessFails,
         C!CloseReader, C!CloseStorage, C!Exit, C!Restart

\* Next to the consumer the pusher behaves as it does alone: its specification
\* holds of the composition, and with it every theorem about it.
THEOREM PusherInPipeline == PipelineSpec => Spec
  <1>1. PipelineInit => Init
    BY DEF PipelineInit
  <1>2. [PipelineNext]_pipelineVars => [Next]_vars
    <2>1. ConsumerStep => UNCHANGED vars
      BY ReaderLeavesTopic
      DEF ConsumerStep, vars, listenerVars, writerVars
    <2>2. UNCHANGED pipelineVars => UNCHANGED vars
      BY DEF pipelineVars
    <2> QED  BY <2>1, <2>2 DEF PipelineNext, PusherStep
  <1> QED  BY <1>1, <1>2, PTL DEF PipelineSpec, Spec

\* What is proved of the pusher alone holds in the composition.
LEMMA PusherInvariants ==
    PipelineSpec => [](IInv /\ TrackInv /\ OrderInv /\ CopiesInv)
  BY PusherInPipeline, Invariance, TrackInvariance, OrderInvariance, PTL

\* The pusher only appends to the topic, which is all the consumer assumes: the
\* consumer's specification holds of the composition, and with it every theorem
\* about the consumer.
THEOREM ConsumerInPipeline == PipelineSpec => C!Spec
  <1>1. PipelineInit => C!Init
    BY DEF PipelineInit
  <1>2. IInv /\ IInv' /\ [PipelineNext]_pipelineVars => [C!Next]_(C!vars)
    <2> SUFFICES ASSUME IInv, IInv', [PipelineNext]_pipelineVars
                 PROVE  [C!Next]_(C!vars)
      OBVIOUS
    <2>1. CASE PusherStep
      BY <2>1, TopicOnlyGrows
      DEF PusherStep, C!Next, C!Environment, readerVars, C!readerVars
    <2>2. CASE ConsumerStep
      BY <2>2 DEF ConsumerStep, C!Next
    <2>3. CASE UNCHANGED pipelineVars
      BY <2>3 DEF pipelineVars, vars, writerVars, readerVars, C!vars, C!readerVars
    <2> QED  BY <2>1, <2>2, <2>3 DEF PipelineNext
  <1> QED  BY <1>1, <1>2, PusherInvariants, PTL DEF PipelineSpec, C!Spec

\* C is the consumer as the proofs of ConsumerProofs know it.
LEMMA SameReader == C!ReaderNext => CP!ReaderNext
  BY DEF C!ReaderNext, CP!ReaderNext, C!MustRun, CP!MustRun,
         C!ReadMessage, CP!ReadMessage, C!Advance, CP!Advance,
         C!ReadFails, CP!ReadFails, C!Store, CP!Store, C!Insert, CP!Insert,
         C!Insertable, CP!Insertable, C!SupportedTitles, CP!SupportedTitles,
         C!MessageAt, CP!MessageAt, C!ProcessFails, CP!ProcessFails,
         C!CloseReader, CP!CloseReader, C!CloseStorage, CP!CloseStorage,
         C!Exit, CP!Exit, C!Restart, CP!Restart

\* Hence a behaviour of the one is a behaviour of the other.
LEMMA SameConsumer == C!Spec => CP!Spec
  <1>1. C!Init => CP!Init
    BY DEF C!Init, CP!Init
  <1>2. [C!Next]_(C!vars) => [CP!Next]_(CP!vars)
    BY SameReader
    DEF C!Next, CP!Next, C!vars, CP!vars, C!readerVars, CP!readerVars,
        C!Environment, CP!Environment, C!TopicGrows, CP!TopicGrows
  <1> QED  BY <1>1, <1>2, PTL DEF C!Spec, CP!Spec

\* What the consumer lost is the same for both.
LEMMA SameLost == C!Lost = CP!Lost
  BY DEF C!Lost, CP!Lost, C!Committed, CP!Committed, C!Max, CP!Max,
         C!Stored, CP!Stored, C!InHand, CP!InHand

\* Sets are counted there as here.
LEMMA SameCounts ==
    /\ \A S : CP!Cardinality(S) = Cardinality(S)
    /\ \A S : CP!IsFiniteSet(S) <=> IsFiniteSet(S)
  <1>1. \A S : CP!Cardinality(S) = Cardinality(S)
    BY DEF CP!Cardinality, Cardinality
  <1>2. \A S : CP!IsFiniteSet(S) <=> IsFiniteSet(S)
    BY Zenon DEF CP!IsFiniteSet, IsFiniteSet
  <1> QED  BY <1>1, <1>2

\* What is proved of the consumer alone holds in the composition.
LEMMA ConsumerInvariants ==
    PipelineSpec => [](CP!IInv /\ CP!LossInv /\ CP!OneMessagePerFault)
  <1>1. CP!Spec => []CP!IInv
    BY CP!Invariance, ConsumerAssumed
  <1>2. CP!Spec => []CP!LossInv
    BY CP!LossInvariance, ConsumerAssumed
  <1>3. CP!Spec => []CP!OneMessagePerFault
    BY CP!FaultsPay, ConsumerAssumed
  <1> QED  BY <1>1, <1>2, <1>3, ConsumerInPipeline, SameConsumer, PTL

-----------------------------------------------------------------------------
(* Counting rows                                                           *)

\* What f makes of the elements of S.
Image(f, S) == {f[i] : i \in S}

\* The image of a finite set is finite and no larger.
LEMMA ImageIsSmaller ==
    ASSUME NEW D, IsFiniteSet(D), NEW X, NEW f \in [D -> X], NEW S, S \subseteq D
    PROVE  /\ IsFiniteSet(S) /\ IsFiniteSet(Image(f, S))
           /\ Cardinality(S) \in Nat /\ Cardinality(Image(f, S)) \in Nat
           /\ Cardinality(Image(f, S)) <= Cardinality(S)
  <1> DEFINE g == [i \in S |-> f[i]]
             T == Image(f, S)
  <1>1. IsFiniteSet(S)
    BY FS_Subset
  <1>2. g \in Surjection(S, T)
    BY DEF Image, Surjection
  <1>3. IsFiniteSet(T) /\ Cardinality(T) <= Cardinality(S)
    BY <1>1, <1>2, FS_Surjection
  <1> HIDE DEF T
  <1>4. Cardinality(S) \in Nat /\ Cardinality(T) \in Nat
    BY <1>1, <1>3, FS_CardinalityType
  <1> QED  BY <1>1, <1>3, <1>4 DEF T

\* What a part of the rows repeats, all rows together repeat.
LEMMA PartRepeatsLess ==
    ASSUME NEW D, IsFiniteSet(D), NEW X, NEW f \in [D -> X], NEW S, S \subseteq D
    PROVE  Cardinality(S) - Cardinality(Image(f, S))
             <= Cardinality(D) - Cardinality(Image(f, D))
  <1> DEFINE R == D \ S
             A == Image(f, S)
             B == Image(f, R)
             E == Image(f, D)
  <1>1. /\ IsFiniteSet(S) /\ IsFiniteSet(A)
        /\ Cardinality(S) \in Nat /\ Cardinality(A) \in Nat
    BY ImageIsSmaller
  <1>2. /\ IsFiniteSet(R) /\ IsFiniteSet(B)
        /\ Cardinality(R) \in Nat /\ Cardinality(B) \in Nat
        /\ Cardinality(B) <= Cardinality(R)
    BY ImageIsSmaller
  <1>3. /\ IsFiniteSet(E)
        /\ Cardinality(D) \in Nat /\ Cardinality(E) \in Nat
    BY ImageIsSmaller
  <1>4. Cardinality(R) = Cardinality(D) - Cardinality(S)
    <2>1. D \cap S = S
      OBVIOUS
    <2> QED  BY <2>1, FS_Difference
  <1>5. E = A \cup B
    BY DEF Image
  <1> HIDE DEF R, A, B, E
  <1>6. Cardinality(E) = Cardinality(A) + Cardinality(B) - Cardinality(A \cap B)
    BY <1>1, <1>2, <1>5, FS_Union
  <1>7. Cardinality(A \cap B) \in Nat
    BY <1>1, FS_Intersection, FS_CardinalityType
  <1>8. Cardinality(S) - Cardinality(A) <= Cardinality(D) - Cardinality(E)
    BY <1>1, <1>2, <1>3, <1>4, <1>6, <1>7
  <1> QED  BY <1>8 DEF A, E

\* The coordinates of each row.
Coordinates == [k \in DOMAIN transactions |-> <<transactions[k].part, transactions[k].pos>>]

\* What a coordinate of the consumer is, where it is made.
LEMMA CoordinatesAre ==
    ASSUME CP!IInv
    PROVE  /\ DOMAIN transactions = 1..Len(transactions)
           /\ IsFiniteSet(DOMAIN transactions)
           /\ Cardinality(DOMAIN transactions) = Len(transactions)
           /\ Len(transactions) \in Nat
           /\ Coordinates \in [DOMAIN transactions -> CP!Stored]
           /\ Image(Coordinates, DOMAIN transactions) = CP!Stored
  <1>1. DOMAIN transactions = 1..Len(transactions) /\ Len(transactions) \in Nat
    BY DEF CP!IInv, CP!TypeOK
  <1>2. /\ IsFiniteSet(1..Len(transactions))
        /\ Cardinality(1..Len(transactions)) = Len(transactions)
    <2>1. 1 \in Int /\ Len(transactions) \in Int
      BY <1>1
    <2>2. /\ IsFiniteSet(1..Len(transactions))
          /\ Cardinality(1..Len(transactions)) =
               IF 1 > Len(transactions) THEN 0 ELSE Len(transactions) - 1 + 1
      BY <2>1, FS_Interval
    <2> QED  BY <1>1, <2>2
  <1>3. /\ Coordinates \in [DOMAIN transactions -> CP!Stored]
        /\ Image(Coordinates, DOMAIN transactions) = CP!Stored
    BY DEF Image, Coordinates, CP!Stored
  <1> QED  BY <1>1, <1>2, <1>3

\* The table has a row for each message that is stored.
LEMMA StoredAtMostOnceEach ==
    ASSUME CP!IInv
    PROVE  /\ Cardinality(CP!Stored) \in Nat
           /\ Cardinality(CP!Stored) <= Len(transactions)
  <1> DEFINE D == DOMAIN transactions
  <1>1. /\ IsFiniteSet(D) /\ Cardinality(D) = Len(transactions)
        /\ Coordinates \in [D -> CP!Stored]
        /\ Image(Coordinates, D) = CP!Stored
    BY CoordinatesAre
  <1> HIDE DEF D
  <1>2. /\ Cardinality(Image(Coordinates, D)) \in Nat
        /\ Cardinality(Image(Coordinates, D)) <= Cardinality(D)
    BY <1>1, ImageIsSmaller
  <1> QED  BY <1>1, <1>2

\* The accounts of the consumer, as proved of it alone.
LEMMA AccountsBalance ==
    ASSUME CP!IInv, CP!LossInv, CP!OneMessagePerFault
    PROVE  /\ IsFiniteSet(CP!Lost)
           /\ Cardinality(CP!Lost) \in Nat /\ faults \in Nat
           /\ Cardinality(CP!Lost) + (Len(transactions) - Cardinality(CP!Stored)) <= faults
  <1>1. CP!IsFiniteSet(CP!Lost)
    BY CP!Balance, ConsumerAssumed
  <1>2. IsFiniteSet(CP!Lost)
    BY <1>1, SameCounts
  <1>3. Cardinality(CP!Lost) \in Nat
    BY <1>2, FS_CardinalityType
  <1>4. faults \in Nat
    BY DEF CP!IInv, CP!TypeOK
  <1>5. Cardinality(CP!Lost) + Len(transactions) - Cardinality(CP!Stored) <= faults
    BY SameCounts DEF CP!OneMessagePerFault
  <1>6. Cardinality(CP!Stored) \in Nat /\ Len(transactions) \in Nat
    BY StoredAtMostOnceEach, CoordinatesAre
  <1> QED  BY <1>2, <1>3, <1>4, <1>5, <1>6

-----------------------------------------------------------------------------
(* Nothing is lost without a fault                                         *)

\* A row of the consumer stands for the message at its coordinates.
LEMMA RowsAreOfTopic ==
    ASSUME CP!IInv, IInv, NEW k \in DOMAIN transactions
    PROVE  /\ transactions[k].part \in Partition
           /\ transactions[k].pos \in Nat \ {0}
           /\ transactions[k].pos \in DOMAIN topic[transactions[k].part]
           /\ transactions[k].event = topic[transactions[k].part][transactions[k].pos]
           /\ transactions[k].event \in Message
  <1>1. transactions[k] \in CP!Row
    BY DEF CP!IInv, CP!TypeOK
  <1>2. /\ transactions[k].part \in Partition
        /\ transactions[k].event \in Message
    BY <1>1 DEF CP!Row
  <1>3. /\ transactions[k].pos \in 1..offset[transactions[k].part]
        /\ transactions[k].event = topic[transactions[k].part][transactions[k].pos]
    BY DEF CP!IInv, CP!RowsAreCommittedMessages
  <1>4. /\ offset[transactions[k].part] \in Nat
        /\ offset[transactions[k].part] <= Len(topic[transactions[k].part])
    BY <1>2 DEF CP!IInv, CP!TypeOK, CP!SessionInv
  <1>5. /\ DOMAIN topic[transactions[k].part] = 1..Len(topic[transactions[k].part])
        /\ Len(topic[transactions[k].part]) \in Nat
    BY <1>2 DEF IInv, TypeOK
  <1> QED  BY <1>2, <1>3, <1>4, <1>5

\* A message that has left the pusher and is not in the table is unread, in the
\* consumer's hand or lost by the consumer.
LEMMA LeftIsLost ==
    ASSUME IInv, CP!IInv, CP!LossInv,
           NEW p \in Partition, NEW i \in DOMAIN topic[p],
           DeliveryOf(topic[p][i]) \notin OnTheWay \cup Stored
    PROVE  <<p, i>> \in CP!Lost
  <1>1. CP!Committed = {c \in Partition \X (Nat \ {0}) : c[2] <= offset[c[1]]}
    BY CP!CommittedIs, ConsumerAssumed DEF CP!IInv, CP!LossInv
  <1>2. /\ DOMAIN topic[p] = 1..Len(topic[p]) /\ Len(topic[p]) \in Nat
        /\ offset[p] \in Nat
    BY DEF IInv, TypeOK, CP!IInv, CP!TypeOK
  <1>3. i <= offset[p]
    <2>1. i \notin (offset[p] + 1)..Len(topic[p])
      BY DEF OnTheWay, Unread
    <2> QED  BY <1>2, <2>1
  <1>4. <<p, i>> \in CP!Committed
    BY <1>1, <1>2, <1>3
  <1>5. <<p, i>> \notin CP!InHand
    BY DEF OnTheWay, C!InHand, CP!InHand
  <1>6. <<p, i>> \notin CP!Stored
    <2> SUFFICES ASSUME NEW k \in DOMAIN transactions,
                        transactions[k].part = p, transactions[k].pos = i
                 PROVE  FALSE
      BY DEF CP!Stored
    <2>1. transactions[k].event = topic[p][i]
      BY RowsAreOfTopic
    <2>2. DeliveryOf(topic[p][i]) \in Stored
      BY <2>1 DEF Stored, Rows
    <2> QED  BY <2>2
  <1> QED  BY <1>4, <1>5, <1>6 DEF CP!Lost

\* Of the logs the pusher was subscribed to, each one that is nowhere any more has
\* cost the consumer a fault of its own: two different logs have two messages, and
\* both are among the consumer's losses.
LEMMA VanishedArePaid ==
    ASSUME IInv, TrackInv, CP!IInv, CP!LossInv, CP!OneMessagePerFault
    PROVE  VanishedAreFaults
  <1> DEFINE V == Owed \ (OnTheWay \cup Stored \cup dropped)
             At(d, c) == DeliveryOf(topic[c[1]][c[2]]) = d
             f == [d \in V |-> CHOOSE c \in CP!Lost : At(d, c)]
  <1>1. ASSUME NEW d \in V  PROVE \E c \in CP!Lost : At(d, c)
    <2>1. d \in InTopic
      BY DEF TrackInv, NothingLostSilently, OnTheWay
    <2>2. PICK p \in Partition : \E m \in ToSet(topic[p]) : d = DeliveryOf(m)
      BY <2>1 DEF InTopic
    <2>3. PICK i \in DOMAIN topic[p] : d = DeliveryOf(topic[p][i])
      BY <2>2 DEF ToSet
    <2>4. <<p, i>> \in CP!Lost
      BY <2>3, LeftIsLost
    <2> QED  BY <2>3, <2>4
  <1>2. f \in [V -> CP!Lost] /\ \A d \in V : At(d, f[d])
    BY <1>1
  <1>3. f \in Injection(V, CP!Lost)
    BY <1>2 DEF Injection, IsInjective
  <1>4. /\ IsFiniteSet(CP!Lost)
        /\ Cardinality(CP!Lost) \in Nat /\ faults \in Nat
        /\ Cardinality(CP!Lost) + (Len(transactions) - Cardinality(CP!Stored)) <= faults
    BY AccountsBalance
  <1>5. Cardinality(CP!Stored) \in Nat /\ Cardinality(CP!Stored) <= Len(transactions)
    BY StoredAtMostOnceEach
  <1>6. IsFiniteSet(V) /\ Cardinality(V) <= Cardinality(CP!Lost)
    BY <1>3, <1>4, FS_Injection
  <1>7. Cardinality(V) \in Nat
    BY <1>6, FS_CardinalityType
  <1> HIDE DEF V
  <1>8. Cardinality(V) <= faults
    <2>1. Len(transactions) \in Nat
      BY CoordinatesAre
    <2> QED  BY <1>4, <1>5, <1>6, <1>7, <2>1
  <1> QED  BY <1>8 DEF V, VanishedAreFaults

\* From the subscription to the table, whichever process fails, restarts or
\* repeats, nothing vanishes but what a fault of the consumer costs, and no fault
\* costs a second log (runListener, Writer, ReadMessage, Process).
THEOREM NothingVanishes == PipelineSpec => []VanishedAreFaults
  <1>1. /\ IInv /\ TrackInv /\ OrderInv /\ CopiesInv
        /\ CP!IInv /\ CP!LossInv /\ CP!OneMessagePerFault
        => VanishedAreFaults
    BY VanishedArePaid
  <1> QED  BY <1>1, PusherInvariants, ConsumerInvariants, PTL

-----------------------------------------------------------------------------
(* The order of the rows                                                   *)

\* A message before one that has a row is stored already, or it is lost: the
\* consumer has nothing in its hand but the newest message it committed.
LEMMA EarlierIsSettled ==
    ASSUME IInv, CP!IInv, CP!LossInv, NEW i \in DOMAIN transactions,
           NEW k \in 1..(transactions[i].pos - 1)
    PROVE  \/ <<transactions[i].part, k>> \in CP!Lost
           \/ \E r \in 1..(i - 1) :
                /\ r \in DOMAIN transactions
                /\ transactions[r].part = transactions[i].part
                /\ transactions[r].pos = k
  <1> DEFINE p == transactions[i].part
             n == transactions[i].pos
  <1>1. p \in Partition /\ n \in Nat \ {0}
    BY RowsAreOfTopic
  <1>2. n <= offset[p] /\ offset[p] \in Nat
    BY <1>1 DEF CP!IInv, CP!TypeOK, CP!RowsAreCommittedMessages
  <1>3. k \in Nat \ {0} /\ k < n /\ k <= offset[p]
    BY <1>1, <1>2
  <1>4. <<p, k>> \in CP!Committed
    <2>1. CP!Committed = {c \in Partition \X (Nat \ {0}) : c[2] <= offset[c[1]]}
      BY CP!CommittedIs, ConsumerAssumed DEF CP!IInv, CP!LossInv
    <2> QED  BY <1>1, <1>3, <2>1
  <1>5. <<p, k>> \notin CP!InHand
    BY <1>1, <1>2, <1>3 DEF CP!InHand, CP!IInv, CP!SessionInv
  <1>6. ASSUME <<p, k>> \in CP!Stored
        PROVE  \E r \in 1..(i - 1) :
                 /\ r \in DOMAIN transactions
                 /\ transactions[r].part = p
                 /\ transactions[r].pos = k
    <2>1. PICK r \in DOMAIN transactions :
            transactions[r].part = p /\ transactions[r].pos = k
      BY <1>6 DEF CP!Stored
    <2>2. DOMAIN transactions = 1..Len(transactions) /\ Len(transactions) \in Nat
      BY CoordinatesAre
    <2>3. ~ i < r
      BY <1>1, <1>3, <2>1 DEF CP!IInv, CP!RowsInOffsetOrder
    <2>4. r # i
      BY <1>1, <1>3, <2>1
    <2>5. r \in 1..(i - 1)
      BY <2>2, <2>3, <2>4
    <2> QED  BY <2>1, <2>5
  <1> QED  BY <1>4, <1>5, <1>6 DEF CP!Lost

\* The order in Kafka and the order of the consumer make the order of the table.
LEMMA OrderOfRows ==
    ASSUME IInv, FirstCopiesInChainOrder, CP!IInv, CP!LossInv
    PROVE  RowsInChainOrder
  <1> SUFFICES ASSUME NEW i \in DOMAIN transactions, NEW j \in DOMAIN transactions,
                      i < j, transactions[i].part = transactions[j].part,
                      Rows[j].log < Rows[i].log,
                      ~ Rows[i].removed, ~ Rows[j].removed,
                      chain[Rows[i].log].contract = chain[Rows[j].log].contract
               PROVE  \/ \E k \in 1..(i - 1) : Rows[k] = Rows[j]
                      \/ \E c \in C!Lost : topic[c[1]][c[2]] = Rows[j]
                      \/ DeliveryOf(Rows[j]) \in dropped
    BY DEF RowsInChainOrder
  <1> DEFINE p == transactions[i].part
             m == transactions[i].pos
             n == transactions[j].pos
  <1>1. /\ p \in Partition
        /\ m \in DOMAIN topic[p] /\ Rows[i] = topic[p][m]
        /\ n \in DOMAIN topic[p] /\ Rows[j] = topic[p][n]
        /\ m \in Nat /\ n \in Nat
    BY RowsAreOfTopic DEF Rows
  <1>2. m < n
    <2>1. m <= n
      BY DEF CP!IInv, CP!RowsInOffsetOrder
    <2>2. Rows[i] \in Message
      BY RowsAreOfTopic DEF Rows
    <2>3. m # n
      BY <1>1, <2>2 DEF Message
    <2> QED  BY <1>1, <2>1, <2>3
  <1>6. CASE DeliveryOf(Rows[j]) \in dropped
    BY <1>6
  <1>7. CASE DeliveryOf(Rows[j]) \notin dropped
    <2>1. PICK k \in 1..(m - 1) : topic[p][k] = Rows[j]
      BY <1>1, <1>2, <1>7 DEF FirstCopiesInChainOrder
    <2>2. CASE <<p, k>> \in CP!Lost
      <3>1. C!Lost = CP!Lost
        BY SameLost
      <3> QED  BY <2>1, <2>2, <3>1
    <2>3. ASSUME NEW x \in 1..(i - 1), x \in DOMAIN transactions,
                 transactions[x].part = p, transactions[x].pos = k
          PROVE  Rows[x] = Rows[j]
      BY <2>1, <2>3, RowsAreOfTopic DEF Rows
    <2> QED  BY <2>2, <2>3, EarlierIsSettled
  <1> QED  BY <1>6, <1>7

\* The table has the logs of one contract in the order of the chain, up to the
\* repetitions of the writer, what faults cost and what the pusher had given up
\* (runListener, Writer, ReadMessage, Process).
THEOREM TableInChainOrder == PipelineSpec => []RowsInChainOrder
  <1>1. /\ IInv /\ TrackInv /\ OrderInv /\ CopiesInv
        /\ CP!IInv /\ CP!LossInv /\ CP!OneMessagePerFault
        => RowsInChainOrder
    BY OrderOfRows DEF OrderInv
  <1> QED  BY <1>1, PusherInvariants, ConsumerInvariants, PTL

-----------------------------------------------------------------------------
(* The rows of one delivery                                                *)

RowsOf(d) == {k \in DOMAIN transactions : DeliveryOf(transactions[k].event) = d}

\* A delivery has at most as many rows as the writer has attempts, and one more
\* for each fault of the consumer.
FewRows == \A d \in Delivery : Cardinality(RowsOf(d)) <= MaxAttempts + faults

\* The copies in the topic and what the consumer stored twice add up.
LEMMA RowsAreFew ==
    ASSUME IInv, CopiesInv, CP!IInv, CP!LossInv, CP!OneMessagePerFault
    PROVE  FewRows
  <1> SUFFICES ASSUME NEW d \in Delivery
               PROVE  Cardinality(RowsOf(d)) <= MaxAttempts + faults
    BY DEF FewRows
  <1> DEFINE D == DOMAIN transactions
             S == RowsOf(d)
             T == Image(Coordinates, S)
  <1>1. /\ IsFiniteSet(D) /\ Cardinality(D) = Len(transactions)
        /\ Len(transactions) \in Nat
        /\ Coordinates \in [D -> CP!Stored]
        /\ Image(Coordinates, D) = CP!Stored
    BY CoordinatesAre
  <1>2. S \subseteq D
    BY DEF RowsOf
  <1>3. T \subseteq Places(topic, d)
    <2> SUFFICES ASSUME NEW k \in S
                 PROVE  Coordinates[k] \in Places(topic, d)
      BY DEF Image
    <2>1. /\ k \in DOMAIN transactions
          /\ DeliveryOf(transactions[k].event) = d
      BY DEF RowsOf
    <2>2. Coordinates[k] = <<transactions[k].part, transactions[k].pos>>
      BY <2>1 DEF Coordinates
    <2>3. /\ transactions[k].part \in Partition
          /\ transactions[k].pos \in Nat \ {0}
          /\ transactions[k].pos \in DOMAIN topic[transactions[k].part]
          /\ transactions[k].event = topic[transactions[k].part][transactions[k].pos]
      BY <2>1, RowsAreOfTopic
    <2> QED  BY <2>1, <2>2, <2>3 DEF Places
  <1>4. IsFiniteSet(Places(topic, d)) /\ Cardinality(Places(topic, d)) <= MaxAttempts
    <2>1. /\ CopiesOf(topic, late, d) <= MaxAttempts
          /\ Cardinality(Places(topic, d)) \in Nat /\ Cardinality(LateOf(late, d)) \in Nat
          /\ IsFiniteSet(Places(topic, d))
      BY CopiesNat
    <2> QED  BY <2>1, PusherAssumption DEF CopiesOf, PusherAssumption
  <1>5. /\ Cardinality(T) \in Nat /\ Cardinality(Places(topic, d)) \in Nat
        /\ Cardinality(T) <= Cardinality(Places(topic, d))
    <2>1. IsFiniteSet(T) /\ Cardinality(T) <= Cardinality(Places(topic, d))
      BY <1>3, <1>4, FS_Subset
    <2> HIDE DEF T
    <2> QED  BY <1>4, <2>1, FS_CardinalityType
  <1> HIDE DEF D, S, T
  <1>6. Cardinality(S) - Cardinality(T) <= Len(transactions) - Cardinality(CP!Stored)
    <2>1. Cardinality(S) - Cardinality(Image(Coordinates, S))
            <= Cardinality(D) - Cardinality(Image(Coordinates, D))
      BY <1>1, <1>2, PartRepeatsLess
    <2> QED  BY <1>1, <2>1 DEF T
  <1>7. Cardinality(S) \in Nat
    BY <1>1, <1>2, ImageIsSmaller
  <1>8. /\ Cardinality(CP!Lost) \in Nat /\ faults \in Nat
        /\ Cardinality(CP!Lost) + (Len(transactions) - Cardinality(CP!Stored)) <= faults
        /\ Cardinality(CP!Stored) \in Nat
    BY AccountsBalance, StoredAtMostOnceEach
  <1>9. MaxAttempts \in Nat
    BY PusherAssumption DEF PusherAssumption
  <1>10. Cardinality(S) <= MaxAttempts + faults
    BY <1>1, <1>4, <1>5, <1>6, <1>7, <1>8, <1>9
  <1> QED  BY <1>10 DEF S

\* Hence it holds in every reachable state.
LEMMA RowsStayFew == PipelineSpec => []FewRows
  <1>1. /\ IInv /\ TrackInv /\ OrderInv /\ CopiesInv
        /\ CP!IInv /\ CP!LossInv /\ CP!OneMessagePerFault
        => FewRows
    BY RowsAreFew
  <1> QED  BY <1>1, PusherInvariants, ConsumerInvariants, PTL

-----------------------------------------------------------------------------
(* The pipeline implements the table of TransactionFeed                    *)

\* A sequence that only had elements added is a prefix of what it became.
LEMMA PrefixOf ==
    ASSUME NEW S, NEW s \in Seq(S), NEW t \in Seq(S), Len(s) <= Len(t),
           \A i \in 1..Len(s) : t[i] = s[i]
    PROVE  Feed!IsPrefix(s, t)
  <1>1. Len(s) \in Nat /\ Len(t) \in Nat
    OBVIOUS
  <1>2. /\ SubSeq(s, 1, Len(s)) \in Seq(S) /\ SubSeq(t, 1, Len(s)) \in Seq(S)
        /\ Len(SubSeq(s, 1, Len(s))) = Len(s) /\ Len(SubSeq(t, 1, Len(s))) = Len(s)
        /\ \A i \in 1..Len(s) : /\ SubSeq(s, 1, Len(s))[i] = s[i]
                                /\ SubSeq(t, 1, Len(s))[i] = t[i]
    BY <1>1
  <1>3. SubSeq(s, 1, Len(s)) = SubSeq(t, 1, Len(s))
    BY <1>2, SeqEqual
  <1> QED  BY <1>3 DEF Feed!IsPrefix

\* A step of the pusher lets the chain and the prices only grow.
LEMMA ChainOnlyGrows ==
    ASSUME IInv, IInv', Next
    PROVE  ChainGrows
  <1>1. /\ chain \in Seq(Log) /\ prices \in [Plan -> Seq(Price)]
        /\ chain' \in Seq(Log) /\ prices' \in [Plan -> Seq(Price)]
    BY DEF IInv, TypeOK
  <1>2. CASE UNCHANGED chainVars
    BY <1>1, <1>2 DEF ChainGrows, chainVars
  <1>3. ASSUME NEW l \in Listener, NEW title, NEW plan, NEW amount,
               EmitLog(l, title, plan, amount)
        PROVE  ChainGrows
    <2>1. PICK log : chain' = Append(chain, log)
      BY <1>3 DEF EmitLog
    <2>2. UNCHANGED <<reverted, prices>>
      BY <1>3 DEF EmitLog
    <2>3. /\ Len(chain) <= Len(chain')
          /\ \A i \in 1..Len(chain) : chain'[i] = chain[i]
      BY <1>1, <2>1
    <2> QED  BY <1>1, <2>2, <2>3 DEF ChainGrows
  <1>4. ASSUME NEW plan \in Plan, NEW x \in Price, UpdatePlan(plan, x)
        PROVE  ChainGrows
    <2>1. /\ prices' = [prices EXCEPT ![plan] = Append(@, x)]
          /\ UNCHANGED <<chain, reverted>>
      BY <1>4 DEF UpdatePlan
    <2> QED  BY <1>1, <2>1 DEF ChainGrows
  <1>5. ASSUME NEW i \in DOMAIN chain, Revert(i)  PROVE ChainGrows
    <2>1. reverted \subseteq reverted' /\ UNCHANGED <<chain, prices>>
      BY <1>5 DEF Revert
    <2> QED  BY <1>1, <2>1 DEF ChainGrows
  <1>6. CASE ChainNext
    BY <1>2, <1>3, <1>4, <1>5, <1>6 DEF ChainNext, Disconnect
  <1>7. ASSUME NEW l \in Listener, ListenerNext(l)  PROVE UNCHANGED chainVars
    BY <1>7 DEF ListenerNext, SubscribeOk, SubscribeFail, Wake, ListenErr, ListenDone,
       ListenLog, PlanOk, PlanFail, WriteEnqueue, WriteReject, AwaitCancel
  <1>8. ASSUME NEW p \in Partition, Send(p)  PROVE UNCHANGED chainVars
    BY <1>8 DEF Send, SendAcked, SendRetried, SendAbandoned
  <1>9. CASE Stop \/ Shutdown \/ Kill \/ Restart
    BY <1>2, <1>9 DEF Stop, Shutdown, CloseClient, CloseWriter, Exit, Kill, Restart
  <1>10. ASSUME NEW r \in late, LateAppend(r)  PROVE UNCHANGED chainVars
    BY <1>10 DEF LateAppend
  <1> QED  BY <1>2, <1>6, <1>7, <1>8, <1>9, <1>10 DEF Next

\* Sets are counted there as here.
LEMMA FeedCounts == \A S : Feed!Cardinality(S) = Cardinality(S)
  BY DEF Feed!Cardinality, Cardinality

\* The world of the table goes on in every step, and takes nothing back.
LEMMA HistoryGoesOn ==
    ASSUME IInv, IInv', ChainGrows, faults <= faults'
    PROVE  Feed!History
  <1>1. /\ chain \in Seq(Log) /\ prices \in [Plan -> Seq(Price)]
        /\ chain' \in Seq(Log) /\ prices' \in [Plan -> Seq(Price)]
    BY DEF IInv, TypeOK
  <1>2. Feed!IsPrefix(chain, chain')
    BY <1>1, PrefixOf DEF ChainGrows
  <1>3. ASSUME NEW plan \in Plan  PROVE Feed!IsPrefix(prices[plan], prices'[plan])
    BY <1>1, PrefixOf DEF ChainGrows
  <1> QED  BY <1>2, <1>3 DEF Feed!History, ChainGrows

\* The events in the table, by their places.
LEMMA RowsAre ==
    ASSUME CP!IInv
    PROVE  /\ Rows \in Seq(Message) /\ DOMAIN Rows = DOMAIN transactions
           /\ Len(Rows) = Len(transactions)
           /\ \A k \in DOMAIN transactions : Rows[k] = transactions[k].event
  <1>1. transactions \in Seq(CP!Row)
    BY DEF CP!IInv, CP!TypeOK
  <1>2. Len(transactions) \in Nat /\ DOMAIN transactions = 1..Len(transactions)
    BY <1>1
  <1>3. ASSUME NEW k \in DOMAIN transactions  PROVE transactions[k].event \in Message
    <2>1. transactions[k] \in CP!Row
      BY <1>1
    <2> QED  BY <2>1 DEF CP!Row
  <1>4. /\ DOMAIN Rows = DOMAIN transactions
        /\ \A k \in DOMAIN transactions : Rows[k] = transactions[k].event
    BY DEF Rows
  <1>5. Rows \in [1..Len(transactions) -> Message]
    BY <1>2, <1>3 DEF Rows
  <1>6. Rows \in Seq(Message) /\ Len(Rows) = Len(transactions)
    BY <1>2, <1>5
  <1> QED  BY <1>4, <1>6

\* The same after a step.
LEMMA RowsAreNext ==
    ASSUME CP!IInv'
    PROVE  /\ Rows' \in Seq(Message) /\ DOMAIN Rows' = DOMAIN transactions'
           /\ Len(Rows') = Len(transactions')
           /\ \A k \in DOMAIN transactions' : Rows'[k] = transactions'[k].event
  <1>1. transactions' \in Seq(CP!Row)
    BY DEF CP!IInv, CP!TypeOK, CP!Row
  <1>2. Len(transactions') \in Nat /\ DOMAIN transactions' = 1..Len(transactions')
    BY <1>1
  <1>3. ASSUME NEW k \in DOMAIN transactions'  PROVE transactions'[k].event \in Message
    <2>1. transactions'[k] \in CP!Row
      BY <1>1
    <2> QED  BY <2>1 DEF CP!Row
  <1>4. /\ DOMAIN Rows' = DOMAIN transactions'
        /\ \A k \in DOMAIN transactions' : Rows'[k] = transactions'[k].event
    BY DEF Rows
  <1>5. Rows' \in [1..Len(transactions') -> Message]
    BY <1>2, <1>3 DEF Rows
  <1>6. Rows' \in Seq(Message) /\ Len(Rows') = Len(transactions')
    BY <1>2, <1>5
  <1> QED  BY <1>4, <1>6

\* An INSERT adds one row, about an event that happened, and not once too often.
LEMMA InsertRecords ==
    ASSUME IInv, IInv', CP!IInv, CP!IInv', FewRows', ConsumerStep,
           reader = "processing", CP!Insert
    PROVE  Feed!Record
  <1> DEFINE m == topic[taken[1]][taken[2]]
             n == Len(transactions) + 1
  <1>1. m \in Message /\ Genuine(m)
    <2>1. /\ taken[1] \in Partition /\ taken[2] \in Nat /\ taken[2] >= 1
          /\ taken[2] = offset[taken[1]]
      BY DEF CP!IInv, CP!TypeOK, CP!SessionInv, CP!Coordinate
    <2>2. topic[taken[1]] \in Seq(Message) /\ taken[2] <= Len(topic[taken[1]])
      BY <2>1 DEF IInv, TypeOK, CP!IInv, CP!SessionInv
    <2>3. taken[2] \in DOMAIN topic[taken[1]]
      BY <2>1, <2>2
    <2> QED  BY <2>1, <2>2, <2>3 DEF IInv, TopicIsGenuine, ToSet
  <1>2. m.price <= MaxPrice
    BY DEF CP!Insert, CP!Insertable, CP!MessageAt
  <1>3. transactions' = Append(transactions,
            [part |-> taken[1], pos |-> taken[2], event |-> m])
    BY DEF CP!Insert, CP!MessageAt
  <1>4. transactions \in Seq(CP!Row) /\ Len(transactions) \in Nat
    BY DEF CP!IInv, CP!TypeOK
  <1>5. /\ Len(transactions') = n /\ n \in DOMAIN transactions'
        /\ transactions'[n].event = m
        /\ \A k \in DOMAIN transactions : transactions'[k] = transactions[k]
        /\ DOMAIN transactions \subseteq DOMAIN transactions'
    BY <1>3, <1>4
  <1> HIDE DEF m, n
  <1>6. /\ Rows \in Seq(Message) /\ DOMAIN Rows = DOMAIN transactions
        /\ Len(Rows) = Len(transactions)
        /\ \A k \in DOMAIN transactions : Rows[k] = transactions[k].event
    BY RowsAre
  <1>7. /\ Rows' \in Seq(Message) /\ DOMAIN Rows' = DOMAIN transactions'
        /\ Len(Rows') = Len(transactions')
        /\ \A k \in DOMAIN transactions' : Rows'[k] = transactions'[k].event
    BY RowsAreNext
  <1>8. /\ Len(Rows') = Len(Rows) + 1
        /\ Feed!IsPrefix(Rows, Rows')
    <2>1. Len(Rows') = Len(Rows) + 1
      BY <1>5, <1>6, <1>7 DEF n
    <2>2. \A k \in 1..Len(Rows) : Rows'[k] = Rows[k]
      BY <1>5, <1>6, <1>7
    <2> QED  BY <1>4, <1>6, <1>7, <2>1, <2>2, PrefixOf
  <1>9. Feed!Newest' = m
    BY <1>5, <1>7 DEF Feed!Newest, Feed!Last
  <1>10. Feed!NewestHappened'
    <2>1. UNCHANGED <<chain, reverted, prices>>
      BY DEF ConsumerStep, chainVars
    <2>2. PICK w \in Message : w = m
      BY <1>1
    <2>3. /\ w.log \in DOMAIN chain /\ w.title = chain[w.log].title
          /\ w.title \in Handled(chain[w.log].contract)
          /\ w.removed => w.log \in reverted
          /\ w.price \in PricesSince(w.log)
      BY <1>1, <2>2 DEF Genuine
    <2>4. chain[w.log].contract \in Listener
      <3>1. chain \in Seq(Log)
        BY DEF IInv, TypeOK
      <3>2. chain[w.log] \in Log
        BY <2>3, <3>1
      <3> QED  BY <3>2 DEF Log
    <2>5. Feed!Newest' = w /\ w.price <= MaxPrice
      BY <1>2, <1>9, <2>2
    <2>6. PricesSince(w.log) = Feed!InForce(w.log)'
      BY <2>1 DEF PricesSince, Feed!InForce
    <2> QED  BY <2>1, <2>3, <2>4, <2>5, <2>6 DEF Feed!NewestHappened
  <1>11. Feed!NewestIsExcused'
    <2>1. PICK d : d = DeliveryOf(m)
      OBVIOUS
    <2>2. d \in Delivery
      BY <1>1, <2>1, DeliveryTyped
    <2>3. Feed!SameEvent' = RowsOf(d)'
      <3>1. Feed!SameEvent' = {k \in DOMAIN Rows' : Rows'[k].log = m.log
                                                  /\ Rows'[k].removed = m.removed}
        BY <1>9 DEF Feed!SameEvent
      <3>2. \A k \in DOMAIN transactions' :
              DeliveryOf(transactions'[k].event) = d
                <=> Rows'[k].log = m.log /\ Rows'[k].removed = m.removed
        BY <1>7, <2>1 DEF DeliveryOf
      <3>3. RowsOf(d)' = {k \in DOMAIN transactions' :
                            DeliveryOf(transactions'[k].event) = d}
        BY DEF RowsOf, DeliveryOf
      <3> QED  BY <1>7, <3>1, <3>2, <3>3
    <2>4. Cardinality(RowsOf(d)') <= MaxAttempts + faults'
      BY <2>2 DEF FewRows
    <2>5. Feed!Cardinality(Feed!SameEvent') = Cardinality(Feed!SameEvent')
      BY FeedCounts
    <2> QED  BY <2>3, <2>4, <2>5 DEF Feed!NewestIsExcused
  <1> QED  BY <1>8, <1>10, <1>11 DEF Feed!Record

\* Whatever the two processes and their environment do, the table is the one
\* TransactionFeed promises: rows are only added, about events that happened, with
\* prices in force since, and an event has more rows than the writer has attempts
\* only as often as the consumer met a fault.
THEOREM PipelineIsFeed == PipelineSpec => FeedSpec
  <1>1. PipelineInit => Feed!Init
    BY DEF PipelineInit, Init, C!Init, Feed!Init, Rows
  <1>2. /\ IInv /\ IInv' /\ CP!IInv /\ CP!IInv' /\ FewRows'
        /\ [PipelineNext]_pipelineVars
        => [Feed!Next]_(Feed!feedVars)
    <2> SUFFICES ASSUME IInv, IInv', CP!IInv, CP!IInv', FewRows',
                        [PipelineNext]_pipelineVars
                 PROVE  [Feed!Next]_(Feed!feedVars)
      OBVIOUS
    <2>1. CASE PusherStep
      <3>1. ChainGrows
        BY <2>1, ChainOnlyGrows DEF PusherStep
      <3>2. UNCHANGED <<transactions, faults>>
        BY <2>1 DEF PusherStep, readerVars
      <3>3. faults \in Nat
        BY DEF CP!IInv, CP!TypeOK
      <3>4. Feed!History
        BY <3>1, <3>2, <3>3, HistoryGoesOn
      <3> QED  BY <3>2, <3>4 DEF Feed!Next, Rows
    <2>2. CASE ConsumerStep
      <3>1. UNCHANGED chainVars
        BY <2>2 DEF ConsumerStep
      <3>2. ChainGrows
        BY <3>1 DEF ChainGrows, chainVars, IInv, TypeOK
      <3>3. CP!ReaderNext
        BY <2>2, SameReader DEF ConsumerStep
      <3>4. /\ faults <= faults'
            /\ UNCHANGED transactions \/ (reader = "processing" /\ CP!Insert)
        BY <3>3, CP!ReaderSteps, ConsumerAssumed
      <3>5. Feed!History
        BY <3>2, <3>4, HistoryGoesOn
      <3>6. CASE UNCHANGED transactions
        BY <3>5, <3>6 DEF Feed!Next, Rows
      <3>7. CASE reader = "processing" /\ CP!Insert
        BY <2>2, <3>5, <3>7, InsertRecords DEF Feed!Next
      <3> QED  BY <3>4, <3>6, <3>7
    <2>3. CASE UNCHANGED pipelineVars
      BY <2>3 DEF pipelineVars, vars, chainVars, readerVars, Feed!feedVars, Rows
    <2> QED  BY <2>1, <2>2, <2>3 DEF PipelineNext
  <1> QED
    BY <1>1, <1>2, PusherInvariants, ConsumerInvariants, RowsStayFew, PTL
    DEF PipelineSpec, FeedSpec, Feed!Spec
=============================================================================
