--------------------------- MODULE ConsumerProofs ---------------------------
(***************************************************************************)
(* Proofs about the consumer for any partitions, messages and number of    *)
(* faults, with any topic that is only appended to.                        *)
(***************************************************************************)
EXTENDS Consumer, FiniteSetTheorems, TLAPS

\* The committed offset leads the session by at most the message in hand, and a
\* message is processed exactly when its offset is the last one committed.
SessionInv ==
    /\ \A p \in Partition :
         /\ position[p] <= offset[p] /\ offset[p] <= position[p] + 1
         /\ offset[p] <= Len(topic[p])
    /\ reader = "processing" =>
         hand[2] >= 1 /\ hand[2] = offset[hand[1]]

IInv ==
    /\ TypeOK
    /\ SessionInv
    /\ RowsAreCommittedMessages
    /\ RowsInOffsetOrder

-----------------------------------------------------------------------------
(* Lemmas on the operators the steps are built from                        *)

\* Committing the next offset keeps the types, moves one partition forward by
\* at most one message and never past the end of its log (Advance).
LEMMA AdvanceLemma ==
    ASSUME TypeOK, SessionInv, NEW p \in Partition, Advance(p)
    PROVE  /\ offset' \in [Partition -> Nat]
           /\ offset'[p] = position[p] + 1
           /\ \A q \in Partition : q # p => offset'[q] = offset[q]
           /\ \A q \in Partition :
                offset[q] <= offset'[q] /\ offset'[q] <= Len(topic[q])
  BY DEF TypeOK, SessionInv, Advance

\* A call that may have committed leaves the session at most one behind.
LEMMA CommitLemma ==
    ASSUME TypeOK, SessionInv,
           UNCHANGED offset \/ \E p \in Partition : Advance(p)
    PROVE  /\ offset' \in [Partition -> Nat]
           /\ \A q \in Partition : /\ offset[q] <= offset'[q]
                                   /\ offset'[q] <= position[q] + 1
                                   /\ offset'[q] <= Len(topic[q])
  <1>1. CASE UNCHANGED offset
    BY <1>1 DEF TypeOK, SessionInv
  <1>2. ASSUME NEW p \in Partition, Advance(p)
        PROVE  /\ offset' \in [Partition -> Nat]
               /\ \A q \in Partition : /\ offset[q] <= offset'[q]
                                       /\ offset'[q] <= position[q] + 1
                                       /\ offset'[q] <= Len(topic[q])
    <2>1. /\ offset' \in [Partition -> Nat]
          /\ offset'[p] = position[p] + 1
          /\ \A q \in Partition : q # p => offset'[q] = offset[q]
          /\ \A q \in Partition :
               offset[q] <= offset'[q] /\ offset'[q] <= Len(topic[q])
      BY <1>2, AdvanceLemma
    <2> QED  BY <2>1 DEF SessionInv
  <1> QED  BY <1>1, <1>2

\* Rows stay rows of committed messages when offsets only grow and neither the
\* table nor the topic changes.
LEMMA RowsKept ==
    ASSUME IInv, offset' \in [Partition -> Nat],
           \A q \in Partition : offset[q] <= offset'[q],
           UNCHANGED <<topic, transactions>>
    PROVE  RowsAreCommittedMessages' /\ RowsInOffsetOrder'
  <1>0. \A i \in DOMAIN transactions : transactions[i] \in Row
    BY DEF IInv, TypeOK
  <1>1. \A i \in DOMAIN transactions :
          /\ transactions[i].part \in Partition
          /\ transactions[i].pos \in 1..offset[transactions[i].part]
    BY <1>0 DEF IInv, RowsAreCommittedMessages, Row
  <1>2. \A i \in DOMAIN transactions :
          transactions[i].pos \in 1..offset'[transactions[i].part]
    BY <1>1 DEF IInv, TypeOK
  <1>3. RowsAreCommittedMessages'
    BY <1>2 DEF IInv, RowsAreCommittedMessages
  <1>4. RowsInOffsetOrder'
    BY DEF IInv, RowsInOffsetOrder
  <1> QED  BY <1>3, <1>4

\* The row that Insert appends is of the last message committed on its
\* partition, so it comes last and the order of the rows is kept.
LEMMA InsertLemma ==
    ASSUME IInv, reader = "processing", Insert, UNCHANGED <<topic, offset>>
    PROVE  /\ transactions' \in Seq(Row)
           /\ RowsAreCommittedMessages'
           /\ RowsInOffsetOrder'
  <1> DEFINE row == [part |-> hand[1], pos |-> hand[2], event |-> MessageAt(hand)]
  <1>1. /\ hand[1] \in Partition /\ hand[2] \in Nat
        /\ hand[2] \in 1..Len(topic[hand[1]])
        /\ MessageAt(hand) \in Message
    BY DEF IInv, TypeOK, SessionInv, Coordinate, MessageAt
  <1>2. row \in Row
    BY <1>1 DEF Row
  <1>3. transactions' = Append(transactions, row)
    BY DEF Insert
  <1>4. transactions \in Seq(Row) /\ transactions' \in Seq(Row)
    BY <1>2, <1>3 DEF IInv, TypeOK
  <1>5. /\ Len(transactions') = Len(transactions) + 1
        /\ transactions'[Len(transactions) + 1] = row
        /\ \A i \in 1..Len(transactions) : transactions'[i] = transactions[i]
    BY <1>3, <1>4, <1>2
  <1>6. row.pos \in 1..offset[row.part] /\ row.event = topic[row.part][row.pos]
    BY <1>1 DEF IInv, TypeOK, SessionInv, MessageAt
  <1>7. RowsAreCommittedMessages'
    BY <1>4, <1>5, <1>6 DEF IInv, RowsAreCommittedMessages
  <1>8. RowsInOffsetOrder'
    <2> SUFFICES ASSUME NEW i \in DOMAIN transactions', NEW j \in DOMAIN transactions',
                        i < j, transactions'[i].part = transactions'[j].part
                 PROVE  transactions'[i].pos <= transactions'[j].pos
      BY DEF RowsInOffsetOrder
    <2>1. CASE j \in DOMAIN transactions
      BY <2>1, <1>4, <1>5 DEF IInv, RowsInOffsetOrder
    <2>2. CASE j = Len(transactions) + 1
      <3>1. i \in DOMAIN transactions /\ transactions'[i] = transactions[i]
        BY <2>2, <1>4, <1>5
      <3>2. transactions[i].pos \in 1..offset[row.part]
        BY <3>1, <2>2, <1>5 DEF IInv, RowsAreCommittedMessages
      <3>3. row.pos = offset[row.part] /\ offset[row.part] \in Nat
        BY <1>1 DEF IInv, TypeOK, SessionInv
      <3> QED  BY <3>1, <3>2, <3>3, <2>2, <1>5
    <2> QED  BY <2>1, <2>2, <1>4, <1>5
  <1> QED  BY <1>4, <1>7, <1>8

-----------------------------------------------------------------------------

\* The reader leaves the topic alone, never takes a fault back, and changes the
\* table only by the INSERT of the message in hand (Store, Exit).
LEMMA ReaderSteps ==
    ASSUME IInv, ReaderNext
    PROVE  /\ UNCHANGED topic
           /\ faults' \in Nat /\ faults <= faults'
           /\ UNCHANGED transactions \/ (reader = "processing" /\ Insert)
  <1> USE DEF ReaderNext, MustRun, ReadMessage, ReadFails, Store, ProcessFails,
              CloseReader, CloseStorage, Exit, Restart
  <1>1. UNCHANGED topic
    OBVIOUS
  <1>2. faults' = faults \/ faults' = faults + 1
    OBVIOUS
  <1>3. faults \in Nat
    BY DEF IInv, TypeOK
  <1>4. UNCHANGED transactions \/ (reader = "processing" /\ Insert)
    BY Zenon
  <1> QED  BY <1>1, <1>2, <1>3, <1>4

\* Init establishes the inductive invariant.
LEMMA InitInv == Init => IInv
  BY DEF Init, IInv, TypeOK, SessionInv, RowsAreCommittedMessages,
         RowsInOffsetOrder, Coordinate, Life, ReaderState

\* Every step of the reader, of main and of the environment keeps it.
LEMMA StepInv == IInv /\ [Next]_vars => IInv'
  <1> SUFFICES ASSUME IInv, [Next]_vars  PROVE IInv'
    OBVIOUS
  <1> USE DEF IInv
  <1>1. ASSUME NEW p \in Partition, ReadMessage(p)  PROVE IInv'
    <2>1. Advance(p) /\ UNCHANGED <<topic, transactions>>
      BY <1>1 DEF ReadMessage
    <2>2. /\ offset' \in [Partition -> Nat]
          /\ offset'[p] = position[p] + 1
          /\ \A q \in Partition : q # p => offset'[q] = offset[q]
          /\ \A q \in Partition :
               offset[q] <= offset'[q] /\ offset'[q] <= Len(topic[q])
      BY <2>1, AdvanceLemma
    <2>3. RowsAreCommittedMessages' /\ RowsInOffsetOrder'
      BY <2>1, <2>2, RowsKept
    <2>4. hand' = <<p, position[p] + 1>> /\ reader' = "processing"
      BY <1>1 DEF ReadMessage
    <2>5. /\ position' \in [Partition -> Nat]
          /\ position' = [position EXCEPT ![p] = @ + 1] \/ position' = offset
      <3>1. position' = [position EXCEPT ![p] = @ + 1] \/ position' = offset
        BY <1>1 DEF ReadMessage
      <3>2. CASE position' = [position EXCEPT ![p] = @ + 1]
        BY <3>2 DEF TypeOK
      <3>3. CASE position' = offset
        BY <3>3 DEF TypeOK
      <3> QED  BY <3>1, <3>2, <3>3
    <2>6. faults' \in Nat
      <3>1. faults' = faults \/ faults' = faults + 1
        BY <1>1 DEF ReadMessage
      <3> QED  BY <3>1 DEF TypeOK
    <2>7. TypeOK'
      <3>1. UNCHANGED <<topic, life, transactions, reported>>
        BY <1>1 DEF ReadMessage
      <3>2. hand' \in Coordinate
        BY <2>4 DEF TypeOK, Coordinate
      <3> QED  BY <2>2, <2>4, <2>5, <2>6, <3>1, <3>2 DEF TypeOK, ReaderState
    <2>8. SessionInv'
      <3>1. ASSUME NEW q \in Partition
            PROVE  /\ position'[q] <= offset'[q] /\ offset'[q] <= position'[q] + 1
                   /\ offset'[q] <= Len(topic'[q])
        <4>1. /\ offset[q] \in Nat /\ position[q] \in Nat /\ offset'[q] \in Nat
              /\ position[q] <= offset[q] /\ offset[q] <= position[q] + 1
          BY <2>2 DEF TypeOK, SessionInv
        <4>2. position'[q] = offset[q] \/ position'[q] = IF q = p THEN position[q] + 1
                                                                ELSE position[q]
          BY <2>5 DEF TypeOK
        <4>3. offset'[q] = IF q = p THEN position[q] + 1 ELSE offset[q]
          BY <2>2
        <4>4. offset'[q] <= Len(topic'[q])
          BY <2>1, <2>2
        <4> QED  BY <4>1, <4>2, <4>3, <4>4
      <3>2. hand'[2] >= 1 /\ hand'[2] = offset'[hand'[1]]
        BY <2>2, <2>4 DEF TypeOK
      <3> QED  BY <3>1, <3>2 DEF SessionInv
    <2> QED  BY <2>3, <2>7, <2>8
  <1>2. CASE ReadFails
    <2>1. \/ UNCHANGED offset
          \/ \E p \in Partition : Advance(p)
      BY <1>2 DEF ReadFails
    <2>2. /\ offset' \in [Partition -> Nat]
          /\ \A q \in Partition : /\ offset[q] <= offset'[q]
                                  /\ offset'[q] <= position[q] + 1
                                  /\ offset'[q] <= Len(topic[q])
      BY <2>1, CommitLemma
    <2>3. RowsAreCommittedMessages' /\ RowsInOffsetOrder'
      BY <1>2, <2>2, RowsKept DEF ReadFails
    <2>4. TypeOK'
      BY <1>2, <2>2 DEF TypeOK, ReadFails, ReaderState
    <2>5. SessionInv'
      BY <1>2, <2>2 DEF TypeOK, SessionInv, ReadFails
    <2> QED  BY <2>3, <2>4, <2>5
  <1>3. CASE Store
    <2>1. transactions' \in Seq(Row) /\ RowsAreCommittedMessages' /\ RowsInOffsetOrder'
      BY <1>3, InsertLemma DEF Store
    <2>2. TypeOK'
      BY <1>3, <2>1 DEF TypeOK, Store, ReaderState
    <2>3. SessionInv'
      BY <1>3 DEF SessionInv, Store
    <2> QED  BY <2>1, <2>2, <2>3
  <1>4. CASE ProcessFails
    <2>1. TypeOK'
      BY <1>4 DEF TypeOK, ProcessFails, ReaderState
    <2>2. SessionInv'
      BY <1>4 DEF SessionInv, ProcessFails
    <2> QED  BY <1>4, <2>1, <2>2, RowsKept DEF TypeOK, ProcessFails
  <1>5. CASE CloseReader \/ CloseStorage
    <2>1. TypeOK' /\ SessionInv'
      BY <1>5 DEF TypeOK, SessionInv, CloseReader, CloseStorage, Life
    <2> QED  BY <1>5, <2>1, RowsKept DEF TypeOK, CloseReader, CloseStorage
  <1>6. CASE Exit
    <2>0. UNCHANGED offset \/ \E p \in Partition : Advance(p)
      BY <1>6 DEF Exit
    <2>1. /\ offset' \in [Partition -> Nat]
          /\ \A q \in Partition : /\ offset[q] <= offset'[q]
                                  /\ offset'[q] <= position[q] + 1
                                  /\ offset'[q] <= Len(topic[q])
      BY <2>0, CommitLemma
    <2>2. /\ transactions' \in Seq(Row)
          /\ RowsAreCommittedMessages' /\ RowsInOffsetOrder'
      <3>1. CASE UNCHANGED transactions
        BY <1>6, <2>1, <3>1, RowsKept DEF TypeOK, Exit
      <3>2. CASE reader = "processing" /\ Insert /\ UNCHANGED offset
        BY <1>6, <3>2, InsertLemma DEF Exit
      <3> QED  BY <1>6, <3>1, <3>2 DEF Exit
    <2>3. TypeOK'
      BY <1>6, <2>1, <2>2 DEF TypeOK, Exit, ReaderState, Life
    <2>4. SessionInv'
      BY <1>6, <2>1 DEF TypeOK, SessionInv, Exit
    <2> QED  BY <2>2, <2>3, <2>4
  <1>7. CASE Restart
    <2>1. TypeOK' /\ SessionInv'
      BY <1>7 DEF TypeOK, SessionInv, Restart, ReaderState, Life
    <2> QED  BY <1>7, <2>1, RowsKept DEF TypeOK, Restart
  <1>8. CASE Environment
    <2>1. TypeOK' /\ SessionInv'
      BY <1>8 DEF TypeOK, SessionInv, Environment, TopicGrows, readerVars
    <2>2. UNCHANGED <<offset, transactions>>
      BY <1>8 DEF Environment, readerVars
    <2>3. ASSUME NEW i \in DOMAIN transactions
          PROVE  topic'[transactions[i].part][transactions[i].pos]
                   = topic[transactions[i].part][transactions[i].pos]
      <3>0. transactions[i] \in Row
        BY DEF TypeOK
      <3>1. transactions[i].part \in Partition /\ transactions[i].pos \in Nat
        BY <3>0 DEF Row
      <3>2. transactions[i].pos \in 1..Len(topic[transactions[i].part])
        <4>1. transactions[i].pos \in 1..offset[transactions[i].part]
          BY DEF RowsAreCommittedMessages
        <4>2. /\ offset[transactions[i].part] \in Nat
              /\ offset[transactions[i].part] <= Len(topic[transactions[i].part])
              /\ Len(topic[transactions[i].part]) \in Nat
          BY <3>1 DEF TypeOK, SessionInv
        <4> QED  BY <3>1, <4>1, <4>2
      <3> QED  BY <1>8, <3>1, <3>2 DEF Environment, TopicGrows
    <2>4. RowsAreCommittedMessages' /\ RowsInOffsetOrder'
      BY <2>2, <2>3 DEF RowsAreCommittedMessages, RowsInOffsetOrder
    <2> QED  BY <2>1, <2>4
  <1>9. CASE UNCHANGED vars
    <2>1. TypeOK' /\ SessionInv'
      BY <1>9 DEF TypeOK, SessionInv, vars, readerVars
    <2> QED  BY <1>9, <2>1, RowsKept DEF TypeOK, vars, readerVars
  <1> QED
    BY <1>1, <1>2, <1>3, <1>4, <1>5, <1>6, <1>7, <1>8, <1>9
    DEF Next, ReaderNext, MustRun

\* The inductive invariant holds in every state of every behaviour.
LEMMA Invariance == Spec => []IInv
  BY InitInv, StepInv, PTL DEF Spec

\* The state of the consumer is always well typed.
THEOREM TypeCorrect == Spec => []TypeOK
  <1>1. IInv => TypeOK  BY DEF IInv
  <1> QED  BY <1>1, Invariance, PTL

\* A row is the committed message of its coordinates: nothing is stored that the
\* topic does not hold, and nothing before its offset is committed (MustRun).
THEOREM OnlyCommittedMessages == Spec => []RowsAreCommittedMessages
  <1>1. IInv => RowsAreCommittedMessages  BY DEF IInv
  <1> QED  BY <1>1, Invariance, PTL

\* The table keeps the order of each partition through failures, rebalances,
\* shutdowns, crashes and restarts.
THEOREM OrderKept == Spec => []RowsInOffsetOrder
  <1>1. IInv => RowsInOffsetOrder  BY DEF IInv
  <1> QED  BY <1>1, Invariance, PTL

\* The committed offset of a partition never goes back.
THEOREM NeverRewind == Spec => OffsetsNeverRewind
  <1>1. IInv /\ [Next]_vars => [\A p \in Partition : offset'[p] >= offset[p]]_vars
    <2> SUFFICES ASSUME IInv, Next, NEW p \in Partition  PROVE offset'[p] >= offset[p]
      OBVIOUS
    <2>1. offset[p] \in Nat
      BY DEF IInv, TypeOK
    <2>2. \/ UNCHANGED offset
          \/ \E q \in Partition : Advance(q)
      BY DEF Next, ReaderNext, MustRun, ReadMessage, ReadFails, Store, ProcessFails,
             CloseReader, CloseStorage, Exit, Restart, Environment, readerVars
    <2>3. ASSUME NEW q \in Partition, Advance(q)  PROVE offset'[p] >= offset[p]
      BY <2>1, <2>3, AdvanceLemma DEF IInv, TypeOK
    <2> QED  BY <2>1, <2>2, <2>3
  <1> QED  BY <1>1, Invariance, PTL DEF Spec, OffsetsNeverRewind

-----------------------------------------------------------------------------
(***************************************************************************)
(* The accounts of the consumer: what it has lost and what it has stored   *)
(* twice never exceed the faults it has met.                               *)
(***************************************************************************)

\* Partitions whose last committed message the session will fetch once more.
Again ==
    IF reader = "stopped" THEN {}
    ELSE {p \in Partition : position[p] < offset[p]}

\* The message in hand, if it has a row already.
Twice == InHand \cap Stored

\* The offsets have a greatest one, also if there are infinitely many
\* partitions: Committed is bounded by it.
OffsetsBounded ==
    \E m \in {0} \cup {offset[p] : p \in Partition} :
        \A p \in Partition : offset[p] <= m

\* What is lost, stored twice, and about to be stored twice.
Debt ==
    Cardinality(Lost) + (Len(transactions) - Cardinality(Stored))
        + Cardinality(Again) + Cardinality(Twice)

LossInv ==
    /\ life = "down" => reader = "stopped"
    /\ OffsetsBounded
    /\ IsFiniteSet(Committed)
    /\ IsFiniteSet(Stored)
    /\ IsFiniteSet(Again)
    /\ Debt <= faults

-----------------------------------------------------------------------------
(* Lemmas on sets and on the operators that count                          *)

\* A part of a finite set, up to one more element, has no more than one more.
LEMMA AtMostOneMore ==
    ASSUME NEW A, NEW B, NEW x, IsFiniteSet(B), A \subseteq B \cup {x}
    PROVE  /\ IsFiniteSet(A)
           /\ Cardinality(A) \in Nat /\ Cardinality(B) \in Nat
           /\ Cardinality(A) <= Cardinality(B) + 1
  <1>1. /\ IsFiniteSet(B \cup {x})
        /\ Cardinality(B \cup {x}) \in {Cardinality(B), Cardinality(B) + 1}
    BY FS_AddElement
  <1>2. IsFiniteSet(A) /\ Cardinality(A) <= Cardinality(B \cup {x})
    BY <1>1, FS_Subset
  <1>3. Cardinality(A) \in Nat /\ Cardinality(B) \in Nat
    BY <1>2, FS_CardinalityType
  <1> QED  BY <1>1, <1>2, <1>3

\* A part of a finite set is finite and no larger.
LEMMA NoMore ==
    ASSUME NEW A, NEW B, IsFiniteSet(B), A \subseteq B
    PROVE  /\ IsFiniteSet(A)
           /\ Cardinality(A) \in Nat /\ Cardinality(B) \in Nat
           /\ Cardinality(A) <= Cardinality(B)
  <1>1. IsFiniteSet(A) /\ Cardinality(A) <= Cardinality(B)
    BY FS_Subset
  <1> QED  BY <1>1, FS_CardinalityType

\* The bound in Committed is no restriction.
LEMMA CommittedIs ==
    ASSUME TypeOK, OffsetsBounded
    PROVE  Committed = {c \in Partition \X (Nat \ {0}) : c[2] <= offset[c[1]]}
  <1> DEFINE S == {0} \cup {offset[p] : p \in Partition}
  <1>1. S \subseteq Nat
    BY DEF TypeOK
  <1>2. PICK m \in S : \A p \in Partition : offset[p] <= m
    BY DEF OffsetsBounded
  <1>3. \A y \in S : m >= y
    BY <1>1, <1>2
  <1>4. Max(S) \in S /\ \A y \in S : Max(S) >= y
    BY <1>2, <1>3 DEF Max
  <1>5. ASSUME NEW c \in Partition \X (Nat \ {0}), c[2] <= offset[c[1]]
        PROVE  c \in Partition \X (1..Max(S))
    <2>1. offset[c[1]] \in S /\ offset[c[1]] <= Max(S)
      BY <1>4
    <2>2. c[2] \in Nat \ {0} /\ Max(S) \in Nat /\ offset[c[1]] \in Nat
      BY <1>1, <1>4, <2>1
    <2>3. c[2] \in 1..Max(S)
      BY <1>5, <2>1, <2>2
    <2> QED  BY <2>3
  <1>6. Committed = {c \in Partition \X (1..Max(S)) : c[2] <= offset[c[1]]}
    BY DEF Committed
  <1>7. 1..Max(S) \subseteq Nat \ {0}
    BY <1>1, <1>4
  <1> QED  BY <1>5, <1>6, <1>7

\* The same after a step.
LEMMA CommittedIsNext ==
    ASSUME TypeOK', OffsetsBounded'
    PROVE  Committed' = {c \in Partition \X (Nat \ {0}) : c[2] <= offset'[c[1]]}
  <1> DEFINE S == {0} \cup {offset'[p] : p \in Partition}
  <1>1. S \subseteq Nat
    BY DEF TypeOK
  <1>2. PICK m \in S : \A p \in Partition : offset'[p] <= m
    BY DEF OffsetsBounded
  <1>3. \A y \in S : m >= y
    BY <1>1, <1>2
  <1>4. Max(S) \in S /\ \A y \in S : Max(S) >= y
    BY <1>2, <1>3 DEF Max
  <1>5. ASSUME NEW c \in Partition \X (Nat \ {0}), c[2] <= offset'[c[1]]
        PROVE  c \in Partition \X (1..Max(S))
    <2>1. offset'[c[1]] \in S /\ offset'[c[1]] <= Max(S)
      BY <1>4
    <2>2. c[2] \in Nat \ {0} /\ Max(S) \in Nat /\ offset'[c[1]] \in Nat
      BY <1>1, <1>4, <2>1
    <2>3. c[2] \in 1..Max(S)
      BY <1>5, <2>1, <2>2
    <2> QED  BY <2>3
  <1>6. Committed' = {c \in Partition \X (1..Max(S)) : c[2] <= offset'[c[1]]}
    BY DEF Committed
  <1>7. 1..Max(S) \subseteq Nat \ {0}
    BY <1>1, <1>4
  <1> QED  BY <1>5, <1>6, <1>7

\* A row is of a committed message, and so is what is in hand.
LEMMA StoredIsCommitted ==
    ASSUME IInv, OffsetsBounded
    PROVE  Stored \subseteq Committed /\ InHand \subseteq Committed
  <1>1. Committed = {c \in Partition \X (Nat \ {0}) : c[2] <= offset[c[1]]}
    BY CommittedIs DEF IInv
  <1>2. ASSUME NEW i \in DOMAIN transactions
        PROVE  <<transactions[i].part, transactions[i].pos>> \in Committed
    <2>1. transactions[i] \in Row
      BY DEF IInv, TypeOK
    <2>2. transactions[i].part \in Partition /\ transactions[i].pos \in Nat
      BY <2>1 DEF Row
    <2>3. transactions[i].pos \in 1..offset[transactions[i].part]
      BY DEF IInv, RowsAreCommittedMessages
    <2> QED  BY <1>1, <2>2, <2>3
  <1>3. ASSUME reader = "processing"  PROVE hand \in Committed
    <2>1. hand[1] \in Partition /\ hand[2] \in Nat \ {0}
          /\ hand = <<hand[1], hand[2]>> /\ hand[2] <= offset[hand[1]]
      BY <1>3 DEF IInv, TypeOK, SessionInv, Coordinate
    <2> QED  BY <1>1, <2>1
  <1> QED  BY <1>2, <1>3 DEF Stored, InHand

\* Advance commits one message, which is new unless it was committed before.
LEMMA AdvanceCounts ==
    ASSUME IInv, LossInv, NEW p \in Partition, Advance(p), TypeOK'
    PROVE  /\ OffsetsBounded'
           /\ Committed' = Committed \cup {<<p, position[p] + 1>>}
           /\ IsFiniteSet(Committed')
           /\ <<p, position[p] + 1>> \in Committed <=> position[p] < offset[p]
  <1> DEFINE c == <<p, position[p] + 1>>
  <1>1. /\ offset'[p] = position[p] + 1
        /\ \A q \in Partition : q # p => offset'[q] = offset[q]
        /\ \A q \in Partition : offset[q] <= offset'[q]
    BY AdvanceLemma DEF IInv
  <1>2. /\ position[p] \in Nat
        /\ \A q \in Partition : offset[q] \in Nat /\ offset'[q] \in Nat
        /\ position[p] <= offset[p] /\ offset[p] <= position[p] + 1
    BY DEF IInv, TypeOK, SessionInv
  <1>3. OffsetsBounded'
    <2>1. PICK m \in {0} \cup {offset[q] : q \in Partition} :
             \A q \in Partition : offset[q] <= m
      BY DEF LossInv, OffsetsBounded
    <2>2. m \in Nat
      BY <1>2, <2>1
    <2>3. CASE m <= offset'[p]
      <3>1. \A q \in Partition : offset'[q] <= offset'[p]
        BY <1>1, <1>2, <2>1, <2>2, <2>3
      <3> QED  BY <3>1 DEF OffsetsBounded
    <2>4. CASE ~ (m <= offset'[p])
      <3>1. \A q \in Partition : offset'[q] <= m
        BY <1>1, <1>2, <2>1, <2>2, <2>4
      <3>2. m # offset[p]
        BY <1>1, <1>2, <2>2, <2>4
      <3>3. m \in {0} \cup {offset'[q] : q \in Partition}
        BY <1>1, <2>1, <3>2
      <3> QED  BY <3>1, <3>3 DEF OffsetsBounded
    <2> QED  BY <2>3, <2>4
  <1>4. Committed = {d \in Partition \X (Nat \ {0}) : d[2] <= offset[d[1]]}
    BY CommittedIs DEF IInv, LossInv
  <1>5. Committed' = {d \in Partition \X (Nat \ {0}) : d[2] <= offset'[d[1]]}
    BY <1>3, CommittedIsNext
  <1>6. c \in Partition \X (Nat \ {0}) /\ c[1] = p /\ c[2] = position[p] + 1
    BY <1>2
  <1>7. c \in Committed <=> position[p] < offset[p]
    BY <1>2, <1>4, <1>6
  <1>8. Committed' = Committed \cup {c}
    <2>1. ASSUME NEW d \in Partition \X (Nat \ {0})
          PROVE  d[2] <= offset'[d[1]] <=> d[2] <= offset[d[1]] \/ d = c
      <3>1. CASE d[1] # p
        BY <1>1, <1>6, <3>1
      <3>2. CASE d[1] = p
        <4>1. d = <<p, d[2]>> /\ d[2] \in Nat
          BY <3>2
        <4> QED  BY <1>1, <1>2, <3>2, <4>1
      <3> QED  BY <3>1, <3>2
    <2> QED  BY <1>4, <1>5, <1>6, <2>1
  <1>9. IsFiniteSet(Committed')
    BY <1>8, FS_AddElement DEF LossInv
  <1> QED  BY <1>3, <1>7, <1>8, <1>9

\* An INSERT adds the message in hand to those that are stored.
LEMMA InsertCounts ==
    ASSUME IInv, LossInv, reader = "processing", Insert, TypeOK'
    PROVE  /\ Len(transactions') = Len(transactions) + 1
           /\ Stored' = Stored \cup {hand}
           /\ IsFiniteSet(Stored')
           /\ Cardinality(Stored') =
                Cardinality(Stored) + IF hand \in Stored THEN 0 ELSE 1
  <1> DEFINE row == [part |-> hand[1], pos |-> hand[2], event |-> MessageAt(hand)]
  <1>1. transactions \in Seq(Row) /\ transactions' = Append(transactions, row)
    BY DEF Insert, IInv, TypeOK
  <1>2. /\ Len(transactions') = Len(transactions) + 1
        /\ DOMAIN transactions' = DOMAIN transactions \cup {Len(transactions) + 1}
        /\ transactions'[Len(transactions) + 1] = row
        /\ \A i \in DOMAIN transactions : transactions'[i] = transactions[i]
    BY <1>1
  <1>3. hand = <<row.part, row.pos>>
    BY DEF IInv, TypeOK, Coordinate
  <1>4. Stored' = Stored \cup {hand}
    BY <1>2, <1>3 DEF Stored
  <1>5. IsFiniteSet(Stored)
    BY DEF LossInv
  <1>6. Cardinality(Stored) \in Nat
    BY <1>5, FS_CardinalityType
  <1> QED  BY <1>2, <1>4, <1>5, <1>6, FS_AddElement

\* Debt' is no more than was owed, as the numbers it consists of are.
LEMMA Balance ==
    ASSUME IInv, LossInv
    PROVE  /\ {Cardinality(Lost), Cardinality(Stored), Cardinality(Again),
               Cardinality(Twice), Len(transactions), faults} \subseteq Nat
           /\ IsFiniteSet(Lost) /\ IsFiniteSet(Twice)
           /\ Cardinality(Twice) = IF Twice = {} THEN 0 ELSE 1
  <1>1. IsFiniteSet(Lost) /\ IsFiniteSet(Twice)
    BY NoMore DEF LossInv, Lost, Twice
  <1>2. Twice = {} \/ Twice = {hand}
    BY DEF Twice, InHand
  <1>3. Cardinality(Twice) = IF Twice = {} THEN 0 ELSE 1
    BY <1>2, FS_EmptySet, FS_Singleton
  <1>4. {Cardinality(Lost), Cardinality(Stored), Cardinality(Again),
         Cardinality(Twice)} \subseteq Nat
    BY <1>1, FS_CardinalityType DEF LossInv
  <1>5. Len(transactions) \in Nat /\ faults \in Nat
    BY DEF IInv, TypeOK
  <1> QED  BY <1>1, <1>3, <1>4, <1>5

-----------------------------------------------------------------------------
(* Steps                                                                   *)

\* A message that is fetched is new, or the session pays with Again for having
\* had it before; a rebalance may leave one such message behind.
LEMMA ReadCounts ==
    ASSUME IInv, LossInv, NEW p \in Partition, ReadMessage(p), TypeOK'
    PROVE  LossInv'
  <1> DEFINE c == <<p, position[p] + 1>>
  <1>1. /\ Advance(p) /\ reader = "reading" /\ reader' = "processing"
        /\ hand' = c /\ UNCHANGED <<transactions, life>>
        /\ life \in {"up", "closing"}
    BY DEF ReadMessage
  <1>2. /\ OffsetsBounded'
        /\ Committed' = Committed \cup {c}
        /\ IsFiniteSet(Committed')
        /\ c \in Committed <=> position[p] < offset[p]
    BY <1>1, AdvanceCounts
  <1>3. /\ offset'[p] = position[p] + 1
        /\ \A q \in Partition : q # p => offset'[q] = offset[q]
    BY <1>1, AdvanceLemma DEF IInv
  <1>4. /\ \A q \in Partition : offset[q] \in Nat /\ position[q] \in Nat
        /\ position[p] <= offset[p] /\ offset[p] <= position[p] + 1
    BY DEF IInv, TypeOK, SessionInv
  <1>5. Stored' = Stored /\ InHand = {} /\ InHand' = {c}
    BY <1>1 DEF Stored, InHand
  <1>6. Lost' = Lost \ {c} /\ Twice = {} /\ Twice' = {c} \cap Stored
    BY <1>2, <1>5 DEF Lost, Twice
  <1>7. Stored \subseteq Committed
    BY StoredIsCommitted DEF LossInv
  <1>8. /\ Again = {q \in Partition : position[q] < offset[q]}
        /\ Again' = {q \in Partition : position'[q] < offset'[q]}
    BY <1>1 DEF Again
  <1>9. \/ Again' = Again \ {p} /\ faults' = faults
        \/ /\ Again' = {q \in Partition : offset[q] < offset'[q]}
           /\ faults' = faults + 1
    <2>1. CASE position' = [position EXCEPT ![p] = @ + 1] /\ UNCHANGED faults
      <3>1. \A q \in Partition :
              position'[q] < offset'[q] <=> position[q] < offset[q] /\ q # p
        BY <1>3, <1>4, <2>1 DEF IInv, TypeOK
      <3> QED  BY <1>8, <2>1, <3>1
    <2>2. CASE position' = offset /\ faults' = faults + 1
      BY <1>8, <2>2
    <2> QED  BY <2>1, <2>2 DEF ReadMessage
  <1>10. IsFiniteSet(Again) /\ IsFiniteSet(Stored) /\ IsFiniteSet(Lost)
    BY Balance DEF LossInv
  <1>11. CASE c \in Committed
    <2>1. p \in Again /\ offset[p] = position[p] + 1
      BY <1>2, <1>4, <1>8, <1>11
    <2>2. Again' \subseteq Again \ {p}
      BY <1>3, <1>4, <1>9, <2>1
    <2>3. /\ IsFiniteSet(Again \ {p})
          /\ Cardinality(Again \ {p}) = Cardinality(Again) - 1
      BY <1>10, <2>1, FS_RemoveElement
    <2>4. /\ IsFiniteSet(Again') /\ Cardinality(Again') \in Nat
          /\ Cardinality(Again') <= Cardinality(Again) - 1
      BY <2>2, <2>3, NoMore
    <2>5. Cardinality(Lost') + Cardinality(Twice') <= Cardinality(Lost) + 1
          /\ Cardinality(Lost') \in Nat /\ Cardinality(Twice') \in Nat
      <3>1. CASE c \in Stored
        <4>1. Twice' = {c} /\ Lost' = Lost
          BY <1>5, <1>6, <3>1 DEF Lost
        <4>2. Cardinality(Twice') = 1
          BY <4>1, FS_Singleton
        <4> QED  BY <4>1, <4>2, Balance
      <3>2. CASE c \notin Stored
        <4>1. Twice' = {}
          BY <1>6, <3>2
        <4>2. Cardinality(Lost') \in Nat /\ Cardinality(Lost') <= Cardinality(Lost)
              /\ Cardinality(Lost) \in Nat
          BY <1>6, <1>10, NoMore
        <4> QED  BY <4>1, <4>2, FS_EmptySet
      <3> QED  BY <3>1, <3>2
    <2>6. Cardinality(Twice) = 0
      BY <1>6, FS_EmptySet
    <2>7. Debt' <= faults'
      BY <1>1, <1>5, <1>9, <2>4, <2>5, <2>6, Balance DEF LossInv, Debt
    <2> QED  BY <1>1, <1>2, <1>5, <1>10, <2>4, <2>7 DEF LossInv
  <1>12. CASE c \notin Committed
    <2>1. offset[p] = position[p] /\ p \notin Again /\ c \notin Stored
      BY <1>2, <1>4, <1>7, <1>8, <1>12
    <2>2. Lost' = Lost /\ Twice' = {} /\ Cardinality(Twice') = 0
          /\ Cardinality(Twice) = 0
      BY <1>6, <1>12, <2>1, FS_EmptySet DEF Lost
    <2>3. \/ Again' = Again /\ faults' = faults
          \/ Again' = {p} /\ faults' = faults + 1
      BY <1>3, <1>4, <1>9, <2>1
    <2>4. /\ IsFiniteSet(Again')
          /\ \/ Cardinality(Again') = Cardinality(Again) /\ faults' = faults
             \/ Cardinality(Again') = 1 /\ faults' = faults + 1
      <3>1. IsFiniteSet({p}) /\ Cardinality({p}) = 1
        BY FS_Singleton
      <3> QED  BY <1>10, <2>3, <3>1
    <2>5. Debt' <= faults'
      BY <1>1, <1>5, <2>2, <2>4, Balance DEF LossInv, Debt
    <2> QED  BY <1>1, <1>2, <1>5, <1>10, <2>4, <2>5 DEF LossInv
  <1> QED  BY <1>11, <1>12

\* A commit whose message is never seen costs that message, and a fault.
LEMMA CommitCounts ==
    ASSUME IInv, LossInv, TypeOK', reader = "reading", reader' = "stopped",
           NEW p \in Partition, Advance(p), faults' = faults + 1,
           UNCHANGED transactions
    PROVE  LossInv'
  <1>1. /\ OffsetsBounded'
        /\ Committed' = Committed \cup {<<p, position[p] + 1>>}
        /\ IsFiniteSet(Committed')
    BY AdvanceCounts
  <1>2. /\ Stored' = Stored /\ InHand = {} /\ InHand' = {}
        /\ Again' = {} /\ Twice' = {}
    BY DEF Stored, InHand, Again, Twice
  <1>3. Lost' \subseteq Lost \cup {<<p, position[p] + 1>>}
    BY <1>1, <1>2 DEF Lost
  <1>4. /\ Cardinality(Lost') \in Nat
        /\ Cardinality(Lost') <= Cardinality(Lost) + 1
    BY <1>3, Balance, AtMostOneMore
  <1>5. Cardinality(Again') = 0 /\ Cardinality(Twice') = 0 /\ IsFiniteSet(Again')
    BY <1>2, FS_EmptySet
  <1>6. Debt' <= faults'
    BY <1>2, <1>4, <1>5, Balance DEF LossInv, Debt
  <1> QED  BY <1>1, <1>2, <1>5, <1>6 DEF LossInv

\* The INSERT of the message in hand costs nothing unless it had a row.
LEMMA StoreCounts ==
    ASSUME IInv, LossInv, TypeOK', reader = "processing", Insert,
           reader' \in {"reading", "stopped"}, faults' >= faults,
           life' = "down" => reader' = "stopped", UNCHANGED <<offset, position>>
    PROVE  LossInv'
  <1>1. /\ Len(transactions') = Len(transactions) + 1
        /\ Stored' = Stored \cup {hand}
        /\ IsFiniteSet(Stored')
        /\ Cardinality(Stored') =
             Cardinality(Stored) + IF hand \in Stored THEN 0 ELSE 1
    BY InsertCounts
  <1>2. Committed' = Committed /\ OffsetsBounded'
    BY DEF Committed, LossInv, OffsetsBounded
  <1>3. InHand = {hand} /\ InHand' = {} /\ Twice' = {} /\ Again' \subseteq Again
    BY DEF InHand, Twice, Again
  <1>4. Lost' = Lost
    BY <1>1, <1>2, <1>3 DEF Lost
  <1>5. Cardinality(Twice) = IF hand \in Stored THEN 1 ELSE 0
    BY <1>3, Balance DEF Twice
  <1>6. /\ IsFiniteSet(Again') /\ Cardinality(Again') \in Nat
        /\ Cardinality(Again') <= Cardinality(Again)
    BY <1>3, NoMore DEF LossInv
  <1>7. Cardinality(Twice') = 0
    BY <1>3, FS_EmptySet
  <1>8. faults' \in Nat
    BY DEF TypeOK
  <1>9. Debt' <= faults'
    BY <1>1, <1>4, <1>5, <1>6, <1>7, <1>8, Balance DEF LossInv, Debt
  <1> QED  BY <1>1, <1>2, <1>6, <1>9 DEF LossInv

\* A message that is not stored costs itself, and a fault.
LEMMA FailCounts ==
    ASSUME IInv, LossInv, TypeOK', reader = "processing",
           reader' \in {"reading", "stopped"}, faults' = faults + 1,
           life' = "down" => reader' = "stopped",
           UNCHANGED <<offset, position, transactions>>
    PROVE  LossInv'
  <1>1. Stored' = Stored /\ Committed' = Committed /\ OffsetsBounded'
    BY DEF Stored, Committed, LossInv, OffsetsBounded
  <1>2. InHand = {hand} /\ InHand' = {} /\ Twice' = {} /\ Again' \subseteq Again
    BY DEF InHand, Twice, Again
  <1>3. Lost' \subseteq Lost \cup {hand}
    BY <1>1, <1>2 DEF Lost
  <1>4. /\ Cardinality(Lost') \in Nat
        /\ Cardinality(Lost') <= Cardinality(Lost) + 1
    BY <1>3, Balance, AtMostOneMore
  <1>5. /\ IsFiniteSet(Again') /\ Cardinality(Again') \in Nat
        /\ Cardinality(Again') <= Cardinality(Again)
    BY <1>2, NoMore DEF LossInv
  <1>6. Cardinality(Twice') = 0
    BY <1>2, FS_EmptySet
  <1>7. Debt' <= faults'
    BY <1>1, <1>4, <1>5, <1>6, Balance DEF LossInv, Debt
  <1> QED  BY <1>1, <1>5, <1>7 DEF LossInv

\* Steps that neither commit, store nor lose anything.
LEMMA NothingCounts ==
    ASSUME IInv, LossInv, TypeOK', faults' >= faults,
           life' = "down" => reader' = "stopped",
           InHand' = InHand, Again' \subseteq Again,
           UNCHANGED <<offset, transactions>>
    PROVE  LossInv'
  <1>1. Stored' = Stored /\ Committed' = Committed /\ OffsetsBounded'
    BY DEF Stored, Committed, LossInv, OffsetsBounded
  <1>2. Lost' = Lost /\ Twice' = Twice
    BY <1>1 DEF Lost, Twice
  <1>3. /\ IsFiniteSet(Again') /\ Cardinality(Again') \in Nat
        /\ Cardinality(Again') <= Cardinality(Again)
    BY NoMore DEF LossInv
  <1>4. faults' \in Nat
    BY DEF TypeOK
  <1>5. Debt' <= faults'
    BY <1>1, <1>2, <1>3, <1>4, Balance DEF LossInv, Debt
  <1> QED  BY <1>1, <1>3, <1>5 DEF LossInv

-----------------------------------------------------------------------------
(* The theorem                                                             *)

\* Nothing is committed, stored or lost before the first message.
LEMMA InitLoss == Init => LossInv
  <1> SUFFICES ASSUME Init  PROVE LossInv
    OBVIOUS
  <1>1. TypeOK
    BY InitInv DEF IInv
  <1>2. OffsetsBounded
    BY DEF Init, OffsetsBounded
  <1>3. Committed = {}
    BY <1>1, <1>2, CommittedIs DEF Init
  <1>4. Stored = {} /\ Again = {} /\ Twice = {} /\ Lost = {}
    BY <1>3 DEF Init, Stored, Again, Twice, Lost
  <1>5. Len(transactions) = 0 /\ faults = 0 /\ life # "down"
    BY DEF Init
  <1> QED  BY <1>2, <1>3, <1>4, <1>5, FS_EmptySet DEF LossInv, Debt

\* Every step pays for what it loses or repeats.
LEMMA StepLoss == IInv /\ IInv' /\ LossInv /\ [Next]_vars => LossInv'
  <1> SUFFICES ASSUME IInv, IInv', LossInv, [Next]_vars  PROVE LossInv'
    OBVIOUS
  <1>0. TypeOK' /\ faults \in Nat
    BY DEF IInv, TypeOK
  <1>1. ASSUME NEW p \in Partition, ReadMessage(p)  PROVE LossInv'
    BY <1>0, <1>1, ReadCounts
  <1>2. CASE ReadFails
    <2>1. CASE UNCHANGED offset
      <3>1. InHand' = InHand /\ Again' \subseteq Again /\ faults' >= faults
            /\ reader' = "stopped" /\ UNCHANGED transactions
        BY <1>0, <1>2, <2>1 DEF ReadFails, InHand, Again
      <3> QED  BY <1>0, <2>1, <3>1, NothingCounts
    <2>2. ASSUME NEW p \in Partition, Advance(p), faults' = faults + 1
          PROVE  LossInv'
      BY <1>0, <1>2, <2>2, CommitCounts DEF ReadFails
    <2> QED  BY <1>2, <2>1, <2>2 DEF ReadFails
  <1>3. CASE Store
    <2>1. /\ reader = "processing" /\ Insert /\ reader' = "reading"
          /\ life' # "down" /\ UNCHANGED <<offset, position, faults>>
      BY <1>3 DEF Store
    <2> QED  BY <1>0, <2>1, StoreCounts
  <1>4. CASE ProcessFails
    <2>1. /\ reader = "processing" /\ reader' = "reading" /\ life' # "down"
          /\ faults' = faults + 1 /\ UNCHANGED <<offset, position, transactions>>
      BY <1>4 DEF ProcessFails
    <2> QED  BY <1>0, <2>1, FailCounts
  <1>5. CASE CloseReader \/ CloseStorage
    <2>1. /\ InHand' = InHand /\ Again' \subseteq Again /\ life' # "down"
          /\ UNCHANGED <<faults, offset, transactions>>
      BY <1>5 DEF CloseReader, CloseStorage, InHand, Again
    <2> QED  BY <1>0, <2>1, NothingCounts
  <1>6. CASE Exit
    <2>0. reader' = "stopped" /\ UNCHANGED position
      BY <1>6 DEF Exit
    <2>1. CASE /\ reader # "processing" /\ UNCHANGED <<offset, transactions>>
               /\ faults' = IF life = "dbClosed" THEN faults ELSE faults + 1
      <3>1. InHand' = InHand /\ Again' \subseteq Again /\ faults' >= faults
        BY <1>0, <2>0, <2>1 DEF InHand, Again
      <3> QED  BY <1>0, <2>0, <2>1, <3>1, NothingCounts
    <2>2. ASSUME NEW p \in Partition, reader = "reading", Advance(p),
                 faults' = faults + 1, UNCHANGED transactions
          PROVE  LossInv'
      BY <1>0, <2>0, <2>2, CommitCounts
    <2>3. CASE reader = "processing" /\ Insert /\ faults' = faults + 1
               /\ UNCHANGED offset
      BY <1>0, <2>0, <2>3, StoreCounts
    <2>4. CASE reader = "processing" /\ faults' = faults + 1
               /\ UNCHANGED <<offset, transactions>>
      BY <1>0, <2>0, <2>4, FailCounts
    <2> QED  BY <1>6, <2>1, <2>2, <2>3, <2>4 DEF Exit
  <1>7. CASE Restart
    <2>1. reader = "stopped"
      BY <1>7 DEF Restart, LossInv
    <2>2. /\ InHand' = InHand /\ life' # "down"
          /\ UNCHANGED <<faults, offset, transactions>>
      BY <1>7, <2>1 DEF Restart, InHand
    <2>3. Again' = {}
      <3>1. position' = offset /\ offset' = offset
        BY <1>7 DEF Restart
      <3>2. \A p \in Partition : offset[p] \in Nat
        BY DEF IInv, TypeOK
      <3> QED  BY <3>1, <3>2 DEF Again
    <2> QED  BY <1>0, <2>2, <2>3, NothingCounts
  <1>8. CASE Environment \/ UNCHANGED vars
    <2>1. UNCHANGED readerVars
      BY <1>8 DEF Environment, vars
    <2>2. /\ InHand' = InHand /\ Again' = Again
          /\ UNCHANGED <<life, reader, faults, offset, transactions>>
      BY <2>1 DEF readerVars, InHand, Again
    <2>3. life' = "down" => reader' = "stopped"
      BY <2>2 DEF LossInv
    <2> QED  BY <1>0, <2>2, <2>3, NothingCounts
  <1> QED
    BY <1>1, <1>2, <1>3, <1>4, <1>5, <1>6, <1>7, <1>8
    DEF Next, ReaderNext, MustRun

\* Hence the accounts balance in every reachable state.
LEMMA LossInvariance == Spec => []LossInv
  <1>1. Init => LossInv
    BY InitLoss
  <1>2. IInv /\ IInv' /\ LossInv /\ [Next]_vars => LossInv'
    BY StepLoss
  <1> QED  BY <1>1, <1>2, Invariance, PTL DEF Spec

\* However commits, rebalances, failures, shutdowns and crashes interleave, one
\* fault never costs the consumer more than one message lost or stored twice
\* (ReadMessage, then Process).
THEOREM FaultsPay == Spec => []OneMessagePerFault
  <1>1. IInv /\ LossInv => OneMessagePerFault
    <2> SUFFICES ASSUME IInv, LossInv  PROVE OneMessagePerFault
      OBVIOUS
    <2> QED  BY Balance DEF LossInv, Debt, OneMessagePerFault
  <1> QED  BY <1>1, LossInvariance, Invariance, PTL
=============================================================================
