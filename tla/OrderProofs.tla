----------------------------- MODULE OrderProofs ----------------------------
(***************************************************************************)
(* Proofs that the pusher keeps the order of the chain and that Kafka      *)
(* holds a delivery no more often than the writer sends a batch.           *)
(***************************************************************************)
EXTENDS PusherProofs, FiniteSetTheorems

\* Two deliveries differ, and come in the order of the chain if they are of logs
\* of one contract that were not removed.
Before(ch, a, b) ==
    /\ a.log # b.log \/ a.removed # b.removed
    /\ /\ ~ a.removed /\ ~ b.removed
       /\ ch[a.log].contract = ch[b.log].contract
       => a.log < b.log

\* The opposite of that order.
Overtaken(ch, a, b) ==
    /\ ~ a.removed /\ ~ b.removed
    /\ ch[a.log].contract = ch[b.log].contract
    /\ b.log < a.log

\* A handler has a message that the writer has not got yet.
Making(l) == pc[l] \in {"plan", "write"}

\* A listener is told of each delivery once, in order.
FeedOrder ==
    \A l \in Listener : \A i, j \in DOMAIN feed[l] :
        i < j => Before(chain, feed[l][i], feed[l][j])

\* The message being made comes before all that wait in the feed ...
HandOrder ==
    \A l \in Listener : Making(l) =>
        /\ chain[hand[l].log].contract = l
        /\ \A d \in ToSet(feed[l]) : Before(chain, hand[l], d)

\* What the writer has accepted for a partition and not given up for good: it is
\* in the topic, queued, or late.
LateIn(p) == UNION {ToSet(r.batch) : r \in {x \in late : x.part = p}}

Accepted(p) == ToSet(topic[p]) \cup ToSet(queue[p]) \cup LateIn(p)

\* ... and behind all that the writer has accepted, and so do they.
WriteOrder ==
    \A p \in Partition : \A m \in Accepted(p) :
        \A l \in Listener :
            /\ \A d \in ToSet(feed[l]) : Before(chain, m, d)
            /\ Making(l) => Before(chain, m, hand[l])

\* The writer keeps a message in one place, in order.
QueueOrder ==
    /\ \A p \in Partition : \A i, j \in DOMAIN queue[p] :
         i < j => Before(chain, queue[p][i], queue[p][j])
    /\ \A p, q \in Partition : p # q =>
         \A m \in ToSet(queue[p]), n \in ToSet(queue[q]) :
             DeliveryOf(m) # DeliveryOf(n)

\* A message that is to be sent and has been overtaken was sent before.
SentOrder ==
    \A p \in Partition : \A i \in DOMAIN topic[p], k \in DOMAIN queue[p] :
        Overtaken(chain, topic[p][i], queue[p][k])
            => \E j \in 1..(i - 1) : topic[p][j] = queue[p][k]

\* A late request is that of the batch being sent ...
Current(r) ==
    /\ inflight[r.part] \in 1..Len(queue[r.part])
    /\ Len(r.batch) = inflight[r.part]
    /\ \A k \in DOMAIN r.batch : r.batch[k] = queue[r.part][k]

\* ... or of one that is done with: the topic has its messages or they were given
\* up, and they come before all that is queued.
Past(r) ==
    \A m \in ToSet(r.batch) :
        /\ m \in ToSet(topic[r.part]) \/ DeliveryOf(m) \in dropped
        /\ \A k \in DOMAIN queue[r.part] : Before(chain, m, queue[r.part][k])

LateOrder ==
    \A r \in late :
        /\ \A i, j \in DOMAIN r.batch :
             i < j => Before(chain, r.batch[i], r.batch[j])
        /\ Current(r) \/ Past(r)

OrderInv ==
    /\ FeedOrder
    /\ HandOrder
    /\ WriteOrder
    /\ QueueOrder
    /\ SentOrder
    /\ LateOrder
    /\ FirstCopiesInChainOrder

\* A batch is not sent again after its last attempt, and what is not being sent
\* has not been tried.
TriesInv ==
    \A p \in Partition :
        /\ inflight[p] <= Len(queue[p])
        /\ tries[p] < MaxAttempts
        /\ inflight[p] = 0 => tries[p] = 0

\* The logs of the topic have a longest one, also if there are infinitely many
\* partitions: Copies is bounded by it.
Bounded(t) ==
    \E m \in {0} \cup {Len(t[q]) : q \in Partition} :
        \A q \in Partition : Len(t[q]) <= m

\* The places of a delivery in a topic: Copies, without its bound.
Places(t, d) ==
    {c \in Partition \X (Nat \ {0}) :
        c[2] \in DOMAIN t[c[1]] /\ DeliveryOf(t[c[1]][c[2]]) = d}

\* A batch has a message about the delivery.
Has(b, d) == \E m \in ToSet(b) : DeliveryOf(m) = d

\* The copies of a delivery that there are and those that may still come: one for
\* each late request that has it.
LateOf(s, d) == {r \in s : Has(r.batch, d)}

CopiesOf(t, s, d) == Cardinality(Places(t, d)) + Cardinality(LateOf(s, d))

\* What is queued is in the topic, and late, at most as often as it was tried.
QueuedCopies ==
    \A p \in Partition : \A k \in DOMAIN queue[p] :
        CopiesOf(topic, late, DeliveryOf(queue[p][k]))
            <= IF k <= inflight[p] THEN tries[p] ELSE 0

CopiesInv ==
    /\ TriesInv
    /\ Bounded(topic)
    /\ IsFiniteSet(late)
    /\ \A d \in Delivery : /\ IsFiniteSet(Places(topic, d))
                           /\ CopiesOf(topic, late, d) <= MaxAttempts
    /\ QueuedCopies

\* A step that only takes away: feeds, messages in hand, all that is queued.
TakesAway ==
    /\ UNCHANGED <<chain, topic, late>>
    /\ dropped \subseteq dropped'
    /\ \A l \in Listener : feed'[l] = feed[l] \/ feed'[l] = <<>>
    /\ \A l \in Listener : Making(l)' =>
         /\ Making(l)
         /\ hand'[l].log = hand[l].log /\ hand'[l].removed = hand[l].removed
    /\ \/ UNCHANGED <<queue, inflight, tries>>
       \/ /\ \A p \in Partition :
               queue'[p] = <<>> /\ inflight'[p] = 0 /\ tries'[p] = 0
          /\ Queued \subseteq dropped'

-----------------------------------------------------------------------------
(* Sequences                                                               *)

\* A batch and the rest of its queue, by their places in the queue.
LEMMA SplitAt ==
    ASSUME NEW S, NEW s \in Seq(S), NEW n \in 1..Len(s)
    PROVE  /\ SubSeq(s, 1, n) \in Seq(S) /\ Len(SubSeq(s, 1, n)) = n
           /\ \A i \in 1..n : SubSeq(s, 1, n)[i] = s[i]
           /\ Remaining(s, n) \in Seq(S)
           /\ Len(Remaining(s, n)) = Len(s) - n
           /\ \A i \in 1..(Len(s) - n) : Remaining(s, n)[i] = s[n + i]
  <1>1. /\ Len(s) \in Nat
        /\ \A i \in 1..Len(s) : s[i] \in S
    OBVIOUS
  <1>2. /\ Len(SubSeq(s, 1, n)) = n
        /\ \A i \in 1..n : SubSeq(s, 1, n)[i] = s[i]
        /\ SubSeq(s, 1, n) \in Seq(S)
    <2>1. \A i \in 1..n : s[i] \in S
      BY <1>1
    <2>2. /\ SubSeq(s, 1, n) \in Seq(S)
          /\ Len(SubSeq(s, 1, n)) = IF 1 <= n THEN n - 1 + 1 ELSE 0
          /\ \A i \in 1..(n - 1 + 1) : SubSeq(s, 1, n)[i] = s[1 + i - 1]
      BY <2>1, SubSeqProperties
    <2> QED  BY <2>2
  <1>3. /\ Len(Remaining(s, n)) = Len(s) - n
        /\ \A i \in 1..(Len(s) - n) : Remaining(s, n)[i] = s[n + i]
        /\ Remaining(s, n) \in Seq(S)
    <2>1. \A i \in (n + 1)..Len(s) : s[i] \in S
      BY <1>1
    <2>2. /\ SubSeq(s, n + 1, Len(s)) \in Seq(S)
          /\ Len(SubSeq(s, n + 1, Len(s)))
               = IF n + 1 <= Len(s) THEN Len(s) - (n + 1) + 1 ELSE 0
          /\ \A i \in 1..(Len(s) - (n + 1) + 1) :
               SubSeq(s, n + 1, Len(s))[i] = s[(n + 1) + i - 1]
      BY <1>1, <2>1, SubSeqProperties
    <2> QED  BY <1>1, <2>2 DEF Remaining
  <1> QED  BY <1>2, <1>3

\* A log with a batch appended, by the places in both.
LEMMA ConcatAt ==
    ASSUME NEW S, NEW s \in Seq(S), NEW t \in Seq(S)
    PROVE  /\ Len(s \o t) = Len(s) + Len(t)
           /\ \A i \in DOMAIN s : i \in DOMAIN (s \o t) /\ (s \o t)[i] = s[i]
           /\ \A i \in DOMAIN t : /\ Len(s) + i \in DOMAIN (s \o t)
                                  /\ (s \o t)[Len(s) + i] = t[i]
           /\ \A i \in DOMAIN (s \o t) :
                i \in DOMAIN s \/ \E k \in DOMAIN t : i = Len(s) + k
  <1>1. /\ s \o t \in Seq(S)
        /\ Len(s \o t) = Len(s) + Len(t)
        /\ \A i \in 1..(Len(s) + Len(t)) :
             (s \o t)[i] = IF i <= Len(s) THEN s[i] ELSE t[i - Len(s)]
        /\ Len(s) \in Nat /\ Len(t) \in Nat
    BY ConcatProperties
  <1>2. /\ DOMAIN s = 1..Len(s) /\ DOMAIN t = 1..Len(t)
        /\ DOMAIN (s \o t) = 1..(Len(s) + Len(t))
    BY <1>1
  <1>3. ASSUME NEW i \in DOMAIN t
        PROVE  Len(s) + i \in DOMAIN (s \o t) /\ (s \o t)[Len(s) + i] = t[i]
    <2>1. /\ Len(s) + i \in 1..(Len(s) + Len(t))
          /\ ~ (Len(s) + i <= Len(s)) /\ (Len(s) + i) - Len(s) = i
      BY <1>1, <1>2
    <2> QED  BY <1>1, <1>2, <2>1
  <1>4. ASSUME NEW i \in DOMAIN (s \o t), i \notin DOMAIN s
        PROVE  \E k \in DOMAIN t : i = Len(s) + k
    <2>1. i - Len(s) \in DOMAIN t /\ i = Len(s) + (i - Len(s))
      BY <1>1, <1>2, <1>4
    <2> QED  BY <2>1
  <1>5. \A i \in DOMAIN s : i \in DOMAIN (s \o t) /\ (s \o t)[i] = s[i]
    BY <1>1, <1>2
  <1> QED  BY <1>1, <1>3, <1>4, <1>5

\* A sequence with one more element, by their places.
LEMMA AppendAt ==
    ASSUME NEW S, NEW s \in Seq(S), NEW e \in S
    PROVE  /\ DOMAIN Append(s, e) = DOMAIN s \cup {Len(s) + 1}
           /\ \A i \in DOMAIN s : Append(s, e)[i] = s[i] /\ i < Len(s) + 1
           /\ Append(s, e)[Len(s) + 1] = e
           /\ Len(Append(s, e)) = Len(s) + 1
  <1>1. /\ Append(s, e) \in Seq(S)
        /\ Len(Append(s, e)) = Len(s) + 1
        /\ \A i \in 1..Len(s) : Append(s, e)[i] = s[i]
        /\ Append(s, e)[Len(s) + 1] = e
    BY AppendProperties
  <1> QED  BY <1>1

-----------------------------------------------------------------------------
(* Steps and the order                                                     *)

\* A late request of the batch being sent has what is queued.
LEMMA CurrentQueued ==
    ASSUME IInv, NEW r \in late, Current(r)
    PROVE  /\ \A k \in DOMAIN r.batch : k \in DOMAIN queue[r.part]
           /\ ToSet(r.batch) \subseteq ToSet(queue[r.part])
  <1>1. r.batch \in Seq(Message) /\ queue[r.part] \in Seq(Message)
    BY DEF IInv, TypeOK, Request
  <1>2. \A k \in DOMAIN r.batch : k \in DOMAIN queue[r.part]
    BY <1>1 DEF Current
  <1> QED  BY <1>2 DEF Current, ToSet

\* Steps that only take away: a feed, a message in hand, the queues.
LEMMA LessKeepsOrder ==
    ASSUME IInv, IInv', OrderInv, TakesAway
    PROVE  OrderInv'
  <1>0. UNCHANGED <<chain, topic, late>> /\ dropped \subseteq dropped'
    BY DEF TakesAway
  <1>1. \A l \in Listener : /\ DOMAIN feed'[l] \subseteq DOMAIN feed[l]
                            /\ \A i \in DOMAIN feed'[l] : feed'[l][i] = feed[l][i]
    BY DEF TakesAway
  <1>2. \A l \in Listener : ToSet(feed'[l]) \subseteq ToSet(feed[l])
    BY <1>1 DEF ToSet
  <1>3. \A p \in Partition : /\ DOMAIN queue'[p] \subseteq DOMAIN queue[p]
                             /\ \A i \in DOMAIN queue'[p] : queue'[p][i] = queue[p][i]
    BY DEF TakesAway
  <1>4. \A p \in Partition : ToSet(queue'[p]) \subseteq ToSet(queue[p])
    BY <1>3 DEF ToSet
  <1>12. \A l \in Listener : Making(l)' =>
           /\ Making(l)
           /\ hand'[l].log = hand[l].log /\ hand'[l].removed = hand[l].removed
    BY DEF TakesAway
  <1>5. FeedOrder'
    BY <1>0, <1>1 DEF OrderInv, FeedOrder
  <1>6. HandOrder'
    BY <1>0, <1>2, <1>12 DEF OrderInv, HandOrder, Before
  <1>7. WriteOrder'
    <2>1. \A p \in Partition : Accepted(p)' \subseteq Accepted(p)
      BY <1>0, <1>4 DEF Accepted, LateIn
    <2> QED  BY <1>0, <1>2, <1>12, <2>1 DEF OrderInv, WriteOrder, Before
  <1>8. QueueOrder'
    BY <1>0, <1>3, <1>4 DEF OrderInv, QueueOrder
  <1>9. SentOrder'
    BY <1>0, <1>3 DEF OrderInv, SentOrder
  <1>10. FirstCopiesInChainOrder'
    BY <1>0 DEF OrderInv, FirstCopiesInChainOrder
  <1>11. LateOrder'
    <2> SUFFICES ASSUME NEW r \in late  PROVE Current(r)' \/ Past(r)'
      BY <1>0 DEF OrderInv, LateOrder
    <2>1. r.part \in Partition
      BY DEF IInv, TypeOK, Request
    <2>2. Current(r) \/ Past(r)
      BY DEF OrderInv, LateOrder
    <2>3. CASE UNCHANGED <<queue, inflight, tries>>
      BY <1>0, <2>2, <2>3 DEF Current, Past
    <2>4. CASE /\ \A p \in Partition : queue'[p] = <<>>
               /\ Queued \subseteq dropped'
      <3>1. \A m \in ToSet(queue[r.part]) : DeliveryOf(m) \in dropped'
        BY <2>1, <2>4 DEF Queued
      <3>2. \A m \in ToSet(r.batch) :
              m \in ToSet(topic[r.part]) \/ DeliveryOf(m) \in dropped'
        BY <1>0, <2>2, <3>1, CurrentQueued DEF Past
      <3> QED  BY <1>0, <2>1, <2>4, <3>2 DEF Past
    <2> QED  BY <2>3, <2>4 DEF TakesAway
  <1> QED  BY <1>5, <1>6, <1>7, <1>8, <1>9, <1>10, <1>11 DEF OrderInv

\* Everything there is is about a log of the chain.
LEMMA AllKnown ==
    ASSUME IInv
    PROVE  /\ \A l \in Listener : \A d \in ToSet(feed[l]) : Known(l, d)
           /\ \A l \in Listener : Making(l) => /\ hand[l].log \in DOMAIN chain
                                               /\ (hand[l].removed => hand[l].log \in reverted)
           /\ \A p \in Partition : \A m \in Accepted(p) :
                m.log \in DOMAIN chain /\ (m.removed => m.log \in reverted)
  <1>1. \A p \in Partition : \A m \in Accepted(p) : Genuine(m)
    BY DEF IInv, QueueInv, LateInv, TopicIsGenuine, Accepted, LateIn
  <1>2. \A l \in Listener : Making(l) => /\ hand[l].log \in DOMAIN chain
                                        /\ (hand[l].removed => hand[l].log \in reverted)
    BY DEF IInv, HandInv, Genuine, Unpriced, Known, Making
  <1> QED  BY <1>1, <1>2 DEF IInv, FeedInv, Genuine

\* A delivery that nobody has had yet goes to the end of a feed.
LEMMA DeliverKeepsOrder ==
    ASSUME IInv, IInv', OrderInv, NEW l \in Listener, NEW d \in Delivery,
           Deliver(l, d),
           UNCHANGED <<pc, hand, queue, inflight, topic, late, dropped>>,
           \A i \in DOMAIN chain : i \in DOMAIN chain' /\ chain'[i] = chain[i],
           \A x : /\ x.log \in DOMAIN chain
                  /\ x.removed => x.log \in reverted
                  => Before(chain', x, d)
    PROVE  OrderInv'
  <1>1. ASSUME NEW a, NEW b, a.log \in DOMAIN chain, b.log \in DOMAIN chain
        PROVE  /\ Before(chain, a, b) => Before(chain', a, b)
               /\ Overtaken(chain', a, b) => Overtaken(chain, a, b)
    BY <1>1 DEF Before, Overtaken
  <1>2. \A k \in Listener : \/ feed'[k] = feed[k]
                            \/ k = l /\ feed'[k] = Append(feed[k], d)
    BY DEF Deliver, IInv, TypeOK
  <1>3. feed[l] \in Seq(Delivery)
    BY DEF IInv, TypeOK
  <1>4. \A k \in Listener : \A e \in ToSet(feed'[k]) :
          e \in ToSet(feed[k]) \/ e = d
    <2>1. ToSet(Append(feed[l], d)) = ToSet(feed[l]) \cup {d}
      BY <1>3, AppendSet
    <2>2. ASSUME NEW k \in Listener, NEW e \in ToSet(feed'[k])
          PROVE  e \in ToSet(feed[k]) \/ e = d
      <3>1. CASE feed'[k] = feed[k]
        BY <2>2, <3>1
      <3>2. CASE k = l /\ feed'[k] = Append(feed[k], d)
        <4>1. ToSet(feed'[k]) = ToSet(feed[k]) \cup {d}
          BY <2>1, <3>2
        <4> QED  BY <2>2, <4>1
      <3> QED  BY <1>2, <3>1, <3>2
    <2> QED  BY <2>2
  <1>5. FeedOrder'
    <2> SUFFICES ASSUME NEW k \in Listener,
                        NEW i \in DOMAIN feed'[k], NEW j \in DOMAIN feed'[k], i < j
                 PROVE  Before(chain', feed'[k][i], feed'[k][j])
      BY DEF FeedOrder
    <2>0. \A x \in DOMAIN feed[k] : feed[k][x] \in ToSet(feed[k])
      BY DEF ToSet
    <2>1. \A x \in DOMAIN feed[k] : /\ feed[k][x].log \in DOMAIN chain
                                    /\ feed[k][x].removed => feed[k][x].log \in reverted
      BY <2>0, AllKnown DEF Known
    <2>2. CASE feed'[k] = feed[k]
      BY <1>1, <2>1, <2>2 DEF OrderInv, FeedOrder
    <2>3. CASE k = l /\ feed'[k] = Append(feed[k], d)
      <3>1. /\ DOMAIN feed'[k] = DOMAIN feed[k] \cup {Len(feed[k]) + 1}
            /\ \A x \in DOMAIN feed[k] : feed'[k][x] = feed[k][x] /\ x < Len(feed[k]) + 1
            /\ feed'[k][Len(feed[k]) + 1] = d
        BY <1>3, <2>3, AppendAt
      <3>2. DOMAIN feed[k] \subseteq Nat /\ Len(feed[k]) \in Nat
        BY <1>3, <2>3
      <3>3. i \in DOMAIN feed[k]
        BY <3>1, <3>2
      <3>4. CASE j \in DOMAIN feed[k]
        BY <1>1, <2>1, <3>1, <3>3, <3>4 DEF OrderInv, FeedOrder
      <3>5. CASE j = Len(feed[k]) + 1
        BY <2>1, <3>1, <3>3, <3>5
      <3> QED  BY <3>1, <3>4, <3>5
    <2> QED  BY <1>2, <2>2, <2>3
  <1>6. HandOrder'
    <2> SUFFICES ASSUME NEW k \in Listener, Making(k)
                 PROVE  /\ chain'[hand[k].log].contract = k
                        /\ \A e \in ToSet(feed'[k]) : Before(chain', hand[k], e)
      BY DEF HandOrder, Making
    <2>1. /\ hand[k].log \in DOMAIN chain
          /\ hand[k].removed => hand[k].log \in reverted
      BY AllKnown
    <2>2. chain[hand[k].log].contract = k
          /\ \A e \in ToSet(feed[k]) : Before(chain, hand[k], e)
      BY DEF OrderInv, HandOrder
    <2>3. \A e \in ToSet(feed[k]) : Before(chain', hand[k], e)
      BY <1>1, <2>1, <2>2, AllKnown DEF Known
    <2> QED  BY <1>4, <2>1, <2>2, <2>3
  <1>7. WriteOrder'
    <2> SUFFICES ASSUME NEW p \in Partition, NEW k \in Listener,
                        NEW m \in Accepted(p)
                 PROVE  /\ \A e \in ToSet(feed'[k]) : Before(chain', m, e)
                        /\ Making(k) => Before(chain', m, hand[k])
      BY DEF WriteOrder, Making, Accepted, LateIn
    <2>1. m.log \in DOMAIN chain /\ (m.removed => m.log \in reverted)
      BY AllKnown
    <2>2. /\ \A e \in ToSet(feed[k]) : Before(chain, m, e)
          /\ Making(k) => Before(chain, m, hand[k])
      BY DEF OrderInv, WriteOrder
    <2>3. \A e \in ToSet(feed[k]) : Before(chain', m, e)
      BY <1>1, <2>1, <2>2, AllKnown DEF Known
    <2>4. Making(k) => Before(chain', m, hand[k])
      BY <1>1, <2>1, <2>2, AllKnown
    <2> QED  BY <1>4, <2>1, <2>3, <2>4
  <1>8. /\ \A p \in Partition :
             /\ \A i \in DOMAIN queue[p] : queue[p][i].log \in DOMAIN chain
             /\ \A i \in DOMAIN topic[p] : topic[p][i].log \in DOMAIN chain
        /\ \A r \in late : \A i \in DOMAIN r.batch : r.batch[i].log \in DOMAIN chain
    <2>1. \A p \in Partition :
            /\ \A i \in DOMAIN queue[p] : queue[p][i] \in Accepted(p)
            /\ \A i \in DOMAIN topic[p] : topic[p][i] \in Accepted(p)
      BY DEF ToSet, Accepted
    <2>2. \A r \in late : \A i \in DOMAIN r.batch :
            r.part \in Partition /\ r.batch[i] \in Accepted(r.part)
      <3>1. \A r \in late : r.part \in Partition
        BY DEF IInv, TypeOK, Request
      <3> QED  BY <3>1 DEF ToSet, Accepted, LateIn
    <2> QED  BY <2>1, <2>2, AllKnown
  <1>9. QueueOrder'
    <2>1. \A p \in Partition : \A i, j \in DOMAIN queue'[p] :
            i < j => Before(chain', queue'[p][i], queue'[p][j])
      BY <1>1, <1>8 DEF OrderInv, QueueOrder
    <2> QED  BY <2>1 DEF OrderInv, QueueOrder
  <1>10. SentOrder'
    BY <1>1, <1>8 DEF OrderInv, SentOrder
  <1>11. FirstCopiesInChainOrder'
    BY <1>8 DEF OrderInv, FirstCopiesInChainOrder
  <1>12. LateOrder'
    <2> SUFFICES ASSUME NEW r \in late
                 PROVE  /\ \A i, j \in DOMAIN r.batch :
                             i < j => Before(chain', r.batch[i], r.batch[j])
                        /\ Current(r)' \/ Past(r)'
      BY DEF LateOrder
    <2>1. \A i, j \in DOMAIN r.batch : i < j => Before(chain', r.batch[i], r.batch[j])
      BY <1>1, <1>8 DEF OrderInv, LateOrder
    <2>2. CASE Current(r)
      BY <2>1, <2>2 DEF Current
    <2>3. CASE Past(r)
      <3>1. r.part \in Partition
        BY DEF IInv, TypeOK, Request
      <3>2. \A m \in ToSet(r.batch) : m.log \in DOMAIN chain
        BY <1>8 DEF ToSet
      <3> QED  BY <1>1, <1>8, <2>1, <2>3, <3>1, <3>2 DEF Past
    <2> QED  BY <2>1, <2>2, <2>3 DEF OrderInv, LateOrder
  <1> QED  BY <1>5, <1>6, <1>7, <1>9, <1>10, <1>11, <1>12 DEF OrderInv

\* The head of a feed is taken in hand, or skipped (ListenLog).
LEMMA ListenLogKeepsOrder ==
    ASSUME IInv, IInv', OrderInv, NEW l \in Listener, ListenLog(l)
    PROVE  OrderInv'
  <1>1. /\ feed[l] # <<>> /\ feed' = [feed EXCEPT ![l] = Tail(@)]
        /\ pc[l] = "select"
        /\ UNCHANGED <<chain, queue, inflight, topic, late, dropped>>
    BY DEF ListenLog, chainVars, writerVars
  <1>2. feed[l] \in Seq(Delivery)
    BY DEF IInv, TypeOK
  <1>3. /\ Head(feed[l]) \in ToSet(feed[l])
        /\ ToSet(Tail(feed[l])) \subseteq ToSet(feed[l])
    BY <1>1, <1>2, TailSet
  <1>4. /\ Len(Tail(feed[l])) = Len(feed[l]) - 1
        /\ Tail(feed[l]) \in Seq(Delivery)
        /\ \A i \in DOMAIN Tail(feed[l]) : /\ Tail(feed[l])[i] = feed[l][i + 1]
                                           /\ i + 1 \in DOMAIN feed[l]
                                           /\ i \in Nat /\ i >= 1
    <2>1. /\ Tail(feed[l]) \in Seq(Delivery)
          /\ Len(Tail(feed[l])) = Len(feed[l]) - 1
          /\ \A i \in 1..Len(Tail(feed[l])) : Tail(feed[l])[i] = feed[l][i + 1]
      BY <1>1, <1>2, HeadTailProperties
    <2> QED  BY <1>1, <1>2, <2>1
  <1>5. /\ feed'[l] = Tail(feed[l])
        /\ \A k \in Listener : k # l => feed'[k] = feed[k]
    BY <1>1 DEF IInv, TypeOK
  <1>6. \A k \in Listener : ToSet(feed'[k]) \subseteq ToSet(feed[k])
    BY <1>3, <1>5
  <1>7. \A k \in Listener :
          \/ Making(k)' /\ Making(k) /\ hand'[k] = hand[k] /\ k # l
          \/ ~ Making(k)'
          \/ /\ k = l
             /\ hand'[l].log = Head(feed[l]).log
             /\ hand'[l].removed = Head(feed[l]).removed
    <2>1. CASE UNCHANGED <<hand, pc>>
      BY <1>1, <2>1 DEF Making
    <2>2. ASSUME NEW m, m.log = Head(feed[l]).log, m.removed = Head(feed[l]).removed,
                 hand' = [hand EXCEPT ![l] = m],
                 pc' = [pc EXCEPT ![l] = IF l = "donate" THEN "write" ELSE "plan"]
          PROVE  \A k \in Listener :
                   \/ Making(k)' /\ Making(k) /\ hand'[k] = hand[k] /\ k # l
                   \/ ~ Making(k)'
                   \/ /\ k = l
                      /\ hand'[l].log = Head(feed[l]).log
                      /\ hand'[l].removed = Head(feed[l]).removed
      BY <2>2 DEF Making, IInv, TypeOK
    <2> DEFINE m == [title |-> chain[Head(feed[l]).log].title,
                     log |-> Head(feed[l]).log, removed |-> Head(feed[l]).removed,
                     price |-> IF l = "donate" THEN chain[Head(feed[l]).log].amount
                               ELSE 0]
    <2>3. \/ UNCHANGED <<hand, pc>>
          \/ /\ hand' = [hand EXCEPT ![l] = m]
             /\ pc' = [pc EXCEPT ![l] = IF l = "donate" THEN "write" ELSE "plan"]
      BY DEF ListenLog
    <2>4. m.log = Head(feed[l]).log /\ m.removed = Head(feed[l]).removed
      OBVIOUS
    <2> HIDE DEF m
    <2> QED  BY <2>1, <2>2, <2>3, <2>4
  <1>8. /\ Known(l, Head(feed[l]))
        /\ \A d \in ToSet(feed'[l]) : Before(chain, Head(feed[l]), d)
    <2>1. Known(l, Head(feed[l]))
      BY <1>3 DEF IInv, FeedInv
    <2>2. Head(feed[l]) = feed[l][1] /\ 1 \in DOMAIN feed[l]
      BY <1>1, <1>2
    <2>3. ASSUME NEW i \in DOMAIN Tail(feed[l])
          PROVE  Before(chain, Head(feed[l]), Tail(feed[l])[i])
      <3>1. 1 < i + 1 /\ i + 1 \in DOMAIN feed[l] /\ Tail(feed[l])[i] = feed[l][i + 1]
        BY <1>4
      <3> QED  BY <2>2, <3>1 DEF OrderInv, FeedOrder
    <2> QED  BY <1>5, <2>1, <2>3 DEF ToSet
  <1>9. FeedOrder'
    <2> SUFFICES ASSUME NEW k \in Listener,
                        NEW i \in DOMAIN feed'[k], NEW j \in DOMAIN feed'[k], i < j
                 PROVE  Before(chain, feed'[k][i], feed'[k][j])
      BY <1>1 DEF FeedOrder
    <2>1. CASE k = l
      <3>1. /\ i + 1 \in DOMAIN feed[l] /\ j + 1 \in DOMAIN feed[l] /\ i + 1 < j + 1
            /\ feed'[l][i] = feed[l][i + 1] /\ feed'[l][j] = feed[l][j + 1]
        <4>1. i \in DOMAIN Tail(feed[l]) /\ j \in DOMAIN Tail(feed[l])
          BY <1>5, <2>1
        <4>2. /\ i + 1 \in DOMAIN feed[l] /\ j + 1 \in DOMAIN feed[l]
              /\ i \in Nat /\ j \in Nat
              /\ feed'[l][i] = feed[l][i + 1] /\ feed'[l][j] = feed[l][j + 1]
          BY <1>4, <1>5, <4>1
        <4> QED  BY <4>2
      <3> QED  BY <2>1, <3>1 DEF OrderInv, FeedOrder
    <2>2. CASE k # l
      BY <1>5, <2>2 DEF OrderInv, FeedOrder
    <2> QED  BY <2>1, <2>2
  <1>10. HandOrder'
    <2> SUFFICES ASSUME NEW k \in Listener, Making(k)'
                 PROVE  /\ chain[hand'[k].log].contract = k
                        /\ \A d \in ToSet(feed'[k]) : Before(chain, hand'[k], d)
      BY <1>1 DEF HandOrder
    <2>1. CASE Making(k) /\ hand'[k] = hand[k]
      BY <1>6, <2>1 DEF OrderInv, HandOrder
    <2>2. CASE /\ k = l
               /\ hand'[l].log = Head(feed[l]).log
               /\ hand'[l].removed = Head(feed[l]).removed
      BY <1>8, <2>2 DEF Known, Before
    <2> QED  BY <1>7, <2>1, <2>2
  <1>11. WriteOrder'
    <2> SUFFICES ASSUME NEW p \in Partition, NEW k \in Listener,
                        NEW m \in Accepted(p)
                 PROVE  /\ \A d \in ToSet(feed'[k]) : Before(chain, m, d)
                        /\ Making(k)' => Before(chain, m, hand'[k])
      BY <1>1 DEF WriteOrder, Accepted, LateIn
    <2>1. \A d \in ToSet(feed[k]) : Before(chain, m, d)
      BY DEF OrderInv, WriteOrder
    <2>2. ASSUME Making(k), Making(k)', hand'[k] = hand[k]
          PROVE  Before(chain, m, hand'[k])
      BY <2>2 DEF OrderInv, WriteOrder
    <2>3. ASSUME k = l, hand'[l].log = Head(feed[l]).log,
                 hand'[l].removed = Head(feed[l]).removed
          PROVE  Before(chain, m, hand'[k])
      BY <1>3, <2>1, <2>3 DEF Before
    <2> QED  BY <1>6, <1>7, <2>1, <2>2, <2>3
  <1>12. QueueOrder' /\ SentOrder' /\ FirstCopiesInChainOrder'
    BY <1>1 DEF OrderInv, QueueOrder, SentOrder, FirstCopiesInChainOrder
  <1>13. LateOrder'
    BY <1>1 DEF OrderInv, LateOrder, Current, Past
  <1> QED  BY <1>9, <1>10, <1>11, <1>12, <1>13 DEF OrderInv

\* The message in hand goes to the end of a queue (WriteEnqueue).
LEMMA EnqueueKeepsOrder ==
    ASSUME IInv, IInv', OrderInv, NEW l \in Listener, NEW p \in Partition,
           WriteEnqueue(l, p)
    PROVE  OrderInv'
  <1>1. /\ pc[l] = "write" /\ pc' = [pc EXCEPT ![l] = "await"]
        /\ queue' = [queue EXCEPT ![p] = Append(@, hand[l])]
        /\ UNCHANGED <<chain, feed, hand, inflight, topic, late, dropped>>
    BY DEF WriteEnqueue, Join, chainVars
  <1>2. /\ queue[p] \in Seq(Message) /\ hand[l] \in Message /\ Making(l)
        /\ \A k \in Listener : Making(k)' => Making(k) /\ k # l
    BY <1>1 DEF IInv, TypeOK, Making
  <1>3. /\ queue'[p] = Append(queue[p], hand[l])
        /\ \A q \in Partition : q # p => queue'[q] = queue[q]
    BY <1>1 DEF IInv, TypeOK
  <1>4. /\ DOMAIN queue'[p] = DOMAIN queue[p] \cup {Len(queue[p]) + 1}
        /\ \A i \in DOMAIN queue[p] :
             queue'[p][i] = queue[p][i] /\ i < Len(queue[p]) + 1
        /\ queue'[p][Len(queue[p]) + 1] = hand[l]
        /\ ToSet(queue'[p]) = ToSet(queue[p]) \cup {hand[l]}
        /\ Len(queue[p]) \in Nat /\ DOMAIN queue[p] \subseteq Nat
    <2>1. ToSet(queue'[p]) = ToSet(queue[p]) \cup {hand[l]}
      <3>1. ToSet(Append(queue[p], hand[l])) = ToSet(queue[p]) \cup {hand[l]}
        BY <1>2, AppendSet
      <3> QED  BY <1>3, <3>1
    <2>2. Len(queue[p]) \in Nat /\ DOMAIN queue[p] \subseteq Nat
      BY <1>2
    <2>3. /\ DOMAIN queue'[p] = DOMAIN queue[p] \cup {Len(queue[p]) + 1}
          /\ \A i \in DOMAIN queue[p] :
               queue'[p][i] = queue[p][i] /\ i < Len(queue[p]) + 1
          /\ queue'[p][Len(queue[p]) + 1] = hand[l]
      BY <1>2, <1>3, AppendAt
    <2> QED  BY <2>1, <2>2, <2>3
  <1>5. FeedOrder' /\ HandOrder' /\ FirstCopiesInChainOrder'
    <2>1. FeedOrder'
      BY <1>1 DEF OrderInv, FeedOrder
    <2>2. HandOrder'
      BY <1>1, <1>2 DEF OrderInv, HandOrder
    <2>3. FirstCopiesInChainOrder'
      BY <1>1 DEF OrderInv, FirstCopiesInChainOrder
    <2> QED  BY <2>1, <2>2, <2>3
  <1>6. /\ chain[hand[l].log].contract = l
        /\ \A d \in ToSet(feed[l]) : Before(chain, hand[l], d)
    BY <1>2 DEF OrderInv, HandOrder
  <1>7. \A q \in Partition : \A m \in Accepted(q) : Before(chain, m, hand[l])
    BY <1>2 DEF OrderInv, WriteOrder
  <1>8. WriteOrder'
    <2> SUFFICES ASSUME NEW q \in Partition, NEW k \in Listener,
                        NEW m \in Accepted(q)'
                 PROVE  /\ \A d \in ToSet(feed[k]) : Before(chain, m, d)
                        /\ Making(k)' => Before(chain, m, hand[k])
      BY <1>1 DEF WriteOrder
    <2>0. m \in Accepted(q) \/ m = hand[l]
      <3>1. LateIn(q)' = LateIn(q)
        BY <1>1 DEF LateIn
      <3> QED  BY <1>1, <1>3, <1>4, <3>1 DEF Accepted
    <2>1. CASE m \in Accepted(q)
      BY <1>2, <2>1 DEF OrderInv, WriteOrder
    <2>2. CASE m = hand[l]
      <3>1. CASE k = l
        BY <1>2, <1>6, <2>2, <3>1
      <3>2. CASE k # l
        <4>1. \A d \in ToSet(feed[k]) : chain[d.log].contract = k
          BY DEF IInv, FeedInv, Known
        <4>2. Making(k) => chain[hand[k].log].contract = k
          BY DEF OrderInv, HandOrder
        <4>3. ASSUME NEW d, chain[d.log].contract = k
              PROVE  Before(chain, hand[l], d)
          BY <1>6, <3>2, <4>3 DEF Before
        <4> QED  BY <1>2, <2>2, <4>1, <4>2, <4>3
      <3> QED  BY <3>1, <3>2
    <2> QED  BY <2>0, <2>1, <2>2
  <1>9. QueueOrder'
    <2>0. \A q \in Partition :
            /\ \A i \in DOMAIN queue[q] : queue[q][i] \in ToSet(queue[q])
            /\ ToSet(queue[q]) \subseteq Accepted(q)
      BY DEF ToSet, Accepted
    <2>1. ASSUME NEW q \in Partition, NEW i \in DOMAIN queue'[q],
                 NEW j \in DOMAIN queue'[q], i < j
          PROVE  Before(chain, queue'[q][i], queue'[q][j])
      <3>1. CASE q # p
        BY <1>3, <2>1, <3>1 DEF OrderInv, QueueOrder
      <3>2. CASE q = p
        <4>1. i \in DOMAIN queue[p] /\ queue[p][i] \in ToSet(queue[p])
          BY <1>4, <2>0, <2>1, <3>2
        <4>2. CASE j \in DOMAIN queue[p]
          BY <1>4, <2>1, <3>2, <4>1, <4>2 DEF OrderInv, QueueOrder
        <4>3. CASE j = Len(queue[p]) + 1
          BY <1>4, <1>7, <2>0, <3>2, <4>1, <4>3
        <4> QED  BY <1>4, <3>2, <4>2, <4>3
      <3> QED  BY <3>1, <3>2
    <2>2. ASSUME NEW q \in Partition, NEW m \in ToSet(queue[q])
          PROVE  DeliveryOf(m) # DeliveryOf(hand[l])
      <3>1. Before(chain, m, hand[l])
        BY <1>7, <2>0
      <3> QED  BY <3>1 DEF Before, DeliveryOf
    <2>3. ASSUME NEW q \in Partition, NEW r \in Partition, q # r,
                 NEW m \in ToSet(queue'[q]), NEW n \in ToSet(queue'[r])
          PROVE  DeliveryOf(m) # DeliveryOf(n)
      <3>1. m \in ToSet(queue[q]) \/ (q = p /\ m = hand[l])
        BY <1>3, <1>4
      <3>2. n \in ToSet(queue[r]) \/ (r = p /\ n = hand[l])
        BY <1>3, <1>4
      <3> QED  BY <2>2, <2>3, <3>1, <3>2 DEF OrderInv, QueueOrder
    <2> QED  BY <1>1, <2>1, <2>3 DEF QueueOrder
  <1>10. SentOrder'
    <2> SUFFICES ASSUME NEW q \in Partition, NEW i \in DOMAIN topic[q],
                        NEW k \in DOMAIN queue'[q],
                        Overtaken(chain, topic[q][i], queue'[q][k])
                 PROVE  \E j \in 1..(i - 1) : topic[q][j] = queue'[q][k]
      BY <1>1 DEF SentOrder
    <2>1. CASE k \in DOMAIN queue[q] /\ queue'[q][k] = queue[q][k]
      BY <2>1 DEF OrderInv, SentOrder
    <2>2. CASE queue'[q][k] = hand[l]
      <3>1. topic[q][i] \in Accepted(q)
        BY DEF ToSet, Accepted
      <3>2. Before(chain, topic[q][i], hand[l])
        BY <1>7, <3>1
      <3>3. Overtaken(chain, topic[q][i], hand[l])
        BY <2>2
      <3>4. topic[q][i].log < hand[l].log /\ hand[l].log < topic[q][i].log
        BY <3>2, <3>3 DEF Before, Overtaken
      <3>5. topic[q] \in Seq(Message)
        BY DEF IInv, TypeOK
      <3>6. topic[q][i] \in Message
        BY <3>5
      <3>7. topic[q][i].log \in Nat /\ hand[l].log \in Nat
        BY <1>2, <3>6 DEF Message
      <3> QED  BY <3>4, <3>7
    <2> QED  BY <1>3, <1>4, <2>1, <2>2
  <1>11. LateOrder'
    <2> SUFFICES ASSUME NEW r \in late  PROVE Current(r)' \/ Past(r)'
      BY <1>1 DEF OrderInv, LateOrder
    <2>1. r.part \in Partition
      BY DEF IInv, TypeOK, Request
    <2>2. CASE Current(r)
      <3>1. /\ \A k \in DOMAIN r.batch : queue'[r.part][k] = queue[r.part][k]
            /\ Len(queue'[r.part]) >= Len(queue[r.part])
            /\ Len(queue'[r.part]) \in Nat /\ Len(queue[r.part]) \in Nat
        <4>1. \A k \in DOMAIN r.batch : k \in DOMAIN queue[r.part]
          BY <2>2, CurrentQueued
        <4>2. /\ queue[r.part] \in Seq(Message) /\ queue'[r.part] \in Seq(Message)
              /\ r.part = p => Len(queue'[p]) = Len(queue[p]) + 1
          BY <1>2, <1>3, <2>1, AppendAt DEF IInv, TypeOK
        <4> QED  BY <1>3, <1>4, <2>1, <4>1, <4>2, SMTT(60)
      <3> QED  BY <1>1, <2>2, <3>1 DEF Current
    <2>3. CASE Past(r)
      <3> SUFFICES ASSUME NEW m \in ToSet(r.batch), NEW k \in DOMAIN queue'[r.part]
                   PROVE  Before(chain, m, queue'[r.part][k])
        BY <1>1, <2>3 DEF Past
      <3>1. m \in Accepted(r.part)
        BY DEF Accepted, LateIn
      <3>2. CASE k \in DOMAIN queue[r.part] /\ queue'[r.part][k] = queue[r.part][k]
        BY <2>3, <3>2 DEF Past
      <3>3. CASE queue'[r.part][k] = hand[l]
        BY <1>7, <2>1, <3>1, <3>3
      <3> QED  BY <1>3, <1>4, <2>1, <3>2, <3>3
    <2> QED  BY <2>2, <2>3 DEF OrderInv, LateOrder
  <1> QED  BY <1>5, <1>8, <1>9, <1>10, <1>11 DEF OrderInv

\* What comes before has not been overtaken, and nothing overtakes itself.
LEMMA NoOvertaking ==
    ASSUME NEW ch, NEW a \in Message, NEW b \in Message,
           Before(ch, a, b) \/ a = b
    PROVE  ~ Overtaken(ch, a, b)
  <1>1. a.log \in Nat /\ b.log \in Nat
    BY DEF Message
  <1> QED  BY <1>1 DEF Before, Overtaken

\* In a queue nothing has been overtaken.
LEMMA QueueInOrder ==
    ASSUME IInv, OrderInv, NEW p \in Partition,
           NEW i \in DOMAIN queue[p], NEW j \in DOMAIN queue[p], i <= j
    PROVE  ~ Overtaken(chain, queue[p][i], queue[p][j])
  <1>1. queue[p] \in Seq(Message)
    BY DEF IInv, TypeOK
  <1>2. i < j \/ i = j
    BY <1>1
  <1>3. Before(chain, queue[p][i], queue[p][j]) \/ queue[p][i] = queue[p][j]
    BY <1>2 DEF OrderInv, QueueOrder
  <1>4. queue[p][i] \in Message /\ queue[p][j] \in Message
    BY <1>1
  <1> QED  BY <1>3, <1>4, NoOvertaking

\* What sending a batch does to topic and queue, place by place: the topic stays
\* or has the batch at its end, the batch may become a late request instead, the
\* queue stays or loses its first n messages, and nothing else is made.
LEMMA SendMoves ==
    ASSUME IInv, NEW p \in Partition, NEW n \in 1..Len(queue[p]),
           SendAcked(p, n) \/ SendRetried(p, n) \/ SendAbandoned(p, n)
    PROVE  /\ \A i \in DOMAIN topic[p] :
                i \in DOMAIN topic'[p] /\ topic'[p][i] = topic[p][i]
           /\ \/ topic' = topic
              \/ /\ \A q \in Partition : q # p => topic'[q] = topic[q]
                 /\ Len(topic'[p]) = Len(topic[p]) + n
                 /\ \A k \in 1..n : /\ Len(topic[p]) + k \in DOMAIN topic'[p]
                                    /\ topic'[p][Len(topic[p]) + k] = queue[p][k]
                 /\ \A i \in DOMAIN topic'[p] :
                      i \in DOMAIN topic[p] \/ \E k \in 1..n : i = Len(topic[p]) + k
           /\ \/ queue' = queue
              \/ /\ \A q \in Partition : q # p => queue'[q] = queue[q]
                 /\ Len(queue'[p]) = Len(queue[p]) - n
                 /\ \A k \in DOMAIN queue'[p] :
                      k + n \in DOMAIN queue[p] /\ queue'[p][k] = queue[p][k + n]
           /\ \/ late' = late
              \/ /\ topic' = topic
                 /\ \E r : /\ late' = late \cup {r} /\ r.part = p
                          /\ Len(r.batch) = n /\ DOMAIN r.batch = 1..n
                          /\ \A k \in 1..n : r.batch[k] = queue[p][k]
           /\ \A l \in Listener : Making(l)' => Making(l) /\ hand'[l] = hand[l]
           /\ UNCHANGED <<chain, feed>> /\ dropped \subseteq dropped'
  <1>1. queue[p] \in Seq(Message) /\ topic[p] \in Seq(Message)
    BY DEF IInv, TypeOK
  <1>2. /\ Batch(p, n) \in Seq(Message) /\ Len(Batch(p, n)) = n
        /\ \A k \in 1..n : Batch(p, n)[k] = queue[p][k]
        /\ Remaining(queue[p], n) \in Seq(Message)
        /\ Len(Remaining(queue[p], n)) = Len(queue[p]) - n
        /\ \A k \in 1..(Len(queue[p]) - n) :
             Remaining(queue[p], n)[k] = queue[p][n + k]
    BY <1>1, SplitAt DEF Batch
  <1>3. /\ UNCHANGED <<chain, feed>> /\ dropped \subseteq dropped'
        /\ UNCHANGED <<topic, late>> \/ Appended(p, n) \/ Delayed(p, n)
        /\ UNCHANGED <<queue, pc, hand>> \/ Complete(p, n)
    BY DEF SendAcked, SendRetried, SendAbandoned, chainVars, listenerVars
  <1>8. \/ late' = late
        \/ /\ topic' = topic
           /\ \E r : /\ late' = late \cup {r} /\ r.part = p
                    /\ Len(r.batch) = n /\ DOMAIN r.batch = 1..n
                    /\ \A k \in 1..n : r.batch[k] = queue[p][k]
    <2>1. CASE Delayed(p, n)
      <3> DEFINE r == [part |-> p, batch |-> Batch(p, n), attempt |-> tries[p]]
      <3>1. late' = late \cup {r} /\ topic' = topic
        BY <2>1 DEF Delayed
      <3>2. /\ r.part = p /\ Len(r.batch) = n /\ DOMAIN r.batch = 1..n
            /\ \A k \in 1..n : r.batch[k] = queue[p][k]
        BY <1>2
      <3> HIDE DEF r
      <3> QED  BY <3>1, <3>2
    <2> QED  BY <1>3, <2>1 DEF Appended
  <1>4. ASSUME Appended(p, n)
        PROVE  /\ \A i \in DOMAIN topic[p] :
                    i \in DOMAIN topic'[p] /\ topic'[p][i] = topic[p][i]
               /\ \A q \in Partition : q # p => topic'[q] = topic[q]
               /\ Len(topic'[p]) = Len(topic[p]) + n
               /\ \A k \in 1..n : /\ Len(topic[p]) + k \in DOMAIN topic'[p]
                                  /\ topic'[p][Len(topic[p]) + k] = queue[p][k]
               /\ \A i \in DOMAIN topic'[p] :
                    i \in DOMAIN topic[p] \/ \E k \in 1..n : i = Len(topic[p]) + k
    <2> DEFINE t == topic[p] \o Batch(p, n)
    <2>1. /\ topic'[p] = t
          /\ \A q \in Partition : q # p => topic'[q] = topic[q]
      BY <1>4 DEF Appended, IInv, TypeOK
    <2>2. DOMAIN Batch(p, n) = 1..n
      BY <1>2
    <2>3. /\ Len(t) = Len(topic[p]) + n
          /\ \A i \in DOMAIN topic[p] : i \in DOMAIN t /\ t[i] = topic[p][i]
          /\ \A k \in 1..n : /\ Len(topic[p]) + k \in DOMAIN t
                             /\ t[Len(topic[p]) + k] = Batch(p, n)[k]
          /\ \A i \in DOMAIN t :
               i \in DOMAIN topic[p] \/ \E k \in 1..n : i = Len(topic[p]) + k
      <3> DEFINE b == Batch(p, n)
      <3>1. topic[p] \in Seq(Message) /\ b \in Seq(Message)
        BY <1>1, <1>2
      <3>2. Len(b) = n /\ DOMAIN b = 1..n
        BY <1>2, <2>2
      <3> HIDE DEF b
      <3>3. /\ Len(topic[p] \o b) = Len(topic[p]) + Len(b)
            /\ \A i \in DOMAIN topic[p] :
                 i \in DOMAIN (topic[p] \o b) /\ (topic[p] \o b)[i] = topic[p][i]
            /\ \A k \in DOMAIN b : /\ Len(topic[p]) + k \in DOMAIN (topic[p] \o b)
                                   /\ (topic[p] \o b)[Len(topic[p]) + k] = b[k]
            /\ \A i \in DOMAIN (topic[p] \o b) :
                 i \in DOMAIN topic[p] \/ \E k \in DOMAIN b : i = Len(topic[p]) + k
        BY <3>1, ConcatAt
      <3> QED  BY <3>2, <3>3 DEF b
    <2> HIDE DEF t
    <2> QED  BY <1>2, <2>1, <2>3
  <1>5. ASSUME Complete(p, n)
        PROVE  /\ \A q \in Partition : q # p => queue'[q] = queue[q]
               /\ Len(queue'[p]) = Len(queue[p]) - n
               /\ \A k \in DOMAIN queue'[p] :
                    k + n \in DOMAIN queue[p] /\ queue'[p][k] = queue[p][k + n]
               /\ \A l \in Listener : Making(l)' => Making(l) /\ hand'[l] = hand[l]
    <2>1. /\ queue'[p] = Remaining(queue[p], n)
          /\ \A q \in Partition : q # p => queue'[q] = queue[q]
      BY <1>5 DEF Complete, IInv, TypeOK
    <2>2. \A k \in DOMAIN queue'[p] :
            k + n \in DOMAIN queue[p] /\ queue'[p][k] = queue[p][k + n]
      <3> SUFFICES ASSUME NEW k \in DOMAIN queue'[p]
                   PROVE  k + n \in DOMAIN queue[p] /\ queue'[p][k] = queue[p][k + n]
        OBVIOUS
      <3>1. k \in 1..(Len(queue[p]) - n) /\ Len(queue[p]) \in Nat
        BY <1>1, <1>2, <2>1
      <3>2. k + n \in 1..Len(queue[p]) /\ n + k = k + n
        BY <3>1
      <3> QED  BY <1>1, <1>2, <2>1, <3>1, <3>2
    <2>3. \A l \in Listener : Making(l)' => Making(l) /\ hand'[l] = hand[l]
      BY <1>5 DEF Complete, Making, Waiting, IInv, TypeOK
    <2>4. Len(queue'[p]) = Len(queue[p]) - n
      BY <1>2, <2>1
    <2> QED  BY <2>1, <2>2, <2>3, <2>4
  <1>6. UNCHANGED <<queue, pc, hand>> =>
          \A l \in Listener : Making(l)' => Making(l) /\ hand'[l] = hand[l]
    BY DEF Making
  <1>7. UNCHANGED topic =>
          \A i \in DOMAIN topic[p] :
              i \in DOMAIN topic'[p] /\ topic'[p][i] = topic[p][i]
    OBVIOUS
  <1> QED  BY <1>3, <1>4, <1>5, <1>6, <1>7, <1>8 DEF Delayed

\* A send that goes on makes late requests only of its batch; one that ends moves
\* the batch to the topic or gives it up (Send).
LEMMA SendKeepsLate ==
    ASSUME IInv, IInv', OrderInv, NEW p \in Partition, NEW n \in 1..Len(queue[p]),
           SendAcked(p, n) \/ SendRetried(p, n) \/ SendAbandoned(p, n)
    PROVE  LateOrder'
  <1>1. /\ queue[p] \in Seq(Message) /\ Len(queue[p]) \in Nat
        /\ topic[p] \in Seq(Message) /\ topic'[p] \in Seq(Message)
        /\ DOMAIN queue[p] = 1..Len(queue[p])
        /\ \A r \in late' : r.part \in Partition
    BY DEF IInv, TypeOK, Request
  <1>2. /\ \A i \in DOMAIN topic[p] :
             i \in DOMAIN topic'[p] /\ topic'[p][i] = topic[p][i]
        /\ \/ topic' = topic
           \/ /\ \A q \in Partition : q # p => topic'[q] = topic[q]
              /\ \A k \in 1..n : /\ Len(topic[p]) + k \in DOMAIN topic'[p]
                                 /\ topic'[p][Len(topic[p]) + k] = queue[p][k]
        /\ UNCHANGED chain /\ dropped \subseteq dropped'
    BY SendMoves
  <1>3. \A q \in Partition : ToSet(topic[q]) \subseteq ToSet(topic'[q])
    BY <1>2 DEF ToSet
  <1>4. ASSUME NEW r, r \in late \/ (r.part = p /\ DOMAIN r.batch = 1..n
                                     /\ \A k \in 1..n : r.batch[k] = queue[p][k])
        PROVE  \A i, j \in DOMAIN r.batch : i < j => Before(chain, r.batch[i], r.batch[j])
    <2>1. CASE r \in late
      BY <2>1 DEF OrderInv, LateOrder
    <2>2. CASE r.part = p /\ DOMAIN r.batch = 1..n
                 /\ \A k \in 1..n : r.batch[k] = queue[p][k]
      <3>1. 1..n \subseteq DOMAIN queue[p]
        BY <1>1
      <3> QED  BY <2>2, <3>1 DEF OrderInv, QueueOrder
    <2> QED  BY <1>4, <2>1, <2>2
  <1>5. \A r \in late' : r \in late \/ (/\ r.part = p /\ DOMAIN r.batch = 1..n
                                       /\ Len(r.batch) = n
                                       /\ \A k \in 1..n : r.batch[k] = queue[p][k])
    BY SendMoves
  <1>6. \A r \in late' : \A i, j \in DOMAIN r.batch :
          i < j => Before(chain', r.batch[i], r.batch[j])
    BY <1>2, <1>4, <1>5
  <1>7. ASSUME SendRetried(p, n), NEW r \in late'
        PROVE  Current(r)' \/ Past(r)'
    <2>1. /\ queue' = queue /\ inflight' = [inflight EXCEPT ![p] = n]
          /\ inflight[p] = 0 \/ inflight[p] = n
      BY <1>7 DEF SendRetried, Sendable
    <2>2. /\ inflight'[p] = n
          /\ \A q \in Partition : q # p => inflight'[q] = inflight[q]
      BY <2>1 DEF IInv, TypeOK
    <2>3. CASE r \in late /\ Current(r)
      <3>1. inflight'[r.part] = inflight[r.part]
        BY <1>1, <2>1, <2>2, <2>3 DEF Current
      <3> QED  BY <2>1, <2>3, <3>1 DEF Current
    <2>4. CASE r \in late /\ Past(r)
      BY <1>1, <1>2, <1>3, <2>1, <2>4 DEF Past
    <2>5. CASE /\ r.part = p /\ DOMAIN r.batch = 1..n /\ Len(r.batch) = n
               /\ \A k \in 1..n : r.batch[k] = queue[p][k]
      BY <1>1, <2>1, <2>2, <2>5 DEF Current
    <2> QED  BY <1>5, <2>3, <2>4, <2>5 DEF OrderInv, LateOrder
  <1>8. ASSUME SendAcked(p, n) \/ SendAbandoned(p, n), NEW r \in late'
        PROVE  Current(r)' \/ Past(r)'
    <2>1. /\ queue'[p] = Remaining(queue[p], n)
          /\ \A q \in Partition : q # p => queue'[q] = queue[q] /\ inflight'[q] = inflight[q]
          /\ inflight[p] = 0 \/ inflight[p] = n
      <3>1. Complete(p, n) /\ Sendable(p, n)
        BY <1>8 DEF SendAcked, SendAbandoned
      <3>2. /\ queue' = [queue EXCEPT ![p] = Remaining(@, n)]
            /\ inflight' = [inflight EXCEPT ![p] = 0]
        BY <3>1 DEF Complete
      <3> QED  BY <3>1, <3>2 DEF Sendable, IInv, TypeOK
    <2>2. \A k \in DOMAIN queue'[p] :
            k + n \in DOMAIN queue[p] /\ queue'[p][k] = queue[p][k + n] /\ k \in Nat \ {0}
      <3>1. /\ Remaining(queue[p], n) \in Seq(Message)
            /\ Len(Remaining(queue[p], n)) = Len(queue[p]) - n
            /\ \A k \in 1..(Len(queue[p]) - n) :
                 Remaining(queue[p], n)[k] = queue[p][n + k]
        BY <1>1, SplitAt, ZenonT(60)
      <3> SUFFICES ASSUME NEW k \in DOMAIN queue'[p]
                   PROVE  /\ k + n \in DOMAIN queue[p] /\ queue'[p][k] = queue[p][k + n]
                          /\ k \in Nat \ {0}
        OBVIOUS
      <3>2. k \in 1..(Len(queue[p]) - n) /\ n \in Nat
        BY <1>1, <2>1, <3>1
      <3>3. k + n \in 1..Len(queue[p]) /\ n + k = k + n /\ k \in Nat \ {0}
        BY <1>1, <3>2
      <3> QED  BY <1>1, <2>1, <3>1, <3>2, <3>3
    <2>3. CASE r \in late /\ r.part # p
      <3>1. r.part \in Partition
        BY <1>1
      <3>2. /\ queue'[r.part] = queue[r.part] /\ inflight'[r.part] = inflight[r.part]
            /\ ToSet(topic[r.part]) \subseteq ToSet(topic'[r.part])
        BY <1>3, <2>1, <2>3, <3>1
      <3>3. CASE Current(r)
        BY <3>2, <3>3 DEF Current
      <3>4. CASE Past(r)
        BY <1>2, <3>2, <3>4 DEF Past
      <3> QED  BY <2>3, <3>3, <3>4 DEF OrderInv, LateOrder
    <2>4. CASE r \in late /\ r.part = p /\ Past(r)
      BY <1>2, <1>3, <2>2, <2>4 DEF Past
    <2>5. CASE /\ r.part = p /\ DOMAIN r.batch = 1..n
               /\ \A k \in 1..n : r.batch[k] = queue[p][k]
      <3> SUFFICES ASSUME NEW h \in 1..n
                   PROVE  /\ \/ queue[p][h] \in ToSet(topic'[p])
                             \/ DeliveryOf(queue[p][h]) \in dropped'
                          /\ \A k \in DOMAIN queue'[p] :
                               Before(chain', queue[p][h], queue'[p][k])
        BY <2>5 DEF Past, ToSet
      <3>1. h \in DOMAIN queue[p] /\ h \in Nat
        BY <1>1
      <3>2. \A k \in DOMAIN queue'[p] : Before(chain', queue[p][h], queue'[p][k])
        <4> SUFFICES ASSUME NEW k \in DOMAIN queue'[p]
                     PROVE  Before(chain, queue[p][h], queue[p][k + n])
          BY <1>2, <2>2
        <4>1. h < k + n /\ k + n \in DOMAIN queue[p]
          BY <2>2
        <4> QED  BY <3>1, <4>1 DEF OrderInv, QueueOrder
      <3>3. CASE SendAcked(p, n)
        <4>1. topic' = [topic EXCEPT ![p] = @ \o Batch(p, n)]
          BY <3>3 DEF SendAcked, Appended
        <4>2. topic'[p] = topic[p] \o Batch(p, n)
          BY <4>1 DEF IInv, TypeOK
        <4>3. /\ Batch(p, n) \in Seq(Message) /\ DOMAIN Batch(p, n) = 1..n
              /\ Batch(p, n)[h] = queue[p][h]
          BY <1>1, SplitAt DEF Batch
        <4>4. queue[p][h] \in ToSet(Batch(p, n))
          BY <4>3 DEF ToSet
        <4>5. queue[p][h] \in ToSet(topic'[p])
          BY <1>1, <4>2, <4>3, <4>4, ConcatHolds
        <4> QED  BY <3>2, <4>5
      <3>4. CASE SendAbandoned(p, n)
        <4>1. dropped' = dropped \cup {DeliveryOf(m) : m \in ToSet(Batch(p, n))}
          BY <3>4 DEF SendAbandoned
        <4>2. DOMAIN Batch(p, n) = 1..n /\ Batch(p, n)[h] = queue[p][h]
          BY <1>1, SplitAt DEF Batch
        <4>3. queue[p][h] \in ToSet(Batch(p, n))
          BY <4>2 DEF ToSet
        <4> QED  BY <3>2, <4>1, <4>3
      <3> QED  BY <1>8, <3>3, <3>4
    <2>6. ASSUME r \in late, r.part = p, Current(r)
          PROVE  DOMAIN r.batch = 1..n /\ \A k \in 1..n : r.batch[k] = queue[p][k]
      <3>1. r.batch \in Seq(Message)
        BY <2>6 DEF IInv, TypeOK, Request
      <3>2. Len(r.batch) = n
        BY <2>1, <2>6 DEF Current
      <3>3. DOMAIN r.batch = 1..n
        BY <3>1, <3>2
      <3> QED  BY <2>6, <3>3 DEF Current
    <2> QED  BY <1>5, <2>3, <2>4, <2>5, <2>6 DEF OrderInv, LateOrder
  <1> QED  BY <1>6, <1>7, <1>8 DEF LateOrder

\* A batch that is sent, sent again or done with (Send).
LEMMA SendKeepsOrder ==
    ASSUME IInv, IInv', OrderInv, NEW p \in Partition, Send(p)
    PROVE  OrderInv'
  <1>1. PICK n \in 1..Len(queue[p]) :
          SendAcked(p, n) \/ SendRetried(p, n) \/ SendAbandoned(p, n)
    BY DEF Send
  <1>2. /\ \A i \in DOMAIN topic[p] :
             i \in DOMAIN topic'[p] /\ topic'[p][i] = topic[p][i]
        /\ \/ topic' = topic
           \/ /\ \A q \in Partition : q # p => topic'[q] = topic[q]
              /\ Len(topic'[p]) = Len(topic[p]) + n
              /\ \A k \in 1..n : /\ Len(topic[p]) + k \in DOMAIN topic'[p]
                                 /\ topic'[p][Len(topic[p]) + k] = queue[p][k]
              /\ \A i \in DOMAIN topic'[p] :
                   i \in DOMAIN topic[p] \/ \E k \in 1..n : i = Len(topic[p]) + k
        /\ \/ queue' = queue
           \/ /\ \A q \in Partition : q # p => queue'[q] = queue[q]
              /\ Len(queue'[p]) = Len(queue[p]) - n
              /\ \A k \in DOMAIN queue'[p] :
                   k + n \in DOMAIN queue[p] /\ queue'[p][k] = queue[p][k + n]
        /\ \A l \in Listener : Making(l)' => Making(l) /\ hand'[l] = hand[l]
        /\ UNCHANGED <<chain, feed>> /\ dropped \subseteq dropped'
    BY <1>1, SendMoves
  <1>3. /\ queue[p] \in Seq(Message) /\ topic[p] \in Seq(Message)
        /\ DOMAIN queue[p] = 1..Len(queue[p]) /\ DOMAIN topic[p] = 1..Len(topic[p])
        /\ Len(queue[p]) \in Nat /\ Len(topic[p]) \in Nat /\ n \in Nat
        /\ \A k \in DOMAIN queue[p] : queue[p][k] \in Message
        /\ \A i \in DOMAIN topic[p] : topic[p][i] \in Message
        /\ \A q \in Partition : DOMAIN queue'[q] \subseteq Nat
    <2>1. /\ queue[p] \in Seq(Message) /\ topic[p] \in Seq(Message)
          /\ \A q \in Partition : queue'[q] \in Seq(Message)
      BY DEF IInv, TypeOK
    <2> QED  BY <2>1
  <1>4. \A i \in DOMAIN topic'[p] :
          \/ i \in DOMAIN topic[p] /\ topic'[p][i] = topic[p][i]
          \/ \E k \in 1..n : /\ i = Len(topic[p]) + k
                             /\ topic'[p][i] = queue[p][k]
                             /\ topic' # topic
    BY <1>2, ZenonT(60)
  <1>5. PICK s \in {0, n} : \A k \in DOMAIN queue'[p] :
          k + s \in DOMAIN queue[p] /\ queue'[p][k] = queue[p][k + s]
    <2>1. CASE queue' = queue
      <3>1. \A k \in DOMAIN queue'[p] : k + 0 = k
        BY <1>3
      <3> QED  BY <2>1, <3>1
    <2>2. CASE \A k \in DOMAIN queue'[p] :
                 k + n \in DOMAIN queue[p] /\ queue'[p][k] = queue[p][k + n]
      BY <2>2
    <2> QED  BY <1>2, <2>1, <2>2
  <1>6. \A q \in Partition : q # p => topic'[q] = topic[q] /\ queue'[q] = queue[q]
    BY <1>2
  <1>7. \A q \in Partition :
          /\ ToSet(queue'[q]) \subseteq ToSet(queue[q])
          /\ ToSet(topic'[q]) \subseteq ToSet(topic[q]) \cup ToSet(queue[q])
    <2>1. \A k \in DOMAIN queue'[p] : queue'[p][k] \in ToSet(queue[p])
      BY <1>5 DEF ToSet
    <2>2. \A i \in DOMAIN topic'[p] :
            topic'[p][i] \in ToSet(topic[p]) \cup ToSet(queue[p])
      BY <1>3, <1>4, SMTT(60) DEF ToSet
    <2>3. /\ ToSet(queue'[p]) \subseteq ToSet(queue[p])
          /\ ToSet(topic'[p]) \subseteq ToSet(topic[p]) \cup ToSet(queue[p])
      BY <2>1, <2>2 DEF ToSet
    <2> QED  BY <1>6, <2>3
  <1>8. FeedOrder' /\ HandOrder'
    <2>1. FeedOrder'
      BY <1>2 DEF OrderInv, FeedOrder
    <2>2. HandOrder'
      BY <1>2 DEF OrderInv, HandOrder
    <2> QED  BY <2>1, <2>2
  <1>9. WriteOrder'
    <2>1. \A q \in Partition : LateIn(q)' \subseteq LateIn(q) \cup ToSet(queue[q])
      <3> SUFFICES ASSUME NEW q \in Partition, NEW r \in late', r.part = q,
                          NEW m \in ToSet(r.batch)
                   PROVE  m \in LateIn(q) \cup ToSet(queue[q])
        BY DEF LateIn
      <3>1. CASE r \in late
        BY <3>1 DEF LateIn
      <3>2. CASE /\ r.part = p /\ DOMAIN r.batch = 1..n
                 /\ \A k \in 1..n : r.batch[k] = queue[p][k]
        <4>1. 1..n \subseteq DOMAIN queue[p]
          BY <1>3
        <4> QED  BY <3>2, <4>1 DEF ToSet
      <3> QED  BY <1>1, <3>1, <3>2, SendMoves
    <2>2. \A q \in Partition : Accepted(q)' \subseteq Accepted(q)
      BY <1>7, <2>1 DEF Accepted
    <2> QED  BY <1>2, <2>2 DEF OrderInv, WriteOrder
  <1>10. QueueOrder'
    <2>1. ASSUME NEW q \in Partition, NEW i \in DOMAIN queue'[q],
                 NEW j \in DOMAIN queue'[q], i < j
          PROVE  Before(chain, queue'[q][i], queue'[q][j])
      <3>1. CASE q # p
        BY <1>6, <2>1, <3>1 DEF OrderInv, QueueOrder
      <3>2. CASE q = p
        <4>1. /\ i + s \in DOMAIN queue[p] /\ j + s \in DOMAIN queue[p]
              /\ queue'[p][i] = queue[p][i + s] /\ queue'[p][j] = queue[p][j + s]
          BY <1>5, <3>2
        <4>2. i + s < j + s
          BY <1>3, <2>1
        <4> QED  BY <3>2, <4>1, <4>2 DEF OrderInv, QueueOrder
      <3> QED  BY <3>1, <3>2
    <2>2. \A q, r \in Partition : q # r =>
            \A m \in ToSet(queue'[q]), o \in ToSet(queue'[r]) :
                DeliveryOf(m) # DeliveryOf(o)
      BY <1>7 DEF OrderInv, QueueOrder
    <2> QED  BY <1>2, <2>1, <2>2 DEF QueueOrder
  <1>11. \A i, j \in DOMAIN queue[p] :
           i <= j => ~ Overtaken(chain, queue[p][i], queue[p][j])
    BY QueueInOrder
  <1>12. \A i \in DOMAIN topic[p], k \in DOMAIN queue[p] :
           Overtaken(chain, topic[p][i], queue[p][k])
             => \E j \in 1..(i - 1) : topic[p][j] = queue[p][k]
    BY DEF OrderInv, SentOrder
  <1>13. SentOrder'
    <2> SUFFICES ASSUME NEW q \in Partition, NEW i \in DOMAIN topic'[q],
                        NEW k \in DOMAIN queue'[q],
                        Overtaken(chain, topic'[q][i], queue'[q][k])
                 PROVE  \E j \in 1..(i - 1) : topic'[q][j] = queue'[q][k]
      BY <1>2 DEF SentOrder
    <2>1. CASE q # p
      BY <1>6, <2>1 DEF OrderInv, SentOrder
    <2>2. CASE q = p
      <3>1. k + s \in DOMAIN queue[p] /\ queue'[p][k] = queue[p][k + s]
        BY <1>5, <2>2
      <3>2. CASE i \in DOMAIN topic[p] /\ topic'[p][i] = topic[p][i]
        <4>1. PICK j \in 1..(i - 1) : topic[p][j] = queue[p][k + s]
          BY <1>12, <2>2, <3>1, <3>2
        <4>2. j \in DOMAIN topic[p]
          BY <1>3, <3>2, <4>1
        <4> QED  BY <1>2, <2>2, <3>1, <4>1, <4>2
      <3>3. ASSUME NEW h \in 1..n, i = Len(topic[p]) + h,
                   topic'[p][i] = queue[p][h], topic' # topic
            PROVE  \E j \in 1..(i - 1) : topic'[p][j] = queue[p][k + s]
        <4>1. h \in DOMAIN queue[p]
          BY <1>3
        <4>2. ~ (h <= k + s)
          BY <1>11, <2>2, <3>1, <3>3, <4>1
        <4>3. k + s \in 1..n /\ k + s < h
          BY <1>3, <3>1, <4>1, <4>2
        <4>4. topic'[p][Len(topic[p]) + (k + s)] = queue[p][k + s]
          BY <1>2, <3>3, <4>3
        <4>5. Len(topic[p]) + (k + s) \in 1..(i - 1)
          BY <1>3, <3>3, <4>3
        <4> QED  BY <4>4, <4>5
      <3> QED  BY <1>4, <2>2, <3>1, <3>2, <3>3
    <2> QED  BY <2>1, <2>2
  <1>14. FirstCopiesInChainOrder'
    <2> SUFFICES ASSUME NEW q \in Partition, NEW i \in DOMAIN topic'[q],
                        NEW j \in DOMAIN topic'[q], i < j,
                        Overtaken(chain, topic'[q][i], topic'[q][j])
                 PROVE  \/ \E k \in 1..(i - 1) : topic'[q][k] = topic'[q][j]
                        \/ DeliveryOf(topic'[q][j]) \in dropped'
      BY <1>2 DEF FirstCopiesInChainOrder, Overtaken
    <2>1. CASE q # p
      BY <1>2, <1>6, <2>1 DEF OrderInv, FirstCopiesInChainOrder, Overtaken
    <2>2. CASE q = p
      <3>1. ASSUME i \in DOMAIN topic[p], topic'[p][i] = topic[p][i],
                   NEW m, m = topic'[p][j],
                   \E k \in 1..(i - 1) : topic[p][k] = m
            PROVE  \E k \in 1..(i - 1) : topic'[p][k] = topic'[p][j]
        <4>1. PICK k \in 1..(i - 1) : topic[p][k] = m
          BY <3>1
        <4>2. k \in DOMAIN topic[p]
          BY <1>3, <3>1, <4>1
        <4> QED  BY <1>2, <3>1, <4>1, <4>2
      <3>2. CASE /\ i \in DOMAIN topic[p] /\ topic'[p][i] = topic[p][i]
                 /\ j \in DOMAIN topic[p] /\ topic'[p][j] = topic[p][j]
        <4>1. \/ \E k \in 1..(i - 1) : topic[p][k] = topic[p][j]
              \/ DeliveryOf(topic[p][j]) \in dropped
          BY <2>2, <3>2 DEF OrderInv, FirstCopiesInChainOrder, Overtaken
        <4> QED  BY <1>2, <2>2, <3>1, <3>2, <4>1
      <3>3. ASSUME i \in DOMAIN topic[p], topic'[p][i] = topic[p][i],
                   NEW h \in 1..n, topic'[p][j] = queue[p][h]
            PROVE  \E k \in 1..(i - 1) : topic'[p][k] = topic'[p][j]
        <4>1. h \in DOMAIN queue[p]
          BY <1>3
        <4>2. \E k \in 1..(i - 1) : topic[p][k] = queue[p][h]
          BY <1>12, <2>2, <3>3, <4>1
        <4> QED  BY <3>1, <3>3, <4>2
      <3>4. ASSUME NEW g \in 1..n, i = Len(topic[p]) + g, topic'[p][i] = queue[p][g],
                   NEW h \in 1..n, j = Len(topic[p]) + h, topic'[p][j] = queue[p][h]
            PROVE  FALSE
        <4>1. g \in DOMAIN queue[p] /\ h \in DOMAIN queue[p] /\ g <= h
          BY <1>3, <3>4
        <4> QED  BY <1>11, <2>2, <3>4, <4>1
      <3>5. ASSUME NEW g \in 1..n, i = Len(topic[p]) + g, j \in DOMAIN topic[p]
            PROVE  FALSE
        BY <1>3, <3>5
      <3> QED  BY <1>4, <2>2, <3>2, <3>3, <3>4, <3>5
    <2> QED  BY <2>1, <2>2
  <1>15. LateOrder'
    BY <1>1, SendKeepsLate
  <1> QED  BY <1>8, <1>9, <1>10, <1>13, <1>14, <1>15 DEF OrderInv

\* What a late request does to the topic, place by place.
LEMMA LateMoves ==
    ASSUME IInv, NEW r \in late, LateAppend(r), NEW p, p = r.part
    PROVE  /\ p \in Partition
           /\ \A q \in Partition : q # p => topic'[q] = topic[q]
           /\ \A i \in DOMAIN topic[p] :
                i \in DOMAIN topic'[p] /\ topic'[p][i] = topic[p][i]
           /\ \A k \in DOMAIN r.batch : /\ Len(topic[p]) + k \in DOMAIN topic'[p]
                                         /\ topic'[p][Len(topic[p]) + k] = r.batch[k]
           /\ \A i \in DOMAIN topic'[p] :
                i \in DOMAIN topic[p] \/ \E k \in DOMAIN r.batch : i = Len(topic[p]) + k
           /\ late' = late \ {r}
           /\ UNCHANGED <<chain, pc, feed, hand, queue, inflight, tries, dropped>>
  <1>1. p \in Partition /\ r.batch \in Seq(Message) /\ topic[p] \in Seq(Message)
    BY DEF IInv, TypeOK, Request
  <1>2. /\ topic' = [topic EXCEPT ![p] = @ \o r.batch] /\ late' = late \ {r}
        /\ UNCHANGED <<chain, pc, feed, hand, queue, inflight, tries, dropped>>
    BY DEF LateAppend, chainVars, listenerVars
  <1>5. PICK a \in Seq(Message), b \in Seq(Message) : a = topic[p] /\ b = r.batch
    BY <1>1
  <1> DEFINE t == a \o b
  <1>3. topic'[p] = t /\ \A q \in Partition : q # p => topic'[q] = topic[q]
    BY <1>1, <1>2, <1>5 DEF IInv, TypeOK
  <1>4. /\ \A i \in DOMAIN a : i \in DOMAIN t /\ t[i] = a[i]
        /\ \A k \in DOMAIN b : Len(a) + k \in DOMAIN t /\ t[Len(a) + k] = b[k]
        /\ \A i \in DOMAIN t : i \in DOMAIN a \/ \E k \in DOMAIN b : i = Len(a) + k
    BY ConcatAt
  <1> HIDE DEF t
  <1> QED  BY <1>1, <1>2, <1>3, <1>4, <1>5, ZenonT(60)

\* A late request repeats what the topic has, brings what is at the head of its
\* queue, or what was given up (LateAppend).
LEMMA LateKeepsOrder ==
    ASSUME IInv, IInv', OrderInv, NEW r \in late, LateAppend(r)
    PROVE  OrderInv'
  <1>1. PICK p : p = r.part
    OBVIOUS
  <1>2. /\ p \in Partition
        /\ \A q \in Partition : q # p => topic'[q] = topic[q]
        /\ \A i \in DOMAIN topic[p] :
             i \in DOMAIN topic'[p] /\ topic'[p][i] = topic[p][i]
        /\ \A k \in DOMAIN r.batch : /\ Len(topic[p]) + k \in DOMAIN topic'[p]
                                      /\ topic'[p][Len(topic[p]) + k] = r.batch[k]
        /\ \A i \in DOMAIN topic'[p] :
             i \in DOMAIN topic[p] \/ \E k \in DOMAIN r.batch : i = Len(topic[p]) + k
        /\ late' = late \ {r}
        /\ UNCHANGED <<chain, pc, feed, hand, queue, inflight, tries, dropped>>
    <2>1. p \in Partition /\ \A q \in Partition : q # p => topic'[q] = topic[q]
      BY <1>1, LateMoves
    <2>2. \A i \in DOMAIN topic[p] : i \in DOMAIN topic'[p] /\ topic'[p][i] = topic[p][i]
      BY <1>1, LateMoves
    <2>3. \A k \in DOMAIN r.batch : /\ Len(topic[p]) + k \in DOMAIN topic'[p]
                                    /\ topic'[p][Len(topic[p]) + k] = r.batch[k]
      BY <1>1, LateMoves
    <2>4. \A i \in DOMAIN topic'[p] :
            i \in DOMAIN topic[p] \/ \E k \in DOMAIN r.batch : i = Len(topic[p]) + k
      BY <1>1, LateMoves
    <2>5. /\ late' = late \ {r}
          /\ UNCHANGED <<chain, pc, feed, hand, queue, inflight, tries, dropped>>
      BY LateMoves
    <2> QED  BY <2>1, <2>2, <2>3, <2>4, <2>5
  <1>3. /\ topic[p] \in Seq(Message) /\ queue[p] \in Seq(Message)
        /\ r.batch \in Seq(Message)
        /\ Len(topic[p]) \in Nat /\ DOMAIN topic[p] = 1..Len(topic[p])
        /\ \A k \in DOMAIN r.batch : k \in Nat \ {0} /\ r.batch[k] \in Message
        /\ \A k \in DOMAIN queue[p] : k \in Nat /\ queue[p][k] \in Message
    <2>1. /\ topic[p] \in Seq(Message) /\ queue[p] \in Seq(Message)
          /\ r.batch \in Seq(Message)
      BY <1>2 DEF IInv, TypeOK, Request
    <2> QED  BY <2>1
  <1>4. /\ \A h, k \in DOMAIN r.batch : h < k => Before(chain, r.batch[h], r.batch[k])
        /\ Current(r) \/ Past(r)
    BY DEF OrderInv, LateOrder
  <1>5. Current(r) => \A k \in DOMAIN r.batch :
                        k \in DOMAIN queue[p] /\ r.batch[k] = queue[p][k]
    BY <1>1, CurrentQueued DEF Current
  <1>6. /\ \A i \in DOMAIN topic[p], k \in DOMAIN queue[p] :
             Overtaken(chain, topic[p][i], queue[p][k])
               => \E j \in 1..(i - 1) : topic[p][j] = queue[p][k]
        /\ \A i, j \in DOMAIN topic[p] :
             i < j /\ Overtaken(chain, topic[p][i], topic[p][j])
               => \/ \E k \in 1..(i - 1) : topic[p][k] = topic[p][j]
                  \/ DeliveryOf(topic[p][j]) \in dropped
    BY <1>2 DEF OrderInv, SentOrder, FirstCopiesInChainOrder, Overtaken
  <1>7. \A q \in Partition : ToSet(topic[q]) \subseteq ToSet(topic'[q])
    BY <1>2 DEF ToSet
  <1>8. FeedOrder' /\ HandOrder' /\ QueueOrder'
    <2>1. FeedOrder'
      BY <1>2 DEF OrderInv, FeedOrder
    <2>2. HandOrder'
      BY <1>2 DEF OrderInv, HandOrder, Making
    <2>3. QueueOrder'
      BY <1>2 DEF OrderInv, QueueOrder
    <2> QED  BY <2>1, <2>2, <2>3
  <1>9. WriteOrder'
    <2>1. ToSet(r.batch) \subseteq LateIn(p)
      BY <1>1 DEF LateIn
    <2>2. \A q \in Partition : ToSet(topic'[q]) \subseteq ToSet(topic[q]) \cup LateIn(q)
      <3>1. \A i \in DOMAIN topic'[p] : topic'[p][i] \in ToSet(topic[p]) \cup ToSet(r.batch)
        BY <1>2 DEF ToSet
      <3>2. ToSet(topic'[p]) \subseteq ToSet(topic[p]) \cup ToSet(r.batch)
        BY <3>1 DEF ToSet
      <3> QED  BY <1>2, <2>1, <3>2
    <2>3. \A q \in Partition : LateIn(q)' \subseteq LateIn(q)
      BY <1>2 DEF LateIn
    <2>4. \A q \in Partition : Accepted(q)' \subseteq Accepted(q)
      BY <1>2, <2>2, <2>3 DEF Accepted
    <2> QED  BY <1>2, <2>4 DEF OrderInv, WriteOrder, Making
  <1>10. SentOrder'
    <2> SUFFICES ASSUME NEW q \in Partition, NEW i \in DOMAIN topic'[q],
                        NEW k \in DOMAIN queue[q],
                        Overtaken(chain, topic'[q][i], queue[q][k])
                 PROVE  \E j \in 1..(i - 1) : topic'[q][j] = queue[q][k]
      BY <1>2 DEF SentOrder
    <2>1. CASE q # p
      BY <1>2, <2>1 DEF OrderInv, SentOrder
    <2>2. CASE q = p /\ i \in DOMAIN topic[p]
      <3>1. PICK j \in 1..(i - 1) : topic[p][j] = queue[p][k]
        BY <1>2, <1>6, <2>2
      <3>2. j \in DOMAIN topic[p]
        BY <1>3, <2>2, <3>1
      <3> QED  BY <1>2, <2>2, <3>1, <3>2
    <2>3. ASSUME q = p, NEW g \in DOMAIN r.batch, i = Len(topic[p]) + g
          PROVE  \E j \in 1..(i - 1) : topic'[p][j] = queue[p][k]
      <3>1. topic'[p][i] = r.batch[g] /\ Overtaken(chain, r.batch[g], queue[p][k])
        BY <1>2, <2>3
      <3>2. CASE Past(r)
        <4>1. r.batch[g] \in ToSet(r.batch)
          BY DEF ToSet
        <4>2. Before(chain, r.batch[g], queue[p][k])
          BY <1>1, <2>3, <3>2, <4>1 DEF Past
        <4> QED  BY <1>3, <2>3, <3>1, <4>2, NoOvertaking
      <3>3. CASE Current(r)
        <4>1. g \in DOMAIN queue[p] /\ r.batch[g] = queue[p][g]
          BY <1>5, <3>3
        <4>2. k < g /\ k \in Nat \ {0}
          <5>1. ~ (g <= k)
            BY <1>2, <2>3, <3>1, <4>1, QueueInOrder
          <5> QED  BY <1>3, <2>3, <4>1, <5>1
        <4>3. k \in DOMAIN r.batch
          BY <1>3, <4>2
        <4>4. topic'[p][Len(topic[p]) + k] = queue[p][k]
          BY <1>2, <1>5, <3>3, <4>3
        <4>5. Len(topic[p]) + k \in 1..(i - 1)
          BY <1>3, <2>3, <4>2, SMTT(60)
        <4> QED  BY <4>4, <4>5
      <3> QED  BY <1>4, <3>2, <3>3
    <2> QED  BY <1>2, <2>1, <2>2, <2>3
  <1>11. FirstCopiesInChainOrder'
    <2> SUFFICES ASSUME NEW q \in Partition, NEW i \in DOMAIN topic'[q],
                        NEW j \in DOMAIN topic'[q], i < j,
                        Overtaken(chain, topic'[q][i], topic'[q][j])
                 PROVE  \/ \E k \in 1..(i - 1) : topic'[q][k] = topic'[q][j]
                        \/ DeliveryOf(topic'[q][j]) \in dropped
      BY <1>2 DEF FirstCopiesInChainOrder, Overtaken
    <2>1. CASE q # p
      BY <1>2, <2>1 DEF OrderInv, FirstCopiesInChainOrder, Overtaken
    <2>2. ASSUME i \in DOMAIN topic[p], NEW m, \E k \in 1..(i - 1) : topic[p][k] = m
          PROVE  \E k \in 1..(i - 1) : topic'[p][k] = m
      <3>1. PICK k \in 1..(i - 1) : topic[p][k] = m
        BY <2>2
      <3>2. k \in DOMAIN topic[p]
        BY <1>3, <2>2, <3>1
      <3> QED  BY <1>2, <3>1, <3>2
    <2>3. CASE q = p /\ i \in DOMAIN topic[p] /\ j \in DOMAIN topic[p]
      BY <1>2, <1>6, <2>2, <2>3
    <2>4. ASSUME q = p, i \in DOMAIN topic[p], NEW h \in DOMAIN r.batch,
                 j = Len(topic[p]) + h
          PROVE  \/ \E k \in 1..(i - 1) : topic'[p][k] = r.batch[h]
                 \/ DeliveryOf(r.batch[h]) \in dropped
      <3>1. Overtaken(chain, topic[p][i], r.batch[h])
        BY <1>2, <2>4
      <3>2. CASE Current(r)
        BY <1>5, <1>6, <2>2, <2>4, <3>1, <3>2, ZenonT(60)
      <3>3. CASE Past(r) /\ DeliveryOf(r.batch[h]) \notin dropped
        <4>1. r.batch[h] \in ToSet(topic[p])
          BY <1>1, <3>3 DEF Past, ToSet
        <4>2. PICK x \in DOMAIN topic[p] : topic[p][x] = r.batch[h]
          BY <4>1 DEF ToSet
        <4>3. CASE x < i
          <5>1. x \in 1..(i - 1)
            BY <1>3, <2>4, <4>3
          <5> QED  BY <1>2, <4>2, <5>1
        <4>4. CASE x = i
          <5>1. r.batch[h] \in Message
            BY <1>3
          <5> QED  BY <3>1, <4>2, <4>4, <5>1, NoOvertaking
        <4>5. CASE i < x
          BY <1>6, <2>2, <2>4, <3>1, <3>3, <4>2, <4>5
        <4> QED  BY <1>3, <2>4, <4>3, <4>4, <4>5
      <3> QED  BY <1>4, <3>2, <3>3
    <2>5. ASSUME q = p, NEW g \in DOMAIN r.batch, NEW h \in DOMAIN r.batch,
                 i = Len(topic[p]) + g, j = Len(topic[p]) + h
          PROVE  FALSE
      <3>1. g < h /\ Overtaken(chain, r.batch[g], r.batch[h])
        BY <1>2, <1>3, <2>5
      <3> QED  BY <1>3, <1>4, <3>1, NoOvertaking
    <2>6. ASSUME q = p, NEW g \in DOMAIN r.batch, i = Len(topic[p]) + g,
                 j \in DOMAIN topic[p]
          PROVE  FALSE
      BY <1>3, <2>6
    <2> QED  BY <1>2, <2>1, <2>3, <2>4, <2>5, <2>6
  <1>12. LateOrder'
    <2> SUFFICES ASSUME NEW x \in late
                 PROVE  /\ \A i, j \in DOMAIN x.batch :
                             i < j => Before(chain, x.batch[i], x.batch[j])
                        /\ Current(x)' \/ Past(x)'
      BY <1>2 DEF LateOrder
    <2>1. x.part \in Partition
      BY DEF IInv, TypeOK, Request
    <2>2. Current(x) => Current(x)'
      BY <1>2 DEF Current
    <2>3. Past(x) => Past(x)'
      BY <1>2, <1>7, <2>1 DEF Past
    <2> QED  BY <2>2, <2>3 DEF OrderInv, LateOrder
  <1> QED  BY <1>8, <1>9, <1>10, <1>11, <1>12 DEF OrderInv

-----------------------------------------------------------------------------
(* Steps and the number of copies                                          *)

\* The bound in Copies is no restriction.
LEMMA PlacesAre ==
    ASSUME NEW t \in [Partition -> Seq(Message)], Bounded(t), NEW d
    PROVE  Places(t, d) =
             {c \in Partition \X (1..Max({0} \cup {Len(t[q]) : q \in Partition})) :
                 c[2] \in DOMAIN t[c[1]] /\ DeliveryOf(t[c[1]][c[2]]) = d}
  <1> DEFINE S == {0} \cup {Len(t[q]) : q \in Partition}
             x == Max(S)
  <1>1. /\ \A q \in Partition : /\ DOMAIN t[q] = 1..Len(t[q])
                                /\ Len(t[q]) \in Nat /\ Len(t[q]) \in S
        /\ S \subseteq Nat
    OBVIOUS
  <1>2. PICK m \in S : \A q \in Partition : Len(t[q]) <= m
    BY DEF Bounded
  <1>3. \A y \in S : m >= y
    BY <1>1, <1>2
  <1> HIDE DEF S
  <1>4. x \in S /\ \A y \in S : x >= y
    BY <1>2, <1>3 DEF Max
  <1> HIDE DEF x
  <1>5. ASSUME NEW q \in Partition
        PROVE  DOMAIN t[q] \subseteq 1..x
    <2>1. Len(t[q]) <= x /\ x \in Nat
      BY <1>1, <1>4
    <2> QED  BY <1>1, <2>1
  <1>6. 1..x \subseteq Nat \ {0}
    BY <1>1, <1>4
  <1>7. Places(t, d) =
          {c \in Partition \X (1..x) :
              c[2] \in DOMAIN t[c[1]] /\ DeliveryOf(t[c[1]][c[2]]) = d}
    BY <1>5, <1>6 DEF Places
  <1> QED  BY <1>7 DEF S, x

\* A topic of which one log grows stays bounded.
LEMMA BoundedGrows ==
    ASSUME NEW t \in [Partition -> Seq(Message)], NEW u \in [Partition -> Seq(Message)],
           NEW p \in Partition, Bounded(t),
           \A q \in Partition : q # p => u[q] = t[q],
           \A i \in DOMAIN t[p] : i \in DOMAIN u[p]
    PROVE  Bounded(u)
  <1>1. /\ \A q \in Partition : Len(t[q]) \in Nat /\ Len(u[q]) \in Nat
        /\ DOMAIN t[p] = 1..Len(t[p]) /\ DOMAIN u[p] = 1..Len(u[p])
    OBVIOUS
  <1>2. Len(t[p]) <= Len(u[p])
    <2>1. CASE Len(t[p]) = 0
      BY <1>1, <2>1
    <2>2. CASE Len(t[p]) # 0
      <3>1. Len(t[p]) \in DOMAIN t[p]
        BY <1>1, <2>2
      <3> QED  BY <1>1, <3>1
    <2> QED  BY <2>1, <2>2
  <1>3. PICK m \in {0} \cup {Len(t[q]) : q \in Partition} :
          \A q \in Partition : Len(t[q]) <= m
    BY DEF Bounded
  <1>4. m \in Nat
    BY <1>1, <1>3
  <1>5. CASE m <= Len(u[p])
    <2>1. ASSUME NEW q \in Partition  PROVE Len(u[q]) <= Len(u[p])
      <3>1. CASE q = p
        BY <1>1, <3>1
      <3>2. CASE q # p
        <4>1. Len(u[q]) <= m
          BY <1>3, <3>2
        <4> QED  BY <1>1, <1>4, <1>5, <4>1
      <3> QED  BY <3>1, <3>2
    <2> QED  BY <2>1 DEF Bounded
  <1>6. CASE ~ (m <= Len(u[p]))
    <2>1. \A q \in Partition : Len(u[q]) <= m
      <3>1. Len(u[p]) <= m
        BY <1>1, <1>4, <1>6
      <3> QED  BY <1>3, <3>1
    <2>2. m # Len(t[p])
      BY <1>1, <1>2, <1>6
    <2>3. m \in {0} \cup {Len(u[q]) : q \in Partition}
      BY <1>3, <2>2
    <2> QED  BY <2>1, <2>3 DEF Bounded
  <1> QED  BY <1>5, <1>6

\* A batch at the end of a log adds one copy of each of its deliveries.
LEMMA AppendCopies ==
    ASSUME NEW t \in [Partition -> Seq(Message)], NEW u \in [Partition -> Seq(Message)],
           NEW p \in Partition, NEW b \in Seq(Message),
           \A q \in Partition : q # p => u[q] = t[q],
           \A i \in DOMAIN t[p] : u[p][i] = t[p][i],
           \A k \in DOMAIN b : u[p][Len(t[p]) + k] = b[k],
           \A i \in DOMAIN u[p] :
               i \in DOMAIN t[p] \/ \E k \in DOMAIN b : i = Len(t[p]) + k,
           \A h, k \in DOMAIN b : h # k => DeliveryOf(b[h]) # DeliveryOf(b[k]),
           NEW d, IsFiniteSet(Places(t, d))
    PROVE  /\ IsFiniteSet(Places(u, d))
           /\ Cardinality(Places(u, d))
                <= Cardinality(Places(t, d)) + (IF Has(b, d) THEN 1 ELSE 0)
  <1>1. Cardinality(Places(t, d)) \in Nat
    BY FS_CardinalityType
  <1>2. ASSUME NEW q \in Partition, NEW i \in DOMAIN u[q], DeliveryOf(u[q][i]) = d
        PROVE  \/ i \in DOMAIN t[q] /\ DeliveryOf(t[q][i]) = d
               \/ q = p /\ \E k \in DOMAIN b : i = Len(t[p]) + k /\ DeliveryOf(b[k]) = d
    <2>1. CASE q # p
      BY <1>2, <2>1
    <2>2. CASE q = p /\ i \in DOMAIN t[p]
      BY <1>2, <2>2
    <2>3. ASSUME q = p, NEW k \in DOMAIN b, i = Len(t[p]) + k
          PROVE  DeliveryOf(b[k]) = d
      BY <1>2, <2>3
    <2> QED  BY <1>2, <2>1, <2>2, <2>3
  <1>3. CASE Has(b, d)
    <2>1. PICK h \in DOMAIN b : DeliveryOf(b[h]) = d
      BY <1>3 DEF Has, ToSet
    <2>2. \A k \in DOMAIN b : DeliveryOf(b[k]) = d => k = h
      BY <2>1
    <2>3. Places(u, d) \subseteq Places(t, d) \cup {<<p, Len(t[p]) + h>>}
      BY <1>2, <2>2 DEF Places
    <2>4. /\ IsFiniteSet(Places(t, d) \cup {<<p, Len(t[p]) + h>>})
          /\ Cardinality(Places(t, d) \cup {<<p, Len(t[p]) + h>>})
               \in {Cardinality(Places(t, d)), Cardinality(Places(t, d)) + 1}
      BY FS_AddElement
    <2>5. /\ IsFiniteSet(Places(u, d))
          /\ Cardinality(Places(u, d))
               <= Cardinality(Places(t, d) \cup {<<p, Len(t[p]) + h>>})
      BY <2>3, <2>4, FS_Subset
    <2>6. Cardinality(Places(u, d)) \in Nat
      BY <2>5, FS_CardinalityType
    <2> QED  BY <1>1, <1>3, <2>4, <2>5, <2>6
  <1>4. CASE ~ Has(b, d)
    <2>1. \A k \in DOMAIN b : DeliveryOf(b[k]) # d
      BY <1>4 DEF Has, ToSet
    <2>2. Places(u, d) \subseteq Places(t, d)
      BY <1>2, <2>1 DEF Places
    <2>3. /\ IsFiniteSet(Places(u, d))
          /\ Cardinality(Places(u, d)) <= Cardinality(Places(t, d))
      BY <2>2, FS_Subset
    <2> QED  BY <1>1, <1>4, <2>3
  <1> QED  BY <1>3, <1>4

\* A late request counts once for each of its deliveries.
LEMMA LateMore ==
    ASSUME NEW S, IsFiniteSet(S), NEW r, NEW d
    PROVE  /\ IsFiniteSet(S \cup {r})
           /\ Cardinality(LateOf(S \cup {r}, d))
                <= Cardinality(LateOf(S, d)) + (IF Has(r.batch, d) THEN 1 ELSE 0)
  <1>1. IsFiniteSet(S \cup {r})
    BY FS_AddElement
  <1>2. LateOf(S, d) \subseteq S
    BY DEF LateOf
  <1>3. IsFiniteSet(LateOf(S, d)) /\ Cardinality(LateOf(S, d)) \in Nat
    BY <1>2, FS_Subset, FS_CardinalityType
  <1>4. CASE Has(r.batch, d)
    <2>1. LateOf(S \cup {r}, d) = LateOf(S, d) \cup {r}
      BY <1>4 DEF LateOf
    <2>2. Cardinality(LateOf(S, d) \cup {r})
            \in {Cardinality(LateOf(S, d)), Cardinality(LateOf(S, d)) + 1}
      BY <1>3, FS_AddElement
    <2> QED  BY <1>1, <1>3, <1>4, <2>1, <2>2
  <1>5. CASE ~ Has(r.batch, d)
    <2>1. LateOf(S \cup {r}, d) = LateOf(S, d)
      BY <1>5 DEF LateOf
    <2> QED  BY <1>1, <1>3, <1>5, <2>1
  <1> QED  BY <1>4, <1>5

\* When it arrives, that count is one less.
LEMMA LateLess ==
    ASSUME NEW S, IsFiniteSet(S), NEW r \in S, NEW d
    PROVE  /\ IsFiniteSet(S \ {r})
           /\ Cardinality(LateOf(S \ {r}, d)) \in Nat
           /\ Cardinality(LateOf(S \ {r}, d)) + (IF Has(r.batch, d) THEN 1 ELSE 0)
                = Cardinality(LateOf(S, d))
  <1>1. IsFiniteSet(S \ {r})
    BY FS_RemoveElement
  <1>2. LateOf(S, d) \subseteq S /\ LateOf(S \ {r}, d) \subseteq S \ {r}
    BY DEF LateOf
  <1>3. /\ IsFiniteSet(LateOf(S, d)) /\ Cardinality(LateOf(S, d)) \in Nat
        /\ Cardinality(LateOf(S \ {r}, d)) \in Nat
    BY <1>1, <1>2, FS_Subset, FS_CardinalityType
  <1>4. CASE Has(r.batch, d)
    <2>1. LateOf(S \ {r}, d) = LateOf(S, d) \ {r} /\ r \in LateOf(S, d)
      BY <1>4 DEF LateOf
    <2>2. Cardinality(LateOf(S, d) \ {r}) = Cardinality(LateOf(S, d)) - 1
      BY <1>3, <2>1, FS_RemoveElement
    <2>3. Cardinality(LateOf(S \ {r}, d)) = Cardinality(LateOf(S, d)) - 1
      BY <2>1, <2>2
    <2> QED  BY <1>1, <1>3, <1>4, <2>3
  <1>5. CASE ~ Has(r.batch, d)
    <2>1. LateOf(S \ {r}, d) = LateOf(S, d)
      BY <1>5 DEF LateOf
    <2> QED  BY <1>1, <1>3, <1>5, <2>1
  <1> QED  BY <1>4, <1>5

\* Numbers of copies are numbers.
LEMMA CopiesNat ==
    ASSUME CopiesInv, NEW d \in Delivery
    PROVE  /\ Cardinality(Places(topic, d)) \in Nat
           /\ Cardinality(LateOf(late, d)) \in Nat
           /\ CopiesOf(topic, late, d) \in Nat
           /\ CopiesOf(topic, late, d) <= MaxAttempts
           /\ IsFiniteSet(Places(topic, d)) /\ IsFiniteSet(late)
  <1>1. /\ IsFiniteSet(Places(topic, d)) /\ IsFiniteSet(late)
        /\ CopiesOf(topic, late, d) <= MaxAttempts
    BY DEF CopiesInv
  <1>2. LateOf(late, d) \subseteq late
    BY DEF LateOf
  <1>3. IsFiniteSet(LateOf(late, d))
    BY <1>1, <1>2, FS_Subset
  <1>4. Cardinality(Places(topic, d)) \in Nat /\ Cardinality(LateOf(late, d)) \in Nat
    BY <1>1, <1>3, FS_CardinalityType
  <1> QED  BY <1>1, <1>4 DEF CopiesOf

\* Steps of which the writer knows nothing, or with which it is gone.
LEMMA WriterGone ==
    ASSUME IInv, IInv', CopiesInv, UNCHANGED <<topic, late>>,
           \/ UNCHANGED <<queue, inflight, tries>>
           \/ \A p \in Partition :
                queue'[p] = <<>> /\ inflight'[p] = 0 /\ tries'[p] = 0
    PROVE  CopiesInv'
  <1>1. /\ Bounded(topic)' /\ IsFiniteSet(late)'
        /\ \A d : /\ Places(topic', d) = Places(topic, d)
                 /\ CopiesOf(topic', late', d) = CopiesOf(topic, late, d)
    BY DEF CopiesInv, Bounded
  <1>2. CASE UNCHANGED <<queue, inflight, tries>>
    <2>1. TriesInv'
      BY <1>2 DEF CopiesInv, TriesInv
    <2>2. QueuedCopies'
      BY <1>2 DEF CopiesInv, QueuedCopies
    <2> QED  BY <1>1, <2>1, <2>2 DEF CopiesInv
  <1>3. CASE \A p \in Partition :
               queue'[p] = <<>> /\ inflight'[p] = 0 /\ tries'[p] = 0
    <2>1. TriesInv'
      BY <1>3, PusherAssumption DEF PusherAssumption, TriesInv
    <2>2. QueuedCopies'
      BY <1>3 DEF QueuedCopies
    <2> QED  BY <1>1, <2>1, <2>2 DEF CopiesInv
  <1> QED  BY <1>2, <1>3

\* A message that joins a queue has no copy yet: the writer gets it once.
LEMMA EnqueueKeepsCopies ==
    ASSUME IInv, IInv', OrderInv, CopiesInv,
           NEW l \in Listener, NEW p \in Partition, WriteEnqueue(l, p)
    PROVE  CopiesInv'
  <1>1. /\ pc[l] = "write" /\ UNCHANGED <<topic, late, inflight, tries>>
        /\ queue' = [queue EXCEPT ![p] = Append(@, hand[l])]
    BY DEF WriteEnqueue, Join
  <1>2. queue[p] \in Seq(Message) /\ hand[l] \in Message
    BY DEF IInv, TypeOK
  <1>3. /\ queue'[p] = Append(queue[p], hand[l])
        /\ \A q \in Partition : q # p => queue'[q] = queue[q]
    BY <1>1 DEF IInv, TypeOK
  <1>4. /\ DOMAIN queue'[p] = DOMAIN queue[p] \cup {Len(queue[p]) + 1}
        /\ \A i \in DOMAIN queue[p] :
             queue'[p][i] = queue[p][i] /\ i < Len(queue[p]) + 1
        /\ queue'[p][Len(queue[p]) + 1] = hand[l]
        /\ Len(queue'[p]) = Len(queue[p]) + 1
    BY <1>2, <1>3, AppendAt
  <1>5. /\ Bounded(topic)' /\ IsFiniteSet(late)'
        /\ \A d : /\ Places(topic', d) = Places(topic, d)
                 /\ CopiesOf(topic', late', d) = CopiesOf(topic, late, d)
    BY <1>1 DEF CopiesInv, Bounded
  <1>6. \A q \in Partition : /\ Len(queue[q]) \in Nat /\ inflight[q] \in Nat
                             /\ inflight[q] <= Len(queue[q])
    <2>1. \A q \in Partition : queue[q] \in Seq(Message) /\ inflight[q] \in Nat
      BY DEF IInv, TypeOK
    <2> QED  BY <2>1 DEF CopiesInv, TriesInv
  <1>7. Places(topic, DeliveryOf(hand[l])) = {}
    <2> SUFFICES ASSUME NEW q \in Partition, NEW i \in DOMAIN topic[q],
                        DeliveryOf(topic[q][i]) = DeliveryOf(hand[l])
                 PROVE  FALSE
      BY DEF Places
    <2>1. topic[q][i] \in ToSet(topic[q]) /\ Making(l)
      BY <1>1 DEF ToSet, Making
    <2>2. Before(chain, topic[q][i], hand[l])
      BY <2>1 DEF OrderInv, WriteOrder, Accepted
    <2> QED  BY <2>2 DEF Before, DeliveryOf
  <1>11. LateOf(late, DeliveryOf(hand[l])) = {}
    <2> SUFFICES ASSUME NEW r \in late, NEW m \in ToSet(r.batch),
                        DeliveryOf(m) = DeliveryOf(hand[l])
                 PROVE  FALSE
      BY DEF LateOf, Has
    <2>1. r.part \in Partition /\ Making(l)
      BY <1>1 DEF IInv, TypeOK, Request, Making
    <2>2. m \in Accepted(r.part)
      BY DEF Accepted, LateIn
    <2>3. Before(chain, m, hand[l])
      BY <2>1, <2>2 DEF OrderInv, WriteOrder
    <2> QED  BY <2>3 DEF Before, DeliveryOf
  <1>8. CopiesOf(topic, late, DeliveryOf(hand[l])) = 0
    BY <1>7, <1>11, FS_EmptySet DEF CopiesOf
  <1>9. TriesInv'
    <2> SUFFICES ASSUME NEW q \in Partition  PROVE inflight[q] <= Len(queue'[q])
      BY <1>1 DEF CopiesInv, TriesInv
    <2> QED  BY <1>3, <1>4, <1>6
  <1>10. QueuedCopies'
    <2> SUFFICES ASSUME NEW q \in Partition, NEW k \in DOMAIN queue'[q]
                 PROVE  CopiesOf(topic, late, DeliveryOf(queue'[q][k]))
                          <= IF k <= inflight[q] THEN tries[q] ELSE 0
      BY <1>1, <1>5 DEF QueuedCopies
    <2>1. CASE k \in DOMAIN queue[q] /\ queue'[q][k] = queue[q][k]
      BY <2>1 DEF CopiesInv, QueuedCopies
    <2>2. CASE q = p /\ k = Len(queue[p]) + 1 /\ queue'[q][k] = hand[l]
      BY <1>6, <1>8, <2>2
    <2> QED  BY <1>3, <1>4, <2>1, <2>2
  <1> QED  BY <1>5, <1>9, <1>10 DEF CopiesInv

\* The messages of a queue are about different deliveries.
LEMMA QueueDiffers ==
    ASSUME IInv, OrderInv, NEW p \in Partition,
           NEW h \in DOMAIN queue[p], NEW k \in DOMAIN queue[p], h # k
    PROVE  DeliveryOf(queue[p][h]) # DeliveryOf(queue[p][k])
  <1>1. queue[p] \in Seq(Message)
    BY DEF IInv, TypeOK
  <1>2. h < k \/ k < h
    BY <1>1
  <1>3. \/ Before(chain, queue[p][h], queue[p][k])
        \/ Before(chain, queue[p][k], queue[p][h])
    BY <1>2 DEF OrderInv, QueueOrder
  <1> QED  BY <1>3 DEF Before, DeliveryOf

\* A send makes one more copy of each message of its batch, or a late request for
\* it, and none of any other (Send).
LEMMA SendCopies ==
    ASSUME IInv, IInv', OrderInv, CopiesInv,
           NEW p \in Partition, NEW n \in 1..Len(queue[p]),
           SendAcked(p, n) \/ SendRetried(p, n) \/ SendAbandoned(p, n)
    PROVE  /\ Bounded(topic') /\ IsFiniteSet(late')
           /\ \A d \in Delivery :
                /\ IsFiniteSet(Places(topic', d))
                /\ CopiesOf(topic', late', d)
                     <= CopiesOf(topic, late, d)
                          + (IF \E k \in 1..n : DeliveryOf(queue[p][k]) = d THEN 1 ELSE 0)
  <1>1. /\ queue[p] \in Seq(Message) /\ topic[p] \in Seq(Message)
        /\ topic \in [Partition -> Seq(Message)] /\ topic' \in [Partition -> Seq(Message)]
    BY DEF IInv, TypeOK
  <1>2. PICK b \in Seq(Message) : /\ b = Batch(p, n)
                                  /\ DOMAIN b = 1..n
                                  /\ \A k \in 1..n : b[k] = queue[p][k]
    <2>1. /\ Batch(p, n) \in Seq(Message) /\ Len(Batch(p, n)) = n
          /\ \A k \in 1..n : Batch(p, n)[k] = queue[p][k]
      BY <1>1, SplitAt DEF Batch
    <2> QED  BY <2>1
  <1>3. \A d : Has(b, d) <=> \E k \in 1..n : DeliveryOf(queue[p][k]) = d
    BY <1>2 DEF Has, ToSet
  <1>4. \A h, k \in DOMAIN b : h # k => DeliveryOf(b[h]) # DeliveryOf(b[k])
    <2>1. \A k \in 1..n : k \in DOMAIN queue[p]
      BY <1>1
    <2> QED  BY <1>2, <2>1, QueueDiffers
  <1>5. UNCHANGED <<topic, late>> \/ Appended(p, n) \/ Delayed(p, n)
    BY DEF SendAcked, SendRetried, SendAbandoned
  <1>6. CASE UNCHANGED <<topic, late>>
    <2>1. Bounded(topic') /\ IsFiniteSet(late')
      BY <1>6 DEF CopiesInv
    <2>2. ASSUME NEW d \in Delivery
          PROVE  /\ IsFiniteSet(Places(topic', d))
                 /\ CopiesOf(topic', late', d)
                      <= CopiesOf(topic, late, d) + (IF Has(b, d) THEN 1 ELSE 0)
      <3>1. IsFiniteSet(Places(topic, d)) /\ CopiesOf(topic, late, d) \in Nat
        BY CopiesNat
      <3>2. /\ Places(topic', d) = Places(topic, d)
            /\ CopiesOf(topic', late', d) = CopiesOf(topic, late, d)
        BY <1>6
      <3> QED  BY <3>1, <3>2
    <2> QED  BY <1>3, <2>1, <2>2
  <1>7. CASE Appended(p, n)
    <2> DEFINE t == topic[p] \o b
    <2>1. late' = late /\ topic' = [topic EXCEPT ![p] = t]
      BY <1>2, <1>7 DEF Appended
    <2>2. /\ topic'[p] = t
          /\ \A q \in Partition : q # p => topic'[q] = topic[q]
      BY <1>1, <2>1
    <2>3. /\ \A i \in DOMAIN topic[p] : i \in DOMAIN t /\ t[i] = topic[p][i]
          /\ \A k \in DOMAIN b : /\ Len(topic[p]) + k \in DOMAIN t
                                 /\ t[Len(topic[p]) + k] = b[k]
          /\ \A i \in DOMAIN t :
               i \in DOMAIN topic[p] \/ \E k \in DOMAIN b : i = Len(topic[p]) + k
      BY <1>1, ConcatAt
    <2> HIDE DEF t
    <2>4. Bounded(topic')
      BY <1>1, <2>2, <2>3, BoundedGrows DEF CopiesInv
    <2>5. ASSUME NEW d \in Delivery
          PROVE  /\ IsFiniteSet(Places(topic', d))
                 /\ CopiesOf(topic', late', d)
                      <= CopiesOf(topic, late, d) + (IF Has(b, d) THEN 1 ELSE 0)
      <3>1. /\ IsFiniteSet(Places(topic, d))
            /\ Cardinality(Places(topic, d)) \in Nat
            /\ Cardinality(LateOf(late, d)) \in Nat
        BY CopiesNat
      <3>2. /\ IsFiniteSet(Places(topic', d))
            /\ Cardinality(Places(topic', d))
                 <= Cardinality(Places(topic, d)) + (IF Has(b, d) THEN 1 ELSE 0)
        <4>1. \A i \in DOMAIN topic[p] : topic'[p][i] = topic[p][i]
          BY <2>2, <2>3
        <4>2. \A k \in DOMAIN b : topic'[p][Len(topic[p]) + k] = b[k]
          BY <2>2, <2>3
        <4>3. \A i \in DOMAIN topic'[p] :
                i \in DOMAIN topic[p] \/ \E k \in DOMAIN b : i = Len(topic[p]) + k
          BY <2>2, <2>3
        <4> QED  BY <1>1, <1>4, <2>2, <3>1, <4>1, <4>2, <4>3, AppendCopies
      <3>3. Cardinality(Places(topic', d)) \in Nat
        BY <3>2, FS_CardinalityType
      <3> QED  BY <2>1, <3>1, <3>2, <3>3 DEF CopiesOf
    <2> QED  BY <1>3, <2>1, <2>4, <2>5 DEF CopiesInv
  <1>8. CASE Delayed(p, n)
    <2> DEFINE y == [part |-> p, batch |-> b, attempt |-> tries[p]]
    <2>4. topic' = topic /\ late' = late \cup {y} /\ y.batch = b
      BY <1>2, <1>8 DEF Delayed
    <2> HIDE DEF y
    <2>1. PICK x : topic' = topic /\ late' = late \cup {x} /\ x.batch = b
      BY <2>4
    <2>2. Bounded(topic') /\ IsFiniteSet(late')
      BY <2>1, LateMore DEF CopiesInv
    <2>3. ASSUME NEW d \in Delivery
          PROVE  /\ IsFiniteSet(Places(topic', d))
                 /\ CopiesOf(topic', late', d)
                      <= CopiesOf(topic, late, d) + (IF Has(b, d) THEN 1 ELSE 0)
      <3>1. /\ IsFiniteSet(Places(topic, d)) /\ IsFiniteSet(late)
            /\ Cardinality(Places(topic, d)) \in Nat
            /\ Cardinality(LateOf(late, d)) \in Nat
        BY CopiesNat
      <3>2. Cardinality(LateOf(late \cup {x}, d))
              <= Cardinality(LateOf(late, d)) + (IF Has(x.batch, d) THEN 1 ELSE 0)
        BY <3>1, LateMore
      <3>3. Cardinality(LateOf(late', d)) \in Nat
        <4>1. LateOf(late', d) \subseteq late'
          BY DEF LateOf
        <4> QED  BY <2>2, <4>1, FS_Subset, FS_CardinalityType
      <3> QED  BY <2>1, <3>1, <3>2, <3>3 DEF CopiesOf
    <2> QED  BY <1>3, <2>2, <2>3
  <1> QED  BY <1>5, <1>6, <1>7, <1>8

\* A message of a batch had no more copies than the batch had attempts: one more
\* of each is none too many (Send).
LEMMA SendKeepsCopies ==
    ASSUME IInv, IInv', OrderInv, CopiesInv, NEW p \in Partition, Send(p)
    PROVE  CopiesInv'
  <1>1. PICK n \in 1..Len(queue[p]) :
          SendAcked(p, n) \/ SendRetried(p, n) \/ SendAbandoned(p, n)
    BY DEF Send
  <1> DEFINE D(k) == DeliveryOf(queue[p][k])
             Sent == {D(k) : k \in 1..n}
  <1>8. /\ Bounded(topic') /\ IsFiniteSet(late')
        /\ \A d \in Delivery :
             /\ IsFiniteSet(Places(topic', d))
             /\ CopiesOf(topic', late', d)
                  <= CopiesOf(topic, late, d) + (IF d \in Sent THEN 1 ELSE 0)
    <2>1. \A d : (\E k \in 1..n : D(k) = d) <=> d \in Sent
      OBVIOUS
    <2> QED  BY <1>1, <2>1, SendCopies
  <1>3. /\ \A q \in Partition : /\ Len(queue[q]) \in Nat /\ inflight[q] \in Nat
                                /\ tries[q] \in Nat
                                /\ DOMAIN queue[q] = 1..Len(queue[q])
        /\ n \in Nat \ {0} /\ n <= Len(queue[p])
        /\ \A q \in Partition : \A k \in DOMAIN queue[q] :
             DeliveryOf(queue[q][k]) \in Delivery
    <2>1. \A q \in Partition : /\ queue[q] \in Seq(Message)
                               /\ inflight[q] \in Nat /\ tries[q] \in Nat
      BY DEF IInv, TypeOK
    <2>2. \A q \in Partition : \A k \in DOMAIN queue[q] : queue[q][k] \in Message
      BY <2>1
    <2>3. \A q \in Partition : \A k \in DOMAIN queue[q] :
             DeliveryOf(queue[q][k]) \in Delivery
      BY <2>2, DeliveryTyped
    <2> QED  BY <2>1, <2>3
  <1>4. inflight[p] = 0 \/ inflight[p] = n
    BY <1>1 DEF SendAcked, SendRetried, SendAbandoned, Sendable
  <1>7. \A q \in Partition : \A k \in DOMAIN queue[q] :
          q # p \/ k > n => DeliveryOf(queue[q][k]) \notin Sent
    <2> SUFFICES ASSUME NEW q \in Partition, NEW k \in DOMAIN queue[q],
                        q # p \/ k > n, NEW h \in 1..n
                 PROVE  DeliveryOf(queue[q][k]) # D(h)
      OBVIOUS
    <2>1. h \in DOMAIN queue[p]
      BY <1>3
    <2>2. CASE q = p
      <3>1. h # k
        BY <1>3, <2>2
      <3> QED  BY <2>1, <2>2, <3>1, QueueDiffers
    <2>3. CASE q # p
      <3>1. queue[q][k] \in ToSet(queue[q]) /\ queue[p][h] \in ToSet(queue[p])
        BY <2>1 DEF ToSet
      <3> QED  BY <2>3, <3>1 DEF OrderInv, QueueOrder
    <2> QED  BY <2>2, <2>3
  <1> HIDE DEF D
  <1>11. \A k \in 1..n : D(k) \in Sent /\ k \in DOMAIN queue[p] /\ D(k) \in Delivery
    BY <1>3 DEF D
  <1> HIDE DEF Sent
  <1>2. \A d \in Delivery :
          CopiesOf(topic, late, d) \in Nat /\ CopiesOf(topic', late', d) \in Nat
    <2> SUFFICES ASSUME NEW d \in Delivery
                 PROVE  CopiesOf(topic', late', d) \in Nat
      BY CopiesNat
    <2>1. LateOf(late', d) \subseteq late'
      BY DEF LateOf
    <2>2. IsFiniteSet(LateOf(late', d)) /\ IsFiniteSet(Places(topic', d))
      BY <1>8, <2>1, FS_Subset
    <2> QED  BY <2>2, FS_CardinalityType DEF CopiesOf
  <1>12. \A k \in 1..n : CopiesOf(topic, late, D(k)) <= tries[p]
    <2> SUFFICES ASSUME NEW k \in 1..n  PROVE CopiesOf(topic, late, D(k)) <= tries[p]
      OBVIOUS
    <2>1. CopiesOf(topic, late, D(k)) <= IF k <= inflight[p] THEN tries[p] ELSE 0
      BY <1>11 DEF D, CopiesInv, QueuedCopies
    <2>2. k <= inflight[p] \/ tries[p] = 0
      BY <1>4 DEF CopiesInv, TriesInv
    <2> QED  BY <2>1, <2>2
  <1>13. \A k \in 1..n : CopiesOf(topic', late', D(k)) <= tries[p] + 1
    <2> SUFFICES ASSUME NEW k \in 1..n
                 PROVE  CopiesOf(topic', late', D(k)) <= tries[p] + 1
      OBVIOUS
    <2>1. CopiesOf(topic', late', D(k)) <= CopiesOf(topic, late, D(k)) + 1
      BY <1>8, <1>11
    <2>2. CopiesOf(topic, late, D(k)) \in Nat /\ CopiesOf(topic', late', D(k)) \in Nat
      BY <1>2, <1>11
    <2> QED  BY <1>3, <1>12, <2>1, <2>2
  <1>14. \A d \in Delivery : /\ IsFiniteSet(Places(topic', d))
                             /\ CopiesOf(topic', late', d) <= MaxAttempts
    <2> SUFFICES ASSUME NEW d \in Delivery
                 PROVE  CopiesOf(topic', late', d) <= MaxAttempts
      BY <1>8
    <2>1. CASE d \notin Sent
      <3>1. CopiesOf(topic', late', d) <= CopiesOf(topic, late, d)
        BY <1>2, <1>8, <2>1
      <3>2. CopiesOf(topic, late, d) <= MaxAttempts /\ MaxAttempts \in Nat
        BY CopiesNat, PusherAssumption DEF PusherAssumption
      <3> QED  BY <1>2, <3>1, <3>2
    <2>2. ASSUME NEW k \in 1..n, d = D(k)
          PROVE  CopiesOf(topic', late', d) <= MaxAttempts
      <3>1. tries[p] < MaxAttempts
        BY DEF CopiesInv, TriesInv
      <3>2. CopiesOf(topic', late', D(k)) <= MaxAttempts
        BY <1>2, <1>3, <1>11, <1>13, <3>1, PusherAssumption DEF PusherAssumption
      <3> QED  BY <2>2, <3>2
    <2> QED  BY <2>1, <2>2 DEF Sent
  <1>15. \A q \in Partition : \A k \in DOMAIN queue[q] :
           q # p \/ k > n =>
             CopiesOf(topic', late', DeliveryOf(queue[q][k]))
               <= IF q # p /\ k <= inflight[q] THEN tries[q] ELSE 0
    <2> SUFFICES ASSUME NEW q \in Partition, NEW k \in DOMAIN queue[q], q # p \/ k > n
                 PROVE  CopiesOf(topic', late', DeliveryOf(queue[q][k]))
                          <= IF q # p /\ k <= inflight[q] THEN tries[q] ELSE 0
      OBVIOUS
    <2>1. CopiesOf(topic', late', DeliveryOf(queue[q][k]))
            <= CopiesOf(topic, late, DeliveryOf(queue[q][k]))
      BY <1>2, <1>3, <1>7, <1>8
    <2>2. CopiesOf(topic, late, DeliveryOf(queue[q][k]))
            <= IF k <= inflight[q] THEN tries[q] ELSE 0
      BY DEF CopiesInv, QueuedCopies
    <2>3. q = p => ~ (k <= inflight[q])
      BY <1>3, <1>4
    <2> QED  BY <1>2, <1>3, <2>1, <2>2, <2>3
  <1>16. CASE SendRetried(p, n)
    <2>1. /\ queue' = queue /\ tries[p] + 1 < MaxAttempts
          /\ inflight'[p] = n /\ tries'[p] = tries[p] + 1
          /\ \A q \in Partition \ {p} :
               inflight'[q] = inflight[q] /\ tries'[q] = tries[q]
      BY <1>16 DEF SendRetried, AttemptsLeft, IInv, TypeOK
    <2>2. TriesInv'
      <3> SUFFICES ASSUME NEW q \in Partition
                   PROVE  /\ inflight'[q] <= Len(queue[q])
                          /\ tries'[q] < MaxAttempts
                          /\ inflight'[q] = 0 => tries'[q] = 0
        BY <2>1 DEF TriesInv
      <3>1. CASE q = p
        BY <1>3, <2>1, <3>1
      <3>2. CASE q # p
        BY <2>1, <3>2 DEF CopiesInv, TriesInv
      <3> QED  BY <3>1, <3>2
    <2>3. QueuedCopies'
      <3> SUFFICES ASSUME NEW q \in Partition, NEW k \in DOMAIN queue[q]
                   PROVE  CopiesOf(topic', late', DeliveryOf(queue[q][k]))
                            <= IF k <= inflight'[q] THEN tries'[q] ELSE 0
        BY <2>1 DEF QueuedCopies
      <3>1. CASE q # p
        BY <1>15, <2>1, <3>1
      <3>2. CASE q = p /\ k > n
        <4>1. ~ (k <= inflight'[q])
          BY <1>3, <2>1, <3>2
        <4> QED  BY <1>15, <3>2, <4>1
      <3>3. CASE q = p /\ ~ (k > n)
        <4>1. k \in 1..n /\ k <= inflight'[q]
          BY <1>3, <2>1, <3>3
        <4>2. CopiesOf(topic', late', D(k)) <= tries[p] + 1
          BY <1>13, <4>1
        <4> QED  BY <2>1, <3>3, <4>1, <4>2 DEF D
      <3> QED  BY <3>1, <3>2, <3>3
    <2> QED  BY <1>8, <1>14, <2>2, <2>3 DEF CopiesInv
  <1>17. CASE Complete(p, n)
    <2>1. /\ queue'[p] = Remaining(queue[p], n)
          /\ inflight'[p] = 0 /\ tries'[p] = 0
          /\ \A q \in Partition \ {p} : /\ queue'[q] = queue[q]
                                        /\ inflight'[q] = inflight[q]
                                        /\ tries'[q] = tries[q]
      <3>1. /\ queue' = [queue EXCEPT ![p] = Remaining(@, n)]
            /\ inflight' = [inflight EXCEPT ![p] = 0]
            /\ tries' = [tries EXCEPT ![p] = 0]
        BY <1>17 DEF Complete
      <3>2. /\ queue \in [Partition -> Seq(Message)]
            /\ inflight \in [Partition -> Nat] /\ tries \in [Partition -> Nat]
        BY DEF IInv, TypeOK
      <3> QED  BY <3>1, <3>2
    <2>2. /\ queue'[p] \in Seq(Message)
          /\ Len(queue'[p]) = Len(queue[p]) - n
          /\ \A k \in 1..(Len(queue[p]) - n) : queue'[p][k] = queue[p][n + k]
      <3>1. queue[p] \in Seq(Message)
        BY DEF IInv, TypeOK
      <3>2. /\ Remaining(queue[p], n) \in Seq(Message)
            /\ Len(Remaining(queue[p], n)) = Len(queue[p]) - n
            /\ \A k \in 1..(Len(queue[p]) - n) :
                 Remaining(queue[p], n)[k] = queue[p][n + k]
        BY <3>1, SplitAt, ZenonT(60)
      <3> QED  BY <2>1, <3>2
    <2>3. TriesInv'
      <3> SUFFICES ASSUME NEW q \in Partition
                   PROVE  /\ inflight'[q] <= Len(queue'[q])
                          /\ tries'[q] < MaxAttempts
                          /\ inflight'[q] = 0 => tries'[q] = 0
        BY DEF TriesInv
      <3>1. CASE q = p
        BY <1>3, <2>1, <2>2, <3>1, PusherAssumption DEF PusherAssumption
      <3>2. CASE q # p
        BY <2>1, <3>2 DEF CopiesInv, TriesInv
      <3> QED  BY <3>1, <3>2
    <2>4. QueuedCopies'
      <3> SUFFICES ASSUME NEW q \in Partition, NEW k \in DOMAIN queue'[q]
                   PROVE  CopiesOf(topic', late', DeliveryOf(queue'[q][k]))
                            <= IF k <= inflight'[q] THEN tries'[q] ELSE 0
        BY DEF QueuedCopies
      <3>1. CASE q # p
        BY <1>15, <2>1, <3>1
      <3>2. CASE q = p
        <4>1. k \in 1..(Len(queue[p]) - n)
          BY <2>2, <3>2
        <4>2. /\ n + k \in DOMAIN queue[p] /\ n + k > n /\ ~ (k <= inflight'[q])
              /\ queue'[q][k] = queue[p][n + k]
          BY <1>3, <2>1, <2>2, <3>2, <4>1, SMTT(60)
        <4>3. CopiesOf(topic', late', DeliveryOf(queue[p][n + k])) <= 0
          BY <1>15, <4>2
        <4> QED  BY <4>2, <4>3
      <3> QED  BY <3>1, <3>2
    <2> QED  BY <1>8, <1>14, <2>3, <2>4 DEF CopiesInv
  <1> QED  BY <1>1, <1>16, <1>17 DEF SendAcked, SendAbandoned

\* When a late request arrives, what may still come has come: no delivery gets
\* more copies than were counted (LateAppend).
LEMMA LateKeepsCopies ==
    ASSUME IInv, IInv', OrderInv, CopiesInv, NEW r \in late, LateAppend(r)
    PROVE  CopiesInv'
  <1>1. PICK p : p = r.part
    OBVIOUS
  <1>2. p \in Partition /\ \A q \in Partition : q # p => topic'[q] = topic[q]
    BY <1>1, LateMoves
  <1>3. \A i \in DOMAIN topic[p] : i \in DOMAIN topic'[p] /\ topic'[p][i] = topic[p][i]
    BY <1>1, LateMoves
  <1>4. PICK b \in Seq(Message) : b = r.batch
    BY DEF IInv, TypeOK, Request
  <1>5. \A k \in DOMAIN b : topic'[p][Len(topic[p]) + k] = b[k]
    BY <1>1, <1>4, LateMoves
  <1>6. \A i \in DOMAIN topic'[p] :
          i \in DOMAIN topic[p] \/ \E k \in DOMAIN b : i = Len(topic[p]) + k
    BY <1>1, <1>4, LateMoves
  <1>7. late' = late \ {r} /\ UNCHANGED <<queue, inflight, tries>>
    BY DEF LateAppend
  <1>8. topic \in [Partition -> Seq(Message)] /\ topic' \in [Partition -> Seq(Message)]
    BY DEF IInv, TypeOK
  <1>9. \A h, k \in DOMAIN b : h # k => DeliveryOf(b[h]) # DeliveryOf(b[k])
    <2> SUFFICES ASSUME NEW h \in DOMAIN b, NEW k \in DOMAIN b, h # k
                 PROVE  DeliveryOf(b[h]) # DeliveryOf(b[k])
      OBVIOUS
    <2>1. h < k \/ k < h
      OBVIOUS
    <2>2. Before(chain, b[h], b[k]) \/ Before(chain, b[k], b[h])
      BY <1>4, <2>1 DEF OrderInv, LateOrder
    <2> QED  BY <2>2 DEF Before, DeliveryOf
  <1>10. Bounded(topic')
    BY <1>2, <1>3, <1>8, BoundedGrows DEF CopiesInv
  <1>11. ASSUME NEW d \in Delivery
         PROVE  /\ IsFiniteSet(late') /\ IsFiniteSet(Places(topic', d))
                /\ CopiesOf(topic', late', d) \in Nat
                /\ CopiesOf(topic', late', d) <= CopiesOf(topic, late, d)
    <2>1. /\ Cardinality(Places(topic, d)) \in Nat /\ Cardinality(LateOf(late, d)) \in Nat
          /\ IsFiniteSet(Places(topic, d)) /\ IsFiniteSet(late)
      BY CopiesNat
    <2>2. /\ IsFiniteSet(late \ {r})
          /\ Cardinality(LateOf(late \ {r}, d)) \in Nat
          /\ Cardinality(LateOf(late \ {r}, d)) + (IF Has(r.batch, d) THEN 1 ELSE 0)
               = Cardinality(LateOf(late, d))
      BY <2>1, LateLess
    <2>3. /\ IsFiniteSet(Places(topic', d))
          /\ Cardinality(Places(topic', d))
               <= Cardinality(Places(topic, d)) + (IF Has(b, d) THEN 1 ELSE 0)
      <3>1. \A i \in DOMAIN topic[p] : topic'[p][i] = topic[p][i]
        BY <1>3
      <3> QED  BY <1>2, <1>5, <1>6, <1>8, <1>9, <2>1, <3>1, AppendCopies
    <2>4. Cardinality(Places(topic', d)) \in Nat
      BY <2>3, FS_CardinalityType
    <2> QED  BY <1>4, <1>7, <2>1, <2>2, <2>3, <2>4 DEF CopiesOf
  <1>12. IsFiniteSet(late')
    BY <1>7, FS_RemoveElement DEF CopiesInv
  <1>13. \A d \in Delivery : /\ IsFiniteSet(Places(topic', d))
                             /\ CopiesOf(topic', late', d) <= MaxAttempts
    <2> SUFFICES ASSUME NEW d \in Delivery
                 PROVE  CopiesOf(topic', late', d) <= MaxAttempts
      BY <1>11
    <2>1. CopiesOf(topic, late, d) <= MaxAttempts /\ CopiesOf(topic, late, d) \in Nat
      BY CopiesNat
    <2> QED  BY <1>11, <2>1, PusherAssumption DEF PusherAssumption
  <1>14. TriesInv'
    BY <1>7 DEF CopiesInv, TriesInv
  <1>15. QueuedCopies'
    <2> SUFFICES ASSUME NEW q \in Partition, NEW k \in DOMAIN queue[q]
                 PROVE  CopiesOf(topic', late', DeliveryOf(queue[q][k]))
                          <= IF k <= inflight[q] THEN tries[q] ELSE 0
      BY <1>7 DEF QueuedCopies
    <2>1. queue[q] \in Seq(Message) /\ tries[q] \in Nat
      BY DEF IInv, TypeOK
    <2>2. queue[q][k] \in Message
      BY <2>1
    <2>3. DeliveryOf(queue[q][k]) \in Delivery
      BY <2>2, DeliveryTyped
    <2>4. CopiesOf(topic, late, DeliveryOf(queue[q][k]))
            <= IF k <= inflight[q] THEN tries[q] ELSE 0
      BY DEF CopiesInv, QueuedCopies
    <2>5. CopiesOf(topic, late, DeliveryOf(queue[q][k])) \in Nat
      BY <2>3, CopiesNat
    <2> QED  BY <1>11, <2>1, <2>3, <2>4, <2>5
  <1> QED  BY <1>10, <1>12, <1>13, <1>14, <1>15 DEF CopiesInv

-----------------------------------------------------------------------------
(* Every step                                                              *)

\* Such a step keeps the order and the number of copies.
LEMMA TakesAwayKeeps ==
    ASSUME IInv, IInv', OrderInv, CopiesInv, TakesAway
    PROVE  OrderInv' /\ CopiesInv'
  <1>1. OrderInv'
    BY LessKeepsOrder DEF TakesAway
  <1>2. CopiesInv'
    BY WriterGone DEF TakesAway
  <1> QED  BY <1>1, <1>2

\* The end of the process takes away all it kept.
LEMMA ProcessEndsTakesAway ==
    ASSUME NEW how, ProcessEnds(how), UNCHANGED <<chain, topic, late>>
    PROVE  TakesAway
  <1>1. /\ \A l \in Listener : feed'[l] = <<>> /\ ~ Making(l)'
        /\ \A p \in Partition : queue'[p] = <<>> /\ inflight'[p] = 0 /\ tries'[p] = 0
        /\ dropped \subseteq dropped' /\ Queued \subseteq dropped'
    BY DEF ProcessEnds, Making
  <1> QED  BY <1>1 DEF TakesAway

\* The steps of the chain: what a listener is told of is new to it.
LEMMA ChainKeepsOrder ==
    ASSUME IInv, IInv', OrderInv, CopiesInv, ChainNext
    PROVE  OrderInv' /\ CopiesInv'
  <1>1. ASSUME NEW l \in Listener, NEW title, NEW plan, NEW amount,
               EmitLog(l, title, plan, amount)
        PROVE  OrderInv' /\ CopiesInv'
    <2> DEFINE log == [contract |-> l, title |-> title, plan |-> plan,
                       amount |-> amount, since |-> Len(prices[plan]),
                       live |-> Subscribed(l)]
    <2>0. PICK d : d = [log |-> Len(chain) + 1, removed |-> FALSE]
      OBVIOUS
    <2>1. /\ chain' = Append(chain, log)
          /\ Deliver(l, d)
          /\ UNCHANGED <<pc, hand, queue, inflight, tries, topic, late, dropped>>
      BY <1>1, <2>0 DEF EmitLog, writerVars
    <2>2. chain \in Seq(Log) /\ Len(chain) \in Nat /\ DOMAIN chain = 1..Len(chain)
      BY DEF IInv, TypeOK
    <2> HIDE DEF log
    <2>3. \A i \in DOMAIN chain : i \in DOMAIN chain' /\ chain'[i] = chain[i]
      BY <2>1, <2>2
    <2>4. d \in Delivery /\ d.log = Len(chain) + 1
      BY <2>0, <2>2 DEF Delivery
    <2>5. \A x : x.log \in DOMAIN chain => Before(chain', x, d)
      <3> SUFFICES ASSUME NEW x, x.log \in DOMAIN chain  PROVE Before(chain', x, d)
        OBVIOUS
      <3>1. x.log # d.log /\ x.log < d.log
        BY <2>2, <2>4
      <3> QED  BY <3>1 DEF Before
    <2>6. OrderInv'
      BY <2>1, <2>3, <2>4, <2>5, DeliverKeepsOrder
    <2> QED  BY <2>1, <2>6, WriterGone
  <1>2. ASSUME NEW i \in DOMAIN chain, Revert(i)
        PROVE  OrderInv' /\ CopiesInv'
    <2>0. PICK d : d = [log |-> i, removed |-> TRUE]
      OBVIOUS
    <2>1. /\ i \notin reverted /\ Deliver(chain[i].contract, d)
          /\ UNCHANGED <<chain, pc, hand, queue, inflight, tries, topic, late, dropped>>
      BY <1>2, <2>0 DEF Revert, writerVars
    <2>2. chain[i].contract \in Listener /\ i \in Nat
      <3>1. chain \in Seq(Log)
        BY DEF IInv, TypeOK
      <3>2. chain[i] \in Log
        BY <3>1
      <3> QED  BY <3>1, <3>2 DEF Log
    <2>3. d \in Delivery /\ d.log = i /\ d.removed = TRUE
      BY <2>0, <2>2 DEF Delivery
    <2>4. \A x : (x.removed => x.log \in reverted) => Before(chain', x, d)
      BY <2>1, <2>3 DEF Before
    <2>5. OrderInv'
      BY <2>1, <2>2, <2>3, <2>4, DeliverKeepsOrder
    <2> QED  BY <2>1, <2>5, WriterGone
  <1>3. ASSUME NEW plan, NEW x, UpdatePlan(plan, x)
        PROVE  TakesAway
    BY <1>3 DEF UpdatePlan, TakesAway, Making, listenerVars, writerVars
  <1>4. ASSUME Disconnect  PROVE TakesAway
    BY <1>4 DEF Disconnect, TakesAway, Making, chainVars, writerVars
  <1> QED  BY <1>1, <1>2, <1>3, <1>4, TakesAwayKeeps DEF ChainNext

\* The steps of a listener: what is made goes from the feed through the hand to
\* the writer.
LEMMA ListenerKeepsOrder ==
    ASSUME IInv, IInv', OrderInv, CopiesInv, NEW l \in Listener, ListenerNext(l)
    PROVE  OrderInv' /\ CopiesInv'
  <1>0. /\ pc \in [Listener -> PC] /\ hand \in [Listener -> Message]
        /\ feed \in [Listener -> Seq(Delivery)]
    BY DEF IInv, TypeOK
  <1>1. ASSUME \/ SubscribeOk(l) \/ SubscribeFail(l) \/ Wake(l)
               \/ ListenErr(l) \/ ListenDone(l)
        PROVE  TakesAway
    <2>1. /\ UNCHANGED <<chain, topic, late, hand, queue, inflight, tries>>
          /\ dropped \subseteq dropped'
          /\ \E x \in {"select", "sleep", "done", "connect"} : pc' = [pc EXCEPT ![l] = x]
          /\ feed' = feed \/ feed' = [feed EXCEPT ![l] = <<>>]
      BY <1>1 DEF SubscribeOk, SubscribeFail, Wake, ListenErr, ListenDone, AfterError,
         chainVars, writerVars
    <2>2. \A k \in Listener : feed'[k] = feed[k] \/ feed'[k] = <<>>
      BY <1>0, <2>1
    <2>3. \A k \in Listener : Making(k)' => Making(k)
      BY <1>0, <2>1 DEF Making
    <2> QED  BY <2>1, <2>2, <2>3 DEF TakesAway
  <1>2. CASE ListenLog(l)
    <2>1. UNCHANGED <<queue, inflight, tries, topic, late>>
      BY <1>2 DEF ListenLog, writerVars
    <2> QED  BY <1>2, <2>1, ListenLogKeepsOrder, WriterGone
  <1>3. ASSUME PlanOk(l)  PROVE TakesAway
    <2>1. /\ UNCHANGED <<chain, topic, late, feed, queue, inflight, tries, dropped>>
          /\ pc[l] = "plan" /\ pc' = [pc EXCEPT ![l] = "write"]
          /\ \E x : hand' = [hand EXCEPT ![l].price = x]
      BY <1>3 DEF PlanOk, chainVars, writerVars
    <2>2. \A k \in Listener : Making(k)' => Making(k)
      BY <1>0, <2>1 DEF Making
    <2>3. \A k \in Listener : /\ hand'[k].log = hand[k].log
                              /\ hand'[k].removed = hand[k].removed
      BY <1>0, <2>1 DEF Message
    <2> QED  BY <2>1, <2>2, <2>3 DEF TakesAway
  <1>4. ASSUME HandlerReturns(l), dropped \subseteq dropped',
               UNCHANGED <<chain, topic, late, feed, queue, inflight, tries>>
        PROVE  TakesAway
    <2>1. \A k \in Listener : Making(k)' => Making(k) /\ hand'[k] = hand[k]
      BY <1>0, <1>4 DEF HandlerReturns, Making
    <2> QED  BY <1>4, <2>1 DEF TakesAway
  <1>5. ASSUME PlanFail(l)  PROVE TakesAway
    BY <1>4, <1>5, ProcessEndsTakesAway DEF PlanFail, chainVars
  <1>6. ASSUME NEW p \in Partition, WriteEnqueue(l, p)
        PROVE  OrderInv' /\ CopiesInv'
    BY <1>6, EnqueueKeepsOrder, EnqueueKeepsCopies
  <1>7. ASSUME WriteReject(l) \/ AwaitCancel(l)  PROVE TakesAway
    BY <1>4, <1>7 DEF WriteReject, AwaitCancel, chainVars, writerVars
  <1> QED  BY <1>1, <1>2, <1>3, <1>5, <1>6, <1>7, TakesAwayKeeps DEF ListenerNext

\* At first nothing was emitted.
LEMMA InitOrder == Init => OrderInv /\ CopiesInv
  <1> SUFFICES ASSUME Init  PROVE OrderInv /\ CopiesInv
    OBVIOUS
  <1>1. /\ \A l \in Listener : feed[l] = <<>> /\ ~ Making(l)
        /\ \A p \in Partition : /\ queue[p] = <<>> /\ topic[p] = <<>>
                                /\ inflight[p] = 0 /\ tries[p] = 0
        /\ late = {}
    BY DEF Init, Making
  <1>2. OrderInv
    BY <1>1 DEF OrderInv, FeedOrder, HandOrder, WriteOrder, QueueOrder, SentOrder,
       FirstCopiesInChainOrder, LateOrder, Accepted, LateIn, ToSet
  <1>3. TriesInv /\ Bounded(topic) /\ QueuedCopies
    <2>1. TriesInv
      BY <1>1, PusherAssumption DEF TriesInv, PusherAssumption
    <2>2. Bounded(topic)
      BY <1>1 DEF Bounded
    <2>3. QueuedCopies
      BY <1>1 DEF QueuedCopies
    <2> QED  BY <2>1, <2>2, <2>3
  <1>4. \A d \in Delivery : Places(topic, d) = {} /\ LateOf(late, d) = {}
    BY <1>1 DEF Places, LateOf
  <1>5. \A d \in Delivery : /\ IsFiniteSet(Places(topic, d))
                            /\ CopiesOf(topic, late, d) <= MaxAttempts
    <2> SUFFICES ASSUME NEW d \in Delivery
                 PROVE  IsFiniteSet(Places(topic, d)) /\ CopiesOf(topic, late, d) <= MaxAttempts
      OBVIOUS
    <2>1. IsFiniteSet(Places(topic, d)) /\ CopiesOf(topic, late, d) = 0
      BY <1>4, FS_EmptySet DEF CopiesOf
    <2> QED  BY <2>1, PusherAssumption DEF PusherAssumption
  <1>6. IsFiniteSet(late)
    BY <1>1, FS_EmptySet
  <1> QED  BY <1>2, <1>3, <1>5, <1>6 DEF CopiesInv

\* Every step keeps the order and the number of copies.
LEMMA StepOrder ==
    IInv /\ IInv' /\ OrderInv /\ CopiesInv /\ [Next]_vars => OrderInv' /\ CopiesInv'
  <1> SUFFICES ASSUME IInv, IInv', OrderInv, CopiesInv, [Next]_vars
               PROVE  OrderInv' /\ CopiesInv'
    OBVIOUS
  <1>1. CASE ChainNext
    BY <1>1, ChainKeepsOrder
  <1>2. ASSUME NEW l \in Listener, ListenerNext(l)  PROVE OrderInv' /\ CopiesInv'
    BY <1>2, ListenerKeepsOrder
  <1>3. ASSUME NEW p \in Partition, Send(p)  PROVE OrderInv' /\ CopiesInv'
    BY <1>3, SendKeepsOrder, SendKeepsCopies
  <1>4. ASSUME Stop \/ CloseClient \/ CloseWriter \/ Restart \/ UNCHANGED vars
        PROVE  TakesAway
    <2>1. /\ UNCHANGED <<chain, topic, late, pc, hand, queue, inflight, tries>>
          /\ dropped \subseteq dropped'
          /\ \A l \in Listener : feed'[l] = feed[l] \/ feed'[l] = <<>>
      BY <1>4 DEF Stop, CloseClient, CloseWriter, Restart, vars, chainVars,
         listenerVars, writerVars
    <2> QED  BY <2>1 DEF TakesAway, Making
  <1>5. ASSUME Exit \/ Kill  PROVE TakesAway
    BY <1>5, ProcessEndsTakesAway DEF Exit, Kill, chainVars
  <1>6. ASSUME NEW r \in late, LateAppend(r)  PROVE OrderInv' /\ CopiesInv'
    BY <1>6, LateKeepsOrder, LateKeepsCopies
  <1> QED  BY <1>1, <1>2, <1>3, <1>4, <1>5, <1>6, TakesAwayKeeps DEF Next, Shutdown

\* Hence both hold in every reachable state.
LEMMA OrderInvariance == Spec => [](OrderInv /\ CopiesInv)
  <1>1. Init => OrderInv /\ CopiesInv
    BY InitOrder
  <1>2. IInv /\ IInv' /\ OrderInv /\ CopiesInv /\ [Next]_vars => OrderInv' /\ CopiesInv'
    BY StepOrder
  <1> QED  BY <1>1, <1>2, Invariance, PTL DEF Spec

\* In a partition the logs of one contract first appear in the order of the chain,
\* whatever is retried, late, lost, reconnected or restarted, but for those the
\* pusher had given up (Listen, the writer's one batch at a time).
THEOREM ChainOrderKept == Spec => []FirstCopiesInChainOrder
  <1>1. OrderInv /\ CopiesInv => FirstCopiesInChainOrder
    BY DEF OrderInv
  <1> QED  BY <1>1, OrderInvariance, PTL

\* The topic holds a delivery at most as often as the writer sends a batch,
\* however many processes there were and however late a request arrives.
THEOREM CopiesAreBounded == Spec => []CopiesBounded
  <1>1. IInv /\ OrderInv /\ CopiesInv => CopiesBounded
    <2> SUFFICES ASSUME IInv, CopiesInv, NEW p \in Partition, NEW m \in ToSet(topic[p])
                 PROVE  Cardinality(Copies(DeliveryOf(m))) <= MaxAttempts
      BY DEF CopiesBounded
    <2>1. topic \in [Partition -> Seq(Message)]
      BY DEF IInv, TypeOK
    <2>2. topic[p] \in Seq(Message)
      BY <2>1
    <2>3. m \in Message
      BY <2>2 DEF ToSet
    <2>4. DeliveryOf(m) \in Delivery
      BY <2>3, DeliveryTyped
    <2>5. Copies(DeliveryOf(m)) = Places(topic, DeliveryOf(m))
      BY <2>1, PlacesAre DEF Copies, CopiesInv
    <2>6. /\ CopiesOf(topic, late, DeliveryOf(m)) <= MaxAttempts
          /\ Cardinality(Places(topic, DeliveryOf(m))) \in Nat
          /\ Cardinality(LateOf(late, DeliveryOf(m))) \in Nat
      BY <2>4, CopiesNat
    <2> QED  BY <2>5, <2>6, PusherAssumption DEF CopiesOf, PusherAssumption
  <1> QED  BY <1>1, OrderInvariance, Invariance, PTL
=============================================================================
