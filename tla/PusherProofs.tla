---------------------------- MODULE PusherProofs ----------------------------
(***************************************************************************)
(* Proofs about the pusher for any contracts, partitions, plans, prices    *)
(* and bounds.                                                             *)
(***************************************************************************)
EXTENDS Pusher, SequenceTheorems, TLAPS

\* A log was emitted no later than the price history it refers to.
LogInv ==
    /\ \A plan \in Plan : prices[plan] # <<>>
    /\ \A i \in DOMAIN chain : chain[i].since \in 1..Len(prices[chain[i].plan])

\* A delivery is of a log of its contract, marked removed only when it was.
Known(l, d) ==
    /\ d.log \in DOMAIN chain
    /\ chain[d.log].contract = l
    /\ d.removed => d.log \in reverted

FeedInv == \A l \in Listener : \A d \in ToSet(feed[l]) : Known(l, d)

\* The message in hand is about a known log, and genuine once it has its price.
Unpriced(l, m) ==
    /\ l # "donate"
    /\ Known(l, m)
    /\ m.title = chain[m.log].title
    /\ m.title \in Handled(l)

HandInv ==
    \A l \in Listener :
        /\ pc[l] = "plan" => Unpriced(l, hand[l])
        /\ pc[l] \in {"write", "await"} => Genuine(hand[l])

QueueInv == \A p \in Partition : \A m \in ToSet(queue[p]) : Genuine(m)

\* So are the messages of a request that is late.
LateInv == \A r \in late : \A m \in ToSet(r.batch) : Genuine(m)

IInv ==
    /\ TypeOK
    /\ LogInv
    /\ FeedInv
    /\ HandInv
    /\ QueueInv
    /\ LateInv
    /\ TopicIsGenuine

-----------------------------------------------------------------------------
(* Sequences as the listeners and the writer use them                      *)

\* Append adds one element (Join, Deliver).
LEMMA AppendSet ==
    ASSUME NEW S, NEW s \in Seq(S), NEW e \in S
    PROVE  Append(s, e) \in Seq(S) /\ ToSet(Append(s, e)) = ToSet(s) \cup {e}
  <1>1. /\ Append(s, e) \in Seq(S)
        /\ Len(Append(s, e)) = Len(s) + 1
        /\ \A i \in 1..Len(s) : Append(s, e)[i] = s[i]
        /\ Append(s, e)[Len(s) + 1] = e
    BY AppendProperties
  <1>2. DOMAIN Append(s, e) = DOMAIN s \cup {Len(s) + 1}
    BY <1>1
  <1>3. \A i \in DOMAIN s : Append(s, e)[i] = s[i]
    BY <1>1
  <1> QED  BY <1>1, <1>2, <1>3 DEF ToSet

\* Tail and Head split a sequence that is not empty (ListenLog).
LEMMA TailSet ==
    ASSUME NEW S, NEW s \in Seq(S), s # <<>>
    PROVE  /\ Tail(s) \in Seq(S)
           /\ Head(s) \in S /\ Head(s) \in ToSet(s)
           /\ ToSet(Tail(s)) \subseteq ToSet(s)
  <1>1. /\ Head(s) \in S /\ Tail(s) \in Seq(S)
        /\ Len(Tail(s)) = Len(s) - 1
        /\ \A i \in 1..Len(Tail(s)) : Tail(s)[i] = s[i + 1]
    BY HeadTailProperties
  <1>2. Len(s) \in Nat /\ DOMAIN s = 1..Len(s) /\ Len(s) >= 1 /\ Head(s) = s[1]
    OBVIOUS
  <1>3. Head(s) \in ToSet(s)
    BY <1>2 DEF ToSet
  <1>4. ASSUME NEW i \in DOMAIN Tail(s)  PROVE Tail(s)[i] \in ToSet(s)
    <2>1. i \in 1..Len(Tail(s)) /\ i + 1 \in DOMAIN s
      BY <1>1, <1>2, <1>4
    <2> QED  BY <1>1, <2>1 DEF ToSet
  <1> QED  BY <1>1, <1>3, <1>4 DEF ToSet

\* A part of a sequence holds only its elements (Batch, Remaining).
LEMMA SubSeqSet ==
    ASSUME NEW S, NEW s \in Seq(S), NEW m \in Nat \ {0}, NEW n \in Nat, n <= Len(s)
    PROVE  SubSeq(s, m, n) \in Seq(S) /\ ToSet(SubSeq(s, m, n)) \subseteq ToSet(s)
  <1>1. /\ m \in Int /\ n \in Int
        /\ \A i \in m..n : s[i] \in S
    OBVIOUS
  <1>2. /\ SubSeq(s, m, n) \in Seq(S)
        /\ Len(SubSeq(s, m, n)) = IF m <= n THEN n - m + 1 ELSE 0
        /\ \A i \in 1..(n - m + 1) : SubSeq(s, m, n)[i] = s[m + i - 1]
    BY <1>1, SubSeqProperties
  <1>3. ASSUME NEW i \in DOMAIN SubSeq(s, m, n)
        PROVE  SubSeq(s, m, n)[i] \in ToSet(s)
    <2>1. i \in 1..(n - m + 1)
      BY <1>2, <1>3
    <2>2. m + i - 1 \in DOMAIN s
      BY <2>1
    <2> QED  BY <1>2, <2>1, <2>2 DEF ToSet
  <1> QED  BY <1>2, <1>3 DEF ToSet

\* A batch appended to a log adds only its own messages (Appended).
LEMMA ConcatSet ==
    ASSUME NEW S, NEW s \in Seq(S), NEW t \in Seq(S)
    PROVE  s \o t \in Seq(S) /\ ToSet(s \o t) \subseteq ToSet(s) \cup ToSet(t)
  <1>1. /\ s \o t \in Seq(S)
        /\ Len(s \o t) = Len(s) + Len(t)
        /\ \A i \in 1..(Len(s) + Len(t)) :
             (s \o t)[i] = IF i <= Len(s) THEN s[i] ELSE t[i - Len(s)]
    BY ConcatProperties
  <1>2. ASSUME NEW i \in DOMAIN (s \o t)
        PROVE  (s \o t)[i] \in ToSet(s) \cup ToSet(t)
    <2>1. i \in 1..(Len(s) + Len(t))
      BY <1>1, <1>2
    <2>2. CASE i <= Len(s)
      <3>1. i \in DOMAIN s
        BY <2>1, <2>2
      <3> QED  BY <1>1, <2>1, <2>2, <3>1 DEF ToSet
    <2>3. CASE ~ (i <= Len(s))
      <3>1. i - Len(s) \in DOMAIN t
        BY <2>1, <2>3
      <3> QED  BY <1>1, <2>1, <2>3, <3>1 DEF ToSet
    <2> QED  BY <2>2, <2>3
  <1> QED  BY <1>1, <1>2 DEF ToSet

\* A log appended to the topic keeps what was there and holds the batch.
LEMMA ConcatHolds ==
    ASSUME NEW S, NEW s \in Seq(S), NEW t \in Seq(S)
    PROVE  ToSet(s) \cup ToSet(t) \subseteq ToSet(s \o t)
  <1>1. /\ Len(s \o t) = Len(s) + Len(t)
        /\ \A i \in 1..(Len(s) + Len(t)) :
             (s \o t)[i] = IF i <= Len(s) THEN s[i] ELSE t[i - Len(s)]
        /\ s \o t \in Seq(S)
        /\ Len(s) \in Nat /\ Len(t) \in Nat
    BY ConcatProperties
  <1>2. ASSUME NEW i \in 1..Len(s)
        PROVE  s[i] \in ToSet(s \o t)
    <2>1. i \in DOMAIN (s \o t) /\ (s \o t)[i] = s[i]
      BY <1>1
    <2> QED  BY <2>1 DEF ToSet
  <1>3. ASSUME NEW i \in 1..Len(t)
        PROVE  t[i] \in ToSet(s \o t)
    <2>1. /\ Len(s) + i \in DOMAIN (s \o t)
          /\ (s \o t)[Len(s) + i] = t[i]
      BY <1>1
    <2> QED  BY <2>1 DEF ToSet
  <1>4. DOMAIN s = 1..Len(s) /\ DOMAIN t = 1..Len(t)
    OBVIOUS
  <1>5. ToSet(s) \subseteq ToSet(s \o t)
    BY <1>2, <1>4 DEF ToSet
  <1>6. ToSet(t) \subseteq ToSet(s \o t)
    BY <1>3, <1>4 DEF ToSet
  <1> QED  BY <1>5, <1>6

-----------------------------------------------------------------------------
(* What the chain can do to a message                                      *)

ChainGrows ==
    /\ Len(chain) <= Len(chain')
    /\ \A i \in 1..Len(chain) : chain'[i] = chain[i]
    /\ reverted \subseteq reverted'
    /\ \A plan \in Plan :
         /\ Len(prices[plan]) <= Len(prices'[plan])
         /\ \A k \in 1..Len(prices[plan]) : prices'[plan][k] = prices[plan][k]

\* The message that a genuine message and a known delivery were made from stays
\* what it was: the chain only grows and prices are only added.
LEMMA GenuineStable ==
    ASSUME TypeOK, LogInv, chain' \in Seq(Log), prices' \in [Plan -> Seq(Price)],
           ChainGrows
    PROVE  /\ \A m : Genuine(m) => Genuine(m)'
           /\ \A l, d : Known(l, d) => Known(l, d)'
           /\ \A l, m : Unpriced(l, m) => Unpriced(l, m)'
  <1>1. ASSUME NEW i \in DOMAIN chain
        PROVE  /\ i \in DOMAIN chain' /\ chain'[i] = chain[i]
               /\ chain[i] \in Log
               /\ PricesSince(i) \subseteq PricesSince(i)'
    <2>1. i \in DOMAIN chain' /\ chain'[i] = chain[i] /\ chain[i] \in Log
      BY DEF TypeOK, ChainGrows
    <2>2. chain[i].plan \in Plan
      BY <2>1 DEF Log
    <2> DEFINE old == prices[chain[i].plan]
               new == prices'[chain[i].plan]
    <2>3. /\ Len(old) \in Nat /\ Len(new) \in Nat /\ Len(old) <= Len(new)
          /\ \A k \in 1..Len(old) : new[k] = old[k]
          /\ chain[i].since \in 1..Len(old)
      BY <2>2 DEF TypeOK, LogInv, ChainGrows
    <2>4. \A k \in chain[i].since..Len(old) :
            k \in chain[i].since..Len(new) /\ new[k] = old[k]
      BY <2>3
    <2> QED  BY <2>1, <2>4 DEF PricesSince
  <1>2. ASSUME NEW m, Genuine(m)  PROVE Genuine(m)'
    BY <1>1, <1>2 DEF Genuine, ChainGrows
  <1>3. ASSUME NEW l, NEW d, Known(l, d)  PROVE Known(l, d)'
    BY <1>1, <1>3 DEF Known, ChainGrows
  <1>4. ASSUME NEW l, NEW m, Unpriced(l, m)  PROVE Unpriced(l, m)'
    BY <1>1, <1>4 DEF Unpriced, Known, ChainGrows
  <1> QED  BY <1>2, <1>3, <1>4

-----------------------------------------------------------------------------
(* Steps                                                                   *)

\* A delivery is fed to one listener or to nobody (Deliver).
LEMMA DeliverLemma ==
    ASSUME TypeOK, NEW l \in Listener, NEW d \in Delivery, Deliver(l, d)
    PROVE  /\ feed' \in [Listener -> Seq(Delivery)]
           /\ \A k \in Listener :
                ToSet(feed'[k]) \subseteq ToSet(feed[k]) \cup (IF k = l THEN {d} ELSE {})
  <1>1. CASE Subscribed(l)
    <2>1. feed' = [feed EXCEPT ![l] = Append(@, d)]
      BY <1>1 DEF Deliver
    <2>2. feed \in [Listener -> Seq(Delivery)] /\ feed[l] \in Seq(Delivery)
      BY DEF TypeOK
    <2>3. /\ Append(feed[l], d) \in Seq(Delivery)
          /\ ToSet(Append(feed[l], d)) = ToSet(feed[l]) \cup {d}
      BY <2>2, AppendSet
    <2> QED  BY <2>1, <2>2, <2>3
  <1>2. CASE ~ Subscribed(l)
    BY <1>2 DEF Deliver, TypeOK
  <1> QED  BY <1>1, <1>2

\* The logs fed to the listeners are deliveries.
LEMMA FedTyped == TypeOK => Fed \subseteq Delivery
  <1> SUFFICES ASSUME TypeOK, NEW l \in Listener, NEW i \in DOMAIN feed[l]
               PROVE  feed[l][i] \in Delivery
    BY DEF Fed, ToSet
  <1> QED  BY DEF TypeOK

\* A message is about a delivery.
LEMMA DeliveryTyped == ASSUME NEW m \in Message PROVE DeliveryOf(m) \in Delivery
  BY DEF Message, Delivery, DeliveryOf

\* So are those of the messages in hand and queued.
LEMMA MemoryTyped ==
    TypeOK => InHand \subseteq Delivery /\ Queued \subseteq Delivery
  <1> SUFFICES ASSUME TypeOK  PROVE InHand \subseteq Delivery /\ Queued \subseteq Delivery
    OBVIOUS
  <1>1. InHand \subseteq Delivery
    BY DeliveryTyped DEF InHand, TypeOK
  <1>2. ASSUME NEW p \in Partition, NEW i \in DOMAIN queue[p]
        PROVE  queue[p][i] \in Message
    BY DEF TypeOK
  <1>3. \A m \in UNION {ToSet(queue[p]) : p \in Partition} : m \in Message
    BY <1>2 DEF ToSet
  <1>4. Queued \subseteq Delivery
    BY <1>3, DeliveryTyped DEF Queued
  <1> QED  BY <1>1, <1>4

\* The steps of the chain: it grows, and the listeners are told of known logs.
LEMMA ChainStep ==
    ASSUME IInv, ChainNext
    PROVE  IInv'
  <1> USE DEF IInv
  <1>1. ASSUME chain' \in Seq(Log), prices' \in [Plan -> Seq(Price)],
               reverted' \subseteq Nat, ChainGrows,
               feed' \in [Listener -> Seq(Delivery)],
               sub' \in [Listener -> SubState], dropped' \subseteq Delivery,
               UNCHANGED <<app, lives, pc, hand, writerVars, announced>>,
               LogInv',
               \A k \in Listener : \A d \in ToSet(feed'[k]) :
                   d \in ToSet(feed[k]) \/ Known(k, d)'
        PROVE  IInv'
    <2>1. /\ \A m : Genuine(m) => Genuine(m)'
          /\ \A l, d : Known(l, d) => Known(l, d)'
          /\ \A l, m : Unpriced(l, m) => Unpriced(l, m)'
      BY <1>1, GenuineStable
    <2>2. TypeOK'
      BY <1>1 DEF TypeOK, writerVars
    <2>3. FeedInv'
      BY <1>1, <2>1 DEF FeedInv
    <2>4. HandInv'
      <3> SUFFICES ASSUME NEW l \in Listener
                   PROVE  /\ pc'[l] = "plan" => Unpriced(l, hand[l])'
                          /\ pc'[l] \in {"write", "await"} => Genuine(hand[l])'
        BY DEF HandInv
      <3>1. PICK m : m = hand[l]
        OBVIOUS
      <3>2. m = hand'[l] /\ pc'[l] = pc[l]
        BY <1>1, <3>1
      <3>3. /\ pc'[l] = "plan" => Unpriced(l, m)'
            /\ pc'[l] \in {"write", "await"} => Genuine(m)'
        BY <2>1, <3>1, <3>2 DEF HandInv
      <3> QED  BY <3>2, <3>3 DEF Unpriced, Known, Genuine, PricesSince
    <2>5. QueueInv' /\ LateInv' /\ TopicIsGenuine'
      BY <1>1, <2>1 DEF QueueInv, LateInv, TopicIsGenuine, writerVars
    <2> QED  BY <1>1, <2>2, <2>3, <2>4, <2>5
  <1>2. ASSUME NEW l \in Listener, NEW plan \in Plan, NEW amount \in AmountOf(l),
               NEW title \in Handled(l) \cup {"Unhandled"},
               EmitLog(l, title, plan, amount)
        PROVE  IInv'
    <2>1. plan \in Plan /\ amount \in Price \cup {0} /\ title \in Title
      <3>1. \A t \in Handled(l) : t \in UNION {Handled(k) : k \in Listener}
        OBVIOUS
      <3>2. title \in Title
        BY <3>1 DEF Title
      <3>3. amount \in Price \cup {0}
        BY DEF AmountOf
      <3> QED  BY <3>2, <3>3
    <2> DEFINE log == [contract |-> l, title |-> title, plan |-> plan,
                       amount |-> amount, since |-> Len(prices[plan]),
                       live |-> Subscribed(l)]
    <2>0. PICK d : d = [log |-> Len(chain) + 1, removed |-> FALSE]
      OBVIOUS
    <2>2. Len(prices[plan]) \in Nat \ {0} /\ Subscribed(l) \in BOOLEAN
      BY <2>1 DEF TypeOK, LogInv, Subscribed, Alive
    <2>3. log \in Log /\ d \in Delivery
      BY <2>0, <2>1, <2>2 DEF Log, Delivery, TypeOK
    <2>4. /\ chain' = Append(chain, log)
          /\ Deliver(l, d)
          /\ UNCHANGED <<reverted, prices, app, lives, pc, sub, hand, writerVars,
                         announced, dropped>>
      BY <1>2, <2>0 DEF EmitLog
    <2>5. /\ chain \in Seq(Log) /\ chain' \in Seq(Log)
          /\ Len(chain') = Len(chain) + 1
          /\ chain'[Len(chain) + 1] = log
          /\ \A i \in 1..Len(chain) : chain'[i] = chain[i]
      BY <2>3, <2>4, AppendProperties DEF TypeOK
    <2>6. ChainGrows
      BY <2>4, <2>5 DEF ChainGrows, TypeOK
    <2>7. LogInv'
      <3>1. ASSUME NEW i \in DOMAIN chain'
            PROVE  chain'[i].since \in 1..Len(prices'[chain'[i].plan])
        <4>1. CASE i \in DOMAIN chain
          BY <2>4, <2>5, <4>1 DEF LogInv
        <4>2. CASE i = Len(chain) + 1
          BY <2>2, <2>4, <2>5, <4>2
        <4> QED  BY <2>5, <4>1, <4>2
      <3> QED  BY <2>4, <3>1 DEF LogInv
    <2>8. /\ feed' \in [Listener -> Seq(Delivery)]
          /\ \A k \in Listener :
               ToSet(feed'[k]) \subseteq ToSet(feed[k]) \cup (IF k = l THEN {d} ELSE {})
      BY <2>3, <2>4, DeliverLemma
    <2>9. Known(l, d)'
      BY <2>0, <2>5 DEF Known
    <2>10. ASSUME NEW k \in Listener, NEW e \in ToSet(feed'[k])
           PROVE  e \in ToSet(feed[k]) \/ Known(k, e)'
      <3>1. e \in ToSet(feed[k]) \/ (k = l /\ e = d)
        BY <2>8
      <3> QED  BY <2>9, <3>1
    <2> QED  BY <1>1, <2>4, <2>5, <2>6, <2>7, <2>8, <2>10 DEF TypeOK
  <1>3. ASSUME NEW plan \in Plan, NEW x \in Price, UpdatePlan(plan, x)  PROVE IInv'
    <2>1. /\ prices' = [prices EXCEPT ![plan] = Append(@, x)]
          /\ UNCHANGED <<chain, reverted, app, lives, listenerVars, writerVars,
                         announced, dropped>>
      BY <1>3 DEF UpdatePlan
    <2>0. prices[plan] \in Seq(Price)
      BY DEF TypeOK
    <2>2. /\ Append(prices[plan], x) \in Seq(Price)
          /\ Append(prices[plan], x) # <<>>
          /\ Len(Append(prices[plan], x)) = Len(prices[plan]) + 1
          /\ \A k \in 1..Len(prices[plan]) : Append(prices[plan], x)[k] = prices[plan][k]
      BY <2>0, AppendProperties
    <2>3. prices' \in [Plan -> Seq(Price)]
      BY <2>1, <2>2 DEF TypeOK
    <2>4. ChainGrows
      BY <2>0, <2>1, <2>2 DEF ChainGrows, TypeOK
    <2>5. LogInv'
      <3>1. \A q \in Plan : prices'[q] # <<>>
        BY <2>1, <2>2 DEF TypeOK, LogInv
      <3>2. ASSUME NEW i \in DOMAIN chain
            PROVE  chain[i].since \in 1..Len(prices'[chain[i].plan])
        <4>1. chain[i].plan \in Plan
          <5>1. chain[i] \in Log
            BY DEF TypeOK
          <5> QED  BY <5>1 DEF Log
        <4>2. /\ Len(prices[chain[i].plan]) \in Nat /\ Len(prices'[chain[i].plan]) \in Nat
              /\ Len(prices[chain[i].plan]) <= Len(prices'[chain[i].plan])
              /\ chain[i].since \in 1..Len(prices[chain[i].plan])
          BY <2>3, <2>4, <4>1 DEF ChainGrows, LogInv, TypeOK
        <4> QED  BY <4>2
      <3> QED  BY <2>1, <3>1, <3>2 DEF LogInv
    <2> QED  BY <1>1, <2>1, <2>3, <2>4, <2>5 DEF TypeOK, listenerVars
  <1>4. ASSUME NEW i \in DOMAIN chain, Revert(i)  PROVE IInv'
    <2>0. PICK l, d : l = chain[i].contract /\ d = [log |-> i, removed |-> TRUE]
      OBVIOUS
    <2>1. /\ reverted' = reverted \cup {i}
          /\ Deliver(l, d)
          /\ UNCHANGED <<chain, prices, app, lives, pc, sub, hand, writerVars,
                         announced, dropped>>
      BY <1>4, <2>0 DEF Revert
    <2>2. l \in Listener /\ i \in Nat /\ d \in Delivery
      <3>1. chain[i] \in Log /\ i \in Nat
        BY DEF TypeOK
      <3> QED  BY <2>0, <3>1 DEF Log, Delivery
    <2>3. ChainGrows
      BY <2>1 DEF ChainGrows, TypeOK
    <2>4. /\ feed' \in [Listener -> Seq(Delivery)]
          /\ \A k \in Listener :
               ToSet(feed'[k]) \subseteq ToSet(feed[k]) \cup (IF k = l THEN {d} ELSE {})
      BY <2>1, <2>2, DeliverLemma
    <2>5. Known(l, d)'
      BY <2>0, <2>1 DEF Known
    <2>6. ASSUME NEW k \in Listener, NEW e \in ToSet(feed'[k])
          PROVE  e \in ToSet(feed[k]) \/ Known(k, e)'
      <3>1. e \in ToSet(feed[k]) \/ (k = l /\ e = d)
        BY <2>4
      <3> QED  BY <2>5, <3>1
    <2>7. LogInv'
      BY <2>1 DEF LogInv
    <2> QED  BY <1>1, <2>1, <2>2, <2>3, <2>4, <2>6, <2>7 DEF TypeOK
  <1>5. CASE Disconnect
    <2>1. /\ sub' = [l \in Listener |-> IF sub[l] = "live" THEN "lost" ELSE sub[l]]
          /\ feed' = [l \in Listener |-> <<>>]
          /\ dropped' = dropped \cup Fed
          /\ UNCHANGED <<chainVars, app, lives, pc, hand, writerVars, announced>>
      BY <1>5 DEF Disconnect
    <2>2. ChainGrows /\ LogInv'
      BY <2>1 DEF ChainGrows, LogInv, chainVars, TypeOK
    <2>3. dropped' \subseteq Delivery
      BY <2>1, FedTyped DEF TypeOK
    <2>4. \A k \in Listener : ToSet(feed'[k]) = {}
      BY <2>1 DEF ToSet
    <2> QED  BY <1>1, <2>1, <2>2, <2>3, <2>4 DEF TypeOK, SubState, chainVars
  <1> QED  BY <1>2, <1>3, <1>4, <1>5 DEF ChainNext

\* What a step of the process owes: the chain is left alone, a feed only gets
\* shorter, a hand is kept or filled properly, and what is queued, late or stored
\* was already there or is genuine.
LEMMA Frame ==
    ASSUME IInv, TypeOK', UNCHANGED chainVars,
           \A l \in Listener : ToSet(feed'[l]) \subseteq ToSet(feed[l]),
           \A l \in Listener :
               \/ pc'[l] \notin {"plan", "write", "await"}
               \/ pc'[l] = pc[l] /\ hand'[l] = hand[l]
               \/ pc'[l] = "plan" /\ Unpriced(l, hand'[l])
               \/ pc'[l] \in {"write", "await"} /\ Genuine(hand'[l]),
           \A p \in Partition : \A m \in ToSet(queue'[p]) :
               m \in ToSet(queue[p]) \/ Genuine(m),
           \A p \in Partition : \A m \in ToSet(topic'[p]) :
               m \in ToSet(topic[p]) \/ Genuine(m),
           \A r \in late' : r \in late \/ \A m \in ToSet(r.batch) : Genuine(m)
    PROVE  IInv'
  <1> USE DEF IInv
  <1>1. chain' = chain /\ prices' = prices /\ reverted' = reverted
    BY DEF chainVars
  <1>2. \A m : Genuine(m) => Genuine(m)'
    BY <1>1 DEF Genuine, PricesSince
  <1>3. \A l, m : /\ Known(l, m) => Known(l, m)'
                  /\ Unpriced(l, m) => Unpriced(l, m)'
    BY <1>1 DEF Known, Unpriced
  <1>4. LogInv'
    BY <1>1 DEF LogInv
  <1>5. FeedInv'
    BY <1>3 DEF FeedInv
  <1>6. HandInv'
    <2> SUFFICES ASSUME NEW l \in Listener
                 PROVE  /\ pc'[l] = "plan" => Unpriced(l, hand[l])'
                        /\ pc'[l] \in {"write", "await"} => Genuine(hand[l])'
      BY DEF HandInv
    <2>1. PICK m : m = hand'[l]
      OBVIOUS
    <2>2. /\ pc'[l] = "plan" => Unpriced(l, m)
          /\ pc'[l] \in {"write", "await"} => Genuine(m)
      BY <2>1 DEF HandInv
    <2>3. /\ pc'[l] = "plan" => Unpriced(l, m)'
          /\ pc'[l] \in {"write", "await"} => Genuine(m)'
      BY <1>2, <1>3, <2>2
    <2> QED  BY <2>1, <2>3 DEF Unpriced, Known, Genuine, PricesSince
  <1>7. QueueInv' /\ LateInv' /\ TopicIsGenuine'
    BY <1>2 DEF QueueInv, LateInv, TopicIsGenuine
  <1> QED  BY <1>4, <1>5, <1>6, <1>7

\* The message of a handler that does nothing is one.
LEMMA EmptyTyped == Empty \in Message
  BY DEF Empty, Message, Title

\* What is announced on an error are deliveries.
LEMMA AnnounceTyped ==
    ASSUME TypeOK, NEW L \in SUBSET Listener, AnnounceDespiteError(L)
    PROVE  announced' \subseteq Delivery
  <1>1. \A l \in L : DeliveryOf(hand[l]) \in Delivery
    BY DeliveryTyped DEF TypeOK
  <1> QED  BY <1>1 DEF AnnounceDespiteError, TypeOK

\* A process that ends leaves nothing to be ungenuine.
LEMMA ProcessEndsStep ==
    ASSUME IInv, NEW how \in AppState, ProcessEnds(how),
           UNCHANGED <<chainVars, lives, topic, late, announced>>
    PROVE  IInv'
  <1>1. TypeOK'
    <2>1. dropped' \subseteq Delivery
      BY MemoryTyped, FedTyped DEF IInv, TypeOK, ProcessEnds
    <2> QED  BY <2>1, EmptyTyped DEF IInv, TypeOK, ProcessEnds, PC, SubState, chainVars
  <1>2. /\ \A l \in Listener : ToSet(feed'[l]) = {}
        /\ \A p \in Partition : ToSet(queue'[p]) = {}
    BY DEF ProcessEnds, ToSet
  <1>3. \A l \in Listener : pc'[l] = "connect"
    BY DEF ProcessEnds
  <1> QED  BY <1>1, <1>2, <1>3, Frame

\* The steps of a listener goroutine.
LEMMA ListenerStep ==
    ASSUME IInv, NEW l \in Listener, ListenerNext(l)
    PROVE  IInv'
  <1> USE DEF IInv
  <1>1. CASE \/ SubscribeOk(l) \/ SubscribeFail(l) \/ Wake(l) \/ ListenErr(l)
             \/ ListenDone(l)
    <2>1. /\ UNCHANGED <<chainVars, app, lives, hand, writerVars, announced>>
          /\ \E at \in {"select", "connect", "sleep", "done"} : pc' = [pc EXCEPT ![l] = at]
          /\ UNCHANGED sub \/ \E st \in SubState : sub' = [sub EXCEPT ![l] = st]
          /\ UNCHANGED feed \/ feed' = [feed EXCEPT ![l] = <<>>]
          /\ UNCHANGED dropped \/ dropped' = dropped \cup ToSet(feed[l])
      BY <1>1 DEF SubscribeOk, SubscribeFail, Wake, ListenErr, ListenDone, AfterError,
                  SubState
    <2>2. ToSet(feed[l]) \subseteq Delivery
      BY FedTyped DEF Fed
    <2>3. TypeOK'
      <3>1. pc' \in [Listener -> PC]
        <4>1. PICK at \in {"select", "connect", "sleep", "done"} : pc' = [pc EXCEPT ![l] = at]
          BY <2>1
        <4> QED  BY <4>1 DEF TypeOK, PC
      <3>2. sub' \in [Listener -> SubState]
        <4>1. CASE UNCHANGED sub
          BY <4>1 DEF TypeOK
        <4>2. CASE \E st \in SubState : sub' = [sub EXCEPT ![l] = st]
          <5>1. PICK st \in SubState : sub' = [sub EXCEPT ![l] = st]
            BY <4>2
          <5> QED  BY <5>1 DEF TypeOK
        <4> QED  BY <2>1, <4>1, <4>2
      <3>3. feed' \in [Listener -> Seq(Delivery)]
        <4>1. CASE UNCHANGED feed
          BY <4>1 DEF TypeOK
        <4>2. CASE feed' = [feed EXCEPT ![l] = <<>>]
          BY <4>2 DEF TypeOK
        <4> QED  BY <2>1, <4>1, <4>2
      <3>4. dropped' \subseteq Delivery
        BY <2>1, <2>2 DEF TypeOK
      <3> QED  BY <2>1, <3>1, <3>2, <3>3, <3>4 DEF TypeOK, chainVars, writerVars
    <2>4. ASSUME NEW k \in Listener  PROVE ToSet(feed'[k]) \subseteq ToSet(feed[k])
      <3>1. feed'[k] = feed[k] \/ feed'[k] = <<>>
        BY <2>1 DEF TypeOK
      <3> QED  BY <3>1 DEF ToSet
    <2>5. ASSUME NEW k \in Listener
          PROVE  \/ pc'[k] \notin {"plan", "write", "await"}
                 \/ pc'[k] = pc[k] /\ hand'[k] = hand[k]
      <3>1. PICK at \in {"select", "connect", "sleep", "done"} : pc' = [pc EXCEPT ![l] = at]
        BY <2>1
      <3>2. pc'[k] = (IF k = l THEN at ELSE pc[k]) /\ hand'[k] = hand[k]
        BY <2>1, <3>1 DEF TypeOK
      <3> QED  BY <3>1, <3>2
    <2> QED  BY <2>1, <2>3, <2>4, <2>5, Frame DEF writerVars
  <1>2. CASE ListenLog(l)
    <2>1. PICK d : d = Head(feed[l])
      OBVIOUS
    <2> DEFINE log == chain[d.log]
    <2>2. feed[l] \in Seq(Delivery) /\ feed[l] # <<>>
      BY <1>2 DEF TypeOK, ListenLog
    <2>3. /\ Tail(feed[l]) \in Seq(Delivery) /\ d \in Delivery /\ d \in ToSet(feed[l])
          /\ ToSet(Tail(feed[l])) \subseteq ToSet(feed[l])
      BY <2>1, <2>2, TailSet
    <2>4. /\ Known(l, d) /\ log \in Log /\ log.contract = l
          /\ log.amount \in Price \cup {0} /\ log.title \in Title
      <3>1. Known(l, d)
        BY <2>3 DEF FeedInv
      <3>2. log \in Log
        BY <3>1 DEF Known, TypeOK
      <3> QED  BY <3>1, <3>2 DEF Known, Log
    <2>5. /\ feed' = [feed EXCEPT ![l] = Tail(@)]
          /\ UNCHANGED <<chainVars, app, lives, sub, writerVars, announced, dropped>>
      BY <1>2 DEF ListenLog, HandlerFound
    <2>6. \A k \in Listener : ToSet(feed'[k]) \subseteq ToSet(feed[k])
      BY <2>3, <2>5 DEF TypeOK
    <2>7. CASE log.title \in Handled(l)
      <3> DEFINE m == [title |-> log.title, log |-> d.log, removed |-> d.removed,
                       price |-> IF l = "donate" THEN log.amount ELSE 0]
                 at == IF l = "donate" THEN "write" ELSE "plan"
      <3>1. hand' = [hand EXCEPT ![l] = m] /\ pc' = [pc EXCEPT ![l] = at]
        BY <1>2, <2>1, <2>7 DEF ListenLog, HandlerFound
      <3>2. m \in Message
        BY <2>3, <2>4 DEF Message, Delivery
      <3>3. TypeOK'
        BY <2>3, <2>5, <3>1, <3>2 DEF TypeOK, PC, chainVars, writerVars
      <3>4. l # "donate" => Unpriced(l, m)
        BY <2>4, <2>7 DEF Unpriced, Known
      <3>5. l = "donate" => Genuine(m)
        BY <2>4, <2>7 DEF Genuine, Known, PricesSince
      <3>6. hand'[l] = m /\ pc'[l] = at
        BY <3>1 DEF TypeOK
      <3>7. \/ pc'[l] = "plan" /\ Unpriced(l, hand'[l])
            \/ pc'[l] \in {"write", "await"} /\ Genuine(hand'[l])
        BY <3>4, <3>5, <3>6
      <3>8. \A k \in Listener : k # l => pc'[k] = pc[k] /\ hand'[k] = hand[k]
        BY <3>1 DEF TypeOK
      <3> HIDE DEF m, at
      <3> QED  BY <2>5, <2>6, <3>3, <3>7, <3>8, Frame DEF writerVars
    <2>8. CASE ~ (log.title \in Handled(l))
      <3>1. UNCHANGED <<hand, pc>>
        BY <1>2, <2>1, <2>8 DEF ListenLog, HandlerFound
      <3>2. TypeOK'
        BY <2>3, <2>5, <3>1 DEF TypeOK, chainVars, writerVars
      <3> QED  BY <2>5, <2>6, <3>1, <3>2, Frame DEF writerVars
    <2> QED  BY <2>7, <2>8
  <1>3. CASE PlanOk(l)
    <2>1. PICK i : i = hand[l].log
      OBVIOUS
    <2> DEFINE log == chain[i]
               x == PriceNow(log.plan)
    <2>2. /\ pc[l] = "plan"
          /\ hand' = [hand EXCEPT ![l].price = x]
          /\ pc' = [pc EXCEPT ![l] = "write"]
          /\ UNCHANGED <<chainVars, app, lives, sub, feed, writerVars, announced, dropped>>
      BY <1>3, <2>1 DEF PlanOk
    <2>3. Unpriced(l, hand[l]) /\ hand[l] \in Message
      BY <2>2 DEF HandInv, TypeOK
    <2>4. i \in DOMAIN chain /\ log \in Log /\ log.plan \in Plan
      <3>1. i \in DOMAIN chain
        BY <2>1, <2>3 DEF Unpriced, Known
      <3>2. log \in Log
        BY <3>1 DEF TypeOK
      <3> QED  BY <3>1, <3>2 DEF Log
    <2> DEFINE had == prices[log.plan]
    <2>5. /\ had \in Seq(Price) /\ Len(had) \in Nat \ {0}
          /\ log.since \in 1..Len(had)
      BY <2>4 DEF LogInv, TypeOK
    <2>6. x = had[Len(had)] /\ x \in Price
      BY <2>5 DEF PriceNow, Last
    <2>7. PICK m : m = [hand[l] EXCEPT !.price = x]
      OBVIOUS
    <2>8. /\ m \in Message /\ m.log = i /\ m.title = hand[l].title
          /\ m.removed = hand[l].removed /\ m.price = x
      BY <2>1, <2>3, <2>6, <2>7 DEF Message
    <2>9. hand' = [hand EXCEPT ![l] = m]
      BY <2>2, <2>7
    <2>10. x \in PricesSince(i)
      <3>1. log.contract # "donate"
        BY <2>1, <2>3 DEF Unpriced, Known
      <3> QED  BY <2>5, <2>6, <3>1 DEF PricesSince
    <2>11. Genuine(m)
      BY <2>1, <2>3, <2>4, <2>8, <2>10 DEF Genuine, Unpriced, Known
    <2>12. TypeOK'
      BY <2>2, <2>8, <2>9 DEF TypeOK, PC, chainVars, writerVars
    <2>13. /\ hand'[l] = m /\ pc'[l] = "write"
           /\ \A k \in Listener : k # l => pc'[k] = pc[k] /\ hand'[k] = hand[k]
      BY <2>2, <2>9 DEF TypeOK
    <2> QED  BY <2>2, <2>11, <2>12, <2>13, Frame DEF writerVars
  <1>4. CASE PlanFail(l) /\ hand[l].title = "SubscriptionCharged"
    <2>1. ProcessEnds("panicked") /\ UNCHANGED <<chainVars, lives, topic, late, announced>>
      BY <1>4 DEF PlanFail
    <2> QED  BY <2>1, ProcessEndsStep DEF AppState
  <1>5. CASE \/ PlanFail(l) /\ hand[l].title # "SubscriptionCharged"
             \/ WriteReject(l) \/ AwaitCancel(l)
    <2>1. /\ HandlerReturns(l)
          /\ dropped' \in {dropped, dropped \cup {DeliveryOf(hand[l])}}
          /\ UNCHANGED announced \/ AnnounceDespiteError({l})
          /\ UNCHANGED <<chainVars, app, lives, sub, feed, writerVars>>
      BY <1>5 DEF PlanFail, WriteReject, AwaitCancel, writerVars
    <2>2. dropped' \subseteq Delivery /\ announced' \subseteq Delivery
      BY <2>1, AnnounceTyped, DeliveryTyped DEF TypeOK
    <2>3. TypeOK'
      BY <2>1, <2>2, EmptyTyped DEF TypeOK, PC, HandlerReturns, chainVars, writerVars
    <2>4. \A k \in Listener : \/ pc'[k] = "select"
                              \/ pc'[k] = pc[k] /\ hand'[k] = hand[k]
      BY <2>1 DEF HandlerReturns, TypeOK
    <2> QED  BY <2>1, <2>3, <2>4, Frame DEF writerVars
  <1>6. ASSUME NEW p \in Partition, WriteEnqueue(l, p)  PROVE IInv'
    <2>1. /\ pc[l] = "write"
          /\ queue' = [queue EXCEPT ![p] = Append(queue[p], hand[l])]
          /\ pc' = [pc EXCEPT ![l] = "await"]
          /\ UNCHANGED <<chainVars, app, lives, sub, feed, hand, inflight, tries, topic,
                         late, announced, dropped>>
      BY <1>6 DEF WriteEnqueue, Join
    <2>2. hand[l] \in Message /\ queue[p] \in Seq(Message) /\ Genuine(hand[l])
      BY <2>1 DEF TypeOK, HandInv
    <2>3. /\ Append(queue[p], hand[l]) \in Seq(Message)
          /\ ToSet(Append(queue[p], hand[l])) = ToSet(queue[p]) \cup {hand[l]}
      BY <2>2, AppendSet
    <2>4. TypeOK'
      BY <2>1, <2>3 DEF TypeOK, PC, chainVars
    <2>5. /\ pc'[l] = "await" /\ hand'[l] = hand[l]
          /\ \A k \in Listener : k # l => pc'[k] = pc[k] /\ hand'[k] = hand[k]
      BY <2>1 DEF TypeOK
    <2>6. \A q \in Partition : \A m \in ToSet(queue'[q]) :
            m \in ToSet(queue[q]) \/ Genuine(m)
      BY <2>1, <2>2, <2>3 DEF TypeOK
    <2>7. \A k \in Listener :
            \/ pc'[k] = pc[k] /\ hand'[k] = hand[k]
            \/ pc'[k] \in {"write", "await"} /\ Genuine(hand'[k])
      BY <2>2, <2>5
    <2> QED  BY <2>1, <2>4, <2>6, <2>7, Frame
  <1> QED  BY <1>1, <1>2, <1>3, <1>4, <1>5, <1>6 DEF ListenerNext

\* The steps of the writer's goroutine of a partition.
LEMMA SendStep ==
    ASSUME IInv, NEW p \in Partition, Send(p)
    PROVE  IInv'
  <1> USE DEF IInv
  <1>1. PICK n \in 1..Len(queue[p]) :
          SendAcked(p, n) \/ SendRetried(p, n) \/ SendAbandoned(p, n)
    BY DEF Send
  <1>2. queue[p] \in Seq(Message) /\ topic[p] \in Seq(Message)
    BY DEF TypeOK
  <1>3. /\ Batch(p, n) \in Seq(Message)
        /\ ToSet(Batch(p, n)) \subseteq ToSet(queue[p])
    BY <1>2, SubSeqSet DEF Batch
  <1>4. /\ topic[p] \o Batch(p, n) \in Seq(Message)
        /\ ToSet(topic[p] \o Batch(p, n)) \subseteq ToSet(topic[p]) \cup ToSet(Batch(p, n))
    BY <1>2, <1>3, ConcatSet
  <1>5. \A m \in ToSet(Batch(p, n)) : Genuine(m)
    BY <1>3 DEF QueueInv
  <1>6. /\ UNCHANGED <<chainVars, app, lives, sub, feed>>
        /\ UNCHANGED <<topic, late>> \/ Appended(p, n) \/ Delayed(p, n)
    BY <1>1 DEF SendAcked, SendRetried, SendAbandoned, listenerVars
  <1>10. /\ late' \subseteq Request
         /\ \A r \in late' : r \in late \/ \A m \in ToSet(r.batch) : Genuine(m)
    <2>1. CASE Delayed(p, n)
      <3> DEFINE r == [part |-> p, batch |-> Batch(p, n), attempt |-> tries[p]]
      <3>1. r \in Request
        BY <1>3 DEF Request, TypeOK
      <3>2. late' = late \cup {r} /\ r.batch = Batch(p, n)
        BY <2>1 DEF Delayed
      <3> HIDE DEF r
      <3> QED  BY <1>5, <3>1, <3>2 DEF TypeOK
    <2>2. CASE UNCHANGED late
      BY <2>2 DEF TypeOK
    <2> QED  BY <1>6, <2>1, <2>2 DEF Appended
  <1>7. /\ topic' \in [Partition -> Seq(Message)]
        /\ \A q \in Partition : \A m \in ToSet(topic'[q]) :
             m \in ToSet(topic[q]) \/ Genuine(m)
    <2>1. CASE UNCHANGED topic
      BY <2>1 DEF TypeOK
    <2>2. CASE Appended(p, n)
      BY <1>4, <1>5, <2>2 DEF Appended, TypeOK
    <2> QED  BY <1>6, <2>1, <2>2 DEF Delayed
  <1>8. CASE SendRetried(p, n)
    <2>1. TypeOK'
      BY <1>7, <1>8, <1>10 DEF SendRetried, TypeOK, chainVars, listenerVars
    <2> QED  BY <1>6, <1>7, <1>8, <1>10, <2>1, Frame DEF SendRetried, listenerVars
  <1>9. CASE SendAcked(p, n) \/ SendAbandoned(p, n)
    <2>1. Complete(p, n)
      BY <1>9 DEF SendAcked, SendAbandoned
    <2>2. /\ Remaining(queue[p], n) \in Seq(Message)
          /\ ToSet(Remaining(queue[p], n)) \subseteq ToSet(queue[p])
      BY <1>2, SubSeqSet DEF Remaining
    <2>3. /\ queue' \in [Partition -> Seq(Message)]
          /\ \A q \in Partition : ToSet(queue'[q]) \subseteq ToSet(queue[q])
      BY <2>1, <2>2 DEF Complete, TypeOK
    <2>4. announced' \subseteq Delivery /\ dropped' \subseteq Delivery
      <3>1. Waiting(p, n) \subseteq Listener
        BY DEF Waiting
      <3>2. /\ \A l \in Listener : DeliveryOf(hand[l]) \in Delivery
            /\ \A m \in ToSet(Batch(p, n)) : DeliveryOf(m) \in Delivery
        <4>1. ToSet(Batch(p, n)) \subseteq Message
          BY <1>3 DEF ToSet
        <4> QED  BY <4>1, DeliveryTyped DEF TypeOK
      <3>3. CASE SendAcked(p, n)
        BY <3>1, <3>2, <3>3 DEF SendAcked, TypeOK
      <3>4. CASE SendAbandoned(p, n)
        BY <3>1, <3>2, <3>4, AnnounceTyped DEF SendAbandoned, TypeOK
      <3> QED  BY <1>9, <3>3, <3>4
    <2>5. TypeOK'
      BY <1>6, <1>7, <1>10, <2>1, <2>3, <2>4, EmptyTyped
         DEF Complete, TypeOK, PC, chainVars
    <2>6. \A l \in Listener : \/ pc'[l] = "select"
                              \/ pc'[l] = pc[l] /\ hand'[l] = hand[l]
      BY <2>1 DEF Complete
    <2> QED  BY <1>6, <1>7, <1>10, <2>3, <2>5, <2>6, Frame
  <1> QED  BY <1>1, <1>8, <1>9

\* A late request brings what its batch holds, and is no longer late.
LEMMA LateGrows ==
    ASSUME IInv, NEW r \in late, LateAppend(r)
    PROVE  /\ r \in Request /\ late' = late \ {r}
           /\ topic' \in [Partition -> Seq(Message)]
           /\ \A q \in Partition :
                /\ ToSet(topic[q]) \subseteq ToSet(topic'[q])
                /\ ToSet(topic'[q]) \subseteq ToSet(topic[q]) \cup ToSet(r.batch)
           /\ UNCHANGED <<chainVars, app, lives, listenerVars, queue, inflight, tries,
                          announced, dropped>>
  <1> USE DEF IInv
  <1>1. r \in Request /\ r.part \in Partition /\ r.batch \in Seq(Message)
    BY DEF TypeOK, Request
  <1>2. /\ topic[r.part] \in Seq(Message)
        /\ topic' = [topic EXCEPT ![r.part] = topic[r.part] \o r.batch]
        /\ late' = late \ {r}
        /\ UNCHANGED <<chainVars, app, lives, listenerVars, queue, inflight, tries,
                       announced, dropped>>
    BY <1>1 DEF LateAppend, TypeOK
  <1>3. /\ topic[r.part] \o r.batch \in Seq(Message)
        /\ ToSet(topic[r.part] \o r.batch) \subseteq ToSet(topic[r.part]) \cup ToSet(r.batch)
        /\ ToSet(topic[r.part]) \subseteq ToSet(topic[r.part] \o r.batch)
    BY <1>1, <1>2, ConcatSet, ConcatHolds
  <1>4. topic \in [Partition -> Seq(Message)]
    BY DEF TypeOK
  <1> QED  BY <1>1, <1>2, <1>3, <1>4

\* A late request reaches the broker: what it brings was genuine all along.
LEMMA LateStep ==
    ASSUME IInv, NEW r \in late, LateAppend(r)
    PROVE  IInv'
  <1>1. TypeOK'
    BY LateGrows DEF IInv, TypeOK, chainVars, listenerVars
  <1>2. \A m \in ToSet(r.batch) : Genuine(m)
    BY DEF IInv, LateInv
  <1> QED  BY <1>1, <1>2, LateGrows, Frame DEF listenerVars

-----------------------------------------------------------------------------

\* Init establishes the inductive invariant.
LEMMA InitInv == Init => IInv
  <1> SUFFICES ASSUME Init  PROVE IInv
    OBVIOUS
  <1>1. PICK price \in [Plan -> Price] : prices = [plan \in Plan |-> <<price[plan]>>]
    <2>1. \A plan \in Plan : \E x \in Price : prices[plan] = <<x>>
      BY DEF Init
    <2> DEFINE price == [plan \in Plan |-> prices[plan][1]]
    <2>2. price \in [Plan -> Price] /\ prices = [plan \in Plan |-> <<price[plan]>>]
      BY <2>1 DEF Init
    <2> QED  BY <2>2
  <1>2. TypeOK
    BY <1>1, EmptyTyped DEF Init, TypeOK, AppState, PC, SubState
  <1>3. LogInv
    BY <1>1 DEF Init, LogInv
  <1>4. FeedInv /\ HandInv /\ QueueInv /\ LateInv /\ TopicIsGenuine
    BY DEF Init, FeedInv, HandInv, QueueInv, LateInv, TopicIsGenuine, ToSet
  <1> QED  BY <1>2, <1>3, <1>4 DEF IInv

\* Every step keeps it.
LEMMA StepInv == IInv /\ [Next]_vars => IInv'
  <1> SUFFICES ASSUME IInv, [Next]_vars  PROVE IInv'
    OBVIOUS
  <1> USE DEF IInv
  <1>1. CASE ChainNext
    BY <1>1, ChainStep
  <1>2. ASSUME NEW l \in Listener, ListenerNext(l)  PROVE IInv'
    BY <1>2, ListenerStep
  <1>3. ASSUME NEW p \in Partition, Send(p)  PROVE IInv'
    BY <1>3, SendStep
  <1>6. ASSUME NEW r \in late, LateAppend(r)  PROVE IInv'
    BY <1>6, LateStep
  <1>4. CASE Stop \/ CloseClient \/ CloseWriter \/ Restart \/ UNCHANGED vars
    <2>1. /\ UNCHANGED <<chainVars, pc, hand, writerVars, announced>>
          /\ app' \in AppState /\ lives' \in Nat
          /\ UNCHANGED feed \/ feed' = [l \in Listener |-> <<>>]
          /\ sub' \in [Listener -> SubState]
          /\ dropped' = dropped \/ dropped' = dropped \cup Fed
      BY <1>4 DEF Stop, CloseClient, CloseWriter, Restart, vars, listenerVars,
                  TypeOK, AppState, SubState
    <2>2. dropped' \subseteq Delivery
      BY <2>1, FedTyped DEF TypeOK
    <2>3. TypeOK'
      <3>1. feed' \in [Listener -> Seq(Delivery)]
        <4>1. CASE UNCHANGED feed
          BY <4>1 DEF TypeOK
        <4>2. CASE feed' = [l \in Listener |-> <<>>]
          BY <4>2
        <4> QED  BY <2>1, <4>1, <4>2
      <3> QED  BY <2>1, <2>2, <3>1 DEF TypeOK, chainVars, writerVars
    <2>4. \A l \in Listener : ToSet(feed'[l]) \subseteq ToSet(feed[l])
      BY <2>1 DEF ToSet
    <2> QED  BY <2>1, <2>3, <2>4, Frame DEF writerVars
  <1>5. CASE Exit \/ Kill
    <2>1. \E how \in AppState : ProcessEnds(how)
      BY <1>5 DEF Exit, Kill, AppState
    <2>2. UNCHANGED <<chainVars, lives, topic, late, announced>>
      BY <1>5 DEF Exit, Kill
    <2> QED  BY <2>1, <2>2, ProcessEndsStep
  <1> QED  BY <1>1, <1>2, <1>3, <1>4, <1>5, <1>6 DEF Next, Shutdown

\* The inductive invariant holds in every state of every behaviour.
LEMMA Invariance == Spec => []IInv
  BY InitInv, StepInv, PTL DEF Spec

\* The state of the pusher is always well typed.
THEOREM TypeCorrect == Spec => []TypeOK
  <1>1. IInv => TypeOK  BY DEF IInv
  <1> QED  BY <1>1, Invariance, PTL

\* Whatever fails, is retried, crashes or is restarted, the topic only ever holds
\* messages about logs that were emitted, under their own title, marked removed
\* only if they were, with a price no older than the log.
THEOREM OnlyGenuineMessages == Spec => []TopicIsGenuine
  <1>1. IInv => TopicIsGenuine  BY DEF IInv
  <1> QED  BY <1>1, Invariance, PTL

-----------------------------------------------------------------------------
(* What becomes of a log: the pusher loses none silently, and the careful  *)
(* handlers only announce what the topic holds                             *)

\* Only a live subscription feeds its listener; a goroutine outside Listen has
\* none.
SubInv ==
    \A l \in Listener :
        /\ sub[l] # "live" => feed[l] = <<>>
        /\ pc[l] \in {"connect", "sleep", "done"} => sub[l] # "live"

\* A goroutine has a message only while a handler runs, and waits only for one
\* that is queued.
AwaitInv ==
    \A l \in Listener :
        /\ pc[l] \notin {"plan", "write", "await"} => hand[l] = Empty
        /\ pc[l] = "await" => \E p \in Partition : hand[l] \in ToSet(queue[p])

\* What was announced is about a log.
AnnouncedInv == \A d \in announced : d.log \in DOMAIN chain

TrackInv ==
    /\ SubInv
    /\ AwaitInv
    /\ AnnouncedInv
    /\ NothingLostSilently
    /\ CarefulAnnouncements

Somewhere == Fed \cup InHand \cup Queued \cup InTopic \cup dropped

-----------------------------------------------------------------------------
(* Where a delivery can be                                                 *)

\* A delivery that is fed, in hand, queued, in the topic or dropped is somewhere.
LEMMA IsSomewhere ==
    /\ \A l \in Listener : ToSet(feed[l]) \subseteq Somewhere
    /\ \A l \in Listener : hand[l] # Empty => DeliveryOf(hand[l]) \in Somewhere
    /\ \A p \in Partition : \A m \in ToSet(queue[p]) : DeliveryOf(m) \in Somewhere
    /\ \A p \in Partition : \A m \in ToSet(topic[p]) : DeliveryOf(m) \in Somewhere
    /\ dropped \subseteq Somewhere
  BY DEF Somewhere, Fed, InHand, Queued, InTopic

\* The same after a step.
LEMMA IsSomewhereNext ==
    /\ \A l \in Listener : ToSet(feed'[l]) \subseteq Somewhere'
    /\ \A l \in Listener : hand'[l] # Empty => DeliveryOf(hand'[l]) \in Somewhere'
    /\ \A p \in Partition : \A m \in ToSet(queue'[p]) : DeliveryOf(m) \in Somewhere'
    /\ \A p \in Partition : \A m \in ToSet(topic'[p]) : DeliveryOf(m) \in Somewhere'
    /\ dropped' \subseteq Somewhere'
  BY DEF Somewhere, Fed, InHand, Queued, InTopic, DeliveryOf

\* A step that leaves the chain alone loses nothing if everything it takes from
\* one place is somewhere else afterwards, or nobody's due.
LEMMA Tracked ==
    ASSUME NothingLostSilently, UNCHANGED chain,
           \A l \in Listener : \A d \in ToSet(feed[l]) :
               d \in Somewhere' \/ d \notin Owed,
           \A l \in Listener : hand[l] # Empty => DeliveryOf(hand[l]) \in Somewhere',
           \A p \in Partition : \A m \in ToSet(queue[p]) :
               DeliveryOf(m) \in Somewhere',
           \A p \in Partition : \A m \in ToSet(topic[p]) :
               DeliveryOf(m) \in Somewhere',
           dropped \subseteq dropped'
    PROVE  NothingLostSilently'
  <1>1. Owed' = Owed
    BY DEF Owed
  <1>2. dropped \subseteq Somewhere'
    BY IsSomewhereNext
  <1>3. \A d \in Fed : d \in Somewhere' \/ d \notin Owed
    BY DEF Fed
  <1>4. InHand \subseteq Somewhere'
    BY DEF InHand
  <1>5. Queued \subseteq Somewhere'
    BY DEF Queued
  <1>6. InTopic \subseteq Somewhere'
    BY DEF InTopic
  <1>7. Owed \subseteq Somewhere'
    BY <1>2, <1>3, <1>4, <1>5, <1>6 DEF NothingLostSilently
  <1> QED  BY <1>1, <1>7 DEF NothingLostSilently, Somewhere

\* The batch sent and the rest of the queue are the queue (Batch, Remaining).
LEMMA SplitSet ==
    ASSUME NEW S, NEW s \in Seq(S), NEW n \in 1..Len(s)
    PROVE  \A e \in ToSet(s) :
             e \in ToSet(SubSeq(s, 1, n)) \/ e \in ToSet(Remaining(s, n))
  <1>1. /\ Len(s) \in Nat
        /\ \A i \in 1..Len(s) : s[i] \in S
    OBVIOUS
  <1>2. /\ Len(SubSeq(s, 1, n)) = n
        /\ \A i \in 1..n : SubSeq(s, 1, n)[i] = s[i]
        /\ SubSeq(s, 1, n) \in Seq(S)
    <2>1. \A i \in 1..n : s[i] \in S
      BY <1>1
    <2>2. /\ SubSeq(s, 1, n) \in Seq(S)
          /\ Len(SubSeq(s, 1, n)) = IF 1 <= n THEN n - 1 + 1 ELSE 0
          /\ \A i \in 1..(n - 1 + 1) : SubSeq(s, 1, n)[i] = s[1 + i - 1]
      BY <2>1, SubSeqProperties
    <2> QED  BY <2>2
  <1>3. /\ Len(Remaining(s, n)) = Len(s) - n
        /\ \A i \in 1..(Len(s) - n) : Remaining(s, n)[i] = s[n + i]
        /\ Remaining(s, n) \in Seq(S)
    <2>1. \A i \in (n + 1)..Len(s) : s[i] \in S
      BY <1>1
    <2>2. /\ SubSeq(s, n + 1, Len(s)) \in Seq(S)
          /\ Len(SubSeq(s, n + 1, Len(s)))
               = IF n + 1 <= Len(s) THEN Len(s) - (n + 1) + 1 ELSE 0
          /\ \A i \in 1..(Len(s) - (n + 1) + 1) :
               SubSeq(s, n + 1, Len(s))[i] = s[(n + 1) + i - 1]
      BY <1>1, <2>1, SubSeqProperties
    <2> QED  BY <1>1, <2>2 DEF Remaining
  <1>4. ASSUME NEW i \in 1..Len(s)
        PROVE  s[i] \in ToSet(SubSeq(s, 1, n)) \/ s[i] \in ToSet(Remaining(s, n))
    <2>1. CASE i <= n
      <3>1. i \in DOMAIN SubSeq(s, 1, n)
        BY <1>1, <1>2, <2>1
      <3> QED  BY <1>2, <2>1, <3>1 DEF ToSet
    <2>2. CASE ~ (i <= n)
      <3>1. i - n \in 1..(Len(s) - n) /\ n + (i - n) = i
        BY <1>1, <2>2
      <3>2. i - n \in DOMAIN Remaining(s, n)
        BY <1>1, <1>3, <3>1
      <3> QED  BY <1>3, <3>1, <3>2 DEF ToSet
    <2> QED  BY <2>1, <2>2
  <1> QED  BY <1>4 DEF ToSet

\* A feed that loses its head still holds the rest (ListenLog).
LEMMA TailHolds ==
    ASSUME NEW S, NEW s \in Seq(S), s # <<>>
    PROVE  ToSet(s) \subseteq ToSet(Tail(s)) \cup {Head(s)}
  <1>1. /\ Tail(s) \in Seq(S)
        /\ Len(Tail(s)) = Len(s) - 1
        /\ \A i \in 1..Len(Tail(s)) : Tail(s)[i] = s[i + 1]
    BY HeadTailProperties
  <1>2. Len(s) \in Nat /\ DOMAIN s = 1..Len(s) /\ Head(s) = s[1]
    OBVIOUS
  <1>3. ASSUME NEW i \in 1..Len(s), i # 1
        PROVE  s[i] \in ToSet(Tail(s))
    <2>1. i - 1 \in DOMAIN Tail(s) /\ Tail(s)[i - 1] = s[i]
      BY <1>1, <1>2, <1>3
    <2> QED  BY <2>1 DEF ToSet
  <1> QED  BY <1>2, <1>3 DEF ToSet

-----------------------------------------------------------------------------
(* Steps                                                                   *)

\* What is announced stays announced truly when the topic only grows.
LEMMA AnnouncedKept ==
    ASSUME IInv, TrackInv, NEW D, announced' = announced \cup D,
           UNCHANGED chain, InTopic \subseteq InTopic',
           \A d \in D : /\ d.log \in DOMAIN chain
                        /\ chain[d.log].title \in Careless \/ d \in InTopic'
    PROVE  AnnouncedInv' /\ CarefulAnnouncements'
  BY DEF TrackInv, AnnouncedInv, CarefulAnnouncements

\* Steps that touch neither messages nor the topic: a feed is kept or dropped.
LEMMA QuietKeeps ==
    ASSUME IInv, TrackInv,
           UNCHANGED <<chain, hand, queue, topic, announced>>,
           dropped \subseteq dropped',
           \A l \in Listener :
               /\ feed'[l] = feed[l] \/ ToSet(feed[l]) \subseteq dropped'
               /\ sub'[l] # "live" => feed'[l] = <<>>
               /\ pc'[l] \in {"connect", "sleep", "done"} => sub'[l] # "live"
               /\ \/ pc'[l] = pc[l]
                  \/ pc[l] \notin {"plan", "write", "await"}
                     /\ pc'[l] \notin {"plan", "write", "await"}
    PROVE  TrackInv'
  <1>1. SubInv'
    BY DEF SubInv
  <1>2. AwaitInv'
    BY DEF TrackInv, AwaitInv
  <1>3. NothingLostSilently'
    <2>1. \A l \in Listener : \A d \in ToSet(feed[l]) : d \in Somewhere'
      BY IsSomewhereNext
    <2>2. \A l \in Listener : hand[l] # Empty => DeliveryOf(hand[l]) \in Somewhere'
      BY IsSomewhereNext
    <2>3. /\ \A p \in Partition : \A m \in ToSet(queue[p]) :
               DeliveryOf(m) \in Somewhere'
          /\ \A p \in Partition : \A m \in ToSet(topic[p]) :
               DeliveryOf(m) \in Somewhere'
      BY IsSomewhereNext
    <2> QED  BY <2>1, <2>2, <2>3, Tracked DEF TrackInv
  <1>4. AnnouncedInv' /\ CarefulAnnouncements'
    BY DEF TrackInv, AnnouncedInv, CarefulAnnouncements, InTopic
  <1> QED  BY <1>1, <1>2, <1>3, <1>4 DEF TrackInv

\* A handler that gives up drops its message, or leaves it in the writer's queue,
\* and may announce it if it is one of the careless ones.
LEMMA HandlerReturnsKeeps ==
    ASSUME IInv, TrackInv, NEW l \in Listener, HandlerReturns(l),
           pc[l] \in {"plan", "write", "await"},
           UNCHANGED <<chain, sub, feed, queue, topic>>,
           \/ UNCHANGED announced
           \/ AnnounceDespiteError({l}) /\ pc[l] \in {"write", "await"},
           \/ dropped' = dropped \cup {DeliveryOf(hand[l])}
           \/ UNCHANGED dropped /\ pc[l] = "await"
    PROVE  TrackInv'
  <1>1. /\ pc'[l] = "select" /\ hand'[l] = Empty
        /\ \A k \in Listener : k # l => pc'[k] = pc[k] /\ hand'[k] = hand[k]
    BY DEF HandlerReturns, IInv, TypeOK
  <1>2. SubInv'
    BY <1>1 DEF TrackInv, SubInv
  <1>3. AwaitInv'
    BY <1>1 DEF TrackInv, AwaitInv
  <1>4. NothingLostSilently'
    <2>1. \A k \in Listener : \A d \in ToSet(feed[k]) : d \in Somewhere'
      BY IsSomewhereNext
    <2>2. /\ \A p \in Partition : \A m \in ToSet(queue[p]) :
               DeliveryOf(m) \in Somewhere'
          /\ \A p \in Partition : \A m \in ToSet(topic[p]) :
               DeliveryOf(m) \in Somewhere'
      BY IsSomewhereNext
    <2>3. DeliveryOf(hand[l]) \in Somewhere'
      <3>1. CASE dropped' = dropped \cup {DeliveryOf(hand[l])}
        BY <3>1, IsSomewhereNext
      <3>2. CASE pc[l] = "await"
        <4>1. \E p \in Partition : hand[l] \in ToSet(queue[p])
          BY <3>2 DEF TrackInv, AwaitInv
        <4> QED  BY <2>2, <4>1
      <3> QED  BY <3>1, <3>2
    <2>4. \A k \in Listener : hand[k] # Empty => DeliveryOf(hand[k]) \in Somewhere'
      BY <1>1, <2>3, IsSomewhereNext
    <2>5. dropped \subseteq dropped'
      OBVIOUS
    <2> QED  BY <2>1, <2>2, <2>4, <2>5, Tracked DEF TrackInv
  <1>5. AnnouncedInv' /\ CarefulAnnouncements'
    <2>1. InTopic' = InTopic
      BY DEF InTopic
    <2>2. CASE UNCHANGED announced
      BY <2>1, <2>2 DEF TrackInv, AnnouncedInv, CarefulAnnouncements
    <2>3. CASE AnnounceDespiteError({l}) /\ pc[l] \in {"write", "await"}
      <3> DEFINE D == {DeliveryOf(hand[k]) :
                         k \in {j \in {l} : hand[j].title \in Careless}}
      <3>1. announced' = announced \cup D
        BY <2>3 DEF AnnounceDespiteError
      <3>2. Genuine(hand[l])
        BY <2>3 DEF IInv, HandInv
      <3>3. \A d \in D : /\ d.log \in DOMAIN chain
                         /\ chain[d.log].title \in Careless
        BY <3>2 DEF Genuine, DeliveryOf
      <3> HIDE DEF D
      <3> QED  BY <2>1, <3>1, <3>3, AnnouncedKept
    <2> QED  BY <2>2, <2>3
  <1> QED  BY <1>2, <1>3, <1>4, <1>5 DEF TrackInv

\* The next log is taken in hand, or is nobody's due: no handler wants it.
LEMMA ListenLogKeeps ==
    ASSUME IInv, TrackInv, NEW l \in Listener, ListenLog(l)
    PROVE  TrackInv'
  <1>1. PICK d : d = Head(feed[l])
    OBVIOUS
  <1>2. /\ pc[l] = "select" /\ feed[l] # <<>> /\ feed[l] \in Seq(Delivery)
        /\ feed' = [feed EXCEPT ![l] = Tail(@)]
        /\ UNCHANGED <<chain, sub, queue, topic, announced, dropped>>
    BY DEF ListenLog, IInv, TypeOK, chainVars, writerVars
  <1>3. d \in ToSet(feed[l]) /\ ToSet(feed[l]) \subseteq ToSet(Tail(feed[l])) \cup {d}
    BY <1>1, <1>2, TailSet, TailHolds
  <1>4. Known(l, d) /\ hand[l] = Empty
    BY <1>2, <1>3 DEF IInv, FeedInv, TrackInv, AwaitInv
  <1>5. feed'[l] = Tail(feed[l])
        /\ \A k \in Listener : k # l => feed'[k] = feed[k]
    BY <1>2 DEF IInv, TypeOK
  <1>6. /\ \A k \in Listener : k # l => pc'[k] = pc[k] /\ hand'[k] = hand[k]
        /\ \/ /\ pc'[l] \in {"plan", "write"}
              /\ hand'[l].log = d.log /\ hand'[l].removed = d.removed
              /\ hand'[l].title = chain[d.log].title
              /\ chain[d.log].title \in Handled(l)
           \/ /\ pc'[l] = "select" /\ hand'[l] = hand[l]
              /\ chain[d.log].title \notin Handled(l)
    <2>1. CASE chain[d.log].title \in Handled(l)
      <3>1. /\ hand' = [hand EXCEPT ![l] =
                  [title |-> chain[d.log].title, log |-> d.log,
                   removed |-> d.removed,
                   price |-> IF l = "donate" THEN chain[d.log].amount ELSE 0]]
            /\ pc' = [pc EXCEPT ![l] = IF l = "donate" THEN "write" ELSE "plan"]
        BY <1>1, <2>1 DEF ListenLog, HandlerFound
      <3> QED  BY <2>1, <3>1 DEF IInv, TypeOK
    <2>2. CASE ~ (chain[d.log].title \in Handled(l))
      BY <1>1, <1>2, <2>2 DEF ListenLog, HandlerFound
    <2> QED  BY <2>1, <2>2
  <1>7. SubInv'
    <2>1. sub[l] = "live"
      BY <1>2 DEF TrackInv, SubInv
    <2> QED  BY <1>2, <1>5, <1>6, <2>1 DEF TrackInv, SubInv
  <1>8. AwaitInv'
    BY <1>2, <1>4, <1>6 DEF TrackInv, AwaitInv
  <1>9. NothingLostSilently'
    <2>1. d \in Somewhere' \/ d \notin Owed
      <3>1. CASE chain[d.log].title \in Handled(l)
        <4>1. hand'[l] # Empty
          <5>1. "Unhandled" \notin Handled(l)
            BY DEF Handled
          <5> QED  BY <1>6, <3>1, <5>1 DEF Empty
        <4>2. DeliveryOf(hand'[l]) \in Somewhere'
          BY <4>1, IsSomewhereNext
        <4>3. d \in Delivery
          BY <1>2, <1>3 DEF ToSet
        <4>4. DeliveryOf(hand'[l]) = d
          BY <1>6, <3>1, <4>3 DEF DeliveryOf, Delivery
        <4> QED  BY <4>2, <4>4
      <3>2. CASE chain[d.log].title \notin Handled(l)
        BY <1>4, <3>2 DEF Owed, Known
      <3> QED  BY <3>1, <3>2
    <2>2. \A k \in Listener : \A e \in ToSet(feed[k]) :
            e \in Somewhere' \/ e \notin Owed
      <3>1. \A k \in Listener : \A e \in ToSet(feed[k]) :
              e \in ToSet(feed'[k]) \/ e = d
        BY <1>3, <1>5
      <3> QED  BY <2>1, <3>1, IsSomewhereNext
    <2>3. \A k \in Listener : hand[k] # Empty => DeliveryOf(hand[k]) \in Somewhere'
      BY <1>4, <1>6, IsSomewhereNext
    <2>4. /\ \A p \in Partition : \A m \in ToSet(queue[p]) :
               DeliveryOf(m) \in Somewhere'
          /\ \A p \in Partition : \A m \in ToSet(topic[p]) :
               DeliveryOf(m) \in Somewhere'
      BY <1>2, IsSomewhereNext
    <2> QED  BY <1>2, <2>2, <2>3, <2>4, Tracked DEF TrackInv
  <1>10. AnnouncedInv' /\ CarefulAnnouncements'
    BY <1>2 DEF TrackInv, AnnouncedInv, CarefulAnnouncements, InTopic
  <1> QED  BY <1>7, <1>8, <1>9, <1>10 DEF TrackInv

\* A message gets its price or joins a queue: it is the same delivery as before.
LEMMA MessageGoesOn ==
    ASSUME IInv, TrackInv, NEW l \in Listener, NEW p \in Partition,
           PlanOk(l) \/ WriteEnqueue(l, p)
    PROVE  TrackInv'
  <1>1. /\ pc[l] \in {"plan", "write"} /\ hand[l] \in Message
        /\ UNCHANGED <<chain, sub, feed, topic, announced, dropped>>
    BY DEF PlanOk, WriteEnqueue, IInv, TypeOK, chainVars, writerVars
  <1>2. /\ pc'[l] \in {"write", "await"}
        /\ hand'[l].log = hand[l].log /\ hand'[l].removed = hand[l].removed
        /\ hand'[l].title = hand[l].title
        /\ \A k \in Listener : k # l => pc'[k] = pc[k] /\ hand'[k] = hand[k]
        /\ \A q \in Partition : ToSet(queue[q]) \subseteq ToSet(queue'[q])
        /\ pc'[l] = "await" => hand'[l] \in ToSet(queue'[p])
    <2>1. CASE PlanOk(l)
      <3>1. PICK x : hand' = [hand EXCEPT ![l].price = x]
        BY <2>1 DEF PlanOk
      <3>2. pc' = [pc EXCEPT ![l] = "write"] /\ UNCHANGED queue
        BY <2>1 DEF PlanOk, writerVars
      <3>3. /\ hand'[l] = [hand[l] EXCEPT !.price = x]
            /\ \A k \in Listener : k # l => hand'[k] = hand[k]
        BY <3>1 DEF IInv, TypeOK
      <3>4. /\ hand'[l].log = hand[l].log /\ hand'[l].removed = hand[l].removed
            /\ hand'[l].title = hand[l].title
        BY <1>1, <3>3 DEF Message
      <3> QED  BY <3>2, <3>3, <3>4 DEF IInv, TypeOK
    <2>2. CASE WriteEnqueue(l, p)
      <3>1. /\ queue' = [queue EXCEPT ![p] = Append(queue[p], hand[l])]
            /\ pc' = [pc EXCEPT ![l] = "await"] /\ UNCHANGED hand
        BY <2>2 DEF WriteEnqueue, Join
      <3>2. ToSet(Append(queue[p], hand[l])) = ToSet(queue[p]) \cup {hand[l]}
        BY <1>1, AppendSet DEF IInv, TypeOK
      <3>3. /\ queue'[p] = Append(queue[p], hand[l])
            /\ \A q \in Partition : q # p => queue'[q] = queue[q]
            /\ pc'[l] = "await"
            /\ \A k \in Listener : k # l => pc'[k] = pc[k]
        BY <3>1 DEF IInv, TypeOK
      <3> QED  BY <3>1, <3>2, <3>3
    <2> QED  BY <2>1, <2>2
  <1>3. SubInv'
    BY <1>1, <1>2 DEF TrackInv, SubInv
  <1>4. AwaitInv'
    BY <1>1, <1>2 DEF TrackInv, AwaitInv
  <1>5. NothingLostSilently'
    <2>1. hand'[l] # Empty
      <3>1. hand[l].title \in Handled(l) \/ \E k : hand[l].title \in Handled(k)
        BY <1>1 DEF IInv, HandInv, Unpriced, Genuine
      <3>2. \A k : "Unhandled" \notin Handled(k)
        BY DEF Handled
      <3> QED  BY <1>2, <3>1, <3>2 DEF Empty
    <2>2. \A k \in Listener : hand[k] # Empty => DeliveryOf(hand[k]) \in Somewhere'
      BY <1>2, <2>1, IsSomewhereNext DEF DeliveryOf
    <2>3. /\ \A k \in Listener : \A d \in ToSet(feed[k]) : d \in Somewhere'
          /\ \A q \in Partition : \A m \in ToSet(queue[q]) :
               DeliveryOf(m) \in Somewhere'
          /\ \A q \in Partition : \A m \in ToSet(topic[q]) :
               DeliveryOf(m) \in Somewhere'
      BY <1>1, <1>2, IsSomewhereNext
    <2> QED  BY <1>1, <2>2, <2>3, Tracked DEF TrackInv
  <1>6. AnnouncedInv' /\ CarefulAnnouncements'
    BY <1>1 DEF TrackInv, AnnouncedInv, CarefulAnnouncements, InTopic
  <1> QED  BY <1>3, <1>4, <1>5, <1>6 DEF TrackInv

\* A process that ends drops all it had in memory.
LEMMA ProcessEndsKeeps ==
    ASSUME IInv, TrackInv, NEW how, ProcessEnds(how),
           UNCHANGED <<chain, topic, announced>>
    PROVE  TrackInv'
  <1>1. /\ dropped' = dropped \cup Fed \cup InHand \cup Queued
        /\ \A l \in Listener : /\ pc'[l] = "connect" /\ sub'[l] = "none"
                               /\ feed'[l] = <<>> /\ hand'[l] = Empty
    BY DEF ProcessEnds
  <1>2. SubInv' /\ AwaitInv'
    BY <1>1 DEF SubInv, AwaitInv
  <1>3. NothingLostSilently'
    <2>1. Owed' = Owed
      BY DEF Owed
    <2>2. InTopic' = InTopic
      BY DEF InTopic
    <2>3. Owed \subseteq InTopic' \cup dropped'
      BY <1>1, <2>2 DEF TrackInv, NothingLostSilently
    <2> QED  BY <2>1, <2>3 DEF NothingLostSilently
  <1>4. AnnouncedInv' /\ CarefulAnnouncements'
    BY DEF TrackInv, AnnouncedInv, CarefulAnnouncements, InTopic
  <1> QED  BY <1>2, <1>3, <1>4 DEF TrackInv

\* The steps of a listener goroutine.
LEMMA ListenerKeeps ==
    ASSUME IInv, TrackInv, NEW l \in Listener, ListenerNext(l)
    PROVE  TrackInv'
  <1>1. CASE \/ SubscribeOk(l) \/ SubscribeFail(l) \/ Wake(l) \/ ListenErr(l)
             \/ ListenDone(l)
    <2>1. /\ UNCHANGED <<chain, hand, queue, topic, announced>>
          /\ dropped \subseteq dropped'
          /\ \A k \in Listener : k # l =>
               pc'[k] = pc[k] /\ sub'[k] = sub[k] /\ feed'[k] = feed[k]
          /\ pc[l] \in {"connect", "sleep", "select"}
          /\ pc'[l] \in {"connect", "sleep", "select", "done"}
      BY <1>1 DEF SubscribeOk, SubscribeFail, Wake, ListenErr, ListenDone,
                  AfterError, IInv, TypeOK, chainVars, writerVars
    <2>2. /\ feed'[l] = feed[l] \/ ToSet(feed[l]) \subseteq dropped'
          /\ sub'[l] # "live" => feed'[l] = <<>>
          /\ pc'[l] \in {"connect", "sleep", "done"} => sub'[l] # "live"
      <3>1. CASE SubscribeOk(l)
        BY <3>1 DEF SubscribeOk, IInv, TypeOK, TrackInv, SubInv
      <3>2. CASE SubscribeFail(l) \/ Wake(l)
        BY <3>2 DEF SubscribeFail, Wake, AfterError, IInv, TypeOK, TrackInv,
                    SubInv
      <3>3. CASE ListenErr(l)
        BY <3>3 DEF ListenErr, AfterError, IInv, TypeOK, TrackInv, SubInv
      <3>4. CASE ListenDone(l)
        BY <3>4 DEF ListenDone, IInv, TypeOK, TrackInv, SubInv
      <3> QED  BY <1>1, <3>1, <3>2, <3>3, <3>4
    <2>3. \A k \in Listener :
               /\ feed'[k] = feed[k] \/ ToSet(feed[k]) \subseteq dropped'
               /\ sub'[k] # "live" => feed'[k] = <<>>
               /\ pc'[k] \in {"connect", "sleep", "done"} => sub'[k] # "live"
               /\ \/ pc'[k] = pc[k]
                  \/ pc[k] \notin {"plan", "write", "await"}
                     /\ pc'[k] \notin {"plan", "write", "await"}
      BY <2>1, <2>2 DEF TrackInv, SubInv
    <2> QED  BY <2>1, <2>3, QuietKeeps
  <1>2. CASE ListenLog(l)
    BY <1>2, ListenLogKeeps
  <1>3. CASE PlanOk(l)
    <2>1. Partition # {}
      BY PusherAssumption DEF PusherAssumption
    <2> QED  BY <1>3, <2>1, MessageGoesOn
  <1>4. ASSUME NEW p \in Partition, WriteEnqueue(l, p)
        PROVE  TrackInv'
    BY <1>4, MessageGoesOn
  <1>5. CASE PlanFail(l) /\ hand[l].title # "SubscriptionCharged"
    <2>1. /\ HandlerReturns(l)
          /\ dropped' = dropped \cup {DeliveryOf(hand[l])}
          /\ UNCHANGED <<app, sub, feed, queue, inflight, tries>>
      BY <1>5 DEF PlanFail
    <2>2. pc[l] = "plan" /\ UNCHANGED <<chain, topic, announced>>
      BY <1>5 DEF PlanFail, chainVars
    <2> QED  BY <2>1, <2>2, HandlerReturnsKeeps
  <1>8. CASE PlanFail(l) /\ hand[l].title = "SubscriptionCharged"
    <2>1. ProcessEnds("panicked") /\ UNCHANGED <<chain, topic, announced>>
      BY <1>8 DEF PlanFail, chainVars
    <2> QED  BY <2>1, ProcessEndsKeeps
  <1>6. CASE WriteReject(l)
    BY <1>6, HandlerReturnsKeeps DEF WriteReject, chainVars, writerVars
  <1>7. CASE AwaitCancel(l)
    BY <1>7, HandlerReturnsKeeps DEF AwaitCancel, chainVars, writerVars
  <1> QED  BY <1>1, <1>2, <1>3, <1>4, <1>5, <1>6, <1>7, <1>8
           DEF ListenerNext

\* A batch that is done with is in the topic or dropped, and those that waited
\* for it return; announced is what the topic holds, or what a careless handler
\* says on an error.
LEMMA SendKeeps ==
    ASSUME IInv, TrackInv, NEW p \in Partition, Send(p)
    PROVE  TrackInv'
  <1>1. PICK n \in 1..Len(queue[p]) :
          SendAcked(p, n) \/ SendRetried(p, n) \/ SendAbandoned(p, n)
    BY DEF Send
  <1>2. /\ queue[p] \in Seq(Message) /\ topic[p] \in Seq(Message)
        /\ Batch(p, n) \in Seq(Message)
    BY SubSeqSet DEF Batch, IInv, TypeOK
  <1>3. /\ UNCHANGED <<chain, sub, feed>>
        /\ UNCHANGED topic \/ Appended(p, n)
        /\ dropped \subseteq dropped'
    BY <1>1 DEF SendAcked, SendRetried, SendAbandoned, Delayed, chainVars,
                listenerVars
  <1>4. /\ \A q \in Partition : ToSet(topic[q]) \subseteq ToSet(topic'[q])
        /\ Appended(p, n) => ToSet(Batch(p, n)) \subseteq ToSet(topic'[p])
    <2>1. ToSet(topic[p]) \cup ToSet(Batch(p, n))
            \subseteq ToSet(topic[p] \o Batch(p, n))
      BY <1>2, ConcatHolds
    <2>2. CASE Appended(p, n)
      BY <2>1, <2>2 DEF Appended, IInv, TypeOK
    <2>3. CASE UNCHANGED topic /\ ~ Appended(p, n)
      BY <2>3
    <2> QED  BY <1>3, <2>2, <2>3
  <1>5. InTopic \subseteq InTopic'
    BY <1>4 DEF InTopic
  <1>6. CASE SendRetried(p, n)
    <2>1. UNCHANGED <<pc, hand, queue, announced, dropped>>
      BY <1>6 DEF SendRetried, listenerVars
    <2>2. SubInv' /\ AwaitInv'
      BY <1>3, <2>1 DEF TrackInv, SubInv, AwaitInv
    <2>3. NothingLostSilently'
      <3>1. /\ \A k \in Listener : \A d \in ToSet(feed[k]) : d \in Somewhere'
            /\ \A k \in Listener :
                 hand[k] # Empty => DeliveryOf(hand[k]) \in Somewhere'
            /\ \A q \in Partition : \A m \in ToSet(queue[q]) :
                 DeliveryOf(m) \in Somewhere'
            /\ \A q \in Partition : \A m \in ToSet(topic[q]) :
                 DeliveryOf(m) \in Somewhere'
        BY <1>3, <1>4, <2>1, IsSomewhereNext
      <3> QED  BY <1>3, <3>1, Tracked DEF TrackInv
    <2>4. AnnouncedInv' /\ CarefulAnnouncements'
      BY <1>3, <1>5, <2>1 DEF TrackInv, AnnouncedInv, CarefulAnnouncements
    <2> QED  BY <2>2, <2>3, <2>4 DEF TrackInv
  <1>7. CASE SendAcked(p, n) \/ SendAbandoned(p, n)
    <2>1. Complete(p, n)
      BY <1>7 DEF SendAcked, SendAbandoned
    <2>2. /\ queue'[p] = Remaining(queue[p], n)
          /\ \A q \in Partition : q # p => queue'[q] = queue[q]
          /\ \A k \in Listener :
               IF k \in Waiting(p, n)
               THEN pc'[k] = "select" /\ hand'[k] = Empty
               ELSE pc'[k] = pc[k] /\ hand'[k] = hand[k]
      BY <2>1 DEF Complete, IInv, TypeOK
    <2>3. \A m \in ToSet(queue[p]) :
            m \in ToSet(Batch(p, n)) \/ m \in ToSet(queue'[p])
      BY <1>2, <2>2, SplitSet DEF Batch
    <2>4. \A m \in ToSet(Batch(p, n)) : DeliveryOf(m) \in Somewhere'
      <3>1. CASE Appended(p, n)
        BY <1>4, <3>1, IsSomewhereNext
      <3>2. CASE SendAbandoned(p, n)
        BY <3>2, IsSomewhereNext DEF SendAbandoned
      <3> QED  BY <1>7, <3>1, <3>2 DEF SendAcked
    <2>5. SubInv'
      BY <1>3, <2>2 DEF TrackInv, SubInv
    <2>6. AwaitInv'
      <3> SUFFICES ASSUME NEW k \in Listener
                   PROVE  /\ pc'[k] \notin {"plan", "write", "await"}
                               => hand'[k] = Empty
                          /\ pc'[k] = "await" => \E q \in Partition :
                               hand'[k] \in ToSet(queue'[q])
        BY DEF AwaitInv
      <3>1. CASE k \in Waiting(p, n)
        BY <2>2, <3>1
      <3>2. CASE k \notin Waiting(p, n) /\ pc[k] = "await"
        <4>1. PICK q \in Partition : hand[k] \in ToSet(queue[q])
          BY <3>2 DEF TrackInv, AwaitInv
        <4>2. hand[k] \notin ToSet(Batch(p, n))
          BY <3>2 DEF Waiting
        <4> QED  BY <2>2, <2>3, <3>2, <4>1, <4>2
      <3>3. CASE k \notin Waiting(p, n) /\ pc[k] # "await"
        BY <2>2, <3>3 DEF TrackInv, AwaitInv
      <3> QED  BY <3>1, <3>2, <3>3
    <2>7. NothingLostSilently'
      <3>1. \A q \in Partition : \A m \in ToSet(queue[q]) :
              DeliveryOf(m) \in Somewhere'
        BY <2>2, <2>3, <2>4, IsSomewhereNext
      <3>2. \A k \in Listener : hand[k] # Empty => DeliveryOf(hand[k]) \in Somewhere'
        BY <2>2, <2>4, IsSomewhereNext DEF Waiting
      <3>3. /\ \A k \in Listener : \A d \in ToSet(feed[k]) : d \in Somewhere'
            /\ \A q \in Partition : \A m \in ToSet(topic[q]) :
                 DeliveryOf(m) \in Somewhere'
        BY <1>3, <1>4, IsSomewhereNext
      <3> QED  BY <1>3, <3>1, <3>2, <3>3, Tracked DEF TrackInv
    <2>8. AnnouncedInv' /\ CarefulAnnouncements'
      <3>1. \A k \in Waiting(p, n) : Genuine(hand[k])
        BY DEF Waiting, IInv, HandInv
      <3>2. CASE SendAcked(p, n)
        <4> DEFINE D == {DeliveryOf(hand[k]) : k \in Waiting(p, n)}
        <4>1. announced' = announced \cup D /\ Appended(p, n)
          BY <3>2 DEF SendAcked
        <4>2. \A k \in Waiting(p, n) : hand[k] \in ToSet(topic'[p])
          BY <1>4, <4>1 DEF Waiting
        <4>3. \A d \in D : d.log \in DOMAIN chain /\ d \in InTopic'
          BY <3>1, <4>2 DEF Genuine, DeliveryOf, InTopic
        <4> HIDE DEF D
        <4> QED  BY <1>3, <1>5, <4>1, <4>3, AnnouncedKept
      <3>3. CASE SendAbandoned(p, n)
        <4> DEFINE D == {DeliveryOf(hand[k]) :
                     k \in {j \in Waiting(p, n) : hand[j].title \in Careless}}
        <4>1. announced' = announced \cup D
          BY <3>3 DEF SendAbandoned, AnnounceDespiteError
        <4>2. \A d \in D : /\ d.log \in DOMAIN chain
                           /\ chain[d.log].title \in Careless
          BY <3>1 DEF Genuine, DeliveryOf
        <4> HIDE DEF D
        <4> QED  BY <1>3, <1>5, <4>1, <4>2, AnnouncedKept
      <3> QED  BY <1>7, <3>2, <3>3
    <2> QED  BY <2>5, <2>6, <2>7, <2>8 DEF TrackInv
  <1> QED  BY <1>1, <1>6, <1>7

\* A late request takes nothing from anywhere: the topic grows.
LEMMA LateKeeps ==
    ASSUME IInv, TrackInv, NEW r \in late, LateAppend(r)
    PROVE  TrackInv'
  <1>1. /\ UNCHANGED <<chain, pc, sub, feed, hand, queue, announced, dropped>>
        /\ \A q \in Partition : ToSet(topic[q]) \subseteq ToSet(topic'[q])
    BY LateGrows DEF chainVars, listenerVars
  <1>2. SubInv' /\ AwaitInv'
    BY <1>1 DEF TrackInv, SubInv, AwaitInv
  <1>3. NothingLostSilently'
    <2>1. /\ \A l \in Listener : \A d \in ToSet(feed[l]) : d \in Somewhere'
          /\ \A l \in Listener : hand[l] # Empty => DeliveryOf(hand[l]) \in Somewhere'
          /\ \A q \in Partition : \A m \in ToSet(queue[q]) :
               DeliveryOf(m) \in Somewhere'
          /\ \A q \in Partition : \A m \in ToSet(topic[q]) :
               DeliveryOf(m) \in Somewhere'
      BY <1>1, IsSomewhereNext
    <2> QED  BY <1>1, <2>1, Tracked DEF TrackInv
  <1>4. InTopic \subseteq InTopic'
    BY <1>1 DEF InTopic
  <1>5. AnnouncedInv' /\ CarefulAnnouncements'
    BY <1>1, <1>4 DEF TrackInv, AnnouncedInv, CarefulAnnouncements
  <1> QED  BY <1>2, <1>3, <1>5 DEF TrackInv

\* A log that is emitted is fed to its listener or nobody's due; a log that is
\* removed is nobody's due either, but takes nothing from a feed.
LEMMA DeliverKeeps ==
    ASSUME IInv, TrackInv, NEW l \in Listener, NEW d \in Delivery, Deliver(l, d),
           UNCHANGED <<app, pc, sub, hand, queue, topic, announced, dropped>>,
           Len(chain) <= Len(chain'), chain' \in Seq(Log),
           \A i \in DOMAIN chain : chain'[i] = chain[i],
           \A e \in Owed' : e \in Owed \/ (Subscribed(l) /\ e = d)
    PROVE  TrackInv'
  <1>1. \A k \in Listener : ToSet(feed[k]) \subseteq ToSet(feed'[k])
    <2>1. CASE Subscribed(l)
      <3>1. feed' = [feed EXCEPT ![l] = Append(@, d)] /\ feed[l] \in Seq(Delivery)
        BY <2>1 DEF Deliver, IInv, TypeOK
      <3>2. ToSet(Append(feed[l], d)) = ToSet(feed[l]) \cup {d}
        BY <3>1, AppendSet
      <3> QED  BY <3>1, <3>2 DEF IInv, TypeOK
    <2>2. CASE ~ Subscribed(l)
      BY <2>2 DEF Deliver
    <2> QED  BY <2>1, <2>2
  <1>2. Subscribed(l) => d \in ToSet(feed'[l])
    <2> SUFFICES ASSUME Subscribed(l)  PROVE d \in ToSet(feed'[l])
      OBVIOUS
    <2>1. feed' = [feed EXCEPT ![l] = Append(@, d)] /\ feed[l] \in Seq(Delivery)
      BY DEF Deliver, IInv, TypeOK
    <2>2. ToSet(Append(feed[l], d)) = ToSet(feed[l]) \cup {d}
      BY <2>1, AppendSet
    <2> QED  BY <2>1, <2>2 DEF IInv, TypeOK
  <1>3. SubInv'
    <2>1. \A k \in Listener : feed'[k] = feed[k] \/ sub[k] = "live"
      BY DEF Deliver, Subscribed, IInv, TypeOK
    <2> QED  BY <2>1 DEF TrackInv, SubInv
  <1>4. AwaitInv'
    BY DEF TrackInv, AwaitInv
  <1>5. NothingLostSilently'
    <2>1. Fed \subseteq Fed'
      BY <1>1 DEF Fed
    <2>2. InHand' = InHand /\ Queued' = Queued /\ InTopic' = InTopic
      BY DEF InHand, Queued, InTopic, DeliveryOf
    <2>3. Subscribed(l) => d \in Fed'
      BY <1>2 DEF Fed
    <2> QED  BY <2>1, <2>2, <2>3 DEF TrackInv, NothingLostSilently
  <1>6. DOMAIN chain \subseteq DOMAIN chain'
    BY DEF IInv, TypeOK
  <1>7. AnnouncedInv' /\ CarefulAnnouncements'
    <2>1. InTopic' = InTopic
      BY DEF InTopic
    <2> QED  BY <1>6, <2>1 DEF TrackInv, AnnouncedInv, CarefulAnnouncements
  <1> QED  BY <1>3, <1>4, <1>5, <1>7 DEF TrackInv

\* Steps of the chain: logs and removals, new prices, lost connections.
LEMMA ChainKeeps ==
    ASSUME IInv, TrackInv, ChainNext, IInv'
    PROVE  TrackInv'
  <1>0. chain \in Seq(Log) /\ chain' \in Seq(Log)
    BY DEF IInv, TypeOK
  <1>1. ASSUME NEW l \in Listener, NEW title, NEW plan, NEW amount,
               EmitLog(l, title, plan, amount)
        PROVE  TrackInv'
    <2>0. PICK d : d = [log |-> Len(chain) + 1, removed |-> FALSE]
      OBVIOUS
    <2> DEFINE log == [contract |-> l, title |-> title, plan |-> plan,
                       amount |-> amount, since |-> Len(prices[plan]),
                       live |-> Subscribed(l)]
    <2>1. /\ chain' = Append(chain, log) /\ Deliver(l, d)
          /\ UNCHANGED <<app, pc, sub, hand, queue, topic, announced, dropped>>
      BY <1>1, <2>0 DEF EmitLog, writerVars
    <2>2. d \in Delivery
      BY <1>0, <2>0 DEF Delivery
    <2>3. /\ Len(chain') = Len(chain) + 1
          /\ chain'[Len(chain) + 1] = log
          /\ \A i \in 1..Len(chain) : chain'[i] = chain[i]
      BY <1>0, <2>1
    <2>4. ASSUME NEW e \in Owed'
          PROVE  e \in Owed \/ (Subscribed(l) /\ e = d)
      <3> DEFINE D == DOMAIN chain'
      <3>1. D = 1..(Len(chain) + 1) /\ DOMAIN chain = 1..Len(chain)
            /\ Len(chain) \in Nat
        BY <1>0, <2>3
      <3>2. /\ e \in [log : D, removed : {FALSE}]
            /\ chain'[e.log].live
            /\ chain'[e.log].title \in Handled(chain'[e.log].contract)
        BY <2>4 DEF Owed
      <3> HIDE DEF D
      <3>3. /\ e.log \in D /\ e.removed = FALSE
            /\ e = [log |-> e.log, removed |-> e.removed]
        BY <3>2
      <3>4. CASE e.log \in 1..Len(chain)
        <4>1. chain'[e.log] = chain[e.log]
          BY <2>3, <3>4
        <4>2. e \in [log : DOMAIN chain, removed : {FALSE}]
          BY <3>1, <3>3, <3>4
        <4> QED  BY <3>2, <4>1, <4>2 DEF Owed
      <3>5. CASE e.log = Len(chain) + 1
        BY <2>0, <2>3, <3>2, <3>3, <3>5
      <3> QED  BY <3>1, <3>3, <3>4, <3>5
    <2>5. Len(chain) <= Len(chain') /\ \A i \in DOMAIN chain : chain'[i] = chain[i]
      BY <1>0, <2>3
    <2> HIDE DEF log
    <2> QED  BY <1>0, <2>1, <2>2, <2>4, <2>5, DeliverKeeps
  <1>2. ASSUME NEW i \in DOMAIN chain, Revert(i)
        PROVE  TrackInv'
    <2>0. PICK l, d : l = chain[i].contract /\ d = [log |-> i, removed |-> TRUE]
      OBVIOUS
    <2>1. /\ UNCHANGED chain /\ Deliver(l, d)
          /\ UNCHANGED <<app, pc, sub, hand, queue, topic, announced, dropped>>
      BY <1>2, <2>0 DEF Revert, writerVars
    <2>2. l \in Listener /\ d \in Delivery
      <3>1. chain[i] \in Log /\ i \in Nat
        BY <1>0
      <3> QED  BY <2>0, <3>1 DEF Log, Delivery
    <2>3. Owed' = Owed
      BY <2>1 DEF Owed
    <2> QED  BY <1>0, <2>1, <2>2, <2>3, DeliverKeeps
  <1>3. CASE Disconnect
    <2>1. /\ UNCHANGED <<chain, pc, hand, queue, topic, announced>>
          /\ dropped' = dropped \cup Fed
          /\ \A l \in Listener :
               /\ feed'[l] = <<>>
               /\ sub'[l] = IF sub[l] = "live" THEN "lost" ELSE sub[l]
      BY <1>3 DEF Disconnect, chainVars, writerVars
    <2>2. \A l \in Listener : ToSet(feed[l]) \subseteq dropped'
      BY <2>1 DEF Fed
    <2> QED  BY <2>1, <2>2, QuietKeeps DEF TrackInv, SubInv
  <1>4. ASSUME NEW plan, NEW x, UpdatePlan(plan, x)
        PROVE  TrackInv'
    BY <1>4, QuietKeeps DEF UpdatePlan, listenerVars, writerVars, TrackInv, SubInv
  <1> QED  BY <1>1, <1>2, <1>3, <1>4 DEF ChainNext

-----------------------------------------------------------------------------
(* The theorems                                                            *)

\* Nothing is owed, queued or announced in an initial state.
LEMMA InitTrack == Init => TrackInv
  <1> SUFFICES ASSUME Init  PROVE TrackInv
    OBVIOUS
  <1>1. SubInv /\ AwaitInv /\ AnnouncedInv /\ CarefulAnnouncements
    BY DEF Init, SubInv, AwaitInv, AnnouncedInv, CarefulAnnouncements
  <1>2. NothingLostSilently
    BY DEF Init, NothingLostSilently, Owed
  <1> QED  BY <1>1, <1>2 DEF TrackInv

\* Every step keeps track of what is owed, given the invariant of PusherProofs.
LEMMA StepTrack == IInv /\ TrackInv /\ IInv' /\ [Next]_vars => TrackInv'
  <1> SUFFICES ASSUME IInv, TrackInv, IInv', [Next]_vars  PROVE TrackInv'
    OBVIOUS
  <1>1. CASE ChainNext
    BY <1>1, ChainKeeps
  <1>2. ASSUME NEW how, ProcessEnds(how), UNCHANGED <<chain, topic, announced>>
        PROVE  TrackInv'
    BY <1>2, ProcessEndsKeeps
  <1>3. ASSUME NEW l \in Listener, ListenerNext(l)
        PROVE  TrackInv'
    BY <1>3, ListenerKeeps
  <1>4. ASSUME NEW p \in Partition, Send(p)
        PROVE  TrackInv'
    BY <1>4, SendKeeps
  <1>8. ASSUME NEW r \in late, LateAppend(r)
        PROVE  TrackInv'
    BY <1>8, LateKeeps
  <1>5. CASE Stop \/ CloseWriter \/ Restart \/ UNCHANGED vars
    BY <1>5, QuietKeeps DEF Stop, CloseWriter, Restart, vars, chainVars,
       listenerVars, writerVars, TrackInv, SubInv
  <1>6. CASE CloseClient
    <2>1. /\ UNCHANGED <<chain, pc, hand, queue, topic, announced>>
          /\ dropped' = dropped \cup Fed
          /\ \A l \in Listener :
               /\ feed'[l] = <<>>
               /\ sub'[l] = IF sub[l] = "live" THEN "closed" ELSE sub[l]
      BY <1>6 DEF CloseClient, chainVars, writerVars
    <2>2. \A l \in Listener : ToSet(feed[l]) \subseteq dropped'
      BY <2>1 DEF Fed
    <2> QED  BY <2>1, <2>2, QuietKeeps DEF TrackInv, SubInv
  <1>7. CASE Exit \/ Kill
    BY <1>2, <1>7 DEF Exit, Kill, chainVars
  <1> QED  BY <1>1, <1>3, <1>4, <1>5, <1>6, <1>7, <1>8 DEF Next, Shutdown

\* Hence it holds in every reachable state.
LEMMA TrackInvariance == Spec => []TrackInv
  <1>1. Init => TrackInv
    BY InitTrack
  <1>2. IInv /\ TrackInv /\ IInv' /\ [Next]_vars => TrackInv'
    BY StepTrack
  <1> QED  BY <1>1, <1>2, Invariance, PTL DEF Spec

\* Whatever fails, reconnects or is stopped, a log emitted while its listener was
\* subscribed is in a feed, in hand, queued or in the topic, unless a fault or a
\* shutdown has cost it (runListener, Listen, the handlers, the writer).
THEOREM NoSilentLoss == Spec => []NothingLostSilently
  <1>1. TrackInv => NothingLostSilently  BY DEF TrackInv
  <1> QED  BY <1>1, TrackInvariance, PTL

\* "... event published" of the handlers that return on an error is true
\* (handleSubscriptionDeactivated, RetryScheduled).
THEOREM AnnouncementsAreTrue == Spec => []CarefulAnnouncements
  <1>1. TrackInv => CarefulAnnouncements  BY DEF TrackInv
  <1> QED  BY <1>1, TrackInvariance, PTL
=============================================================================
