------------------------------- MODULE Pusher -------------------------------
(***************************************************************************)
(* The pusher: one goroutine per contract (runListener) that subscribes to *)
(* the logs of its contract, turns each log into a message and writes it   *)
(* to Kafka, the writer both share, and main's shutdown.  The chain, the   *)
(* RPC endpoint and the broker are the environment: logs are emitted and   *)
(* reverted, plans change price, the connection drops, calls fail, answers *)
(* are lost.  The process may crash, panic and be started again.           *)
(***************************************************************************)
EXTENDS Integers, Sequences, FiniteSets, FiniteSetsExt, SequencesExt

CONSTANTS
    Listener,     \* the contracts listened to, of "donate" and "subscription"
    Partition,    \* partitions of the topic
    Plan,         \* subscription plans
    Price,        \* amounts and plan prices
    MaxAttempts,  \* how often the writer sends one batch
    BatchSize,    \* messages in one batch
    MaxLate,      \* bound: requests that are late at one time
    Emitted,      \* bound: which events are emitted
    MaxLogs,      \* bound: logs emitted
    MaxChanges,   \* bound: logs reverted by reorganisations and new prices of plans
    MaxLives      \* bound: processes started one after the other

PusherAssumption ==
    /\ Listener \subseteq {"donate", "subscription"}
    /\ Partition # {}
    /\ Plan # {}
    /\ Price \subseteq Nat /\ Price # {}
    /\ MaxAttempts \in Nat \ {0}
    /\ BatchSize \in Nat \ {0}
    /\ MaxLate \in Nat
    /\ {MaxLogs, MaxChanges, MaxLives} \subseteq Nat

ASSUME PusherAssumption

VARIABLES
    chain,      \* the logs emitted so far, in order
    reverted,   \* indices of the logs a reorganisation removed
    prices,     \* [Plan -> Seq(Price)], every price each plan has had
    app,        \* how far the process is in its life
    lives,      \* processes started so far
    pc,         \* [Listener -> ...], where each listener goroutine is
    sub,        \* [Listener -> ...], the state of its log subscription
    feed,       \* [Listener -> Seq(...)], logs delivered and not yet handled
    hand,       \* [Listener -> Message], the message being made and written
    queue,      \* [Partition -> Seq(Message)], accepted by the writer
    inflight,   \* [Partition -> Nat], how many of them form the batch being sent
    tries,      \* [Partition -> Nat], how often that batch was sent
    topic,      \* [Partition -> Seq(Message)], the broker's log
    late,       \* requests given up on that may still reach the broker
    announced,  \* deliveries logged as "... event published"
    dropped     \* deliveries given up on, each by a fault or a shutdown

chainVars == <<chain, reverted, prices>>
listenerVars == <<pc, sub, feed, hand>>
writerVars == <<queue, inflight, tries, topic, late>>
vars == <<chainVars, app, lives, listenerVars, writerVars, announced, dropped>>

-----------------------------------------------------------------------------

\* The handlers each listener registers, by the event they are registered for.
Handled(l) ==
    IF l = "donate" THEN {"DonationProcessed"}
    ELSE {"SubscriptionActivated", "SubscriptionCharged", "SubscriptionCancelled",
          "SubscriptionFailedFinal", "SubscriptionRetryScheduled"}

\* Handlers that do not return when WriteMessages fails.
Careless == {"DonationProcessed", "SubscriptionActivated", "SubscriptionCharged"}

\* "Unhandled" is any log without a handler or whose data does not unpack.
Title == {"Unhandled"} \cup UNION {Handled(l) : l \in Listener}

Log == [contract : Listener, title : Title, plan : Plan, amount : Price \cup {0},
        since : Nat,        \* how many prices the plan had had when it was emitted
        live : BOOLEAN]     \* was its contract subscribed to at that moment

Delivery == [log : Nat, removed : BOOLEAN]

Message == [title : Title, log : Nat, removed : BOOLEAN, price : Price \cup {0}]

\* A batch the writer no longer waits for, and the attempt that it was.
Request == [part : Partition, batch : Seq(Message), attempt : Nat]

Empty == [title |-> "Unhandled", log |-> 0, removed |-> FALSE, price |-> 0]

DeliveryOf(m) == [log |-> m.log, removed |-> m.removed]

AppState == {"running", "cancelled", "clientClosed", "writerClosed",
             "exited", "panicked", "crashed"}

Alive == app \in {"running", "cancelled", "clientClosed", "writerClosed"}

ClientOpen == app \in {"running", "cancelled"}

PC == {"connect", "sleep", "select", "plan", "write", "await", "done"}

SubState == {"none", "live", "lost", "closed"}

InHand == {DeliveryOf(hand[l]) : l \in {k \in Listener : hand[k] # Empty}}

Queued == {DeliveryOf(m) : m \in UNION {ToSet(queue[p]) : p \in Partition}}

Fed == UNION {ToSet(feed[l]) : l \in Listener}

\* The process is gone, and with it all it kept in memory; the next one starts
\* with nothing.
ProcessEnds(how) ==
    /\ app' = how
    /\ pc' = [l \in Listener |-> "connect"]
    /\ sub' = [l \in Listener |-> "none"]
    /\ feed' = [l \in Listener |-> <<>>]
    /\ hand' = [l \in Listener |-> Empty]
    /\ queue' = [p \in Partition |-> <<>>]
    /\ inflight' = [p \in Partition |-> 0]
    /\ tries' = [p \in Partition |-> 0]
    /\ dropped' = dropped \cup Fed \cup InHand \cup Queued

Init ==
    /\ chain = <<>>
    /\ reverted = {}
    /\ prices \in [Plan -> {<<x>> : x \in Price}]
    /\ app = "running"
    /\ lives = 1
    /\ pc = [l \in Listener |-> "connect"]
    /\ sub = [l \in Listener |-> "none"]
    /\ feed = [l \in Listener |-> <<>>]
    /\ hand = [l \in Listener |-> Empty]
    /\ queue = [p \in Partition |-> <<>>]
    /\ inflight = [p \in Partition |-> 0]
    /\ tries = [p \in Partition |-> 0]
    /\ topic = [p \in Partition |-> <<>>]
    /\ late = {}
    /\ announced = {}
    /\ dropped = {}

-----------------------------------------------------------------------------
(* The chain and the RPC endpoint                                          *)

Subscribed(l) == Alive /\ sub[l] = "live"

Deliver(l, d) ==
    feed' = IF Subscribed(l) THEN [feed EXCEPT ![l] = Append(@, d)] ELSE feed

\* A contract emits a log; a subscription made later never sees it.
EmitLog(l, title, plan, amount) ==
    /\ Len(chain) < MaxLogs
    /\ chain' = Append(chain,
            [contract |-> l, title |-> title, plan |-> plan, amount |-> amount,
             since |-> Len(prices[plan]), live |-> Subscribed(l)])
    /\ Deliver(l, [log |-> Len(chain) + 1, removed |-> FALSE])
    /\ UNCHANGED <<reverted, prices, app, lives, pc, sub, hand, writerVars,
                   announced, dropped>>

\* Bounded together: what came after the logs and the first price of each plan.
Changes ==
    Cardinality(reverted)
    + Cardinality(UNION {{plan} \X (2..Len(prices[plan])) : plan \in Plan})

\* The plan contract changes what a plan costs.
UpdatePlan(plan, x) ==
    /\ Changes < MaxChanges
    /\ prices' = [prices EXCEPT ![plan] = Append(@, x)]
    /\ UNCHANGED <<chain, reverted, app, lives, listenerVars, writerVars,
                   announced, dropped>>

\* A reorganisation drops the newest log of the canonical chain; the node sends
\* the log again, marked as removed.
Revert(i) ==
    /\ Changes < MaxChanges
    /\ i \notin reverted /\ (i + 1)..Len(chain) \subseteq reverted
    /\ reverted' = reverted \cup {i}
    /\ Deliver(chain[i].contract, [log |-> i, removed |-> TRUE])
    /\ UNCHANGED <<chain, prices, app, lives, pc, sub, hand, writerVars,
                   announced, dropped>>

\* The one websocket both subscriptions use breaks: logs not yet handed over
\* are gone.
Disconnect ==
    /\ \E l \in Listener : Subscribed(l)
    /\ sub' = [l \in Listener |-> IF sub[l] = "live" THEN "lost" ELSE sub[l]]
    /\ feed' = [l \in Listener |-> <<>>]
    /\ dropped' = dropped \cup Fed
    /\ UNCHANGED <<chainVars, app, lives, pc, hand, writerVars, announced>>

-----------------------------------------------------------------------------
(* runListener and Listen                                                  *)

\* SubscribeFilterLogs succeeds; it starts at the head of the chain.
SubscribeOk(l) ==
    /\ ClientOpen /\ pc[l] = "connect"
    /\ pc' = [pc EXCEPT ![l] = "select"]
    /\ sub' = [sub EXCEPT ![l] = "live"]
    /\ feed' = [feed EXCEPT ![l] = <<>>]
    /\ UNCHANGED <<chainVars, app, lives, hand, writerVars, announced, dropped>>

\* Mutant: an error ends the goroutine.
AfterErrorGiveUp == "done"

\* What runListener does with an error of Listen.
AfterError == IF app = "running" THEN "sleep" ELSE "done"

SubscribeFail(l) ==
    /\ Alive /\ pc[l] = "connect"
    /\ pc' = [pc EXCEPT ![l] = AfterError]
    /\ UNCHANGED <<chainVars, app, lives, sub, feed, hand, writerVars, announced,
                   dropped>>

Wake(l) ==
    /\ Alive /\ pc[l] = "sleep"
    /\ pc' = [pc EXCEPT ![l] = "connect"]
    /\ UNCHANGED <<chainVars, app, lives, sub, feed, hand, writerVars, announced,
                   dropped>>

\* The subscription reports why it broke.
ListenErr(l) ==
    /\ Alive /\ pc[l] = "select" /\ sub[l] = "lost"
    /\ pc' = [pc EXCEPT ![l] = AfterError]
    /\ sub' = [sub EXCEPT ![l] = "none"]
    /\ UNCHANGED <<chainVars, app, lives, feed, hand, writerVars, announced, dropped>>

\* The context is done or the client was closed: Listen returns nil without
\* unsubscribing, and runListener calls it again at once.
ListenDone(l) ==
    /\ Alive /\ pc[l] = "select"
    /\ app # "running" \/ sub[l] = "closed"
    /\ pc' = [pc EXCEPT ![l] = "connect"]
    /\ sub' = [sub EXCEPT ![l] = "none"]
    /\ feed' = [feed EXCEPT ![l] = <<>>]
    /\ dropped' = dropped \cup ToSet(feed[l])
    /\ UNCHANGED <<chainVars, app, lives, hand, writerVars, announced>>

\* Mutant: one handler was never registered.
HandlerFoundButOne(l, title) == title \in Handled(l) \ {"SubscriptionRetryScheduled"}

\* Handle looks the event up among the handlers registered.
HandlerFound(l, title) == title \in Handled(l)

\* Handle: a log with a handler becomes the message in hand.  A donation carries
\* its amount, every other event asks the plan contract for the price.  The mark
\* of a removed log is not looked at.
ListenLog(l) ==
    /\ Alive /\ pc[l] = "select" /\ feed[l] # <<>>
    /\ feed' = [feed EXCEPT ![l] = Tail(@)]
    /\ LET d == Head(feed[l])
           log == chain[d.log]
       IN IF HandlerFound(l, log.title)
          THEN /\ hand' = [hand EXCEPT ![l] =
                    [title |-> log.title, log |-> d.log, removed |-> d.removed,
                     price |-> IF l = "donate" THEN log.amount ELSE 0]]
               /\ pc' = [pc EXCEPT ![l] = IF l = "donate" THEN "write" ELSE "plan"]
          ELSE UNCHANGED <<hand, pc>>
    /\ UNCHANGED <<chainVars, app, lives, sub, writerVars, announced, dropped>>

\* Mutant: a handler that gives up ends the goroutine.
HandlerReturnsForGood(l) ==
    /\ pc' = [pc EXCEPT ![l] = "done"]
    /\ hand' = [hand EXCEPT ![l] = Empty]

\* The handler returns to the loop of Listen.
HandlerReturns(l) ==
    /\ pc' = [pc EXCEPT ![l] = "select"]
    /\ hand' = [hand EXCEPT ![l] = Empty]

\* Mutant: plans are cached when they are first seen.
PriceFirstSeen(plan) == Head(prices[plan])

\* Mutant: the version of the plan is taken for its price.
PriceVersion(plan) == Len(prices[plan])

\* The contract is called at the latest block, not at that of the log.
PriceNow(plan) == Last(prices[plan])

\* GetPlan answers with the price the plan has by now.
PlanOk(l) ==
    /\ ClientOpen /\ pc[l] = "plan"
    /\ hand' = [hand EXCEPT ![l].price = PriceNow(chain[hand[l].log].plan)]
    /\ pc' = [pc EXCEPT ![l] = "write"]
    /\ UNCHANGED <<chainVars, app, lives, sub, feed, writerVars, announced, dropped>>

\* GetPlan fails.  HandleSubscriptionCharged does not look at the error and
\* dereferences the missing plan: the process panics.  The others return.
PlanFail(l) ==
    /\ Alive /\ pc[l] = "plan"
    /\ IF hand[l].title = "SubscriptionCharged"
       THEN ProcessEnds("panicked")
       ELSE /\ HandlerReturns(l)
            /\ dropped' = dropped \cup {DeliveryOf(hand[l])}
            /\ UNCHANGED <<app, sub, feed, queue, inflight, tries>>
    /\ UNCHANGED <<chainVars, lives, topic, late, announced>>

-----------------------------------------------------------------------------
(* WriteMessages as its callers see it                                     *)

\* Mutant: no handler returns when WriteMessages fails.
AnnounceEveryError(L) ==
    announced' = announced \cup
        {DeliveryOf(hand[l]) : l \in L}

\* What the handlers log when WriteMessages fails for the listeners of L.
AnnounceDespiteError(L) ==
    announced' = announced \cup
        {DeliveryOf(hand[l]) : l \in {k \in L : hand[k].title \in Careless}}

\* Mutant: a new message overtakes those that wait.
JoinFirst(q, m) == <<m>> \o q

Join(q, m) == Append(q, m)

\* The balancer picks a partition and the message joins its current batch.
WriteEnqueue(l, p) ==
    /\ Alive /\ app # "writerClosed" /\ pc[l] = "write"
    /\ queue' = [queue EXCEPT ![p] = Join(@, hand[l])]
    /\ pc' = [pc EXCEPT ![l] = "await"]
    /\ UNCHANGED <<chainVars, app, lives, sub, feed, hand, inflight, tries, topic, late,
                   announced, dropped>>

\* The message is refused: no metadata, context done or writer closed.
WriteReject(l) ==
    /\ Alive /\ pc[l] = "write"
    /\ HandlerReturns(l)
    /\ AnnounceDespiteError({l})
    /\ dropped' = dropped \cup {DeliveryOf(hand[l])}
    /\ UNCHANGED <<chainVars, app, lives, sub, feed, writerVars>>

\* The context is done: WriteMessages returns an error while the message stays
\* in its batch.
AwaitCancel(l) ==
    /\ Alive /\ app # "running" /\ pc[l] = "await"
    /\ HandlerReturns(l)
    /\ AnnounceDespiteError({l})
    /\ UNCHANGED <<chainVars, app, lives, sub, feed, writerVars, dropped>>

-----------------------------------------------------------------------------
(* The writer's goroutine of a partition: one batch at a time, in order    *)

Batch(p, n) == SubSeq(queue[p], 1, n)

\* Mutant: the goroutines of the writer stop with the context.
SendableUntilCancelled(p, n) ==
    /\ app = "running"
    /\ n \in 1..Len(queue[p])
    /\ IF inflight[p] = 0 THEN n <= BatchSize ELSE n = inflight[p]

\* The batch that can be sent now: the one being retried, or the next one.
Sendable(p, n) ==
    /\ Alive
    /\ n \in 1..Len(queue[p])
    /\ IF inflight[p] = 0 THEN n <= BatchSize ELSE n = inflight[p]

Appended(p, n) ==
    /\ topic' = [topic EXCEPT ![p] = @ \o Batch(p, n)]
    /\ UNCHANGED late

\* The writer's timeout is over, and the request is still on its way.
Delayed(p, n) ==
    /\ Cardinality(late) < MaxLate
    /\ late' = late \cup {[part |-> p, batch |-> Batch(p, n), attempt |-> tries[p]]}
    /\ UNCHANGED topic

Waiting(p, n) ==
    {l \in Listener : pc[l] = "await" /\ hand[l] \in ToSet(Batch(p, n))}

Remaining(q, n) == SubSeq(q, n + 1, Len(q))

\* The batch is done with, and the callers that wait for it return.
Complete(p, n) ==
    /\ queue' = [queue EXCEPT ![p] = Remaining(@, n)]
    /\ inflight' = [inflight EXCEPT ![p] = 0]
    /\ tries' = [tries EXCEPT ![p] = 0]
    /\ pc' = [l \in Listener |-> IF l \in Waiting(p, n) THEN "select" ELSE pc[l]]
    /\ hand' = [l \in Listener |-> IF l \in Waiting(p, n) THEN Empty ELSE hand[l]]

\* All replicas have the batch.
SendAcked(p, n) ==
    /\ Sendable(p, n)
    /\ Appended(p, n)
    /\ Complete(p, n)
    /\ announced' = announced \cup {DeliveryOf(hand[l]) : l \in Waiting(p, n)}
    /\ UNCHANGED <<chainVars, app, lives, sub, feed, dropped>>

\* Mutant: one attempt too many.
AttemptsLeftOneMore(p) == tries[p] < MaxAttempts

AttemptsLeft(p) == tries[p] + 1 < MaxAttempts

\* The batch was refused, or stored and its acknowledgement lost, or it is late:
\* it will be sent again.
SendRetried(p, n) ==
    /\ Sendable(p, n)
    /\ AttemptsLeft(p)
    /\ UNCHANGED <<topic, late>> \/ Appended(p, n) \/ Delayed(p, n)
    /\ inflight' = [inflight EXCEPT ![p] = n]
    /\ tries' = [tries EXCEPT ![p] = @ + 1]
    /\ UNCHANGED <<chainVars, app, lives, listenerVars, queue, announced, dropped>>

\* It was the last attempt, or the error is not a temporary one.
SendAbandoned(p, n) ==
    /\ Sendable(p, n)
    /\ \/ UNCHANGED <<topic, late>>
       \/ ~ AttemptsLeft(p) /\ (Appended(p, n) \/ Delayed(p, n))
    /\ Complete(p, n)
    /\ AnnounceDespiteError(Waiting(p, n))
    /\ dropped' = dropped \cup {DeliveryOf(m) : m \in ToSet(Batch(p, n))}
    /\ UNCHANGED <<chainVars, app, lives, sub, feed>>

Send(p) ==
    \E n \in 1..Len(queue[p]) :
        SendAcked(p, n) \/ SendRetried(p, n) \/ SendAbandoned(p, n)

\* A late request reaches the broker, behind its own retry, behind newer batches
\* or when its process is long gone.
LateAppend(r) ==
    /\ r \in late
    /\ topic' = [topic EXCEPT ![r.part] = @ \o r.batch]
    /\ late' = late \ {r}
    /\ UNCHANGED <<chainVars, app, lives, listenerVars, queue, inflight, tries,
                   announced, dropped>>

-----------------------------------------------------------------------------
(* main                                                                    *)

\* A signal arrives: Stop cancels the context of the listeners.
Stop ==
    /\ app = "running"
    /\ app' = "cancelled"
    /\ UNCHANGED <<chainVars, lives, listenerVars, writerVars, announced, dropped>>

\* client.Close ends the subscriptions without an error.
CloseClient ==
    /\ app = "cancelled"
    /\ app' = "clientClosed"
    /\ sub' = [l \in Listener |-> IF sub[l] = "live" THEN "closed" ELSE sub[l]]
    /\ feed' = [l \in Listener |-> <<>>]
    /\ dropped' = dropped \cup Fed
    /\ UNCHANGED <<chainVars, lives, pc, hand, writerVars, announced>>

\* writer.Close refuses new messages from now on ...
CloseWriter ==
    /\ app = "clientClosed"
    /\ app' = "writerClosed"
    /\ UNCHANGED <<chainVars, lives, listenerVars, writerVars, announced, dropped>>

\* ... and returns when those accepted are done with; then main returns.
Exit ==
    /\ app = "writerClosed"
    /\ \A p \in Partition : queue[p] = <<>>
    /\ ProcessEnds("exited")
    /\ UNCHANGED <<chainVars, lives, topic, late, announced>>

Kill ==
    /\ Alive
    /\ ProcessEnds("crashed")
    /\ UNCHANGED <<chainVars, lives, topic, late, announced>>

\* A new process: nothing of the old one was kept.
Restart ==
    /\ ~ Alive /\ lives < MaxLives
    /\ app' = "running"
    /\ lives' = lives + 1
    /\ UNCHANGED <<chainVars, listenerVars, writerVars, announced, dropped>>

-----------------------------------------------------------------------------

\* Only a donation carries an amount that is used.
AmountOf(l) == IF l = "donate" THEN Price ELSE {0}

ChainNext ==
    \/ \E l \in Listener : \E title \in (Handled(l) \cup {"Unhandled"}) \cap Emitted :
         \E plan \in Plan, amount \in AmountOf(l) : EmitLog(l, title, plan, amount)
    \/ \E plan \in Plan, x \in Price : UpdatePlan(plan, x)
    \/ \E i \in DOMAIN chain : Revert(i)
    \/ Disconnect

ListenerNext(l) ==
    \/ SubscribeOk(l)
    \/ SubscribeFail(l)
    \/ Wake(l)
    \/ ListenErr(l)
    \/ ListenDone(l)
    \/ ListenLog(l)
    \/ PlanOk(l)
    \/ PlanFail(l)
    \/ \E p \in Partition : WriteEnqueue(l, p)
    \/ WriteReject(l)
    \/ AwaitCancel(l)

Shutdown == CloseClient \/ CloseWriter \/ Exit

Next ==
    \/ ChainNext
    \/ \E l \in Listener : ListenerNext(l)
    \/ \E p \in Partition : Send(p)
    \/ \E r \in late : LateAppend(r)
    \/ Stop
    \/ Shutdown
    \/ Kill
    \/ Restart

Spec == Init /\ [][Next]_vars

\* The goroutines run, a batch in the writer is sent again until it is done
\* with, the statements of Stop follow one another, and an endpoint that is
\* asked again and again for a subscription grants one.
Fairness ==
    /\ \A l \in Listener : WF_vars(ListenerNext(l)) /\ SF_vars(SubscribeOk(l))
    /\ \A p \in Partition : WF_vars(Send(p))
    /\ WF_vars(Shutdown)

FairSpec == Spec /\ Fairness

-----------------------------------------------------------------------------
(* Properties                                                              *)

\* Every variable of the pusher has its type (App, the listeners, the writer).
TypeOK ==
    /\ chain \in Seq(Log)
    /\ reverted \subseteq Nat
    /\ prices \in [Plan -> Seq(Price)]
    /\ app \in AppState
    /\ lives \in Nat
    /\ pc \in [Listener -> PC]
    /\ sub \in [Listener -> SubState]
    /\ feed \in [Listener -> Seq(Delivery)]
    /\ hand \in [Listener -> Message]
    /\ queue \in [Partition -> Seq(Message)]
    /\ inflight \in [Partition -> Nat]
    /\ tries \in [Partition -> Nat]
    /\ topic \in [Partition -> Seq(Message)]
    /\ late \subseteq Request
    /\ announced \subseteq Delivery
    /\ dropped \subseteq Delivery

\* What a message about log i may carry as its price: a donation its amount, any
\* other event a price its plan has had since the log was emitted.
PricesSince(i) ==
    LET log == chain[i]
    IN IF log.contract = "donate" THEN {log.amount}
       ELSE {prices[log.plan][k] : k \in log.since..Len(prices[log.plan])}

Genuine(m) ==
    /\ m.log \in DOMAIN chain
    /\ m.title = chain[m.log].title
    /\ m.title \in Handled(chain[m.log].contract)
    /\ m.removed => m.log \in reverted
    /\ m.price \in PricesSince(m.log)

\* Every message in the topic is about a log that was emitted, under its own
\* title, with a price that was in force then or later and never an older one,
\* through reconnects, retries, crashes and restarts (Handle, GetPlan).
TopicIsGenuine ==
    \A p \in Partition : \A m \in ToSet(topic[p]) : Genuine(m)

Copies(d) ==
    {c \in Partition \X (1..Max({0} \cup {Len(topic[q]) : q \in Partition})) :
        c[2] \in DOMAIN topic[c[1]] /\ DeliveryOf(topic[c[1]][c[2]]) = d}

\* Kafka may hold a delivery more than once, but never more often than the writer
\* sends one batch: no other path repeats a log, not even a restart.
CopiesBounded ==
    \A p \in Partition : \A m \in ToSet(topic[p]) :
        Cardinality(Copies(DeliveryOf(m))) <= MaxAttempts

\* In one partition the logs of one contract first appear in the order of the
\* chain: an older log behind a newer one is only a repetition, or the pusher had
\* given it up and a late request brings it after all.
FirstCopiesInChainOrder ==
    \A p \in Partition : \A i, j \in DOMAIN topic[p] :
        LET a == topic[p][i]
            b == topic[p][j]
        IN /\ i < j /\ b.log < a.log
           /\ ~ a.removed /\ ~ b.removed
           /\ chain[a.log].contract = chain[b.log].contract
           => \/ \E k \in 1..(i - 1) : topic[p][k] = b
              \/ DeliveryOf(b) \in dropped

InTopic == {DeliveryOf(m) : m \in UNION {ToSet(topic[p]) : p \in Partition}}

\* The logs the pusher was subscribed to and has a handler for.
Owed ==
    {d \in [log : DOMAIN chain, removed : {FALSE}] :
        /\ chain[d.log].live
        /\ chain[d.log].title \in Handled(chain[d.log].contract)}

\* A log emitted while its listener was subscribed is on its way or in the topic
\* unless a fault or a shutdown cost it: nothing else loses a log.
NothingLostSilently == Owed \subseteq Fed \cup InHand \cup Queued \cup InTopic \cup dropped

\* The handlers that return on a write error log "... event published" only for
\* what the topic holds (handleSubscriptionDeactivated, RetryScheduled).
CarefulAnnouncements ==
    \A d \in announced : chain[d.log].title \in Careless \/ d \in InTopic

\* VIOLATED.  Every handler logs "... event published" only for what the topic
\* holds.
AnnouncedIsPublished == announced \subseteq InTopic

\* VIOLATED.  runListener: "listener failed, reconnecting" is all that a failure
\* of the endpoint leads to.
NoPanic == app # "panicked"

\* main's shutdown comes to its end whatever the listeners and the writer are
\* doing: Stop does not hang on a batch or on a blocked handler.
ShutdownCompletes == app = "cancelled" ~> ~ Alive

\* A listener whose subscription broke has a new one in the end, unless the
\* process stops.
Resubscribes ==
    \A l \in Listener :
        sub[l] = "lost" ~> sub[l] = "live" \/ app # "running"
=============================================================================
