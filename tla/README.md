# A formal model of ev_listener

ev_listener is three Go services: `pusher` receives the events of two smart
contracts and publishes them to Kafka, `rest` stores them in PostgreSQL and
serves them over HTTP, `sso` issues the tokens `rest` asks for. This directory
holds TLA+ modules translated from the code, the TLC configurations that check
them on small instances, and proofs checked by TLAPS.

All paths below are relative to `src/`.

## 1. Inventory

### 1.1 Parts, state, operations

| Part | Code | State | Operations |
|---|---|---|---|
| Pusher listeners | `pusher/internal/app`, `pusher/internal/listener/*` | one goroutine per contract, its subscription, the unbuffered channel of logs, the message being made; nothing is persisted | subscribe, receive a log, look up the plan, build the message, write it, reconnect after 5 s, stop |
| Kafka writer | `pusher/internal/clients/kafka/producer`, kafka-go | per partition: messages accepted, the batch being sent, attempts | `WriteMessages` (both listeners), batch, retry up to `max_attempts`, give up, `Close` |
| Kafka consumer | `rest/internal/clients/kafka/consumer`, `rest/internal/lib/consumer` | committed offsets (in Kafka), position of the session, the message in hand | `ReadMessage` (fetch and commit), `Process`, `Close`, `Check` |
| Transactions storage | `rest/internal/storage/postgres`, `rest/migrations` | the table `transactions` | six `SetTransaction*`, `GetTransaction`, `GetListTransactions`, `Check`, `Close` |
| Lifecycle of rest | `rest/cmd/rest`, `rest/internal/app`, `rest/profiling` | HTTP server, pprof server, goroutine of the consumer | start, signal, ordered closing |
| Transactions API | `rest/internal/middleware`, `rest/internal/lib/jwt`, `handlers/gettran`, `handlers/gettrans` | none of its own | authorise by cookie, one transaction, list of transactions of a wallet |
| Auth handlers and SSO client | `handlers/{login,logout,refresh,register}`, `rest/internal/clients/sso` | cookies at the client | forward to sso with timeout and retries, map status codes |
| SSO auth service | `sso/internal/services/auth`, `sso/internal/grpc`, `sso/internal/lib/jwt`, `sso/internal/storage` | `users` (email unique), `token_blacklist` (jti primary key), the clock | Register, Login, Refresh, Logout |
| Health checks | `handlers/healthcheck`, `handlers/healthready`, `sso/internal/services/health` | none | liveness, readiness of database, sso and Kafka |
| Migrators, config, logging, docs, protos | | schema version | up, down |

### 1.2 How they interact

    contracts --websocket--> listener "donate" ------\
                        \--> listener "subscription" --> kafka.Writer --> topic
    plan contract <--eth_call--/                                            |
                                                                            v
    wallet owner --HTTP--> rest handlers --SELECT--> transactions <--INSERT-- MustRun
                              |  gRPC
                              v
                             sso --> users, token_blacklist

The two listeners share one `ethclient` connection and one `kafka.Writer`, whose
batches mix their messages. The only link between pusher and rest is the topic,
which is appended to by one and read under a consumer group by the other. rest
and sso share the RSA public key; rest never asks sso about an access token.

### 1.3 What is hard

* **Commit before insert.** `ReadMessage` of a reader with a group commits the
  offset before its caller sees the message; `Process` runs after that. Crash,
  shutdown or a failing INSERT in between loses the message.
* **Duplicates.** A rebalance between fetch and commit, or a lost
  acknowledgement of a batch, repeats messages; there is no key and no unique
  constraint.
* **Shutdown.** `main` of rest cancels the context and closes the pool under the
  consumer's goroutine. `main` of pusher cancels listeners that wait for the
  writer, whose messages are nevertheless delivered.
* **The chain.** Subscriptions start at the head (nothing is fetched again),
  removed logs are not told apart, plans are read at the latest block.
* **Errors that are not acted upon.** `GetPlan` in `HandleSubscriptionCharged`,
  `WriteMessages` in three handlers, `Process` in `MustRun`.
* **Retries of calls that are not idempotent.** An attempt whose timeout passed
  may still be running in sso while the next one starts.
* **Requests that come late.** A produce request that timed out may reach the broker
  after its retry, after newer batches or after the end of its process.
* **Waits without a deadline.** `ReadPartitions` in the readiness probe, `db.Prepare`
  in every statement, `eth_call`, and calls of sso as rest is shipped, with one
  attempt that has no timeout.
* **Closing under use.** `Shutdown` gives up after a while; the sso client and the
  pool are then closed under the handlers that are left.
* **Tokens.** Refresh and Logout read and write the blacklist in separate steps;
  access tokens cannot be revoked; expiry is checked against a clock.

The full list, each at its line, is under `hazards` in `PROJECT.json`.

### 1.4 What makes each part correct

* *Pusher*: every message is about a real log, with a price in force at that log
  or later; a log is repeated only by the writer's own retries; in a partition
  the first copies follow the chain, up to what the writer had given up; what it was subscribed to is published
  unless a fault costs it; broken subscriptions are renewed; shutdown ends.
* *Consumer*: a row is a committed message of the topic; rows of a partition are
  in topic order; committed offsets never go back; one fault costs at most one
  message; no message blocks the next.
* *Pipeline*: rows are only added, each about an event that happened, and in a
  partition in the order of the chain; a log is lost only to a fault of its own,
  and otherwise gets its row in the end.
* *Amounts*: the price in the table is the value on the chain rounded once, but
  for a tie the first rounding makes; a larger payment has no smaller price.
* *SSO*: one user per email; no refresh after a logout has returned; tokens name
  accounts; a refusal has a cause.
* *API*: what a client is told is so, retries included; every request to sso is
  answered once retries are configured; only rows of the wallet the account was registered with.
* *Lifecycle*: a probe that says ready has met its three dependencies; a probe
  ends, unless the broker accepts and stays silent; an orderly stop ends, and costs
  no request that it waits for.

## 2. Plan

| # | Module | Status |
|---|---|---|
| 1 | `Consumer`, `MCConsumer`, `ConsumerProofs`: `MustRun`, storage and the life of the rest process | done |
| 2 | `Pusher`, `MCPusher`, `PusherProofs`, `OrderProofs`: listeners, writer, chain, life of the pusher process | done |
| 3 | `TransactionFeed` (abstract) and `Pipeline`, `MCPipeline`, `PipelineProofs`: pusher and consumer over one topic, implementing it | done |
| 4 | `Auth`, `AuthProofs`: sso with users, blacklist, clock, concurrent calls | done |
| 5 | `Gateway`, `MCGateway`, `GatewayProofs`: the HTTP API in front of sso, the client's retries, access tokens and the two queries | done |
| 6 | `Service`, `MCService`, `ServiceProofs`: the lives of rest and sso, the readiness probe | done |
| 7 | `Amounts`, `MCAmounts`, `AmountsProofs`: wei to decimal to `NUMERIC(18, 10)`, whose two roundings follow one another | done |

Who uses whom: `Pipeline` extends `Pusher` and instantiates `Consumer` over the
topic of the former; `Gateway` extends `Auth`; `Service` is about the same two
processes as `Consumer` and `Gateway` but about their lives only; `Amounts` is
about the values that `Pusher` and `Consumer` carry along. There are two
abstract specifications, both checked as the PROPERTY of a detailed one:
`TransactionFeed` of `Pipeline`, and `AuthSpec`, the sso service with arbitrary
callers, of `Gateway`.

## 3. The modules

### 3.1 Consumer

`Consumer.tla` models the goroutine of `MustRun` (`reader`), the session of the
consumer group (`position`), the group's offsets in Kafka (`offset`, which counts
messages, so message `i` is committed once `offset >= i`), the table
(`transactions`, in insertion order, with coordinates kept in each row to tell
equal events apart) and the life of the process.

| Action | Code |
|---|---|
| `ReadMessage` | `ReadMessage` fetches, commits, and returns the message. With a rebalance in between, the session starts again from the old offset and will deliver the message once more |
| `ReadFails` | any error ends `MustRun`. The failing call may be the commit, carried out with its answer lost |
| `Store` | `Process` found a case, and the INSERT was executed |
| `ProcessFails` | unsupported title, price beyond `NUMERIC(18, 10)` (`Insertable`), database error or cancelled context. The success line runs all the same |
| `CloseReader`, `CloseStorage` | the two steps of `main`'s shutdown that the goroutine notices |
| `Exit` | end of `main`, or a crash anywhere; a commit or an INSERT under way may still be executed |
| `Restart` | a new process joins the group at the committed offsets |

`faults` counts the failures the environment injected (bounded by `MaxFaults`)
and those a shutdown or a refused message caused (not bounded). The topic is the
environment's; the module only assumes that it is appended to (`TopicGrows`).

### 3.2 Pusher

`Pusher.tla` models both listener goroutines, each at a program point of
`runListener`, `Listen` and a handler:

| `pc` | Where the goroutine is |
|---|---|
| `connect` | before `SubscribeFilterLogs` |
| `sleep` | the five seconds after an error |
| `select` | the select of `Listen` |
| `plan` | in `GetPlan` |
| `write` | called `WriteMessages`, no partition yet |
| `await` | in `WriteMessages`, waiting for its batch |
| `done` | `runListener` returned |

`feed` holds logs the node has delivered and the goroutine has not received,
`hand` the message being made. The writer has one goroutine per partition that
sends one batch at a time, in order: `queue` holds the accepted messages,
`inflight` the length of the batch being sent, `tries` its attempts. A send is
acknowledged, retried (the broker may have stored the batch or not) or given up.
A request whose timeout is over may also still be on its way (`Delayed`): it is
kept in `late`, and `LateAppend` stores it at any later moment, behind its own
retry, behind newer batches, or when its process has ended. `MaxLate` bounds how
many there are at one time.
A message is its title, its log, the removed mark and its price; the other
fields are copied from the log and the plan with no decision on them. `removed`
is not a field of the JSON: it records which of two deliveries of one log a
message comes from.

The chain (`EmitLog`, `Revert`, `UpdatePlan`, `Disconnect`) and the process
(`Stop`, `CloseClient`, `CloseWriter`, `Exit`, `Kill`, `Restart`) are the rest.
A panic, an exit and a crash all lose what is in memory (`ProcessEnds`).
`announced` records the "... event published" lines, `dropped` is a history
variable: the deliveries that a fault or a shutdown cost.

### 3.3 Pipeline and TransactionFeed

`Pipeline.tla` is the conjunction of the two: a step is one of the pusher that
leaves the variables of rest alone, or one of rest that leaves the topic and the
pusher alone. The consumer's assumption about the topic (`TopicGrows`) is met by
the pusher's writer, which `PipelineProofs` proves.

`RowsInChainOrder` is the order of the chain carried through both halves, and
says how much of it is left: the writer may append `log 1, log 2` twice, so that
log 1 stands behind log 2 in the topic. Normally its first copy has a row in front
already; but if that copy cost the consumer a fault, the table has the two the
wrong way round. The only other way there is a log that the pusher has given up,
and so counts as `dropped`, whose last request comes late and after that of a
newer log.

`TransactionFeed.tla` says what the table promises to its readers and nothing
about how it is filled: the chain and the prices only grow; a step of the table
adds one row at most, which is about a log that was emitted, with the title of
an event that is recorded of its contract, the donation's amount or a price its
plan has had since; and an event has more rows than the writer has attempts only
as often as something went wrong. `Feed` in `Pipeline` is the refinement mapping:
`Rows` drops the coordinates, `excuses` are the consumer's faults.

### 3.4 Auth

`Auth.tla` has the tables `users` and `blacklist`, the sequence `issued` of all
tokens ever signed (a token is known by its place in it, which stands for the
jti), a clock in seconds, and for each call the point its goroutine has reached.
A call stops where other calls can come in between: before each statement of the
database and between the two looks at the clock.

| Action | Code |
|---|---|
| `Reject` | the checks at the head of the four handlers of `ServerAPI` |
| `Register` | bcrypt (which refuses long passwords), then the INSERT, which the constraint on the email decides |
| `Login`, `SignPair` | `GetUser` and the comparison; then two tokens |
| `Parse`, `Refresh`, `SignAccess` | `jwt.Parse`; the second look at the clock and `GetToken`; then a token with the claims of the old one |
| `Parse`, `Logout` | the same, then `SetToken`; a jti that is already there counts as success |
| `Fail` | a key file that cannot be read, a statement that fails or is cancelled with its caller. A failed INSERT may have been executed |
| `Stop`, `Exit`, `Crash`, `Restart` | the life of the process as its calls see it |

Three details of the libraries matter. golang-jwt 3.2 takes a token for expired
once `now > exp`. The error of its `Parse` never matches sso's own
`ErrRefreshTokenExpired` (`sso/internal/lib/jwt/jwt.go:73`), so that a Logout of
an expired token fails and only a token that expires between the two looks takes
the branch that succeeds. And `WithMax(n)` of the retry interceptor counts all
attempts; with 0 there is one attempt, without a timeout. The shipped
`rest/config/local.yaml:19` spells the key `retriesCount`, which
`rest/internal/config/config.go:46` does not read, so 0 is what a local run has.

`registered`, `loggedOut` and the fields `knewOut`, `knewAccounts`, `hit` of a
call are history variables: what had been acknowledged when the call was sent,
and whether a failure hit it.

### 3.5 Gateway

`Gateway.tla` puts the HTTP handlers in front of `Auth`: every request is a
goroutine that calls sso through the client (`CallSso`, `NoConnection`, `Answer`,
`Timeout`), or goes through `middleware.Auth` (`Authorise`, and `KeyFails` when
the file of the public key cannot be read: 401 also for a good token) to one of
the two SELECTs (`Select`, `SelectFails`). Each attempt is a call of its own, named by
the request and its number, and goes on in sso after its timeout. Clients
present tokens that answers have brought to them, of either type in any field:
neither service looks at the type, so that an access token can be refreshed or
logged out and a refresh token reads transactions. `made` is a history variable: this request has created an account.

`EveryRequestAnswered` states its two conditions. With `Retries = 0` an attempt has
no timeout (`Timeout` is disabled), and a request may wait for as long as sso is
silent; with retries it may not. And a request at its SELECT is answered when the
database does, since `db.Prepare` is given no context
(`rest/internal/storage/postgres/postgres.go:64`, `101`).

### 3.6 Service

`Service.tla` has both processes from start to end: the program point of rest's
`main`, the goroutines of its two servers, the requests under way, each with the
things it uses in order (`Uses`; a probe is database, sso, the dial to the broker
and `ReadPartitions`, a query is `Prepare` and the statement), the calls they
have at sso, the life of sso, and four backends: the two databases and Kafka, which
work, refuse or stay silent, and the file of sso's key, which can be read or not. A
silent backend keeps its user waiting, though the host of a silent broker may still
accept a connection.

What ends such a wait is the cancelled context (`Cancel`), by a timeout (`Expire`)
or because the client went away (`Abandon`): but not at the steps in `Deaf`, which
are given no context and no deadline, `db.Prepare` and `conn.ReadPartitions`
(`rest/internal/clients/kafka/consumer/consumer.go:48`). The context of a call is
cancelled at sso as well, where it too may be in `db.Prepare`
(`sso/internal/storage/postgres/postgres.go:74`): such a call goes on without its
caller (`StopWaiting`, state `left`) and occupies `GracefulStop`. So `ProbesEnd` has
an exception: a probe at `ReadPartitions` while the broker is silent.

| Action | Code |
|---|---|
| `Listen`, `ListenFails` | `MustRun` of the two servers, which only logs an error |
| `Use`, `SendRpc`, `ReceiveRpc` | the loop of `Handler.Ready` with `Check` of storage, client and reader; likewise a query, a call or a profile |
| `Expire`, `Abandon` | the five seconds the checkers have together; the client goes away |
| `SsoAnswer` | `Health.Check`, which looks at nothing; a call of the auth service, which fails with the database, or with the file of the key if it reads that |
| `Signal`, `StopDrained`, `StopGivesUp` | `application.Stop`: `Shutdown` with its timeout |
| `CloseReader`, `StopPprof`, `CloseClient`, `CloseStorage`, `Return` | the rest of `main`, in order |
| `SsoServe`, `SsoSignal`, `SsoDrained`, `SsoClose` | `Run`, `GracefulStop`, `storage.Close` of sso |
| `SsoDies` | a panic of `MustRun`, or the end of the process for any other reason |
| `Reconnect` | the channel's back-off after a failed connection, during which calls fail although sso is up again |

`witness` is a history variable, kept by `Observe`: what was fine and what was not
in any state a request lived in. `overran` are the requests that were left when
`Shutdown` gave up.

### 3.7 Amounts

`Amounts.tla` follows the values of payments, as whole numbers of their last
digits: wei in `logs`, grains (10^-16 ether, what `Div` keeps) in `messages`,
units (10^-10 ether, what the column keeps) in `rows`. `Rounded` is what the
decimals of shopspring and the numerics of PostgreSQL do with a quotient;
`HandleDonationProcessed` stands for all handlers that divide,
`SetTransactionDonate` for all six INSERTs, `Overflow` for their refusal, which
looks at the value after it was rounded. `rows` and `refused` keep the value in wei
next to what became of it, for the properties to compare.

### 3.8 Simplifications

* A mined log and its delivery to a live subscription are one step; logs may
  then wait in `feed` as long as the goroutine is busy.
* The writer decides batch boundaries by size and time. Time is not modelled: a
  batch of any length up to `BatchSize` may be sent at any moment.
* A late request is appended as a whole or not at all, like any batch.
* The writer's balancer may pick any partition: the position of the RoundRobin
  counter depends on calls made before.
* Reorganisations remove the newest logs first, and a removed log does not come
  back under the same identity.
* In `Pusher` and `Consumer` a price stands for the amount in wei it was computed
  from; what the division and the column make of it is `Amounts`. The overflow of
  the column, which stops a message, is in both.
* User ids are left out of `Auth`: the email identifies a row. A wallet is one
  value, however its address is spelled; a hash is its password.
* Request bodies that are no JSON (422) are left out of `Gateway`; a row of the
  table is its id and its merchant there.
* `Service` does not repeat calls (`Gateway` does), and its requests end in
  `cancelled` for every context that is cancelled, by a timeout or by the client,
  and with the process. A call that waits at sso for a statement with a context
  ends with it; one in `Prepare` does not. Which of the two it is, is left open.
* Calls of sso that are refused for a reason of their own (a wrong password, a bad
  token) count as `ok` in `Service`: it asks what becomes of calls, not what they say.

## 4. Runs

| Run | Instance | What it shows |
|---|---|---|
| `consumer` | two partitions, two messages each (a good one and one that is refused, by its title or its price), two injected faults, any number of shutdowns and restarts | provenance, order, offsets that never rewind, at most one message lost or repeated per fault, every message fetched unless `MustRun` has returned |
| `consumer_saved` | as above | a finding, see section 7 |
| `pusher_safety` | one contract, two partitions, two prices, a plan that changes once or one reorganisation (`MaxChanges = 1`), two attempts, batches of two, one late request at a time, two processes | genuine messages only, bounded copies, first copies in chain order |
| `pusher_live` | both contracts over one partition, two attempts, batches of two, no late request, an unhandled log | nothing lost silently, careful announcements, shutdown, new subscriptions and publication in the end |
| `pusher_panic`, `pusher_announced` | as `pusher_safety`, with one partition, one attempt and one process | findings, see section 7 |
| `pipeline` | two donations, each of which may be more than the column holds, two attempts, batches of two, one late request at a time, one injected fault of the consumer, one pusher that may crash | the table implements `TransactionFeed`; a log is lost only to a fault of its own; rows are in the order of the chain; a log gets its row in the end |
| `amounts` | two payments of any values up to 79 wei, 4 wei to the grain, 6 grains to the unit, a column that ends at 2 units | one rounding or a tie, order of the prices, refusals |
| `gateway` | three requests, two at a time, one old account with its refresh token, one tick of the clock, one failure, one attempt per call without a timeout, as shipped | a logout is final, answers are true, accounts stay, tokens name accounts, refusals have a cause, only rows of the account |
| `gateway_retries` | three requests one after the other, two attempts each, which overlap in sso | answers stay true, every request is answered (with the conditions of 3.5), `Gateway` implements `AuthSpec` |
| `gateway_bad_request` | as `gateway`, with a single request | a finding, see section 7 |
| `service` | a probe or a profile together with a query or a call, one outage, death or failing server, one process started again | a 200 of a probe is true, errors have a cause, calls that sso accepted finish, probes (but for a silent broker) and both shutdowns end |

Why the bounds are enough: a copy or a reordering needs two messages and one
retry or restart; a second partition is needed only for the claims that relate
partitions or must not; two logs fill a batch, and a listener holds at most one
message, so two logs let one message wait behind another and one be on its way
while the other is in a batch. Two prices and one update distinguish the price
before, at and after a log; no property relates a change of price to a
reorganisation, so that one of them per behaviour is enough (`MaxChanges`). One late request
at a time can overtake its retry, a newer batch and its process; the liveness of
`pusher_live` does not depend on it, since a request that is late is no longer
waited for, and that run has none. In `consumer` two injected faults let one failure hit
the recovery from another. Two requests are enough for a race, since all of sso's races are of
two statements about one email or one token; a third one sees what they left. Access
tokens live 0 ticks of the clock and refresh tokens 1, so that one tick makes the
former expire and takes the latter to the boundary of their life, and Parse and
GetToken may see different times; the session `gateway_retries` starts with has a
refresh token that expires at that tick, between the attempts of a call. In
`service` a second request matters where main or sso waits for all of them; one
fault suffices because nothing there hides a fault from a later one. A slot of that
run serves again only if its last request was cancelled (`Fresh`): all that an
answered request leaves behind is a channel that backs off, which the request in the
other slot meets.

The instance of `pipeline` lets processes crash but leaves out the steps of their
orderly shutdowns (`Abrupt`), which the runs of the two parts have. The signal to
the pusher stays in: one listener fills a batch of two only when the context is
cancelled while its first message waits, and a batch of two that is sent again is
what puts an older log behind a newer one. The price of the plan is fixed there
(`MCInit`), as no donation reads it. Since `Shutdown` is fair and barred
there, `OwedIsStored` says of the behaviours with a signal only what happens when
the pusher then crashes. One injected fault is enough beside those that refused
prices cost; two need more states than add to what `consumer` checks.

In `amounts` every residue of both divisions is met on both sides of the ties and
of the limit; the sizes of the real digits are even like those of the instance.

`CHECK_DEADLOCK FALSE` stands in the configurations of the pusher, the pipeline
and the service, where the last process of a run ends and is not started again,
and in those of the gateway and of `amounts`, whose clients stop after
`MaxRequests` and `MaxPayments`. The consumer restarts for ever and its runs check
for deadlock. `gateway` and `pusher_safety` use a symmetry, over the slots of
requests and over the partitions: they are interchangeable, and these runs check
safety only.

## 5. Fairness

* *Consumer*: `Store \/ ProcessFails` is weakly fair (`Process` returns: the
  database answers or the connection breaks); the steps of a shutdown that began
  are weakly fair; `ReadMessage(p)` is strongly fair per partition, because the
  goroutines of kafka-go that fetch the partitions queue for one channel in
  order. Faults, signals and restarts are never fair.
* *Pusher*: each listener goroutine and each goroutine of the writer is weakly
  fair; a batch is acknowledged or given up after a bounded number of attempts,
  so no assumption about the broker is needed; `Shutdown` is weakly fair, its
  steps are consecutive statements. A late request need never arrive
  (`LateAppend` is not fair). The fairness of a listener includes its `eth_call`:
  `GetPlan` is taken to return, with the plan or an error, though its context has no
  deadline (`pusher/internal/listener/plan/plan.go:39`) and an endpoint that keeps
  the connection and never answers would hold the listener until the shutdown.
  `OwedIsPublished` and `OwedIsStored` rest on that. `SubscribeOk` is strongly fair: an endpoint
  asked again every five seconds grants a subscription in the end. These two
  are assumptions about the world; `Resubscribes` rests on the last.
  Faults, signals, and the chain are never fair.
* *Pipeline*: the two together, nothing else.
* *Gateway*: the goroutine of each request is weakly fair, timers included, as far
  as it waits for nobody (`Handle`). Nothing is assumed of sso, which may answer
  late, never, or be down, nor of the database: `Select`, `SelectFails` and
  `KeyFails` are not fair.
* *Service*: a request goes on or its timer fires, a shutdown that has begun goes
  on, each weakly. A timer ends only waits that are given its context (`Deaf`). No backend has to recover and no process to be started again.
  That is why `SsoStops` must except a database that is silent, while
  `ShutdownEnds` needs no exception: rest's waits have timeouts, sso's has none.

## 6. Proofs

All theorems hold for every value of the constants that the named assumptions
(`ConsumerAssumption`, `PusherAssumption`, `PipelineAssumption`, `AuthAssumption`,
`GatewayAssumption`, `ServiceAssumption`, `AmountsAssumption`) admit, with no bound on messages, logs, faults, requests or
restarts (the `Max...` bounds are arbitrary).

**`ConsumerProofs`.** `TypeCorrect`, `OnlyCommittedMessages`, `OrderKept`,
`NeverRewind`, `FaultsPay`. The first properties are not inductive: that a new row comes last in its
partition needs to know that the message in hand is the last one committed, and
that nothing committed earlier is still to be stored. `IInv` adds `SessionInv`:
the committed offset leads the session by at most one message and never passes
the end of the log, and the goroutine processes exactly the last message
committed. Lemmas on `Advance` and on the rows carry the steps that commit and
those that insert; `NeverRewind` follows from `IInv` step by step. The topic may
change in any way `TopicGrows` allows.

`FaultsPay` proves `OneMessagePerFault`. A bound on what was lost
or repeated is not inductive, because a fault pays before the damage shows: a
rebalance, for a message that will be delivered again. The invariant is
`Debt <= faults`, where `Debt` adds up the messages that are committed and neither
stored nor in hand (`Lost`), the rows beyond the first of a message, the
partitions whose last committed message the session will fetch once more (`Again`)
and the message in hand if it has a row already (`Twice`). Each step of the model
moves a message from one of these to another or adds one together with its fault.

**`PusherProofs`.** `TypeCorrect`, `OnlyGenuineMessages`, `NoSilentLoss`,
`AnnouncementsAreTrue`. The inductive invariant
follows a log on its way: what a feed holds is known and of its contract
(`FeedInv`), the message in hand is known and, from `write` on, genuine
(`HandInv`), and so are the queues (`QueueInv`); `LogInv` ties the price history
to the logs, and `LateInv` says of late requests what `QueueInv` says of queues. A
frame lemma states that genuineness survives every step, since the
chain and the histories only grow.

`NoSilentLoss` and `AnnouncementsAreTrue` are proved relative to that invariant.
`TrackInv` adds to the two properties that a dead
subscription feeds nothing (`SubInv`), that a message whose handler waits is in a
queue (`AwaitInv`) and that what was announced is known (`AnnouncedInv`). A step
then hands a delivery from one place to the next, and each lemma says which.

**`OrderProofs`.** `ChainOrderKept` and `CopiesAreBounded`. The order of the topic
follows from the order of everything before it: in a feed, in hand and in the
queues deliveries stand in the order of the chain and each only once
(`FeedOrder`, `HandOrder`, `QueueOrder`), and all of them behind what the writer
has accepted (`WriteOrder`). The one exception is a batch sent again, and that is
what `SentOrder` says: a queued message that was overtaken was sent before.
`LateOrder` adds the requests that are late: one is a repetition of the batch under
way (`Current`), or what it brings is in the topic or given up by then (`Past`), so
that its arrival puts no first copy behind a newer log but of a log in `dropped`.
`CopiesInv` counts: a message of the batch under way has at most as many copies as
that batch has had attempts, one that waits has none, so that the last attempt
reaches `MaxAttempts` and no other path adds a copy. Copies in late requests are
counted as if they had arrived (`CopiesOf`), so that an arrival adds none.

**`PipelineProofs`.** Each half is an environment that the other admits:
`PusherInPipeline` and `ConsumerInPipeline` prove that the composition implies the
specification of either, the latter because every step of the pusher, by its
invariant, only appends to the topic (`TopicOnlyGrows`). All that is proved of the
halves then holds of the whole, and what remains is about states, not steps:
`NothingVanishes` maps every log that is nowhere any more to a message the consumer
has lost, two logs to two messages (`LeftIsLost`, `VanishedArePaid`), of which
there are no more than faults. `TableInChainOrder` takes the first copy of the
older log from `ChainOrderKept`; it lies before a message that has a row, so it is
committed and no longer in hand, hence stored, and by `OrderKept` stored earlier,
or lost (`EarlierIsSettled`), unless the pusher had given it up.
`PipelineIsFeed` proves the refinement `PipelineSpec => FeedSpec`. The steps of the
pusher let chain and prices only grow (`ChainOnlyGrows`, `HistoryGoesOn`); an
INSERT adds a row about an event that happened, because the topic is genuine, and
not once too often (`InsertRecords`). That last bound is the invariant `FewRows`:
the rows of one delivery are its copies in the topic, at most `MaxAttempts`, and
the rows the consumer inserted twice, each of them paid for by a fault.

**`AmountsProofs`.** `PricesRounded`, `OrderOfPrices`, `RefusalsAreOverflows`.
`Nearest` bounds the distance of a rounded quotient on either side, `RoundedGrows`
makes it monotone. `TwiceIsOnce` multiplies the bounds of the second rounding by
the size of a grain and adds those of the first: the price is at most
half a unit and half a grain off, never below the value rounded once, and above it only if that
half grain made the difference. The sizes of the digits are arbitrary positive
numbers, even or odd.

**`AuthProofs`.** `AuthTypes`, `LogoutIsFinal`, `AccountsStay`, `TokensAreNamed`,
`RefusalsAreJust`. `LogoutIsFinal` is not inductive: an answer says nothing of how
it came about. `IInv` adds `LogoutInv`, that a token whose logout was acknowledged
is on the blacklist or expired, and stays so because the clock and the blacklist
only grow; `UsersInv`, that emails are unique and acknowledged accounts stored;
and `CallInv`, for each call what its goroutine has learned by the point it has
reached: past `GetToken` the token is not one of those logged out when the call
was sent, before signing the claims are those of an account, a refusal that no
failure caused has its cause. One lemma per action, and frame lemmas for the
steps that leave a call alone.

**`GatewayProofs`.** `RestUsesSso` proves `Spec => AuthSpec`: every step of a
handler is a call, the receipt of an answer or the abandoning of a call as
`AuthSpec` allows its callers, or leaves sso alone. It needs `GatewayInv`, since
`AuthSpec` only lets callers present tokens that exist: `GivenInv` and `HeldInv`
follow the tokens from an answer to the client that presents them. Everything
proved of `AuthSpec` carries over (`LogoutIsFinalBehindRest`).
`RowsAreOfAccounts` combines it with `RequestInv`: what is selected carries the
wallet of the token, which by `TokensNameAccounts` is that of an account.
`AnswersStayTrue` is proved in two steps. `ToldInv` is about sso alone: what a
call was answered is so (`Told`), and stays so because tables, tokens and clock
only grow (`NextGrows`, `ToldStays`). `SlotInv` is about rest: a slot's calls are
attempts of its request and none but the last is waited for (`AttemptInv`), and
the attempt that created an account does not find it there (`MadeInv`), while an
attempt that lingers may create it after the answer (`made` is kept per request,
not per attempt).

**`ServiceProofs`.** `TypeCorrect`, `CallsFinish`, `ReadinessIsTrue`,
`CausesOfErrors`. `IInv` ties the programs together: a call at sso belongs to a request that
has come to its use of sso (`RpcInv`); once main goes on after `Shutdown`, only
requests that overran are left, and a drained sso has no call (`DrainInv`); and the
witness of a pending request contains what it has met by the point it has reached
(`WitnessOf`), so that an answer finds its cause there.

**Model-checked only.** Liveness under fairness (`EveryMessageFetched`,
`ShutdownCompletes`, `Resubscribes`, `OwedIsPublished`, `OwedIsStored`,
`EveryRequestAnswered`, `ProbesEnd`, `ShutdownEnds`, `SsoStops`) is out of the
reach of TLAPS, as is everything that needs ENABLED or induction over data. Every
invariant, every action property and both refinements that the runs check are
proved.

## 7. Findings

1. `consumer_saved`: `MustRun` logs "transaction successfully saved" also when
   `Process` failed (`rest/internal/clients/kafka/consumer/consumer.go:66-71`).
2. `pusher_panic`: `HandleSubscriptionCharged` ignores the error of `GetPlan` and
   dereferences the missing plan
   (`pusher/internal/listener/subscription/subscription.go:233-235`).
3. `pusher_announced`: three handlers log "... event published" after a failed
   write (`subscription.go:206-210`, `256-260`, `donate.go:103-107`).

4. `gateway_bad_request`: `logout` answers every error of the client with 400,
   documented as an invalid refresh token
   (`rest/internal/server/handlers/logout/logout.go:29`, `53-63`), also when sso
   could not be reached or did not answer; and sso reports every failure of a
   refresh as InvalidArgument (`sso/internal/grpc/auth/auth.go:104`), which
   `refresh` passes on as 400.

Some behaviour is as written but worth knowing, and shows in how the properties
had to be stated: a message is lost per fault after its commit (there is no
at-least-once), a removed log is published a second time, logs emitted while no
subscription is live are never seen, and an error of `ReadMessage` stops
consumption until the process is restarted. A register that timed out and is
repeated is told that the account exists, though it was its own; a process of
rest whose HTTP server could not listen goes on without one; a signal to sso
before `Serve` is called ends it in a panic; a probe is ready while no login can
succeed, because `Health.Check` looks at nothing and nobody calls `Health.Ready`.

Four waits have no bound, and the liveness properties except them. A broker that
accepts a connection and stays silent holds a probe beyond its five seconds: they
reach `DialContext` but not `ReadPartitions` (`consumer.go:48`). As shipped, rest
waits for sso without a timeout, because `local.yaml:19` configures
`retriesCount` and `config.go:46` reads `retries_count`. Every statement is prepared
without a context (`rest` `postgres.go:64`, `101`; `sso` `postgres.go:74`), so that
a silent database holds a request whose client has gone, and a `GracefulStop`. And
`eth_call` in `GetPlan` has no deadline. Neither service looks at the type of a
token: an access token is accepted where a refresh token is meant, and the reverse.

## 8. Not modelled

* Payload fields without a decision on them, log output other than the lines
  named above, ABI decoding beyond success or failure.
* The loading of configuration and logging: read once, no behaviour over time.
  The product of the configured timeout and a second (`rest/cmd/rest/main.go:73`)
  is 64-bit arithmetic; 5 s, as configured, fits and amounts to no deadline, 10 s
  overflows. `Service` gives requests other than probes no deadline.
* The migrators, run by hand while nothing else runs. A down migration of the
  blacklist makes every logged out token good again.
* The race of all requests on the logger variable of their handler
  (`login.go:43` and six others): only log lines read it.
* Swagger pages and generated code (`protos`, `rest/docs`), the functional tests
  of sso (read as documentation).
