------------------------------ MODULE Service -------------------------------
(***************************************************************************)
(* The processes rest and sso from their start to their end: the servers   *)
(* of rest, the requests they handle, the readiness probe, the calls rest  *)
(* has at sso, and the two orderly shutdowns.  What a request is about is  *)
(* left to Gateway; here it only uses the things others may close, stop or *)
(* lose under it.                                                          *)
(***************************************************************************)
EXTENDS Naturals, Sequences, FiniteSets

CONSTANTS
    Request,   \* slots for concurrent requests
    Timed,     \* kinds of request with a deadline of their own
    MaxFaults, \* bound: outages and processes that die
    MaxLives   \* bound: processes started again

ServiceAssumption == "probe" \in Timed /\ MaxFaults \in Nat /\ MaxLives \in Nat

ASSUME ServiceAssumption

VARIABLES
    main,      \* where main of rest is
    server,    \* [{"http", "pprof"} -> state of the goroutine of MustRun]
    overran,   \* requests that were left behind when application.Stop gave up
    request,   \* [Request -> the request in that slot]
    rpc,       \* [Request -> state of its call at sso]
    channel,   \* rest's connection to sso
    sso,       \* how far the sso process is in its life
    condition, \* [Backend -> what it does with those who use it]
    witness,   \* [Request -> what was fine and what was not while it runs]
    faults,
    lives

restVars == <<main, server, overran>>
ssoVars == <<sso, rpc, channel>>
programVars == <<restVars, ssoVars, request, condition, faults, lives>>
vars == <<restVars, ssoVars, request, condition, witness, faults, lives>>

\* What rest depends on, and behind sso its database and the file of its key.
Backend == {"database", "kafka", "ssoDatabase", "ssoKey"}

MainState ==
    {"waiting", "stopping", "closingReader", "stoppingPprof", "closingClient",
     "closingStorage", "returning", "ended"}

ServerState == {"starting", "listening", "closed"}

SsoState == {"starting", "serving", "stopping", "closing", "exited", "killed"}

\* "left" is a call that sso goes on with after its caller has gone.
RpcState == {"none", "running", "left", "ok", "failed", "lost"}

Status == {"pending", "ok", "error", "cancelled"}

\* Mutant: reader is not among the checkers.
UsesNoReader ==
    [probe |-> <<"database", "sso">>,
     query |-> <<"prepare", "database">>,
     call |-> <<"sso">>,
     profile |-> <<"cpu">>]

\* What each kind of request uses, in order: the probe is made of storage,
\* clientSSO and reader, which dials the broker and then reads its partitions;
\* the others stand for a transactions handler, which prepares its SELECT, an
\* auth handler and a profile.
Uses ==
    [probe |-> <<"database", "sso", "broker", "partitions">>,
     query |-> <<"prepare", "database">>,
     call |-> <<"sso">>,
     profile |-> <<"cpu">>]

\* Who is asked there; only "sso" and "cpu" are no backend.
BackendOf ==
    [database |-> "database", prepare |-> "database",
     broker |-> "kafka", partitions |-> "kafka"]

\* The two that are given no context: db.Prepare and conn.ReadPartitions, on a
\* connection without a deadline.  Nothing but the backend ends the wait there.
Deaf == {"prepare", "partitions"}

Kind == {"probe", "query", "call", "profile"}

ServerOf(kind) == IF kind = "profile" THEN "pprof" ELSE "http"

Pending(h) == request[h].status = "pending"

PendingAt(s) == {h \in Request : Pending(h) /\ ServerOf(request[h].kind) = s}

NextUse(h) == Uses[request[h].kind][request[h].step + 1]

\* A slot is free once its request has ended; it keeps only how it ended.
Free(status) == [kind |-> "query", step |-> 0, status |-> status]

Init ==
    /\ main = "waiting"
    /\ server = [s \in {"http", "pprof"} |-> "starting"]
    /\ overran = {}
    /\ request = [h \in Request |-> Free("cancelled")]
    /\ rpc = [h \in Request |-> "none"]
    /\ channel = "connected"
    /\ sso = "starting"
    /\ condition = [d \in Backend |-> "up"]
    /\ witness = [h \in Request |-> [fine |-> {}, trouble |-> {}]]
    /\ faults = 0
    /\ lives = 0

-----------------------------------------------------------------------------
(* Requests                                                                *)

\* The servers of rest accept connections once ListenAndServe listens.
Listen(s) ==
    /\ main # "ended" /\ server[s] = "starting"
    /\ server' = [server EXCEPT ![s] = "listening"]
    /\ UNCHANGED <<main, overran, ssoVars, request, condition, faults, lives>>

Shut(s) == server' = [server EXCEPT ![s] = "closed"]

\* MustRun logs that it cannot listen and returns: the process lives on.
ListenFails(s) ==
    /\ main # "ended" /\ server[s] = "starting"
    /\ faults < MaxFaults /\ faults' = faults + 1
    /\ Shut(s)
    /\ UNCHANGED <<main, overran, ssoVars, request, condition, lives>>

\* A new request in a slot that nothing of an earlier one uses any more.
Accept(h, kind) ==
    /\ ~ Pending(h) /\ rpc[h] = "none"
    /\ main # "ended" /\ server[ServerOf(kind)] = "listening"
    /\ request' = [request EXCEPT ![h] =
                      [kind |-> kind, step |-> 0, status |-> "pending"]]
    /\ UNCHANGED <<restVars, ssoVars, condition, faults, lives>>

Answered(h, status) == [request EXCEPT ![h] = Free(status)]

\* Mutant: the loop over the checkers does not end.
AdvancedAgain(h) == [request EXCEPT ![h].step = @ + 1]

\* One thing done: answer, or on to the next.
Advanced(h) ==
    IF request[h].step + 1 = Len(Uses[request[h].kind]) THEN Answered(h, "ok")
    ELSE [request EXCEPT ![h].step = @ + 1]

ConditionOf(use) == IF use = "cpu" THEN "up" ELSE condition[BackendOf[use]]

ClientClosed == main \in {"closingStorage", "returning", "ended"}

\* A statement or ping of the database, the two steps of reader's check, or the
\* work of a profile.  A backend that is silent keeps its user waiting, though
\* the host of a silent broker may accept the connection; a connection in use
\* survives storage.Close, a new one is refused.
Use(h) ==
    /\ Pending(h) /\ NextUse(h) # "sso"
    /\ \/ /\ \/ ConditionOf(NextUse(h)) = "up"
             \/ NextUse(h) = "broker" /\ condition["kafka"] = "silent"
          /\ request' = Advanced(h)
       \/ /\ \/ ConditionOf(NextUse(h)) = "refusing"
             \/ NextUse(h) \in {"prepare", "database"} /\ main = "returning"
          /\ request' = Answered(h, "error")
    /\ UNCHANGED <<restVars, ssoVars, condition, faults, lives>>

\* Mutant: a server that drains still takes calls.
SendRpcWhileDraining(h) ==
    /\ Pending(h) /\ NextUse(h) = "sso" /\ rpc[h] = "none"
    /\ \/ /\ ~ ClientClosed /\ channel = "connected"
          /\ sso \in {"serving", "stopping"}
          /\ rpc' = [rpc EXCEPT ![h] = "running"]
          /\ UNCHANGED <<channel, request>>
       \/ /\ ClientClosed \/ channel = "backoff"
             \/ sso \notin {"serving", "stopping"}
          /\ channel' = IF ClientClosed THEN channel ELSE "backoff"
          /\ request' = Answered(h, "error")
          /\ UNCHANGED rpc
    /\ UNCHANGED <<restVars, sso, condition, faults, lives>>

\* A call starts.  One that finds no server fails at once and makes the channel
\* back off, during which the calls after it fail too.
SendRpc(h) ==
    /\ Pending(h) /\ NextUse(h) = "sso" /\ rpc[h] = "none"
    /\ \/ /\ ~ ClientClosed /\ channel = "connected" /\ sso = "serving"
          /\ rpc' = [rpc EXCEPT ![h] = "running"]
          /\ UNCHANGED <<channel, request>>
       \/ /\ ClientClosed \/ channel = "backoff" \/ sso # "serving"
          /\ channel' = IF ClientClosed THEN channel ELSE "backoff"
          /\ request' = Answered(h, "error")
          /\ UNCHANGED rpc
    /\ UNCHANGED <<restVars, sso, condition, faults, lives>>

\* The requests of S wait for sso no longer.  Their contexts are cancelled at sso
\* as well, but a call that is in db.Prepare there goes on without its caller.
StopWaiting(S) ==
    \E left \in SUBSET {h \in S : rpc[h] = "running" /\ request[h].kind = "call"} :
        rpc' = [h \in Request |->
            IF h \in left THEN "left"
            ELSE IF h \in S /\ rpc[h] # "left" THEN "none" ELSE rpc[h]]

\* The end of a call, as sso answered it or because the connection broke or was
\* closed.
ReceiveRpc(h) ==
    /\ Pending(h)
    /\ \/ rpc[h] = "ok" /\ request' = Advanced(h)
       \/ /\ rpc[h] \in {"failed", "lost"} \/ (ClientClosed /\ rpc[h] # "none")
          /\ request' = Answered(h, "error")
    /\ StopWaiting({h})
    /\ UNCHANGED <<restVars, sso, channel, condition, faults, lives>>

\* Cancelling its context ends what h waits for.
Cancel(h) ==
    /\ Pending(h) /\ NextUse(h) \notin Deaf
    /\ request' = Answered(h, "cancelled")
    /\ StopWaiting({h})
    /\ UNCHANGED <<restVars, sso, channel, condition, faults, lives>>

\* Mutant: Ping instead of PingContext.
ExpireButPing(h) ==
    request[h].kind \in Timed /\ NextUse(h) # "database" /\ Cancel(h)

\* The five seconds all checkers of a probe have together are over (or, when
\* configured, the time a call has).
Expire(h) == request[h].kind \in Timed /\ Cancel(h)

\* The client goes away.
Abandon(h) == Cancel(h)

Handle(h) == Use(h) \/ SendRpc(h) \/ ReceiveRpc(h)

-----------------------------------------------------------------------------
(* The shutdown of rest                                                    *)

\* A signal: application.Stop calls Shutdown, which closes the listener.
Signal ==
    /\ main = "waiting"
    /\ main' = "stopping"
    /\ Shut("http")
    /\ UNCHANGED <<overran, ssoVars, request, condition, faults, lives>>

\* Mutant: Close instead of Shutdown does not wait.
StopNoWait ==
    /\ main = "stopping"
    /\ main' = "closingReader"
    /\ UNCHANGED <<server, overran, ssoVars, request, condition, faults, lives>>

\* Shutdown returns when no request is left,
StopDrained ==
    /\ main = "stopping" /\ PendingAt("http") = {}
    /\ main' = "closingReader"
    /\ UNCHANGED <<server, overran, ssoVars, request, condition, faults, lives>>

\* Mutant: Shutdown with a context that has no deadline.
StopNeverGivesUp ==
    /\ main = "stopping" /\ PendingAt("http") = {}
    /\ main' = "closingReader"
    /\ UNCHANGED <<server, overran, ssoVars, request, condition, faults, lives>>

\* or when shutdownTimeout is over, which is only logged.
StopGivesUp ==
    /\ main = "stopping" /\ PendingAt("http") # {}
    /\ main' = "closingReader"
    /\ overran' = PendingAt("http")
    /\ UNCHANGED <<server, ssoVars, request, condition, faults, lives>>

CloseReader ==
    /\ main = "closingReader"
    /\ main' = "stoppingPprof"
    /\ Shut("pprof")
    /\ UNCHANGED <<overran, ssoVars, request, condition, faults, lives>>

\* Shutdown of the pprof server; its timeout may be over before a profile is.
StopPprof ==
    /\ main = "stoppingPprof"
    /\ main' = "closingClient"
    /\ UNCHANGED <<server, overran, ssoVars, request, condition, faults, lives>>

\* clientSSO.Close, under a call that overran: the call fails.
CloseClient ==
    /\ main = "closingClient"
    /\ main' = "closingStorage"
    /\ UNCHANGED <<server, overran, ssoVars, request, condition, faults, lives>>

\* The process is gone, and with it what its handlers were doing; the next one
\* will start with nothing and connect to sso with its first call.
Vanish ==
    /\ main' = "ended"
    /\ request' = [h \in Request |->
                      IF Pending(h) THEN Free("cancelled") ELSE request[h]]
    /\ StopWaiting(Request)
    /\ channel' = "connected"
    /\ overran' = {}
    /\ server' = [s \in {"http", "pprof"} |-> "starting"]

CloseStorage ==
    /\ main = "closingStorage"
    /\ main' = "returning"
    /\ UNCHANGED <<server, overran, ssoVars, request, condition, faults, lives>>

Return ==
    /\ main = "returning"
    /\ Vanish
    /\ UNCHANGED <<sso, condition, faults, lives>>

Kill ==
    /\ main # "ended" /\ faults < MaxFaults /\ faults' = faults + 1
    /\ Vanish
    /\ UNCHANGED <<sso, condition, lives>>

\* A new process of rest.
Restart ==
    /\ main = "ended" /\ lives < MaxLives /\ lives' = lives + 1
    /\ main' = "waiting"
    /\ UNCHANGED <<server, overran, channel, sso, rpc, request, condition, faults>>

ShutdownStep ==
    StopDrained \/ StopGivesUp \/ CloseReader \/ StopPprof \/ CloseClient
    \/ CloseStorage \/ Return

-----------------------------------------------------------------------------
(* sso                                                                     *)

Running == {h \in Request : rpc[h] \in {"running", "left"}}

\* net.Listen and Serve.
SsoServe ==
    /\ sso = "starting"
    /\ sso' = "serving"
    /\ UNCHANGED <<restVars, rpc, channel, request, condition, faults, lives>>

\* Health.Check answers without looking at anything; a call of the auth service
\* waits for the database, and fails with it or with the file of the key, which
\* only some calls read.  The answer of a call that was left goes nowhere.
SsoAnswer(h) ==
    /\ h \in Running
    /\ LET isProbe == rpc[h] = "running" /\ request[h].kind = "probe"
           Reply(answer) ==
               rpc' = [rpc EXCEPT ![h] = IF @ = "left" THEN "none" ELSE answer]
       IN \/ /\ isProbe \/ (condition["ssoDatabase"] = "up" /\ sso # "closing")
             /\ Reply("ok")
          \/ /\ ~ isProbe
             /\ \/ condition["ssoDatabase"] = "refusing" \/ sso = "closing"
                \/ condition["ssoKey"] = "refusing"
             /\ Reply("failed")
    /\ UNCHANGED <<restVars, sso, channel, request, condition, faults, lives>>

\* A signal.  If Serve has not been called yet it will return an error after
\* GracefulStop, on which MustRun panics.
SsoSignal ==
    /\ \/ sso \in {"starting", "serving"} /\ sso' = "stopping"
       \/ sso = "starting" /\ sso' = "killed"
    /\ UNCHANGED <<restVars, rpc, channel, request, condition, faults, lives>>

\* Mutant: Stop instead of GracefulStop, with the handlers still running.
SsoStopNoWait ==
    /\ sso = "stopping"
    /\ sso' = "closing"
    /\ UNCHANGED <<restVars, rpc, channel, request, condition, faults, lives>>

\* GracefulStop accepts no call any more and waits, without a limit, for those
\* it has.
SsoDrained ==
    /\ sso = "stopping" /\ Running = {}
    /\ sso' = "closing"
    /\ UNCHANGED <<restVars, rpc, channel, request, condition, faults, lives>>

Dropped ==
    [h \in Request |-> CASE rpc[h] = "running" -> "lost"
                        [] rpc[h] = "left" -> "none"
                        [] OTHER -> rpc[h]]

\* storage.Close, and main returns.
SsoClose ==
    /\ sso = "closing"
    /\ sso' = "exited"
    /\ rpc' = Dropped
    /\ UNCHANGED <<restVars, channel, request, condition, faults, lives>>

\* MustRun panics because it cannot listen or accept, or the process is killed.
SsoDies ==
    /\ sso \in {"starting", "serving", "stopping", "closing"}
    /\ faults < MaxFaults /\ faults' = faults + 1
    /\ sso' = "killed"
    /\ rpc' = Dropped
    /\ UNCHANGED <<restVars, channel, request, condition, lives>>

SsoRestart ==
    /\ sso \in {"exited", "killed"} /\ lives < MaxLives /\ lives' = lives + 1
    /\ sso' = "starting"
    /\ UNCHANGED <<restVars, rpc, channel, request, condition, faults>>

-----------------------------------------------------------------------------
(* The world                                                               *)

\* The back-off of the channel ends; it connects if it can.
Reconnect ==
    /\ channel = "backoff" /\ sso = "serving"
    /\ channel' = "connected"
    /\ UNCHANGED <<restVars, sso, rpc, request, condition, faults, lives>>

\* A backend fails, refusing whoever comes or leaving him without an answer (a
\* file is there or not),
Outage(d) ==
    /\ condition[d] = "up" /\ faults < MaxFaults /\ faults' = faults + 1
    /\ \E c \in {"refusing"} \cup {x \in {"silent"} : d # "ssoKey"} :
          condition' = [condition EXCEPT ![d] = c]
    /\ UNCHANGED <<restVars, ssoVars, request, lives>>

\* and recovers.
Recovery(d) ==
    /\ condition[d] # "up"
    /\ condition' = [condition EXCEPT ![d] = "up"]
    /\ UNCHANGED <<restVars, ssoVars, request, faults, lives>>

\* What may fail a request of each kind: a probe looks at sso but not behind it.
Blame ==
    [probe |-> {"database", "sso", "kafka"}, query |-> {"database"},
     call |-> {"sso", "ssoDatabase", "ssoKey"}, profile |-> {}]

\* Only a probe claims that something works.
Fine(h) ==
    {d \in IF request[h].kind = "probe" THEN Blame.probe ELSE {} :
        IF d = "sso" THEN sso = "serving" ELSE condition[d] = "up"}

Trouble(h) ==
    {d \in Blame[request[h].kind] :
        IF d = "sso" THEN sso # "serving" \/ channel = "backoff"
        ELSE condition[d] # "up"}
    \cup {d \in {"death"} : rpc[h] = "lost" /\ sso = "killed"}

\* A history variable: whatever was fine, or not, in a state the request lived in.
Observe ==
    witness' = [h \in Request |->
        IF Pending(h)'
        THEN [fine |-> witness[h].fine \cup Fine(h)',
              trouble |-> witness[h].trouble \cup Trouble(h)']
        ELSE [fine |-> {}, trouble |-> {}]]

-----------------------------------------------------------------------------

RestStep ==
    \/ \E s \in {"http", "pprof"} : Listen(s) \/ ListenFails(s)
    \/ \E h \in Request :
         \/ \E kind \in Kind : Accept(h, kind)
         \/ Handle(h) \/ Expire(h) \/ Abandon(h)
    \/ Signal \/ ShutdownStep \/ Kill \/ Restart

SsoStep ==
    \/ SsoServe \/ SsoSignal \/ SsoDrained \/ SsoClose \/ SsoDies \/ SsoRestart
    \/ \E h \in Request : SsoAnswer(h)

WorldStep == Reconnect \/ \E d \in Backend : Outage(d) \/ Recovery(d)

Next == (RestStep \/ SsoStep \/ WorldStep) /\ Observe

\* A request goes on, at rest or at sso, or its timer fires; a shutdown that has
\* begun goes on.  No backend has to recover and no process to be started again.
Fairness ==
    /\ \A h \in Request : WF_programVars(Handle(h) \/ Expire(h) \/ SsoAnswer(h))
    /\ WF_programVars(ShutdownStep)
    /\ WF_programVars(SsoDrained \/ SsoClose)

Spec == Init /\ [][Next]_vars /\ Fairness

-----------------------------------------------------------------------------
(* Properties                                                              *)

\* Every variable of the two processes has its type, and a handler never uses
\* more than it has (main of rest and sso, Handler.Ready).
ServiceTypeOK ==
    /\ main \in MainState
    /\ server \in [{"http", "pprof"} -> ServerState]
    /\ overran \subseteq Request
    /\ request \in [Request -> [kind : Kind, step : 0..4, status : Status]]
    /\ \A h \in Request : Pending(h) => request[h].step < Len(Uses[request[h].kind])
    /\ rpc \in [Request -> RpcState]
    /\ channel \in {"connected", "backoff"}
    /\ sso \in SsoState
    /\ condition \in [Backend -> {"up", "refusing", "silent"}]
    /\ faults \in 0..MaxFaults
    /\ lives \in 0..MaxLives

Ends(h, status) == Pending(h) /\ request'[h].status = status

\* A probe that answers 200 has met the database, sso and Kafka each in working
\* order at some moment of it, though perhaps not at the same one
\* (Handler.Ready, the three Check methods).
ReadyIsTrue ==
    [][\A h \in Request :
          request[h].kind = "probe" /\ Ends(h, "ok")
              => Blame.probe \subseteq witness[h].fine]_vars

\* A request fails only with something it uses, never because the shutdown of
\* rest has closed a connection under it, unless application.Stop gave up
\* waiting for it (main, App.Stop).
ErrorsHaveCause ==
    [][\A h \in Request :
          Ends(h, "error") =>
              \/ witness[h].trouble \cap Blame[request[h].kind] # {}
              \/ h \in overran]_vars

\* A call that sso has begun is lost only if the process dies, and fails only
\* with the database or the file of its key: an orderly stop of sso costs nobody
\* a call (GracefulStop, then storage.Close).
AcceptedCallsFinish ==
    \A h \in Request :
        /\ rpc[h] = "lost" => "death" \in witness[h].trouble
        /\ rpc[h] = "failed" =>
               witness[h].trouble \cap {"ssoDatabase", "ssoKey"} # {}

\* Every probe ends, though the database or sso never answers it (the timeout of
\* Handler.Ready), with one exception: the timeout does not reach the last thing
\* it does, so that a broker that accepts the connection and stays silent holds
\* it (KafkaReader.Check, ReadPartitions).
ProbesEnd ==
    \A h \in Request :
        Pending(h) /\ request[h].kind = "probe"
            ~> \/ ~ Pending(h)
               \/ NextUse(h) = "partitions" /\ condition["kafka"] = "silent"

\* Once signalled, rest ends however long its requests take (shutdown timeouts).
ShutdownEnds == main = "stopping" ~> main = "ended"

\* sso ends too, unless its database leaves a call without an answer: nothing
\* bounds that wait (GracefulStop).
SsoStops ==
    sso = "stopping" ~> sso # "stopping" \/ condition["ssoDatabase"] = "silent"
=============================================================================
