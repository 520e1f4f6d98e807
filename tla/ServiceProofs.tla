--------------------------- MODULE ServiceProofs ----------------------------
(***************************************************************************)
(* Proofs about the lives of rest and sso, for any number of concurrent    *)
(* requests, outages and processes.                                        *)
(***************************************************************************)
EXTENDS Service, TLAPS

\* A call at sso belongs to a request that has come to its use of sso, unless its
\* caller has gone.
RpcInv ==
    \A h \in Request :
        /\ rpc[h] \notin {"none", "left"} => Pending(h) /\ NextUse(h) = "sso"
        /\ rpc[h] = "left" => ~ Pending(h)

Stopping ==
    {"stopping", "closingReader", "stoppingPprof", "closingClient",
     "closingStorage", "returning"}

\* A shutdown of rest lets no request in; what is left when Shutdown has
\* returned overran, and nothing survives the process.  A drained sso has no call
\* left.
DrainInv ==
    /\ main \in Stopping => server["http"] = "closed"
    /\ main \in Stopping \ {"stopping"} => PendingAt("http") \subseteq overran
    /\ main = "ended" => \A h \in Request : ~ Pending(h)
    /\ sso = "closing" => Running = {}

\* What a step of the probe shows to be working: that a broker accepts a
\* connection says nothing yet.
Shows ==
    [database |-> {"database"}, sso |-> {"sso"}, broker |-> {},
     partitions |-> {"kafka"}]

\* What the witness of a request has seen: the present, whatever the request has
\* been through, and the reason why its call ended as it did.
WitnessOf(h) ==
    /\ Fine(h) \subseteq witness[h].fine
    /\ Trouble(h) \subseteq witness[h].trouble
    /\ request[h].kind = "probe" =>
         /\ \A i \in 1..request[h].step :
               Shows[Uses["probe"][i]] \subseteq witness[h].fine
         /\ rpc[h] \in {"running", "ok"} => "sso" \in witness[h].fine
    /\ rpc[h] = "lost" => {"sso", "death"} \subseteq witness[h].trouble
    /\ rpc[h] = "failed" =>
         /\ request[h].kind = "call"
         /\ witness[h].trouble \cap {"ssoDatabase", "ssoKey"} # {}

IInv ==
    /\ ServiceTypeOK
    /\ RpcInv
    /\ DrainInv
    /\ \A h \in Request : Pending(h) => WitnessOf(h)

\* What may happen to a request that goes on: it is new, nothing concerns it, it
\* gets on, its call starts, is answered, fails with the database or the key, or
\* is lost.
Goes(h) ==
    \/ request'[h].step = 0 /\ rpc'[h] = "none"
    \/ /\ Pending(h)
       /\ request'[h].kind = request[h].kind
       /\ request'[h].step = request[h].step + 1
       /\ request[h].kind = "probe" => Shows[NextUse(h)] \subseteq witness[h].fine
       /\ rpc'[h] = "none"
    \/ /\ Pending(h) /\ request'[h] = request[h]
       /\ \/ rpc'[h] = rpc[h]
          \/ rpc'[h] = "running" /\ NextUse(h) = "sso" /\ sso = "serving"
          \/ rpc'[h] = "ok" /\ rpc[h] = "running"
          \/ /\ rpc'[h] = "failed" /\ request[h].kind = "call"
             /\ \E d \in {"ssoDatabase", "ssoKey"} : condition'[d] # "up"
          \/ /\ rpc'[h] = "lost" /\ rpc[h] = "running" /\ sso' = "killed"

-----------------------------------------------------------------------------
(* Lemmas on the operators the steps are built from                        *)

\* The things a handler uses are what may be blamed for its failure (Uses,
\* Blame), and only the handlers behind the HTTP server use sso or the database.
LEMMA UsesLemma ==
    ASSUME NEW k \in Kind, NEW i \in 1..Len(Uses[k])
    PROVE  /\ Uses[k][i] \in DOMAIN BackendOf \cup {"sso", "cpu"}
           /\ Uses[k][i] # "cpu" => ServerOf(k) = "http"
           /\ Uses[k][i] \in DOMAIN BackendOf => BackendOf[Uses[k][i]] \in Blame[k]
           /\ Uses[k][i] = "sso" => "sso" \in Blame[k] /\ k \in {"probe", "call"}
  <1>1. CASE k = "probe"
    BY <1>1 DEF Uses, Blame, ServerOf, BackendOf
  <1>2. CASE k = "query"
    BY <1>2 DEF Uses, Blame, ServerOf, BackendOf
  <1>3. CASE k = "call"
    BY <1>3 DEF Uses, Blame, ServerOf, BackendOf
  <1>4. CASE k = "profile"
    BY <1>4 DEF Uses, Blame, ServerOf, BackendOf
  <1> QED  BY <1>1, <1>2, <1>3, <1>4 DEF Kind

\* The probe does four things in a row, and the last of each checker shows that
\* what it looks at works.
LEMMA ProbeUses ==
    /\ Len(Uses["probe"]) = 4
    /\ Uses["probe"][1] = "database" /\ Shows["database"] = {"database"}
    /\ Uses["probe"][2] = "sso" /\ Shows["sso"] = {"sso"}
    /\ Uses["probe"][3] = "broker" /\ Shows["broker"] = {}
    /\ Uses["probe"][4] = "partitions" /\ Shows["partitions"] = {"kafka"}
    /\ Blame.probe = {"database", "sso", "kafka"}
    /\ Blame["probe"] = {"database", "sso", "kafka"}
  BY DEF Uses, Blame, Shows

\* A handler has at least one thing to use, and never more than four.
LEMMA LenLemma ==
    \A k \in Kind : Len(Uses[k]) \in 1..4
  <1> TAKE k \in Kind
  <1>1. CASE k = "probe"
    BY <1>1 DEF Uses
  <1>2. CASE k = "query"
    BY <1>2 DEF Uses
  <1>3. CASE k = "call"
    BY <1>3 DEF Uses
  <1>4. CASE k = "profile"
    BY <1>4 DEF Uses
  <1> QED  BY <1>1, <1>2, <1>3, <1>4 DEF Kind

\* What a pending request uses next is among the things of its kind.
LEMMA NextLemma ==
    ASSUME ServiceTypeOK, NEW h \in Request, Pending(h)
    PROVE  /\ request[h].kind \in Kind
           /\ request[h].step \in 0..3
           /\ request[h].step + 1 \in 1..Len(Uses[request[h].kind])
           /\ NextUse(h) \in DOMAIN BackendOf \cup {"sso", "cpu"}
           /\ NextUse(h) # "cpu" => ServerOf(request[h].kind) = "http"
           /\ NextUse(h) \in DOMAIN BackendOf =>
                BackendOf[NextUse(h)] \in Blame[request[h].kind]
           /\ NextUse(h) = "sso" =>
                "sso" \in Blame[request[h].kind] /\ request[h].kind \in {"probe", "call"}
  <1> DEFINE k == request[h].kind
             i == request[h].step + 1
  <1>1. k \in Kind /\ request[h].step \in 0..4 /\ request[h].step < Len(Uses[k])
    BY DEF ServiceTypeOK
  <1>2. Len(Uses[k]) \in 1..4
    BY <1>1, LenLemma
  <1>3. i \in 1..Len(Uses[k]) /\ request[h].step \in 0..3
    <2>1. ASSUME NEW n \in 1..4, NEW s \in 0..4, s < n
          PROVE  s + 1 \in 1..n /\ s \in 0..3
      BY <2>1
    <2> QED  BY <1>1, <1>2, <2>1, Zenon
  <1>4. /\ Uses[k][i] \in DOMAIN BackendOf \cup {"sso", "cpu"}
        /\ Uses[k][i] # "cpu" => ServerOf(k) = "http"
        /\ Uses[k][i] \in DOMAIN BackendOf => BackendOf[Uses[k][i]] \in Blame[k]
        /\ Uses[k][i] = "sso" => "sso" \in Blame[k] /\ k \in {"probe", "call"}
    BY <1>1, <1>3, UsesLemma
  <1> QED  BY <1>1, <1>3, <1>4 DEF NextUse

\* The witness of a request that goes on has seen what it has been through.
LEMMA WitnessKept ==
    ASSUME IInv, Observe, NEW h \in Request, ServiceTypeOK', RpcInv',
           Pending(h)', Goes(h)
    PROVE  WitnessOf(h)'
  <1> DEFINE w == witness[h]
  <1>1. /\ witness'[h].fine = w.fine \cup Fine(h)'
        /\ witness'[h].trouble = w.trouble \cup Trouble(h)'
    BY DEF Observe
  <1>2. /\ w.fine \subseteq witness'[h].fine
        /\ w.trouble \subseteq witness'[h].trouble
        /\ Fine(h)' \subseteq witness'[h].fine
        /\ Trouble(h)' \subseteq witness'[h].trouble
    BY <1>1
  <1>3. request'[h].kind \in Kind /\ request'[h].step \in 0..4
    BY DEF ServiceTypeOK
  <1>4. CASE request'[h].step = 0 /\ rpc'[h] = "none"
    BY <1>2, <1>4 DEF WitnessOf
  <1>5. CASE /\ Pending(h)
             /\ request'[h].kind = request[h].kind
             /\ request'[h].step = request[h].step + 1
             /\ request[h].kind = "probe" => Shows[NextUse(h)] \subseteq witness[h].fine
             /\ rpc'[h] = "none"
    <2>1. WitnessOf(h)
      BY <1>5 DEF IInv
    <2>2. ASSUME request'[h].kind = "probe", NEW i \in 1..request'[h].step
          PROVE  Shows[Uses["probe"][i]] \subseteq witness'[h].fine
      <3>1. request[h].kind = "probe" /\ request[h].step \in 0..4
        BY <1>5, <2>2 DEF IInv, ServiceTypeOK
      <3>2. CASE i = request[h].step + 1
        BY <1>2, <1>5, <3>1, <3>2 DEF NextUse
      <3>3. CASE i \in 1..request[h].step
        BY <1>2, <2>1, <3>1, <3>3 DEF WitnessOf
      <3> QED  BY <1>5, <3>1, <3>2, <3>3
    <2> QED  BY <1>2, <1>5, <2>2 DEF WitnessOf
  <1>6. ASSUME Pending(h), request'[h] = request[h]
        PROVE  request'[h].kind = "probe" =>
                 \A i \in 1..request'[h].step :
                     Shows[Uses["probe"][i]] \subseteq witness'[h].fine
    BY <1>2, <1>6 DEF IInv, WitnessOf
  <1>7. CASE Pending(h) /\ request'[h] = request[h] /\ rpc'[h] = rpc[h]
    <2>1. WitnessOf(h)
      BY <1>7 DEF IInv
    <2> QED  BY <1>2, <1>6, <1>7, <2>1 DEF WitnessOf
  <1>8. CASE /\ Pending(h) /\ request'[h] = request[h]
             /\ rpc'[h] = "running" /\ NextUse(h) = "sso" /\ sso = "serving"
    <2>1. request[h].kind = "probe" => "sso" \in w.fine
      BY <1>8 DEF IInv, WitnessOf, Fine, Blame
    <2> QED  BY <1>2, <1>6, <1>8, <2>1 DEF WitnessOf
  <1>9. CASE /\ Pending(h) /\ request'[h] = request[h]
             /\ rpc'[h] = "ok" /\ rpc[h] = "running"
    <2>1. request[h].kind = "probe" => "sso" \in w.fine
      BY <1>9 DEF IInv, WitnessOf
    <2> QED  BY <1>2, <1>6, <1>9, <2>1 DEF WitnessOf
  <1>10. CASE /\ Pending(h) /\ request'[h] = request[h]
              /\ rpc'[h] = "failed" /\ request[h].kind = "call"
              /\ \E d \in {"ssoDatabase", "ssoKey"} : condition'[d] # "up"
    <2>1. Trouble(h)' \cap {"ssoDatabase", "ssoKey"} # {}
      BY <1>10 DEF Trouble, Blame
    <2> QED  BY <1>2, <1>10, <2>1 DEF WitnessOf
  <1>11. CASE /\ Pending(h) /\ request'[h] = request[h]
              /\ rpc'[h] = "lost" /\ rpc[h] = "running" /\ sso' = "killed"
    <2>1. request'[h].kind \in {"probe", "call"}
      BY <1>11, NextLemma DEF IInv, RpcInv
    <2>2. "sso" \in Blame[request'[h].kind]
      BY <2>1 DEF Blame
    <2>3. {"sso", "death"} \subseteq Trouble(h)'
      BY <1>11, <2>2 DEF Trouble
    <2> QED  BY <1>2, <1>6, <1>11, <2>3 DEF WitnessOf
  <1> QED  BY <1>4, <1>5, <1>7, <1>8, <1>9, <1>10, <1>11 DEF Goes

-----------------------------------------------------------------------------
(* What every step of rest, sso and the world keeps                        *)

RequestType == [kind : Kind, step : 0..4, status : Status]

\* All a step owes besides the observation that goes with it.
Kept ==
    /\ ServiceTypeOK'
    /\ RpcInv'
    /\ DrainInv'
    /\ \A h \in Request : Pending(h)' => Goes(h)

\* A request that ends leaves its slot free, and the others as they are.
LEMMA AnsweredLemma ==
    ASSUME ServiceTypeOK, NEW h \in Request, NEW status \in Status \ {"pending"},
           request' = Answered(h, status)
    PROVE  /\ request' \in [Request -> RequestType]
           /\ \A g \in Request : g # h => request'[g] = request[g]
           /\ ~ Pending(h)' /\ request'[h].status = status
           /\ \A g \in Request :
                Pending(g)' => request'[g].step < Len(Uses[request'[g].kind])
  <1>1. Free(status) \in RequestType /\ Free(status).status = status
    BY DEF Free, RequestType, Kind, Status
  <1>2. request \in [Request -> RequestType]
    BY DEF ServiceTypeOK, RequestType
  <1>3. /\ request' \in [Request -> RequestType]
        /\ \A g \in Request : g # h => request'[g] = request[g]
        /\ request'[h] = Free(status)
    BY <1>1, <1>2 DEF Answered
  <1>4. ~ Pending(h)' /\ request'[h].status = status
    BY <1>1, <1>3 DEF Pending
  <1>5. ASSUME NEW g \in Request, Pending(g)'
        PROVE  request'[g].step < Len(Uses[request'[g].kind])
    <2>1. g # h /\ request'[g] = request[g]
      BY <1>3, <1>4, <1>5
    <2>2. Pending(g)
      BY <1>5, <2>1 DEF Pending
    <2> QED  BY <2>1, <2>2 DEF ServiceTypeOK
  <1> QED  BY <1>3, <1>4, <1>5

\* One thing done: the request ends well or gets on to its next use.
LEMMA AdvancedLemma ==
    ASSUME ServiceTypeOK, NEW h \in Request, Pending(h), request' = Advanced(h)
    PROVE  /\ request' \in [Request -> RequestType]
           /\ \A g \in Request : g # h => request'[g] = request[g]
           /\ \A g \in Request :
                Pending(g)' => request'[g].step < Len(Uses[request'[g].kind])
           /\ Pending(h)' => /\ request'[h].kind = request[h].kind
                             /\ request'[h].step = request[h].step + 1
           /\ ~ Pending(h)' => /\ request'[h].status = "ok"
                               /\ request[h].step + 1
                                    = Len(Uses[request[h].kind])
  <1> DEFINE last == request[h].step + 1 = Len(Uses[request[h].kind])
  <1>1. CASE last
    <2>1. request' = Answered(h, "ok")
      BY <1>1 DEF Advanced
    <2>2. "ok" \in Status \ {"pending"}
      BY DEF Status
    <2> QED  BY <1>1, <2>1, <2>2, AnsweredLemma
  <1>2. CASE ~ last
    <2>1. request' = [request EXCEPT ![h].step = @ + 1]
      BY <1>2 DEF Advanced
    <2>2. /\ request \in [Request -> RequestType]
          /\ request[h].step \in 0..3 /\ request[h].kind \in Kind
          /\ request[h].step + 1 \in 1..Len(Uses[request[h].kind])
      BY NextLemma DEF ServiceTypeOK, RequestType
    <2>3. [request[h] EXCEPT !.step = @ + 1] \in RequestType
      BY <2>2 DEF RequestType
    <2>4. /\ request' \in [Request -> RequestType]
          /\ \A g \in Request : g # h => request'[g] = request[g]
          /\ request'[h] = [request[h] EXCEPT !.step = @ + 1]
      BY <2>1, <2>2, <2>3
    <2>5. /\ request'[h].kind = request[h].kind
          /\ request'[h].step = request[h].step + 1
          /\ request'[h].status = "pending"
      BY <2>2, <2>4 DEF RequestType, Pending
    <2>6. request'[h].step < Len(Uses[request'[h].kind])
      <3>1. Len(Uses[request[h].kind]) \in 1..4
        BY <2>2, LenLemma
      <3>2. ASSUME NEW n \in 1..4, NEW t \in 0..3, t + 1 \in 1..n, t + 1 # n
            PROVE  t + 1 < n
        BY <3>2
      <3> QED  BY <1>2, <2>2, <2>5, <3>1, <3>2, Zenon
    <2>7. ASSUME NEW g \in Request, Pending(g)', g # h
          PROVE  request'[g].step < Len(Uses[request'[g].kind])
      <3>1. request'[g] = request[g] /\ Pending(g)
        BY <2>4, <2>7 DEF Pending
      <3> QED  BY <3>1 DEF ServiceTypeOK
    <2> QED  BY <2>4, <2>5, <2>6, <2>7 DEF Pending
  <1> QED  BY <1>1, <1>2

\* Of the requests that wait no longer nothing is left at sso, or a call that
\* goes on without its caller.
LEMMA StopWaitingLemma ==
    ASSUME ServiceTypeOK, NEW S \in SUBSET Request, StopWaiting(S)
    PROVE  /\ rpc' \in [Request -> RpcState]
           /\ \A g \in Request \ S : rpc'[g] = rpc[g]
           /\ \A g \in S :
                \/ rpc'[g] = "none"
                \/ rpc'[g] = "left" /\ g \in Running
           /\ \A g \in S : rpc'[g] = "left" => rpc[g] \in {"left", "running"}
  <1>1. PICK left \in SUBSET {h \in S : rpc[h] = "running" /\ request[h].kind = "call"} :
            rpc' = [h \in Request |->
                IF h \in left THEN "left"
                ELSE IF h \in S /\ rpc[h] # "left" THEN "none" ELSE rpc[h]]
    BY DEF StopWaiting
  <1>2. rpc \in [Request -> RpcState]
    BY DEF ServiceTypeOK
  <1>3. {"none", "left"} \subseteq RpcState
    BY DEF RpcState
  <1>4. \A g \in Request :
          rpc'[g] = IF g \in left THEN "left"
                    ELSE IF g \in S /\ rpc[g] # "left" THEN "none" ELSE rpc[g]
    BY <1>1
  <1>5. rpc' \in [Request -> RpcState]
    BY <1>1, <1>2, <1>3
  <1> QED  BY <1>1, <1>4, <1>5 DEF Running

\* Steps that leave the requests and their calls alone.
LEMMA RequestsAlone ==
    ASSUME IInv, UNCHANGED <<request, rpc>>
    PROVE  /\ RpcInv'
           /\ \A h \in Request : Pending(h)' => Pending(h) /\ Goes(h)
           /\ request' \in [Request -> RequestType]
           /\ PendingAt("http")' = PendingAt("http")
           /\ Running' = Running
  BY DEF IInv, ServiceTypeOK, RequestType, RpcInv, Goes, Pending, NextUse,
         PendingAt, Running

-----------------------------------------------------------------------------
(* The steps of main, of sso and of the world that leave the requests alone *)

\* The servers of rest, started and stopped.
LEMMA ServersKeep ==
    ASSUME ServiceAssumption, IInv,
           \/ \E s \in {"http", "pprof"} : Listen(s) \/ ListenFails(s)
           \/ Signal \/ CloseReader
    PROVE  Kept
  <1>1. UNCHANGED <<request, rpc>>
    BY DEF Listen, ListenFails, Signal, CloseReader, ssoVars
  <1>2. /\ RpcInv'
        /\ \A h \in Request : Pending(h)' => Pending(h) /\ Goes(h)
        /\ request' \in [Request -> RequestType]
        /\ PendingAt("http")' = PendingAt("http")
        /\ Running' = Running
    BY <1>1, RequestsAlone
  <1>3. ServiceTypeOK'
    <2>1. \A h \in Request :
            Pending(h)' => request'[h].step < Len(Uses[request'[h].kind])
      BY <1>1, <1>2 DEF IInv, ServiceTypeOK
    <2>2. /\ main' \in MainState
          /\ server' \in [{"http", "pprof"} -> ServerState]
          /\ overran' \subseteq Request /\ UNCHANGED <<rpc, channel, sso>>
          /\ UNCHANGED <<condition, lives>>
          /\ faults' \in 0..MaxFaults
      BY DEF IInv, ServiceTypeOK, Listen, ListenFails, Signal, CloseReader,
             Shut, MainState, ServerState, ssoVars, ServiceAssumption
    <2> QED  BY <1>2, <2>1, <2>2 DEF IInv, ServiceTypeOK, RequestType
  <1>4. DrainInv'
    <2>1. main' \in Stopping => server'["http"] = "closed"
      BY DEF IInv, ServiceTypeOK, DrainInv, Stopping, Listen, ListenFails,
             Signal, CloseReader, Shut
    <2>2. main' \in Stopping \ {"stopping"} => PendingAt("http") \subseteq overran'
      BY DEF IInv, ServiceTypeOK, DrainInv, Stopping, Listen, ListenFails,
             Signal, CloseReader, Shut
    <2>3. sso' = sso
      BY DEF Listen, ListenFails, Signal, CloseReader, ssoVars
    <2>4. main' # "ended"
      BY DEF Listen, ListenFails, Signal, CloseReader
    <2> QED  BY <1>2, <2>1, <2>2, <2>3, <2>4 DEF IInv, DrainInv
  <1> QED  BY <1>2, <1>3, <1>4 DEF Kept

\* The other steps of main.
LEMMA MainKeeps ==
    ASSUME ServiceAssumption, IInv,
           \/ StopDrained \/ StopGivesUp \/ StopPprof \/ CloseClient
           \/ CloseStorage \/ Restart
    PROVE  Kept
  <1> USE DEF StopDrained, StopGivesUp, StopPprof, CloseClient, CloseStorage,
              Restart, ssoVars
  <1>1. UNCHANGED <<request, rpc>>
    OBVIOUS
  <1>2. /\ RpcInv'
        /\ \A h \in Request : Pending(h)' => Pending(h) /\ Goes(h)
        /\ request' \in [Request -> RequestType]
        /\ PendingAt("http")' = PendingAt("http")
        /\ Running' = Running
    BY <1>1, RequestsAlone
  <1>3. ServiceTypeOK'
    <2>1. \A h \in Request :
            Pending(h)' => request'[h].step < Len(Uses[request'[h].kind])
      BY <1>1, <1>2 DEF IInv, ServiceTypeOK
    <2>2. /\ main' \in MainState
          /\ overran' \subseteq Request
          /\ UNCHANGED <<server, rpc, channel, sso, condition, faults>>
          /\ lives' \in 0..MaxLives
      BY DEF IInv, ServiceTypeOK, MainState, PendingAt, ServiceAssumption
    <2> QED  BY <1>2, <2>1, <2>2 DEF IInv, ServiceTypeOK, RequestType
  <1>4. DrainInv'
    <2>1. main' \in Stopping => server'["http"] = "closed"
      BY DEF IInv, DrainInv, Stopping
    <2>2. main' \in Stopping \ {"stopping"} => PendingAt("http") \subseteq overran'
      BY DEF IInv, DrainInv, Stopping
    <2>3. sso' = sso
      OBVIOUS
    <2> QED  BY <1>2, <2>1, <2>2, <2>3 DEF IInv, DrainInv
  <1> QED  BY <1>2, <1>3, <1>4 DEF Kept

\* The process of sso without its calls, and the world.
LEMMA WorldKeeps ==
    ASSUME ServiceAssumption, IInv,
           \/ SsoServe \/ SsoSignal \/ SsoDrained \/ SsoRestart
           \/ Reconnect \/ \E d \in Backend : Outage(d) \/ Recovery(d)
    PROVE  Kept
  <1> USE DEF SsoServe, SsoSignal, SsoDrained, SsoRestart, Reconnect, Outage,
              Recovery, restVars, ssoVars
  <1>1. UNCHANGED <<request, rpc, main, server, overran>>
    OBVIOUS
  <1>2. /\ RpcInv'
        /\ \A h \in Request : Pending(h)' => Pending(h) /\ Goes(h)
        /\ request' \in [Request -> RequestType]
        /\ PendingAt("http")' = PendingAt("http")
        /\ Running' = Running
    BY <1>1, RequestsAlone
  <1>3. ServiceTypeOK'
    <2>1. \A h \in Request :
            Pending(h)' => request'[h].step < Len(Uses[request'[h].kind])
      BY <1>1, <1>2 DEF IInv, ServiceTypeOK
    <2>2. /\ channel' \in {"connected", "backoff"}
          /\ sso' \in SsoState
          /\ condition' \in [Backend -> {"up", "refusing", "silent"}]
      BY DEF IInv, ServiceTypeOK, SsoState, Backend
    <2>3. faults' \in 0..MaxFaults /\ lives' \in 0..MaxLives
      BY DEF IInv, ServiceTypeOK, ServiceAssumption
    <2> QED  BY <1>1, <1>2, <2>1, <2>2, <2>3 DEF IInv, ServiceTypeOK, RequestType
  <1>4. DrainInv'
    <2>1. sso' = "closing" => Running = {}
      BY DEF IInv, DrainInv
    <2> QED  BY <1>1, <1>2, <2>1 DEF IInv, DrainInv
  <1> QED  BY <1>2, <1>3, <1>4 DEF Kept

-----------------------------------------------------------------------------
(* The steps of a request                                                  *)

\* Steps of one request that ends, or gets on when its use was fine; its call, if
\* it had one, is over.
LEMMA RequestKeeps ==
    ASSUME IInv, NEW h \in Request, Pending(h),
           UNCHANGED <<restVars, sso, condition, faults, lives>>,
           channel' \in {"connected", "backoff"},
           \/ \E status \in Status \ {"pending"} : request' = Answered(h, status)
           \/ /\ request' = Advanced(h)
              /\ request[h].kind = "probe" => Shows[NextUse(h)] \subseteq witness[h].fine,
           rpc' \in [Request -> RpcState],
           \A g \in Request \ {h} : rpc'[g] = rpc[g],
           rpc'[h] = "none" \/ (rpc'[h] = "left" /\ h \in Running /\ ~ Pending(h)')
    PROVE  Kept
  <1>1. /\ request' \in [Request -> RequestType]
        /\ \A g \in Request : g # h => request'[g] = request[g]
        /\ \A g \in Request :
             Pending(g)' => request'[g].step < Len(Uses[request'[g].kind])
        /\ Pending(h)' => /\ request'[h].kind = request[h].kind
                          /\ request'[h].step = request[h].step + 1
                          /\ request[h].kind = "probe" =>
                               Shows[NextUse(h)] \subseteq witness[h].fine
    BY AnsweredLemma, AdvancedLemma DEF IInv
  <1>2. /\ Pending(h)' => rpc'[h] = "none"
        /\ rpc'[h] \in {"none", "left"}
        /\ \A g \in Request : g # h => rpc'[g] = rpc[g]
    OBVIOUS
  <1>3. UNCHANGED <<main, server, overran, sso, condition, faults, lives>>
    BY DEF restVars
  <1>4. ServiceTypeOK'
    BY <1>1, <1>2, <1>3 DEF IInv, ServiceTypeOK, RequestType
  <1>5. RpcInv'
    <2> SUFFICES ASSUME NEW g \in Request
                 PROVE  /\ rpc'[g] \notin {"none", "left"} =>
                             Pending(g)' /\ NextUse(g)' = "sso"
                        /\ rpc'[g] = "left" => ~ Pending(g)'
      BY DEF RpcInv
    <2>1. CASE g = h
      BY <1>2, <2>1
    <2>2. CASE g # h
      BY <1>1, <1>2, <2>2 DEF IInv, RpcInv, Pending, NextUse
    <2> QED  BY <2>1, <2>2
  <1>6. DrainInv'
    <2>1. PendingAt("http")' \subseteq PendingAt("http")
      BY <1>1 DEF PendingAt, Pending
    <2>2. Running' \subseteq Running
      BY <1>2 DEF Running
    <2> QED  BY <1>3, <2>1, <2>2 DEF IInv, DrainInv
  <1>7. ASSUME NEW g \in Request, Pending(g)'
        PROVE  Goes(g)
    <2>1. CASE g = h
      BY <1>1, <1>2, <1>7, <2>1 DEF Goes
    <2>2. CASE g # h
      BY <1>1, <1>2, <1>7, <2>2 DEF Goes, Pending
    <2> QED  BY <2>1, <2>2
  <1> QED  BY <1>4, <1>5, <1>6, <1>7 DEF Kept

\* A request is accepted while its server listens, which a stopping one does not.
LEMMA AcceptKeeps ==
    ASSUME IInv, NEW h \in Request, NEW kind \in Kind, Accept(h, kind)
    PROVE  Kept
  <1> DEFINE new == [kind |-> kind, step |-> 0, status |-> "pending"]
  <1>1. /\ ~ Pending(h) /\ request' = [request EXCEPT ![h] = new]
        /\ server[ServerOf(kind)] = "listening"
        /\ UNCHANGED <<main, server, overran, sso, rpc, channel, condition,
                       faults, lives>>
    BY DEF Accept, restVars, ssoVars
  <1>2. new \in RequestType
    BY DEF RequestType, Status
  <1>3. /\ request' \in [Request -> RequestType]
        /\ request'[h] = new
        /\ \A g \in Request : g # h => request'[g] = request[g]
    BY <1>1, <1>2 DEF IInv, ServiceTypeOK, RequestType
  <1>4. ASSUME NEW g \in Request, Pending(g)'
        PROVE  request'[g].step < Len(Uses[request'[g].kind])
    <2>1. CASE g = h
      BY <1>3, <2>1, LenLemma, SMTT(30)
    <2>2. CASE g # h
      BY <1>3, <1>4, <2>2 DEF IInv, ServiceTypeOK, Pending
    <2> QED  BY <2>1, <2>2
  <1>5. ServiceTypeOK'
    BY <1>1, <1>3, <1>4 DEF IInv, ServiceTypeOK, RequestType
  <1>6. rpc[h] = "none"
    BY DEF Accept
  <1>7. RpcInv'
    BY <1>1, <1>3, <1>6 DEF IInv, RpcInv, Pending, NextUse
  <1>8. DrainInv'
    <2>1. main \in Stopping => ServerOf(kind) # "http"
      BY <1>1 DEF IInv, DrainInv
    <2>2. main \in Stopping => PendingAt("http")' \subseteq PendingAt("http")
      BY <1>3, <2>1 DEF PendingAt, Pending
    <2>3. Running' = Running
      BY <1>1 DEF Running
    <2>4. main' # "ended"
      BY <1>1 DEF Accept
    <2> QED  BY <1>1, <2>2, <2>3, <2>4 DEF IInv, DrainInv
  <1>9. ASSUME NEW g \in Request, Pending(g)'
        PROVE  Goes(g)
    <2>1. CASE g = h
      BY <1>1, <1>3, <1>6, <2>1 DEF Goes
    <2>2. CASE g # h
      BY <1>1, <1>3, <1>9, <2>2 DEF Goes, Pending
    <2> QED  BY <2>1, <2>2
  <1> QED  BY <1>5, <1>7, <1>8, <1>9 DEF Kept

\* Steps that change only calls, of which each keeps its request.
LEMMA CallsKeep ==
    ASSUME IInv,
           rpc' \in [Request -> RpcState],
           \A g \in Request :
               /\ rpc'[g] \notin {"none", "left"} => Pending(g) /\ NextUse(g) = "sso"
               /\ rpc'[g] = "left" => ~ Pending(g),
           \A g \in Request : Pending(g) => Goes(g),
           UNCHANGED <<restVars, request, condition, lives, channel>>,
           sso' \in SsoState, faults' \in 0..MaxFaults,
           sso' = "closing" => Running' = {}
    PROVE  Kept
  <1>1. UNCHANGED <<main, server, overran, request, condition, lives, channel>>
    BY DEF restVars
  <1>2. ServiceTypeOK'
    BY <1>1 DEF IInv, ServiceTypeOK, Pending
  <1>3. RpcInv'
    BY <1>1 DEF RpcInv, Pending, NextUse
  <1>4. PendingAt("http")' = PendingAt("http")
    BY <1>1 DEF PendingAt, Pending
  <1>5. DrainInv'
    BY <1>1, <1>4 DEF IInv, DrainInv, Pending
  <1> QED  BY <1>1, <1>2, <1>3, <1>5 DEF Kept, Pending

\* What a probe is about to tick off works, and its witness has seen it (Use on a
\* backend that is up, ReceiveRpc of an answer).
LEMMA UseIsFine ==
    ASSUME IInv, NEW h \in Request, Pending(h), request[h].kind = "probe",
           \/ /\ Use(h)
              /\ NextUse(h) = "broker" \/ ConditionOf(NextUse(h)) = "up"
           \/ rpc[h] = "ok"
    PROVE  Shows[NextUse(h)] \subseteq witness[h].fine
  <1>1. WitnessOf(h)
    BY DEF IInv
  <1>2. CASE Use(h) /\ (NextUse(h) = "broker" \/ ConditionOf(NextUse(h)) = "up")
    <2>1. NextUse(h) \in {"database", "broker", "partitions"}
      <3>1. request[h].step + 1 \in 1..4
        BY NextLemma, ProbeUses DEF IInv
      <3>2. NextUse(h) # "sso"
        BY <1>2 DEF Use
      <3> QED  BY <3>1, <3>2, ProbeUses DEF NextUse
    <2>2. CASE NextUse(h) = "broker"
      BY <2>2, ProbeUses
    <2>3. CASE NextUse(h) \in {"database", "partitions"}
      <3>1. Shows[NextUse(h)] \subseteq Fine(h)
        BY <1>2, <2>3 DEF Fine, Blame, ConditionOf, Shows, BackendOf
      <3> QED  BY <1>1, <3>1 DEF WitnessOf
    <2> QED  BY <2>1, <2>2, <2>3
  <1>3. CASE rpc[h] = "ok"
    BY <1>1, <1>3, ProbeUses DEF IInv, RpcInv, WitnessOf
  <1> QED  BY <1>2, <1>3

\* Everything a request does itself at rest.
LEMMA HandlerKeeps ==
    ASSUME IInv, NEW h \in Request,
           Use(h) \/ SendRpc(h) \/ ReceiveRpc(h) \/ Expire(h) \/ Abandon(h)
    PROVE  Kept
  <1>1. Pending(h)
    BY DEF Use, SendRpc, ReceiveRpc, Expire, Abandon, Cancel
  <1>2. /\ channel \in {"connected", "backoff"}
        /\ {"ok", "error", "cancelled"} \subseteq Status \ {"pending"}
        /\ WitnessOf(h)
    BY <1>1 DEF IInv, ServiceTypeOK, Status
  <1>3. CASE Use(h)
    <2>1. rpc[h] = "none"
      BY <1>3 DEF IInv, RpcInv, Use
    <2>2. /\ rpc' \in [Request -> RpcState] /\ rpc'[h] = "none"
          /\ \A g \in Request \ {h} : rpc'[g] = rpc[g]
      BY <1>3, <2>1 DEF Use, ssoVars, IInv, ServiceTypeOK
    <2>3. request[h].kind = "probe"
            /\ (NextUse(h) = "broker" \/ ConditionOf(NextUse(h)) = "up")
            => Shows[NextUse(h)] \subseteq witness[h].fine
      BY <1>1, <1>3, UseIsFine
    <2>4. \/ request' = Answered(h, "error")
          \/ /\ request' = Advanced(h)
             /\ NextUse(h) = "broker" \/ ConditionOf(NextUse(h)) = "up"
      BY <1>3, Zenon DEF Use
    <2>5. UNCHANGED <<restVars, sso, channel, condition, faults, lives>>
      BY <1>3 DEF Use, ssoVars
    <2> QED  BY <1>1, <1>2, <2>2, <2>3, <2>4, <2>5, RequestKeeps
  <1>4. CASE SendRpc(h)
    <2>1. CASE rpc' = [rpc EXCEPT ![h] = "running"] /\ sso = "serving"
               /\ UNCHANGED <<channel, request>>
      <3>1. /\ rpc' \in [Request -> RpcState]
            /\ rpc'[h] = "running"
            /\ \A g \in Request : g # h => rpc'[g] = rpc[g]
        BY <2>1 DEF IInv, ServiceTypeOK, RpcState
      <3>2. NextUse(h) = "sso"
            /\ UNCHANGED <<restVars, sso, condition, faults, lives>>
        BY <1>4 DEF SendRpc
      <3>3. \A g \in Request :
              /\ rpc'[g] \notin {"none", "left"} => Pending(g) /\ NextUse(g) = "sso"
              /\ rpc'[g] = "left" => ~ Pending(g)
        BY <1>1, <3>1, <3>2 DEF IInv, RpcInv
      <3>4. \A g \in Request : Pending(g) => Goes(g)
        BY <2>1, <3>1, <3>2 DEF Goes
      <3>5. sso' \in SsoState /\ faults' \in 0..MaxFaults /\ sso' # "closing"
        BY <2>1, <3>2 DEF IInv, ServiceTypeOK
      <3> QED  BY <2>1, <3>1, <3>2, <3>3, <3>4, <3>5, CallsKeep
    <2>2. CASE request' = Answered(h, "error") /\ UNCHANGED rpc
               /\ channel' = IF ClientClosed THEN channel ELSE "backoff"
      <3>1. /\ rpc' \in [Request -> RpcState] /\ rpc'[h] = "none"
            /\ \A g \in Request \ {h} : rpc'[g] = rpc[g]
        BY <1>4, <2>2 DEF SendRpc, IInv, ServiceTypeOK
      <3>2. UNCHANGED <<restVars, sso, condition, faults, lives>>
        BY <1>4 DEF SendRpc
      <3>3. channel' \in {"connected", "backoff"}
        BY <1>2, <2>2
      <3> QED  BY <1>1, <1>2, <2>2, <3>1, <3>2, <3>3, RequestKeeps
    <2> QED  BY <1>4, <2>1, <2>2, Zenon DEF SendRpc
  <1>5. CASE ReceiveRpc(h)
    <2>1. \/ request' = Advanced(h) /\ rpc[h] = "ok"
          \/ request' = Answered(h, "error")
      BY <1>5 DEF ReceiveRpc
    <2>2. /\ StopWaiting({h})
          /\ UNCHANGED <<restVars, sso, channel, condition, faults, lives>>
      BY <1>5 DEF ReceiveRpc
    <2>3. rpc[h] = "ok" /\ request[h].kind = "probe"
            => Shows[NextUse(h)] \subseteq witness[h].fine
      BY <1>1, UseIsFine
    <2>4. /\ rpc' \in [Request -> RpcState]
          /\ \A g \in Request \ {h} : rpc'[g] = rpc[g]
          /\ \/ rpc'[h] = "none"
             \/ rpc'[h] = "left" /\ h \in Running /\ rpc[h] # "ok"
      BY <2>2, StopWaitingLemma DEF IInv
    <2>5. CASE request' = Advanced(h) /\ rpc[h] = "ok"
      BY <1>1, <1>2, <2>2, <2>3, <2>4, <2>5, RequestKeeps
    <2>6. CASE request' = Answered(h, "error")
      <3>1. ~ Pending(h)'
        BY <1>2, <2>6, AnsweredLemma DEF IInv
      <3> QED  BY <1>1, <1>2, <2>2, <2>4, <2>6, <3>1, RequestKeeps
    <2> QED  BY <2>1, <2>5, <2>6
  <1>6. CASE Expire(h) \/ Abandon(h)
    <2>1. /\ request' = Answered(h, "cancelled")
          /\ StopWaiting({h})
          /\ UNCHANGED <<restVars, sso, channel, condition, faults, lives>>
      BY <1>6 DEF Expire, Abandon, Cancel
    <2>2. /\ rpc' \in [Request -> RpcState]
          /\ \A g \in Request \ {h} : rpc'[g] = rpc[g]
          /\ rpc'[h] = "none" \/ (rpc'[h] = "left" /\ h \in Running)
      BY <2>1, StopWaitingLemma DEF IInv
    <2>3. ~ Pending(h)'
      BY <1>2, <2>1, AnsweredLemma DEF IInv
    <2> QED  BY <1>1, <1>2, <2>1, <2>2, <2>3, RequestKeeps
  <1> QED  BY <1>3, <1>4, <1>5, <1>6

\* sso ends calls, by an answer or with its process.
LEMMA SsoKeeps ==
    ASSUME ServiceAssumption, IInv,
           SsoClose \/ SsoDies \/ \E h \in Request : SsoAnswer(h)
    PROVE  Kept
  <1>1. ASSUME NEW h \in Request, SsoAnswer(h)
        PROVE  Kept
    <2>1. /\ h \in Running
          /\ UNCHANGED <<restVars, sso, channel, request, condition, faults, lives>>
      BY <1>1, Zenon DEF SsoAnswer
    <2>2. sso # "closing"
      BY <2>1 DEF IInv, DrainInv
    <2>3. \/ rpc[h] = "left" /\ rpc' = [rpc EXCEPT ![h] = "none"]
          \/ rpc[h] = "running" /\ rpc' = [rpc EXCEPT ![h] = "ok"]
          \/ /\ rpc[h] = "running" /\ rpc' = [rpc EXCEPT ![h] = "failed"]
             /\ request[h].kind # "probe"
             /\ \E d \in {"ssoDatabase", "ssoKey"} : condition[d] = "refusing"
      BY <1>1, <2>2 DEF SsoAnswer, Running, IInv, ServiceTypeOK
    <2>4. /\ rpc' \in [Request -> RpcState]
          /\ \A g \in Request : g # h => rpc'[g] = rpc[g]
          /\ \/ rpc[h] = "left" /\ rpc'[h] = "none"
             \/ rpc[h] = "running" /\ rpc'[h] = "ok"
             \/ /\ rpc[h] = "running" /\ rpc'[h] = "failed"
                /\ request[h].kind # "probe"
                /\ \E d \in {"ssoDatabase", "ssoKey"} : condition[d] = "refusing"
      BY <2>3 DEF IInv, ServiceTypeOK, RpcState
    <2>5. \A g \in Request :
            /\ rpc'[g] \notin {"none", "left"} => Pending(g) /\ NextUse(g) = "sso"
            /\ rpc'[g] = "left" => ~ Pending(g)
      BY <2>4 DEF IInv, RpcInv
    <2>6. ASSUME NEW g \in Request, Pending(g)
          PROVE  Goes(g)
      <3>1. CASE g = h
        <4>1. rpc[h] = "running" /\ NextUse(h) = "sso"
          BY <2>4, <2>6, <3>1 DEF IInv, RpcInv
        <4>2. request[h].kind \in {"probe", "call"}
          BY <2>6, <3>1, <4>1, NextLemma DEF IInv
        <4>3. \/ rpc'[h] = "ok"
              \/ /\ rpc'[h] = "failed" /\ request[h].kind = "call"
                 /\ \E d \in {"ssoDatabase", "ssoKey"} : condition'[d] # "up"
          BY <2>1, <2>4, <4>1, <4>2
        <4> QED  BY <2>1, <2>6, <3>1, <4>1, <4>3 DEF Goes
      <3>2. CASE g # h
        BY <2>1, <2>4, <2>6, <3>2 DEF Goes
      <3> QED  BY <3>1, <3>2
    <2>7. sso' \in SsoState /\ faults' \in 0..MaxFaults /\ sso' # "closing"
      BY <2>1, <2>2 DEF IInv, ServiceTypeOK
    <2> QED  BY <2>1, <2>4, <2>5, <2>6, <2>7, CallsKeep
  <1>2. CASE SsoClose \/ SsoDies
    <2>1. /\ rpc' = Dropped
          /\ UNCHANGED <<restVars, channel, request, condition, lives>>
      BY <1>2 DEF SsoClose, SsoDies
    <2>2. /\ rpc' \in [Request -> RpcState]
          /\ \A g \in Request :
               rpc'[g] = IF rpc[g] = "running" THEN "lost"
                         ELSE IF rpc[g] = "left" THEN "none" ELSE rpc[g]
      BY <2>1 DEF Dropped, IInv, ServiceTypeOK, RpcState
    <2>3. \A g \in Request :
            /\ rpc'[g] \notin {"none", "left"} => Pending(g) /\ NextUse(g) = "sso"
            /\ rpc'[g] = "left" => ~ Pending(g)
      BY <2>2 DEF IInv, RpcInv
    <2>4. ASSUME NEW g \in Request, rpc[g] = "running"
          PROVE  sso' = "killed"
      BY <1>2, <2>4 DEF SsoClose, SsoDies, IInv, DrainInv, Running
    <2>5. \A g \in Request : Pending(g) => Goes(g)
      BY <2>1, <2>2, <2>4 DEF Goes, IInv, RpcInv
    <2>6. sso' \in SsoState /\ faults' \in 0..MaxFaults /\ sso' # "closing"
      BY <1>2 DEF SsoClose, SsoDies, IInv, ServiceTypeOK, SsoState,
                  ServiceAssumption
    <2> QED  BY <2>1, <2>2, <2>3, <2>5, <2>6, CallsKeep
  <1> QED  BY <1>1, <1>2

\* With the process of rest all its requests and calls are gone.
LEMMA VanishKeeps ==
    ASSUME ServiceAssumption, IInv, Return \/ Kill
    PROVE  Kept
  <1>1. /\ Vanish /\ UNCHANGED <<sso, condition, lives>>
        /\ faults' \in 0..MaxFaults
    BY DEF Return, Kill, IInv, ServiceTypeOK, ServiceAssumption
  <1>2. Free("cancelled") \in RequestType /\ Free("cancelled").status = "cancelled"
    BY DEF Free, RequestType, Kind, Status
  <1>3. /\ request' \in [Request -> RequestType]
        /\ \A h \in Request : ~ Pending(h)'
    BY <1>1, <1>2 DEF Vanish, Pending, IInv, ServiceTypeOK, RequestType
  <1>4. /\ main' = "ended" /\ overran' = {}
        /\ channel' = "connected"
        /\ server' \in [{"http", "pprof"} -> ServerState]
    BY <1>1 DEF Vanish, ServerState
  <1>5. /\ rpc' \in [Request -> RpcState]
        /\ \A h \in Request : rpc'[h] = "none" \/ (rpc'[h] = "left" /\ h \in Running)
    <2>1. StopWaiting(Request)
      BY <1>1 DEF Vanish
    <2> QED  BY <2>1, StopWaitingLemma DEF IInv
  <1>6. ServiceTypeOK'
    BY <1>1, <1>3, <1>4, <1>5 DEF IInv, ServiceTypeOK, MainState, RequestType
  <1>7. DrainInv'
    <2>1. Running' \subseteq Running
      BY <1>5 DEF Running
    <2> QED  BY <1>1, <1>3, <1>4, <2>1 DEF IInv, DrainInv, Stopping
  <1>8. RpcInv'
    BY <1>3, <1>5 DEF RpcInv
  <1> QED  BY <1>3, <1>6, <1>7, <1>8 DEF Kept

\* Every step keeps what Kept says.
LEMMA NextKeeps ==
    ASSUME ServiceAssumption, IInv, Next
    PROVE  Kept
  <1>1. CASE RestStep
    <2>1. \/ (\E s \in {"http", "pprof"} : Listen(s) \/ ListenFails(s))
             \/ Signal \/ CloseReader
          \/ \/ StopDrained \/ StopGivesUp \/ StopPprof \/ CloseClient
             \/ CloseStorage \/ Restart
          \/ Return \/ Kill
          \/ \E h \in Request :
               \/ \E kind \in Kind : Accept(h, kind)
               \/ Use(h) \/ SendRpc(h) \/ ReceiveRpc(h) \/ Expire(h) \/ Abandon(h)
      BY <1>1, Zenon DEF RestStep, ShutdownStep, Handle
    <2>2. ASSUME NEW h \in Request,
                 \/ \E kind \in Kind : Accept(h, kind)
                 \/ \/ Use(h) \/ SendRpc(h) \/ ReceiveRpc(h)
                    \/ Expire(h) \/ Abandon(h)
          PROVE  Kept
      BY <2>2, AcceptKeeps, HandlerKeeps, Zenon
    <2> QED  BY <2>1, <2>2, ServersKeep, MainKeeps, VanishKeeps, Zenon
  <1>2. CASE SsoStep
    BY <1>2, WorldKeeps, SsoKeeps, Zenon DEF SsoStep
  <1>3. CASE WorldStep
    BY <1>3, WorldKeeps, Zenon DEF WorldStep
  <1> QED  BY <1>1, <1>2, <1>3, Zenon DEF Next

-----------------------------------------------------------------------------
(* The theorems                                                            *)

\* Nothing has begun in an initial state (the processes before main).
LEMMA InitIInv ==
    ASSUME ServiceAssumption, Init
    PROVE  IInv
  <1>1. Free("cancelled") \in RequestType /\ Free("cancelled").status = "cancelled"
    BY DEF Free, RequestType, Kind, Status
  <1>2. \A h \in Request : ~ Pending(h) /\ rpc[h] = "none"
    BY <1>1 DEF Init, Pending
  <1>3. ServiceTypeOK
    <2>1. request \in [Request -> RequestType]
      BY <1>1 DEF Init
    <2> QED  BY <1>2, <2>1 DEF Init, ServiceTypeOK, RequestType, MainState,
                               ServerState, SsoState, RpcState, Backend,
                               ServiceAssumption
  <1> QED  BY <1>2, <1>3 DEF Init, IInv, RpcInv, DrainInv, Stopping

\* Every step of rest, sso and the world keeps the invariant.
LEMMA StepIInv ==
    ASSUME ServiceAssumption, IInv, [Next]_vars
    PROVE  IInv'
  <1>1. CASE Next
    <2>1. Kept
      BY <1>1, NextKeeps
    <2>2. Observe
      BY <1>1 DEF Next
    <2>3. \A h \in Request : Pending(h)' => WitnessOf(h)'
      BY <2>1, <2>2, WitnessKept DEF Kept
    <2> QED  BY <2>1, <2>3 DEF Kept, IInv
  <1>2. CASE UNCHANGED vars
    BY <1>2 DEF vars, restVars, ssoVars, IInv, ServiceTypeOK, RpcInv, DrainInv,
                WitnessOf, Pending, NextUse, PendingAt, Running, Fine, Trouble
  <1> QED  BY <1>1, <1>2

\* The invariant the theorems below rest on holds in every reachable state.
THEOREM Invariance == Spec => []IInv
  <1> USE ServiceAssumption
  <1>1. Init => IInv
    BY InitIInv
  <1>2. IInv /\ [Next]_vars => IInv'
    BY StepIInv
  <1> QED  BY <1>1, <1>2, PTL DEF Spec

\* Every variable of the two processes keeps its type, and a handler never uses
\* more than it has.
THEOREM TypeCorrect == Spec => []ServiceTypeOK
  <1>1. IInv => ServiceTypeOK
    BY DEF IInv
  <1> QED  BY <1>1, Invariance, PTL

\* A call that sso has begun is lost only with the process and fails only with
\* the database or the file of its key (GracefulStop, then storage.Close).
THEOREM CallsFinish == Spec => []AcceptedCallsFinish
  <1>1. IInv => AcceptedCallsFinish
    BY DEF IInv, RpcInv, WitnessOf, AcceptedCallsFinish
  <1> QED  BY <1>1, Invariance, PTL

\* A request answered with success or an error has been so by a step of its own.
LEMMA WhoEnds ==
    ASSUME IInv, Next, NEW h \in Request,
           Ends(h, "ok") \/ Ends(h, "error")
    PROVE  Use(h) \/ SendRpc(h) \/ ReceiveRpc(h)
  <1>1. Pending(h) /\ request'[h].status \in {"ok", "error"}
    BY DEF Ends
  <1>2. request'[h] # request[h]
    BY <1>1 DEF Pending
  <1>3. request \in [Request -> RequestType]
    BY DEF IInv, ServiceTypeOK, RequestType
  <1>4. ASSUME NEW g \in Request,
               \E status : request' = Answered(g, status) \/ request' = Advanced(g)
        PROVE  g = h
    BY <1>2, <1>3, <1>4 DEF Answered, Advanced
  <1>5. ~ (Return \/ Kill)
    BY <1>1 DEF Return, Kill, Vanish, Free
  <1>6. \A g \in Request, kind \in Kind : ~ Accept(g, kind)
    <2> SUFFICES ASSUME NEW g \in Request, NEW kind \in Kind, Accept(g, kind)
                 PROVE  FALSE
      OBVIOUS
    <2>1. g # h
      BY <1>1 DEF Accept
    <2> QED  BY <1>2, <1>3, <2>1 DEF Accept
  <1>7. \A g \in Request : ~ (Expire(g) \/ Abandon(g))
    <2> SUFFICES ASSUME NEW g \in Request, Expire(g) \/ Abandon(g)
                 PROVE  FALSE
      OBVIOUS
    <2>1. request' = Answered(g, "cancelled")
      BY DEF Expire, Abandon, Cancel
    <2>2. g = h
      BY <1>4, <2>1
    <2> QED  BY <1>1, <1>3, <2>1, <2>2 DEF Answered, Free
  <1>8. ASSUME NEW g \in Request, Use(g) \/ SendRpc(g) \/ ReceiveRpc(g)
        PROVE  g = h
    BY <1>2, <1>4, <1>8 DEF Use, SendRpc, ReceiveRpc
  <1>9. ~ SsoStep /\ ~ WorldStep
    BY <1>2 DEF SsoStep, WorldStep, SsoServe, SsoSignal, SsoDrained, SsoClose,
                SsoDies, SsoRestart, SsoAnswer, Reconnect, Outage, Recovery
  <1>10. /\ \A s \in {"http", "pprof"} : ~ (Listen(s) \/ ListenFails(s))
         /\ ~ (Signal \/ StopDrained \/ StopGivesUp \/ CloseReader \/ StopPprof)
         /\ ~ (CloseClient \/ CloseStorage \/ Restart)
    BY <1>2 DEF Listen, ListenFails, Signal, StopDrained, StopGivesUp,
                CloseReader, StopPprof, CloseClient, CloseStorage, Restart
  <1>11. RestStep
    BY <1>9, Zenon DEF Next
  <1> QED  BY <1>5, <1>6, <1>7, <1>8, <1>10, <1>11, Zenon
           DEF RestStep, ShutdownStep, Handle

\* A probe that ends well has ticked off its last checker, and all before it.
LEMMA ReadyStep ==
    ASSUME IInv, Next, NEW h \in Request,
           request[h].kind = "probe", Ends(h, "ok")
    PROVE  Blame.probe \subseteq witness[h].fine
  <1>1. Pending(h) /\ request'[h].status = "ok" /\ ~ Pending(h)'
    BY DEF Ends, Pending
  <1>2. request'[h] # Free("error")
    BY <1>1 DEF Free
  <1>3. request' # Answered(h, "error")
    BY <1>2 DEF Answered, IInv, ServiceTypeOK
  <1>4. request' = Advanced(h) /\ Shows[NextUse(h)] \subseteq witness[h].fine
    <2>1. CASE Use(h)
      <3>1. /\ request' = Advanced(h)
            /\ NextUse(h) = "broker" \/ ConditionOf(NextUse(h)) = "up"
        BY <1>3, <2>1 DEF Use
      <3> QED  BY <1>1, <2>1, <3>1, UseIsFine
    <2>2. CASE SendRpc(h)
      BY <1>1, <1>3, <2>2 DEF SendRpc, Pending
    <2>3. CASE ReceiveRpc(h)
      <3>1. request' = Advanced(h) /\ rpc[h] = "ok"
        BY <1>3, <2>3 DEF ReceiveRpc
      <3> QED  BY <1>1, <3>1, UseIsFine
    <2> QED  BY <2>1, <2>2, <2>3, WhoEnds
  <1>5. request[h].step + 1 = 4 /\ request[h].step \in 0..4
    <2>1. request[h].step + 1 = Len(Uses[request[h].kind])
      BY <1>1, <1>4, AdvancedLemma DEF IInv
    <2> QED  BY <2>1, ProbeUses DEF IInv, ServiceTypeOK
  <1>6. /\ Shows[Uses["probe"][4]] \subseteq witness[h].fine
        /\ \A i \in 1..3 : Shows[Uses["probe"][i]] \subseteq witness[h].fine
    <2>1. request[h].step = 3
      BY <1>5
    <2> QED  BY <1>1, <1>4, <1>5, <2>1 DEF NextUse, IInv, WitnessOf
  <1> QED  BY <1>6, ProbeUses

\* A probe that answers 200 has met the database, sso and Kafka each in working
\* order (Handler.Ready).
THEOREM ReadinessIsTrue == Spec => ReadyIsTrue
  <1>1. IInv /\ [Next]_vars =>
          [\A h \in Request :
              request[h].kind = "probe" /\ Ends(h, "ok")
                  => Blame.probe \subseteq witness[h].fine]_vars
    BY ReadyStep
  <1> QED  BY <1>1, Invariance, PTL DEF Spec, ReadyIsTrue

\* A failed use has a cause among the things used, or the request overran.
LEMMA ErrorStep ==
    ASSUME IInv, Next, NEW h \in Request, Ends(h, "error")
    PROVE  \/ witness[h].trouble \cap Blame[request[h].kind] # {}
           \/ h \in overran
  <1>1. Pending(h) /\ request'[h].status = "error" /\ ~ Pending(h)'
    BY DEF Ends, Pending
  <1>2. request' # Advanced(h)
    BY <1>1, AdvancedLemma DEF IInv
  <1>3. /\ NextUse(h) \in DOMAIN BackendOf \cup {"sso", "cpu"}
        /\ NextUse(h) # "cpu" => ServerOf(request[h].kind) = "http"
        /\ NextUse(h) \in DOMAIN BackendOf =>
             BackendOf[NextUse(h)] \in Blame[request[h].kind]
        /\ NextUse(h) = "sso" => "sso" \in Blame[request[h].kind]
    BY <1>1, NextLemma DEF IInv
  <1>4. Trouble(h) \subseteq witness[h].trouble
    BY <1>1 DEF IInv, WitnessOf
  <1>5. main \in Stopping \ {"stopping"} /\ NextUse(h) # "cpu" => h \in overran
    BY <1>1, <1>3 DEF IInv, DrainInv, PendingAt
  <1>6. ClientClosed => main \in Stopping \ {"stopping"} \/ main = "ended"
    BY DEF ClientClosed, Stopping
  <1>7. CASE Use(h)
    <2>1. CASE ConditionOf(NextUse(h)) = "refusing"
      <3>1. NextUse(h) \in DOMAIN BackendOf
        BY <1>3, <1>7, <2>1 DEF Use, ConditionOf
      <3>2. BackendOf[NextUse(h)] \in {"database", "kafka"}
        BY <3>1 DEF BackendOf
      <3>3. BackendOf[NextUse(h)] \in Trouble(h)
        BY <1>3, <2>1, <3>1, <3>2 DEF Trouble, ConditionOf, BackendOf
      <3> QED  BY <1>3, <1>4, <3>1, <3>3
    <2>2. CASE NextUse(h) \in {"prepare", "database"} /\ main = "returning"
      BY <1>5, <2>2 DEF Stopping
    <2> QED  BY <1>2, <1>7, <2>1, <2>2 DEF Use
  <1>8. CASE SendRpc(h)
    <2>1. NextUse(h) = "sso"
          /\ (ClientClosed \/ channel = "backoff" \/ sso # "serving")
      BY <1>1, <1>8 DEF SendRpc, Pending
    <2>2. CASE channel = "backoff" \/ sso # "serving"
      <3>1. "sso" \in Trouble(h)
        BY <1>3, <2>1, <2>2 DEF Trouble
      <3> QED  BY <1>3, <1>4, <2>1, <3>1
    <2>3. CASE ClientClosed
      BY <1>1, <1>5, <1>6, <2>1, <2>3 DEF IInv, DrainInv
    <2> QED  BY <2>1, <2>2, <2>3
  <1>9. CASE ReceiveRpc(h)
    <2>1. /\ rpc[h] \in {"failed", "lost"} \/ (ClientClosed /\ rpc[h] # "none")
          /\ rpc[h] \notin {"none", "left"}
      BY <1>1, <1>2, <1>9 DEF ReceiveRpc, IInv, RpcInv
    <2>2. NextUse(h) = "sso"
      BY <2>1 DEF IInv, RpcInv
    <2>3. CASE rpc[h] = "failed"
      BY <1>1, <2>3 DEF IInv, WitnessOf, Blame
    <2>4. CASE rpc[h] = "lost"
      BY <1>1, <1>3, <2>2, <2>4 DEF IInv, WitnessOf
    <2>5. CASE ClientClosed
      BY <1>1, <1>5, <1>6, <2>2, <2>5 DEF IInv, DrainInv
    <2> QED  BY <2>1, <2>3, <2>4, <2>5
  <1> QED  BY <1>7, <1>8, <1>9, WhoEnds

\* A request fails only with something it uses, never because the shutdown of
\* rest closed a connection under it while it was waited for (main, App.Stop).
THEOREM CausesOfErrors == Spec => ErrorsHaveCause
  <1>1. IInv /\ [Next]_vars =>
          [\A h \in Request :
              Ends(h, "error") =>
                  \/ witness[h].trouble \cap Blame[request[h].kind] # {}
                  \/ h \in overran]_vars
    BY ErrorStep
  <1> QED  BY <1>1, Invariance, PTL DEF Spec, ErrorsHaveCause
=============================================================================
