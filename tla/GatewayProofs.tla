--------------------------- MODULE GatewayProofs ----------------------------
(***************************************************************************)
(* Proofs about rest in front of sso, for any number of requests, attempts *)
(* and transactions: rest uses sso as the specification of sso allows, so  *)
(* that what is proved of sso holds for its callers in rest, rows are      *)
(* shown for the wallet of an account only, and what a client is told has  *)
(* happened.                                                               *)
(***************************************************************************)
EXTENDS Gateway, AuthProofs

\* The tokens that answers bring exist.
GivenInv ==
    \A c \in Call : call[c].pc # "idle" => call[c].given \subseteq DOMAIN issued

HeldInv == held \subseteq DOMAIN issued

\* What is under way in a slot: sso is asked what it can be asked, a token that
\* is read is one that sso has signed, and rows that were selected carry its wallet.
Reads(h) == http[h].req.op \in {"list", "get"}

Admitted(j) == j \in DOMAIN issued

RequestInv(h) ==
    http[h].pc # "free" =>
        /\ http[h].pc \in {"calling", "waiting"} => http[h].req \in Askable
        /\ http[h].pc # "answered" => http[h].rows = {}
        /\ ~ Reads(h) => http[h].pc \notin {"checking", "select"}
        /\ Reads(h) /\ http[h].req.token # NoToken => Admitted(http[h].req.token)
        /\ http[h].pc = "select" => Admitted(http[h].req.token)
        /\ http[h].pc = "answered" =>
             \A t \in http[h].rows : /\ Admitted(http[h].req.token)
                                     /\ issued[http[h].req.token].wallet = t.merchant

GatewayInv ==
    /\ IInv
    /\ GatewayTypeOK
    /\ GivenInv
    /\ HeldInv
    /\ \A h \in Slot : RequestInv(h)

-----------------------------------------------------------------------------
(* What rest does to sso is what sso allows.                               *)

\* At least one attempt is made.
LEMMA AttemptsNat == GatewayAssumption => Attempts \in Nat \ {0}
  BY DEF GatewayAssumption, Attempts

\* A slot that is not free has a record, and its current attempt is a call.
LEMMA SlotTyped ==
    ASSUME GatewayAssumption, GatewayTypeOK, NEW h \in Slot, http[h].pc # "free"
    PROVE  /\ http[h] \in HttpRecord
           /\ http[h].attempt \in 1..Attempts
           /\ Current(h) \in Call
  <1>1. http[h] \in HttpRecord
    BY DEF GatewayTypeOK, Free
  <1>2. http[h].attempt \in 1..Attempts
    BY <1>1 DEF HttpRecord
  <1> QED  BY <1>1, <1>2 DEF GatewayAssumption, Current

\* Each action of rest or of sso is an action of sso, or leaves sso alone.
LEMMA StepOfSso ==
    ASSUME GatewayAssumption, GatewayInv, [Next]_vars
    PROVE  [AuthNext]_authVars
  <1>1. ASSUME NEW h \in Slot, NEW r \in Arriving, Begin(h, r)
        PROVE  UNCHANGED authVars
    BY <1>1 DEF Begin
  <1>2. ASSUME NEW h \in Slot, CallSso(h)
        PROVE  Callers
    <2>1. InState(h, "calling") /\ Send(Current(h), http[h].req)
      BY <1>2 DEF CallSso
    <2>2. Current(h) \in Call
      BY <2>1, SlotTyped DEF GatewayInv, InState
    <2>3. http[h].req \in Askable
      BY <2>1 DEF GatewayInv, RequestInv, InState
    <2> QED  BY <2>1, <2>2, <2>3 DEF Callers
  <1>3. ASSUME NEW h \in Slot,
               \/ NoConnection(h) \/ Authorise(h) \/ KeyFails(h)
               \/ Select(h) \/ SelectFails(h)
        PROVE  UNCHANGED authVars
    BY <1>3 DEF NoConnection, Authorise, KeyFails, Select, SelectFails
  <1>4. ASSUME NEW h \in Slot, Answer(h)
        PROVE  Callers
    <2>1. InState(h, "waiting") /\ Receive(Current(h))
      BY <1>4 DEF Answer
    <2>2. Current(h) \in Call
      BY <2>1, SlotTyped DEF GatewayInv, InState
    <2> QED  BY <2>1, <2>2 DEF Callers
  <1>5. ASSUME NEW h \in Slot, Timeout(h) \/ HangUp(h)
        PROVE  Callers
    <2>1. InState(h, "waiting") /\ Abandon(Current(h))
      BY <1>5 DEF Timeout, HangUp
    <2>2. Current(h) \in Call
      BY <2>1, SlotTyped DEF GatewayInv, InState
    <2> QED  BY <2>1, <2>2 DEF Callers
  <1>6. ASSUME NEW h \in Slot, Discard(h)
        PROVE  Callers
    <2>1. PICK n \in 1..Attempts : Receive(<<h, n>>)
      BY <1>6 DEF Discard
    <2>2. <<h, n>> \in Call
      BY DEF GatewayAssumption
    <2> QED  BY <2>1, <2>2 DEF Callers
  <1>7. ASSUME NEW c \in Call, SsoServes(c)
        PROVE  ServiceNext
    BY <1>7 DEF SsoServes, ServiceNext
  <1>8. CASE SsoProcess
    BY <1>8 DEF SsoProcess, ServiceNext, AuthNext
  <1>9. CASE UNCHANGED vars
    BY <1>9 DEF vars
  <1> QED  BY <1>1, <1>2, <1>3, <1>4, <1>5, <1>6, <1>7, <1>8, <1>9
              DEF Next, Handle, AuthNext

-----------------------------------------------------------------------------
(* The invariant is kept.                                                  *)

\* Tokens are only added.
LEMMA TokensStay ==
    ASSUME IInv, [AuthNext]_authVars
    PROVE  /\ Len(issued) \in Nat /\ Len(issued') \in Nat
           /\ Len(issued) <= Len(issued')
           /\ \A j \in DOMAIN issued :
                j \in DOMAIN issued' /\ issued'[j] = issued[j]
  <1>1. issued \in Seq(Token)
    BY DEF IInv, AuthTypeOK
  <1>2. CASE UNCHANGED issued
    BY <1>1, <1>2
  <1>3. CASE \E a, b : issued' = Append(Append(issued, a), b)
    BY <1>1, <1>3
  <1>4. CASE \E a : issued' = Append(issued, a)
    BY <1>1, <1>4
  <1>5. CASE \E c \in Call : Serve(c) \/ Fail(c)
    BY <1>2, <1>3, <1>4, <1>5
       DEF Serve, Reject, Register, Login, SignPair, Parse, Refresh,
           SignAccess, Logout, Fail, tables
  <1>6. CASE Stop \/ Exit \/ Crash \/ Restart \/ Tick \/ UNCHANGED authVars
    BY <1>2, <1>6 DEF Stop, Exit, Crash, Restart, Tick, tables, authVars
  <1>7. CASE Callers
    BY <1>2, <1>7 DEF Callers, Send, Receive, Abandon, tables
  <1> QED  BY <1>5, <1>6, <1>7 DEF AuthNext, ServiceNext

\* An answer brings the tokens just signed.
LEMMA GivenStays ==
    ASSUME AuthAssumption, IInv, GivenInv, [AuthNext]_authVars
    PROVE  GivenInv'
  <1>1. issued \in Seq(Token) /\ call \in [Call -> {NoCall} \cup CallRecord]
    BY DEF IInv, AuthTypeOK
  <1>2. \A j \in DOMAIN issued : j \in DOMAIN issued'
    BY TokensStay
  <1> SUFFICES ASSUME NEW d \in Call, call'[d].pc # "idle"
               PROVE  call'[d].given \subseteq DOMAIN issued'
    BY DEF GivenInv
  <1>3. CASE call'[d] = call[d]
    BY <1>2, <1>3 DEF GivenInv
  <1>4. CASE call[d] \in CallRecord /\ call'[d].given = call[d].given
    BY <1>2, <1>4 DEF GivenInv, CallRecord, Working
  <1>5. CASE call'[d].given = {}
    BY <1>5
  <1>6. ASSUME NEW c \in Call, Serve(c), c # d
        PROVE  call'[d] = call[d]
    BY <1>1, <1>6
       DEF Serve, Reject, Register, Login, SignPair, Parse, Refresh,
           SignAccess, Logout, Reply
  <1>7. CASE Serve(d)
    <2>1. call[d] \in CallRecord
      BY <1>7, CallTyped
         DEF Serve, Reject, Register, Login, SignPair, Parse, Refresh,
             SignAccess, Logout, At, IInv
    <2>2. CASE \E code : Reply(d, code, {})
      BY <1>1, <1>5, <2>1, <2>2 DEF Reply, CallRecord
    <2>3. CASE Login(d) \/ Parse(d) \/ Refresh(d)
      BY <1>1, <1>4, <2>1, <2>2, <2>3 DEF Login, Parse, Refresh, CallRecord
    <2>4. CASE SignPair(d)
      <3>1. call'[d].given = {Len(issued) + 1, Len(issued) + 2}
        BY <1>1, <2>1, <2>4 DEF SignPair, Reply, CallRecord
      <3>2. \E a, b : issued' = Append(Append(issued, a), b)
        BY <2>4 DEF SignPair
      <3> QED  BY <1>1, <3>1, <3>2
    <2>5. CASE SignAccess(d)
      <3>1. call'[d].given = {Len(issued) + 1}
        BY <1>1, <2>1, <2>5 DEF SignAccess, Reply, CallRecord
      <3>2. \E a : issued' = Append(issued, a)
        BY <2>5 DEF SignAccess
      <3> QED  BY <1>1, <3>1, <3>2
    <2>6. CASE Reject(d) \/ Register(d) \/ Logout(d)
      BY <2>2, <2>6 DEF Reject, Register, Logout
    <2> QED  BY <1>7, <2>3, <2>4, <2>5, <2>6 DEF Serve
  <1>8. ASSUME NEW c \in Call, Fail(c)
        PROVE  \/ call'[d] = call[d]
               \/ call[d] \in CallRecord /\ call'[d].given = call[d].given
    <2>1. call[c] \in CallRecord
      BY <1>8, CallTyped DEF Fail, Working, IInv
    <2> QED  BY <1>1, <1>8, <2>1 DEF Fail, CallRecord
  <1>9. CASE Crash
    <2>1. call'[d] = IF Waiting(d)
                     THEN [call[d] EXCEPT !.pc = "replied",
                             !.code = "Unavailable", !.given = {}, !.hit = TRUE]
                     ELSE NoCall
      BY <1>9 DEF Crash
    <2>2. Waiting(d) /\ call[d] \in CallRecord
      BY <1>1, <2>1 DEF NoCall, Waiting
    <2> QED  BY <1>5, <2>1, <2>2 DEF CallRecord
  <1>10. CASE Stop \/ Exit \/ Restart \/ Tick \/ UNCHANGED authVars
    BY <1>3, <1>10 DEF Stop, Exit, Restart, Tick, authVars
  <1>11. ASSUME NEW c \in Call, NEW r, Send(c, r)
         PROVE  call'[d] = call[d] \/ call'[d].given = {}
    BY <1>1, <1>11 DEF Send
  <1>12. ASSUME NEW c \in Call, Receive(c)
         PROVE  call'[d] = call[d]
    BY <1>1, <1>12 DEF Receive, NoCall
  <1>13. ASSUME NEW c \in Call, Abandon(c)
         PROVE  \/ call'[d] = call[d]
                \/ call[d] \in CallRecord /\ call'[d].given = call[d].given
    BY <1>1, <1>13 DEF Abandon, Waiting, CallRecord
  <1> QED  BY <1>3, <1>4, <1>5, <1>6, <1>7, <1>8, <1>9, <1>10, <1>11, <1>12,
              <1>13 DEF AuthNext, ServiceNext, Callers

\* A slot that a step leaves alone keeps its part of the invariant.
LEMMA OtherSlots ==
    ASSUME GatewayInv, [AuthNext]_authVars,
           NEW g \in Slot, http'[g] = http[g]
    PROVE  RequestInv(g)'
  <1>1. /\ Len(issued) \in Nat /\ Len(issued') \in Nat
        /\ Len(issued) <= Len(issued')
        /\ \A j \in DOMAIN issued :
             j \in DOMAIN issued' /\ issued'[j] = issued[j]
    BY TokensStay DEF GatewayInv
  <1>2. \A j : Admitted(j) => Admitted(j)' /\ issued'[j] = issued[j]
    BY <1>1 DEF Admitted
  <1>3. \A r \in Askable : r \in Askable'
    BY <1>1 DEF Askable
  <1> QED  BY <1>2, <1>3 DEF GatewayInv, RequestInv, Reads

\* A step of one slot.
LEMMA SlotStep ==
    ASSUME AuthAssumption, GatewayInv, [AuthNext]_authVars,
           NEW h \in Slot, NEW new \in {Free} \cup HttpRecord,
           http' = [http EXCEPT ![h] = new],
           held' \subseteq DOMAIN issued', begun' \in Nat,
           made' \in [Slot -> BOOLEAN],
           RequestInv(h)'
    PROVE  GatewayInv'
  <1>1. IInv' /\ GivenInv'
    BY NextKeeps, GivenStays DEF GatewayInv
  <1>2. issued' \in Seq(Token)
    BY <1>1 DEF IInv, AuthTypeOK
  <1>3. GatewayTypeOK' /\ HeldInv'
    <2>1. held' \subseteq Nat
      BY <1>2
    <2>2. http' \in [Slot -> {Free} \cup HttpRecord]
      BY DEF GatewayInv, GatewayTypeOK
    <2> QED  BY <2>1, <2>2 DEF GatewayTypeOK, HeldInv
  <1>4. \A g \in Slot \ {h} : http'[g] = http[g]
    BY DEF GatewayInv, GatewayTypeOK
  <1>5. \A g \in Slot : RequestInv(g)'
    BY <1>4, OtherSlots
  <1> QED  BY <1>1, <1>3, <1>5 DEF GatewayInv

\* What a client may ask sso can be asked, and the tokens it presents have
\* been signed.
LEMMA ArrivingLemma ==
    ASSUME AuthAssumption, GatewayAssumption, GatewayInv, NEW r \in Arriving
    PROVE  /\ r \in Request \cup Read
           /\ r.op \notin {"list", "get"} => r \in Askable
           /\ r.op \in {"list", "get"} /\ r.token # NoToken => Admitted(r.token)
  <1>1. \A j \in Presentable :
          /\ j \in 0..Len(issued) /\ j \in Nat
          /\ j # NoToken => j \in DOMAIN issued
    BY DEF Presentable, GatewayAssumption, GatewayInv, HeldInv, NoToken,
           IInv, AuthTypeOK
  <1>2. CASE r \in Ask
    BY <1>2 DEF AuthAssumption, Request, RegisterRequest, LoginRequest, Askable
  <1>3. CASE r \in [op : Route \cap {"refresh", "logout", "list"},
                    token : Presentable]
    <2>1. PICK op \in {"refresh", "logout", "list"}, j \in Presentable :
               r = [op |-> op, token |-> j]
      BY <1>3
    <2>2. CASE op = "list"
      BY <1>1, <2>1, <2>2 DEF Read, Admitted
    <2>3. CASE op \in {"refresh", "logout"}
      BY <1>1, <2>1, <2>3 DEF Request, TokenRequest, Askable
    <2> QED  BY <2>1, <2>2, <2>3
  <1>4. CASE r \in [op : Route \cap {"get"}, token : Presentable,
                    id : {0} \cup {t.id : t \in Transaction}]
    <2>1. \A i \in {0} \cup {t.id : t \in Transaction} : i \in Nat
      BY DEF GatewayAssumption
    <2>2. PICK op \in {"get"}, j \in Presentable,
               i \in {0} \cup {t.id : t \in Transaction} :
               r = [op |-> op, token |-> j, id |-> i]
      BY <1>4
    <2> QED  BY <1>1, <2>1, <2>2 DEF Read, Admitted
  <1> QED  BY <1>2, <1>3, <1>4 DEF Arriving

\* A request that arrives asks what the clients can ask.
LEMMA BeginKeeps ==
    ASSUME AuthAssumption, GatewayAssumption, GatewayInv,
           NEW h \in Slot, NEW r \in Arriving, Begin(h, r)
    PROVE  GatewayInv'
  <1> DEFINE new ==
        [pc |-> IF r.op \in {"list", "get"} THEN "checking" ELSE "calling",
         req |-> r, attempt |-> 1, status |-> 500, code |-> "none",
         given |-> {}, rows |-> {}]
  <1>1. new \in HttpRecord
    BY ArrivingLemma, AttemptsNat DEF HttpRecord
  <1>2. http' = [http EXCEPT ![h] = new] /\ UNCHANGED <<authVars, held>>
    BY DEF Begin
  <1>3. begun' \in Nat /\ made' \in [Slot -> BOOLEAN]
    BY DEF Begin, GatewayInv, GatewayTypeOK
  <1>4. http'[h] = new
    BY <1>2 DEF GatewayInv, GatewayTypeOK
  <1>5. issued' = issued /\ held' \subseteq DOMAIN issued'
    BY <1>2 DEF authVars, tables, GatewayInv, HeldInv
  <1>6. RequestInv(h)'
    BY <1>4, <1>5, ArrivingLemma
       DEF RequestInv, Reads, Admitted, Askable
  <1> QED  BY <1>1, <1>2, <1>3, <1>5, <1>6, SlotStep, ZenonT(60)

\* A slot that only goes on, or is answered without rows.
LEMMA ForwardKeeps ==
    ASSUME AuthAssumption, GatewayAssumption, GatewayInv, [AuthNext]_authVars,
           NEW h \in Slot, http[h].pc \in {"calling", "waiting"},
           NEW new \in HttpRecord,
           new.pc \in {"calling", "waiting", "answered"},
           new.req = http[h].req, new.rows = http[h].rows,
           http' = [http EXCEPT ![h] = new],
           held' \subseteq DOMAIN issued', UNCHANGED <<made, begun>>
    PROVE  GatewayInv'
  <1>1. http'[h] = new
    BY DEF GatewayInv, GatewayTypeOK
  <1>2. /\ Len(issued) \in Nat /\ Len(issued') \in Nat
        /\ Len(issued) <= Len(issued')
        /\ \A j \in DOMAIN issued :
             j \in DOMAIN issued' /\ issued'[j] = issued[j]
    BY TokensStay DEF GatewayInv
  <1>3. \A j : Admitted(j) => Admitted(j)'
    BY <1>2 DEF Admitted
  <1>4. \A r \in Askable : r \in Askable'
    BY <1>2 DEF Askable
  <1>5. RequestInv(h)'
    BY <1>1, <1>3, <1>4 DEF GatewayInv, RequestInv, Reads
  <1>6. begun' \in Nat /\ made' \in [Slot -> BOOLEAN]
    BY DEF GatewayInv, GatewayTypeOK
  <1>7. new \in {Free} \cup HttpRecord
    OBVIOUS
  <1> QED  BY <1>5, <1>6, <1>7, SlotStep

\* The tokens an answer or a step leaves with the clients exist.
LEMMA HeldStays ==
    ASSUME GatewayInv, [AuthNext]_authVars,
           NEW given \in SUBSET DOMAIN issued, held' = held \cup given
    PROVE  held' \subseteq DOMAIN issued'
  BY TokensStay DEF GatewayInv, HeldInv

\* A slot that is answered with the code of sso or of the client.
LEMMA RespondKeeps ==
    ASSUME AuthAssumption, GatewayAssumption, GatewayInv, [AuthNext]_authVars,
           NEW h \in Slot, http[h].pc \in {"calling", "waiting"},
           NEW code \in Code \cup {"DeadlineExceeded"},
           NEW given \in SUBSET Nat, Respond(h, code, given),
           held' \subseteq DOMAIN issued', UNCHANGED <<made, begun>>
    PROVE  GatewayInv'
  <1> DEFINE status == StatusOf(http[h].req.op, code)
             new == [http[h] EXCEPT !.pc = "answered", !.code = code,
                                    !.status = status, !.given = given]
  <1>1. http[h] \in HttpRecord
    BY SlotTyped DEF GatewayInv
  <1>2. status \in {200, 400, 401, 404, 500}
    BY DEF StatusOf
  <1> HIDE DEF status
  <1>3. new \in HttpRecord
    <2> DEFINE a == [http[h] EXCEPT !.pc = "answered"]
               b == [a EXCEPT !.code = code]
               d == [b EXCEPT !.status = status]
    <2>1. a \in HttpRecord
      BY <1>1 DEF HttpRecord
    <2> HIDE DEF a
    <2>2. b \in HttpRecord
      BY <2>1 DEF HttpRecord
    <2> HIDE DEF b
    <2>3. d \in HttpRecord
      BY <1>2, <2>2 DEF HttpRecord
    <2> HIDE DEF d
    <2>4. [d EXCEPT !.given = given] \in HttpRecord
      BY <2>3 DEF HttpRecord
    <2> QED  BY <1>1, <2>4 DEF HttpRecord, a, b, d
  <1>4. /\ new.pc = "answered" /\ new.req = http[h].req
        /\ new.rows = http[h].rows
    BY <1>1 DEF HttpRecord
  <1>5. http' = [http EXCEPT ![h] = new]
    BY <1>1 DEF Respond, status, GatewayInv, GatewayTypeOK
  <1> HIDE DEF new
  <1> QED  BY <1>3, <1>4, <1>5, ForwardKeeps

\* An attempt that is sent.
LEMMA CallSsoKeeps ==
    ASSUME AuthAssumption, GatewayAssumption, GatewayInv, [AuthNext]_authVars,
           NEW h \in Slot, CallSso(h)
    PROVE  GatewayInv'
  <1> DEFINE new == [http[h] EXCEPT !.pc = "waiting"]
  <1>1. http[h].pc = "calling" /\ http[h] \in HttpRecord
    BY SlotTyped DEF CallSso, InState, GatewayInv
  <1>2. /\ new \in HttpRecord /\ new.pc = "waiting"
        /\ new.req = http[h].req /\ new.rows = http[h].rows
    BY <1>1 DEF HttpRecord
  <1>3. http' = [http EXCEPT ![h] = new] /\ UNCHANGED <<held, made, begun>>
    BY DEF CallSso
  <1>4. held' \subseteq DOMAIN issued'
    BY <1>3, TokensStay DEF GatewayInv, HeldInv
  <1> HIDE DEF new
  <1> QED  BY <1>1, <1>2, <1>3, <1>4, ForwardKeeps

\* A request that is answered by sso, or for want of a connection.
LEMMA AnswerKeeps ==
    ASSUME AuthAssumption, GatewayAssumption, GatewayInv, [AuthNext]_authVars,
           NEW h \in Slot, NoConnection(h) \/ Answer(h)
    PROVE  GatewayInv'
  <1>1. CASE NoConnection(h)
    <2>1. /\ http[h].pc = "calling" /\ Respond(h, "Unavailable", {})
          /\ UNCHANGED <<held, made, begun>>
      BY <1>1 DEF NoConnection, InState
    <2>2. held' \subseteq DOMAIN issued'
      BY <2>1, TokensStay DEF GatewayInv, HeldInv
    <2> QED  BY <2>1, <2>2, RespondKeeps DEF Code
  <1>2. CASE Answer(h)
    <2> DEFINE c == Current(h)
    <2>1. /\ http[h].pc = "waiting" /\ call[c].pc = "replied"
          /\ Respond(h, call[c].code, call[c].given)
          /\ held' = held \cup call[c].given
          /\ UNCHANGED <<made, begun>>
      BY <1>2 DEF Answer, InState, Receive, Replied
    <2>2. c \in Call
      BY <2>1, SlotTyped DEF GatewayInv
    <2>3. call[c] \in CallRecord
      BY <2>1, <2>2, CallTyped DEF GatewayInv, IInv
    <2>4. call[c].code \in Code /\ call[c].given \in SUBSET Nat
      BY <2>3 DEF CallRecord
    <2>5. call[c].given \in SUBSET DOMAIN issued
      BY <2>1, <2>2 DEF GatewayInv, GivenInv
    <2>6. held' \subseteq DOMAIN issued'
      BY <2>1, <2>5, HeldStays
    <2> HIDE DEF c
    <2> QED  BY <2>1, <2>4, <2>6, RespondKeeps
  <1> QED  BY <1>1, <1>2

\* An attempt that timed out, before the next one and after the last.
LEMMA TimeoutKeeps ==
    ASSUME AuthAssumption, GatewayAssumption, GatewayInv, [AuthNext]_authVars,
           NEW h \in Slot, Timeout(h)
    PROVE  GatewayInv'
  <1>1. /\ http[h].pc = "waiting" /\ http[h] \in HttpRecord
        /\ UNCHANGED <<held, made, begun>>
    BY SlotTyped DEF Timeout, InState, GatewayInv
  <1>2. held' \subseteq DOMAIN issued'
    BY <1>1, TokensStay DEF GatewayInv, HeldInv
  <1>3. CASE http[h].attempt < Attempts
    <2> DEFINE n == http[h].attempt + 1
               new == [http[h] EXCEPT !.pc = "calling", !.attempt = n]
    <2>1. n \in 1..Attempts
      BY <1>1, <1>3, AttemptsNat DEF HttpRecord
    <2>2. http' = [http EXCEPT ![h] = new]
      BY <1>1, <1>3 DEF Timeout, GatewayInv, GatewayTypeOK
    <2> HIDE DEF n
    <2>3. new \in HttpRecord
      <3> DEFINE a == [http[h] EXCEPT !.pc = "calling"]
      <3>1. a \in HttpRecord
        BY <1>1 DEF HttpRecord
      <3> HIDE DEF a
      <3>2. [a EXCEPT !.attempt = n] \in HttpRecord
        BY <2>1, <3>1 DEF HttpRecord
      <3> QED  BY <1>1, <3>2 DEF HttpRecord, a
    <2>4. /\ new.pc = "calling"
          /\ new.req = http[h].req /\ new.rows = http[h].rows
      BY <1>1 DEF HttpRecord
    <2> HIDE DEF new
    <2> QED  BY <1>1, <1>2, <2>2, <2>3, <2>4, ForwardKeeps
  <1>4. CASE ~ (http[h].attempt < Attempts)
    <2>1. Respond(h, "DeadlineExceeded", {})
      BY <1>4 DEF Timeout
    <2> QED  BY <1>1, <1>2, <2>1, RespondKeeps
  <1> QED  BY <1>3, <1>4

\* A client that goes away frees the slot.
LEMMA HangUpKeeps ==
    ASSUME AuthAssumption, GatewayAssumption, GatewayInv, [AuthNext]_authVars,
           NEW h \in Slot, HangUp(h)
    PROVE  GatewayInv'
  <1>1. http' = [http EXCEPT ![h] = Free] /\ UNCHANGED <<held, made, begun>>
    BY DEF HangUp
  <1>2. held' \subseteq DOMAIN issued'
    BY <1>1, TokensStay DEF GatewayInv, HeldInv
  <1>3. http'[h] = Free /\ begun' \in Nat /\ made' \in [Slot -> BOOLEAN]
    BY <1>1 DEF GatewayInv, GatewayTypeOK
  <1>4. RequestInv(h)'
    BY <1>3 DEF RequestInv, Free
  <1> QED  BY <1>1, <1>2, <1>3, <1>4, SlotStep

\* A read goes on to its SELECT, or is answered with rows of its wallet.
LEMMA ReadKeeps ==
    ASSUME AuthAssumption, GatewayAssumption, GatewayInv,
           NEW h \in Slot, http[h].pc \in {"checking", "select"},
           NEW new \in HttpRecord, new.pc \in {"select", "answered"},
           new.req = http[h].req,
           new.pc = "select" => new.rows = {} /\ Admitted(http[h].req.token),
           \A t \in new.rows : /\ Admitted(http[h].req.token)
                               /\ issued[http[h].req.token].wallet = t.merchant,
           http' = [http EXCEPT ![h] = new],
           UNCHANGED <<authVars, held, made, begun>>
    PROVE  GatewayInv'
  <1>1. http'[h] = new
    BY DEF GatewayInv, GatewayTypeOK
  <1>2. UNCHANGED issued
    BY DEF authVars, tables
  <1>3. \A j : Admitted(j)' <=> Admitted(j)
    BY <1>2 DEF Admitted
  <1>4. RequestInv(h)'
    BY <1>1, <1>2, <1>3 DEF GatewayInv, RequestInv, Reads
  <1>5. /\ held' \subseteq DOMAIN issued' /\ begun' \in Nat
        /\ made' \in [Slot -> BOOLEAN] /\ new \in {Free} \cup HttpRecord
    BY <1>2 DEF GatewayInv, GatewayTypeOK, HeldInv
  <1>6. [AuthNext]_authVars
    OBVIOUS
  <1> QED  BY <1>4, <1>5, <1>6, SlotStep

\* A read that is answered.
LEMMA FinishKeeps ==
    ASSUME AuthAssumption, GatewayAssumption, GatewayInv,
           NEW h \in Slot, http[h].pc \in {"checking", "select"},
           NEW status \in {200, 400, 401, 404, 500},
           NEW rows \in SUBSET Transaction,
           \A t \in rows : /\ Admitted(http[h].req.token)
                           /\ issued[http[h].req.token].wallet = t.merchant,
           Finish(h, status, rows),
           UNCHANGED <<authVars, held, made, begun>>
    PROVE  GatewayInv'
  <1> DEFINE new == [http[h] EXCEPT !.pc = "answered", !.status = status,
                                    !.rows = rows]
  <1>1. http[h] \in HttpRecord
    BY SlotTyped DEF GatewayInv
  <1>2. new \in HttpRecord
    <2> DEFINE a == [http[h] EXCEPT !.pc = "answered"]
               b == [a EXCEPT !.status = status]
    <2>1. a \in HttpRecord
      BY <1>1 DEF HttpRecord
    <2> HIDE DEF a
    <2>2. b \in HttpRecord
      BY <2>1 DEF HttpRecord
    <2> HIDE DEF b
    <2>3. [b EXCEPT !.rows = rows] \in HttpRecord
      BY <2>2 DEF HttpRecord
    <2> QED  BY <1>1, <2>3 DEF HttpRecord, a, b
  <1>3. new.pc = "answered" /\ new.req = http[h].req /\ new.rows = rows
    BY <1>1 DEF HttpRecord
  <1>4. http' = [http EXCEPT ![h] = new]
    BY Zenon DEF Finish
  <1> HIDE DEF new
  <1> QED  BY <1>2, <1>3, <1>4, ReadKeeps, ZenonT(60)

\* A read passes the middleware with a token only.
LEMMA AuthoriseKeeps ==
    ASSUME AuthAssumption, GatewayAssumption, GatewayInv,
           NEW h \in Slot, Authorise(h) \/ KeyFails(h)
    PROVE  GatewayInv'
  <1> DEFINE new == [http[h] EXCEPT !.pc = "select"]
  <1>1. /\ http[h].pc = "checking" /\ http[h] \in HttpRecord
        /\ UNCHANGED <<authVars, held, made, begun>>
    BY SlotTyped DEF Authorise, KeyFails, InState, GatewayInv
  <1>2. CASE Finish(h, 401, {}) \/ Finish(h, 400, {})
    BY <1>1, <1>2, FinishKeeps
  <1>3. CASE http[h].req.token # NoToken /\ http' = [http EXCEPT ![h] = new]
    <2>1. http' = [http EXCEPT ![h] = new]
      BY <1>3
    <2>2. /\ new \in HttpRecord /\ new.pc = "select"
          /\ new.req = http[h].req /\ new.rows = http[h].rows
      BY <1>1 DEF HttpRecord
    <2>3. http[h].rows = {} /\ Admitted(http[h].req.token)
      BY <1>1, <1>3 DEF GatewayInv, RequestInv
    <2> HIDE DEF new
    <2> QED  BY <1>1, <2>1, <2>2, <2>3, ReadKeeps
  <1>4. \/ Finish(h, 401, {}) \/ Finish(h, 400, {})
        \/ /\ http[h].req.token # NoToken
           /\ http' = [http EXCEPT ![h].pc = "select"]
    BY Zenon DEF Authorise, KeyFails, Decodes
  <1> QED  BY <1>2, <1>3, <1>4

\* The rows selected carry the wallet of the token.
LEMMA SelectKeeps ==
    ASSUME AuthAssumption, GatewayAssumption, GatewayInv,
           NEW h \in Slot, Select(h) \/ SelectFails(h)
    PROVE  GatewayInv'
  <1>1. /\ http[h].pc = "select"
        /\ UNCHANGED <<authVars, held, made, begun>>
    BY DEF Select, SelectFails, InState
  <1>2. Admitted(http[h].req.token)
    BY <1>1 DEF GatewayInv, RequestInv
  <1> DEFINE rows == Selected(http[h].req)
  <1>3. /\ rows \in SUBSET Transaction
        /\ \A t \in rows : issued[http[h].req.token].wallet = t.merchant
    BY DEF Selected
  <1>4. Finish(h, 404, {}) \/ Finish(h, 200, rows) \/ Finish(h, 500, {})
    BY DEF Select, SelectFails
  <1> HIDE DEF rows
  <1> QED  BY <1>1, <1>2, <1>3, <1>4, FinishKeeps

\* Steps of sso leave the slots alone.
LEMMA SsoKeeps ==
    ASSUME AuthAssumption, GatewayAssumption, GatewayInv, [AuthNext]_authVars,
           UNCHANGED <<http, held, begun>>, made' \in [Slot -> BOOLEAN]
    PROVE  GatewayInv'
  <1>1. IInv' /\ GivenInv'
    BY NextKeeps, GivenStays DEF GatewayInv
  <1>2. GatewayTypeOK'
    BY DEF GatewayInv, GatewayTypeOK
  <1>3. HeldInv'
    BY TokensStay DEF GatewayInv, HeldInv
  <1>4. \A h \in Slot : RequestInv(h)'
    BY OtherSlots
  <1> QED  BY <1>1, <1>2, <1>3, <1>4 DEF GatewayInv

-----------------------------------------------------------------------------
(* The theorems.                                                           *)

\* The invariant holds at the start.
LEMMA GatewayInitHolds ==
    ASSUME AuthAssumption, GatewayAssumption, Init
    PROVE  GatewayInv
  <1>1. IInv
    BY InitHolds DEF Init
  <1>2. GivenInv
    BY DEF Init, AuthInit, GivenInv, NoCall
  <1>3. GatewayTypeOK /\ HeldInv
    BY DEF Init, AuthInit, AuthAssumption, GatewayTypeOK, HeldInv
  <1>4. \A h \in Slot : RequestInv(h)
    BY DEF Init, RequestInv, Free
  <1> QED  BY <1>1, <1>2, <1>3, <1>4 DEF GatewayInv

\* Each step keeps it.
LEMMA GatewayNextKeeps ==
    ASSUME AuthAssumption, GatewayAssumption, GatewayInv, [Next]_vars
    PROVE  GatewayInv'
  <1>1. [AuthNext]_authVars
    BY StepOfSso
  <1>2. ASSUME NEW h \in Slot, NEW r \in Arriving, Begin(h, r)
        PROVE  GatewayInv'
    BY <1>2, BeginKeeps
  <1>3. ASSUME NEW h \in Slot, Handle(h)
        PROVE  GatewayInv'
    BY <1>1, <1>3, CallSsoKeeps, AnswerKeeps, TimeoutKeeps, AuthoriseKeeps
       DEF Handle
  <1>4. ASSUME NEW h \in Slot, HangUp(h)
        PROVE  GatewayInv'
    BY <1>1, <1>4, HangUpKeeps
  <1>5. ASSUME NEW h \in Slot, KeyFails(h) \/ Select(h) \/ SelectFails(h)
        PROVE  GatewayInv'
    BY <1>5, AuthoriseKeeps, SelectKeeps
  <1>6. made \in [Slot -> BOOLEAN]
    BY DEF GatewayInv, GatewayTypeOK
  <1>7. CASE UNCHANGED restVars
    BY <1>1, <1>6, <1>7, SsoKeeps DEF restVars
  <1>8. ASSUME NEW c \in Call, SsoServes(c)
        PROVE  GatewayInv'
    <2>1. made' \in [Slot -> BOOLEAN] /\ UNCHANGED <<http, held, begun>>
      BY <1>6, <1>8 DEF SsoServes, GatewayAssumption
    <2> QED  BY <1>1, <2>1, SsoKeeps
  <1> QED  BY <1>2, <1>3, <1>4, <1>5, <1>7, <1>8
              DEF Next, SsoProcess, Discard, vars

\* The inductive invariant of rest in front of sso (Next, every action).
THEOREM SpecGatewayInv == Spec => []GatewayInv
  <1>1. Init => GatewayInv
    BY AuthAssumption, GatewayAssumption, GatewayInitHolds
  <1>2. GatewayInv /\ [Next]_vars => GatewayInv'
    BY AuthAssumption, GatewayAssumption, GatewayNextKeeps
  <1> QED  BY <1>1, <1>2, PTL DEF Spec

\* rest implements the callers of sso: its client, with timeouts and attempts
\* that overlap, asks nothing that the specification of sso leaves out (Client).
THEOREM RestUsesSso == Spec => AuthSpec
  <1>1. Init => AuthInit
    BY DEF Init
  <1>2. GatewayInv /\ [Next]_vars => [AuthNext]_authVars
    BY GatewayAssumption, StepOfSso
  <1> QED  BY <1>1, <1>2, SpecGatewayInv, PTL DEF Spec, AuthSpec

\* A refresh through rest is refused after a logout was answered, also when
\* attempts of the client linger in sso (handlers, Client, sso).
THEOREM LogoutIsFinalBehindRest == Spec => []NoRefreshAfterLogout
  BY RestUsesSso, LogoutIsFinal, PTL

\* The state of rest has its types, whatever sso answers.
THEOREM GatewayTypes == Spec => []GatewayTypeOK
  BY SpecGatewayInv, PTL DEF GatewayInv

\* Rows are shown only to the holder of a token, and only those of a
\* wallet that an account was registered with (middleware.Auth, gettran, gettrans).
THEOREM RowsAreOfAccounts == Spec => []RowsOfTheAccount
  <1>1. GatewayInv => RowsOfTheAccount
    BY DEF GatewayInv, RequestInv, Admitted, IInv, TokensNameAccounts,
           RowsOfTheAccount, Answered, InState
  <1> QED  BY <1>1, SpecGatewayInv, PTL

-----------------------------------------------------------------------------
(* Answers are true: first what sso tells, then what rest makes of it.     *)

\* What an answer OK to request r with the tokens given says has happened.
SignedFor(j, email, wallet) ==
    j \in DOMAIN issued /\ issued[j].email = email /\ issued[j].wallet = wallet

Told(r, code, given) ==
    code = "OK" =>
        /\ r.op = "register" => AccountOf(r) \in users
        /\ r.op = "login" =>
             \E u \in users :
                 Matches(u, r) /\ \A j \in given : SignedFor(j, u.email, u.wallet)
        /\ r.op = "refresh" =>
             /\ r.token \in DOMAIN issued
             /\ \A j \in given : SignedFor(j, issued[r.token].email,
                                              issued[r.token].wallet)
        /\ r.op = "logout" =>
             r.token \in DOMAIN issued /\ (r.token \in blacklist \/ Expired(r.token))

\* A call that is answered was told the truth, and what it has read on the way
\* to its signature is of the account, or of the token, that it was asked for.
ToldInv(c) ==
    /\ Replied(c) => Told(call[c].req, call[c].code, call[c].given)
    /\ call[c].pc = "sign" /\ Op(c) = "login" =>
         \E u \in users : /\ Matches(u, call[c].req)
                          /\ call[c].claims.email = u.email
                          /\ call[c].claims.wallet = u.wallet
    /\ call[c].pc \in {"parsed", "sign"} /\ Op(c) = "refresh" =>
         SignedFor(call[c].req.token, call[c].claims.email, call[c].claims.wallet)

\* Nothing that happened is taken back by any action of sso or its callers.
LEMMA NextGrows ==
    ASSUME AuthAssumption, IInv, [AuthNext]_authVars
    PROVE  Grows
  <1>1. now \in Nat
    BY DEF IInv, AuthTypeOK
  <1>2. CASE \E c \in Call : Serve(c) \/ Fail(c)
    <2>1. UNCHANGED now
      BY <1>2
         DEF Serve, Reject, Register, Login, SignPair, Parse, Refresh,
             SignAccess, Logout, Fail
    <2>2. /\ users \subseteq users' /\ blacklist \subseteq blacklist'
          /\ registered \subseteq registered' /\ loggedOut \subseteq loggedOut'
      BY <1>2
         DEF Serve, Reject, Register, Login, SignPair, Parse, Refresh,
             SignAccess, Logout, Fail, PerhapsExecuted, tables, history
    <2> QED  BY <1>1, <2>1, <2>2, TokensStay DEF Grows
  <1>3. CASE Stop \/ Exit \/ Crash \/ Restart \/ Tick \/ UNCHANGED authVars
    <2>1. UNCHANGED <<users, blacklist, registered, loggedOut>>
      BY <1>3 DEF Stop, Exit, Crash, Restart, Tick, tables, history, authVars
    <2>2. now' \in {now, now + 1}
      BY <1>3 DEF Stop, Exit, Crash, Restart, Tick, authVars
    <2> QED  BY <1>1, <2>1, <2>2, TokensStay DEF Grows
  <1>4. CASE Callers
    BY <1>1, <1>4, TokensStay
       DEF Callers, Send, Receive, Abandon, tables, history, Grows
  <1> QED  BY <1>2, <1>3, <1>4 DEF AuthNext, ServiceNext

\* What was true when it was told stays so.
LEMMA ToldStays ==
    ASSUME AuthTypeOK, AuthTypeOK', Grows
    PROVE  /\ \A j, e, w : SignedFor(j, e, w) => SignedFor(j, e, w)'
           /\ \A r, code, given : Told(r, code, given) => Told(r, code, given)'
  <1>1. \A j \in DOMAIN issued :
          /\ j \in DOMAIN issued' /\ issued'[j] = issued[j]
          /\ Expired(j) => Expired(j)'
    BY Monotone DEF Grows
  <1>2. \A j, e, w : SignedFor(j, e, w) => SignedFor(j, e, w)'
    BY <1>1 DEF SignedFor
  <1>3. ASSUME NEW r, NEW code, NEW given, Told(r, code, given)
        PROVE  Told(r, code, given)'
    BY <1>1, <1>2, <1>3 DEF Told, Grows, Matches, AccountOf
  <1> QED  BY <1>2, <1>3

\* A call that a step leaves alone, but for the interest of its caller.
LEMMA ToldAlone ==
    ASSUME AuthTypeOK, AuthTypeOK', Grows, NEW c \in Call, ToldInv(c),
           call'[c].pc = call[c].pc, call'[c].req = call[c].req,
           call'[c].code = call[c].code, call'[c].given = call[c].given,
           call'[c].claims = call[c].claims
    PROVE  ToldInv(c)'
  <1>1. /\ \A j, e, w : SignedFor(j, e, w) => SignedFor(j, e, w)'
        /\ \A r, code, given : Told(r, code, given) => Told(r, code, given)'
    BY ToldStays
  <1>2. users \subseteq users'
    BY DEF Grows
  <1>3. Replied(c)' => Told(call[c].req, call[c].code, call[c].given)'
    BY <1>1 DEF ToldInv, Replied
  <1> QED  BY <1>1, <1>2, <1>3 DEF ToldInv, Replied, Op, Matches

\* A goroutine that answers: an error tells nothing.
LEMMA ReplyTells ==
    ASSUME AuthTypeOK, NEW c \in Call, call[c].pc \in Working,
           NEW code \in Code, NEW given \in SUBSET Nat, Reply(c, code, given),
           NEW r, r = call[c].req, Told(r, code, given)'
    PROVE  ToldInv(c)'
  <1>1. /\ call'[c].pc = "replied" /\ call'[c].code = code
        /\ call'[c].req = r /\ call'[c].given = given
    BY ReplyLemma
  <1> QED  BY <1>1 DEF ToldInv, Replied

\* The pair of a login is signed for the row that was read, the token of a
\* refresh for the claims of the one presented.
LEMMA SignTells ==
    ASSUME AuthAssumption, IInv, IInv', Grows, NEW c \in Call, ToldInv(c),
           SignPair(c) \/ SignAccess(c)
    PROVE  ToldInv(c)'
  <1>1. /\ call[c].pc = "sign" /\ call[c].pc \in Working /\ AuthTypeOK
        /\ Len(issued) \in Nat /\ issued \in Seq(Token)
        /\ AccessTTL \in Nat /\ RefreshTTL \in Nat
    BY DEF SignPair, SignAccess, At, Working, IInv, AuthTypeOK, AuthAssumption
  <1> DEFINE a == Signed("access", c, AccessTTL)
             b == Signed("refresh", c, RefreshTTL)
             k == call[c].claims
  <1>2. /\ a \in Token /\ a.email = k.email /\ a.wallet = k.wallet
        /\ b \in Token /\ b.email = k.email /\ b.wallet = k.wallet
    BY <1>1, SignedLemma
  <1>3. /\ \A j, e, w : SignedFor(j, e, w) => SignedFor(j, e, w)'
        /\ \A r, code, given : Told(r, code, given) => Told(r, code, given)'
    BY ToldStays DEF IInv
  <1>4. PICK r : r = call[c].req
    OBVIOUS
  <1>5. CASE SignPair(c)
    <2>0. PICK given : given = {Len(issued) + 1, Len(issued) + 2}
      OBVIOUS
    <2>1. /\ issued' = Append(Append(issued, a), b) /\ Op(c) = "login"
          /\ Reply(c, "OK", given) /\ UNCHANGED users
      BY <1>5, <2>0 DEF SignPair
    <2> HIDE DEF a, b
    <2>2. \A j \in given : /\ j \in DOMAIN issued'
                           /\ issued'[j].email = k.email
                           /\ issued'[j].wallet = k.wallet
      BY <1>1, <1>2, <2>0, <2>1
    <2>3. \E u \in users : /\ Matches(u, r)
                           /\ k.email = u.email /\ k.wallet = u.wallet
      BY <1>1, <1>4, <2>1 DEF ToldInv
    <2>4. r.op = "login" /\ given \in SUBSET Nat
      BY <1>1, <1>4, <2>0, <2>1 DEF Op
    <2> HIDE DEF k
    <2>5. Told(r, "OK", given)'
      BY <2>1, <2>2, <2>3, <2>4 DEF Told, SignedFor, Matches
    <2> QED  BY <1>1, <1>4, <2>1, <2>4, <2>5, ReplyTells DEF Code
  <1>6. CASE SignAccess(c)
    <2>0. PICK given : given = {Len(issued) + 1}
      OBVIOUS
    <2>1. /\ issued' = Append(issued, a) /\ Op(c) = "refresh"
          /\ Reply(c, "OK", given) /\ UNCHANGED users
      BY <1>6, <2>0 DEF SignAccess
    <2> HIDE DEF a, b
    <2>2. \A j \in given : /\ j \in DOMAIN issued'
                           /\ issued'[j].email = k.email
                           /\ issued'[j].wallet = k.wallet
      BY <1>1, <1>2, <2>0, <2>1
    <2>3. SignedFor(r.token, k.email, k.wallet)
      BY <1>1, <1>4, <2>1 DEF ToldInv
    <2>4. /\ r.token \in DOMAIN issued'
          /\ issued'[r.token].email = k.email
          /\ issued'[r.token].wallet = k.wallet
      BY <2>3, <1>3 DEF SignedFor
    <2>5. r.op = "refresh" /\ given \in SUBSET Nat
      BY <1>1, <1>4, <2>0, <2>1 DEF Op
    <2> HIDE DEF k
    <2>6. Told(r, "OK", given)'
      BY <2>2, <2>4, <2>5 DEF Told, SignedFor
    <2> QED  BY <1>1, <1>4, <2>1, <2>5, <2>6, ReplyTells DEF Code
  <1> QED  BY <1>5, <1>6

\* A goroutine that read a row or a token goes on with its claims.
LEMMA ReadTells ==
    ASSUME AuthAssumption, IInv, IInv', NEW c \in Call, ToldInv(c),
           Login(c) \/ Parse(c) \/ Refresh(c)
    PROVE  ToldInv(c)'
  <1>1. /\ call[c].pc \in Working /\ AuthTypeOK
        /\ call[c] \in CallRecord
        /\ UNCHANGED <<users, issued>>
    BY CallTyped DEF Login, Parse, Refresh, At, Working, tables, IInv
  <1>2. PICK r : r = call[c].req
    OBVIOUS
  <1>3. CASE \E code \in Code \ {"OK"} : Reply(c, code, {})
    BY <1>1, <1>2, <1>3, ReplyTells DEF Told
  <1>4. CASE \E u \in users :
               /\ Op(c) = "login" /\ Matches(u, call[c].req)
               /\ call' = [call EXCEPT ![c].pc = "sign", ![c].claims =
                      [email |-> u.email, wallet |-> u.wallet]]
    <2>1. PICK u \in users :
               /\ Op(c) = "login" /\ Matches(u, call[c].req)
               /\ call' = [call EXCEPT ![c].pc = "sign", ![c].claims =
                      [email |-> u.email, wallet |-> u.wallet]]
      BY <1>4
    <2> DEFINE k == [email |-> u.email, wallet |-> u.wallet]
    <2>2. k \in Claims
      BY DEF Claims, Account, IInv, AuthTypeOK
    <2>3. call'[c].pc = "sign" /\ call'[c].claims = k /\ call'[c].req = call[c].req
      BY <1>1, <2>1, <2>2, AdvanceLemma DEF Working
    <2>4. /\ u \in users' /\ Matches(u, call'[c].req)
          /\ k.email = u.email /\ k.wallet = u.wallet
      BY <1>1, <2>1, <2>3
    <2>5. call'[c].req.op = "login"
      BY <2>1, <2>3 DEF Op
    <2> HIDE DEF k
    <2> QED  BY <2>3, <2>4, <2>5 DEF ToldInv, Replied, Op, Matches
  <1>5. CASE Parse(c) /\ ~ Expired(call[c].req.token)
    <2> DEFINE j == call[c].req.token
               k == [email |-> issued[j].email, wallet |-> issued[j].wallet]
    <2>1. call' = [call EXCEPT ![c].pc = "parsed", ![c].claims = k]
      BY <1>5 DEF Parse
    <2>2. j \in DOMAIN issued
      BY <1>1, <1>5, PresentedExists DEF Parse
    <2>3. k \in Claims
      BY <2>2, TokenTyped DEF Token, Claims, IInv
    <2>4. /\ call'[c].pc = "parsed" /\ call'[c].claims = k
          /\ call'[c].req = call[c].req
      BY <1>1, <2>1, <2>3, AdvanceLemma, ZenonT(60) DEF Working
    <2> QED  BY <1>1, <2>2, <2>4 DEF ToldInv, Replied, SignedFor
  <1>6. CASE Refresh(c) /\ call' = [call EXCEPT ![c].pc = "sign"]
    <2>1. /\ call'[c].pc = "sign" /\ call'[c].claims = call[c].claims
          /\ call'[c].req = call[c].req
      BY <1>1, <1>6 DEF CallRecord, AuthTypeOK
    <2>2. call[c].pc = "parsed" /\ call[c].req.op = "refresh"
      BY <1>6 DEF Refresh, At, Op
    <2> QED  BY <1>1, <2>1, <2>2 DEF ToldInv, Replied, Op, SignedFor
  <1>7. CASE Login(c)
    BY <1>3, <1>4, <1>7 DEF Login, Code
  <1>8. CASE Parse(c)
    BY <1>3, <1>5, <1>8 DEF Parse, FailureCode, Code
  <1>9. CASE Refresh(c)
    BY <1>3, <1>6, <1>9 DEF Refresh, Code
  <1> QED  BY <1>7, <1>8, <1>9

\* A goroutine that writes, or refuses at once, tells what the tables show.
LEMMA WriteTells ==
    ASSUME AuthAssumption, IInv, IInv', Grows, NEW c \in Call,
           Reject(c) \/ Register(c) \/ Logout(c)
    PROVE  ToldInv(c)'
  <1>1. call[c].pc \in Working /\ AuthTypeOK
    BY DEF Reject, Register, Logout, At, Working, IInv
  <1>2. PICK r : r = call[c].req
    OBVIOUS
  <1>3. CASE \E code \in Code \ {"OK"} : Reply(c, code, {})
    BY <1>1, <1>2, <1>3, ReplyTells DEF Told
  <1>4. CASE /\ Op(c) = "register" /\ users' = users \cup {AccountOf(r)}
             /\ Reply(c, "OK", {})
    <2>1. Told(r, "OK", {})'
      BY <1>2, <1>4 DEF Told, Op, AccountOf
    <2> QED  BY <1>1, <1>2, <1>4, <2>1, ReplyTells DEF Code
  <1>5. CASE Logout(c)
    <2>1. /\ call[c].pc = "parsed" /\ Op(c) = "logout"
          /\ blacklist' = IF Expired(r.token) THEN blacklist
                                             ELSE blacklist \cup {r.token}
          /\ UNCHANGED <<issued, now>> /\ Reply(c, "OK", {})
      BY <1>2, <1>5 DEF Logout, At
    <2>2. r.op = "logout" /\ r.token \in DOMAIN issued
      BY <1>2, <2>1 DEF IInv, CallInv, Op
    <2>3. Told(r, "OK", {})'
      BY <2>1, <2>2 DEF Told, Expired
    <2> QED  BY <1>1, <1>2, <2>1, <2>3, ReplyTells DEF Code
  <1>6. CASE Reject(c)
    BY <1>3, <1>6 DEF Reject, Code
  <1>7. CASE Register(c)
    BY <1>2, <1>3, <1>4, <1>7 DEF Register, Code
  <1> QED  BY <1>5, <1>6, <1>7

\* What a failure answers tells nothing either.
LEMMA FailTells ==
    ASSUME AuthAssumption, IInv, NEW c \in Call, Fail(c)
    PROVE  ToldInv(c)'
  <1>1. call[c] \in CallRecord
    BY CallTyped DEF Fail, Working, IInv
  <1>2. /\ call' = [call EXCEPT ![c].pc = "replied", ![c].hit = TRUE,
                               ![c].code = FailureCode(Op(c))]
        /\ FailureCode(Op(c)) # "OK"
    BY DEF Fail, FailureCode
  <1>3. call'[c].pc = "replied" /\ call'[c].code # "OK"
    BY <1>1, <1>2 DEF CallRecord, IInv, AuthTypeOK
  <1> QED  BY <1>3 DEF ToldInv, Told

\* A call that is not there, has just been sent or was broken off by a crash.
LEMMA NothingTold ==
    ASSUME NEW c, \/ call'[c].pc \in {"idle", "sent"}
                  \/ call'[c].pc = "replied" /\ call'[c].code # "OK"
    PROVE  ToldInv(c)'
  BY DEF ToldInv, Told, Replied

\* What sso has told its callers stays true, and what it tells them is true.
LEMMA CallsTell ==
    ASSUME AuthAssumption, IInv, \A c \in Call : ToldInv(c), [AuthNext]_authVars
    PROVE  \A c \in Call : ToldInv(c)'
  <1>1. IInv' /\ Grows /\ AuthTypeOK /\ AuthTypeOK'
    BY NextKeeps, NextGrows DEF IInv
  <1>2. ASSUME NEW d \in Call, call'[d] = call[d]
        PROVE  ToldInv(d)'
    BY <1>1, <1>2, ToldAlone
  <1>3. ASSUME NEW c \in Call, Serve(c) \/ Fail(c)
        PROVE  \A d \in Call \ {c} : call'[d] = call[d]
    BY <1>1, <1>3
       DEF Serve, Reject, Register, Login, SignPair, Parse, Refresh,
           SignAccess, Logout, Reply, Fail, AuthTypeOK
  <1>4. ASSUME NEW c \in Call, Serve(c) \/ Fail(c)
        PROVE  ToldInv(c)'
    BY <1>1, <1>4, SignTells, ReadTells, WriteTells, FailTells DEF Serve
  <1>5. CASE Stop \/ Exit \/ Restart \/ Tick \/ UNCHANGED authVars
    BY <1>2, <1>5 DEF Stop, Exit, Restart, Tick, authVars
  <1>6. CASE Crash
    <2> SUFFICES ASSUME NEW d \in Call PROVE ToldInv(d)'
      OBVIOUS
    <2>1. CASE ~ Waiting(d)
      <3>1. call'[d] = NoCall
        BY <1>6, <2>1 DEF Crash
      <3> QED  BY <3>1, NothingTold DEF NoCall
    <2>2. CASE Waiting(d)
      <3>1. call[d] \in CallRecord
        BY <1>1, <2>2 DEF Waiting, AuthTypeOK
      <3>2. call'[d] = [call[d] EXCEPT !.pc = "replied",
                           !.code = "Unavailable", !.given = {}, !.hit = TRUE]
        BY <1>6, <2>2 DEF Crash
      <3>3. call'[d].pc = "replied" /\ call'[d].code # "OK"
        BY <3>1, <3>2 DEF CallRecord
      <3> QED  BY <3>3, NothingTold
    <2> QED  BY <2>1, <2>2
  <1>7. ASSUME NEW c \in Call, NEW r, Send(c, r)
        PROVE  /\ call'[c].pc = "sent"
               /\ \A d \in Call \ {c} : call'[d] = call[d]
    BY <1>1, <1>7 DEF Send, AuthTypeOK
  <1>8. ASSUME NEW c \in Call, Receive(c)
        PROVE  /\ call'[c].pc = "idle"
               /\ \A d \in Call \ {c} : call'[d] = call[d]
    BY <1>1, <1>8 DEF Receive, NoCall, AuthTypeOK
  <1>9. ASSUME NEW c \in Call, Abandon(c)
        PROVE  /\ ToldInv(c)'
               /\ \A d \in Call \ {c} : call'[d] = call[d]
    <2>1. call[c] \in CallRecord
      BY <1>1, <1>9 DEF Abandon, Waiting, AuthTypeOK
    <2>2. /\ call'[c].pc = call[c].pc /\ call'[c].req = call[c].req
          /\ call'[c].code = call[c].code /\ call'[c].given = call[c].given
          /\ call'[c].claims = call[c].claims
          /\ \A d \in Call \ {c} : call'[d] = call[d]
      BY <1>1, <1>9, <2>1 DEF Abandon, AuthTypeOK, CallRecord
    <2> QED  BY <1>1, <2>2, ToldAlone
  <1>10. CASE Callers
    BY <1>2, <1>7, <1>8, <1>9, <1>10, NothingTold DEF Callers
  <1> QED  BY <1>2, <1>3, <1>4, <1>5, <1>6, <1>10 DEF AuthNext, ServiceNext

-----------------------------------------------------------------------------
(* What rest makes of it.                                                  *)

\* The calls of a slot are attempts of its request, and the last one is waited
\* for, or was given up with the request.
AttemptInv(h) ==
    http[h].pc # "free" =>
        \A n \in 1..Attempts : call[<<h, n>>].pc # "idle" =>
            /\ call[<<h, n>>].req = http[h].req
            /\ n <= http[h].attempt
            /\ n = http[h].attempt =>
                 \/ http[h].pc = "waiting"
                 \/ http[h].pc = "answered" /\ http[h].code = "DeadlineExceeded"

\* An attempt that succeeded has created the account, and the first one that has
\* created it does not find it there.
MadeInv(h) ==
    http[h].pc # "free" /\ http[h].req.op = "register" =>
        /\ \A n \in 1..Attempts : Succeeded(<<h, n>>) => made[h]
        /\ http[h].attempt = 1 /\ made[h] =>
             /\ http[h].pc # "calling"
             /\ http[h].pc = "waiting" /\ call[<<h, 1>>].pc # "idle" =>
                  Replied(<<h, 1>>) /\ call[<<h, 1>>].code # "AlreadyExists"

AnswerInv(h) ==
    Answered(h) =>
        /\ Told(http[h].req, http[h].code, http[h].given)
        /\ http[h].req.op = "register" =>
             /\ http[h].code = "OK" => made[h]
             /\ http[h].code = "AlreadyExists" /\ http[h].attempt = 1 => ~ made[h]

SlotInv(h) == AttemptInv(h) /\ MadeInv(h) /\ AnswerInv(h)

TruthInv ==
    /\ \A c \in Call : ToldInv(c)
    /\ \A h \in Slot : SlotInv(h)

\* A call ends, or the step does no more than break it off.
Fades(c) ==
    \/ call'[c].pc = "idle"
    \/ /\ call[c].pc # "idle" /\ call'[c].req = call[c].req
       /\ Succeeded(c)' => Succeeded(c)
       /\ Replied(c) => Replied(c)'
       /\ call'[c].code = "AlreadyExists" => call[c].code = "AlreadyExists"

\* A slot keeps its part if its calls only fade and it does nothing itself.
LEMMA SlotAlone ==
    ASSUME GatewayAssumption, AuthTypeOK, AuthTypeOK', Grows,
           NEW h \in Slot, SlotInv(h),
           http'[h] = http[h], made'[h] = made[h],
           \A n \in 1..Attempts : Fades(<<h, n>>)
    PROVE  SlotInv(h)'
  <1>1. AttemptInv(h)'
    BY DEF SlotInv, AttemptInv, Fades
  <1>2. MadeInv(h)'
    <2>1. 1 \in 1..Attempts
      BY AttemptsNat
    <2>2. Fades(<<h, 1>>)
      BY <2>1
    <2> QED  BY <2>2 DEF SlotInv, MadeInv, Fades, Succeeded, Replied
  <1>3. \A r, code, given : Told(r, code, given) => Told(r, code, given)'
    BY ToldStays
  <1>4. AnswerInv(h)'
    BY <1>3 DEF SlotInv, AnswerInv, Answered, InState
  <1> QED  BY <1>1, <1>2, <1>4 DEF SlotInv

\* A call that a step leaves alone fades.
LEMMA StillFades ==
    ASSUME NEW c, call'[c] = call[c]
    PROVE  Fades(c)
  BY DEF Fades, Succeeded, Replied

\* A step of one slot and its calls.
LEMMA OneSlotTells ==
    ASSUME GatewayAssumption, AuthTypeOK, AuthTypeOK', Grows, NEW h \in Slot,
           \A g \in Slot : SlotInv(g),
           \A g \in Slot \ {h} :
              /\ http'[g] = http[g] /\ made'[g] = made[g]
              /\ \A n \in 1..Attempts : call'[<<g, n>>] = call[<<g, n>>],
           SlotInv(h)'
    PROVE  \A g \in Slot : SlotInv(g)'
  <1> SUFFICES ASSUME NEW g \in Slot, g # h PROVE SlotInv(g)'
    OBVIOUS
  <1>1. \A n \in 1..Attempts : Fades(<<g, n>>)
    BY StillFades
  <1> QED  BY <1>1, SlotAlone

\* What the process, the clock and the callers that lose interest do to calls.
LEMMA QuietFades ==
    ASSUME AuthTypeOK,
           \/ Stop \/ Exit \/ Crash \/ Restart \/ Tick \/ UNCHANGED authVars
           \/ \E d \in Call : Receive(d) \/ Abandon(d),
           NEW c \in Call
    PROVE  Fades(c)
  <1>1. CASE call'[c] = call[c]
    BY <1>1, StillFades
  <1>2. CASE Crash
    <2>1. CASE ~ Waiting(c)
      BY <1>2, <2>1 DEF Crash, NoCall, Fades
    <2>2. CASE Waiting(c)
      <3>1. call[c] \in CallRecord
        BY <2>2 DEF Waiting, AuthTypeOK
      <3>2. call'[c] = [call[c] EXCEPT !.pc = "replied",
                           !.code = "Unavailable", !.given = {}, !.hit = TRUE]
        BY <1>2, <2>2 DEF Crash
      <3>3. /\ call'[c].pc = "replied" /\ call'[c].code = "Unavailable"
            /\ call'[c].req = call[c].req /\ call[c].pc # "idle"
        BY <3>1, <3>2 DEF CallRecord, Working
      <3> QED  BY <3>3 DEF Fades, Succeeded, Replied
    <2> QED  BY <2>1, <2>2
  <1>3. ASSUME NEW d \in Call, Receive(d)
        PROVE  call'[c] = call[c] \/ call'[c].pc = "idle"
    BY <1>3 DEF Receive, NoCall, AuthTypeOK
  <1>4. ASSUME NEW d \in Call, Abandon(d)
        PROVE  Fades(c)
    <2>1. call[d] \in CallRecord
      BY <1>4 DEF Abandon, Waiting, AuthTypeOK
    <2>2. /\ call'[d].pc = call[d].pc /\ call'[d].req = call[d].req
          /\ call'[d].code = call[d].code /\ call[d].pc # "idle"
          /\ c # d => call'[c] = call[c]
      BY <1>4, <2>1 DEF Abandon, AuthTypeOK, CallRecord, Working
    <2>3. CASE c = d
      BY <2>2, <2>3 DEF Fades, Succeeded, Replied
    <2> QED  BY <1>1, <2>2, <2>3
  <1>5. CASE Stop \/ Exit \/ Restart \/ Tick \/ UNCHANGED authVars
    BY <1>1, <1>5 DEF Stop, Exit, Restart, Tick, authVars
  <1> QED  BY <1>1, <1>2, <1>3, <1>4, <1>5 DEF Fades

\* A goroutine of sso touches its own call only, and stores an account exactly
\* if the register it serves succeeds, or fails in a way of its own.
LEMMA ServeMakes ==
    ASSUME IInv, NEW c \in Call, Serve(c) \/ Fail(c)
    PROVE  /\ call[c].pc \in Working
           /\ \A d \in Call \ {c} : call'[d] = call[d]
           /\ call'[c].req = call[c].req /\ call'[c].pc # "idle"
           /\ users' # users =>
                /\ Op(c) = "register"
                /\ call'[c].pc = "replied" /\ call'[c].code # "AlreadyExists"
           /\ Op(c) = "register" /\ Succeeded(c)' => users' # users
  <1>1. AuthTypeOK
    BY DEF IInv
  <1>2. call[c].pc \in Working
    BY DEF Serve, Reject, Register, Login, SignPair, Parse, Refresh,
           SignAccess, Logout, Fail, At, Working
  <1>3. call[c] \in CallRecord
    BY <1>1, <1>2, CallTyped DEF Working
  <1>4. CASE \E code \in Code, given \in SUBSET Nat :
               /\ Reply(c, code, given)
               /\ UNCHANGED users /\ (Op(c) = "register" => code # "OK")
    <2>1. PICK code \in Code, given \in SUBSET Nat :
               /\ Reply(c, code, given)
               /\ UNCHANGED users /\ (Op(c) = "register" => code # "OK")
      BY <1>4
    <2>2. /\ call'[c].pc = "replied" /\ call'[c].code = code
          /\ call'[c].req = call[c].req
          /\ \A d \in Call \ {c} : call'[d] = call[d]
      BY <1>1, <1>2, <2>1, ReplyLemma
    <2> QED  BY <1>2, <2>1, <2>2 DEF Succeeded
  <1>5. CASE \E pc \in Working, claims \in Claims :
               /\ call' = [call EXCEPT ![c].pc = pc, ![c].claims = claims]
               /\ UNCHANGED users
    <2>1. PICK pc \in Working, claims \in Claims :
               /\ call' = [call EXCEPT ![c].pc = pc, ![c].claims = claims]
               /\ UNCHANGED users
      BY <1>5
    <2>2. /\ call'[c].pc = pc /\ call'[c].req = call[c].req
          /\ \A d \in Call \ {c} : call'[d] = call[d]
      BY <1>1, <1>2, <2>1, AdvanceLemma
    <2> QED  BY <1>2, <2>1, <2>2 DEF Succeeded, Replied, Working
  <1>6. CASE Reject(c)
    <2>1. UNCHANGED users
      BY <1>6 DEF Reject, tables
    <2> QED  BY <1>4, <1>6, <2>1 DEF Reject, Code
  <1>7. CASE Register(c)
    <2> DEFINE r == call[c].req
    <2>1. CASE \E code \in Code \ {"OK"} : Reply(c, code, {}) /\ UNCHANGED users
      BY <1>4, <2>1
    <2>2. CASE /\ Storable(r) /\ users' = users \cup {AccountOf(r)}
               /\ Reply(c, "OK", {}) /\ Op(c) = "register"
      <3>1. AccountOf(r) \notin users
        BY <2>2 DEF Storable, Taken, AccountOf
      <3>2. /\ call'[c].pc = "replied" /\ call'[c].code = "OK"
            /\ call'[c].req = call[c].req
            /\ \A d \in Call \ {c} : call'[d] = call[d]
        BY <1>1, <1>2, <2>2, ReplyLemma DEF Code
      <3> QED  BY <1>2, <2>2, <3>1, <3>2
    <2> QED  BY <1>7, <2>1, <2>2 DEF Register, Code
  <1>8. CASE Login(c)
    <2>1. UNCHANGED users /\ Op(c) = "login"
      BY <1>8 DEF Login, tables
    <2>2. \A u \in users : [email |-> u.email, wallet |-> u.wallet] \in Claims
      BY DEF Claims, Account, IInv, AuthTypeOK
    <2>3. \/ Reply(c, "InvalidArgument", {})
          \/ \E u \in users : call' = [call EXCEPT ![c].pc = "sign",
                 ![c].claims = [email |-> u.email, wallet |-> u.wallet]]
      BY Zenon, <1>8 DEF Login
    <2>4. CASE Reply(c, "InvalidArgument", {})
      BY <1>4, <2>1, <2>4 DEF Code
    <2>5. CASE \E u \in users : call' = [call EXCEPT ![c].pc = "sign",
                 ![c].claims = [email |-> u.email, wallet |-> u.wallet]]
      BY <1>5, <2>1, <2>2, <2>5 DEF Working
    <2> QED  BY <2>3, <2>4, <2>5
  <1>9. CASE Parse(c)
    <2> DEFINE j == call[c].req.token
               k == [email |-> issued[j].email, wallet |-> issued[j].wallet]
    <2>1. UNCHANGED users /\ Op(c) \in {"refresh", "logout"}
      BY <1>9 DEF Parse, tables
    <2>2. k \in Claims
      BY <1>2, <1>9, PresentedExists, TokenTyped DEF Parse, Token, Claims, IInv
    <2>3. \/ \E code \in Code : Reply(c, code, {})
          \/ call' = [call EXCEPT ![c].pc = "parsed", ![c].claims = k]
      BY <1>9 DEF Parse, FailureCode, Code
    <2> HIDE DEF k
    <2> QED  BY <1>4, <1>5, <2>1, <2>2, <2>3 DEF Working
  <1>10. CASE Refresh(c)
    <2>1. UNCHANGED users /\ Op(c) = "refresh"
      BY <1>10 DEF Refresh, tables
    <2>2. CASE Reply(c, "InvalidArgument", {})
      BY <1>4, <2>1, <2>2 DEF Code
    <2>3. CASE call' = [call EXCEPT ![c].pc = "sign"]
      <3>1. /\ call'[c].pc = "sign" /\ call'[c].req = call[c].req
            /\ \A d \in Call \ {c} : call'[d] = call[d]
        BY <1>1, <1>3, <2>3 DEF CallRecord, AuthTypeOK
      <3> QED  BY <1>2, <2>1, <3>1
    <2> QED  BY <1>10, <2>2, <2>3 DEF Refresh
  <1>11. CASE SignPair(c) \/ SignAccess(c) \/ Logout(c)
    <2>1. UNCHANGED users /\ Op(c) # "register"
      BY <1>11 DEF SignPair, SignAccess, Logout
    <2>2. \E given \in SUBSET Nat : Reply(c, "OK", given)
      BY <1>1, <1>11 DEF SignPair, SignAccess, Logout, AuthTypeOK
    <2> QED  BY <1>4, <2>1, <2>2 DEF Code
  <1>12. CASE Fail(c)
    <2>1. call' = [call EXCEPT ![c].pc = "replied", ![c].hit = TRUE,
                               ![c].code = FailureCode(Op(c))]
      BY <1>12 DEF Fail
    <2>2. /\ call'[c].pc = "replied" /\ call'[c].code = FailureCode(Op(c))
          /\ call'[c].req = call[c].req
          /\ \A d \in Call \ {c} : call'[d] = call[d]
      BY <1>1, <1>3, <2>1 DEF CallRecord, AuthTypeOK
    <2>3. users' # users => Op(c) = "register"
      BY <1>12 DEF Fail, PerhapsExecuted
    <2> QED  BY <1>2, <2>2, <2>3 DEF FailureCode, Succeeded
  <1> QED  BY <1>6, <1>7, <1>8, <1>9, <1>10, <1>11, <1>12 DEF Serve

\* sso serves an attempt of a slot.
LEMMA ServeTells ==
    ASSUME GatewayAssumption, GatewayInv, AuthTypeOK', Grows,
           NEW h \in Slot, NEW n \in 1..Attempts,
           Serve(<<h, n>>) \/ Fail(<<h, n>>), SlotInv(h),
           http'[h] = http[h],
           made'[h] = (made[h] \/ users' # users)
    PROVE  SlotInv(h)'
  <1> DEFINE c == <<h, n>>
  <1>1. c \in Call /\ IInv /\ AuthTypeOK /\ made[h] \in BOOLEAN
    BY DEF GatewayAssumption, GatewayInv, IInv, GatewayTypeOK
  <1>2. /\ call[c].pc \in Working
        /\ \A d \in Call \ {c} : call'[d] = call[d]
        /\ call'[c].req = call[c].req /\ call'[c].pc # "idle"
        /\ users' # users =>
             /\ Op(c) = "register"
             /\ call'[c].pc = "replied" /\ call'[c].code # "AlreadyExists"
        /\ Op(c) = "register" /\ Succeeded(c)' => users' # users
    BY <1>1, ServeMakes
  <1>3. /\ \A m \in 1..Attempts \ {n} : call'[<<h, m>>] = call[<<h, m>>]
        /\ call[c].pc # "idle" /\ ~ Replied(c)
    BY <1>2 DEF GatewayAssumption, Working, Replied
  <1>4. http[h].pc # "free" =>
          /\ call[c].req = http[h].req
          /\ n <= http[h].attempt
          /\ n = http[h].attempt =>
               \/ http[h].pc = "waiting"
               \/ http[h].pc = "answered" /\ http[h].code = "DeadlineExceeded"
    BY <1>3 DEF SlotInv, AttemptInv
  <1>5. AttemptInv(h)'
    BY <1>2, <1>3, <1>4 DEF SlotInv, AttemptInv
  <1>6. made[h] => made'[h]
    OBVIOUS
  <1>7. http[h].pc # "free" /\ http[h].attempt = 1 => n = 1
    BY <1>4
  <1>8. MadeInv(h)'
    <2> SUFFICES ASSUME http[h].pc # "free", http[h].req.op = "register"
                 PROVE  MadeInv(h)'
      BY DEF MadeInv
    <2>1. Op(c) = "register"
      BY <1>4 DEF Op
    <2>2. ASSUME NEW m \in 1..Attempts, Succeeded(<<h, m>>)'
          PROVE  made'[h]
      <3>1. CASE m = n
        BY <1>2, <2>1, <2>2, <3>1
      <3>2. CASE m # n
        BY <1>3, <1>6, <2>2, <3>2 DEF SlotInv, MadeInv, Succeeded, Replied
      <3> QED  BY <3>1, <3>2
    <2>3. ASSUME http[h].attempt = 1, made'[h]
          PROVE  /\ http[h].pc # "calling"
                 /\ http[h].pc = "waiting" =>
                      Replied(<<h, 1>>)' /\ call'[<<h, 1>>].code # "AlreadyExists"
      <3>1. http[h].pc \in {"waiting", "answered"}
        BY <1>4, <1>7, <2>3
      <3>2. made[h] => http[h].pc # "waiting"
        BY <1>3, <1>7, <2>3 DEF SlotInv, MadeInv
      <3> QED  BY <1>2, <1>7, <2>3, <3>1, <3>2 DEF Replied
    <2> QED  BY <2>2, <2>3 DEF MadeInv
  <1>9. AnswerInv(h)'
    <2>1. \A r, code, given : Told(r, code, given) => Told(r, code, given)'
      BY <1>1, ToldStays
    <2>2. ~ (/\ Answered(h) /\ http[h].attempt = 1
             /\ http[h].code = "AlreadyExists")
      BY <1>4, <1>7 DEF Answered, InState
    <2> QED  BY <1>6, <2>1, <2>2 DEF SlotInv, AnswerInv, Answered, InState
  <1> QED  BY <1>5, <1>8, <1>9 DEF SlotInv

\* A request that is answered keeps its body and its attempt.
LEMMA RespondLemma ==
    ASSUME GatewayTypeOK, NEW h \in Slot, http[h] \in HttpRecord,
           NEW code, NEW given, Respond(h, code, given)
    PROVE  /\ http'[h].pc = "answered" /\ http'[h].code = code
           /\ http'[h].given = given /\ http'[h].req = http[h].req
           /\ http'[h].attempt = http[h].attempt
           /\ \A g \in Slot \ {h} : http'[g] = http[g]
  <1> DEFINE status == StatusOf(http[h].req.op, code)
  <1>1. http' = [http EXCEPT ![h].pc = "answered", ![h].code = code,
                             ![h].status = status, ![h].given = given]
    BY DEF Respond
  <1> HIDE DEF status
  <1> QED  BY <1>1 DEF GatewayTypeOK, HttpRecord

\* A slot that begins has no calls.
LEMMA BeginTells ==
    ASSUME GatewayAssumption, GatewayInv, AuthTypeOK', Grows,
           \A g \in Slot : SlotInv(g),
           NEW h \in Slot, NEW r, Begin(h, r)
    PROVE  \A g \in Slot : SlotInv(g)'
  <1>1. /\ http'[h].pc \in {"calling", "checking"} /\ http'[h].attempt = 1
        /\ made'[h] = FALSE /\ UNCHANGED call
        /\ \A g \in Slot \ {h} : http'[g] = http[g] /\ made'[g] = made[g]
    BY DEF Begin, GatewayInv, GatewayTypeOK, authVars
  <1>2. \A n \in 1..Attempts : call'[<<h, n>>].pc = "idle"
    BY <1>1 DEF Begin, NoCall
  <1>3. SlotInv(h)'
    BY <1>1, <1>2
       DEF SlotInv, AttemptInv, MadeInv, AnswerInv, Answered, InState,
           Succeeded, Replied
  <1> QED  BY <1>1, <1>3, OneSlotTells DEF GatewayInv, IInv

\* The call of an attempt is the request's; there was none of that number.
LEMMA CallSsoTells ==
    ASSUME GatewayAssumption, GatewayInv, AuthTypeOK', Grows,
           \A g \in Slot : SlotInv(g), NEW h \in Slot, CallSso(h)
    PROVE  \A g \in Slot : SlotInv(g)'
  <1> DEFINE n == http[h].attempt
  <1>1. http[h].pc = "calling" /\ http[h] \in HttpRecord /\ n \in 1..Attempts
    BY SlotTyped DEF CallSso, InState, GatewayInv
  <1>2. /\ http'[h].pc = "waiting" /\ http'[h].req = http[h].req
        /\ http'[h].attempt = n
        /\ made' = made
        /\ \A g \in Slot \ {h} : http'[g] = http[g]
    BY <1>1 DEF CallSso, GatewayInv, GatewayTypeOK, HttpRecord
  <1>3. /\ call'[<<h, n>>].pc = "sent" /\ call'[<<h, n>>].req = http[h].req
        /\ \A d \in Call \ {<<h, n>>} : call'[d] = call[d]
    <2>1. <<h, n>> \in Call /\ Send(<<h, n>>, http[h].req)
      BY <1>1 DEF GatewayAssumption, CallSso, Current
    <2> QED  BY <2>1 DEF Send, GatewayInv, IInv, AuthTypeOK
  <1>4. \A g \in Slot, m \in 1..Attempts :
          g # h \/ m # n => call'[<<g, m>>] = call[<<g, m>>]
    BY <1>3 DEF GatewayAssumption
  <1>5. AttemptInv(h)'
    BY <1>1, <1>2, <1>3, <1>4 DEF SlotInv, AttemptInv
  <1>6. MadeInv(h)'
    <2>1. call'[<<h, n>>].pc # "replied"
      BY <1>3
    <2>2. \A m \in 1..Attempts : Succeeded(<<h, m>>)' => Succeeded(<<h, m>>)
      BY <1>4, <2>1 DEF Succeeded, Replied
    <2> QED  BY <1>1, <1>2, <2>2 DEF SlotInv, MadeInv
  <1>7. AnswerInv(h)'
    BY <1>2 DEF AnswerInv, Answered, InState
  <1> QED  BY <1>2, <1>4, <1>5, <1>6, <1>7, OneSlotTells
              DEF SlotInv, GatewayInv, IInv

\* Without a connection there is no call, and nothing is told.
LEMMA NoConnectionTells ==
    ASSUME GatewayAssumption, GatewayInv, AuthTypeOK', Grows,
           \A g \in Slot : SlotInv(g), NEW h \in Slot, NoConnection(h)
    PROVE  \A g \in Slot : SlotInv(g)'
  <1>1. /\ http[h].pc = "calling" /\ http[h] \in HttpRecord
        /\ Respond(h, "Unavailable", {}) /\ call' = call /\ made' = made
    BY SlotTyped DEF NoConnection, InState, GatewayInv, authVars
  <1>2. /\ http'[h].pc = "answered" /\ http'[h].code = "Unavailable"
        /\ http'[h].req = http[h].req /\ http'[h].attempt = http[h].attempt
        /\ \A g \in Slot \ {h} : http'[g] = http[g]
    BY <1>1, RespondLemma DEF GatewayInv
  <1>3. AttemptInv(h)' /\ MadeInv(h)'
    BY <1>1, <1>2, ZenonT(60) DEF SlotInv, AttemptInv, MadeInv, Succeeded, Replied
  <1>4. AnswerInv(h)'
    BY <1>2 DEF AnswerInv, Told
  <1> QED  BY <1>1, <1>2, <1>3, <1>4, OneSlotTells DEF SlotInv, GatewayInv, IInv

\* What sso answered the attempt that is waited for is passed on.
LEMMA AnswerTells ==
    ASSUME GatewayAssumption, GatewayInv, AuthTypeOK', Grows, TruthInv,
           NEW h \in Slot, Answer(h)
    PROVE  \A g \in Slot : SlotInv(g)'
  <1> DEFINE n == http[h].attempt
             c == <<h, n>>
  <1>1. /\ http[h].pc = "waiting" /\ http[h] \in HttpRecord
        /\ n \in 1..Attempts /\ c \in Call
        /\ Receive(c) /\ Respond(h, call[c].code, call[c].given)
        /\ made' = made
    BY SlotTyped DEF Answer, InState, Current, GatewayInv
  <1>2. /\ http'[h].pc = "answered" /\ http'[h].code = call[c].code
        /\ http'[h].given = call[c].given
        /\ http'[h].req = http[h].req /\ http'[h].attempt = n
        /\ \A g \in Slot \ {h} : http'[g] = http[g]
    <2>1. PICK code, given : code = call[c].code /\ given = call[c].given
      OBVIOUS
    <2> QED  BY <1>1, <2>1, RespondLemma DEF GatewayInv
  <1>3. /\ Replied(c) /\ call'[c].pc = "idle"
        /\ \A d \in Call \ {c} : call'[d] = call[d]
    BY <1>1 DEF Receive, NoCall, GatewayInv, IInv, AuthTypeOK
  <1>4. \A g \in Slot, m \in 1..Attempts :
          g # h \/ m # n => call'[<<g, m>>] = call[<<g, m>>]
    BY <1>3 DEF GatewayAssumption
  <1>5. SlotInv(h) /\ ToldInv(c) /\ call[c].req = http[h].req
    BY <1>1, <1>3 DEF TruthInv, SlotInv, AttemptInv, Replied
  <1>6. AttemptInv(h)'
    BY <1>1, <1>2, <1>3, <1>4, <1>5 DEF SlotInv, AttemptInv
  <1>7. MadeInv(h)'
    <2>1. \A m \in 1..Attempts : Succeeded(<<h, m>>)' => Succeeded(<<h, m>>)
      BY <1>3, <1>4 DEF Succeeded, Replied
    <2> QED  BY <1>1, <1>2, <1>5, <2>1 DEF SlotInv, MadeInv
  <1>8. AnswerInv(h)'
    <2>1. PICK r, code, given :
            r = call[c].req /\ code = call[c].code /\ given = call[c].given
      OBVIOUS
    <2>2. Told(r, code, given)
      BY <1>3, <1>5, <2>1 DEF ToldInv
    <2>3. Told(r, code, given)'
      BY <2>2, ToldStays DEF GatewayInv, IInv
    <2>4. r.op = "register" =>
            /\ code = "OK" => made[h]
            /\ code = "AlreadyExists" /\ n = 1 => ~ made[h]
      BY <1>1, <1>3, <1>5, <2>1 DEF SlotInv, MadeInv, Succeeded, Replied
    <2> QED  BY <1>1, <1>2, <1>5, <2>1, <2>3, <2>4 DEF AnswerInv
  <1> QED  BY <1>1, <1>2, <1>4, <1>6, <1>7, <1>8, OneSlotTells
              DEF SlotInv, TruthInv, GatewayInv, IInv

\* An attempt that timed out goes on in sso while the next one is made.
LEMMA TimeoutTells ==
    ASSUME GatewayAssumption, GatewayInv, AuthTypeOK', Grows,
           \A g \in Slot : SlotInv(g), NEW h \in Slot, Timeout(h)
    PROVE  \A g \in Slot : SlotInv(g)'
  <1> DEFINE n == http[h].attempt
  <1>1. /\ http[h].pc = "waiting" /\ http[h] \in HttpRecord
        /\ n \in 1..Attempts /\ <<h, n>> \in Call
        /\ Abandon(<<h, n>>) /\ made' = made
    BY SlotTyped DEF Timeout, InState, Current, GatewayInv
  <1>2. \A g \in Slot, m \in 1..Attempts : Fades(<<g, m>>)
    BY <1>1, QuietFades DEF GatewayAssumption, GatewayInv, IInv
  <1>3. \A m \in 1..Attempts : /\ Succeeded(<<h, m>>)' => Succeeded(<<h, m>>)
                               /\ call'[<<h, m>>].pc # "idle" =>
                                    /\ call[<<h, m>>].pc # "idle"
                                    /\ call'[<<h, m>>].req = call[<<h, m>>].req
    BY <1>2 DEF Fades, Succeeded, Replied
  <1>4. ASSUME NEW g \in Slot \ {h} PROVE SlotInv(g)'
    <2>1. http'[g] = http[g]
      BY DEF Timeout, Respond, GatewayInv, GatewayTypeOK
    <2> QED  BY <1>1, <1>2, <2>1, SlotAlone DEF GatewayInv, IInv
  <1>5. CASE n < Attempts
    <2>1. /\ http'[h].pc = "calling" /\ http'[h].req = http[h].req
          /\ http'[h].attempt = n + 1
      BY <1>1, <1>5 DEF Timeout, GatewayInv, GatewayTypeOK, HttpRecord
    <2>2. n \in Nat \ {0} /\ Attempts \in Nat
      BY <1>1, AttemptsNat
    <2> HIDE DEF n
    <2>3. n = http[h].attempt
      BY DEF n
    <2>4. AttemptInv(h)'
      BY <1>1, <1>3, <2>1, <2>2, <2>3 DEF SlotInv, AttemptInv
    <2>5. MadeInv(h)'
      <3>1. http'[h].attempt # 1
        BY <2>1, <2>2
      <3> QED  BY <1>1, <1>3, <2>1, <3>1 DEF SlotInv, MadeInv
    <2>6. AnswerInv(h)'
      BY <2>1 DEF AnswerInv, Answered, InState
    <2> QED  BY <1>4, <2>4, <2>5, <2>6 DEF SlotInv
  <1>6. CASE ~ (n < Attempts)
    <2>1. Respond(h, "DeadlineExceeded", {})
      BY <1>6 DEF Timeout
    <2>2. /\ http'[h].pc = "answered" /\ http'[h].code = "DeadlineExceeded"
          /\ http'[h].req = http[h].req /\ http'[h].attempt = n
      BY <1>1, <2>1, RespondLemma DEF GatewayInv
    <2>3. AttemptInv(h)'
      BY <1>1, <1>3, <2>2 DEF SlotInv, AttemptInv
    <2>4. MadeInv(h)'
      BY <1>1, <1>3, <2>2 DEF SlotInv, MadeInv
    <2>5. AnswerInv(h)'
      BY <2>2 DEF AnswerInv, Told
    <2> QED  BY <1>4, <2>3, <2>4, <2>5 DEF SlotInv
  <1> QED  BY <1>5, <1>6

\* A slot that is freed promises nothing.
LEMMA HangUpTells ==
    ASSUME GatewayAssumption, GatewayInv, AuthTypeOK', Grows,
           \A g \in Slot : SlotInv(g), NEW h \in Slot, HangUp(h)
    PROVE  \A g \in Slot : SlotInv(g)'
  <1>1. /\ http'[h].pc = "free" /\ made' = made
        /\ \A g \in Slot \ {h} : http'[g] = http[g]
    BY DEF HangUp, Free, GatewayInv, GatewayTypeOK
  <1>2. \A g \in Slot, m \in 1..Attempts : Fades(<<g, m>>)
    <2>1. Current(h) \in Call /\ Abandon(Current(h))
      BY SlotTyped DEF HangUp, InState, GatewayInv
    <2> QED  BY <2>1, QuietFades DEF GatewayAssumption, GatewayInv, IInv
  <1>3. \A g \in Slot \ {h} : SlotInv(g)'
    BY <1>1, <1>2, SlotAlone DEF GatewayInv, IInv
  <1>4. SlotInv(h)'
    BY <1>1 DEF SlotInv, AttemptInv, MadeInv, AnswerInv, Answered, InState
  <1> QED  BY <1>3, <1>4

\* The reads ask sso nothing.
LEMMA ReadsTell ==
    ASSUME GatewayAssumption, GatewayInv, AuthTypeOK', Grows,
           \A g \in Slot : SlotInv(g), NEW h \in Slot,
           Authorise(h) \/ KeyFails(h) \/ Select(h) \/ SelectFails(h)
    PROVE  \A g \in Slot : SlotInv(g)'
  <1>1. /\ http[h].pc \in {"checking", "select"} /\ http[h] \in HttpRecord
        /\ UNCHANGED <<call, made>>
    BY SlotTyped
       DEF Authorise, KeyFails, Select, SelectFails, InState, GatewayInv, authVars
  <1>2. http[h].req.op \in {"list", "get"}
    BY <1>1 DEF GatewayInv, RequestInv, Reads
  <1>3. /\ http'[h].pc \in {"select", "answered"}
        /\ http'[h].req = http[h].req /\ http'[h].attempt = http[h].attempt
        /\ \A g \in Slot \ {h} : http'[g] = http[g]
    <2>1. ASSUME NEW status, NEW rows, Finish(h, status, rows)
          PROVE  /\ http'[h].pc = "answered"
                 /\ http'[h].req = http[h].req
                 /\ http'[h].attempt = http[h].attempt
                 /\ \A g \in Slot \ {h} : http'[g] = http[g]
      BY <1>1, <2>1 DEF Finish, GatewayInv, GatewayTypeOK, HttpRecord
    <2>2. CASE http' = [http EXCEPT ![h].pc = "select"]
      BY <1>1, <2>2 DEF GatewayInv, GatewayTypeOK, HttpRecord
    <2>3. \/ \E status, rows : Finish(h, status, rows)
          \/ http' = [http EXCEPT ![h].pc = "select"]
      <3>1. CASE Authorise(h)
        BY ZenonT(60), <3>1 DEF Authorise
      <3>2. CASE KeyFails(h)
        BY Zenon, <3>2 DEF KeyFails
      <3>3. CASE Select(h)
        BY Zenon, <3>3 DEF Select
      <3>4. CASE SelectFails(h)
        BY Zenon, <3>4 DEF SelectFails
      <3> QED  BY <3>1, <3>2, <3>3, <3>4
    <2> QED  BY <2>1, <2>2, <2>3
  <1>4. AttemptInv(h)' /\ MadeInv(h)'
    BY <1>1, <1>2, <1>3 DEF SlotInv, AttemptInv, MadeInv
  <1>5. AnswerInv(h)'
    BY <1>2, <1>3 DEF AnswerInv, Told
  <1> QED  BY <1>1, <1>3, <1>4, <1>5, OneSlotTells DEF SlotInv, GatewayInv, IInv

\* At the start nothing has been told.
LEMMA TruthInit ==
    ASSUME Init
    PROVE  TruthInv
  BY DEF Init, AuthInit, TruthInv, ToldInv, SlotInv, AttemptInv, MadeInv,
         AnswerInv, Answered, InState, Replied, NoCall, Free

\* No step makes an answer untrue.
LEMMA TruthNext ==
    ASSUME AuthAssumption, GatewayAssumption, GatewayInv, TruthInv, [Next]_vars
    PROVE  TruthInv'
  <1>1. [AuthNext]_authVars
    BY StepOfSso
  <1>2. Grows /\ AuthTypeOK /\ AuthTypeOK'
    BY <1>1, NextGrows, NextKeeps DEF GatewayInv, IInv
  <1>3. \A c \in Call : ToldInv(c)'
    BY <1>1, CallsTell DEF GatewayInv, TruthInv
  <1>4. \A g \in Slot : SlotInv(g)
    BY DEF TruthInv
  <1>5. ASSUME UNCHANGED restVars, \A c \in Call : Fades(c)
        PROVE  \A g \in Slot : SlotInv(g)'
    <2>1. \A g \in Slot, m \in 1..Attempts : Fades(<<g, m>>)
      BY <1>5 DEF GatewayAssumption
    <2> QED  BY <1>2, <1>4, <1>5, <2>1, SlotAlone DEF restVars
  <1>6. ASSUME NEW c \in Call, SsoServes(c)
        PROVE  \A g \in Slot : SlotInv(g)'
    <2>1. PICK h \in Slot, n \in 1..Attempts : c = <<h, n>>
      BY DEF GatewayAssumption
    <2>2. /\ http' = http
          /\ made'[h] = (made[h] \/ users' # users)
          /\ \A g \in Slot \ {h} : made'[g] = made[g]
          /\ \A d \in Call \ {c} : call'[d] = call[d]
      BY <1>6, <2>1, ServeMakes DEF SsoServes, GatewayInv, GatewayTypeOK
    <2>3. SlotInv(h)'
      BY <1>2, <1>4, <1>6, <2>1, <2>2, ServeTells DEF SsoServes
    <2>4. \A g \in Slot \ {h} : \A m \in 1..Attempts :
            call'[<<g, m>>] = call[<<g, m>>]
      BY <2>1, <2>2 DEF GatewayAssumption
    <2> QED  BY <1>2, <1>4, <2>2, <2>3, <2>4, OneSlotTells
  <1>7. ASSUME SsoProcess \/ UNCHANGED vars
        PROVE  \A g \in Slot : SlotInv(g)'
    <2>1. UNCHANGED restVars
      BY <1>7 DEF SsoProcess, vars
    <2>2. Stop \/ Exit \/ Crash \/ Restart \/ Tick \/ UNCHANGED authVars
      BY <1>7 DEF SsoProcess, vars
    <2>3. \A c \in Call : Fades(c)
      BY <1>2, <2>2, QuietFades
    <2> QED  BY <1>5, <2>1, <2>3
  <1>8. ASSUME NEW h \in Slot, Discard(h)
        PROVE  \A g \in Slot : SlotInv(g)'
    <2>1. UNCHANGED restVars /\ \E d \in Call : Receive(d)
      BY <1>8 DEF Discard, GatewayAssumption
    <2> QED  BY <1>2, <1>5, <2>1, QuietFades
  <1>9. ASSUME NEW h \in Slot, Handle(h)
        PROVE  \A g \in Slot : SlotInv(g)'
    BY <1>2, <1>4, <1>9, CallSsoTells, NoConnectionTells, AnswerTells,
       TimeoutTells, ReadsTell DEF Handle
  <1>10. ASSUME NEW h \in Slot,
                \/ \E r \in Arriving : Begin(h, r)
                \/ HangUp(h) \/ KeyFails(h) \/ Select(h) \/ SelectFails(h)
         PROVE  \A g \in Slot : SlotInv(g)'
    BY <1>2, <1>4, <1>10, BeginTells, HangUpTells, ReadsTell
  <1>11. \A g \in Slot : SlotInv(g)'
    <2>1. CASE Next
      BY Zenon, <1>6, <1>7, <1>8, <1>9, <1>10, <2>1 DEF Next
    <2> QED  BY <1>7, <2>1
  <1> QED  BY <1>3, <1>11 DEF TruthInv

\* What a client is told is true, whatever fails, times out and is repeated
\* behind it (the handlers, Client, retries, sso).
THEOREM AnswersStayTrue == Spec => []AnswersAreTrue
  <1>1. Init => TruthInv
    BY TruthInit
  <1>2. GatewayInv /\ TruthInv /\ [Next]_vars => TruthInv'
    BY AuthAssumption, GatewayAssumption, TruthNext
  <1>3. TruthInv => AnswersAreTrue
    BY DEF TruthInv, SlotInv, AnswerInv, AnswersAreTrue, Told, SignedFor, Matches
  <1> QED  BY <1>1, <1>2, <1>3, SpecGatewayInv, PTL DEF Spec
=============================================================================
