------------------------------ MODULE Gateway -------------------------------
(***************************************************************************)
(* The HTTP API of the rest service in front of sso: the handlers that     *)
(* register, log in, refresh and log out through the gRPC client with its  *)
(* timeout and retries, the middleware that checks access tokens without   *)
(* asking sso, and the two handlers that read transactions.  Every request *)
(* is a goroutine; an attempt of the client that timed out may still be    *)
(* running in sso while the next one starts.                               *)
(***************************************************************************)
EXTENDS Auth

CONSTANTS
    Slot,         \* HTTP requests served at one time
    Retries,      \* retries_count: attempts in all, 0 for one without timeout
    Transaction,  \* rows of the table transactions
    Route,        \* bounds: the operations clients use,
    Blank,        \* {NoToken} if requests without a token are made, or {},
    MaxRequests   \* and how many requests there are in all

Attempts == IF Retries = 0 THEN 1 ELSE Retries

\* Each attempt of a request is a remote call of its own.
GatewayAssumption ==
    /\ {Retries, MaxRequests} \subseteq Nat
    /\ Call = Slot \X (1..Attempts)
    /\ Blank \subseteq {NoToken}
    /\ Transaction \subseteq [id : Nat \ {0}, merchant : Text]

ASSUME GatewayAssumption

VARIABLES
    http,   \* [Slot -> the request being served, or the last one answered]
    held,   \* tokens that answers have brought to clients
    made,   \* [Slot -> BOOLEAN], history: the request has created an account
    begun   \* requests so far

restVars == <<http, held, made, begun>>
vars == <<authVars, restVars>>

Read ==
    [op : {"list"}, token : Nat] \cup [op : {"get"}, token : Nat, id : Nat]

\* Before the call of an attempt, waiting for its answer, before the check of
\* the access token, before the SELECT, answered.
HttpRecord ==
    [pc : {"calling", "waiting", "checking", "select", "answered"},
     req : Request \cup Read,
     attempt : 1..Attempts,
     status : {200, 400, 401, 404, 500},
     code : Code \cup {"DeadlineExceeded", "none"},  \* what sso answered
     given : SUBSET Nat,
     rows : SUBSET Transaction]

Free == [pc |-> "free"]

GatewayTypeOK ==
    /\ http \in [Slot -> {Free} \cup HttpRecord]
    /\ held \subseteq Nat
    /\ made \in [Slot -> BOOLEAN]
    /\ begun \in Nat

Init ==
    /\ AuthInit
    /\ http = [h \in Slot |-> Free]
    /\ held = DOMAIN OldTokens
    /\ made = [h \in Slot |-> FALSE]
    /\ begun = 0

-----------------------------------------------------------------------------
(* Handlers.                                                               *)

Current(h) == <<h, http[h].attempt>>

InState(h, pc) == http[h].pc = pc

\* Clients present the tokens they were given, of either type in any field: no
\* code looks at the type.
Presentable == Blank \cup held

Arriving ==
    {r \in Ask : r.op \in Route}
    \cup [op : Route \cap {"refresh", "logout", "list"}, token : Presentable]
    \cup [op : Route \cap {"get"}, token : Presentable,
          id : {0} \cup {t.id : t \in Transaction}]

\* A request arrives. (A body that is no JSON is answered 422 and nothing more;
\* such requests are left out.) The attempts of an earlier request may not linger
\* under the same name.
Begin(h, r) ==
    /\ http[h].pc \in {"free", "answered"} /\ begun < MaxRequests
    /\ \A n \in 1..Attempts : call[<<h, n>>] = NoCall
    /\ http' = [http EXCEPT ![h] =
           [pc |-> IF r.op \in {"list", "get"} THEN "checking" ELSE "calling",
            req |-> r, attempt |-> 1, status |-> 500, code |-> "none",
            given |-> {}, rows |-> {}]]
    /\ begun' = begun + 1
    /\ made' = [made EXCEPT ![h] = FALSE]
    /\ UNCHANGED <<authVars, held>>

\* Mutant: a status that the handlers do not have.
StatusOfUnavailable(op, code) == IF code = "OK" THEN 200 ELSE 503

\* The status the four handlers choose for the error of the client.
StatusOf(op, code) ==
    CASE code = "OK" -> 200
      [] op = "logout" /\ code # "OK" -> 400
      [] op # "logout" /\ code = "InvalidArgument" -> 400
      [] op = "register" /\ code = "AlreadyExists" -> 400
      [] OTHER -> 500

Respond(h, code, given) ==
    http' = [http EXCEPT ![h].pc = "answered", ![h].code = code,
                         ![h].status = StatusOf(http[h].req.op, code),
                         ![h].given = given]

\* An attempt: the call is sent, or there is no connection, an error that the
\* client does not repeat.
CallSso(h) ==
    /\ InState(h, "calling")
    /\ Send(Current(h), http[h].req)
    /\ http' = [http EXCEPT ![h].pc = "waiting"]
    /\ UNCHANGED <<held, made, begun>>

NoConnection(h) ==
    /\ InState(h, "calling") /\ server # "up"
    /\ Respond(h, "Unavailable", {})
    /\ UNCHANGED <<authVars, held, made, begun>>

\* Mutant: an account that exists counts as registered.
AnswerExistsIsOk(h) ==
    /\ InState(h, "waiting")
    /\ Receive(Current(h))
    /\ Respond(h, IF call[Current(h)].code = "AlreadyExists" THEN "OK"
                  ELSE call[Current(h)].code, call[Current(h)].given)
    /\ held' = held \cup call[Current(h)].given
    /\ UNCHANGED <<made, begun>>

\* The answer of the attempt that is waited for is never one of those the
\* client repeats: sso has no NotFound and no Aborted.
Answer(h) ==
    /\ InState(h, "waiting")
    /\ Receive(Current(h))
    /\ Respond(h, call[Current(h)].code, call[Current(h)].given)
    /\ held' = held \cup call[Current(h)].given
    /\ UNCHANGED <<made, begun>>

\* Mutant: no timeout per attempt.
TimeoutNone(h) == FALSE /\ UNCHANGED vars

\* Mutant: sso is taken to stop working on a call that timed out.
TimeoutEndsCall(h) ==
    /\ InState(h, "waiting") /\ Retries > 0
    /\ call' = [call EXCEPT ![Current(h)] = NoCall]
    /\ IF http[h].attempt < Attempts
       THEN http' = [http EXCEPT ![h].pc = "calling", ![h].attempt = @ + 1]
       ELSE Respond(h, "DeadlineExceeded", {})
    /\ UNCHANGED <<tables, now, server, history, faults, held, made, begun>>

\* The timeout of one attempt: the call is given up and the next attempt
\* made. Without retries there is no timeout either.
Timeout(h) ==
    /\ InState(h, "waiting") /\ Retries > 0
    /\ Abandon(Current(h))
    /\ IF http[h].attempt < Attempts
       THEN http' = [http EXCEPT ![h].pc = "calling", ![h].attempt = @ + 1]
       ELSE Respond(h, "DeadlineExceeded", {})
    /\ UNCHANGED <<held, made, begun>>

\* The client closes its connection, which cancels the context of the request.
\* Only a call that is under way makes a difference.
HangUp(h) ==
    /\ InState(h, "waiting")
    /\ Abandon(Current(h))
    /\ http' = [http EXCEPT ![h] = Free]
    /\ UNCHANGED <<held, made, begun>>

\* The answer of an attempt that was given up is thrown away.
Discard(h) ==
    /\ \E n \in 1..Attempts : /\ ~ Waiting(<<h, n>>)
                              /\ Receive(<<h, n>>)
    /\ UNCHANGED restVars

-----------------------------------------------------------------------------
(* The middleware and the two handlers behind it.                          *)

Finish(h, status, rows) ==
    http' = [http EXCEPT ![h] = [@ EXCEPT !.pc = "answered",
                                          !.status = status, !.rows = rows]]

\* DecodeJWT of rest, with the public key it shares with sso: the signature and
\* exp are checked, the type and the blacklist are not.
Decodes(token) == token # NoToken /\ ~ Expired(token)

\* middleware.Auth: no cookie, a text that does not decode and an expired
\* token are refused; the handler then refuses an id that is not positive.
Authorise(h) ==
    /\ InState(h, "checking")
    /\ LET r == http[h].req
       IN \/ ~ Decodes(r.token) /\ Finish(h, 401, {})
          \/ /\ Decodes(r.token)
             /\ IF r.op = "get" /\ r.id = 0
                THEN Finish(h, 400, {})
                ELSE http' = [http EXCEPT ![h].pc = "select"]
    /\ UNCHANGED <<authVars, held, made, begun>>

\* The file of the public key cannot be read: a good token is refused as well.
KeyFails(h) ==
    /\ InState(h, "checking")
    /\ Finish(h, 401, {})
    /\ UNCHANGED <<authVars, held, made, begun>>

\* Mutant: one transaction is looked up by its id alone.
SelectedById(r) ==
    {t \in Transaction : IF r.op = "get" THEN t.id = r.id
                         ELSE t.merchant = issued[r.token].wallet}

\* The rows the WHERE clauses select: the wallet of the token is compared with
\* the merchant's as text.
Selected(r) ==
    {t \in Transaction : /\ t.merchant = issued[r.token].wallet
                         /\ r.op = "get" => t.id = r.id}

\* GetTransaction and GetListTransactions, when the database answers. An empty
\* list is an answer, a transaction that is not there is not.
Select(h) ==
    /\ InState(h, "select")
    /\ LET rows == Selected(http[h].req)
       IN IF http[h].req.op = "get" /\ rows = {}
          THEN Finish(h, 404, {})
          ELSE Finish(h, 200, rows)
    /\ UNCHANGED <<authVars, held, made, begun>>

\* The SELECT cannot be prepared or fails, or the row cannot be scanned.
SelectFails(h) ==
    /\ InState(h, "select")
    /\ Finish(h, 500, {})
    /\ UNCHANGED <<authVars, held, made, begun>>

-----------------------------------------------------------------------------

\* sso serves a call; the history notes whose request created an account.
SsoServes(c) ==
    /\ Serve(c) \/ Fail(c)
    /\ made' = [made EXCEPT ![c[1]] = @ \/ users' # users]
    /\ UNCHANGED <<http, held, begun>>

SsoProcess ==
    /\ Stop \/ Exit \/ Crash \/ Restart \/ Tick
    /\ UNCHANGED restVars

\* What a handler does without waiting for anybody for longer than it says.
Handle(h) ==
    CallSso(h) \/ NoConnection(h) \/ Answer(h) \/ Timeout(h) \/ Authorise(h)

Next ==
    \/ \E h \in Slot :
         \/ \E r \in Arriving : Begin(h, r)
         \/ Handle(h)
         \/ HangUp(h)
         \/ Discard(h)
         \/ KeyFails(h)
         \/ Select(h)
         \/ SelectFails(h)
    \/ \E c \in Call : SsoServes(c)
    \/ SsoProcess

\* The goroutines of rest run. Nothing is assumed of sso, nor of the database.
Spec == Init /\ [][Next]_vars /\ \A h \in Slot : WF_vars(Handle(h))

-----------------------------------------------------------------------------
(* Properties                                                              *)

Answered(h) == InState(h, "answered")

\* What a client is told has happened: the account of a register answered 200
\* was made by that very request and is as it was asked for, also when the
\* answer comes from a repetition; the tokens of a login or refresh are for the
\* account asked for; a token logged out is on the blacklist or expired. And a
\* request is told that its account exists already only if it did not create
\* it, or was repeated after a timeout (the handlers, Client, retries).
AnswersAreTrue ==
    \A h \in Slot : Answered(h) =>
        LET r == http[h].req
            Names(email, wallet) ==
                \A j \in http[h].given :
                    issued[j].email = email /\ issued[j].wallet = wallet
        IN CASE r.op = "register" ->
                  /\ http[h].code = "OK" => made[h] /\ AccountOf(r) \in users
                  /\ http[h].code = "AlreadyExists" /\ http[h].attempt = 1
                        => ~ made[h]
             [] r.op = "login" /\ http[h].code = "OK" ->
                  \E u \in users : /\ u.email = r.email
                                   /\ u.password = r.password
                                   /\ Names(u.email, u.wallet)
             [] r.op = "refresh" /\ http[h].code = "OK" ->
                  Names(issued[r.token].email, issued[r.token].wallet)
             [] r.op = "logout" /\ http[h].code = "OK" ->
                  r.token \in blacklist \/ Expired(r.token)
             [] OTHER -> TRUE

\* Rows are shown to the holder of a token whose wallet they carry, and
\* it is the wallet that an account was registered with: nothing is shown for a
\* wallet that never went through Register (middleware.Auth, gettran, gettrans).
RowsOfTheAccount ==
    \A h \in Slot : \A t \in IF Answered(h) THEN http[h].rows ELSE {} :
        LET token == issued[http[h].req.token]
        IN \E u \in users : u.email = token.email /\ u.wallet = t.merchant

\* Every request is answered, whatever becomes of sso, if retries are configured:
\* each attempt then has its timeout and there are finitely many, also while sso is
\* stopping, hangs or restarts between two of them. Without retries (the file
\* local.yaml has retriesCount, config.go reads retries_count) the one attempt is
\* waited for as long as sso likes. And a request that reads transactions is
\* answered when the database does: db.Prepare is given no context.
EveryRequestAnswered ==
    \A h \in Slot :
        http[h].pc # "free" ~>
            \/ http[h].pc \in {"answered", "free", "select"}
            \/ http[h].pc = "waiting" /\ Retries = 0

\* VIOLATED. logout.go and refresh.go document status 400 as an invalid refresh
\* token.
BadRequestMeansBadToken ==
    \A h \in Slot :
        /\ Answered(h) /\ http[h].status = 400
        /\ http[h].req.op \in {"refresh", "logout"}
        => \/ http[h].req.token \in {NoToken} \cup blacklist
           \/ Expired(http[h].req.token)
=============================================================================
