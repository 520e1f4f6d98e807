-------------------------------- MODULE Auth --------------------------------
(***************************************************************************)
(* The sso service: accounts, the tokens it signs and the blacklist of     *)
(* tokens that were logged out.  Each remote call is a goroutine of its    *)
(* own, which stops at every statement it sends to the database and at     *)
(* every look at the clock; calls interleave there.  A caller may stop     *)
(* waiting for an answer, the database may fail a statement, and the       *)
(* process may be shut down, crash and be restarted.                       *)
(***************************************************************************)
EXTENDS Naturals, Sequences, FiniteSets

CONSTANTS
    Call,         \* remote calls that can be at the service at one time
    Text,         \* what a field of a request may hold
    NoText,       \* the empty text
    Hex,          \* the texts that start with 0x
    TooLong,      \* the texts bcrypt refuses to hash, longer than 72 bytes
    Ask,          \* the register and login requests that are made
    AccessTTL,    \* lifetimes of the tokens, in seconds
    RefreshTTL,
    OldAccounts,  \* what an earlier process left: rows of users,
    OldTokens,    \* and tokens, in the order they were signed
    MaxTime,      \* bounds: of the clock,
    MaxFaults     \* and of the failures of the environment

RegisterRequest ==
    [op : {"register"}, email : Text, wallet : Text,
     password1 : Text, password2 : Text]

LoginRequest == [op : {"login"}, email : Text, password : Text]

Account == [email : Text, wallet : Text, password : Text]

\* The id of a row is left out: the email identifies it. A token is known by
\* its jti, a position in the sequence of all tokens.
Token ==
    [type : {"access", "refresh"}, email : Text, wallet : Text, exp : Nat]

AuthAssumption ==
    /\ Ask \subseteq RegisterRequest \cup LoginRequest
    /\ NoText \in Text
    /\ Hex \subseteq Text \ {NoText}
    /\ {AccessTTL, RefreshTTL, MaxTime, MaxFaults} \subseteq Nat
    /\ OldAccounts \subseteq Account
    /\ \A a, b \in OldAccounts : a.email = b.email => a = b
    /\ OldTokens \in Seq(Token)
    /\ \A j \in DOMAIN OldTokens : \E a \in OldAccounts :
          a.email = OldTokens[j].email /\ a.wallet = OldTokens[j].wallet

ASSUME AuthAssumption

VARIABLES
    users,       \* the table users
    blacklist,   \* the table token_blacklist
    issued,      \* every token ever signed
    now,         \* the clock, in seconds
    server,      \* the sso process: up, stopping (GracefulStop) or down
    call,        \* [Call -> what the goroutine of the call knows]
    registered,  \* history: accounts a Register has been answered OK for
    loggedOut,   \* history: tokens a Logout has been answered OK for
    faults       \* failures injected so far

tables == <<users, blacklist, issued>>
history == <<registered, loggedOut>>
authVars == <<tables, now, server, call, history, faults>>

-----------------------------------------------------------------------------

Claims == [email : Text, wallet : Text]

NoClaims == [email |-> NoText, wallet |-> NoText]

\* Presented in the place of a token. NoToken stands for every text that is not
\* a token: the empty one and those that do not decode.
NoToken == 0

TokenRequest == [op : {"refresh", "logout"}, token : Nat]

Request == RegisterRequest \cup LoginRequest \cup TokenRequest

Code ==
    {"OK", "InvalidArgument", "AlreadyExists", "Internal", "Unavailable"}

\* Where a goroutine is: before the first thing it does to shared state (sent),
\* between the two looks DecodeJWT takes at the clock (parsed), before EncodeJWT
\* (sign), or answered.
Working == {"sent", "parsed", "sign"}

NoCall == [pc |-> "idle"]

CallRecord ==
    [pc : Working \cup {"replied"},
     req : Request,
     claims : Claims,              \* of the row or the token that was read
     code : Code,                  \* the answer, once there is one,
     given : SUBSET Nat,           \* and the tokens in it
     waiting : BOOLEAN,            \* the caller still waits for the answer
     hit : BOOLEAN,                \* history: a failure hit the call
     knewOut : SUBSET Nat,         \* history: loggedOut when it was sent
     knewAccounts : SUBSET Account]  \* history: registered when it was sent

AuthTypeOK ==
    /\ users \subseteq Account
    /\ blacklist \subseteq Nat
    /\ issued \in Seq(Token)
    /\ now \in Nat
    /\ server \in {"up", "stopping", "down"}
    /\ call \in [Call -> {NoCall} \cup CallRecord]
    /\ registered \subseteq Account
    /\ loggedOut \subseteq Nat
    /\ faults \in Nat

AuthInit ==
    /\ users = OldAccounts
    /\ blacklist = {}
    /\ issued = OldTokens
    /\ now = 0
    /\ server = "up"
    /\ call = [c \in Call |-> NoCall]
    /\ registered = OldAccounts
    /\ loggedOut = {}
    /\ faults = 0

-----------------------------------------------------------------------------
(* The caller's side of a remote call.                                     *)

\* A refused connection (server not up) is the caller's business.
Send(c, r) ==
    /\ server = "up"
    /\ call[c] = NoCall
    /\ call' = [call EXCEPT ![c] =
           [pc |-> "sent", req |-> r, claims |-> NoClaims, code |-> "OK",
            given |-> {}, waiting |-> TRUE, hit |-> FALSE,
            knewOut |-> loggedOut, knewAccounts |-> registered]]
    /\ UNCHANGED <<tables, now, server, history, faults>>

Replied(c) == call[c].pc = "replied"

Waiting(c) == call[c] # NoCall /\ call[c].waiting

\* The caller receives the answer; one that nobody waits for is thrown away.
Receive(c) ==
    /\ Replied(c)
    /\ call' = [call EXCEPT ![c] = NoCall]
    /\ UNCHANGED <<tables, now, server, history, faults>>

\* The deadline of the call passes or the caller is cancelled.
Abandon(c) ==
    /\ Waiting(c)
    /\ call' = [call EXCEPT ![c].waiting = FALSE]
    /\ UNCHANGED <<tables, now, server, history, faults>>

-----------------------------------------------------------------------------
(* The goroutine of a call.                                                *)

At(c, pc) == server # "down" /\ call[c].pc = pc

Op(c) == call[c].req.op

Reply(c, code, given) ==
    call' = [call EXCEPT ![c].pc = "replied", ![c].code = code,
                         ![c].given = given]

\* The checks at the head of the four handlers.
WellFormed(r) ==
    CASE r.op = "register" ->
           /\ r.email # NoText /\ r.wallet \in Hex
           /\ r.password1 # NoText /\ r.password1 = r.password2
      [] r.op = "login" -> r.email # NoText /\ r.password # NoText
      [] OTHER -> r.token # NoToken

\* Mutant: an error is passed on with a code nobody knows.
FailureCodeUnknown(op) == "Unknown"

\* What the handlers answer to an error that is not one of the service's own.
FailureCode(op) == IF op = "refresh" THEN "InvalidArgument" ELSE "Internal"

\* A text that is not empty and still no token fails in jwt.Parse instead.
Reject(c) ==
    /\ At(c, "sent")
    /\ ~ WellFormed(call[c].req)
    /\ \/ Reply(c, "InvalidArgument", {})
       \/ Op(c) = "logout" /\ Reply(c, "Internal", {})
    /\ UNCHANGED <<tables, now, server, history, faults>>

AccountOf(r) ==
    [email |-> r.email, wallet |-> r.wallet, password |-> r.password1]

Taken(email) == \E u \in users : u.email = email

\* Mutant: a table without the constraint on the email.
StorableTwice(r) == r.password1 \notin TooLong

Storable(r) == r.password1 \notin TooLong /\ ~ Taken(r.email)

\* Auth.Register: the password is hashed and the row inserted. The constraint on
\* the email decides between calls that run at the same time.
Register(c) ==
    /\ At(c, "sent") /\ Op(c) = "register" /\ WellFormed(call[c].req)
    /\ LET r == call[c].req
       IN \/ /\ r.password1 \in TooLong
             /\ Reply(c, "Internal", {})
             /\ UNCHANGED <<users, registered>>
          \/ /\ r.password1 \notin TooLong /\ Taken(r.email)
             /\ Reply(c, "AlreadyExists", {})
             /\ UNCHANGED <<users, registered>>
          \/ /\ Storable(r)
             /\ users' = users \cup {AccountOf(r)}
             /\ registered' = registered \cup {AccountOf(r)}
             /\ Reply(c, "OK", {})
    /\ UNCHANGED <<blacklist, issued, now, server, loggedOut, faults>>

Matches(u, r) == u.email = r.email /\ u.password = r.password

\* The first half of Auth.Login: the row is read and the password compared. No
\* row and a wrong password are answered alike.
Login(c) ==
    /\ At(c, "sent") /\ Op(c) = "login" /\ WellFormed(call[c].req)
    /\ \/ \E u \in users :
            /\ Matches(u, call[c].req)
            /\ call' = [call EXCEPT ![c].pc = "sign", ![c].claims =
                   [email |-> u.email, wallet |-> u.wallet]]
       \/ /\ \A u \in users : ~ Matches(u, call[c].req)
          /\ Reply(c, "InvalidArgument", {})
    /\ UNCHANGED <<tables, now, server, history, faults>>

\* Mutant: the claim of the wallet is not set.
SignedNoWallet(type, c, ttl) ==
    [type |-> type, email |-> call[c].claims.email,
     wallet |-> NoText, exp |-> now + ttl]

Signed(type, c, ttl) ==
    [type |-> type, email |-> call[c].claims.email,
     wallet |-> call[c].claims.wallet, exp |-> now + ttl]

\* EncodeJWT and the end of Auth.Login: a pair of tokens.
SignPair(c) ==
    /\ At(c, "sign") /\ Op(c) = "login"
    /\ issued' = Append(Append(issued, Signed("access", c, AccessTTL)),
                        Signed("refresh", c, RefreshTTL))
    /\ Reply(c, "OK", {Len(issued) + 1, Len(issued) + 2})
    /\ UNCHANGED <<users, blacklist, now, server, history, faults>>

Expired(j) == now > issued[j].exp

\* jwt.Parse, the first half of DecodeJWT, checks the signature and exp. Its
\* error for an expired token is not ErrRefreshTokenExpired, so that Logout
\* fails and Refresh reports a malformed token. The type is not looked at.
Parse(c) ==
    /\ At(c, "sent") /\ Op(c) \in {"refresh", "logout"}
    /\ WellFormed(call[c].req)
    /\ IF Expired(call[c].req.token)
       THEN Reply(c, FailureCode(Op(c)), {})
       ELSE call' = [call EXCEPT ![c].pc = "parsed", ![c].claims =
                [email |-> issued[call[c].req.token].email,
                 wallet |-> issued[call[c].req.token].wallet]]
    /\ UNCHANGED <<tables, now, server, history, faults>>

\* Auth.Refresh up to GetToken: DecodeJWT looks at the clock once more, then the
\* blacklist is read. The token is signed later.
Refresh(c) ==
    /\ At(c, "parsed") /\ Op(c) = "refresh"
    /\ LET j == call[c].req.token
       IN IF Expired(j) \/ j \in blacklist
          THEN Reply(c, "InvalidArgument", {})
          ELSE call' = [call EXCEPT ![c].pc = "sign"]
    /\ UNCHANGED <<tables, now, server, history, faults>>

\* EncodeJWT and the end of Auth.Refresh: the claims are those of the token
\* presented, the row of the user is not read again.
SignAccess(c) ==
    /\ At(c, "sign") /\ Op(c) = "refresh"
    /\ issued' = Append(issued, Signed("access", c, AccessTTL))
    /\ Reply(c, "OK", {Len(issued) + 1})
    /\ UNCHANGED <<users, blacklist, now, server, history, faults>>

\* Mutant: a token in its last second is taken for expired.
LogoutSkipsLastSecond(c) ==
    /\ At(c, "parsed") /\ Op(c) = "logout"
    /\ LET j == call[c].req.token
       IN /\ blacklist' = IF now >= issued[j].exp THEN blacklist
                                                 ELSE blacklist \cup {j}
          /\ loggedOut' = loggedOut \cup {j}
    /\ Reply(c, "OK", {})
    /\ UNCHANGED <<users, issued, now, server, registered, faults>>

\* Mutant: the violated primary key is an error like any other.
LogoutOnce(c) ==
    /\ At(c, "parsed") /\ Op(c) = "logout"
    /\ LET j == call[c].req.token
       IN IF j \in blacklist
          THEN Reply(c, "Internal", {}) /\ UNCHANGED <<blacklist, loggedOut>>
          ELSE /\ Reply(c, "OK", {})
               /\ blacklist' = blacklist \cup {j}
               /\ loggedOut' = loggedOut \cup {j}
    /\ UNCHANGED <<users, issued, now, server, registered, faults>>

\* Auth.Logout: if DecodeJWT finds the token expired on its second look there is
\* nothing to do. A jti that is already there violates the primary key of the
\* blacklist, which counts as success.
Logout(c) ==
    /\ At(c, "parsed") /\ Op(c) = "logout"
    /\ LET j == call[c].req.token
       IN /\ blacklist' = IF Expired(j) THEN blacklist ELSE blacklist \cup {j}
          /\ loggedOut' = loggedOut \cup {j}
    /\ Reply(c, "OK", {})
    /\ UNCHANGED <<users, issued, now, server, registered, faults>>

-----------------------------------------------------------------------------
(* Failures, the process and the clock.                                    *)

Fault == faults < MaxFaults /\ faults' = faults + 1

AtStatement(c) ==
    \/ call[c].pc = "sent" /\ Op(c) \in {"register", "login"}
    \/ call[c].pc = "parsed"

\* What the statement that failed may have done all the same.
PerhapsExecuted(c) ==
    \/ UNCHANGED <<users, blacklist>>
    \/ /\ Op(c) = "register" /\ Storable(call[c].req)
       /\ users' = users \cup {AccountOf(call[c].req)}
       /\ UNCHANGED blacklist
    \/ /\ Op(c) = "logout" /\ call[c].pc = "parsed"
       /\ ~ Expired(call[c].req.token)
       /\ blacklist' = blacklist \cup {call[c].req.token}
       /\ UNCHANGED users

\* A key file cannot be read, the database fails the statement, or the statement
\* is cancelled because the caller has gone, which needs no fault.
Fail(c) ==
    /\ server # "down" /\ call[c].pc \in Working /\ WellFormed(call[c].req)
    /\ \/ Fault
       \/ ~ call[c].waiting /\ AtStatement(c) /\ UNCHANGED faults
    /\ PerhapsExecuted(c)
    /\ call' = [call EXCEPT ![c].pc = "replied", ![c].hit = TRUE,
                            ![c].code = FailureCode(Op(c))]
    /\ UNCHANGED <<issued, now, server, history>>

\* The signal, counted as a fault: GracefulStop refuses new calls and waits for
\* those under way.
Stop ==
    /\ server = "up" /\ Fault
    /\ server' = "stopping"
    /\ UNCHANGED <<tables, now, call, history>>

\* GracefulStop has returned, storage.Close runs and the process ends.
Exit ==
    /\ server = "stopping"
    /\ \A c \in Call : call[c].pc \in {"idle", "replied"}
    /\ server' = "down"
    /\ UNCHANGED <<tables, now, call, history, faults>>

\* The process dies: callers that wait see a broken connection.
Crash ==
    /\ server # "down" /\ Fault
    /\ server' = "down"
    /\ call' = [c \in Call |->
           IF Waiting(c)
           THEN [call[c] EXCEPT !.pc = "replied", !.code = "Unavailable",
                                !.given = {}, !.hit = TRUE]
           ELSE NoCall]
    /\ UNCHANGED <<tables, now, history>>

\* A new process finds the tables as they were.
Restart ==
    /\ server = "down"
    /\ server' = "up"
    /\ UNCHANGED <<tables, now, call, history, faults>>

Tick ==
    /\ now < MaxTime
    /\ now' = now + 1
    /\ UNCHANGED <<tables, server, call, history, faults>>

Serve(c) ==
    \/ Reject(c) \/ Register(c)
    \/ Login(c) \/ SignPair(c)
    \/ Parse(c) \/ Refresh(c) \/ SignAccess(c) \/ Logout(c)

ServiceNext ==
    \/ \E c \in Call : Serve(c) \/ Fail(c)
    \/ Stop \/ Exit \/ Crash \/ Restart
    \/ Tick

\* What callers may ask: their credentials, or a token that was signed.
Askable == Ask \cup [op : {"refresh", "logout"}, token : 0..Len(issued)]

Callers ==
    \E c \in Call :
        \/ \E r \in Askable : Send(c, r)
        \/ Receive(c)
        \/ Abandon(c)

AuthNext == ServiceNext \/ Callers

AuthSpec == AuthInit /\ [][AuthNext]_authVars

-----------------------------------------------------------------------------
(* Properties                                                              *)

Succeeded(c) == Replied(c) /\ call[c].code = "OK"

Refused(c) == Replied(c) /\ call[c].code # "OK" /\ ~ call[c].hit

\* A Refresh that was sent after a Logout of the same token had been answered
\* does not succeed, whatever the order of the statements of calls that overlap
\* with both, and across restarts of sso (Auth.Refresh, Auth.Logout).
NoRefreshAfterLogout ==
    \A c \in Call :
        Succeeded(c) /\ Op(c) = "refresh"
            => call[c].req.token \notin call[c].knewOut

\* An account whose registration was answered OK is in the table as it was
\* asked for, and nothing else is under its email: of two calls that run
\* together, or of a call and its repetition, one at most succeeds
\* (Auth.Register, SaveUser).
RegisteredForGood ==
    \A a \in registered : {u \in users : u.email = a.email} = {a}

\* Every token names an account of the table, with its wallet, although Refresh
\* copies the claims of an older token (EncodeJWT, Auth.Refresh).
TokensNameAccounts ==
    \A j \in DOMAIN issued : \E u \in users :
        u.email = issued[j].email /\ u.wallet = issued[j].wallet

HasCause(c) ==
    LET r == call[c].req
    IN \/ ~ WellFormed(r)
       \/ r.op = "register" /\ (Taken(r.email) \/ r.password1 \in TooLong)
       \/ r.op = "login" /\ \A a \in call[c].knewAccounts : ~ Matches(a, r)
       \/ r.op = "refresh" /\ (Expired(r.token) \/ r.token \in blacklist)
       \/ r.op = "logout" /\ Expired(r.token)

\* A call that met no failure is refused only for a cause: an email in use,
\* credentials that no account acknowledged before the call has, a token that
\* is expired or was being logged out. A second Logout is no cause (the four
\* handlers).
RefusalsHaveCause == \A c \in Call : Refused(c) => HasCause(c)
=============================================================================
