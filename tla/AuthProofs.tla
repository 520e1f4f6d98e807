----------------------------- MODULE AuthProofs -----------------------------
(***************************************************************************)
(* Proofs about sso for any requests, number of calls, lifetimes of tokens *)
(* and failures, and for any accounts and tokens an earlier process left.  *)
(***************************************************************************)
EXTENDS Auth, TLAPS

\* An email has one account, and what was acknowledged is in the table.
UsersInv ==
    /\ \A a, b \in users : a.email = b.email => a = b
    /\ registered \subseteq users

\* A token whose logout was answered is blacklisted, or of no use any more.
LogoutInv ==
    \A j \in loggedOut :
        j \in DOMAIN issued /\ (j \in blacklist \/ Expired(j))

Named(claims) ==
    \E u \in users : u.email = claims.email /\ u.wallet = claims.wallet

\* What a goroutine knows stays true while others work: its token exists, its
\* claims are of an account, and past the blacklist (sign) its token is none of
\* those that had been logged out when the call was sent.
CallInv(c) ==
    call[c].pc # "idle" =>
        /\ Op(c) \in {"refresh", "logout"} => call[c].req.token \in 0..Len(issued)
        /\ call[c].knewOut \subseteq loggedOut
        /\ call[c].knewAccounts \subseteq registered
        /\ call[c].pc = "parsed" =>
             /\ Op(c) \in {"refresh", "logout"}
             /\ call[c].req.token \in DOMAIN issued
             /\ Named(call[c].claims)
        /\ call[c].pc = "sign" => Named(call[c].claims)
        /\ Op(c) = "refresh"
           /\ (call[c].pc = "sign" \/ (call[c].pc = "replied" /\ call[c].code = "OK"))
             => call[c].req.token \notin call[c].knewOut
        /\ Refused(c) => HasCause(c)

IInv ==
    /\ AuthTypeOK
    /\ UsersInv
    /\ LogoutInv
    /\ TokensNameAccounts
    /\ \A c \in Call : CallInv(c)

\* Nothing that happened is taken back.
Grows ==
    /\ users \subseteq users'
    /\ blacklist \subseteq blacklist'
    /\ registered \subseteq registered'
    /\ loggedOut \subseteq loggedOut'
    /\ now <= now'
    /\ Len(issued) <= Len(issued')
    /\ \A j \in DOMAIN issued : issued'[j] = issued[j]

-----------------------------------------------------------------------------
(* Lemmas                                                                  *)

\* A call that is there has a record.
LEMMA CallTyped ==
    ASSUME AuthTypeOK, NEW c \in Call, call[c].pc # "idle"
    PROVE  call[c] \in CallRecord
  BY DEF AuthTypeOK, NoCall

\* A token that exists has a type, claims and an expiry.
LEMMA TokenTyped ==
    ASSUME AuthTypeOK, NEW j \in DOMAIN issued
    PROVE  issued[j] \in Token
  BY DEF AuthTypeOK

\* The record of a request, by its operation.
LEMMA RequestTyped ==
    ASSUME AuthTypeOK, NEW c \in Call, call[c].pc # "idle"
    PROVE  /\ call[c].req \in Request
           /\ Op(c) \in {"register", "login", "refresh", "logout"}
           /\ Op(c) = "register" => call[c].req \in RegisterRequest
           /\ Op(c) = "login" => call[c].req \in LoginRequest
           /\ Op(c) \in {"refresh", "logout"} => call[c].req \in TokenRequest
  <1>1. call[c].req \in Request
    BY CallTyped DEF CallRecord
  <1>2. CASE call[c].req \in RegisterRequest
    BY <1>1, <1>2 DEF Op, RegisterRequest
  <1>3. CASE call[c].req \in LoginRequest
    BY <1>1, <1>3 DEF Op, LoginRequest
  <1>4. CASE call[c].req \in TokenRequest
    BY <1>1, <1>4 DEF Op, TokenRequest
  <1> QED  BY <1>1, <1>2, <1>3, <1>4 DEF Request

\* Signing appends to the tokens: those there are keep their places.
LEMMA SignedLemma ==
    ASSUME AuthTypeOK, NEW c \in Call, call[c].pc = "sign",
           NEW type \in {"access", "refresh"}, NEW ttl \in Nat
    PROVE  /\ Signed(type, c, ttl) \in Token
           /\ Signed(type, c, ttl).email = call[c].claims.email
           /\ Signed(type, c, ttl).wallet = call[c].claims.wallet
  <1>1. call[c].claims \in Claims
    BY CallTyped DEF CallRecord
  <1> QED  BY <1>1 DEF AuthTypeOK, Signed, Token, Claims

\* What was taken, expired, named or caused before is so after any growth.
LEMMA Monotone ==
    ASSUME AuthTypeOK, AuthTypeOK', Grows
    PROVE  /\ \A e : Taken(e) => Taken(e)'
           /\ \A j \in DOMAIN issued :
                j \in DOMAIN issued' /\ (Expired(j) => Expired(j)')
           /\ \A k : Named(k) => Named(k)'
  <1>1. \A j \in DOMAIN issued : j \in DOMAIN issued' /\ issued'[j] = issued[j]
    BY DEF AuthTypeOK, Grows
  <1>2. \A j \in DOMAIN issued : issued[j].exp \in Nat
    BY TokenTyped DEF Token
  <1>3. \A j \in DOMAIN issued : Expired(j) => Expired(j)'
    BY <1>1, <1>2 DEF AuthTypeOK, Grows, Expired
  <1> QED  BY <1>1, <1>3 DEF Grows, Taken, Named

\* A call that a step leaves alone keeps its part of the invariant.
LEMMA OtherCalls ==
    ASSUME AuthTypeOK, AuthTypeOK', Grows, NEW c \in Call,
           CallInv(c), call'[c] = call[c]
    PROVE  CallInv(c)'
  <1> SUFFICES ASSUME call[c].pc # "idle"
               PROVE  CallInv(c)'
    BY DEF CallInv
  <1>1. call[c].req.op \in {"refresh", "logout"} =>
          /\ call[c].req.token \in 0..Len(issued)
          /\ call[c].req.token \in 0..Len(issued')
    BY DEF CallInv, Op, Grows, AuthTypeOK
  <1>2. /\ \A e : Taken(e) => Taken(e)'
        /\ \A j \in DOMAIN issued :
             j \in DOMAIN issued' /\ (Expired(j) => Expired(j)')
        /\ \A k : Named(k) => Named(k)'
    BY Monotone
  <1>3. Refused(c)' => HasCause(c)'
    <2> SUFFICES ASSUME Refused(c) PROVE HasCause(c)'
      BY DEF Refused, Replied
    <2>1. HasCause(c)
      BY DEF CallInv
    <2>2. call[c].req.op \in {"refresh", "logout"} /\ WellFormed(call[c].req)
            => call[c].req.token \in DOMAIN issued
      BY <1>1 DEF WellFormed, NoToken, AuthTypeOK
    <2> QED  BY <2>1, <2>2, <1>2 DEF HasCause, Grows, Matches
  <1> QED  BY <1>1, <1>2, <1>3 DEF CallInv, Op, Grows

\* A step of one call keeps the invariants of all the calls if it keeps its own.
LEMMA OneCall ==
    ASSUME AuthTypeOK, AuthTypeOK', Grows, NEW c \in Call,
           \A d \in Call : CallInv(d),
           \A d \in Call \ {c} : call'[d] = call[d],
           CallInv(c)'
    PROVE  \A d \in Call : CallInv(d)'
  <1> SUFFICES ASSUME NEW d \in Call, d # c PROVE CallInv(d)'
    OBVIOUS
  <1> QED  BY OtherCalls

\* The call that is answered keeps its request and its history.
LEMMA ReplyLemma ==
    ASSUME AuthTypeOK, NEW c \in Call, call[c].pc \in Working,
           NEW code \in Code, NEW given \in SUBSET Nat,
           Reply(c, code, given)
    PROVE  /\ call' \in [Call -> {NoCall} \cup CallRecord]
           /\ \A d \in Call \ {c} : call'[d] = call[d]
           /\ call'[c].pc = "replied" /\ call'[c].code = code
           /\ call'[c].given = given
           /\ call'[c].req = call[c].req
           /\ call'[c].hit = call[c].hit
           /\ call'[c].knewOut = call[c].knewOut
           /\ call'[c].knewAccounts = call[c].knewAccounts
  <1>1. call[c] \in CallRecord
    BY CallTyped DEF Working
  <1>2. call' = [call EXCEPT ![c] =
                   [call[c] EXCEPT !.pc = "replied", !.code = code,
                                   !.given = given]]
    BY <1>1 DEF Reply, AuthTypeOK
  <1>3. [call[c] EXCEPT !.pc = "replied", !.code = code, !.given = given]
          \in CallRecord
    BY <1>1 DEF CallRecord
  <1>4. call'[c] = [call[c] EXCEPT !.pc = "replied", !.code = code,
                                   !.given = given]
    BY <1>2 DEF AuthTypeOK
  <1>5. /\ call'[c].pc = "replied" /\ call'[c].code = code
        /\ call'[c].given = given
        /\ call'[c].req = call[c].req
        /\ call'[c].hit = call[c].hit
        /\ call'[c].knewOut = call[c].knewOut
        /\ call'[c].knewAccounts = call[c].knewAccounts
    BY <1>1, <1>4 DEF CallRecord
  <1> QED  BY <1>2, <1>3, <1>5 DEF AuthTypeOK

\* The call that goes on to its next statement does so too.
LEMMA AdvanceLemma ==
    ASSUME AuthTypeOK, NEW c \in Call, call[c].pc \in Working,
           NEW pc \in Working, NEW claims \in Claims,
           call' = [call EXCEPT ![c].pc = pc, ![c].claims = claims]
    PROVE  /\ call' \in [Call -> {NoCall} \cup CallRecord]
           /\ \A d \in Call \ {c} : call'[d] = call[d]
           /\ call'[c].pc = pc /\ call'[c].claims = claims
           /\ call'[c].req = call[c].req
           /\ call'[c].knewOut = call[c].knewOut
           /\ call'[c].knewAccounts = call[c].knewAccounts
  <1>1. call[c] \in CallRecord
    BY CallTyped DEF Working
  <1>2. call' = [call EXCEPT ![c] =
                   [call[c] EXCEPT !.pc = pc, !.claims = claims]]
    BY <1>1 DEF AuthTypeOK
  <1>3. [call[c] EXCEPT !.pc = pc, !.claims = claims] \in CallRecord
    BY <1>1 DEF CallRecord
  <1>4. call'[c] = [call[c] EXCEPT !.pc = pc, !.claims = claims]
    BY <1>2 DEF AuthTypeOK
  <1>5. /\ call'[c].pc = pc /\ call'[c].claims = claims
        /\ call'[c].req = call[c].req
        /\ call'[c].knewOut = call[c].knewOut
        /\ call'[c].knewAccounts = call[c].knewAccounts
    BY <1>1, <1>4, ZenonT(60) DEF CallRecord
  <1> QED  BY <1>2, <1>3, <1>5 DEF AuthTypeOK

\* A step that touches calls alone grows nothing and keeps the rest.
LEMMA Quiet ==
    ASSUME IInv, UNCHANGED <<tables, now, history>>
    PROVE  Grows /\ UsersInv' /\ LogoutInv' /\ TokensNameAccounts'
  BY DEF IInv, AuthTypeOK, Grows, UsersInv, LogoutInv, TokensNameAccounts,
         Expired, tables, history

\* A step of one call that touches the call alone.
LEMMA QuietCall ==
    ASSUME IInv, UNCHANGED <<tables, now, history, server>>, faults' \in Nat,
           NEW c \in Call,
           call' \in [Call -> {NoCall} \cup CallRecord],
           \A d \in Call \ {c} : call'[d] = call[d],
           CallInv(c)'
    PROVE  IInv'
  <1>1. Grows /\ UsersInv' /\ LogoutInv' /\ TokensNameAccounts'
    BY Quiet
  <1>2. AuthTypeOK'
    BY DEF IInv, AuthTypeOK, tables, history
  <1>3. \A d \in Call : CallInv(d)'
    BY <1>1, <1>2, OneCall DEF IInv
  <1> QED  BY <1>1, <1>2, <1>3 DEF IInv

-----------------------------------------------------------------------------
(* Each action keeps the invariant.                                        *)

\* A new call knows what had been acknowledged when it was sent.
LEMMA SendKeeps ==
    ASSUME AuthAssumption, IInv, NEW c \in Call, NEW r \in Askable, Send(c, r)
    PROVE  IInv'
  <1> DEFINE new ==
        [pc |-> "sent", req |-> r, claims |-> NoClaims, code |-> "OK",
         given |-> {}, waiting |-> TRUE, hit |-> FALSE,
         knewOut |-> loggedOut, knewAccounts |-> registered]
  <1>1. r \in Request
    <2>1. CASE r \in Ask
      BY <2>1 DEF AuthAssumption, Request
    <2>2. CASE r \in [op : {"refresh", "logout"}, token : 0..Len(issued)]
      BY <2>2 DEF Request, TokenRequest, IInv, AuthTypeOK
    <2> QED  BY <2>1, <2>2 DEF Askable
  <1>2. r.op \in {"refresh", "logout"} => r.token \in 0..Len(issued)
    <2>1. CASE r \in Ask
      BY <2>1 DEF AuthAssumption, RegisterRequest, LoginRequest
    <2>2. CASE r \in [op : {"refresh", "logout"}, token : 0..Len(issued)]
      BY <2>2
    <2> QED  BY <2>1, <2>2 DEF Askable
  <1>3. new \in CallRecord
    BY <1>1 DEF CallRecord, Working, NoClaims, Claims, Code, IInv, AuthTypeOK,
                AuthAssumption
  <1>4. /\ call' \in [Call -> {NoCall} \cup CallRecord]
        /\ call'[c] = new
        /\ \A d \in Call \ {c} : call'[d] = call[d]
    BY <1>3 DEF Send, IInv, AuthTypeOK
  <1>5. CallInv(c)'
    BY <1>2, <1>4 DEF CallInv, Send, Op, Refused, Replied, tables, history
  <1> QED  BY <1>4, <1>5, QuietCall DEF Send, IInv, AuthTypeOK

\* A call that is gone has nothing to keep.
LEMMA ReceiveKeeps ==
    ASSUME IInv, NEW c \in Call, Receive(c)
    PROVE  IInv'
  <1>1. /\ call' \in [Call -> {NoCall} \cup CallRecord]
        /\ call'[c] = NoCall
        /\ \A d \in Call \ {c} : call'[d] = call[d]
    BY DEF Receive, IInv, AuthTypeOK
  <1>2. CallInv(c)'
    BY <1>1 DEF CallInv, NoCall
  <1> QED  BY <1>1, <1>2, QuietCall DEF Receive, IInv, AuthTypeOK

\* A call whose caller has gone is as it was otherwise.
LEMMA AbandonKeeps ==
    ASSUME IInv, NEW c \in Call, Abandon(c)
    PROVE  IInv'
  <1>1. call[c] \in CallRecord
    BY DEF Abandon, Waiting, IInv, AuthTypeOK
  <1> DEFINE new == [call[c] EXCEPT !.waiting = FALSE]
  <1>2. new \in CallRecord
    BY <1>1 DEF CallRecord
  <1>3. /\ call' \in [Call -> {NoCall} \cup CallRecord]
        /\ call'[c] = new
        /\ \A d \in Call \ {c} : call'[d] = call[d]
    BY <1>1, <1>2 DEF Abandon, IInv, AuthTypeOK
  <1>4. /\ new.pc = call[c].pc /\ new.req = call[c].req
        /\ new.claims = call[c].claims /\ new.code = call[c].code
        /\ new.hit = call[c].hit
        /\ new.knewOut = call[c].knewOut
        /\ new.knewAccounts = call[c].knewAccounts
    BY <1>1 DEF CallRecord
  <1>5. UNCHANGED <<users, blacklist, issued, now, registered, loggedOut>>
    BY DEF Abandon, tables, history
  <1>6. CallInv(c)
    BY DEF IInv
  <1>7. (Refused(c) => HasCause(c))'
    BY <1>3, <1>4, <1>5, <1>6 DEF CallInv, Refused, Replied, HasCause,
       Expired, Taken, CallRecord
  <1>8. CallInv(c)'
    BY <1>3, <1>4, <1>5, <1>6, <1>7 DEF CallInv, Op, Named, CallRecord
  <1> QED  BY <1>3, <1>8, QuietCall DEF Abandon, IInv, AuthTypeOK

\* A malformed request is refused for a cause.
LEMMA RejectKeeps ==
    ASSUME IInv, NEW c \in Call, Reject(c)
    PROVE  IInv'
  <1>1. PICK code \in Code : Reply(c, code, {})
    BY DEF Reject, Code
  <1>2. call[c].pc = "sent"
    BY DEF Reject, At
  <1>3. /\ call' \in [Call -> {NoCall} \cup CallRecord]
        /\ \A d \in Call \ {c} : call'[d] = call[d]
        /\ call'[c].pc = "replied"
        /\ call'[c].req = call[c].req
        /\ call'[c].knewOut = call[c].knewOut
        /\ call'[c].knewAccounts = call[c].knewAccounts
    BY <1>1, <1>2, ReplyLemma DEF IInv, Working
  <1>4. ~ WellFormed(call'[c].req) /\ call'[c].code # "OK"
    <2>1. \E k \in Code : k # "OK" /\ Reply(c, k, {})
      BY DEF Reject, Code
    <2> QED  BY <2>1, <1>2, <1>3, ReplyLemma DEF Reject, IInv, Working
  <1>5. HasCause(c)'
    BY <1>4 DEF HasCause
  <1>6. CallInv(c)
    BY DEF IInv
  <1>7. CallInv(c)'
    BY <1>2, <1>3, <1>4, <1>5, <1>6
       DEF CallInv, Op, Reject, tables, history
  <1> QED  BY <1>3, <1>7, QuietCall DEF Reject, IInv, AuthTypeOK

\* The row a Register stores is alone under its email, and it is typed.
LEMMA StoreLemma ==
    ASSUME IInv, NEW c \in Call, call[c].pc \in Working,
           Op(c) = "register", Storable(call[c].req),
           users' = users \cup {AccountOf(call[c].req)},
           registered' \in {registered,
                            registered \cup {AccountOf(call[c].req)}}
    PROVE  /\ users' \subseteq Account
           /\ registered' \subseteq Account
           /\ UsersInv'
  <1>1. call[c].req \in RegisterRequest
    BY RequestTyped DEF IInv, Working
  <1>2. AccountOf(call[c].req) \in Account
    BY <1>1 DEF RegisterRequest, AccountOf, Account
  <1>3. \A u \in users : u.email # AccountOf(call[c].req).email
    BY DEF Storable, Taken, AccountOf
  <1> QED  BY <1>2, <1>3 DEF IInv, UsersInv, AuthTypeOK

\* The row of a register is new under its email, or it is refused for that.
LEMMA RegisterKeeps ==
    ASSUME IInv, NEW c \in Call, Register(c)
    PROVE  IInv'
  <1> DEFINE r == call[c].req
  <1>1. call[c].pc = "sent" /\ Op(c) = "register" /\ r.op = "register"
    BY DEF Register, At, Op
  <1>2. CASE /\ Reply(c, "OK", {}) /\ Storable(r)
             /\ users' = users \cup {AccountOf(r)}
             /\ registered' = registered \cup {AccountOf(r)}
    <2>1. /\ call' \in [Call -> {NoCall} \cup CallRecord]
          /\ \A d \in Call \ {c} : call'[d] = call[d]
          /\ call'[c].pc = "replied" /\ call'[c].code = "OK"
          /\ call'[c].req = r
          /\ call'[c].knewOut = call[c].knewOut
          /\ call'[c].knewAccounts = call[c].knewAccounts
      BY <1>1, <1>2, ReplyLemma DEF IInv, Working, Code
    <2>2. /\ users' \subseteq Account /\ registered' \subseteq Account
          /\ UsersInv'
      BY <1>1, <1>2, StoreLemma DEF Working
    <2>3. UNCHANGED <<blacklist, issued, now, server, loggedOut, faults>>
      BY DEF Register
    <2>4. Grows /\ LogoutInv' /\ TokensNameAccounts'
      BY <1>2, <2>3 DEF IInv, AuthTypeOK, Grows, LogoutInv, Expired,
                        TokensNameAccounts
    <2>5. AuthTypeOK'
      BY <2>1, <2>2, <2>3 DEF IInv, AuthTypeOK
    <2>6. CallInv(c)
      BY DEF IInv
    <2>7. CallInv(c)'
      BY <1>1, <2>1, <2>4, <2>6 DEF CallInv, Op, Refused, Replied, Grows
    <2> QED  BY <2>1, <2>2, <2>4, <2>5, <2>7, OneCall DEF IInv
  <1>3. CASE \E code \in {"Internal", "AlreadyExists"} :
               /\ Reply(c, code, {})
               /\ r.password1 \in TooLong \/ Taken(r.email)
               /\ UNCHANGED <<users, registered>>
    <2>1. PICK code \in {"Internal", "AlreadyExists"} :
               /\ Reply(c, code, {})
               /\ r.password1 \in TooLong \/ Taken(r.email)
               /\ UNCHANGED <<users, registered>>
      BY <1>3
    <2>2. /\ call' \in [Call -> {NoCall} \cup CallRecord]
          /\ \A d \in Call \ {c} : call'[d] = call[d]
          /\ call'[c].pc = "replied" /\ call'[c].code = code
          /\ call'[c].req = r
          /\ call'[c].knewOut = call[c].knewOut
          /\ call'[c].knewAccounts = call[c].knewAccounts
      BY <1>1, <2>1, ReplyLemma DEF IInv, Working, Code
    <2>3. UNCHANGED <<tables, now, server, history, faults>>
      BY <2>1 DEF Register, tables, history
    <2>4. HasCause(c)'
      BY <1>1, <2>1, <2>2 DEF HasCause, Taken
    <2>5. CallInv(c)
      BY DEF IInv
    <2>6. CallInv(c)'
      BY <1>1, <2>1, <2>2, <2>3, <2>4, <2>5
         DEF CallInv, Op, tables, history
    <2> QED  BY <2>2, <2>3, <2>6, QuietCall DEF IInv, AuthTypeOK
  <1> QED  BY <1>2, <1>3 DEF Register

\* The claims of a login are of the row that was read.
LEMMA LoginKeeps ==
    ASSUME IInv, NEW c \in Call, Login(c)
    PROVE  IInv'
  <1>1. call[c].pc = "sent" /\ Op(c) = "login" /\ call[c].req.op = "login"
    BY DEF Login, At, Op
  <1>2. UNCHANGED <<tables, now, server, history, faults>>
    BY DEF Login
  <1>3. CallInv(c)
    BY DEF IInv
  <1>4. CASE \A u \in users : ~ Matches(u, call[c].req)
             /\ Reply(c, "InvalidArgument", {})
    <2>1. Reply(c, "InvalidArgument", {})
      BY <1>4 DEF Login
    <2>2. /\ call' \in [Call -> {NoCall} \cup CallRecord]
          /\ \A d \in Call \ {c} : call'[d] = call[d]
          /\ call'[c].pc = "replied" /\ call'[c].code = "InvalidArgument"
          /\ call'[c].req = call[c].req
          /\ call'[c].knewOut = call[c].knewOut
          /\ call'[c].knewAccounts = call[c].knewAccounts
      BY <1>1, <2>1, ReplyLemma DEF IInv, Working, Code
    <2>3. call[c].knewAccounts \subseteq users
      BY <1>1, <1>3 DEF CallInv, IInv, UsersInv
    <2>4. HasCause(c)'
      BY <1>1, <1>4, <2>2, <2>3 DEF HasCause, Matches
    <2>5. CallInv(c)'
      BY <1>1, <1>2, <1>3, <2>2, <2>4 DEF CallInv, Op, tables, history
    <2> QED  BY <1>2, <2>2, <2>5, QuietCall DEF IInv, AuthTypeOK
  <1>5. CASE \E u \in users :
               call' = [call EXCEPT ![c].pc = "sign", ![c].claims =
                   [email |-> u.email, wallet |-> u.wallet]]
    <2>1. PICK u \in users :
               call' = [call EXCEPT ![c].pc = "sign", ![c].claims =
                   [email |-> u.email, wallet |-> u.wallet]]
      BY <1>5
    <2> DEFINE k == [email |-> u.email, wallet |-> u.wallet]
    <2>2. k \in Claims
      BY DEF Claims, Account, IInv, AuthTypeOK
    <2>3. /\ call' \in [Call -> {NoCall} \cup CallRecord]
          /\ \A d \in Call \ {c} : call'[d] = call[d]
          /\ call'[c].pc = "sign" /\ call'[c].claims = k
          /\ call'[c].req = call[c].req
          /\ call'[c].knewOut = call[c].knewOut
          /\ call'[c].knewAccounts = call[c].knewAccounts
      BY <1>1, <2>1, <2>2, AdvanceLemma DEF IInv, Working
    <2>4. Named(k)
      BY DEF Named
    <2>5. CallInv(c)'
      BY <1>1, <1>2, <1>3, <2>3, <2>4
         DEF CallInv, Op, Refused, Replied, Named, tables, history
    <2> QED  BY <1>2, <2>3, <2>5, QuietCall DEF IInv, AuthTypeOK
  <1> QED  BY <1>4, <1>5 DEF Login

\* A call that signs appends tokens named after its claims, for any number of
\* them, and is answered OK.
LEMMA SignKeeps ==
    ASSUME IInv, NEW c \in Call, call[c].pc = "sign",
           NEW new \in Seq(Token),
           \A j \in DOMAIN new : /\ new[j].email = call[c].claims.email
                                /\ new[j].wallet = call[c].claims.wallet,
           issued' = issued \o new,
           NEW given \in SUBSET Nat, Reply(c, "OK", given),
           UNCHANGED <<users, blacklist, now, server, history, faults>>
    PROVE  IInv'
  <1>1. issued \in Seq(Token) /\ Len(issued) \in Nat /\ Len(new) \in Nat
    BY DEF IInv, AuthTypeOK
  <1>2. issued' \in Seq(Token) /\ Len(issued') = Len(issued) + Len(new)
    BY <1>1
  <1>3. \A j \in DOMAIN issued : j \in DOMAIN issued' /\ issued'[j] = issued[j]
    BY <1>1
  <1>4. \A j \in DOMAIN issued' \ DOMAIN issued :
          /\ j - Len(issued) \in DOMAIN new
          /\ issued'[j] = new[j - Len(issued)]
    BY <1>1, <1>2
  <1>5. Grows
    BY <1>1, <1>2, <1>3 DEF Grows, IInv, AuthTypeOK, history
  <1>6. /\ call' \in [Call -> {NoCall} \cup CallRecord]
        /\ \A d \in Call \ {c} : call'[d] = call[d]
        /\ call'[c].pc = "replied" /\ call'[c].code = "OK"
        /\ call'[c].req = call[c].req
        /\ call'[c].knewOut = call[c].knewOut
        /\ call'[c].knewAccounts = call[c].knewAccounts
    BY ReplyLemma DEF IInv, Working, Code
  <1>7. AuthTypeOK'
    BY <1>2, <1>6 DEF IInv, AuthTypeOK, history
  <1>8. UsersInv' /\ LogoutInv'
    BY <1>3 DEF IInv, UsersInv, LogoutInv, Expired, history
  <1>9. Named(call[c].claims) /\ CallInv(c)
    BY DEF IInv, CallInv
  <1>10. TokensNameAccounts'
    <2> SUFFICES ASSUME NEW j \in DOMAIN issued'
                 PROVE  \E u \in users : /\ u.email = issued'[j].email
                                         /\ u.wallet = issued'[j].wallet
      BY DEF TokensNameAccounts
    <2>1. CASE j \in DOMAIN issued
      BY <2>1, <1>3 DEF IInv, TokensNameAccounts
    <2>2. CASE j \notin DOMAIN issued
      BY <2>2, <1>4, <1>9 DEF Named
    <2> QED  BY <2>1, <2>2
  <1>11. Op(c) \in {"refresh", "logout"} => call[c].req.token \in 0..Len(issued')
    BY <1>1, <1>2, <1>9 DEF CallInv
  <1>12. CallInv(c)'
    BY <1>6, <1>9, <1>11 DEF CallInv, Op, Refused, Replied, history
  <1> QED  BY <1>5, <1>6, <1>7, <1>8, <1>10, <1>12, OneCall DEF IInv

\* The pair of a login is named after its claims.
LEMMA SignPairKeeps ==
    ASSUME AuthAssumption, IInv, NEW c \in Call, SignPair(c)
    PROVE  IInv'
  <1> DEFINE a == Signed("access", c, AccessTTL)
             b == Signed("refresh", c, RefreshTTL)
  <1>1. call[c].pc = "sign"
    BY DEF SignPair, At
  <1>2. /\ a \in Token /\ a.email = call[c].claims.email
        /\ a.wallet = call[c].claims.wallet
        /\ b \in Token /\ b.email = call[c].claims.email
        /\ b.wallet = call[c].claims.wallet
    BY <1>1, SignedLemma DEF IInv, AuthAssumption
  <1>3. issued' = issued \o <<a, b>>
    <2>1. issued \in Seq(Token)
      BY DEF IInv, AuthTypeOK
    <2>2. issued' = Append(Append(issued, a), b)
      BY DEF SignPair
    <2> HIDE DEF a, b
    <2> QED  BY <2>1, <2>2, <1>2
  <1>4. <<a, b>> \in Seq(Token) /\ DOMAIN <<a, b>> = 1..2
    <2> HIDE DEF a, b
    <2> QED  BY <1>2
  <1>5. {Len(issued) + 1, Len(issued) + 2} \in SUBSET Nat
    BY DEF IInv, AuthTypeOK
  <1>6. \A j \in DOMAIN <<a, b>> :
          /\ <<a, b>>[j].email = call[c].claims.email
          /\ <<a, b>>[j].wallet = call[c].claims.wallet
    <2> HIDE DEF a, b
    <2> QED  BY <1>2, <1>4
  <1>7. /\ Reply(c, "OK", {Len(issued) + 1, Len(issued) + 2})
        /\ UNCHANGED <<users, blacklist, now, server, history, faults>>
    BY DEF SignPair
  <1> HIDE DEF a, b
  <1> QED  BY <1>1, <1>3, <1>4, <1>5, <1>6, <1>7, SignKeeps

\* So is the access token of a refresh.
LEMMA SignAccessKeeps ==
    ASSUME AuthAssumption, IInv, NEW c \in Call, SignAccess(c)
    PROVE  IInv'
  <1> DEFINE a == Signed("access", c, AccessTTL)
  <1>1. call[c].pc = "sign"
    BY DEF SignAccess, At
  <1>2. /\ a \in Token /\ a.email = call[c].claims.email
        /\ a.wallet = call[c].claims.wallet
    BY <1>1, SignedLemma DEF IInv, AuthAssumption
  <1>3. issued' = issued \o <<a>>
    <2>1. issued \in Seq(Token)
      BY DEF IInv, AuthTypeOK
    <2>2. issued' = Append(issued, a)
      BY DEF SignAccess
    <2> HIDE DEF a
    <2> QED  BY <2>1, <2>2, <1>2
  <1>4. <<a>> \in Seq(Token) /\ DOMAIN <<a>> = {1}
    <2> HIDE DEF a
    <2> QED  BY <1>2
  <1>5. {Len(issued) + 1} \in SUBSET Nat
    BY DEF IInv, AuthTypeOK
  <1>6. \A j \in DOMAIN <<a>> : /\ <<a>>[j].email = call[c].claims.email
                               /\ <<a>>[j].wallet = call[c].claims.wallet
    <2> HIDE DEF a
    <2> QED  BY <1>2, <1>4
  <1>7. /\ Reply(c, "OK", {Len(issued) + 1})
        /\ UNCHANGED <<users, blacklist, now, server, history, faults>>
    BY DEF SignAccess
  <1> HIDE DEF a
  <1> QED  BY <1>1, <1>3, <1>4, <1>5, <1>6, <1>7, SignKeeps

\* A token that a well-formed request presents exists.
LEMMA PresentedExists ==
    ASSUME IInv, NEW c \in Call, call[c].pc \in Working,
           Op(c) \in {"refresh", "logout"}, WellFormed(call[c].req)
    PROVE  call[c].req.token \in DOMAIN issued
  BY DEF IInv, AuthTypeOK, CallInv, Working, WellFormed, Op, NoToken

\* The claims of a token that is parsed are of an account.
LEMMA ParseKeeps ==
    ASSUME IInv, NEW c \in Call, Parse(c)
    PROVE  IInv'
  <1> DEFINE j == call[c].req.token
             k == [email |-> issued[j].email, wallet |-> issued[j].wallet]
  <1>1. call[c].pc = "sent" /\ Op(c) \in {"refresh", "logout"}
    BY DEF Parse, At
  <1>2. UNCHANGED <<tables, now, server, history, faults>>
    BY DEF Parse
  <1>3. CallInv(c)
    BY DEF IInv
  <1>4. j \in DOMAIN issued
    BY <1>1, PresentedExists DEF Parse, Working
  <1>5. CASE Expired(j)
    <2>1. PICK code \in Code \ {"OK"} : Reply(c, code, {})
      BY <1>5 DEF Parse, FailureCode, Code
    <2>2. /\ call' \in [Call -> {NoCall} \cup CallRecord]
          /\ \A d \in Call \ {c} : call'[d] = call[d]
          /\ call'[c].pc = "replied" /\ call'[c].code = code
          /\ call'[c].req = call[c].req
          /\ call'[c].knewOut = call[c].knewOut
          /\ call'[c].knewAccounts = call[c].knewAccounts
      BY <1>1, <2>1, ReplyLemma DEF IInv, Working
    <2>3. Expired(call[c].req.token)' /\ HasCause(c)'
      BY <1>1, <1>2, <1>5, <2>2 DEF HasCause, Expired, Op, tables
    <2>4. CallInv(c)'
      BY <1>1, <1>2, <1>3, <2>1, <2>2, <2>3
         DEF CallInv, Op, tables, history
    <2> QED  BY <1>2, <2>2, <2>4, QuietCall DEF IInv, AuthTypeOK
  <1>6. CASE ~ Expired(j)
    <2>1. call' = [call EXCEPT ![c].pc = "parsed", ![c].claims = k]
      BY <1>6 DEF Parse
    <2>2. k \in Claims
      BY <1>4, TokenTyped DEF Token, Claims, IInv
    <2>3. /\ call' \in [Call -> {NoCall} \cup CallRecord]
          /\ \A d \in Call \ {c} : call'[d] = call[d]
          /\ call'[c].pc = "parsed" /\ call'[c].claims = k
          /\ call'[c].req = call[c].req
          /\ call'[c].knewOut = call[c].knewOut
          /\ call'[c].knewAccounts = call[c].knewAccounts
      BY <1>1, <2>1, <2>2, AdvanceLemma DEF IInv, Working
    <2>4. Named(k)
      BY <1>4 DEF Named, IInv, TokensNameAccounts
    <2>5. CallInv(c)'
      BY <1>1, <1>2, <1>3, <1>4, <2>3, <2>4
         DEF CallInv, Op, Refused, Replied, Named, tables, history
    <2> QED  BY <1>2, <2>3, <2>5, QuietCall DEF IInv, AuthTypeOK
  <1> QED  BY <1>5, <1>6

\* A token that passes the blacklist had not been logged out at the send.
LEMMA RefreshKeeps ==
    ASSUME IInv, NEW c \in Call, Refresh(c)
    PROVE  IInv'
  <1> DEFINE j == call[c].req.token
  <1>1. call[c].pc = "parsed" /\ Op(c) = "refresh"
    BY DEF Refresh, At
  <1>2. UNCHANGED <<tables, now, server, history, faults>>
    BY DEF Refresh
  <1>3. CallInv(c) /\ j \in DOMAIN issued /\ Named(call[c].claims)
    BY <1>1 DEF IInv, CallInv
  <1>4. CASE Expired(j) \/ j \in blacklist
    <2>1. Reply(c, "InvalidArgument", {})
      BY <1>4 DEF Refresh
    <2>2. /\ call' \in [Call -> {NoCall} \cup CallRecord]
          /\ \A d \in Call \ {c} : call'[d] = call[d]
          /\ call'[c].pc = "replied" /\ call'[c].code = "InvalidArgument"
          /\ call'[c].req = call[c].req
          /\ call'[c].knewOut = call[c].knewOut
          /\ call'[c].knewAccounts = call[c].knewAccounts
      BY <1>1, <2>1, ReplyLemma DEF IInv, Working, Code
    <2>3. HasCause(c)'
      BY <1>1, <1>2, <1>4, <2>2 DEF HasCause, Expired, Op, tables
    <2>4. CallInv(c)'
      BY <1>1, <1>2, <1>3, <2>2, <2>3 DEF CallInv, Op, tables, history
    <2> QED  BY <1>2, <2>2, <2>4, QuietCall DEF IInv, AuthTypeOK
  <1>5. CASE ~ (Expired(j) \/ j \in blacklist)
    <2>1. call[c] \in CallRecord /\ call[c].claims \in Claims
      BY <1>1, CallTyped DEF IInv, CallRecord
    <2>2. call' = [call EXCEPT ![c].pc = "sign", ![c].claims = call[c].claims]
      <3>1. call' = [call EXCEPT ![c].pc = "sign"]
        BY <1>5 DEF Refresh
      <3>2. [call[c] EXCEPT !.pc = "sign"]
              = [call[c] EXCEPT !.pc = "sign", !.claims = call[c].claims]
        BY <2>1 DEF CallRecord
      <3> QED  BY <3>1, <3>2
    <2>3. /\ call' \in [Call -> {NoCall} \cup CallRecord]
          /\ \A d \in Call \ {c} : call'[d] = call[d]
          /\ call'[c].pc = "sign" /\ call'[c].claims = call[c].claims
          /\ call'[c].req = call[c].req
          /\ call'[c].knewOut = call[c].knewOut
          /\ call'[c].knewAccounts = call[c].knewAccounts
      BY <1>1, <2>1, <2>2, AdvanceLemma DEF IInv, Working
    <2>4. j \notin call[c].knewOut
      BY <1>1, <1>3, <1>5 DEF CallInv, IInv, LogoutInv
    <2>5. CallInv(c)'
      BY <1>1, <1>2, <1>3, <2>3, <2>4
         DEF CallInv, Op, Refused, Replied, Named, tables, history
    <2> QED  BY <1>2, <2>3, <2>5, QuietCall DEF IInv, AuthTypeOK
  <1> QED  BY <1>4, <1>5

\* A token that is acknowledged as logged out is blacklisted or expired.
LEMMA LogoutKeeps ==
    ASSUME IInv, NEW c \in Call, Logout(c)
    PROVE  IInv'
  <1> DEFINE j == call[c].req.token
  <1>1. call[c].pc = "parsed" /\ Op(c) = "logout" /\ Reply(c, "OK", {})
    BY DEF Logout, At
  <1>2. /\ blacklist' = IF Expired(j) THEN blacklist ELSE blacklist \cup {j}
        /\ loggedOut' = loggedOut \cup {j}
        /\ UNCHANGED <<users, issued, now, server, registered, faults>>
    BY DEF Logout
  <1>3. CallInv(c) /\ j \in DOMAIN issued /\ j \in Nat
    BY <1>1 DEF IInv, CallInv, AuthTypeOK
  <1>4. /\ call' \in [Call -> {NoCall} \cup CallRecord]
        /\ \A d \in Call \ {c} : call'[d] = call[d]
        /\ call'[c].pc = "replied" /\ call'[c].code = "OK"
        /\ call'[c].req = call[c].req
        /\ call'[c].knewOut = call[c].knewOut
        /\ call'[c].knewAccounts = call[c].knewAccounts
    BY <1>1, ReplyLemma DEF IInv, Working, Code
  <1>5. blacklist \subseteq blacklist' /\ blacklist' \subseteq Nat
    BY <1>2, <1>3 DEF IInv, AuthTypeOK
  <1>6. AuthTypeOK' /\ Grows
    <2>1. AuthTypeOK'
      BY <1>2, <1>3, <1>4, <1>5 DEF IInv, AuthTypeOK
    <2>2. Grows
      BY <1>2, <1>5 DEF IInv, AuthTypeOK, Grows
    <2> QED  BY <2>1, <2>2
  <1>7. UsersInv' /\ TokensNameAccounts'
    BY <1>2 DEF IInv, UsersInv, TokensNameAccounts
  <1>8. LogoutInv'
    BY <1>2, <1>3, <1>5 DEF IInv, LogoutInv, Expired
  <1>9. CallInv(c)'
    BY <1>1, <1>2, <1>3, <1>4 DEF CallInv, Op, Refused, Replied
  <1> QED  BY <1>4, <1>6, <1>7, <1>8, <1>9, OneCall DEF IInv

\* A statement that failed may have been executed: rows are added all the same.
LEMMA FailKeeps ==
    ASSUME IInv, NEW c \in Call, Fail(c)
    PROVE  IInv'
  <1> DEFINE r == call[c].req
             code == FailureCode(Op(c))
             new == [call[c] EXCEPT !.pc = "replied", !.hit = TRUE,
                                    !.code = code]
  <1>1. call[c].pc \in Working /\ call[c] \in CallRecord
    BY CallTyped DEF Fail, IInv, Working
  <1>2. code \in Code \ {"OK"}
    BY DEF FailureCode, Code
  <1>3. new \in CallRecord
    BY <1>1, <1>2 DEF CallRecord
  <1>4. call' = [call EXCEPT ![c] = new]
    BY <1>1 DEF Fail, IInv, AuthTypeOK
  <1> HIDE DEF code
  <1>5. /\ call' \in [Call -> {NoCall} \cup CallRecord]
        /\ \A d \in Call \ {c} : call'[d] = call[d]
        /\ call'[c] = new
    BY <1>3, <1>4 DEF IInv, AuthTypeOK
  <1>6. /\ new.pc = "replied" /\ new.hit = TRUE /\ new.code = code
        /\ new.req = r /\ new.knewOut = call[c].knewOut
        /\ new.knewAccounts = call[c].knewAccounts
    BY <1>1 DEF CallRecord
  <1>7. UNCHANGED <<issued, now, server, history>> /\ faults' \in Nat
    BY DEF Fail, Fault, IInv, AuthTypeOK
  <1>8. CallInv(c) /\ PerhapsExecuted(c)
    BY DEF IInv, Fail
  <1>9. /\ users \subseteq users' /\ users' \subseteq Account /\ UsersInv'
    <2>1. CASE users' = users
      BY <2>1, <1>7 DEF IInv, UsersInv, AuthTypeOK, history
    <2>2. CASE /\ Op(c) = "register" /\ Storable(r)
               /\ users' = users \cup {AccountOf(r)}
      <3>1. registered' = registered
        BY <1>7 DEF history
      <3> QED  BY <2>2, <3>1, <1>1, StoreLemma
    <2> QED  BY <2>1, <2>2, <1>8 DEF PerhapsExecuted
  <1>10. blacklist \subseteq blacklist' /\ blacklist' \subseteq Nat
    <2>1. CASE blacklist' = blacklist
      BY <2>1 DEF IInv, AuthTypeOK
    <2>2. CASE call[c].pc = "parsed" /\ blacklist' = blacklist \cup {r.token}
      <3>1. r.token \in DOMAIN issued
        BY <2>2, <1>8 DEF CallInv
      <3>2. r.token \in Nat
        BY <3>1 DEF IInv, AuthTypeOK
      <3> QED  BY <2>2, <3>2 DEF IInv, AuthTypeOK
    <2> QED  BY <2>1, <2>2, <1>8 DEF PerhapsExecuted
  <1>11. AuthTypeOK' /\ Grows
    BY <1>5, <1>7, <1>9, <1>10 DEF IInv, AuthTypeOK, Grows, history
  <1>12. LogoutInv' /\ TokensNameAccounts'
    BY <1>7, <1>9, <1>10
       DEF IInv, LogoutInv, Expired, TokensNameAccounts, history
  <1>13. CallInv(c)'
    BY <1>1, <1>2, <1>5, <1>6, <1>7, <1>8
       DEF CallInv, Op, Refused, Replied, Working, history
  <1> QED  BY <1>5, <1>9, <1>11, <1>12, <1>13, OneCall DEF IInv

\* A crash answers the callers that wait, each with an error and a failure.
LEMMA CrashKeeps ==
    ASSUME IInv, Crash
    PROVE  IInv'
  <1>1. /\ UNCHANGED <<tables, now, history>>
        /\ server' = "down" /\ faults' \in Nat
    <2>1. /\ UNCHANGED <<tables, now, history>>
          /\ server' = "down" /\ Fault
      BY Zenon DEF Crash
    <2> QED  BY <2>1 DEF Fault, IInv, AuthTypeOK
  <1>2. Grows /\ UsersInv' /\ LogoutInv' /\ TokensNameAccounts'
    BY <1>1, Quiet
  <1>3. ASSUME NEW c \in Call
        PROVE  call'[c] \in {NoCall} \cup CallRecord /\ CallInv(c)'
    <2>1. CASE ~ Waiting(c)
      <3>1. call'[c] = NoCall
        BY <2>1 DEF Crash
      <3> QED  BY <3>1 DEF CallInv, NoCall
    <2>2. CASE Waiting(c)
      <3> DEFINE new == [call[c] EXCEPT !.pc = "replied",
                             !.code = "Unavailable", !.given = {}, !.hit = TRUE]
      <3>1. call[c] \in CallRecord
        BY <2>2 DEF Waiting, IInv, AuthTypeOK
      <3>2. call'[c] = new
        BY <2>2 DEF Crash
      <3>3. new \in CallRecord
        BY <3>1 DEF CallRecord, Code
      <3>4. /\ new.pc = "replied" /\ new.hit = TRUE
            /\ new.code = "Unavailable"
            /\ new.req = call[c].req /\ new.knewOut = call[c].knewOut
            /\ new.knewAccounts = call[c].knewAccounts
        BY <3>1 DEF CallRecord
      <3>5. CallInv(c) /\ call[c].pc # "idle"
        BY <3>1 DEF IInv, CallRecord, Working
      <3>6. CallInv(c)'
        BY <1>1, <3>2, <3>4, <3>5
           DEF CallInv, Op, Refused, Replied, tables, history
      <3> QED  BY <3>2, <3>3, <3>6
    <2> QED  BY <2>1, <2>2
  <1>4. call' \in [Call -> {NoCall} \cup CallRecord]
    <2>1. \A c \in Call : call'[c] \in {NoCall} \cup CallRecord
      BY <1>3
    <2>2. call' = [c \in Call |-> call'[c]]
      BY DEF Crash
    <2> QED  BY <2>1, <2>2
  <1>5. AuthTypeOK'
    BY <1>1, <1>4 DEF IInv, AuthTypeOK, tables, history
  <1> QED  BY <1>2, <1>3, <1>5 DEF IInv

\* The process and the clock leave the calls alone.
LEMMA AloneKeeps ==
    ASSUME IInv, UNCHANGED <<tables, call, history>>,
           now' \in Nat, now <= now', faults' \in Nat,
           server' \in {"up", "stopping", "down"}
    PROVE  IInv'
  <1>1. UNCHANGED <<users, blacklist, issued, registered, loggedOut, call>>
    BY DEF tables, history
  <1>2. AuthTypeOK'
    BY <1>1 DEF IInv, AuthTypeOK
  <1>3. Grows
    BY <1>1 DEF Grows, IInv, AuthTypeOK
  <1>4. UsersInv' /\ TokensNameAccounts'
    BY <1>1 DEF IInv, UsersInv, TokensNameAccounts
  <1>5. LogoutInv'
    BY <1>1, <1>2, <1>3, Monotone DEF IInv, LogoutInv
  <1>6. \A c \in Call : CallInv(c)'
    BY <1>1, <1>2, <1>3, OtherCalls DEF IInv
  <1> QED  BY <1>2, <1>4, <1>5, <1>6 DEF IInv

-----------------------------------------------------------------------------
(* The invariant and what follows from it.                                 *)

\* The invariant holds at the start.
LEMMA InitHolds ==
    ASSUME AuthAssumption, AuthInit
    PROVE  IInv
  <1>1. AuthTypeOK
    BY DEF AuthAssumption, AuthInit, AuthTypeOK
  <1>2. \A c \in Call : CallInv(c)
    BY DEF AuthInit, CallInv, NoCall
  <1>3. UsersInv /\ LogoutInv /\ TokensNameAccounts
    BY DEF AuthAssumption, AuthInit, UsersInv, LogoutInv, TokensNameAccounts
  <1> QED  BY <1>1, <1>2, <1>3 DEF IInv

\* Each step of sso and of its callers keeps it.
LEMMA NextKeeps ==
    ASSUME AuthAssumption, IInv, [AuthNext]_authVars
    PROVE  IInv'
  <1>1. ASSUME NEW c \in Call, Serve(c)
        PROVE  IInv'
    BY <1>1, RejectKeeps, RegisterKeeps, LoginKeeps, SignPairKeeps,
       ParseKeeps, RefreshKeeps, SignAccessKeeps, LogoutKeeps DEF Serve
  <1>2. ASSUME NEW c \in Call, Fail(c)
        PROVE  IInv'
    BY <1>2, FailKeeps
  <1>3. CASE Stop \/ Exit \/ Restart
    BY <1>3, AloneKeeps
       DEF Stop, Exit, Restart, Fault, IInv, AuthTypeOK, tables, history
  <1>4. CASE Crash
    BY <1>4, CrashKeeps
  <1>5. CASE Tick
    BY <1>5, AloneKeeps DEF Tick, IInv, AuthTypeOK
  <1>6. CASE Callers
    BY <1>6, SendKeeps, ReceiveKeeps, AbandonKeeps DEF Callers
  <1>7. CASE UNCHANGED authVars
    BY <1>7, AloneKeeps DEF authVars, IInv, AuthTypeOK
  <1> QED  BY <1>1, <1>2, <1>3, <1>4, <1>5, <1>6, <1>7
              DEF AuthNext, ServiceNext

\* The inductive invariant holds of sso (AuthNext, every action).
THEOREM AuthSpecIInv == AuthSpec => []IInv
  <1>1. AuthInit => IInv
    BY AuthAssumption, InitHolds
  <1>2. IInv /\ [AuthNext]_authVars => IInv'
    BY AuthAssumption, NextKeeps
  <1> QED  BY <1>1, <1>2, PTL DEF AuthSpec

\* What the runs check follows from it.
LEMMA IInvImplies ==
    ASSUME IInv
    PROVE  /\ AuthTypeOK /\ NoRefreshAfterLogout /\ RegisteredForGood
           /\ TokensNameAccounts /\ RefusalsHaveCause
  <1>1. NoRefreshAfterLogout
    BY DEF IInv, CallInv, NoRefreshAfterLogout, Succeeded, Replied
  <1>2. RefusalsHaveCause
    BY DEF IInv, CallInv, RefusalsHaveCause, Refused, Replied
  <1>3. RegisteredForGood
    BY DEF IInv, UsersInv, RegisteredForGood
  <1> QED  BY <1>1, <1>2, <1>3 DEF IInv

\* The state of sso has its types, whatever is asked and whatever fails.
THEOREM AuthTypes == AuthSpec => []AuthTypeOK
  BY AuthSpecIInv, IInvImplies, PTL

\* No Refresh that was sent after the answer to a Logout of its token succeeds
\* (Auth.Refresh, Auth.Logout).
THEOREM LogoutIsFinal == AuthSpec => []NoRefreshAfterLogout
  BY AuthSpecIInv, IInvImplies, PTL

\* An account acknowledged to a caller stays as it is, alone under its email
\* (Auth.Register, the constraint of the table users).
THEOREM AccountsStay == AuthSpec => []RegisteredForGood
  BY AuthSpecIInv, IInvImplies, PTL

\* Every token ever signed names an account (Auth.Login, Auth.Refresh).
THEOREM TokensAreNamed == AuthSpec => []TokensNameAccounts
  BY AuthSpecIInv, IInvImplies, PTL

\* What no failure has hit is refused for a cause (the four handlers).
THEOREM RefusalsAreJust == AuthSpec => []RefusalsHaveCause
  BY AuthSpecIInv, IInvImplies, PTL
=============================================================================
