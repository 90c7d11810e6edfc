------------------------------ MODULE Sessions ------------------------------
(***************************************************************************)
(* Tokens and the requests that carry them: login, refresh, and calls that *)
(* are authenticated, authorized and handled.  The server keeps no list of *)
(* the tokens it signed; a token is good when its signature, type and time *)
(* are, and the user it names has a row at the moment GetUser looks.       *)
(*                                                                         *)
(* Gateway composes this module with the life of the process.  What        *)
(* Authorize answers is the subject of Enforcer; here it may answer        *)
(* anything.                                                               *)
(***************************************************************************)
EXTENDS Naturals, FiniteSets

CONSTANTS
    Users,           \* user_id, as gen_random_uuid hands them out
    Names,           \* username
    Passwords,
    NoRow,           \* the user has no row
    NoToken,         \* what a request has in place of a token, or a user
    Requests,
    AccessLife,      \* jwt.access-expiration
    RefreshLife,     \* jwt.refresh-expiration
    MaxTime,         \* bound: the clock
    MaxKeys,         \* bound: secrets configured
    MaxSigns         \* bound: pairs of tokens signed

ASSUME SessionsAssumption ==
    /\ NoToken \notin Users
    /\ NoRow \notin [name : Names, password : Passwords]
    /\ Names # {} /\ Passwords # {}
    /\ AccessLife \in Nat \ {0} /\ RefreshLife \in Nat /\ AccessLife <= RefreshLife

VARIABLES
    now,
    key,             \* config.key of the server that runs: which secret it is, of those ever configured
    account,         \* the rows of the table user
    used,            \* the user IDs handed out so far
    signs,           \* every pair of tokens signed
    pc, rq           \* the step each request is at, its arguments and local variables

sessionVars == <<now, key, account, used, signs, pc, rq>>

Row == [name : Names, password : Passwords]

\* What authenticates the requester at a signing.
Proof == {"password", "access", "refresh"}

\* A pair is signed for a user, on the strength of what was proved before.
Sign == [user : Users, at : Nat, key : Nat, by : Proof, proved : Nat]

\* A token is one of a pair.
Token == [pair : Sign, type : {"access", "refresh"}]

ASSUME NoTokenAssumption == NoToken \notin Token

Steps == {"idle", "lookup", "compare", "parse", "retrieve", "authorize", "handle", "sign", "save", "failed"}

\* The arguments of a call that no step before its handler depends on are
\* chosen in the handler.
Request == [
    kind     : {"login", "refresh", "call"},
    name     : Names,                 \* of a login
    password : Passwords,             \* of a login
    token    : Token \cup {NoToken},
    user     : Users \cup {NoToken},  \* who the request turned out to come from
    loaded   : Row \cup {NoRow},      \* the row Login or ChangePassword read
    parsed   : Nat,                   \* when its token or password was found good
    could    : BOOLEAN,               \* history: what it carries was good since it arrived
    couldnt  : BOOLEAN]               \* history: what it carries was not good since it arrived

SessionsTypeOK ==
    /\ now \in Nat /\ key \in Nat
    /\ account \in [Users -> Row \cup {NoRow}]
    /\ used \subseteq Users
    /\ signs \subseteq Sign
    /\ pc \in [Requests -> Steps]
    /\ rq \in [Requests -> Request]

-----------------------------------------------------------------------------
Blank == [kind |-> "call", name |-> CHOOSE n \in Names : TRUE,
          password |-> CHOOSE p \in Passwords : TRUE, token |-> NoToken, user |-> NoToken, loaded |-> NoRow,
          parsed |-> 0, could |-> FALSE, couldnt |-> FALSE]

Life(type) == IF type = "access" THEN AccessLife ELSE RefreshLife

Expiry(t) == t.pair.at + Life(t.type)

\* GetClaims and ParseIdentity: the signature is that of the key, exp is ahead.
Valid(t) == t.pair.key = key /\ now < Expiry(t)

Exists(rows, u) == rows[u] # NoRow

\* IDs are told apart by being equal or not; which one is next does not matter.
NextID == CHOOSE u \in Users : u \notin used

NameFree(rows, name) == \A u \in Users : Exists(rows, u) => rows[u].name # name

\* The rows agree with what a request claims: that a user of this name has
\* this password, that the user named by the token is there.
Agrees(rows, q) ==
    IF q.kind = "login"
    THEN \E u \in Users : rows[u] = [name |-> q.name, password |-> q.password]
    ELSE q.token # NoToken /\ Exists(rows, q.token.pair.user)

\* What the requests in progress could have found in these rows, too.
Witness(q, rows) == [q EXCEPT !.could = @ \/ Agrees(rows, q), !.couldnt = @ \/ ~Agrees(rows, q)]

WitnessAll(requests, rows) == [r \in Requests |-> IF pc[r] = "idle" THEN requests[r]
                                                                   ELSE Witness(requests[r], rows)]

Goto(r, label) == pc' = [pc EXCEPT ![r] = label]

End(r) == Goto(r, "idle") /\ rq' = [rq EXCEPT ![r] = Blank]

\* The rows become these, and a request may be over.
Change(rows) == account' = rows /\ rq' = WitnessAll(rq, rows)

ChangeAndEnd(r, rows) ==
    /\ account' = rows /\ Goto(r, "idle")
    /\ rq' = [WitnessAll(rq, rows) EXCEPT ![r] = Blank]

-----------------------------------------------------------------------------
SessionsInit ==
    /\ now = 0 /\ key = 1
    /\ account = [u \in Users |-> NoRow] /\ used = {}
    /\ signs = {}
    /\ pc = [r \in Requests |-> "idle"]
    /\ rq = [r \in Requests |-> Blank]

Tick ==
    /\ now < MaxTime
    /\ now' = now + 1
    /\ UNCHANGED <<key, account, used, signs, pc, rq>>

Arrive(r, q, label) == Goto(r, label) /\ rq' = [rq EXCEPT ![r] = Witness(q, account)]

\* The routes: /auth/login, /auth/refresh-token, and those behind the two
\* middlewares.  Clients send any token they were ever given.
Receive(r) ==
    /\ pc[r] = "idle"
    /\ \/ \E name \in Names, password \in Passwords :
            Arrive(r, [Blank EXCEPT !.kind = "login", !.name = name, !.password = password], "lookup")
       \/ \E token \in [pair : signs, type : {"access", "refresh"}], kind \in {"refresh", "call"} :
            Arrive(r, [Blank EXCEPT !.kind = kind, !.token = token], "parse")
    /\ UNCHANGED <<now, key, account, used, signs>>

\* A pair is signed at the end of the request.
SignFor(r, by) ==
    /\ Cardinality(signs) < MaxSigns
    /\ signs' = signs \cup {[user |-> rq[r].user, at |-> now, key |-> key, by |-> by, proved |-> rq[r].parsed]}
    /\ End(r)

\* Login looks the name up,
Lookup(r) ==
    /\ pc[r] = "lookup"
    /\ \/ NameFree(account, rq[r].name) /\ End(r)
       \/ \E u \in Users :
            /\ Exists(account, u) /\ account[u].name = rq[r].name
            /\ Goto(r, "compare")
            /\ rq' = [rq EXCEPT ![r].user = u, ![r].loaded = account[u], ![r].parsed = now]
    /\ UNCHANGED <<now, key, account, used, signs>>

\* Mutant: authn.Compare with its arguments swapped.
CompareSwapped(r) ==
    /\ pc[r] = "compare"
    /\ End(r)
    /\ UNCHANGED <<now, key, account, used, signs>>

\* compares the password of the row it read, and signs.
Compare(r) ==
    /\ pc[r] = "compare"
    /\ IF rq[r].loaded.password = rq[r].password THEN SignFor(r, "password")
                                                 ELSE End(r) /\ UNCHANGED signs
    /\ UNCHANGED <<now, key, account, used>>

\* Mutant: the type of a token is not looked at.
AnyType(kind) == {"access", "refresh"}

\* RefreshAuthnMiddleware takes refresh tokens, AuthnMiddleware the others.
TypeFor(kind) == IF kind = "refresh" THEN {"refresh"} ELSE {"access"}

\* Mutant: a token good at its signing is good.
ParseStale(r) ==
    /\ pc[r] = "parse"
    /\ IF rq[r].token.type \in TypeFor(rq[r].kind)
       THEN Goto(r, "retrieve") /\ rq' = [rq EXCEPT ![r].user = rq[r].token.pair.user, ![r].parsed = now]
       ELSE End(r)
    /\ UNCHANGED <<now, key, account, used, signs>>

Parse(r) ==
    /\ pc[r] = "parse"
    /\ IF Valid(rq[r].token) /\ rq[r].token.type \in TypeFor(rq[r].kind)
       THEN Goto(r, "retrieve") /\ rq' = [rq EXCEPT ![r].user = rq[r].token.pair.user, ![r].parsed = now]
       ELSE End(r)
    /\ UNCHANGED <<now, key, account, used, signs>>

\* Mutant: GetUser is skipped.
RetrieveNothing(r) ==
    /\ pc[r] = "retrieve"
    /\ Goto(r, IF rq[r].kind = "refresh" THEN "sign" ELSE "authorize") /\ UNCHANGED rq
    /\ UNCHANGED <<now, key, account, used, signs>>

\* GetUser of either middleware.
Retrieve(r) ==
    /\ pc[r] = "retrieve"
    /\ IF Exists(account, rq[r].user)
       THEN Goto(r, IF rq[r].kind = "refresh" THEN "sign" ELSE "authorize") /\ UNCHANGED rq
       ELSE End(r)
    /\ UNCHANGED <<now, key, account, used, signs>>

\* RefreshToken signs a new pair; nothing happens to the old one.
Refresh(r) ==
    /\ pc[r] = "sign"
    /\ SignFor(r, rq[r].token.type)
    /\ UNCHANGED <<now, key, account, used>>

\* Authorize allows the call, or does not.
Authorize(r) ==
    /\ pc[r] = "authorize"
    /\ (Goto(r, "handle") /\ UNCHANGED rq) \/ End(r)
    /\ UNCHANGED <<now, key, account, used, signs>>

\* A handler that leaves this module's variables alone.
Read(r) ==
    /\ pc[r] = "handle"
    /\ End(r)
    /\ UNCHANGED <<now, key, account, used, signs>>

\* Delete removes the row of the user the path names.
Delete(r) ==
    /\ pc[r] = "handle"
    /\ \E u \in used : ChangeAndEnd(r, [account EXCEPT ![u] = NoRow])
    /\ UNCHANGED <<now, key, used, signs>>

\* ChangePassword reads the requester's own row (where.T) and goes on when the
\* old password is the row's,
ChangePassword(r) ==
    /\ pc[r] = "handle"
    /\ \/ /\ Exists(account, rq[r].user) /\ Goto(r, "save")
          /\ \E new \in Passwords :
                rq' = [rq EXCEPT ![r].loaded = [account[rq[r].user] EXCEPT !.password = new]]
       \/ End(r)
    /\ UNCHANGED <<now, key, account, used, signs>>

\* and saves the row, which inserts it again when it is gone, unless the name
\* has been taken.
Save(r) ==
    /\ pc[r] = "save"
    /\ \/ /\ Exists(account, rq[r].user) \/ NameFree(account, rq[r].loaded.name)
          /\ ChangeAndEnd(r, [account EXCEPT ![rq[r].user] = rq[r].loaded])
       \/ ~Exists(account, rq[r].user) /\ ~NameFree(account, rq[r].loaded.name) /\ End(r) /\ UNCHANGED account
    /\ UNCHANGED <<now, key, used, signs>>

\* What the requests of other servers do to the table: a user is created
\* (POST /v1/users), deleted, or has its password changed.  Module UserAccounts
\* has their steps.
CreateUser ==
    /\ \E row \in Row :
        /\ used # Users /\ NameFree(account, row.name)
        /\ Change([account EXCEPT ![NextID] = row])
        /\ used' = used \cup {NextID}
    /\ UNCHANGED <<now, key, signs, pc>>

DeleteUser ==
    /\ \E u \in Users : Exists(account, u) /\ Change([account EXCEPT ![u] = NoRow])
    /\ UNCHANGED <<now, key, used, signs, pc>>

SetPassword ==
    /\ \E u \in Users, new \in Passwords :
        Exists(account, u) /\ Change([account EXCEPT ![u].password = new])
    /\ UNCHANGED <<now, key, used, signs, pc>>

\* The process is gone, and the requests in progress with it.
CutAll ==
    /\ pc' = [r \in Requests |-> "idle"]
    /\ rq' = [r \in Requests |-> Blank]
    /\ UNCHANGED <<now, key, account, used, signs>>

\* token.Init at the start of a process takes the secret that is configured: the
\* one it had, or another.
InitKey == key' \in {key, key + 1} /\ key' <= MaxKeys /\ UNCHANGED <<now, account, used, signs, pc, rq>>

\* A statement fails, and the request with it.
StatementFails(r) ==
    /\ pc[r] \in {"lookup", "retrieve", "handle", "save"}
    /\ Goto(r, "failed") /\ rq' = [rq EXCEPT ![r] = Blank]
    /\ UNCHANGED <<now, key, account, used, signs>>

AnswerFailed(r) ==
    /\ pc[r] = "failed"
    /\ End(r)
    /\ UNCHANGED <<now, key, account, used, signs>>

\* A step of the goroutine that serves the request.
Serve(r) ==
    \/ Lookup(r) \/ Compare(r) \/ Parse(r) \/ Retrieve(r) \/ Refresh(r)
    \/ Authorize(r) \/ Read(r) \/ Delete(r) \/ ChangePassword(r) \/ Save(r)
    \/ StatementFails(r) \/ AnswerFailed(r)
=============================================================================
