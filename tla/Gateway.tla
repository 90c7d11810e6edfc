------------------------------ MODULE Gateway ------------------------------
(***************************************************************************)
(* Sessions on a server that starts, drains, is killed and starts again:   *)
(* every request of Sessions is one on a connection of ServerLife.  Tokens *)
(* and rows outlast the process; requests in progress do not.              *)
(***************************************************************************)
EXTENDS Sessions, ServerLife

ASSUME OneRequestPerConnection == Connections = Requests

vars == <<sessionVars, lifeVars>>

TypeOK == SessionsTypeOK /\ LifeTypeOK

Init == SessionsInit /\ LifeInit

Accept(r) == BeginRequest(r) /\ Receive(r)

\* A step of a request, and the answer when it was the last one.
Work(r) ==
    /\ Alive /\ Serve(r)
    /\ IF pc'[r] = "idle" THEN EndRequest(r) ELSE UNCHANGED lifeVars

\* The steps of main, the listener and other connections, of which the requests
\* of Sessions do not learn.
Background ==
    /\ \/ Apply \/ ApplyFails \/ Run \/ BuildFails \/ FirstSignal
       \/ Listen \/ ListenFails \/ Stop \/ Timeout \/ Drained
       \/ \E c \in Connections : Connect(c) \/ Disconnect(c) \/ CloseIdle(c)
    /\ UNCHANGED sessionVars

\* The steps that may end the process with requests in progress.
Flush == Shutdown /\ IF main' = "over" THEN CutAll ELSE UNCHANGED sessionVars

Kill == Killed /\ CutAll

Restart == Start /\ InitKey

\* Time passes; other servers of the system serve requests.
Elsewhere == (Tick \/ CreateUser \/ DeleteUser \/ SetPassword) /\ UNCHANGED lifeVars

Next ==
    \/ Background \/ Flush \/ Kill \/ Restart \/ Elsewhere
    \/ \E r \in Requests : Accept(r) \/ Work(r)

\* Main is scheduled, and the ten seconds pass.  Nothing says that a request
\* ever gets its answers from the database.
Fairness == WF_vars(MainStep /\ (Background \/ Flush))

Spec == Init /\ [][Next]_vars /\ Fairness

-----------------------------------------------------------------------------
Authenticated == {"authorize", "handle", "save", "sign"}

\* Whoever is let through (login.go, authn.go) was the user it claims to be at
\* some moment since its request arrived, and whoever is about to be turned
\* away for its password was not: what was read before is still an answer to
\* this request.  So a deleted user is served no more, by tokens old or new,
\* unless an overlapping update brings the row back.
AuthenticationWitnessed ==
    \A r \in Requests :
        /\ pc[r] \in Authenticated => rq[r].could
        /\ pc[r] = "compare" =>
            IF rq[r].loaded.password = rq[r].password THEN rq[r].could ELSE rq[r].couldnt

\* s was signed for the refresh token of s0, which had not expired when it was
\* looked at, with the secret that signed s0.
RefreshOf(s, s0) ==
    /\ s.by = "refresh"
    /\ s0.user = s.user /\ s0.key = s.key
    /\ s0.at <= s.proved /\ s.proved < s0.at + RefreshLife

\* A holds what was signed for a password, and what was signed for a refresh
\* token of a member of A.
ClosedUnderRefresh(A) ==
    \A s \in signs : s.by = "password" \/ (\E s0 \in A : RefreshOf(s, s0)) => s \in A

\* A session starts with a password and lives on by refresh tokens alone: from
\* each pair a chain of refreshes, of pairs for the same user and under the same
\* secret, leads back to one that was signed for a password (token.go, authn.go).
\* In other words, the least set that is closed in this way leaves out no pair.
SessionsFromPasswords ==
    \A A \in SUBSET signs : ClosedUnderRefresh(A) => A = signs

\* A request that is let through carries a token of its kind, signed with the
\* secret of this process and alive when it was parsed.
TokensGood ==
    \A r \in Requests :
        pc[r] \in {"retrieve", "authorize", "handle", "save", "sign"} =>
            LET t == rq[r].token IN
            /\ t.pair \in signs /\ t.pair.key = key /\ t.pair.user = rq[r].user
            /\ rq[r].parsed < Expiry(t)
            /\ (t.type = "refresh") <=> (rq[r].kind = "refresh")

\* A refusal for want of the user or for the password is true of some moment
\* of the request, unless a statement failed or the process ended.
RefusalWitnessed ==
    \A r \in Requests :
        /\ pc[r] \in {"lookup", "compare", "retrieve"} /\ pc'[r] = "idle" /\ Alive'
        /\ pc[r] = "compare" => ~\E s \in signs' : s.user = rq[r].user /\ s.at = now
        => rq[r].couldnt

RefusalsWitnessed == [][RefusalWitnessed]_vars

\* A process that returns from run has shut every provider down and closed
\* every file, whatever failed on the way (otel_options.go, Shutdown).
TelemetryShut == ~Alive /\ ending = "finished" => providers = {} /\ files = {}

\* What clients see of the process.
Phase ==
    CASE main \in {"apply", "build"} -> "down"
      [] main = "wait" -> "up"
      [] main = "drain" -> "stopping"
      [] main = "flush" -> IF listener = "none" THEN "down" ELSE "stopping"
      [] main = "over" -> IF ending = "killed" THEN "dead" ELSE "down"

Linked == {c \in Connections : conn[c] # "none"}

\* The server promises its clients what Service says: no connection is taken
\* once a stop has begun, and only death or the deadline cuts a request short
\* (server.go, http_server.go).
Promise == INSTANCE Service WITH
    Clients <- Connections, phase <- Phase, linked <- Linked, waiting <- Busy, patient <- ~overdue

PromiseKept == Promise!Spec

\* A process that is told to stop does, though requests may hang and the
\* listener may have failed long ago (server.go, http_server.go).
StopsWhenTold == cancelled /\ Alive ~> ~Alive

-----------------------------------------------------------------------------
\* The inductive invariant of the proofs.

\* Where the goroutines of one process can be.
LifeInv ==
    /\ main \in {"apply", "build", "over"} => listener = "none" /\ ~overdue
    /\ main = "wait" => listener \in {"starting", "listening", "failed"} /\ ~overdue
    /\ main = "drain" => listener = "closed"
    /\ main = "flush" => listener \in {"none", "closed"}
    /\ listener = "none" => conn = NoConnection /\ ~overdue
    /\ main = "flush" => conn = NoConnection \/ overdue
    /\ main \in {"build", "wait", "over"} => step = 1
    /\ main = "apply" => step < 4
    /\ main = "flush" => \A i \in 1..3 : Kinds[i] \in providers => step <= i

\* A request is in progress exactly where a connection is busy.
Coupled == \A r \in Requests : pc[r] # "idle" <=> conn[r] = "busy"

NamesUnique ==
    \A a, b \in Users :
        Exists(account, a) /\ Exists(account, b) /\ account[a].name = account[b].name => a = b

\* A user keeps its name: the rows that are there and those about to be saved
\* agree on it, and belong to IDs handed out.
NamesKept ==
    /\ \A u \in Users : Exists(account, u) => u \in used
    /\ \A r \in Requests : pc[r] = "save" =>
        /\ rq[r].user \in used /\ rq[r].loaded # NoRow
        /\ Exists(account, rq[r].user) => account[rq[r].user].name = rq[r].loaded.name
        /\ \A t \in Requests :
            pc[t] = "save" /\ rq[t].user = rq[r].user => rq[t].loaded.name = rq[r].loaded.name

\* A request has what its step takes for granted, and its history holds what
\* the rows say now.
Proper(q, label, rows, pairs, secret) ==
    /\ label \in {"lookup", "compare"} => q.kind = "login"
    /\ label = "compare" =>
        /\ q.user \in Users /\ q.loaded # NoRow
        /\ IF q.loaded.password = q.password THEN q.could ELSE q.couldnt
    /\ label \in {"parse", "retrieve"} \cup Authenticated =>
        q.kind # "login" /\ q.token # NoToken /\ q.token.pair \in pairs
    /\ label \in {"retrieve"} \cup Authenticated =>
        /\ q.token.pair.key = secret /\ q.token.pair.user = q.user
        /\ q.token.pair.at <= q.parsed /\ q.parsed < Expiry(q.token)
        /\ (q.token.type = "refresh") <=> (q.kind = "refresh")
    /\ label = "sign" => q.kind = "refresh"
    /\ label \in Authenticated => q.could
    /\ label \notin {"idle", "failed"} => IF Agrees(rows, q) THEN q.could ELSE q.couldnt

RequestsInv == \A r \in Requests : Proper(rq[r], pc[r], account, signs, key)

SignsInv == \A s \in signs : s.at <= now

IInv ==
    /\ TypeOK /\ LifeInv /\ Coupled /\ NamesUnique /\ NamesKept /\ RequestsInv /\ SignsInv
    /\ SessionsFromPasswords /\ TelemetryShut
=============================================================================
