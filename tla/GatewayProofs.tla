---------------------------- MODULE GatewayProofs ----------------------------
(***************************************************************************)
(* The invariants of Gateway, and that it keeps the promise of Service,    *)
(* for any number of users, requests, starts and secrets.  Every step is   *)
(* one of ServerLife and one of Sessions (StepParts); the two halves of    *)
(* the invariant are preserved by their steps separately, and Coupled ties *)
(* them together.                                                          *)
(***************************************************************************)
EXTENDS Gateway, TLAPS

\* The steps a process and its connections take.
LifeNext ==
    \/ Apply \/ ApplyFails \/ Run \/ BuildFails \/ FirstSignal \/ Listen \/ ListenFails
    \/ Stop \/ Timeout \/ Drained \/ Shutdown \/ Killed \/ Start
    \/ \E c \in Connections :
        Connect(c) \/ Disconnect(c) \/ CloseIdle(c) \/ BeginRequest(c) \/ EndRequest(c)

\* The steps sessions take: within a request, around requests, at a start.
SessionNext ==
    \/ \E r \in Requests : Receive(r) \/ Serve(r)
    \/ CutAll \/ Tick \/ CreateUser \/ DeleteUser \/ SetPassword

SessionInv == SessionsTypeOK /\ NamesUnique /\ NamesKept /\ RequestsInv /\ SignsInv /\ SessionsFromPasswords

\* Every step has its two halves; sessions see a new secret only at a start.
LEMMA StepParts ==
    Next => /\ LifeNext \/ UNCHANGED lifeVars
            /\ SessionNext \/ UNCHANGED sessionVars \/ (Start /\ InitKey)
  <1> SUFFICES ASSUME Next
               PROVE  /\ LifeNext \/ UNCHANGED lifeVars
                      /\ SessionNext \/ UNCHANGED sessionVars \/ (Start /\ InitKey)
    OBVIOUS
  <1>1. CASE Background
    BY <1>1 DEF Background, LifeNext
  <1>2. CASE Flush
    BY <1>2 DEF Flush, LifeNext, SessionNext
  <1>3. CASE Kill
    BY <1>3 DEF Kill, LifeNext, SessionNext
  <1>4. CASE Restart
    BY <1>4 DEF Restart, LifeNext
  <1>5. CASE Elsewhere
    BY <1>5 DEF Elsewhere, SessionNext
  <1>6. ASSUME NEW r \in Requests, Accept(r)
        PROVE  LifeNext /\ SessionNext
    BY <1>6, OneRequestPerConnection DEF Accept, LifeNext, SessionNext
  <1>7. ASSUME NEW r \in Requests, Work(r)
        PROVE  (LifeNext \/ UNCHANGED lifeVars) /\ SessionNext
    BY <1>7, OneRequestPerConnection DEF Work, LifeNext, SessionNext
  <1> QED BY <1>1, <1>2, <1>3, <1>4, <1>5, <1>6, <1>7 DEF Next

-----------------------------------------------------------------------------
\* The life of a process.

LEMMA KindsTyped == Kinds[1] = "traces" /\ Kinds[2] = "metrics" /\ Kinds[3] = "logs"
  BY DEF Kinds

\* What can be said of a process about to exit.
LEMMA ExitInv ==
    ASSUME NEW how \in {"failed", "finished", "killed"}, Exit(how), LifeTypeOK, LifeInv,
           providers' \subseteq KindSet, files' \subseteq KindSet
    PROVE  LifeTypeOK' /\ LifeInv'
  <1>1. /\ main' = "over" /\ step' = 1 /\ ending' = how /\ listener' = "none"
        /\ conn' = NoConnection /\ cancelled' = FALSE /\ overdue' = FALSE
    BY DEF Exit
  <1>2. conn' \in [Connections -> {"none", "open", "busy"}]
    BY <1>1 DEF NoConnection
  <1>3. LifeTypeOK'
    <2>1. cancelled' \in BOOLEAN /\ overdue' \in BOOLEAN
      BY <1>1
    <2>2. /\ main' = "over" /\ step' \in 1..4
          /\ listener' = "none"
          /\ ending' \in {"none", "failed", "finished", "killed"}
      BY <1>1
    <2> QED BY <1>2, <2>1, <2>2 DEF LifeTypeOK
  <1>4. LifeInv'
    BY <1>1 DEF LifeInv, NoConnection
  <1> QED BY <1>3, <1>4

LEMMA LifePreserved ==
    ASSUME LifeTypeOK, LifeInv, TelemetryShut, LifeNext \/ UNCHANGED lifeVars
    PROVE  LifeTypeOK' /\ LifeInv' /\ TelemetryShut'
  <1>1. CASE Apply
    <2>1. step \in 1..3
      BY <1>1 DEF Apply, LifeTypeOK, LifeInv
    <2>2. Kinds[step] \in KindSet
      BY <2>1, KindsTyped DEF KindSet
    <2>3. LifeTypeOK'
      BY <1>1, <2>1, <2>2 DEF Apply, LifeTypeOK
    <2>4. LifeInv'
      BY <1>1, <2>1 DEF Apply, LifeTypeOK, LifeInv, NoConnection
    <2>5. TelemetryShut'
      BY <1>1 DEF Apply, TelemetryShut, Alive
    <2> QED BY <2>3, <2>4, <2>5
  <1>2. CASE ApplyFails \/ Killed
    BY <1>2, ExitInv DEF ApplyFails, Killed, ExitAsIs, Exit, TelemetryShut, KindSet
  <1>3. CASE Run
    BY <1>3 DEF Run, LifeTypeOK, LifeInv, NoConnection, TelemetryShut, Alive
  <1>12. CASE BuildFails
    <2>1. LifeTypeOK'
      BY <1>12 DEF BuildFails, LifeTypeOK
    <2>2. main' = "flush" /\ listener' = "none" /\ conn' = NoConnection /\ step' = 1 /\ ~overdue'
      BY <1>12 DEF BuildFails, LifeInv, NoConnection
    <2>3. LifeInv'
      BY <2>2 DEF LifeInv, NoConnection
    <2> QED BY <2>1, <2>2, <2>3 DEF TelemetryShut, Alive
  <1>4. CASE FirstSignal
    BY <1>4 DEF FirstSignal, LifeTypeOK, LifeInv, NoConnection, TelemetryShut, Alive
  <1>13. CASE Timeout
    <2>1. main = "drain" /\ main' = "drain" /\ listener' = "closed"
      BY <1>13 DEF Timeout, LifeInv
    <2>2. LifeTypeOK'
      BY <1>13 DEF Timeout, LifeTypeOK
    <2>3. LifeInv'
      BY <2>1 DEF LifeInv
    <2> QED BY <2>1, <2>2, <2>3 DEF TelemetryShut, Alive
  <1>5. CASE Listen \/ ListenFails
    BY <1>5 DEF Listen, ListenFails, LifeTypeOK, LifeInv, NoConnection, TelemetryShut, Alive
  <1>6. CASE Stop \/ Drained
    BY <1>6 DEF Stop, Drained, LifeTypeOK, LifeInv, NoConnection, TelemetryShut, Alive
  <1>7. CASE Shutdown
    <2>1. CASE ShutDownNext
      <3>1. step \in 1..3
        BY <2>1 DEF ShutDownNext, LifeTypeOK
      <3>2. LifeTypeOK' /\ main' = "flush"
        BY <1>7, <2>1, <3>1 DEF Shutdown, ShutDownNext, LifeTypeOK
      <3>3. \A i \in 1..3 : Kinds[i] \in providers' => step' <= i
        BY <1>7, <2>1, <3>1, KindsTyped DEF Shutdown, ShutDownNext, LifeInv
      <3>4. LifeInv'
        BY <1>7, <2>1, <3>2, <3>3 DEF Shutdown, ShutDownNext, LifeInv, NoConnection
      <3> QED BY <3>2, <3>4 DEF TelemetryShut, Alive
    <2>2. CASE step = 4 /\ Exit("finished") /\ files' = {} /\ UNCHANGED providers
      <3>1. providers = {}
        BY <1>7, <2>2, KindsTyped DEF Shutdown, LifeInv, LifeTypeOK, KindSet
      <3>2. LifeTypeOK' /\ LifeInv'
        BY <2>2, <3>1, ExitInv DEF LifeTypeOK
      <3> QED BY <2>2, <3>1, <3>2 DEF TelemetryShut
    <2> QED BY <1>7, <2>1, <2>2 DEF Shutdown
  <1>8. CASE Start
    BY <1>8 DEF Start, LifeTypeOK, LifeInv, NoConnection, TelemetryShut, Alive
  <1>9. ASSUME NEW c \in Connections, Connect(c) \/ Disconnect(c) \/ CloseIdle(c)
        PROVE  LifeTypeOK' /\ LifeInv' /\ TelemetryShut'
    BY <1>9 DEF Connect, Disconnect, CloseIdle, LifeTypeOK, LifeInv, NoConnection, TelemetryShut, Alive
  <1>10. ASSUME NEW c \in Connections, BeginRequest(c) \/ EndRequest(c)
         PROVE  LifeTypeOK' /\ LifeInv' /\ TelemetryShut'
    BY <1>10 DEF BeginRequest, EndRequest, LifeTypeOK, LifeInv, NoConnection, TelemetryShut, Alive
  <1>11. CASE UNCHANGED lifeVars
    BY <1>11 DEF lifeVars, LifeTypeOK, LifeInv, NoConnection, TelemetryShut, Alive
  <1> QED BY <1>1, <1>2, <1>3, <1>4, <1>5, <1>6, <1>7, <1>8, <1>9, <1>10, <1>11, <1>12,
           <1>13 DEF LifeNext

-----------------------------------------------------------------------------
\* The promise to clients.

\* A process that ends cleanly holds no connection, or has run out of patience.
LEMMA PromiseOfExit ==
    ASSUME LifeTypeOK, LifeInv, main = "flush", Exit("finished")
    PROVE  Promise!Return \/ UNCHANGED <<Phase, Linked, Busy, overdue>>
  <1>1. Phase' = "down" /\ Linked' = {} /\ Busy' = {} /\ overdue' = FALSE /\ (~overdue') = TRUE
    BY DEF Exit, Phase, Linked, Busy, NoConnection
  <1>2. CASE listener = "none"
    <2>1. Phase = "down"
      BY <1>2 DEF Phase
    <2>2. Linked = {} /\ Busy = {}
      BY <1>2 DEF LifeInv, Linked, Busy, NoConnection
    <2>3. overdue = FALSE
      BY <1>2 DEF LifeInv, LifeTypeOK
    <2> QED BY <1>1, <2>1, <2>2, <2>3
  <1>3. CASE listener = "closed"
    <2>1. Phase = "stopping"
      BY <1>3 DEF Phase
    <2>2. Busy = {} \/ overdue
      BY DEF LifeInv, Busy, NoConnection
    <2> QED BY <1>1, <2>1, <2>2 DEF Promise!Return
  <1> QED BY <1>2, <1>3 DEF LifeInv

\* Every step of the process and its connections is one Service allows.
LEMMA PromiseStep ==
    ASSUME LifeTypeOK, LifeInv, LifeNext \/ UNCHANGED lifeVars
    PROVE  Promise!Next \/ UNCHANGED <<Phase, Linked, Busy, overdue>>
  <1>1. CASE Apply
    BY <1>1 DEF Apply, Phase, Linked, Busy
  <1>2. CASE ApplyFails
    <2>1. Phase = "down" /\ Phase' = "down"
      BY <1>2 DEF ApplyFails, ExitAsIs, Exit, Phase
    <2>2. Linked = {} /\ Busy = {} /\ Linked' = {} /\ Busy' = {}
      BY <1>2 DEF ApplyFails, ExitAsIs, Exit, LifeInv, Linked, Busy, NoConnection
    <2>3. overdue = FALSE /\ overdue' = FALSE
      BY <1>2 DEF ApplyFails, ExitAsIs, Exit, LifeInv, LifeTypeOK
    <2> QED BY <2>1, <2>2, <2>3
  <1>3. CASE Killed
    <2>1. Phase' = "dead" /\ Linked' = {} /\ Busy' = {} /\ (~overdue') = TRUE
      BY <1>3 DEF Killed, ExitAsIs, Exit, Phase, Linked, Busy, NoConnection
    <2> QED BY <2>1 DEF Promise!Next, Promise!Die
  <1>4. CASE Run
    BY <1>4 DEF Run, Phase, Linked, Busy, Promise!Next, Promise!Up
  <1>5. CASE BuildFails
    BY <1>5 DEF BuildFails, LifeInv, Phase, Linked, Busy
  <1>6. CASE FirstSignal \/ Listen
    BY <1>6 DEF FirstSignal, Listen, LifeInv, Phase, Linked, Busy
  <1>7. CASE ListenFails
    BY <1>7 DEF ListenFails, LifeTypeOK, LifeInv, Phase, Linked, Busy
  <1>8. CASE Stop
    BY <1>8 DEF Stop, Phase, Linked, Busy, Promise!Next, Promise!Stop
  <1>9. CASE Timeout
    BY <1>9 DEF Timeout, Phase, Linked, Busy, Promise!Next, Promise!Hurry
  <1>10. CASE Drained
    BY <1>10 DEF Drained, LifeInv, Phase, Linked, Busy
  <1>11. CASE Shutdown
    <2>1. CASE ShutDownNext
      BY <1>11, <2>1 DEF Shutdown, ShutDownNext, Phase, Linked, Busy
    <2> QED BY <1>11, <2>1, PromiseOfExit DEF Shutdown, Promise!Next
  <1>12. CASE Start
    <2>1. Phase' = "down" /\ UNCHANGED <<Linked, Busy, overdue>>
      BY <1>12 DEF Start, Phase, Linked, Busy
    <2>2. Phase \in {"down", "dead"}
      BY <1>12 DEF Start, Alive, Phase
    <2> QED BY <2>1, <2>2 DEF Promise!Next, Promise!Revive
  <1>13. ASSUME NEW c \in Connections, Connect(c)
         PROVE  Promise!Link(c)
    <2>1. Phase = "up" /\ Phase' = "up"
      BY <1>13 DEF Connect, LifeInv, LifeTypeOK, Phase
    <2>2. c \notin Linked /\ Linked' = Linked \cup {c} /\ Busy' = Busy /\ overdue' = overdue
      BY <1>13 DEF Connect, LifeTypeOK, Linked, Busy
    <2> QED BY <2>1, <2>2 DEF Promise!Link
  <1>14. ASSUME NEW c \in Connections, Disconnect(c) \/ CloseIdle(c)
         PROVE  Promise!Unlink(c)
    <2>1. Disconnect(c)
      BY <1>14 DEF CloseIdle
    <2>2. c \in Linked \ Busy /\ Linked' = Linked \ {c} /\ Busy' = Busy /\ overdue' = overdue
      BY <2>1 DEF Disconnect, LifeTypeOK, Linked, Busy
    <2>3. Phase' = Phase
      BY <2>1 DEF Disconnect, Phase
    <2> QED BY <2>2, <2>3 DEF Promise!Unlink
  <1>15. ASSUME NEW c \in Connections, BeginRequest(c)
         PROVE  Promise!Ask(c)
    <2>1. c \in Linked \ Busy /\ Linked' = Linked /\ Busy' = Busy \cup {c} /\ overdue' = overdue
      BY <1>15 DEF BeginRequest, LifeTypeOK, Linked, Busy
    <2>2. Phase' = Phase
      BY <1>15 DEF BeginRequest, Phase
    <2> QED BY <2>1, <2>2 DEF Promise!Ask
  <1>16. ASSUME NEW c \in Connections, EndRequest(c)
         PROVE  Promise!Answer(c)
    <2>1. listener # "none"
      BY <1>16 DEF EndRequest, LifeInv, NoConnection
    <2>2. Phase = "stopping" <=> main \in {"drain", "flush"}
      BY <2>1 DEF Phase, LifeTypeOK
    <2>3. c \in Busy /\ Busy' = Busy \ {c} /\ overdue' = overdue /\ Phase' = Phase
      BY <1>16 DEF EndRequest, LifeTypeOK, Busy, Phase
    <2>4. Linked' = IF Phase = "stopping" THEN Linked \ {c} ELSE Linked
      BY <1>16, <2>2 DEF EndRequest, LifeTypeOK, Linked
    <2> QED BY <2>3, <2>4 DEF Promise!Answer
  <1>17. CASE UNCHANGED lifeVars
    BY <1>17 DEF lifeVars, Phase, Linked, Busy
  <1>18. CASE \E c \in Connections :
                Connect(c) \/ Disconnect(c) \/ CloseIdle(c) \/ BeginRequest(c) \/ EndRequest(c)
    BY <1>13, <1>14, <1>15, <1>16, <1>18 DEF Promise!Next
  <1> QED
    BY <1>1, <1>2, <1>3, <1>4, <1>5, <1>6, <1>7, <1>8, <1>9, <1>10, <1>11, <1>12, <1>17, <1>18
    DEF LifeNext
-----------------------------------------------------------------------------
\* Requests, one at a time.

LEMMA BlankTyped == Blank \in Request
  <1>1. (CHOOSE n \in Names : TRUE) \in Names /\ (CHOOSE p \in Passwords : TRUE) \in Passwords
    BY SessionsAssumption
  <1> QED BY <1>1 DEF Blank, Request

\* An idle or failed request asks for nothing.
LEMMA BlankProper ==
    ASSUME NEW label \in {"idle", "failed"}, NEW q, NEW rows, NEW pairs, NEW secret
    PROVE  Proper(q, label, rows, pairs, secret)
  BY DEF Proper, Authenticated

\* A witness adds to the history and leaves the rest alone.
LEMMA WitnessTyped ==
    ASSUME NEW q \in Request, NEW rows
    PROVE  /\ Witness(q, rows) \in Request
           /\ Witness(q, rows).kind = q.kind /\ Witness(q, rows).name = q.name
           /\ Witness(q, rows).password = q.password /\ Witness(q, rows).token = q.token
           /\ Witness(q, rows).user = q.user /\ Witness(q, rows).loaded = q.loaded
           /\ Witness(q, rows).parsed = q.parsed
           /\ Witness(q, rows).could = (q.could \/ Agrees(rows, q))
           /\ Witness(q, rows).couldnt = (q.couldnt \/ ~Agrees(rows, q))
  <1>1. (q.could \/ Agrees(rows, q)) \in BOOLEAN /\ (q.couldnt \/ ~Agrees(rows, q)) \in BOOLEAN
    OBVIOUS
  <1> QED BY <1>1 DEF Witness, Request

\* What a request takes for granted is not lost when rows change, if it
\* witnesses them, nor when pairs are signed.
LEMMA ProperKept ==
    ASSUME NEW q \in Request, NEW label, NEW rows, NEW rows2, NEW pairs, NEW pairs2, NEW secret,
           pairs \subseteq pairs2, Proper(q, label, rows, pairs, secret)
    PROVE  Proper(Witness(q, rows2), label, rows2, pairs2, secret)
  <1> DEFINE w == Witness(q, rows2)
  <1>1. Agrees(rows2, w) <=> Agrees(rows2, q)
    BY WitnessTyped DEF Agrees
  <1>2. IF Agrees(rows2, w) THEN w.could ELSE w.couldnt
    BY <1>1, WitnessTyped
  <1>3. (q.could => w.could) /\ (q.couldnt => w.couldnt)
    BY WitnessTyped
  <1> QED BY <1>2, <1>3, WitnessTyped DEF Proper, Expiry

LEMMA ProperGrows ==
    ASSUME NEW q, NEW label, NEW rows, NEW pairs, NEW pairs2, NEW secret,
           pairs \subseteq pairs2, Proper(q, label, rows, pairs, secret)
    PROVE  Proper(q, label, rows, pairs2, secret)
  BY DEF Proper

-----------------------------------------------------------------------------
\* Steps of one request that change nothing else.

LEMMA Moves ==
    ASSUME SessionInv, NEW r \in Requests, NEW label \in Steps, NEW q \in Request,
           Goto(r, label), rq' = [rq EXCEPT ![r] = q],
           Proper(q, label, account, signs, key), label # "save",
           UNCHANGED <<now, key, account, used, signs>>
    PROVE  SessionInv'
  <1>1. SessionsTypeOK'
    BY DEF SessionInv, SessionsTypeOK, Goto
  <1>2. \A t \in Requests : IF t = r THEN pc'[t] = label /\ rq'[t] = q ELSE pc'[t] = pc[t] /\ rq'[t] = rq[t]
    BY DEF SessionInv, SessionsTypeOK, Goto
  <1>3. NamesKept'
    BY <1>2 DEF SessionInv, NamesKept, Exists
  <1>4. RequestsInv'
    BY <1>2 DEF SessionInv, RequestsInv
  <1>5. NamesUnique' /\ SignsInv' /\ SessionsFromPasswords'
    BY DEF SessionInv, NamesUnique, SignsInv, SessionsFromPasswords, ClosedUnderRefresh, Exists
  <1> QED BY <1>1, <1>3, <1>4, <1>5 DEF SessionInv

LEMMA Ends ==
    ASSUME SessionInv, NEW r \in Requests, NEW label \in {"idle", "failed"},
           Goto(r, label), rq' = [rq EXCEPT ![r] = Blank],
           UNCHANGED <<now, key, account, used, signs>>
    PROVE  SessionInv'
  <1>1. label \in Steps /\ label # "save"
    BY DEF Steps
  <1> QED BY <1>1, Moves, BlankTyped, BlankProper

\* A step to the next label, the request's variables as they were.
LEMMA Advances ==
    ASSUME SessionInv, NEW r \in Requests, NEW label \in Steps, Goto(r, label), UNCHANGED rq,
           Proper(rq[r], label, account, signs, key), label # "save",
           UNCHANGED <<now, key, account, used, signs>>
    PROVE  SessionInv'
  <1>1. rq[r] \in Request /\ rq' = [rq EXCEPT ![r] = rq[r]]
    BY DEF SessionInv, SessionsTypeOK
  <1> QED BY <1>1, Moves

LEMMA LookupInv ==
    ASSUME SessionInv, NEW r \in Requests, Lookup(r)
    PROVE  SessionInv'
  <1>1. CASE NameFree(account, rq[r].name) /\ End(r)
    BY <1>1, Ends DEF Lookup, End
  <1>2. ASSUME NEW u \in Users, Exists(account, u), account[u].name = rq[r].name, Goto(r, "compare"),
               rq' = [rq EXCEPT ![r].user = u, ![r].loaded = account[u], ![r].parsed = now]
        PROVE  SessionInv'
    <2> DEFINE q == [rq[r] EXCEPT !.user = u, !.loaded = account[u], !.parsed = now]
    <2>1. rq[r] \in Request /\ account[u] \in Row /\ now \in Nat
      BY <1>2 DEF SessionInv, SessionsTypeOK, Exists
    <2>2. q \in Request
      BY <2>1 DEF Request
    <2>3. rq' = [rq EXCEPT ![r] = q]
      BY <1>2, <2>1 DEF SessionInv, SessionsTypeOK, Request
    <2>4. rq[r].kind = "login" /\ IF Agrees(account, rq[r]) THEN rq[r].could ELSE rq[r].couldnt
      BY DEF SessionInv, RequestsInv, Proper, Lookup
    <2>5. Agrees(account, rq[r]) <=> account[u].password = rq[r].password
      <3>1. account[u] = [name |-> account[u].name, password |-> account[u].password]
        BY <2>1 DEF Row
      <3>2. ASSUME NEW v \in Users, account[v] = [name |-> rq[r].name, password |-> rq[r].password]
            PROVE  v = u
        <4>1. Exists(account, v)
          <5>1. rq[r].name \in Names /\ rq[r].password \in Passwords
            BY <2>1 DEF Request
          <5> QED BY <3>2, <5>1, SessionsAssumption DEF Exists
        <4> QED BY <1>2, <3>2, <4>1 DEF SessionInv, NamesUnique
      <3> QED BY <1>2, <2>4, <3>1, <3>2 DEF Agrees
    <2>6. q.kind = "login" /\ q.user = u /\ q.loaded = account[u] /\ q.password = rq[r].password
          /\ q.could = rq[r].could /\ q.couldnt = rq[r].couldnt /\ q.name = rq[r].name
      BY <2>1, <2>4 DEF Request
    <2>7. Agrees(account, q) <=> Agrees(account, rq[r])
      BY <2>4, <2>6 DEF Agrees
    <2>8. Proper(q, "compare", account, signs, key)
      BY <1>2, <2>4, <2>5, <2>6, <2>7 DEF Proper, Authenticated, Exists
    <2>9. "compare" \in Steps
      BY DEF Steps
    <2> HIDE DEF q
    <2> QED BY <1>2, <2>2, <2>3, <2>8, <2>9, Moves DEF Lookup
  <1> QED BY <1>1, <1>2 DEF Lookup

LEMMA ParseInv ==
    ASSUME SessionInv, NEW r \in Requests, Parse(r)
    PROVE  SessionInv'
  <1>1. CASE End(r)
    BY <1>1, Ends DEF Parse, End
  <1>2. CASE /\ Valid(rq[r].token) /\ rq[r].token.type \in TypeFor(rq[r].kind)
             /\ Goto(r, "retrieve")
             /\ rq' = [rq EXCEPT ![r].user = rq[r].token.pair.user, ![r].parsed = now]
    <2> DEFINE q == [rq[r] EXCEPT !.user = rq[r].token.pair.user, !.parsed = now]
    <2>1. rq[r] \in Request /\ now \in Nat
      BY DEF SessionInv, SessionsTypeOK
    <2>2. rq[r].kind # "login" /\ rq[r].token # NoToken /\ rq[r].token.pair \in signs
          /\ IF Agrees(account, rq[r]) THEN rq[r].could ELSE rq[r].couldnt
      BY DEF SessionInv, RequestsInv, Proper, Parse
    <2>3. rq[r].token \in Token /\ rq[r].token.pair.user \in Users
      BY <2>1, <2>2 DEF Request, Token, Sign
    <2>4. q \in Request
      BY <2>1, <2>3 DEF Request
    <2>5. rq' = [rq EXCEPT ![r] = q]
      BY <1>2, <2>1 DEF SessionInv, SessionsTypeOK, Request
    <2>6. q.kind = rq[r].kind /\ q.user = rq[r].token.pair.user /\ q.token = rq[r].token
          /\ q.parsed = now /\ q.could = rq[r].could /\ q.couldnt = rq[r].couldnt
      BY <2>1 DEF Request
    <2>7. Agrees(account, q) <=> Agrees(account, rq[r])
      BY <2>2, <2>6 DEF Agrees
    <2>8. rq[r].token.pair.at <= now
      BY <2>2 DEF SessionInv, SignsInv
    <2>9. (rq[r].token.type = "refresh") <=> (rq[r].kind = "refresh")
      BY <1>2 DEF TypeFor
    <2>10. Proper(q, "retrieve", account, signs, key)
      BY <1>2, <2>2, <2>6, <2>7, <2>8, <2>9 DEF Proper, Authenticated, Valid
    <2>11. "retrieve" \in Steps
      BY DEF Steps
    <2> HIDE DEF q
    <2> QED BY <1>2, <2>4, <2>5, <2>10, <2>11, Moves DEF Parse
  <1> QED BY <1>1, <1>2 DEF Parse

LEMMA RetrieveInv ==
    ASSUME SessionInv, NEW r \in Requests, Retrieve(r)
    PROVE  SessionInv'
  <1>1. CASE End(r)
    BY <1>1, Ends DEF Retrieve, End
  <1>2. CASE /\ Exists(account, rq[r].user) /\ UNCHANGED rq
             /\ Goto(r, IF rq[r].kind = "refresh" THEN "sign" ELSE "authorize")
    <2> DEFINE label == IF rq[r].kind = "refresh" THEN "sign" ELSE "authorize"
    <2>1. Proper(rq[r], "retrieve", account, signs, key)
      BY DEF SessionInv, RequestsInv, Retrieve
    <2>2. rq[r].could
      BY <1>2, <2>1 DEF Proper, Agrees
    <2>3. Proper(rq[r], label, account, signs, key)
      BY <2>1, <2>2 DEF Proper, Authenticated
    <2>4. label \in Steps /\ label # "save"
      BY DEF Steps
    <2>5. Goto(r, label)
      BY <1>2
    <2> HIDE DEF label
    <2> QED BY <1>2, <2>3, <2>4, <2>5, Advances DEF Retrieve
  <1> QED BY <1>1, <1>2 DEF Retrieve

LEMMA AuthorizeInv ==
    ASSUME SessionInv, NEW r \in Requests, Authorize(r)
    PROVE  SessionInv'
  <1>1. CASE End(r)
    BY <1>1, Ends DEF Authorize, End
  <1>2. CASE Goto(r, "handle") /\ UNCHANGED rq
    <2>1. Proper(rq[r], "handle", account, signs, key)
      BY DEF SessionInv, RequestsInv, Authorize, Proper, Authenticated
    <2>2. "handle" \in Steps
      BY DEF Steps
    <2> QED BY <1>2, <2>1, <2>2, Advances DEF Authorize
  <1> QED BY <1>1, <1>2 DEF Authorize

LEMMA ReceiveInv ==
    ASSUME SessionInv, NEW r \in Requests, Receive(r)
    PROVE  SessionInv'
  <1>1. ASSUME NEW q \in Request, NEW label \in {"lookup", "parse"}, Arrive(r, q, label),
               q.kind = "login" <=> label = "lookup",
               label = "parse" => q.token # NoToken /\ q.token.pair \in signs
        PROVE  SessionInv'
    <2>1. Proper(Witness(q, account), label, account, signs, key)
      <3>1. Agrees(account, Witness(q, account)) <=> Agrees(account, q)
        BY WitnessTyped DEF Agrees
      <3> QED BY <1>1, <3>1, WitnessTyped DEF Proper, Authenticated
    <2>2. label \in Steps /\ label # "save"
      BY DEF Steps
    <2> QED BY <1>1, <2>1, <2>2, WitnessTyped, Moves DEF Receive, Arrive
  <1>2. ASSUME NEW name \in Names, NEW password \in Passwords,
               Arrive(r, [Blank EXCEPT !.kind = "login", !.name = name, !.password = password], "lookup")
        PROVE  SessionInv'
    <2> DEFINE q == [Blank EXCEPT !.kind = "login", !.name = name, !.password = password]
    <2>1. q \in Request /\ q.kind = "login"
      BY BlankTyped DEF Request
    <2> HIDE DEF q
    <2>2. Arrive(r, q, "lookup")
      BY <1>2 DEF q
    <2> QED BY <1>1, <2>1, <2>2
  <1>3. ASSUME NEW token \in [pair : signs, type : {"access", "refresh"}],
               NEW kind \in {"refresh", "call"},
               Arrive(r, [Blank EXCEPT !.kind = kind, !.token = token], "parse")
        PROVE  SessionInv'
    <2> DEFINE q == [Blank EXCEPT !.kind = kind, !.token = token]
    <2>1. token \in Token /\ token.pair \in signs
      BY DEF Token, SessionInv, SessionsTypeOK
    <2>2. token # NoToken
      BY <2>1, NoTokenAssumption
    <2>3. q \in Request /\ q.kind = kind /\ q.token = token
      BY <2>1, BlankTyped DEF Request
    <2> HIDE DEF q
    <2>4. Arrive(r, q, "parse")
      BY <1>3 DEF q
    <2> QED BY <1>1, <2>1, <2>2, <2>3, <2>4
  <1> QED BY <1>2, <1>3 DEF Receive

LEMMA SignedInv ==
    ASSUME SessionInv, NEW r \in Requests, NEW by \in {"password", "refresh"}, SignFor(r, by),
           rq[r].user \in Users,
           by = "refresh" =>
               /\ rq[r].token # NoToken /\ rq[r].token.pair \in signs /\ rq[r].token.type = "refresh"
               /\ rq[r].token.pair.user = rq[r].user /\ rq[r].token.pair.key = key
               /\ rq[r].token.pair.at <= rq[r].parsed /\ rq[r].parsed < Expiry(rq[r].token),
           UNCHANGED <<now, key, account, used>>
    PROVE  SessionInv'
  <1> DEFINE s == [user |-> rq[r].user, at |-> now, key |-> key, by |-> by, proved |-> rq[r].parsed]
  <1>1. signs' = signs \cup {s} /\ pc' = [pc EXCEPT ![r] = "idle"] /\ rq' = [rq EXCEPT ![r] = Blank]
    BY DEF SignFor, End, Goto
  <1>2. rq[r].parsed \in Nat /\ now \in Nat /\ key \in Nat
    BY DEF SessionInv, SessionsTypeOK, Request
  <1>3. s \in Sign
    BY <1>2 DEF Sign, Proof
  <1>4. s.user = rq[r].user /\ s.at = now /\ s.key = key /\ s.by = by /\ s.proved = rq[r].parsed
    OBVIOUS
  <1> HIDE DEF s
  <1>5. SessionsTypeOK'
    BY <1>1, <1>3, BlankTyped DEF SessionInv, SessionsTypeOK, Steps
  <1>6. \A t \in Requests : pc'[t] = "idle" \/ (pc'[t] = pc[t] /\ rq'[t] = rq[t])
    BY <1>1 DEF SessionInv, SessionsTypeOK
  <1>7. NamesKept'
    BY <1>6 DEF SessionInv, NamesKept, Exists
  <1>8. RequestsInv'
    BY <1>1, <1>6, ProperGrows, BlankProper DEF SessionInv, RequestsInv
  <1>9. SignsInv'
    BY <1>1, <1>2, <1>4 DEF SessionInv, SignsInv
  <1>10. SessionsFromPasswords'
    <2> SUFFICES ASSUME NEW A \in SUBSET signs', ClosedUnderRefresh(A)'
                 PROVE  A = signs'
      BY DEF SessionsFromPasswords
    <2>1. ClosedUnderRefresh(A \cap signs)
      BY <1>1 DEF ClosedUnderRefresh, RefreshOf
    <2>2. signs \subseteq A
      BY <2>1 DEF SessionInv, SessionsFromPasswords
    <2>3. s \in A
      <3>1. CASE by = "password"
        BY <1>1, <1>4, <3>1 DEF ClosedUnderRefresh
      <3>2. CASE by = "refresh"
        <4>1. RefreshOf(s, rq[r].token.pair)
          BY <1>4, <3>2 DEF RefreshOf, Expiry, Life
        <4> QED BY <1>1, <2>2, <3>2, <4>1 DEF ClosedUnderRefresh, RefreshOf
      <3> QED BY <3>1, <3>2
    <2> QED BY <1>1, <2>2, <2>3
  <1>11. NamesUnique'
    BY DEF SessionInv, NamesUnique, Exists
  <1> QED BY <1>5, <1>7, <1>8, <1>9, <1>10, <1>11 DEF SessionInv

LEMMA CompareInv ==
    ASSUME SessionInv, NEW r \in Requests, Compare(r)
    PROVE  SessionInv'
  <1>1. rq[r].user \in Users
    BY DEF SessionInv, RequestsInv, Proper, Compare
  <1>2. CASE End(r) /\ UNCHANGED signs
    BY <1>2, Ends DEF Compare, End
  <1>3. CASE SignFor(r, "password")
    BY <1>1, <1>3, SignedInv DEF Compare
  <1> QED BY <1>2, <1>3 DEF Compare

LEMMA RefreshInv ==
    ASSUME SessionInv, NEW r \in Requests, Refresh(r)
    PROVE  SessionInv'
  <1>1. Proper(rq[r], "sign", account, signs, key)
    BY DEF SessionInv, RequestsInv, Refresh
  <1>2. /\ rq[r].token # NoToken /\ rq[r].token.pair \in signs /\ rq[r].token.type = "refresh"
        /\ rq[r].token.pair.user = rq[r].user /\ rq[r].token.pair.key = key
        /\ rq[r].token.pair.at <= rq[r].parsed /\ rq[r].parsed < Expiry(rq[r].token)
    BY <1>1 DEF Proper, Authenticated
  <1>3. rq[r].user \in Users
    BY <1>2 DEF SessionInv, SessionsTypeOK, Sign
  <1> QED BY <1>2, <1>3, SignedInv DEF Refresh

LEMMA OtherEndsInv ==
    ASSUME SessionInv, NEW r \in Requests, Read(r) \/ StatementFails(r) \/ AnswerFailed(r)
    PROVE  SessionInv'
  BY Ends DEF Read, StatementFails, AnswerFailed, End

LEMMA ChangePasswordInv ==
    ASSUME SessionInv, NEW r \in Requests, ChangePassword(r)
    PROVE  SessionInv'
  <1>1. CASE End(r)
    BY <1>1, Ends DEF ChangePassword, End
  <1>2. ASSUME Exists(account, rq[r].user), Goto(r, "save"), NEW new \in Passwords,
               rq' = [rq EXCEPT ![r].loaded = [account[rq[r].user] EXCEPT !.password = new]]
        PROVE  SessionInv'
    <2> DEFINE row == [account[rq[r].user] EXCEPT !.password = new]
               q == [rq[r] EXCEPT !.loaded = row]
    <2>1. Proper(rq[r], "handle", account, signs, key) /\ rq[r] \in Request
      BY DEF SessionInv, SessionsTypeOK, RequestsInv, ChangePassword
    <2>2. rq[r].user \in Users
      BY <2>1 DEF Proper, Authenticated, SessionInv, SessionsTypeOK, Sign
    <2>3. account[rq[r].user] \in Row
      BY <1>2, <2>2 DEF SessionInv, SessionsTypeOK, Exists
    <2>4. row \in Row /\ row.name = account[rq[r].user].name
      BY <2>3 DEF Row
    <2> HIDE DEF row
    <2>5. q \in Request /\ q.kind = rq[r].kind /\ q.user = rq[r].user /\ q.token = rq[r].token
          /\ q.parsed = rq[r].parsed /\ q.could = rq[r].could /\ q.couldnt = rq[r].couldnt
          /\ q.loaded = row
      BY <2>1, <2>4 DEF Request
    <2>6. pc' = [pc EXCEPT ![r] = "save"] /\ rq' = [rq EXCEPT ![r] = q]
      BY <1>2 DEF Goto, row, SessionInv, SessionsTypeOK, Request
    <2> HIDE DEF q
    <2>7. SessionsTypeOK'
      BY <2>5, <2>6 DEF SessionInv, SessionsTypeOK, Steps, ChangePassword
    <2>8. \A t \in Requests : IF t = r THEN pc'[t] = "save" /\ rq'[t] = q
                                       ELSE pc'[t] = pc[t] /\ rq'[t] = rq[t]
      BY <2>6 DEF SessionInv, SessionsTypeOK
    <2>9. Agrees(account, q) <=> Agrees(account, rq[r])
      BY <2>1, <2>5 DEF Proper, Authenticated, Agrees
    <2>10. Proper(q, "save", account, signs, key)
      BY <2>1, <2>5, <2>9 DEF Proper, Authenticated
    <2>11. RequestsInv'
      BY <2>8, <2>10 DEF SessionInv, RequestsInv, ChangePassword
    <2>12. NamesKept'
      <3>1. row # NoRow /\ rq[r].user \in used
        BY <1>2, <2>2, <2>4, SessionsAssumption DEF SessionInv, NamesKept, Row
      <3>2. \A t \in Requests :
                pc[t] = "save" /\ rq[t].user = rq[r].user => rq[t].loaded.name = row.name
        BY <1>2, <2>4 DEF SessionInv, NamesKept
      <3>3. UNCHANGED <<account, used>>
        BY DEF ChangePassword
      <3> QED BY <2>4, <2>5, <2>8, <3>1, <3>2, <3>3 DEF SessionInv, NamesKept, Exists
    <2>13. NamesUnique' /\ SignsInv' /\ SessionsFromPasswords'
      BY DEF ChangePassword, SessionInv, NamesUnique, SignsInv, SessionsFromPasswords, ClosedUnderRefresh, Exists
    <2> QED BY <2>7, <2>11, <2>12, <2>13 DEF SessionInv
  <1> QED BY <1>1, <1>2 DEF ChangePassword
-----------------------------------------------------------------------------
\* Changes of the rows, which every request in progress witnesses.

\* The part of the invariant that is about names has to be shown for the rows
\* at hand; the rest follows, whichever requests are over.
LEMMA RowsInv ==
    ASSUME SessionInv, NEW rows \in [Users -> Row \cup {NoRow}], NEW done \in SUBSET Requests,
           account' = rows,
           pc' = [t \in Requests |-> IF t \in done THEN "idle" ELSE pc[t]],
           rq' = [t \in Requests |-> IF t \in done THEN Blank ELSE WitnessAll(rq, rows)[t]],
           used \subseteq used', used' \subseteq Users, UNCHANGED <<now, key, signs>>,
           NamesUnique', \A u \in Users : Exists(rows, u) => u \in used',
           \A t \in Requests : t \notin done /\ pc[t] = "save" /\ Exists(rows, rq[t].user)
                => rows[rq[t].user].name = rq[t].loaded.name
    PROVE  SessionInv'
  <1>1. \A t \in Requests : rq[t] \in Request
    BY DEF SessionInv, SessionsTypeOK
  <1>2. \A t \in Requests : rq'[t] \in {Blank, rq[t], Witness(rq[t], rows)}
    BY DEF WitnessAll
  <1>3. \A t \in Requests : rq'[t] \in Request
    BY <1>1, <1>2, BlankTyped, WitnessTyped
  <1>4. SessionsTypeOK'
    BY <1>3 DEF SessionInv, SessionsTypeOK, Steps
  <1>5. \A t \in Requests : pc'[t] = "save" =>
            pc[t] = "save" /\ t \notin done /\ rq'[t].user = rq[t].user /\ rq'[t].loaded = rq[t].loaded
    BY <1>1, WitnessTyped DEF WitnessAll
  <1>6. NamesKept'
    BY <1>5 DEF SessionInv, NamesKept, Exists
  <1>7. RequestsInv'
    <2> SUFFICES ASSUME NEW t \in Requests
                 PROVE  Proper(rq'[t], pc'[t], account', signs', key')
      BY DEF RequestsInv
    <2>1. CASE pc'[t] = "idle"
      BY <2>1, BlankProper
    <2>2. CASE pc'[t] # "idle"
      <3>1. rq'[t] = Witness(rq[t], rows) /\ pc'[t] = pc[t]
        BY <2>2 DEF WitnessAll
      <3>2. Proper(rq[t], pc[t], account, signs, key)
        BY DEF SessionInv, RequestsInv
      <3> QED BY <1>1, <3>1, <3>2, ProperKept
    <2> QED BY <2>1, <2>2
  <1>8. SignsInv' /\ SessionsFromPasswords'
    BY DEF SessionInv, SignsInv, SessionsFromPasswords, ClosedUnderRefresh
  <1> QED BY <1>4, <1>6, <1>7, <1>8 DEF SessionInv

LEMMA RowsChangeInv ==
    ASSUME SessionInv, NEW rows \in [Users -> Row \cup {NoRow}], Change(rows),
           used \subseteq used', used' \subseteq Users, UNCHANGED <<now, key, signs, pc>>,
           NamesUnique', \A u \in Users : Exists(rows, u) => u \in used',
           \A t \in Requests : pc[t] = "save" /\ Exists(rows, rq[t].user)
                => rows[rq[t].user].name = rq[t].loaded.name
    PROVE  SessionInv'
  <1>1. pc' = [t \in Requests |-> IF t \in {} THEN "idle" ELSE pc[t]]
    BY DEF SessionInv, SessionsTypeOK
  <1>2. rq' = [t \in Requests |-> IF t \in {} THEN Blank ELSE WitnessAll(rq, rows)[t]]
    BY DEF Change, WitnessAll
  <1>3. {} \in SUBSET Requests /\ account' = rows
    BY DEF Change
  <1> QED BY <1>1, <1>2, <1>3, RowsInv

LEMMA RowsChangeAndEndInv ==
    ASSUME SessionInv, NEW r \in Requests, NEW rows \in [Users -> Row \cup {NoRow}],
           ChangeAndEnd(r, rows), UNCHANGED <<now, key, used, signs>>,
           NamesUnique', \A u \in Users : Exists(rows, u) => u \in used,
           \A t \in Requests : t # r /\ pc[t] = "save" /\ Exists(rows, rq[t].user)
                => rows[rq[t].user].name = rq[t].loaded.name
    PROVE  SessionInv'
  <1>1. pc' = [t \in Requests |-> IF t \in {r} THEN "idle" ELSE pc[t]]
    BY DEF SessionInv, SessionsTypeOK, ChangeAndEnd, Goto
  <1>2. rq' = [t \in Requests |-> IF t \in {r} THEN Blank ELSE WitnessAll(rq, rows)[t]]
    BY DEF ChangeAndEnd, WitnessAll
  <1>3. {r} \in SUBSET Requests /\ account' = rows /\ used \subseteq used' /\ used' \subseteq Users
    BY DEF ChangeAndEnd, SessionInv, SessionsTypeOK
  <1> HIDE DEF SessionInv
  <1> QED BY <1>1, <1>2, <1>3, RowsInv

\* A row less.
LEMMA RemovedRows ==
    ASSUME SessionInv, NEW u, NEW rows, rows = [account EXCEPT ![u] = NoRow], account' = rows
    PROVE  /\ rows \in [Users -> Row \cup {NoRow}]
           /\ NamesUnique' /\ \A v \in Users : Exists(rows, v) => v \in used
           /\ \A t \in Requests : pc[t] = "save" /\ Exists(rows, rq[t].user)
                => rows[rq[t].user].name = rq[t].loaded.name
  <1>1. \A v \in Users : rows[v] = account[v] \/ rows[v] = NoRow
    BY DEF SessionInv, SessionsTypeOK
  <1>2. rows \in [Users -> Row \cup {NoRow}]
    BY DEF SessionInv, SessionsTypeOK
  <1>3. NamesUnique'
    BY <1>1 DEF SessionInv, NamesUnique, Exists
  <1>4. \A t \in Requests : pc[t] = "save" => rq[t].user \in Users
    BY DEF SessionInv, NamesKept, SessionsTypeOK
  <1> QED BY <1>1, <1>2, <1>3, <1>4 DEF SessionInv, NamesKept, Exists

LEMMA DeleteInv ==
    ASSUME SessionInv, NEW r \in Requests, Delete(r)
    PROVE  SessionInv'
  <1>1. PICK u \in used : ChangeAndEnd(r, [account EXCEPT ![u] = NoRow])
    BY DEF Delete
  <1> DEFINE rows == [account EXCEPT ![u] = NoRow]
  <1>2. account' = rows /\ ChangeAndEnd(r, rows)
    BY <1>1 DEF ChangeAndEnd
  <1>3. UNCHANGED <<now, key, used, signs>>
    BY DEF Delete
  <1>4. /\ rows \in [Users -> Row \cup {NoRow}]
        /\ NamesUnique' /\ \A v \in Users : Exists(rows, v) => v \in used
        /\ \A t \in Requests : pc[t] = "save" /\ Exists(rows, rq[t].user)
             => rows[rq[t].user].name = rq[t].loaded.name
    BY <1>2, RemovedRows
  <1> HIDE DEF rows
  <1> QED BY <1>2, <1>3, <1>4, RowsChangeAndEndInv

LEMMA DeleteUserInv ==
    ASSUME SessionInv, DeleteUser
    PROVE  SessionInv'
  <1>1. PICK u \in Users : Change([account EXCEPT ![u] = NoRow])
    BY DEF DeleteUser
  <1>2. account' = [account EXCEPT ![u] = NoRow]
    BY <1>1 DEF Change
  <1>3. used \subseteq used' /\ used' \subseteq Users /\ used' = used
    BY DEF DeleteUser, SessionInv, SessionsTypeOK
  <1> QED BY <1>1, <1>2, <1>3, RemovedRows, RowsChangeInv DEF DeleteUser

\* The row Save writes has a name nobody else has.
LEMMA SaveInv ==
    ASSUME SessionInv, NEW r \in Requests, Save(r)
    PROVE  SessionInv'
  <1>1. CASE ~Exists(account, rq[r].user) /\ ~NameFree(account, rq[r].loaded.name) /\ End(r) /\ UNCHANGED account
    BY <1>1, Ends DEF Save, End
  <1>2. CASE /\ Exists(account, rq[r].user) \/ NameFree(account, rq[r].loaded.name)
             /\ ChangeAndEnd(r, [account EXCEPT ![rq[r].user] = rq[r].loaded])
    <2> DEFINE u == rq[r].user
               row == rq[r].loaded
               rows == [account EXCEPT ![u] = row]
    <2>1. u \in used /\ u \in Users /\ row # NoRow /\ row \in Row
      BY DEF Save, SessionInv, NamesKept, SessionsTypeOK, Request
    <2>2. Exists(account, u) => account[u].name = row.name
      BY DEF Save, SessionInv, NamesKept
    <2>3. \A t \in Requests : pc[t] = "save" /\ rq[t].user = u => rq[t].loaded.name = row.name
      BY DEF Save, SessionInv, NamesKept
    <2>4. account' = rows
      BY <1>2 DEF ChangeAndEnd
    <2>5. rows \in [Users -> Row \cup {NoRow}] /\ \A v \in Users : rows[v] = IF v = u THEN row ELSE account[v]
      BY <2>1 DEF SessionInv, SessionsTypeOK
    <2>6. \A v \in Users : v # u /\ Exists(account, v) => account[v].name # row.name
      BY <1>2, <2>1, <2>2 DEF SessionInv, NamesUnique, NameFree
    <2> HIDE DEF u, row
    <2>7. NamesUnique'
      BY <2>4, <2>5, <2>6 DEF SessionInv, NamesUnique, Exists
    <2>8. \A v \in Users : Exists(rows, v) => v \in used
      BY <2>1, <2>5 DEF SessionInv, NamesKept, Exists
    <2>9. \A t \in Requests : pc[t] = "save" /\ Exists(rows, rq[t].user)
                => rows[rq[t].user].name = rq[t].loaded.name
      <3>1. \A t \in Requests : pc[t] = "save" => rq[t].user \in Users
        BY DEF SessionInv, NamesKept, SessionsTypeOK
      <3> QED BY <2>3, <2>5, <3>1 DEF SessionInv, NamesKept, Exists
    <2>10. ChangeAndEnd(r, rows)
      BY <1>2 DEF u, row
    <2> HIDE DEF rows
    <2> QED BY <2>5, <2>7, <2>8, <2>9, <2>10, RowsChangeAndEndInv DEF Save
  <1> QED BY <1>1, <1>2 DEF Save

LEMMA CreateUserInv ==
    ASSUME SessionInv, CreateUser
    PROVE  SessionInv'
  <1>1. PICK row \in Row :
            /\ used # Users /\ NameFree(account, row.name)
            /\ Change([account EXCEPT ![NextID] = row]) /\ used' = used \cup {NextID}
    BY DEF CreateUser
  <1> DEFINE rows == [account EXCEPT ![NextID] = row]
  <1>2. NextID \in Users /\ NextID \notin used
    BY <1>1 DEF NextID, SessionInv, SessionsTypeOK
  <1>3. account' = rows /\ Change(rows)
    BY <1>1 DEF Change
  <1>4. rows \in [Users -> Row \cup {NoRow}] /\ \A v \in Users : rows[v] = IF v = NextID THEN row ELSE account[v]
    BY <1>2 DEF SessionInv, SessionsTypeOK
  <1> HIDE DEF rows
  <1>5. NamesUnique'
    BY <1>1, <1>3, <1>4 DEF SessionInv, NamesUnique, NameFree, Exists
  <1>6. \A v \in Users : Exists(rows, v) => v \in used'
    BY <1>1, <1>4 DEF SessionInv, NamesKept, Exists
  <1>7. \A t \in Requests : pc[t] = "save" /\ Exists(rows, rq[t].user)
            => rows[rq[t].user].name = rq[t].loaded.name
    <2>1. \A t \in Requests : pc[t] = "save" => rq[t].user \in Users /\ rq[t].user # NextID
      BY <1>2 DEF SessionInv, NamesKept, SessionsTypeOK
    <2> QED BY <1>4, <2>1 DEF SessionInv, NamesKept, Exists
  <1>8. used \subseteq used' /\ used' \subseteq Users
    BY <1>1, <1>2 DEF SessionInv, SessionsTypeOK
  <1> QED BY <1>3, <1>4, <1>5, <1>6, <1>7, <1>8, RowsChangeInv DEF CreateUser

LEMMA SetPasswordInv ==
    ASSUME SessionInv, SetPassword
    PROVE  SessionInv'
  <1>1. PICK u \in Users, new \in Passwords :
            Exists(account, u) /\ Change([account EXCEPT ![u].password = new])
    BY DEF SetPassword
  <1> DEFINE row == [account[u] EXCEPT !.password = new]
             rows == [account EXCEPT ![u].password = new]
  <1>2. account[u] \in Row
    BY <1>1 DEF SessionInv, SessionsTypeOK, Exists
  <1>3. row \in Row /\ row.name = account[u].name
    BY <1>2 DEF Row
  <1>4. account' = rows /\ Change(rows)
    BY <1>1 DEF Change
  <1>5. \A v \in Users : rows[v] = IF v = u THEN row ELSE account[v]
    BY DEF SessionInv, SessionsTypeOK
  <1>6. rows \in [Users -> Row \cup {NoRow}]
    BY <1>3 DEF SessionInv, SessionsTypeOK
  <1> HIDE DEF row, rows
  <1>7. \A v \in Users : Exists(rows, v) => Exists(account, v) /\ rows[v].name = account[v].name
    BY <1>1, <1>3, <1>5 DEF Exists
  <1>8. NamesUnique'
    BY <1>4, <1>7 DEF SessionInv, NamesUnique, Exists
  <1>9. \A v \in Users : Exists(rows, v) => v \in used
    BY <1>7 DEF SessionInv, NamesKept
  <1>10. \A t \in Requests : pc[t] = "save" /\ Exists(rows, rq[t].user)
            => rows[rq[t].user].name = rq[t].loaded.name
    <2>1. \A t \in Requests : pc[t] = "save" => rq[t].user \in Users
      BY DEF SessionInv, NamesKept, SessionsTypeOK
    <2> QED BY <1>7, <2>1 DEF SessionInv, NamesKept
  <1>11. used \subseteq used' /\ used' \subseteq Users /\ used' = used
    BY DEF SetPassword, SessionInv, SessionsTypeOK
  <1> QED BY <1>4, <1>6, <1>8, <1>9, <1>10, <1>11, RowsChangeInv DEF SetPassword
-----------------------------------------------------------------------------
\* The sessions' half of a step.

LEMMA CutAllInv ==
    ASSUME SessionInv, CutAll
    PROVE  SessionInv'
  <1>1. \A t \in Requests : pc'[t] = "idle" /\ rq'[t] = Blank
    BY DEF CutAll
  <1>2. SessionsTypeOK'
    BY BlankTyped DEF CutAll, SessionInv, SessionsTypeOK, Steps
  <1>3. NamesKept' /\ NamesUnique' /\ SignsInv' /\ SessionsFromPasswords'
    BY <1>1 DEF CutAll, SessionInv, NamesKept, NamesUnique, SignsInv, SessionsFromPasswords, ClosedUnderRefresh, Exists
  <1>4. RequestsInv'
    BY <1>1, BlankProper DEF RequestsInv
  <1> QED BY <1>2, <1>3, <1>4 DEF SessionInv

LEMMA TickInv ==
    ASSUME SessionInv, Tick
    PROVE  SessionInv'
  <1>1. SessionsTypeOK' /\ SignsInv'
    BY DEF Tick, SessionInv, SessionsTypeOK, SignsInv, Sign
  <1>2. NamesKept' /\ NamesUnique' /\ SessionsFromPasswords' /\ RequestsInv'
    BY DEF Tick, SessionInv, NamesKept, NamesUnique, SessionsFromPasswords, ClosedUnderRefresh, RequestsInv, Exists
  <1> QED BY <1>1, <1>2 DEF SessionInv

\* Another secret, with no request in progress.
LEMMA InitKeyInv ==
    ASSUME SessionInv, InitKey, \A t \in Requests : pc[t] = "idle"
    PROVE  SessionInv'
  <1>1. SessionsTypeOK' /\ SignsInv'
    BY DEF InitKey, SessionInv, SessionsTypeOK, SignsInv
  <1>2. NamesKept' /\ NamesUnique' /\ SessionsFromPasswords'
    BY DEF InitKey, SessionInv, NamesKept, NamesUnique, SessionsFromPasswords, ClosedUnderRefresh, Exists
  <1>3. RequestsInv'
    BY BlankProper DEF InitKey, RequestsInv
  <1> QED BY <1>1, <1>2, <1>3 DEF SessionInv

LEMMA ServeInv ==
    ASSUME SessionInv, NEW r \in Requests, Serve(r)
    PROVE  SessionInv'
  BY LookupInv, CompareInv, ParseInv, RetrieveInv, RefreshInv, AuthorizeInv, OtherEndsInv, DeleteInv,
     ChangePasswordInv, SaveInv
  DEF Serve

LEMMA SessionPreserved ==
    ASSUME SessionInv, SessionNext \/ UNCHANGED sessionVars
    PROVE  SessionInv'
  <1>1. CASE UNCHANGED sessionVars
    BY <1>1 DEF sessionVars, SessionInv, SessionsTypeOK, NamesKept, NamesUnique, SessionsFromPasswords, ClosedUnderRefresh,
                RequestsInv, SignsInv, Exists
  <1>2. CASE SessionNext
    BY <1>2, ReceiveInv, ServeInv, CutAllInv, TickInv, CreateUserInv, DeleteUserInv, SetPasswordInv
    DEF SessionNext
  <1> QED BY <1>1, <1>2

-----------------------------------------------------------------------------
\* The two halves together.

\* A request in progress moves, and no other does.
LEMMA ServeMoves ==
    ASSUME SessionsTypeOK, NEW r \in Requests, Serve(r)
    PROVE  pc[r] # "idle" /\ \A t \in Requests : t # r => pc'[t] = pc[t]
  <1>1. pc[r] # "idle"
    BY DEF Serve, Lookup, Compare, Parse, Retrieve, Refresh, Authorize, Read, Delete, ChangePassword, Save,
           StatementFails, AnswerFailed
  <1>2. CASE Lookup(r) \/ Compare(r) \/ Parse(r) \/ Retrieve(r) \/ Refresh(r) \/ Authorize(r)
    BY <1>2 DEF SessionsTypeOK, Lookup, Compare, Parse, Retrieve, Refresh, Authorize, SignFor, Goto, End
  <1>3. CASE Read(r) \/ Delete(r) \/ ChangePassword(r) \/ Save(r) \/ StatementFails(r) \/ AnswerFailed(r)
    BY <1>3 DEF SessionsTypeOK, Read, Delete, ChangePassword, Save, StatementFails, AnswerFailed, Goto, End,
                ChangeAndEnd
  <1> QED BY <1>1, <1>2, <1>3 DEF Serve

LEMMA CoupledPreserved ==
    ASSUME TypeOK, LifeInv, Coupled, Next
    PROVE  Coupled'
  <1> USE OneRequestPerConnection
  <1>1. CASE Background
    <2>1. UNCHANGED pc
      BY <1>1 DEF Background, sessionVars
    <2>2. \A r \in Requests : conn'[r] = "busy" <=> conn[r] = "busy"
      <3>1. CASE ApplyFails
        BY <3>1 DEF ApplyFails, ExitAsIs, Exit, LifeInv, NoConnection
      <3>2. CASE \E c \in Connections : Connect(c) \/ Disconnect(c) \/ CloseIdle(c)
        BY <3>2 DEF Connect, Disconnect, CloseIdle, TypeOK, LifeTypeOK
      <3>3. CASE Apply \/ Run \/ BuildFails \/ FirstSignal \/ Listen \/ ListenFails \/ Stop \/ Timeout \/ Drained
        BY <3>3 DEF Apply, Run, BuildFails, FirstSignal, Listen, ListenFails, Stop, Timeout, Drained
      <3> QED BY <1>1, <3>1, <3>2, <3>3 DEF Background
    <2> QED BY <2>1, <2>2 DEF Coupled
  <1>2. CASE Flush
    <2>1. CASE main' = "over"
      <3>1. \A r \in Requests : conn'[r] = "none" /\ pc'[r] = "idle"
        BY <1>2, <2>1 DEF Flush, Shutdown, ShutDownNext, Exit, CutAll, NoConnection
      <3> QED BY <3>1 DEF Coupled
    <2>2. CASE main' # "over"
      BY <1>2, <2>2 DEF Flush, Shutdown, ShutDownNext, Exit, sessionVars, Coupled
    <2> QED BY <2>1, <2>2
  <1>3. CASE Kill
    <2>1. \A r \in Requests : conn'[r] = "none" /\ pc'[r] = "idle"
      BY <1>3 DEF Kill, Killed, ExitAsIs, Exit, CutAll, NoConnection
    <2> QED BY <2>1 DEF Coupled
  <1>4. CASE Restart \/ Elsewhere
    BY <1>4 DEF Restart, Start, InitKey, Elsewhere, Tick, CreateUser, DeleteUser, SetPassword, lifeVars, Coupled
  <1>5. ASSUME NEW r \in Requests, Accept(r)
        PROVE  Coupled'
    <2>1. pc'[r] # "idle" /\ \A t \in Requests : t # r => pc'[t] = pc[t]
      BY <1>5 DEF Accept, Receive, Arrive, Goto, TypeOK, SessionsTypeOK
    <2>2. conn'[r] = "busy" /\ \A t \in Requests : t # r => conn'[t] = conn[t]
      BY <1>5 DEF Accept, BeginRequest, TypeOK, LifeTypeOK
    <2> QED BY <2>1, <2>2 DEF Coupled
  <1>6. ASSUME NEW r \in Requests, Work(r)
        PROVE  Coupled'
    <2>1. pc[r] # "idle" /\ \A t \in Requests : t # r => pc'[t] = pc[t]
      BY <1>6, ServeMoves DEF Work, TypeOK
    <2>2. CASE pc'[r] = "idle"
      <3>1. conn'[r] # "busy" /\ \A t \in Requests : t # r => conn'[t] = conn[t]
        BY <1>6, <2>2 DEF Work, EndRequest, TypeOK, LifeTypeOK
      <3> QED BY <2>1, <2>2, <3>1 DEF Coupled
    <2>3. CASE pc'[r] # "idle"
      BY <1>6, <2>1, <2>3 DEF Work, lifeVars, Coupled
    <2> QED BY <2>2, <2>3
  <1> QED BY <1>1, <1>2, <1>3, <1>4, <1>5, <1>6 DEF Next

LEMMA InitInv == Init => IInv
  <1> SUFFICES ASSUME Init PROVE IInv
    OBVIOUS
  <1>1. SessionsTypeOK
    BY BlankTyped DEF Init, SessionsInit, SessionsTypeOK, Steps
  <1>2. NamesUnique /\ NamesKept /\ SignsInv /\ SessionsFromPasswords
    BY DEF Init, SessionsInit, NamesUnique, NamesKept, SignsInv, SessionsFromPasswords, ClosedUnderRefresh, Exists
  <1>3. RequestsInv
    BY BlankProper DEF Init, SessionsInit, RequestsInv
  <1>4. LifeTypeOK
    <2>1. conn \in [Connections -> {"none", "open", "busy"}]
      BY DEF Init, LifeInit, NoConnection
    <2>2. /\ main = "apply" /\ step \in 1..4 /\ providers = {} /\ files = {}
          /\ listener = "none" /\ ending = "none"
      BY DEF Init, LifeInit
    <2>3. cancelled \in BOOLEAN /\ overdue \in BOOLEAN
      BY DEF Init, LifeInit
    <2> QED BY <2>1, <2>2, <2>3 DEF LifeTypeOK
  <1>5. LifeInv /\ TelemetryShut
    BY DEF Init, LifeInit, LifeInv, NoConnection, TelemetryShut, Alive
  <1>6. Coupled
    BY OneRequestPerConnection DEF Init, SessionsInit, LifeInit, NoConnection, Coupled
  <1> QED BY <1>1, <1>2, <1>3, <1>4, <1>5, <1>6 DEF IInv, TypeOK

LEMMA StepInv == IInv /\ [Next]_vars => IInv'
  <1> SUFFICES ASSUME IInv, [Next]_vars PROVE IInv'
    OBVIOUS
  <1>1. CASE Next
    <2>1. LifeTypeOK' /\ LifeInv' /\ TelemetryShut'
      BY <1>1, StepParts, LifePreserved DEF IInv, TypeOK
    <2>2. SessionInv'
      <3>1. SessionInv
        BY DEF IInv, TypeOK, SessionInv
      <3>2. CASE Start /\ InitKey
        <4>1. \A t \in Requests : pc[t] = "idle"
          BY <3>2, OneRequestPerConnection DEF Start, Alive, IInv, LifeInv, TypeOK, LifeTypeOK, Coupled, NoConnection
        <4> QED BY <3>1, <3>2, <4>1, InitKeyInv
      <3> QED BY <1>1, <3>1, <3>2, StepParts, SessionPreserved
    <2>3. Coupled'
      BY <1>1, CoupledPreserved DEF IInv
    <2> QED BY <2>1, <2>2, <2>3 DEF IInv, TypeOK, SessionInv
  <1>2. CASE UNCHANGED vars
    <2>1. LifeTypeOK' /\ LifeInv' /\ TelemetryShut'
      BY <1>2, LifePreserved DEF vars, IInv, TypeOK
    <2>2. SessionInv'
      BY <1>2, SessionPreserved DEF vars, IInv, TypeOK, SessionInv
    <2>3. Coupled'
      BY <1>2 DEF vars, sessionVars, lifeVars, IInv, Coupled
    <2> QED BY <2>1, <2>2, <2>3 DEF IInv, TypeOK, SessionInv
  <1> QED BY <1>1, <1>2

LEMMA Always == Spec => []IInv
  BY InitInv, StepInv, PTL DEF Spec

\* Rows, tokens, requests, goroutines and connections keep to their types.
THEOREM GatewayTyped == Spec => []TypeOK
  BY Always, PTL DEF IInv

\* Whoever is let through was the user it claims to be at some moment of its
\* request, and whoever is about to be turned away for its password was not
\* (login.go, authn.go): RequestsInv says so, step for step.
THEOREM AuthenticationHolds == Spec => []AuthenticationWitnessed
  <1>1. IInv => AuthenticationWitnessed
    BY DEF IInv, RequestsInv, Proper, AuthenticationWitnessed, Authenticated
  <1> QED BY <1>1, Always, PTL

\* From every pair of tokens a chain of refreshes leads back to a password
\* (token.go, refreshtoken.go).
THEOREM SessionsStartWithPasswords == Spec => []SessionsFromPasswords
  BY Always, PTL DEF IInv

\* What is let through carries a token of its kind, signed with the secret of
\* this process and alive when it was parsed (token.go, ParseRequest).
THEOREM LetThroughByGoodTokens == Spec => []TokensGood
  <1>1. IInv => TokensGood
    <2> SUFFICES ASSUME IInv, NEW r \in Requests, pc[r] \in {"retrieve"} \cup Authenticated
                 PROVE  LET t == rq[r].token IN
                        /\ t.pair \in signs /\ t.pair.key = key /\ t.pair.user = rq[r].user
                        /\ rq[r].parsed < Expiry(t)
                        /\ (t.type = "refresh") <=> (rq[r].kind = "refresh")
      BY DEF TokensGood, Authenticated
    <2>1. Proper(rq[r], pc[r], account, signs, key)
      BY DEF IInv, RequestsInv
    <2> QED BY <2>1 DEF Proper, Authenticated
  <1> QED BY <1>1, Always, PTL

\* A process that returns from run has shut its telemetry down (otel_options.go,
\* Shutdown): the loop of Shutdown has passed every provider that is still up.
THEOREM TelemetryIsShut == Spec => []TelemetryShut
  BY Always, PTL DEF IInv

\* A refusal for want of the user or for the password is true of some moment of
\* the request (login.go, authn.go): the history of the request holds what the
\* rows say when it is refused.
THEOREM RefusalsAreWitnessed == Spec => RefusalsWitnessed
  <1>1. IInv /\ [Next]_vars => [RefusalWitnessed]_vars
    <2> SUFFICES ASSUME IInv, Next, NEW r \in Requests,
                        pc[r] \in {"lookup", "compare", "retrieve"}, pc'[r] = "idle", Alive',
                        pc[r] = "compare" => ~\E s \in signs' : s.user = rq[r].user /\ s.at = now
                 PROVE  rq[r].couldnt
      BY DEF RefusalWitnessed
    <2>1. Proper(rq[r], pc[r], account, signs, key)
      BY DEF IInv, RequestsInv
    <2>2. Work(r)
      <3>1. CASE Background \/ Flush \/ Kill \/ Restart \/ Elsewhere
        <4>1. UNCHANGED pc \/ ~Alive'
          BY <3>1 DEF Background, Flush, Kill, Killed, ExitAsIs, Exit, Alive, Restart, InitKey, Elsewhere, Tick,
                      CreateUser, DeleteUser, SetPassword, sessionVars
        <4> QED BY <4>1
      <3>2. ASSUME NEW t \in Requests, Accept(t)
            PROVE  FALSE
        BY <3>2 DEF Accept, Receive, Arrive, Goto, IInv, TypeOK, SessionsTypeOK
      <3>3. ASSUME NEW t \in Requests, Work(t)
            PROVE  t = r
        BY <3>3, ServeMoves DEF Work, IInv, TypeOK
      <3> QED BY <3>1, <3>2, <3>3 DEF Next
    <2>3. Lookup(r) \/ Compare(r) \/ Retrieve(r)
      <3>1. pc'[r] # "failed"
        OBVIOUS
      <3>2. ~StatementFails(r)
        BY <3>1 DEF StatementFails, Goto, IInv, TypeOK, SessionsTypeOK
      <3> QED BY <2>2, <3>2 DEF Work, Serve, Parse, Refresh, Authorize, Read, Delete, ChangePassword, Save, AnswerFailed
    <2>4. CASE Lookup(r)
      <3>1. NameFree(account, rq[r].name)
        BY <2>4 DEF Lookup, Goto, IInv, TypeOK, SessionsTypeOK
      <3>2. rq[r].name \in Names /\ rq[r].password \in Passwords
        BY DEF IInv, TypeOK, SessionsTypeOK, Request
      <3>3. ~Agrees(account, rq[r])
        <4>1. ASSUME NEW u \in Users, account[u] = [name |-> rq[r].name, password |-> rq[r].password]
              PROVE  FALSE
          <5>1. Exists(account, u) /\ account[u].name = rq[r].name
            BY <3>2, <4>1, SessionsAssumption DEF Exists
          <5> QED BY <3>1, <5>1 DEF NameFree
        <4>2. rq[r].kind = "login"
          BY <2>1, <2>4 DEF Proper, Lookup
        <4> QED BY <4>1, <4>2 DEF Agrees
      <3> QED BY <2>1, <2>4, <3>3 DEF Proper, Lookup
    <2>5. CASE Compare(r)
      <3>1. ASSUME SignFor(r, "password")
            PROVE  FALSE
        <4> DEFINE s == [user |-> rq[r].user, at |-> now, key |-> key, by |-> "password", proved |-> rq[r].parsed]
        <4>1. s \in signs'
          BY <3>1 DEF SignFor
        <4>2. s.user = rq[r].user /\ s.at = now
          OBVIOUS
        <4> HIDE DEF s
        <4> QED BY <2>5, <4>1, <4>2 DEF Compare
      <3>2. rq[r].loaded.password # rq[r].password
        BY <2>5, <3>1 DEF Compare
      <3> QED BY <2>1, <2>5, <3>2 DEF Proper, Compare
    <2>6. CASE Retrieve(r)
      <3>1. ~Exists(account, rq[r].user)
        BY <2>6 DEF Retrieve, Goto, IInv, TypeOK, SessionsTypeOK
      <3>2. ~Agrees(account, rq[r])
        BY <2>1, <2>6, <3>1 DEF Agrees, Proper, Retrieve
      <3> QED BY <2>1, <2>6, <3>2 DEF Proper, Retrieve
    <2> QED BY <2>3, <2>4, <2>5, <2>6
  <1> QED BY <1>1, Always, PTL DEF Spec, RefusalsWitnessed

\* The server keeps the promise of Service (server.go, http_server.go): no
\* connection is taken once a stop has begun, and only death or the deadline
\* cuts a request short.
THEOREM PromiseIsKept == Spec => PromiseKept
  <1>1. Init => Promise!Init
    <2> SUFFICES ASSUME Init PROVE Promise!Init
      OBVIOUS
    <2>1. Phase = "down" /\ Linked = {} /\ Busy = {} /\ (~overdue) = TRUE
      BY DEF Init, LifeInit, Phase, Linked, Busy, NoConnection
    <2> QED BY <2>1 DEF Promise!Init
  <1>2. IInv /\ [Next]_vars => [Promise!Next]_(Promise!vars)
    <2> SUFFICES ASSUME IInv, [Next]_vars
                 PROVE  [Promise!Next]_(Promise!vars)
      OBVIOUS
    <2>1. LifeNext \/ UNCHANGED lifeVars
      BY StepParts DEF vars
    <2>2. Promise!Next \/ UNCHANGED <<Phase, Linked, Busy, overdue>>
      BY <2>1, PromiseStep DEF IInv, TypeOK
    <2> QED BY <2>2 DEF Promise!vars
  <1> QED BY <1>1, <1>2, Always, PTL DEF Spec, PromiseKept, Promise!Spec
=============================================================================
