------------------------------ MODULE Requests ------------------------------
(***************************************************************************)
(* A request on its way through the chain of gin handlers and back           *)
(* (internal/apiserver/httpserver.go, pkg/middleware/gin/observability.go,   *)
(* pkg/core/core.go, pkg/errorsx/errorsx.go): the middlewares every request  *)
(* meets, authentication and authorization, binding, validation, business    *)
(* logic, the answer, and what is done when the chain unwinds.  Requests run *)
(* at once and share the error values of the packages errorsx and errno.     *)
(* One of them may list users, by the steps of UserList.                     *)
(***************************************************************************)
EXTENDS UserList, Integers, Sequences

CONSTANTS
    Requests,
    Lister      \* the request that may list users

ASSUME ListerAssumption == Lister \in Requests

\* Error values the packages export as pointers, with their codes.
Codes ==
    [ErrTokenInvalid |-> 50102, ErrUnauthenticated |-> 50101, ErrPermissionDenied |-> 20107,
     ErrBind |-> 20103, ErrInvalidArgument |-> 20103, ErrUsernameInvalid |-> 20105,
     ErrUserNotFound |-> 20101, ErrUserAlreadyExists |-> 20102, ErrPasswordInvalid |-> 20106,
     ErrSignToken |-> 50104, ErrPageNotFound |-> 20101]

Shared == DOMAIN Codes

\* The handlers after the global middlewares, by route.  A preflight gets none.
Chain ==
    [preflight |-> <<>>, metrics |-> <<"plain">>, healthz |-> <<"plain">>,
     unknown |-> <<"noRoute">>, login |-> <<"handler">>, create |-> <<"handler">>,
     refresh |-> <<"authn", "handler">>, protected |-> <<"authn", "authz", "handler">>,
     list |-> <<"authn", "authz", "handler">>]

Message == {"stock", "success"} \cup Requests

\* An error a request holds: a pointer to a shared value, or a value of its own.
Raised == [of : Shared \cup {"own", "none"}, code : Nat, message : Message]

NoError == [of |-> "none", code |-> 0, message |-> "success"]
Own(code, message) == [of |-> "own", code |-> code, message |-> message]
Pointer(e) == [of |-> e, code |-> 0, message |-> "stock"]

VARIABLES
    tracing,    \* the process has a tracer provider
    errors,     \* the shared error values: message and details
    at,         \* request -> "new", "chain", "validate", "work", "write", "unwind", "over"
    route,      \* request -> its route
    rest,       \* request -> handlers still to run; empty after c.Abort
    raised,     \* request -> the error its handler holds
    panicked,   \* requests with a panic on its way up
    headers,    \* request -> response headers set
    sent,       \* request -> response headers when the status line was written
    status,     \* request -> status code; 0: not written
    bodies,     \* request -> bodies written
    span,       \* request -> "none", "open" or "ended"
    logged      \* request -> status code in the log; 0: not logged

answerVars == <<sent, status, bodies>>
chainVars ==
    <<tracing, errors, at, route, rest, raised, panicked, headers, answerVars, span, logged>>
vars == <<chainVars, listVars>>

Header == {"Cache-Control", "Allow", "X-Frame-Options", "X-Trace-Id"}

TypeOK ==
    /\ ListTypeOK
    /\ tracing \in BOOLEAN
    /\ errors \in [Shared -> [message : Message, details : {"", "stock"} \cup Requests]]
    /\ at \in [Requests -> {"new", "chain", "validate", "work", "write", "unwind", "over"}]
    /\ route \in [Requests -> DOMAIN Chain]
    /\ rest \in [Requests -> Seq({"plain", "noRoute", "authn", "authz", "handler"})]
    /\ raised \in [Requests -> Raised]
    /\ bodies \in [Requests -> Seq([code : Nat, message : Message])]
    /\ panicked \in SUBSET Requests
    /\ headers \in [Requests -> SUBSET Header]
    /\ sent \in [Requests -> SUBSET Header]
    /\ status \in [Requests -> {0, 200, 500, 502}]
    /\ span \in [Requests -> {"none", "open", "ended"}]
    /\ logged \in [Requests -> {0, 200, 500, 502}]

Init ==
    /\ ListInit
    /\ tracing \in BOOLEAN
    /\ errors = [e \in Shared |-> [message |-> "stock", details |-> ""]]
    /\ at = [r \in Requests |-> "new"]
    /\ route \in [Requests -> DOMAIN Chain]
    /\ \A r \in Requests : route[r] = "list" => r = Lister
    /\ rest = [r \in Requests |-> <<>>]
    /\ raised = [r \in Requests |-> NoError]
    /\ panicked = {}
    /\ headers = [r \in Requests |-> {}]
    /\ sent = [r \in Requests |-> {}]
    /\ status = [r \in Requests |-> 0]
    /\ bodies = [r \in Requests |-> <<>>]
    /\ span = [r \in Requests |-> "none"]
    /\ logged = [r \in Requests |-> 0]

-----------------------------------------------------------------------------
(* Errors.                                                                 *)

Raise(r, error) == raised' = [raised EXCEPT ![r] = error] /\ UNCHANGED errors

\* Mutant: the message is set in the shared value.
WithMessageInPlace(r, e) ==
    /\ errors' = [errors EXCEPT ![e].message = r]
    /\ raised' = [raised EXCEPT ![r] = Pointer(e)]

\* A copy with the message of this request.
WithMessage(r, e) == Raise(r, Own(Codes[e], r))

\* The details are set in the shared value, which requests race to do.
WithDetails(r, e) ==
    /\ errors' = [errors EXCEPT ![e].details = r]
    /\ raised' = [raised EXCEPT ![r] = Pointer(e)]

\* FromError and FromBizError: the code and message of the answer.
FromError(error) ==
    IF error.of \in Shared THEN [code |-> Codes[error.of], message |-> errors[error.of].message]
    ELSE [code |-> error.code, message |-> error.message]

GetHTTPCode(code) ==
    LET level == (code \div 10000) % 10 IN
    CASE code = 0 -> 200
      [] code # 0 /\ level \in {4, 5} -> 502
      [] code # 0 /\ level \in {2, 3} -> 200
      [] OTHER -> 500

-----------------------------------------------------------------------------
(* The chain.                                                              *)

\* WriteHeader: the first status is the one that counts.
WriteHeader(r, code) ==
    IF status[r] # 0 THEN UNCHANGED <<status, sent>>
    ELSE /\ status' = [status EXCEPT ![r] = code]
         /\ sent' = [sent EXCEPT ![r] = headers'[r]]

Respond(r, body) ==
    /\ WriteHeader(r, GetHTTPCode(body.code))
    /\ bodies' = [bodies EXCEPT ![r] = Append(@, body)]

\* Mutant: the trace header is set after the rest of the chain, too late to be sent.
InjectLate(open) == {}

\* The trace header of a request with a span, set before the rest of the chain.
Inject(open) == IF open THEN {"X-Trace-Id"} ELSE {}

\* Recovery, NoCache, Cors, Secure, otelgin, Observability and Context.  Cors
\* answers a preflight itself, and otelgin has no span for /metrics.
Arrive(r) ==
    /\ at[r] = "new"
    /\ span' = [span EXCEPT ![r] =
        IF tracing /\ route[r] \notin {"preflight", "metrics"} THEN "open" ELSE "none"]
    /\ rest' = [rest EXCEPT ![r] = Chain[route[r]]]
    /\ headers' = [headers EXCEPT ![r] = {"Cache-Control"} \cup
        IF route[r] = "preflight" THEN {"Allow"}
        ELSE {"X-Frame-Options"} \cup Inject(span'[r] = "open")]
    /\ IF route[r] = "preflight"
       THEN at' = [at EXCEPT ![r] = "unwind"] /\ WriteHeader(r, 200)
       ELSE at' = [at EXCEPT ![r] = "chain"] /\ UNCHANGED <<status, sent>>
    /\ UNCHANGED <<tracing, errors, route, raised, panicked, bodies, logged, listVars>>

\* What the steps between the two ends of the chain leave alone.
Constant == UNCHANGED <<tracing, route, panicked, headers, span, logged>>

\* c.Next, by the loop of the middlewares outside.
Proceed(r) ==
    /\ at' = [at EXCEPT ![r] = IF Tail(rest[r]) = <<>> THEN "unwind" ELSE "chain"]
    /\ rest' = [rest EXCEPT ![r] = Tail(@)]

\* /metrics and /healthz.
Plain(r) ==
    /\ at[r] = "chain" /\ Head(rest[r]) = "plain"
    /\ Constant /\ UNCHANGED <<errors, raised, listVars>>
    /\ Respond(r, [code |-> 0, message |-> "success"])
    /\ Proceed(r)

NoRoute(r) ==
    /\ at[r] = "chain" /\ Head(rest[r]) = "noRoute"
    /\ Raise(r, Pointer("ErrPageNotFound"))
    /\ at' = [at EXCEPT ![r] = "write"]
    /\ UNCHANGED <<rest, answerVars, listVars>> /\ Constant

\* AuthnMiddleware, RefreshAuthnMiddleware and AuthzMiddleware.
Check(r) ==
    /\ at[r] = "chain" /\ Head(rest[r]) \in {"authn", "authz"}
    /\ \/ /\ Proceed(r) /\ UNCHANGED <<errors, raised>>
       \/ /\ \E e \in IF Head(rest[r]) = "authn" THEN {"ErrTokenInvalid", "ErrUnauthenticated"}
                      ELSE {"ErrPermissionDenied"} : WithMessage(r, e)
          /\ at' = [at EXCEPT ![r] = "write"]
          /\ UNCHANGED rest
    /\ UNCHANGED <<answerVars, listVars>> /\ Constant

\* ReadRequest, up to the validators; HandleNoBodyRequest has nothing to bind
\* and, for the refresh, nothing to validate.
Bind(r) ==
    /\ at[r] = "chain" /\ Head(rest[r]) = "handler"
    /\ \/ /\ route[r] # "refresh"
          /\ WithDetails(r, "ErrBind")
          /\ at' = [at EXCEPT ![r] = "write"]
       \/ /\ at' = [at EXCEPT ![r] = IF route[r] = "refresh" THEN "work" ELSE "validate"]
          /\ UNCHANGED <<errors, raised>>
    /\ UNCHANGED <<rest, answerVars, listVars>> /\ Constant

\* FinalizeRequest.  A name is validated at the routes without authentication,
\* the asking user only behind it, and a list has nothing to refuse.
Validate(r) ==
    /\ at[r] = "validate"
    /\ \/ /\ \/ route[r] \in {"login", "create"} /\ Raise(r, Pointer("ErrUsernameInvalid"))
             \/ route[r] # "list" /\ WithMessage(r, "ErrInvalidArgument")
             \/ route[r] = "protected" /\ WithMessage(r, "ErrPermissionDenied")
          /\ at' = [at EXCEPT ![r] = "write"]
       \/ /\ at' = [at EXCEPT ![r] = "work"]
          /\ UNCHANGED <<errors, raised>>
    /\ UNCHANGED <<rest, answerVars, listVars>> /\ Constant

\* The shared errors the business logic of a route returns.
BizErrors ==
    {"login"} \X {"ErrUserNotFound", "ErrPasswordInvalid", "ErrSignToken"}
    \cup {<<"create", "ErrUserAlreadyExists">>, <<"refresh", "ErrSignToken">>}
    \cup {"protected"} \X {"ErrUserNotFound", "ErrUserAlreadyExists", "ErrPasswordInvalid"}

\* The business logic returns: a response, a shared error, an error of an older
\* kind with a fixed message, or any other error.  The list fails before its
\* fan-out or not at all.
Work(r) ==
    /\ at[r] = "work"
    /\ route[r] = "list" => list = "launch" /\ waiting = Users
    /\ \/ route[r] # "list" /\ Raise(r, NoError)
       \/ \E e \in Shared : <<route[r], e>> \in BizErrors /\ Raise(r, Pointer(e))
       \/ route[r] = "protected" /\ \E code \in {20101, 20103, 11001} : Raise(r, Own(code, "stock"))
       \/ route[r] \in {"create", "protected", "list"} /\ Raise(r, Own(10101, r))
    /\ at' = [at EXCEPT ![r] = "write"]
    /\ UNCHANGED <<rest, answerVars, listVars>> /\ Constant

\* The tree of menus or of permissions, asked for with a filter: the options
\* have no map to put it in, and the write panics.
FilterTree(r) ==
    /\ at[r] = "work" /\ route[r] = "protected"
    /\ panicked' = panicked \cup {r}
    /\ at' = [at EXCEPT ![r] = "unwind"]
    /\ UNCHANGED <<tracing, errors, route, rest, raised, headers, answerVars, span, logged, listVars>>

\* The list goes on, ends, or panics; a panic leaves the chain at once.
Listing ==
    /\ at[Lister] = "work" /\ route[Lister] = "list"
    /\ Go \/ Launched \/ Wait \/ Load
    /\ IF list' \in {"ok", "panic"}
       THEN at' = [at EXCEPT ![Lister] = IF list' = "ok" THEN "write" ELSE "unwind"]
       ELSE UNCHANGED at
    /\ panicked' = panicked \cup IF list' = "panic" THEN {Lister} ELSE {}
    /\ UNCHANGED <<tracing, errors, route, rest, raised, headers, answerVars, span, logged>>

Goroutine(u) == Convert(u) /\ UNCHANGED chainVars

Leave ==
    /\ route[Lister] = "list" /\ at[Lister] # "over"
    /\ Cancel /\ UNCHANGED chainVars

\* Mutant: the middlewares do not call c.Abort.
AbortNot(r) == Proceed(r)

\* A middleware aborts the chain with its answer; a final handler is the last.
Abort(r) ==
    /\ at' = [at EXCEPT ![r] = "unwind"]
    /\ rest' = [rest EXCEPT ![r] = <<>>]

\* WriteResponse and WriteBizError.
Write(r) ==
    /\ at[r] = "write"
    /\ Constant /\ UNCHANGED <<errors, raised, listVars>>
    /\ Respond(r, FromError(raised[r]))
    /\ Abort(r)

\* The way back: Observability logs, unless it skipped the request or a panic
\* passes it; otelgin ends the span in a defer; Recovery answers a panic.
Unwind(r) ==
    /\ at[r] = "unwind"
    /\ UNCHANGED <<tracing, errors, route, rest, raised, panicked, headers, bodies, listVars>>
    /\ IF r \in panicked THEN WriteHeader(r, 500) ELSE UNCHANGED <<status, sent>>
    /\ logged' = [logged EXCEPT ![r] =
        IF r \in panicked \/ route[r] \in {"preflight", "metrics"} THEN 0 ELSE status[r]]
    /\ span' = [span EXCEPT ![r] = IF @ = "open" THEN "ended" ELSE @]
    /\ at' = [at EXCEPT ![r] = "over"]

Step(r) ==
    \/ Arrive(r) \/ Plain(r) \/ NoRoute(r) \/ Check(r) \/ Bind(r) \/ Validate(r)
    \/ Work(r) \/ FilterTree(r) \/ Write(r) \/ Unwind(r) \/ (r = Lister /\ Listing)

Next ==
    \/ \E r \in Requests : Step(r)
    \/ \E u \in Users : Goroutine(u)
    \/ Leave

\* The goroutines of the requests and of the fan-out are scheduled; nothing
\* makes a client go away.
Fairness ==
    /\ \A r \in Requests : WF_vars(Step(r))
    /\ \A u \in Users : WF_vars(Goroutine(u))

Spec == Init /\ [][Next]_vars /\ Fairness

-----------------------------------------------------------------------------
(* Properties.                                                             *)

\* Requests share the error values of errorsx and errno (errorsx.go), and none
\* is answered with a message written for another: what WithDetails leaves in a
\* shared value reaches no answer.
AnswersAreOwn ==
    \A r \in Requests : \A i \in DOMAIN bodies[r] :
        bodies[r][i].message \in {"stock", "success", r}

\* Whatever refuses, fails or panics on the way, no request is answered twice
\* or not at all, and no handler starts work on a request a middleware has
\* answered (core.go, authn.go, authz.go).
AnsweredOnce ==
    \A r \in Requests :
        /\ Len(bodies[r]) <= 1
        /\ at[r] \in {"validate", "work"} => bodies[r] = <<>>
        /\ at[r] = "over" =>
            IF route[r] = "preflight" \/ r \in panicked THEN bodies[r] = <<>> /\ status[r] # 0
            ELSE Len(bodies[r]) = 1

\* A client gets the ID of the trace its request is in, whichever handler wrote
\* the answer, and the log entry of the trace has the status the client got
\* (observability.go); only a panic goes unlogged.
TracesTell ==
    \A r \in Requests :
        /\ status[r] # 0 /\ span[r] # "none" => "X-Trace-Id" \in sent[r]
        /\ at[r] = "over" =>
            /\ span[r] # "open"
            /\ logged[r] = status[r] \/ r \in panicked \/ route[r] \in {"preflight", "metrics"}

\* For a client that stays, every user of the page is in the answer (list.go):
\* no result is looked for before the goroutine that stores it has ended.  A
\* list panics, on a user that is not there, only when its client has left.
NobodyMissing ==
    /\ list = "ok" => loaded = Users
    /\ list = "panic" => cancelled

\* Every request is answered: neither the bounded group nor a panic holds one.
EveryRequestAnswered == \A r \in Requests : at[r] # "new" ~> at[r] = "over"
=============================================================================
